----------------------- MODULE PendingReferenceRetry -----------------------
(***************************************************************************)
(* The clock of pending references: PendingReferenceScheduler.tick and     *)
(* WagerTransactionService.reprocessPendingReferences of several           *)
(* instances, over rows that wait for the transaction they reverse.        *)
(* WagerSettlement has what a settlement does; this module has when a row  *)
(* is tried again and when it is given up.                                 *)
(*                                                                         *)
(* Times are relative: the present is 0, Tick moves every stored time one  *)
(* tick into the past, and nothing further back than LongAgo is told       *)
(* apart.  The clocks of the instances agree.                              *)
(***************************************************************************)
EXTENDS Integers, FiniteSets

CONSTANTS
  RowCount,     \* rows that may come to wait, numbered in the order of createdAt
  Instances,    \* instances that run the scheduler
  Limit,        \* rows of one pass
  Poll,         \* WAGER_PENDING_WORKER_POLL_MS
  BaseDelay,    \* PENDING_REFERENCE_BASE_DELAY_MS
  MaxDelay,     \* PENDING_REFERENCE_MAX_DELAY_MS
  MaxAttempts,  \* PENDING_REFERENCE_MAX_ATTEMPTS
  TimeToLive,   \* PENDING_REFERENCE_TTL_MS
  DelaySum,     \* the delays of the first n attempts, added up
  MaxPass,      \* bound on the ticks a pass takes
  MaxFaults     \* bound on errors and restarts

ASSUME RetryAssumption ==
  /\ RowCount \in Nat
  /\ Instances # {}    \* somebody runs the scheduler
  /\ Limit \in Nat \ {0}
  /\ Poll \in Nat \ {0}
  /\ BaseDelay \in Nat
  /\ MaxDelay \in Nat
  /\ MaxAttempts \in Nat
  /\ TimeToLive \in Nat
  /\ MaxPass \in Nat
  /\ MaxFaults \in Nat

\* pendingReferenceDelayMs
Backoff(n) == LET delay == BaseDelay * 2 ^ (IF n > 0 THEN n - 1 ELSE 0)
              IN  IF delay > MaxDelay THEN MaxDelay ELSE delay

ASSUME DelayAssumption ==
  /\ \A n \in 1..MaxAttempts : Backoff(n) \in 0..MaxDelay
  /\ DelaySum \in [0..MaxAttempts -> Nat]
  /\ DelaySum[0] = 0
  /\ \A n \in 1..MaxAttempts : DelaySum[n] = DelaySum[n - 1] + Backoff(n)

VARIABLES
  status,     \* of each row: ABSENT, PENDING_REFERENCE, SETTLED or EXPIRED
  elsewhere,  \* rows whose reference was stored in another wallet
  attempts,   \* column attempt_count
  nextAt,     \* column next_attempt_at; LongAgo stands for NULL
  age,        \* the present minus created_at
  running,    \* instances whose flag `running` is set
  batch,      \* the rows a pass has not come to yet
  passAge,    \* the present minus the `now` a pass was started with
  timer,      \* ticks until the interval of an instance fires
  faults      \* errors and restarts so far

rows == <<status, elsewhere, attempts, nextAt, age>>
passes == <<running, batch, passAge, timer>>
vars == <<rows, passes, faults>>

Rows == 1..RowCount

\* A pass takes at most MaxPass ticks: none was started before this.
LongAgo == 0 - MaxPass

-----------------------------------------------------------------------------
(* Helpers *)

Least(m, n) == IF m < n THEN m ELSE n

Waiting(r) == status[r] = "PENDING_REFERENCE"

\* The `now` of the pass of instance i.
Now(i) == 0 - passAge[i]

\* The rows that reprocessPendingReferences would find at time now.
Due(now) == { r \in Rows : Waiting(r) /\ nextAt[r] <= now }

\* The first Limit of them, oldest first.
DueBatch(now) ==
  { r \in Due(now) : Cardinality({ q \in Due(now) : q < r }) < Limit }

\* The pass of instance i comes to row r: rows are numbered by createdAt.
InHand(i, r) == r \in batch[i] /\ \A q \in batch[i] : r <= q

\* Mutant: reprocessOne only looks at the status again, not at the time.
StillDue_ByStatus(i, r) == Waiting(r)

\* What reprocessOne checks again under the wallet lock.
StillDue(i, r) == Waiting(r) /\ nextAt[r] <= Now(i)

\* Mutant: the attempt limit is off by one.
Expired_OneLate(i, r) ==
  \/ attempts[r] > MaxAttempts
  \/ Now(i) + age[r] >= TimeToLive

\* The budget of a row is spent, as the pass of i sees it.
Expired(i, r) ==
  \/ attempts[r] >= MaxAttempts
  \/ Now(i) + age[r] >= TimeToLive

\* The instance is done with row r, and after the last one at rest.
Proceed(i, r) ==
  LET rest == batch[i] \ {r}
  IN  /\ batch' = [batch EXCEPT ![i] = rest]
      /\ running' = IF rest = {} THEN running \ {i} ELSE running
      /\ passAge' = [passAge EXCEPT ![i] = IF rest = {} THEN 0 ELSE @]
      /\ UNCHANGED timer

-----------------------------------------------------------------------------
(* The rows *)

\* submit parks a reversal whose reference is missing.
Park(r) ==
  /\ status[r] = "ABSENT"
  /\ \A q \in 1..(r - 1) : status[q] # "ABSENT"
  /\ status' = [status EXCEPT ![r] = "PENDING_REFERENCE"]
  /\ UNCHANGED <<elsewhere, attempts, nextAt, age, passes, faults>>

\* The reference is settled in the row's wallet, and the row with it
\* (resolveDependents; syncWagerRow clears next_attempt_at).
Resolve(r) ==
  /\ Waiting(r)
  /\ status' = [status EXCEPT ![r] = "SETTLED"]
  /\ nextAt' = [nextAt EXCEPT ![r] = LongAgo]
  /\ UNCHANGED <<elsewhere, attempts, age, passes, faults>>

\* The reference is settled in another wallet, whose dependents do not include r.
ReferenceElsewhere(r) ==
  /\ Waiting(r)
  /\ r \notin elsewhere
  /\ elsewhere' = elsewhere \cup {r}
  /\ UNCHANGED <<status, attempts, nextAt, age, passes, faults>>

-----------------------------------------------------------------------------
(* The passes *)

\* The interval fires: a new pass, unless one is running.
Fire(i) ==
  /\ timer[i] = 0
  /\ timer' = [timer EXCEPT ![i] = Poll]
  /\ IF i \in running \/ DueBatch(0) = {}
     THEN UNCHANGED <<running, batch>>
     ELSE /\ running' = running \cup {i}
          /\ batch' = [batch EXCEPT ![i] = DueBatch(0)]
  /\ UNCHANGED <<rows, passAge, faults>>

\* The row was settled or tried by somebody else since the pass read it.
SkipRow(i, r) ==
  /\ InHand(i, r)
  /\ ~StillDue(i, r)
  /\ Proceed(i, r)
  /\ UNCHANGED <<rows, faults>>

\* The reference is there, in another wallet: the row is rejected for its scope.
Settle(i, r) ==
  /\ InHand(i, r)
  /\ StillDue(i, r)
  /\ r \in elsewhere
  /\ status' = [status EXCEPT ![r] = "SETTLED"]
  /\ nextAt' = [nextAt EXCEPT ![r] = LongAgo]
  /\ Proceed(i, r)
  /\ UNCHANGED <<elsewhere, attempts, age, faults>>

\* Still missing: one more attempt, and a delay counted from the start of the pass.
Reschedule(i, r) ==
  /\ InHand(i, r)
  /\ StillDue(i, r)
  /\ r \notin elsewhere
  /\ ~Expired(i, r)
  /\ attempts' = [attempts EXCEPT ![r] = @ + 1]
  /\ nextAt' = [nextAt EXCEPT ![r] = Now(i) + Backoff(attempts[r] + 1)]
  /\ Proceed(i, r)
  /\ UNCHANGED <<status, elsewhere, age, faults>>

\* Still missing and its budget spent: rejected with UNRESOLVED_REFERENCE.
GiveUp(i, r) ==
  /\ InHand(i, r)
  /\ StillDue(i, r)
  /\ r \notin elsewhere
  /\ Expired(i, r)
  /\ status' = [status EXCEPT ![r] = "EXPIRED"]
  /\ nextAt' = [nextAt EXCEPT ![r] = LongAgo]
  /\ Proceed(i, r)
  /\ UNCHANGED <<elsewhere, attempts, age, faults>>

\* Mutant: `running` is not reset when the pass throws.
Fail_StaysRunning(i) ==
  /\ batch[i] # {}
  /\ faults < MaxFaults
  /\ faults' = faults + 1
  /\ batch' = [batch EXCEPT ![i] = {}]
  /\ passAge' = [passAge EXCEPT ![i] = 0]
  /\ UNCHANGED <<rows, running, timer>>

\* An error in one row: its transaction rolls back, the rest of the pass is
\* dropped and the interval goes on.
Fail(i) ==
  /\ batch[i] # {}
  /\ faults < MaxFaults
  /\ faults' = faults + 1
  /\ running' = running \ {i}
  /\ batch' = [batch EXCEPT ![i] = {}]
  /\ passAge' = [passAge EXCEPT ![i] = 0]
  /\ UNCHANGED <<rows, timer>>

\* The process dies and is started again, with an interval of its own.
Restart(i) ==
  /\ faults < MaxFaults
  /\ faults' = faults + 1
  /\ running' = running \ {i}
  /\ batch' = [batch EXCEPT ![i] = {}]
  /\ passAge' = [passAge EXCEPT ![i] = 0]
  /\ timer' = [timer EXCEPT ![i] = Poll]
  /\ UNCHANGED rows

-----------------------------------------------------------------------------
(* Time *)

\* What the delays add up to until the attempts are spent.
Window == DelaySum[MaxAttempts]

\* From the time a row is due until it is tried: a pass under way, the interval,
\* and the pass that comes to it last.
Lateness == Poll + 2 * MaxPass

\* The age at which a waiting row has been given up, had nothing failed: by its
\* time to live, noticed after one more delay, or by its attempts.
Deadline == Least(TimeToLive + MaxDelay + Lateness, Window + (MaxAttempts + 1) * Lateness)

\* What one error or restart may add.
FaultDelay == Poll + MaxPass

\* Ages from this on are not told apart.
OldAge == MaxPass + Window + Deadline + MaxFaults * FaultDelay + 1

\* One tick passes.  Intervals fire on time and passes take at most MaxPass.
Tick ==
  /\ \A i \in Instances : timer[i] > 0 /\ (batch[i] # {} => passAge[i] < MaxPass)
  /\ timer' = [i \in Instances |-> timer[i] - 1]
  /\ passAge' = [i \in Instances |-> IF batch[i] # {} THEN passAge[i] + 1 ELSE 0]
  /\ age' = [r \in Rows |-> IF Waiting(r) THEN Least(age[r] + 1, OldAge) ELSE age[r]]
  /\ nextAt' = [r \in Rows |-> IF nextAt[r] > LongAgo THEN nextAt[r] - 1 ELSE LongAgo]
  /\ UNCHANGED <<status, elsewhere, attempts, running, batch, faults>>

-----------------------------------------------------------------------------
(* The specification *)

Init ==
  /\ status = [r \in Rows |-> "ABSENT"]
  /\ elsewhere = {}
  /\ attempts = [r \in Rows |-> 0]
  /\ nextAt = [r \in Rows |-> LongAgo]
  /\ age = [r \in Rows |-> 0]
  /\ running = {}
  /\ batch = [i \in Instances |-> {}]
  /\ passAge = [i \in Instances |-> 0]
  /\ timer \in [Instances -> 1..Poll]
  /\ faults = 0

SchedulerStep(i) ==
  \/ Fire(i)
  \/ \E r \in Rows : SkipRow(i, r) \/ Settle(i, r) \/ Reschedule(i, r) \/ GiveUp(i, r)

Next ==
  \/ \E r \in Rows : Park(r) \/ Resolve(r) \/ ReferenceElsewhere(r)
  \/ \E i \in Instances : SchedulerStep(i) \/ Fail(i) \/ Restart(i)
  \/ Tick

Spec == Init /\ [][Next]_vars

-----------------------------------------------------------------------------
(* Properties *)

\* Rows, passes and times have their ranges, and no row is tried more often than
\* its budget allows, whoever tries it.
TypeOK ==
  /\ status \in [Rows -> {"ABSENT", "PENDING_REFERENCE", "SETTLED", "EXPIRED"}]
  /\ elsewhere \subseteq Rows
  /\ attempts \in [Rows -> 0..MaxAttempts]
  /\ nextAt \in [Rows -> LongAgo..MaxDelay]
  /\ age \in [Rows -> 0..OldAge]
  /\ running \subseteq Instances
  /\ batch \in [Instances -> SUBSET Rows]
  /\ passAge \in [Instances -> 0..MaxPass]
  /\ timer \in [Instances -> 0..Poll]
  /\ faults \in 0..MaxFaults

\* A reference is given all the time the policy promises, however many instances
\* retry and however stale their passes are: when a row is given up it has waited
\* for its time to live or for the sum of all the delays, whichever is shorter.
WaitsOutTheWindow ==
  [][ \A r \in Rows :
        Waiting(r) /\ status'[r] = "EXPIRED" =>
          age[r] >= Least(Window, TimeToLive) ]_vars

\* And not much more than that: where a pass has room for all the waiting rows, a
\* row still waits only up to its deadline, which every error and every restart
\* may put off by one interval and one pass.
GivenUpInTime ==
  RowCount <= Limit =>
    \A r \in Rows : Waiting(r) => age[r] <= Deadline + faults * FaultDelay
=============================================================================
