--------------------- MODULE PendingReferenceRetryProofs ---------------------
(***************************************************************************)
(* Theorems about PendingReferenceRetry, for every number of rows,         *)
(* instances, attempts and delays.                                         *)
(***************************************************************************)
EXTENDS PendingReferenceRetry, FiniteSetTheorems, WellFoundedInduction, TLAPS

-----------------------------------------------------------------------------
(* The inductive invariant *)

\* A row that waits has been given its delays so far: when it comes due next it
\* will be at least as old as the delays of its attempts.
Waited(r) ==
  \/ age[r] = OldAge
  \/ attempts[r] = 0
  \/ age[r] + nextAt[r] >= DelaySum[attempts[r]]

\* Rows that wait have waited for their delays, and new ones start without attempts.
RowsWaited ==
  \A r \in Rows : /\ Waiting(r) => Waited(r)
                  /\ status[r] = "ABSENT" => attempts[r] = 0

\* An instance that is not in a pass has no rows and no pass time.
RestingInstances ==
  \A i \in Instances : /\ i \notin running => batch[i] = {}
                       /\ batch[i] = {} => passAge[i] = 0

\* The rows of a pass were parked before the pass took its time.
BatchesParked ==
  \A i \in Instances : \A r \in batch[i] :
    /\ status[r] # "ABSENT"
    /\ Waiting(r) => age[r] >= passAge[i]

RetryInv == TypeOK /\ RestingInstances /\ BatchesParked /\ RowsWaited

\* The window, the deadline and the age that are counted from are natural numbers.
LEMMA BoundsAreNatural ==
  /\ Window \in Nat
  /\ OldAge \in Nat
  /\ OldAge >= MaxPass + Window
  /\ LongAgo \in Int /\ LongAgo <= 0
<1>1. Window \in Nat
  BY RetryAssumption, DelayAssumption DEF Window
<1>2. Lateness \in Nat /\ FaultDelay \in Nat
  BY RetryAssumption DEF Lateness, FaultDelay
<1>3. (MaxAttempts + 1) * Lateness \in Nat /\ MaxFaults * FaultDelay \in Nat
  BY <1>2, RetryAssumption
<1>4. Deadline \in Nat
  BY <1>1, <1>2, <1>3, RetryAssumption DEF Deadline, Least
<1> QED
  BY <1>1, <1>3, <1>4, RetryAssumption DEF OldAge, LongAgo

-----------------------------------------------------------------------------
(* Steps *)

LEMMA InitRetryInv == ASSUME Init PROVE RetryInv
<1>1. TypeOK
  BY BoundsAreNatural, RetryAssumption DEF Init, TypeOK, Rows
<1> QED
  BY <1>1 DEF Init, RetryInv, RestingInstances, BatchesParked, RowsWaited, Waiting

\* What Proceed does: the instance is done with one row.
LEMMA ProceedKeeps ==
  ASSUME TypeOK, RestingInstances,
         NEW i \in Instances, NEW r \in Rows, InHand(i, r), Proceed(i, r)
  PROVE  /\ running' \subseteq Instances
         /\ batch' \in [Instances -> SUBSET Rows]
         /\ passAge' \in [Instances -> 0..MaxPass]
         /\ timer' = timer
         /\ \A j \in Instances : \A q \in batch'[j] :
              q \in batch[j] /\ passAge'[j] = passAge[j]
         /\ RestingInstances'
<1>1. 0 \in 0..MaxPass
  BY RetryAssumption
<1> QED
  BY <1>1 DEF Proceed, InHand, TypeOK, RestingInstances

\* A new row has had no attempts.
LEMMA ParkKeeps ==
  ASSUME RetryInv, NEW r \in Rows, Park(r)
  PROVE  RetryInv'
<1>1. TypeOK'
  BY DEF RetryInv, Park, TypeOK, passes
<1>2. RestingInstances'
  BY DEF RetryInv, Park, RestingInstances, passes
<1>3. BatchesParked'
  BY DEF RetryInv, Park, BatchesParked, passes, Waiting, TypeOK
<1>4. RowsWaited'
  BY DEF RetryInv, Park, RowsWaited, Waited, Waiting, TypeOK
<1> QED
  BY <1>1, <1>2, <1>3, <1>4 DEF RetryInv

\* A row that is settled does not wait any more.
LEMMA ResolveKeeps ==
  ASSUME RetryInv, NEW r \in Rows, Resolve(r)
  PROVE  RetryInv'
<1>1. TypeOK'
  BY BoundsAreNatural, RetryAssumption DEF RetryInv, Resolve, TypeOK, passes
<1>2. RestingInstances'
  BY DEF RetryInv, Resolve, RestingInstances, passes
<1>3. BatchesParked'
  BY DEF RetryInv, Resolve, BatchesParked, passes, Waiting, TypeOK
<1>4. RowsWaited'
  BY DEF RetryInv, Resolve, RowsWaited, Waited, Waiting, TypeOK
<1> QED
  BY <1>1, <1>2, <1>3, <1>4 DEF RetryInv

LEMMA ReferenceElsewhereKeeps ==
  ASSUME RetryInv, NEW r \in Rows, ReferenceElsewhere(r)
  PROVE  RetryInv'
BY DEF RetryInv, ReferenceElsewhere, TypeOK, passes, RestingInstances, BatchesParked,
       RowsWaited, Waited, Waiting

-----------------------------------------------------------------------------
(* Passes *)

\* A pass takes its time now, from rows that wait.
LEMMA FireKeeps ==
  ASSUME RetryInv, NEW i \in Instances, Fire(i)
  PROVE  RetryInv'
<1>1. DueBatch(0) \subseteq { r \in Rows : Waiting(r) }
  BY DEF DueBatch, Due
<1>2. TypeOK'
  BY <1>1, RetryAssumption DEF RetryInv, Fire, TypeOK, rows
<1>3. RestingInstances'
  BY DEF RetryInv, Fire, RestingInstances, TypeOK
<1>4. BatchesParked'
  <2> SUFFICES ASSUME NEW j \in Instances, NEW r \in batch'[j]
               PROVE  status[r] # "ABSENT" /\ (Waiting(r) => age[r] >= passAge[j])
    BY DEF BatchesParked, Fire, rows, Waiting
  <2>1. CASE r \in batch[j]
    BY <2>1 DEF RetryInv, BatchesParked
  <2>2. CASE r \notin batch[j]
    <3>1. j = i /\ i \notin running /\ r \in DueBatch(0)
      BY <2>2 DEF Fire, RetryInv, TypeOK
    <3>2. passAge[j] = 0
      BY <3>1 DEF RetryInv, RestingInstances
    <3>3. r \in Rows /\ Waiting(r)
      BY <1>1, <3>1
    <3> QED
      BY <3>2, <3>3 DEF RetryInv, TypeOK, Waiting
  <2> QED
    BY <2>1, <2>2
<1>5. RowsWaited'
  BY DEF RetryInv, Fire, RowsWaited, Waited, Waiting, rows
<1> QED
  BY <1>2, <1>3, <1>4, <1>5 DEF RetryInv

\* A pass that ends, or one row less of it, leaves what it says of the others.
LEMMA ShrinkingBatches ==
  ASSUME BatchesParked, UNCHANGED age,
         \A j \in Instances : \A r \in batch'[j] :
           r \in batch[j] /\ passAge'[j] = passAge[j],
         \A r \in Rows : /\ status[r] # "ABSENT" => status'[r] # "ABSENT"
                         /\ status'[r] = "PENDING_REFERENCE" => Waiting(r),
         batch \in [Instances -> SUBSET Rows]
  PROVE  BatchesParked'
<1> SUFFICES ASSUME NEW i \in Instances, NEW r \in batch'[i]
             PROVE  /\ status'[r] # "ABSENT"
                    /\ status'[r] = "PENDING_REFERENCE" => age'[r] >= passAge'[i]
  BY DEF BatchesParked, Waiting
<1>1. r \in batch[i] /\ r \in Rows /\ passAge'[i] = passAge[i]
  OBVIOUS
<1>2. /\ status[r] # "ABSENT"
      /\ Waiting(r) => age[r] >= passAge[i]
  BY <1>1 DEF BatchesParked
<1> QED
  BY <1>1, <1>2

LEMMA SkipRowKeeps ==
  ASSUME RetryInv, NEW i \in Instances, NEW r \in Rows, SkipRow(i, r)
  PROVE  RetryInv'
<1>1. /\ InHand(i, r) /\ Proceed(i, r)
      /\ UNCHANGED <<status, elsewhere, attempts, nextAt, age, faults>>
  BY DEF SkipRow, rows
<1>2. TypeOK'
  BY <1>1, ProceedKeeps DEF RetryInv, TypeOK
<1>3. RestingInstances'
  BY <1>1, ProceedKeeps DEF RetryInv
<1>4. BatchesParked'
  BY <1>1, ProceedKeeps, ShrinkingBatches DEF RetryInv, TypeOK, Waiting
<1>5. RowsWaited'
  BY <1>1 DEF RetryInv, RowsWaited, Waited, Waiting
<1> QED
  BY <1>2, <1>3, <1>4, <1>5 DEF RetryInv

\* Settling a row and giving it up end its waiting.
LEMMA EndOfWaiting ==
  ASSUME RetryInv, NEW i \in Instances, NEW r \in Rows, InHand(i, r), Proceed(i, r),
         NEW final \in {"SETTLED", "EXPIRED"},
         status' = [status EXCEPT ![r] = final],
         nextAt' = [nextAt EXCEPT ![r] = LongAgo],
         UNCHANGED <<elsewhere, attempts, age, faults>>
  PROVE  RetryInv'
<1>1. TypeOK'
  BY ProceedKeeps, BoundsAreNatural, RetryAssumption DEF RetryInv, TypeOK
<1>2. RestingInstances'
  BY ProceedKeeps DEF RetryInv
<1>3. BatchesParked'
  BY ProceedKeeps, ShrinkingBatches DEF RetryInv, TypeOK, Waiting
<1>4. RowsWaited'
  BY DEF RetryInv, RowsWaited, Waited, Waiting, TypeOK
<1> QED
  BY <1>1, <1>2, <1>3, <1>4 DEF RetryInv

\* The next delay starts when the previous ones are over: at the start of the pass
\* the row was due, and it was there.
LEMMA RescheduleKeeps ==
  ASSUME RetryInv, NEW i \in Instances, NEW r \in Rows, Reschedule(i, r)
  PROVE  RetryInv'
<1> DEFINE k == attempts[r]
<1>1. /\ InHand(i, r) /\ Proceed(i, r) /\ Waiting(r)
      /\ nextAt[r] <= 0 - passAge[i]
      /\ k < MaxAttempts /\ k \in Nat
      /\ UNCHANGED <<status, elsewhere, age, faults>>
      /\ attempts' = [attempts EXCEPT ![r] = k + 1]
      /\ nextAt' = [nextAt EXCEPT ![r] = 0 - passAge[i] + Backoff(k + 1)]
  BY RetryAssumption DEF Reschedule, StillDue, Expired, Now, RetryInv, TypeOK
<1>2. k + 1 \in 1..MaxAttempts /\ Backoff(k + 1) \in 0..MaxDelay
  <2>1. k + 1 \in 1..MaxAttempts
    BY <1>1, RetryAssumption
  <2> HIDE DEF k
  <2> QED
    BY <2>1, DelayAssumption
<1>3. TypeOK'
  <2>1. passAge[i] \in 0..MaxPass
    BY DEF RetryInv, TypeOK
  <2>2. 0 - passAge[i] + Backoff(k + 1) \in LongAgo..MaxDelay
    BY <1>2, <2>1, RetryAssumption DEF LongAgo
  <2>3. /\ nextAt' \in [Rows -> LongAgo..MaxDelay]
        /\ attempts' \in [Rows -> 0..MaxAttempts]
    BY <1>1, <1>2, <2>2, RetryAssumption DEF RetryInv, TypeOK
  <2> QED
    BY <1>1, <2>3, ProceedKeeps DEF RetryInv, TypeOK
<1>4. RestingInstances'
  BY <1>1, ProceedKeeps DEF RetryInv
<1>5. BatchesParked'
  BY <1>1, ProceedKeeps, ShrinkingBatches DEF RetryInv, TypeOK, Waiting
<1>6. RowsWaited'
  <2>1. age[r] >= passAge[i]
    BY <1>1 DEF RetryInv, BatchesParked, InHand
  <2>2. /\ age[r] \in Int /\ nextAt[r] \in Int /\ passAge[i] \in Int
        /\ DelaySum[k] \in Int
        /\ DelaySum[k + 1] = DelaySum[k] + Backoff(k + 1)
    BY <1>1, <1>2, RetryAssumption, DelayAssumption, BoundsAreNatural DEF RetryInv, TypeOK
  <2>3. age[r] = OldAge \/ age[r] - passAge[i] >= DelaySum[k]
    <3>1. CASE k = 0
      BY <2>1, <2>2, <3>1, DelayAssumption
    <3>2. CASE k # 0
      BY <1>1, <2>2, <3>2 DEF RetryInv, RowsWaited, Waited
    <3> QED
      BY <3>1, <3>2
  <2>4. nextAt'[r] = 0 - passAge[i] + Backoff(k + 1) /\ attempts'[r] = k + 1
    BY <1>1 DEF RetryInv, TypeOK
  <2>5. Backoff(k + 1) \in Int
    BY <1>2, RetryAssumption
  <2>6. age[r] = OldAge \/ age[r] + nextAt'[r] >= DelaySum[k + 1]
    BY <2>2, <2>3, <2>4, <2>5
  <2>7. Waited(r)'
    BY <1>1, <2>4, <2>6 DEF Waited, OldAge, Deadline, Window, Lateness, FaultDelay
  <2> QED
    BY <1>1, <2>7 DEF RetryInv, RowsWaited, Waited, Waiting, TypeOK
<1> QED
  BY <1>3, <1>4, <1>5, <1>6 DEF RetryInv

\* An error or a restart drops the rest of a pass.
LEMMA DroppedPassKeeps ==
  ASSUME RetryInv, NEW i \in Instances, Fail(i) \/ Restart(i)
  PROVE  RetryInv'
<1>1. /\ UNCHANGED <<status, elsewhere, attempts, nextAt, age>>
      /\ faults < MaxFaults /\ faults' = faults + 1
      /\ running' = running \ {i}
      /\ batch' = [batch EXCEPT ![i] = {}]
      /\ passAge' = [passAge EXCEPT ![i] = 0]
      /\ timer' = timer \/ timer' = [timer EXCEPT ![i] = Poll]
  BY DEF Fail, Restart, rows
<1>2. TypeOK'
  BY <1>1, RetryAssumption DEF RetryInv, TypeOK
<1>3. RestingInstances'
  BY <1>1 DEF RetryInv, RestingInstances, TypeOK
<1>4. BatchesParked'
  BY <1>1, ShrinkingBatches DEF RetryInv, TypeOK, Waiting
<1>5. RowsWaited'
  BY <1>1 DEF RetryInv, RowsWaited, Waited, Waiting
<1> QED
  BY <1>2, <1>3, <1>4, <1>5 DEF RetryInv

-----------------------------------------------------------------------------
(* Time *)

\* A row gets older as fast as its next attempt comes nearer.
LEMMA TickKeeps == ASSUME RetryInv, Tick PROVE RetryInv'
<1>1. TypeOK'
  <2>1. age' \in [Rows -> 0..OldAge]
    BY BoundsAreNatural DEF RetryInv, TypeOK, Tick, Least
  <2>2. nextAt' \in [Rows -> LongAgo..MaxDelay]
    BY BoundsAreNatural, RetryAssumption DEF RetryInv, TypeOK, Tick
  <2>3. passAge' \in [Instances -> 0..MaxPass] /\ timer' \in [Instances -> 0..Poll]
    BY RetryAssumption DEF RetryInv, TypeOK, Tick
  <2> QED
    BY <2>1, <2>2, <2>3 DEF RetryInv, TypeOK, Tick
<1>2. RestingInstances'
  BY DEF RetryInv, RestingInstances, Tick, TypeOK
<1>3. BatchesParked'
  <2> SUFFICES ASSUME NEW i \in Instances, NEW r \in batch[i]
               PROVE  status[r] # "ABSENT" /\ (Waiting(r) => age'[r] >= passAge'[i])
    BY DEF BatchesParked, Tick, Waiting
  <2>1. r \in Rows /\ age[r] \in 0..OldAge /\ passAge[i] \in 0..MaxPass
    BY DEF RetryInv, TypeOK
  <2>2. passAge'[i] = passAge[i] + 1 /\ passAge'[i] <= MaxPass
    BY <2>1, RetryAssumption DEF Tick
  <2>3. ASSUME Waiting(r) PROVE age'[r] >= passAge'[i]
    <3>1. age[r] >= passAge[i]
      BY <2>3 DEF RetryInv, BatchesParked
    <3>2. age'[r] = age[r] + 1 \/ age'[r] = OldAge
      BY <2>1, <2>3 DEF Tick, Least
    <3> QED
      BY <2>1, <2>2, <3>1, <3>2, BoundsAreNatural, RetryAssumption
  <2> QED
    BY <2>3 DEF RetryInv, BatchesParked
<1>4. RowsWaited'
  <2> SUFFICES ASSUME NEW r \in Rows, Waiting(r) PROVE Waited(r)'
    BY DEF RetryInv, RowsWaited, Tick, Waiting
  <2>1. /\ age[r] \in 0..OldAge /\ nextAt[r] \in Int /\ LongAgo \in Int
        /\ attempts[r] \in 0..MaxAttempts /\ DelaySum[attempts[r]] \in Nat
    BY RetryAssumption, DelayAssumption, BoundsAreNatural DEF RetryInv, TypeOK
  <2>2. age'[r] = OldAge \/ age'[r] = age[r] + 1
    BY <2>1 DEF Tick, Least
  <2>3. age[r] = OldAge => age'[r] = OldAge
    BY <2>1, BoundsAreNatural DEF Tick, Least
  <2>4. nextAt'[r] >= nextAt[r] - 1 /\ nextAt'[r] \in Int
    BY <2>1 DEF Tick, RetryInv, TypeOK
  <2>5. Waited(r)
    BY DEF RetryInv, RowsWaited
  <2>6. \/ age'[r] = OldAge
        \/ attempts[r] = 0
        \/ age'[r] + nextAt'[r] >= DelaySum[attempts[r]]
    BY <2>1, <2>2, <2>3, <2>4, <2>5, BoundsAreNatural DEF Waited
  <2> QED
    BY <2>6 DEF Waited, Tick
<1> QED
  BY <1>1, <1>2, <1>3, <1>4 DEF RetryInv

-----------------------------------------------------------------------------
(* Theorems *)

LEMMA NextKeeps == ASSUME RetryInv, Next PROVE RetryInv'
<1>1. ASSUME NEW r \in Rows, Park(r) \/ Resolve(r) \/ ReferenceElsewhere(r) PROVE RetryInv'
  BY <1>1, ParkKeeps, ResolveKeeps, ReferenceElsewhereKeeps
<1>2. ASSUME NEW i \in Instances, Fire(i) PROVE RetryInv'
  BY <1>2, FireKeeps
<1>3. ASSUME NEW i \in Instances, NEW r \in Rows, SkipRow(i, r) PROVE RetryInv'
  BY <1>3, SkipRowKeeps
<1>4. ASSUME NEW i \in Instances, NEW r \in Rows, Settle(i, r) PROVE RetryInv'
  <2>1. status' = [status EXCEPT ![r] = "SETTLED"]
    BY <1>4 DEF Settle
  <2> QED
    BY <1>4, <2>1, EndOfWaiting DEF Settle
<1>5. ASSUME NEW i \in Instances, NEW r \in Rows, Reschedule(i, r) PROVE RetryInv'
  BY <1>5, RescheduleKeeps
<1>6. ASSUME NEW i \in Instances, NEW r \in Rows, GiveUp(i, r) PROVE RetryInv'
  <2>1. status' = [status EXCEPT ![r] = "EXPIRED"]
    BY <1>6 DEF GiveUp
  <2> QED
    BY <1>6, <2>1, EndOfWaiting DEF GiveUp
<1>7. ASSUME NEW i \in Instances, Fail(i) \/ Restart(i) PROVE RetryInv'
  BY <1>7, DroppedPassKeeps
<1>8. CASE Tick
  BY <1>8, TickKeeps
<1> QED
  BY <1>1, <1>2, <1>3, <1>4, <1>5, <1>6, <1>7, <1>8 DEF Next, SchedulerStep

\* Every reachable state of the retry clock satisfies the inductive invariant.
THEOREM RetryInvariant == Spec => []RetryInv
<1>1. Init => RetryInv
  BY InitRetryInv
<1>2. RetryInv /\ [Next]_vars => RetryInv'
  <2>1. ASSUME RetryInv, UNCHANGED vars PROVE RetryInv'
    BY <2>1 DEF RetryInv, vars, rows, passes, TypeOK, RestingInstances, BatchesParked,
                RowsWaited, Waited, Waiting
  <2> QED
    BY <2>1, NextKeeps
<1> QED
  BY <1>1, <1>2, PTL DEF Spec

\* Rows, passes and times keep their ranges; in particular no row is tried more
\* often than its budget allows, with any number of instances.
THEOREM RetryTypeCorrect == Spec => []TypeOK
<1>1. RetryInv => TypeOK
  BY DEF RetryInv
<1> QED
  BY <1>1, RetryInvariant, PTL

\* A row that is given up has waited for its delays or for its time to live.
LEMMA GiveUpIsNotEarly ==
  ASSUME RetryInv, NEW i \in Instances, NEW r \in Rows, GiveUp(i, r)
  PROVE  age[r] >= Least(Window, TimeToLive)
<1>1. /\ Waiting(r) /\ nextAt[r] <= 0 - passAge[i]
      /\ attempts[r] >= MaxAttempts \/ 0 - passAge[i] + age[r] >= TimeToLive
  BY DEF GiveUp, StillDue, Expired, Now
<1>2. /\ age[r] \in Nat /\ passAge[i] \in Nat /\ nextAt[r] \in Int
      /\ attempts[r] \in 0..MaxAttempts
  BY RetryAssumption, BoundsAreNatural DEF RetryInv, TypeOK
<1>3. CASE 0 - passAge[i] + age[r] >= TimeToLive
  BY <1>2, <1>3, RetryAssumption, BoundsAreNatural DEF Least
<1>4. CASE attempts[r] >= MaxAttempts
  <2>1. attempts[r] = MaxAttempts
    BY <1>2, <1>4, RetryAssumption
  <2>2. Waited(r)
    BY <1>1 DEF RetryInv, RowsWaited
  <2>3. age[r] >= Window
    <3>1. CASE age[r] = OldAge
      BY <3>1, BoundsAreNatural, RetryAssumption
    <3>2. CASE attempts[r] = 0
      BY <1>2, <2>1, <3>2, DelayAssumption DEF Window
    <3>3. CASE age[r] + nextAt[r] >= DelaySum[attempts[r]]
      BY <1>1, <1>2, <2>1, <3>3, BoundsAreNatural DEF Window
    <3> QED
      BY <2>2, <3>1, <3>2, <3>3 DEF Waited
  <2> QED
    BY <1>2, <2>3, RetryAssumption, BoundsAreNatural DEF Least
<1> QED
  BY <1>1, <1>3, <1>4

\* No row is given up early, however many instances retry it from passes of
\* whatever age.
THEOREM WindowIsWaitedOut == Spec => WaitsOutTheWindow
<1> DEFINE NotEarly == \A r \in Rows :
             Waiting(r) /\ status'[r] = "EXPIRED" => age[r] >= Least(Window, TimeToLive)
<1>1. RetryInv /\ [Next]_vars => [NotEarly]_vars
  <2> SUFFICES ASSUME RetryInv, Next, NEW r \in Rows, Waiting(r), status'[r] = "EXPIRED"
               PROVE  age[r] >= Least(Window, TimeToLive)
    OBVIOUS
  <2>1. /\ status[r] = "PENDING_REFERENCE"
        /\ status \in [Rows -> {"ABSENT", "PENDING_REFERENCE", "SETTLED", "EXPIRED"}]
    BY DEF Waiting, RetryInv, TypeOK
  <2>2. \E i \in Instances, q \in Rows : GiveUp(i, q) /\ q = r
    BY <2>1 DEF Next, SchedulerStep, Park, Resolve, ReferenceElsewhere, Fire, SkipRow, Settle,
                Reschedule, GiveUp, Fail, Restart, Tick, rows
  <2> QED
    BY <2>2, GiveUpIsNotEarly
<1> QED
  BY <1>1, RetryInvariant, PTL DEF Spec, WaitsOutTheWindow

-----------------------------------------------------------------------------
(* Rows are given up in time *)

\* A pass that runs has rows to come to.
RunningPassesHaveRows == \A i \in running : batch[i] # {}

\* A row that is not there yet has no age.
NewRowsAreNew == \A r \in Rows : status[r] = "ABSENT" => age[r] = 0 /\ nextAt[r] = LongAgo

\* The age at which a row is due, had it been tried on time so far: by its delays
\* so far, each attempt late, or one delay after its time to live.
DueAge(r) == Least(TimeToLive + MaxDelay, DelaySum[attempts[r]] + attempts[r] * Lateness)

\* The longest that instance i takes from now to try a row that is due: the pass
\* has it before itself, or the next pass will, or first the pass under way ends.
UntilTried(i, r) ==
  IF batch[i] = {} THEN timer[i] + MaxPass
  ELSE IF r \in batch[i] /\ nextAt[r] <= Now(i) THEN MaxPass - passAge[i]
  ELSE MaxPass - passAge[i] + Poll + MaxPass

\* The age at which row r, if it is due, has been tried by instance i at the latest.
TriedInTime(i, r) ==
  age[r] + UntilTried(i, r) <= DueAge(r) + Lateness + faults * FaultDelay

\* A row comes due in time, and once it is due some instance tries it in time.
Timely(r) ==
  IF nextAt[r] > 0 THEN age[r] + nextAt[r] <= DueAge(r) + faults * FaultDelay
  ELSE \E i \in Instances : TriedInTime(i, r)

TimelyRows == RowCount <= Limit => \A r \in Rows : Waiting(r) => Timely(r)

TimelyInv == RunningPassesHaveRows /\ NewRowsAreNew /\ TimelyRows

\* What is counted with is a natural number.
LEMMA LatenessIsNatural ==
  /\ Lateness \in Nat /\ FaultDelay \in Nat
  /\ Lateness = Poll + MaxPass + MaxPass
  /\ FaultDelay = Poll + MaxPass
  /\ \A n \in Nat : n * Lateness \in Nat /\ n * FaultDelay \in Nat
<1>1. Lateness \in Nat /\ FaultDelay \in Nat /\ Lateness = Poll + MaxPass + MaxPass
  BY RetryAssumption DEF Lateness, FaultDelay
<1>2. \A n \in Nat : n * Lateness \in Nat /\ n * FaultDelay \in Nat
  <2> HIDE DEF Lateness, FaultDelay
  <2> QED BY <1>1
<1> QED
  BY <1>1, <1>2 DEF FaultDelay

\* The types of what the invariant says of a row and an instance.
LEMMA RowTypes ==
  ASSUME TypeOK, NEW r \in Rows
  PROVE  /\ age[r] \in Nat /\ nextAt[r] \in Int /\ attempts[r] \in Nat
         /\ attempts[r] <= MaxAttempts
         /\ DelaySum[attempts[r]] \in Nat
         /\ attempts[r] * Lateness \in Nat
         /\ DueAge(r) \in Nat
         /\ faults * FaultDelay \in Nat
<1>1. /\ age[r] \in 0..OldAge /\ nextAt[r] \in LongAgo..MaxDelay
      /\ attempts[r] \in 0..MaxAttempts /\ faults \in 0..MaxFaults
  BY DEF TypeOK
<1>2. /\ age[r] \in Nat /\ nextAt[r] \in Int /\ attempts[r] \in Nat /\ faults \in Nat
      /\ attempts[r] <= MaxAttempts
  BY <1>1, RetryAssumption, BoundsAreNatural
<1>3. DelaySum[attempts[r]] \in Nat
  BY <1>1, DelayAssumption
<1>4. attempts[r] * Lateness \in Nat /\ faults * FaultDelay \in Nat
  BY <1>2, LatenessIsNatural
<1>5. DueAge(r) \in Nat
  BY <1>3, <1>4, RetryAssumption DEF DueAge, Least
<1> QED
  BY <1>2, <1>3, <1>4, <1>5

LEMMA InstanceTypes ==
  ASSUME TypeOK, NEW i \in Instances
  PROVE  /\ passAge[i] \in Nat /\ passAge[i] <= MaxPass
         /\ timer[i] \in Nat /\ timer[i] <= Poll
         /\ batch[i] \subseteq Rows
         /\ Poll \in Nat /\ MaxPass \in Nat
BY RetryAssumption DEF TypeOK

\* An instance that nothing stops tries a row that is due before it is late.
LEMMA UntilTriedRange ==
  ASSUME TypeOK, NEW i \in Instances, NEW r
  PROVE  UntilTried(i, r) \in Nat /\ UntilTried(i, r) <= Lateness
<1>1. /\ passAge[i] \in Nat /\ passAge[i] <= MaxPass
      /\ timer[i] \in Nat /\ timer[i] <= Poll
      /\ Poll \in Nat /\ MaxPass \in Nat
  BY InstanceTypes
<1>2. \/ UntilTried(i, r) = timer[i] + MaxPass
      \/ UntilTried(i, r) = MaxPass - passAge[i]
      \/ UntilTried(i, r) = MaxPass - passAge[i] + Poll + MaxPass
  BY DEF UntilTried
<1> QED
  BY <1>1, <1>2, LatenessIsNatural

\* A row that waits is not older than its due age, the lateness and the faults.
LEMMA TimelyAge ==
  ASSUME TypeOK, NEW r \in Rows, Timely(r)
  PROVE  age[r] <= DueAge(r) + Lateness + faults * FaultDelay
<1>1. CASE nextAt[r] > 0
  BY <1>1, RowTypes, LatenessIsNatural DEF Timely
<1>2. CASE ~(nextAt[r] > 0)
  <2>1. PICK i \in Instances : TriedInTime(i, r)
    BY <1>2 DEF Timely
  <2> QED
    BY <2>1, RowTypes, UntilTriedRange, LatenessIsNatural DEF TriedInTime
<1> QED
  BY <1>1, <1>2

\* A row to which nothing happens stays in time when no instance takes longer to
\* come to it, or a fault pays for it.
LEMMA UntouchedRow ==
  ASSUME TypeOK, TypeOK', NEW r \in Rows, Timely(r),
         age'[r] = age[r], nextAt'[r] = nextAt[r], attempts'[r] = attempts[r],
         \/ /\ faults' = faults
            /\ \A i \in Instances : UntilTried(i, r)' <= UntilTried(i, r)
         \/ /\ faults' = faults + 1
            /\ \A i \in Instances : UntilTried(i, r)' <= UntilTried(i, r) + FaultDelay
         \/ faults' = faults /\ nextAt[r] > 0
  PROVE  Timely(r)'
<1>1. DueAge(r)' = DueAge(r)
  BY DEF DueAge, Lateness
<1>2. faults * FaultDelay \in Nat /\ faults \in Nat
  BY RowTypes, RetryAssumption DEF TypeOK
<1>3. (faults + 1) * FaultDelay = faults * FaultDelay + FaultDelay
  BY <1>2, LatenessIsNatural
<1>4. faults' * FaultDelay \in Nat /\ faults' * FaultDelay >= faults * FaultDelay
  BY <1>2, <1>3, LatenessIsNatural
<1>5. CASE nextAt[r] > 0
  BY <1>1, <1>4, <1>5, RowTypes DEF Timely, FaultDelay
<1>6. CASE ~(nextAt[r] > 0)
  <2>1. PICK i \in Instances : TriedInTime(i, r)
    BY <1>6 DEF Timely
  <2>2. /\ UntilTried(i, r) \in Nat
        /\ UntilTried(i, r)' \in Nat
    <3>1. /\ passAge'[i] \in 0..MaxPass /\ timer'[i] \in 0..Poll
      BY DEF TypeOK
    <3>2. \/ UntilTried(i, r)' = timer'[i] + MaxPass
          \/ UntilTried(i, r)' = MaxPass - passAge'[i]
          \/ UntilTried(i, r)' = MaxPass - passAge'[i] + Poll + MaxPass
      BY DEF UntilTried
    <3> QED
      BY <3>1, <3>2, UntilTriedRange, RetryAssumption
  <2>3. /\ age'[r] + UntilTried(i, r)'
             <= DueAge(r)' + Lateness + faults' * FaultDelay
    BY <1>1, <1>2, <1>3, <1>6, <2>1, <2>2, RowTypes, LatenessIsNatural DEF TriedInTime
  <2>4. TriedInTime(i, r)'
    BY <2>3 DEF TriedInTime, Lateness, FaultDelay
  <2> QED
    BY <1>6, <2>4 DEF Timely
<1> QED
  BY <1>5, <1>6

\* The pass of an instance comes nearer to the rows it still has before itself.
LEMMA ProceedInTime ==
  ASSUME TypeOK, NEW i \in Instances, NEW q \in Rows, InHand(i, q), Proceed(i, q),
         NEW r \in Rows, nextAt'[r] = nextAt[r], r # q \/ nextAt[r] > Now(i)
  PROVE  \A j \in Instances : UntilTried(j, r)' <= UntilTried(j, r)
<1> SUFFICES ASSUME NEW j \in Instances PROVE UntilTried(j, r)' <= UntilTried(j, r)
  OBVIOUS
<1>1. /\ passAge[j] \in Nat /\ passAge[j] <= MaxPass
      /\ timer[j] \in Nat /\ timer[j] <= Poll
      /\ Poll \in Nat /\ MaxPass \in Nat
  BY InstanceTypes
<1>2. r # q \/ ~(nextAt[r] <= Now(i))
  BY RowTypes, InstanceTypes DEF Now
<1>3. CASE j # i
  <2>1. batch'[j] = batch[j] /\ passAge'[j] = passAge[j] /\ timer'[j] = timer[j]
    BY <1>3 DEF Proceed, TypeOK
  <2>2. UntilTried(j, r)' = UntilTried(j, r)
    BY <2>1 DEF UntilTried, Now
  <2> QED
    BY <1>1, <2>2 DEF UntilTried
<1>4. CASE j = i /\ batch[i] \ {q} = {}
  <2>1. UntilTried(i, r)' = timer[i] + MaxPass
    BY <1>4 DEF Proceed, TypeOK, UntilTried
  <2>2. batch[i] # {} /\ ~(r \in batch[i] /\ nextAt[r] <= Now(i))
    BY <1>4, <1>2 DEF InHand
  <2>3. UntilTried(i, r) = MaxPass - passAge[i] + Poll + MaxPass
    BY <2>2 DEF UntilTried
  <2> QED
    BY <1>1, <1>4, <2>1, <2>3
<1>5. CASE j = i /\ batch[i] \ {q} # {}
  <2>1. /\ batch'[i] = batch[i] \ {q} /\ passAge'[i] = passAge[i]
        /\ batch[i] # {}
    BY <1>5 DEF Proceed, TypeOK
  <2>2. r \in batch'[i] /\ nextAt[r] <= Now(i) <=> r \in batch[i] /\ nextAt[r] <= Now(i)
    BY <1>2, <2>1
  <2>3. UntilTried(i, r)' = UntilTried(i, r)
    BY <1>5, <2>1, <2>2 DEF UntilTried, Now
  <2> QED
    BY <1>1, <1>5, <2>3 DEF UntilTried
<1> QED
  BY <1>3, <1>4, <1>5

\* A pass has room for every row that is due.
LEMMA EveryDueRowIsTaken ==
  ASSUME RowCount <= Limit, NEW r \in Due(0)
  PROVE  r \in DueBatch(0)
<1>1. r \in 1..RowCount /\ RowCount \in Nat /\ Limit \in Nat
  BY RetryAssumption DEF Due, Rows
<1>2. { q \in Due(0) : q < r } \subseteq 1..(r - 1)
  BY <1>1 DEF Due, Rows
<1>3. IsFiniteSet(1..(r - 1)) /\ Cardinality(1..(r - 1)) = r - 1
  BY <1>1, FS_Interval
<1>4. /\ Cardinality({ q \in Due(0) : q < r }) <= r - 1
      /\ Cardinality({ q \in Due(0) : q < r }) \in Nat
  BY <1>2, <1>3, FS_Subset, FS_CardinalityType
<1>5. Cardinality({ q \in Due(0) : q < r }) < Limit
  BY <1>1, <1>4
<1>6. r \in Rows
  BY DEF Due
<1> QED
  BY <1>5, <1>6 DEF DueBatch

\* An interval that fires takes every row that is due, unless a pass is under way.
LEMMA FireInTime ==
  ASSUME TypeOK, RestingInstances, RunningPassesHaveRows, RowCount <= Limit,
         NEW i \in Instances, Fire(i), NEW r \in Rows, Waiting(r), nextAt[r] <= 0
  PROVE  \A j \in Instances : UntilTried(j, r)' <= UntilTried(j, r)
<1> SUFFICES ASSUME NEW j \in Instances PROVE UntilTried(j, r)' <= UntilTried(j, r)
  OBVIOUS
<1>1. /\ passAge[j] \in Nat /\ passAge[j] <= MaxPass
      /\ timer[j] \in Nat /\ timer[j] <= Poll
      /\ Poll \in Nat /\ MaxPass \in Nat
  BY InstanceTypes
<1>2. /\ passAge' = passAge /\ nextAt' = nextAt
      /\ timer[i] = 0
  BY DEF Fire, rows
<1>3. r \in DueBatch(0)
  BY EveryDueRowIsTaken DEF Due
<1>4. CASE j # i
  <2>1. batch'[j] = batch[j] /\ timer'[j] = timer[j]
    BY <1>4 DEF Fire, TypeOK
  <2>2. UntilTried(j, r)' = UntilTried(j, r)
    BY <1>2, <2>1 DEF UntilTried, Now
  <2> QED
    BY <1>1, <2>2 DEF UntilTried
<1>5. CASE j = i /\ i \in running
  <2>1. batch[i] # {} /\ batch'[i] = batch[i]
    BY <1>5 DEF RunningPassesHaveRows, Fire
  <2>2. UntilTried(i, r)' = UntilTried(i, r)
    BY <1>2, <2>1 DEF UntilTried, Now
  <2> QED
    BY <1>1, <1>5, <2>2 DEF UntilTried
<1>6. CASE j = i /\ i \notin running
  <2>1. batch[i] = {} /\ batch'[i] = DueBatch(0) /\ passAge[i] = 0
    BY <1>3, <1>6 DEF RestingInstances, Fire, TypeOK
  <2>2. UntilTried(i, r) = MaxPass
    BY <1>1, <1>2, <1>6, <2>1 DEF UntilTried
  <2>3. UntilTried(i, r)' = MaxPass
    BY <1>1, <1>2, <1>3, <1>6, <2>1 DEF UntilTried, Now
  <2> QED
    BY <1>1, <1>6, <2>2, <2>3
<1> QED
  BY <1>4, <1>5, <1>6

\* A fault costs one interval and one pass.
LEMMA FaultInTime ==
  ASSUME TypeOK, NEW i \in Instances, Fail(i) \/ Restart(i), NEW r \in Rows
  PROVE  \A j \in Instances : UntilTried(j, r)' <= UntilTried(j, r) + FaultDelay
<1> SUFFICES ASSUME NEW j \in Instances
             PROVE  UntilTried(j, r)' <= UntilTried(j, r) + FaultDelay
  OBVIOUS
<1>1. /\ timer[j] \in Nat /\ timer[j] <= Poll
      /\ Poll \in Nat /\ MaxPass \in Nat /\ FaultDelay = Poll + MaxPass
      /\ UntilTried(j, r) \in Nat
  BY InstanceTypes, UntilTriedRange, LatenessIsNatural
<1>2. /\ nextAt' = nextAt
      /\ batch' = [batch EXCEPT ![i] = {}]
      /\ passAge' = [passAge EXCEPT ![i] = 0]
      /\ timer' = timer \/ timer' = [timer EXCEPT ![i] = Poll]
  BY DEF Fail, Restart, rows
<1>3. CASE j # i
  <2>1. batch'[j] = batch[j] /\ passAge'[j] = passAge[j] /\ timer'[j] = timer[j]
    BY <1>2, <1>3 DEF TypeOK
  <2>2. UntilTried(j, r)' = UntilTried(j, r)
    BY <1>2, <2>1 DEF UntilTried, Now
  <2> QED
    BY <1>1, <2>2
<1>4. CASE j = i
  <2>1. batch'[i] = {} /\ (timer'[i] = timer[i] \/ timer'[i] = Poll)
    BY <1>2 DEF TypeOK
  <2>2. UntilTried(i, r)' = timer'[i] + MaxPass
    BY <2>1 DEF UntilTried
  <2> QED
    BY <1>1, <1>4, <2>1, <2>2
<1> QED
  BY <1>3, <1>4

\* While a tick passes, the instance that tries a row comes nearer by as much.
LEMMA TickTimely ==
  ASSUME TypeOK, TypeOK', Tick, NEW r \in Rows, Waiting(r), Timely(r)
  PROVE  Timely(r)'
<1>1. DueAge(r)' = DueAge(r) /\ faults' = faults
  BY DEF DueAge, Lateness, Tick
<1>2. /\ age'[r] \in Nat /\ age'[r] <= age[r] + 1
      /\ nextAt[r] > LongAgo => nextAt'[r] = nextAt[r] - 1
      /\ ~(nextAt[r] > LongAgo) => nextAt'[r] = LongAgo
      /\ LongAgo \in Int /\ LongAgo <= 0 /\ LongAgo = 0 - MaxPass
  <2>1. age[r] \in Nat
    BY RowTypes
  <2>2. age'[r] = Least(age[r] + 1, OldAge)
    BY DEF Tick
  <2>3. age'[r] \in Nat /\ age'[r] <= age[r] + 1
    BY <2>1, <2>2, BoundsAreNatural DEF Least
  <2> QED
    BY <2>3, BoundsAreNatural DEF Tick, LongAgo
<1>3. /\ age[r] \in Nat /\ nextAt[r] \in Int /\ DueAge(r) \in Nat
      /\ faults * FaultDelay \in Nat /\ Lateness \in Nat
      /\ MaxPass \in Nat
  BY RowTypes, LatenessIsNatural, RetryAssumption
<1>4. CASE nextAt[r] > 1
  BY <1>1, <1>2, <1>3, <1>4 DEF Timely, FaultDelay
<1>5. CASE nextAt[r] = 1
  <2>1. nextAt'[r] = 0
    BY <1>2, <1>5
  <2>2. age'[r] <= DueAge(r) + faults * FaultDelay
    BY <1>1, <1>2, <1>3, <1>5 DEF Timely
  <2>3. PICK i \in Instances : TRUE
    BY RetryAssumption
  <2>4. UntilTried(i, r)' \in Nat /\ UntilTried(i, r)' <= Lateness
    <3>1. /\ passAge'[i] \in 0..MaxPass /\ timer'[i] \in 0..Poll
      BY DEF TypeOK
    <3>2. \/ UntilTried(i, r)' = timer'[i] + MaxPass
          \/ UntilTried(i, r)' = MaxPass - passAge'[i]
          \/ UntilTried(i, r)' = MaxPass - passAge'[i] + Poll + MaxPass
      BY DEF UntilTried
    <3> QED
      BY <3>1, <3>2, LatenessIsNatural, RetryAssumption
  <2>5. age'[r] + UntilTried(i, r)' <= DueAge(r)' + Lateness + faults' * FaultDelay
    BY <1>1, <1>2, <1>3, <2>2, <2>4
  <2>6. TriedInTime(i, r)'
    BY <2>5 DEF TriedInTime, Lateness, FaultDelay
  <2> QED
    BY <2>1, <2>6 DEF Timely
<1>6. CASE nextAt[r] <= 0
  <2>1. nextAt'[r] <= 0
    BY <1>2, <1>3, <1>6
  <2>2. PICK i \in Instances : TriedInTime(i, r)
    BY <1>3, <1>6 DEF Timely
  <2>3. /\ passAge[i] \in Nat /\ passAge[i] <= MaxPass
        /\ timer[i] \in Nat /\ timer[i] <= Poll /\ timer[i] > 0
        /\ Poll \in Nat /\ MaxPass \in Nat
        /\ UntilTried(i, r) \in Nat
    BY InstanceTypes, UntilTriedRange DEF Tick
  <2>4. /\ batch'[i] = batch[i] /\ timer'[i] = timer[i] - 1
        /\ batch[i] # {} => passAge'[i] = passAge[i] + 1 /\ passAge[i] < MaxPass
    BY DEF Tick
  <2>5. UntilTried(i, r)' = UntilTried(i, r) - 1
    <3>1. CASE batch[i] = {}
      BY <2>3, <2>4, <3>1 DEF UntilTried
    <3>2. CASE batch[i] # {}
      <4>1. nextAt'[r] <= 0 - passAge'[i] <=> nextAt[r] <= 0 - passAge[i]
        BY <1>2, <1>3, <2>3, <2>4, <3>2
      <4>2. passAge'[i] = passAge[i] + 1
        BY <2>4, <3>2
      <4> QED
        BY <2>3, <2>4, <3>2, <4>1, <4>2 DEF UntilTried, Now
    <3> QED
      BY <3>1, <3>2
  <2>6. age'[r] + UntilTried(i, r)' <= DueAge(r)' + Lateness + faults' * FaultDelay
    BY <1>1, <1>2, <1>3, <2>2, <2>3, <2>5 DEF TriedInTime
  <2>7. TriedInTime(i, r)'
    BY <2>6 DEF TriedInTime, Lateness, FaultDelay
  <2> QED
    BY <1>2, <1>3, <1>6, <2>1, <2>7 DEF Timely
<1> QED
  BY <1>3, <1>4, <1>5, <1>6

\* A row that is tried in vain comes due again in time: one delay after the pass
\* that tried it began, and the row was not late for that pass.
LEMMA RescheduledRow ==
  ASSUME TypeOK, TypeOK', NEW i \in Instances, NEW r \in Rows, Reschedule(i, r), Timely(r)
  PROVE  Timely(r)'
<1> DEFINE k == attempts[r]
           p == passAge[i]
           a == age[r]
           F == faults * FaultDelay
<1>1. /\ InHand(i, r) /\ Proceed(i, r)
      /\ k < MaxAttempts /\ k \in Nat /\ p \in Nat /\ p <= MaxPass /\ a \in Nat
      /\ a - p < TimeToLive
      /\ age' = age /\ faults' = faults
      /\ attempts'[r] = k + 1
      /\ nextAt'[r] = 0 - p + Backoff(k + 1)
  <2>1. k \in Nat /\ p \in Nat /\ p <= MaxPass /\ a \in Nat
    BY RowTypes, InstanceTypes
  <2>2. ~(k >= MaxAttempts) /\ ~(0 - p + a >= TimeToLive)
    BY DEF Reschedule, Expired, Now
  <2>3. k < MaxAttempts /\ a - p < TimeToLive
    BY <2>1, <2>2, RetryAssumption
  <2> QED
    BY <2>1, <2>3 DEF Reschedule, Now, TypeOK
<1>2. /\ Backoff(k + 1) \in Nat /\ Backoff(k + 1) <= MaxDelay
      /\ DelaySum[k] \in Nat
      /\ DelaySum[k + 1] = DelaySum[k] + Backoff(k + 1)
      /\ (k + 1) * Lateness = k * Lateness + Lateness
      /\ k * Lateness \in Nat /\ Lateness \in Nat
  <2> HIDE DEF k
  <2>1. k + 1 \in 1..MaxAttempts /\ k \in 0..MaxAttempts /\ (k + 1) - 1 = k
    BY <1>1, RetryAssumption
  <2>2. Backoff(k + 1) \in 0..MaxDelay /\ DelaySum[k] \in Nat
    BY <2>1, DelayAssumption
  <2>3. DelaySum[k + 1] = DelaySum[k] + Backoff(k + 1)
    BY <2>1, DelayAssumption
  <2>4. (k + 1) * Lateness = k * Lateness + Lateness
    <3>1. Lateness \in Nat
      BY LatenessIsNatural
    <3> QED
      BY <1>1, <3>1
  <2> QED
    BY <1>1, <2>2, <2>3, <2>4, LatenessIsNatural, RetryAssumption
<1>3. a <= DelaySum[k] + k * Lateness + Lateness + F /\ F \in Nat
  <2>1. a <= DueAge(r) + Lateness + F /\ F \in Nat /\ DueAge(r) \in Nat
    BY TimelyAge, RowTypes
  <2>2. DueAge(r) <= DelaySum[k] + k * Lateness
    BY <1>2, RetryAssumption DEF DueAge, Least
  <2> QED
    BY <1>1, <1>2, <2>1, <2>2
<1>4. /\ F' = F
      /\ DueAge(r)' = Least(TimeToLive + MaxDelay, DelaySum[k + 1] + (k + 1) * Lateness)
  BY <1>1 DEF DueAge, Lateness, FaultDelay
<1>5. UntilTried(i, r)' \in Nat /\ UntilTried(i, r)' + p <= Lateness
  <2>1. /\ timer[i] \in Nat /\ timer[i] <= Poll /\ Poll \in Nat /\ MaxPass \in Nat
    BY InstanceTypes
  <2>2. CASE batch[i] \ {r} = {}
    <3>1. UntilTried(i, r)' = timer[i] + MaxPass
      BY <1>1, <2>2 DEF Proceed, UntilTried, TypeOK
    <3> QED
      BY <1>1, <2>1, <3>1, LatenessIsNatural
  <2>3. CASE batch[i] \ {r} # {}
    <3>1. UntilTried(i, r)' = MaxPass - p + Poll + MaxPass
      BY <1>1, <2>3 DEF Proceed, UntilTried, TypeOK
    <3> QED
      BY <1>1, <2>1, <3>1, LatenessIsNatural
  <2> QED
    BY <2>2, <2>3
<1>6. UntilTried(i, r)' <= Lateness
  BY <1>1, <1>2, <1>5
<1>7. CASE nextAt'[r] > 0
  <2>1. a + nextAt'[r] <= TimeToLive + MaxDelay + F
    BY <1>1, <1>2, <1>3, RetryAssumption
  <2>2. a + nextAt'[r] <= DelaySum[k + 1] + (k + 1) * Lateness + F
    BY <1>1, <1>2, <1>3
  <2>3. age'[r] + nextAt'[r] <= DueAge(r)' + faults' * FaultDelay
    BY <1>1, <1>4, <2>1, <2>2 DEF Least
  <2> QED
    BY <1>7, <2>3 DEF Timely, FaultDelay
<1>8. CASE ~(nextAt'[r] > 0)
  <2>1. a + UntilTried(i, r)' <= TimeToLive + MaxDelay + Lateness + F
    BY <1>1, <1>2, <1>3, <1>5, RetryAssumption
  <2>2. a + UntilTried(i, r)' <= DelaySum[k + 1] + (k + 1) * Lateness + Lateness + F
    <3>1. a + UntilTried(i, r)' <= DelaySum[k] + k * Lateness + Lateness + F + Lateness
      BY <1>1, <1>2, <1>3, <1>5, <1>6
    <3>2. DelaySum[k] + k * Lateness + Lateness <= DelaySum[k + 1] + (k + 1) * Lateness
      BY <1>2
    <3> HIDE DEF k, F, a
    <3> QED
      BY <1>1, <1>2, <1>3, <1>5, <3>1, <3>2
  <2>3. age'[r] + UntilTried(i, r)' <= DueAge(r)' + Lateness + faults' * FaultDelay
    BY <1>1, <1>4, <2>1, <2>2 DEF Least
  <2>4. TriedInTime(i, r)'
    BY <2>3 DEF TriedInTime, Lateness, FaultDelay
  <2> QED
    BY <1>8, <2>4 DEF Timely
<1> QED
  BY <1>7, <1>8

\* A row that has just come to wait is due, and has all the lateness before it.
LEMMA ParkedRow ==
  ASSUME TypeOK, TypeOK', NewRowsAreNew, RowsWaited, NEW r \in Rows, Park(r)
  PROVE  Timely(r)'
<1>1. /\ age'[r] = 0 /\ nextAt'[r] = LongAgo
      /\ LongAgo \in Int /\ LongAgo <= 0
  BY BoundsAreNatural DEF Park, NewRowsAreNew
<1>2. PICK i \in Instances : TRUE
  BY RetryAssumption
<1>3. UntilTried(i, r) \in Nat /\ UntilTried(i, r) <= Lateness
  BY UntilTriedRange
<1>4. UntilTried(i, r)' = UntilTried(i, r)
  BY DEF Park, passes, UntilTried, Now
<1>5. /\ DueAge(r)' = DueAge(r) /\ faults' = faults
      /\ DueAge(r) \in Nat /\ faults * FaultDelay \in Nat /\ Lateness \in Nat
  BY RowTypes, LatenessIsNatural DEF Park, DueAge, Lateness
<1>6. age'[r] + UntilTried(i, r)' <= DueAge(r)' + Lateness + faults' * FaultDelay
  BY <1>1, <1>3, <1>4, <1>5
<1>7. TriedInTime(i, r)'
  BY <1>6 DEF TriedInTime, Lateness, FaultDelay
<1> QED
  BY <1>1, <1>7 DEF Timely

-----------------------------------------------------------------------------
(* Every action keeps rows in time *)

\* An instance that runs has rows, and one that has come to its last row stops.
LEMMA RunningKeeps ==
  ASSUME TypeOK, RestingInstances, RunningPassesHaveRows, Next
  PROVE  RunningPassesHaveRows'
<1>1. ASSUME NEW r \in Rows, Park(r) \/ Resolve(r) \/ ReferenceElsewhere(r)
      PROVE  RunningPassesHaveRows'
  BY <1>1 DEF Park, Resolve, ReferenceElsewhere, passes, RunningPassesHaveRows
<1>2. ASSUME NEW i \in Instances, Fire(i) PROVE RunningPassesHaveRows'
  BY <1>2 DEF Fire, RunningPassesHaveRows, TypeOK
<1>3. ASSUME NEW i \in Instances, NEW r \in Rows, Proceed(i, r) PROVE RunningPassesHaveRows'
  BY <1>3 DEF Proceed, RunningPassesHaveRows, TypeOK
<1>4. ASSUME NEW i \in Instances, Fail(i) \/ Restart(i) PROVE RunningPassesHaveRows'
  BY <1>4 DEF Fail, Restart, RunningPassesHaveRows, TypeOK
<1>5. CASE Tick
  BY <1>5 DEF Tick, RunningPassesHaveRows
<1> QED
  BY <1>1, <1>2, <1>3, <1>4, <1>5
     DEF Next, SchedulerStep, SkipRow, Settle, Reschedule, GiveUp

\* A row that is not there is not touched.
LEMMA NewRowsKeep ==
  ASSUME RetryInv, NewRowsAreNew, Next
  PROVE  NewRowsAreNew'
<1> SUFFICES ASSUME NEW r \in Rows, status'[r] = "ABSENT"
             PROVE  age'[r] = 0 /\ nextAt'[r] = LongAgo
  BY DEF NewRowsAreNew
<1> USE DEF NewRowsAreNew, RetryInv, TypeOK, Waiting
<1>1. ASSUME NEW q \in Rows, Park(q) \/ Resolve(q) \/ ReferenceElsewhere(q)
      PROVE  age'[r] = 0 /\ nextAt'[r] = LongAgo
  BY <1>1 DEF Park, Resolve, ReferenceElsewhere
<1>2. ASSUME NEW i \in Instances, Fire(i) \/ Fail(i) \/ Restart(i)
      PROVE  age'[r] = 0 /\ nextAt'[r] = LongAgo
  BY <1>2 DEF Fire, Fail, Restart, rows
<1>3. ASSUME NEW i \in Instances, NEW q \in Rows,
             SkipRow(i, q) \/ Settle(i, q) \/ Reschedule(i, q) \/ GiveUp(i, q)
      PROVE  age'[r] = 0 /\ nextAt'[r] = LongAgo
  BY <1>3 DEF SkipRow, Settle, Reschedule, GiveUp, StillDue, rows
<1>4. CASE Tick
  BY <1>4, BoundsAreNatural DEF Tick
<1> QED
  BY <1>1, <1>2, <1>3, <1>4 DEF Next, SchedulerStep

\* A step by which one row, and one instance, goes on.
LEMMA PassStepTimely ==
  ASSUME RetryInv, TypeOK', NEW i \in Instances, NEW q \in Rows,
         SkipRow(i, q) \/ Settle(i, q) \/ Reschedule(i, q) \/ GiveUp(i, q),
         NEW r \in Rows, status'[r] = "PENDING_REFERENCE", Waiting(r), Timely(r)
  PROVE  Timely(r)'
<1>1. InHand(i, q) /\ Proceed(i, q) /\ age' = age /\ faults' = faults
  BY DEF SkipRow, Settle, Reschedule, GiveUp, rows
<1>2. CASE r = q /\ Reschedule(i, q)
  BY <1>2, RescheduledRow DEF RetryInv
<1>3. CASE r = q /\ SkipRow(i, q)
  <2>1. ~(nextAt[r] <= Now(i)) /\ nextAt' = nextAt /\ attempts' = attempts
    BY <1>3 DEF SkipRow, StillDue, rows
  <2>2. nextAt[r] > Now(i)
    BY <2>1, RowTypes, InstanceTypes DEF Now, RetryInv
  <2>3. \A j \in Instances : UntilTried(j, r)' <= UntilTried(j, r)
    BY <1>1, <2>1, <2>2, ProceedInTime DEF RetryInv
  <2> QED
    BY <1>1, <2>1, <2>3, UntouchedRow DEF RetryInv
<1>4. CASE r = q /\ (Settle(i, q) \/ GiveUp(i, q))
  BY <1>4 DEF Settle, GiveUp, RetryInv, TypeOK
<1>5. CASE r # q
  <2>1. nextAt'[r] = nextAt[r] /\ attempts'[r] = attempts[r]
    BY <1>5 DEF SkipRow, Settle, Reschedule, GiveUp, rows, RetryInv, TypeOK
  <2>2. \A j \in Instances : UntilTried(j, r)' <= UntilTried(j, r)
    BY <1>1, <1>5, <2>1, ProceedInTime DEF RetryInv
  <2> QED
    BY <1>1, <2>1, <2>2, UntouchedRow DEF RetryInv
<1> QED
  BY <1>2, <1>3, <1>4, <1>5

LEMMA TimelyRowsKeep ==
  ASSUME RetryInv, TypeOK', TimelyInv, Next
  PROVE  TimelyRows'
<1> SUFFICES ASSUME RowCount <= Limit, NEW r \in Rows, status'[r] = "PENDING_REFERENCE"
             PROVE  Timely(r)'
  BY DEF TimelyRows, Waiting
<1>1. Waiting(r) => Timely(r)
  BY DEF TimelyInv, TimelyRows
<1>2. ASSUME NEW q \in Rows, Park(q) PROVE Timely(r)'
  <2>1. CASE r = q
    BY <1>2, <2>1, ParkedRow DEF RetryInv, TimelyInv
  <2>2. CASE r # q
    <3>1. Waiting(r)
      BY <1>2, <2>2 DEF Park, Waiting, RetryInv, TypeOK
    <3>2. \A i \in Instances : UntilTried(i, r)' <= UntilTried(i, r)
      <4> SUFFICES ASSUME NEW i \in Instances PROVE UntilTried(i, r)' <= UntilTried(i, r)
        OBVIOUS
      <4>1. UntilTried(i, r)' = UntilTried(i, r)
        BY <1>2 DEF Park, passes, UntilTried, Now
      <4>2. UntilTried(i, r) \in Nat
        BY UntilTriedRange DEF RetryInv
      <4> QED
        BY <4>1, <4>2
    <3> QED
      BY <1>1, <1>2, <3>1, <3>2, UntouchedRow DEF Park, RetryInv
  <2> QED
    BY <2>1, <2>2
<1>3. ASSUME NEW q \in Rows, Resolve(q) \/ ReferenceElsewhere(q) PROVE Timely(r)'
  <2>1. /\ Waiting(r) /\ nextAt'[r] = nextAt[r] /\ faults' = faults
        /\ UNCHANGED <<attempts, age, passes>>
    BY <1>3 DEF Resolve, ReferenceElsewhere, Waiting, RetryInv, TypeOK
  <2>2. \A i \in Instances : UntilTried(i, r)' <= UntilTried(i, r)
    <3> SUFFICES ASSUME NEW i \in Instances PROVE UntilTried(i, r)' <= UntilTried(i, r)
      OBVIOUS
    <3>1. UntilTried(i, r)' = UntilTried(i, r)
      BY <2>1 DEF passes, UntilTried, Now
    <3>2. UntilTried(i, r) \in Nat
      BY UntilTriedRange DEF RetryInv
    <3> QED
      BY <3>1, <3>2
  <2> QED
    BY <1>1, <2>1, <2>2, UntouchedRow DEF RetryInv
<1>4. ASSUME NEW i \in Instances, Fire(i) PROVE Timely(r)'
  <2>1. Waiting(r) /\ UNCHANGED <<attempts, age, nextAt, faults>>
    BY <1>4 DEF Fire, rows, Waiting
  <2>2. nextAt[r] > 0 \/ nextAt[r] <= 0
    BY RowTypes DEF RetryInv
  <2>3. nextAt[r] <= 0 => \A j \in Instances : UntilTried(j, r)' <= UntilTried(j, r)
    BY <1>4, <2>1, FireInTime DEF RetryInv, TimelyInv
  <2> QED
    BY <1>1, <2>1, <2>2, <2>3, UntouchedRow DEF RetryInv
<1>5. ASSUME NEW i \in Instances, NEW q \in Rows,
             SkipRow(i, q) \/ Settle(i, q) \/ Reschedule(i, q) \/ GiveUp(i, q)
      PROVE  Timely(r)'
  <2>1. Waiting(r)
    BY <1>5 DEF SkipRow, Settle, Reschedule, GiveUp, rows, Waiting, RetryInv, TypeOK
  <2> QED
    BY <1>1, <1>5, <2>1, PassStepTimely
<1>6. ASSUME NEW i \in Instances, Fail(i) \/ Restart(i) PROVE Timely(r)'
  <2>1. Waiting(r) /\ UNCHANGED <<attempts, age, nextAt>> /\ faults' = faults + 1
    BY <1>6 DEF Fail, Restart, rows, Waiting
  <2>2. \A j \in Instances : UntilTried(j, r)' <= UntilTried(j, r) + FaultDelay
    BY <1>6, FaultInTime DEF RetryInv
  <2> QED
    BY <1>1, <2>1, <2>2, UntouchedRow DEF RetryInv
<1>7. CASE Tick
  <2>1. Waiting(r)
    BY <1>7 DEF Tick, Waiting
  <2> QED
    BY <1>1, <1>7, <2>1, TickTimely DEF RetryInv
<1> QED
  BY <1>2, <1>3, <1>4, <1>5, <1>6, <1>7 DEF Next, SchedulerStep

-----------------------------------------------------------------------------
(* The deadline *)

\* A nonempty set of natural numbers has a least member.
LEMMA LeastMember ==
  ASSUME NEW T, T \subseteq Nat, T # {}
  PROVE  \E n \in T : \A m \in T : n <= m
<1> DEFINE R == OpToRel(<, Nat)
<1>1. IsWellFoundedOn(R, Nat)
  BY NatLessThanWellFounded
<1>2. \A m, n \in Nat : m < n => <<m, n>> \in R
  BY DEF OpToRel
<1> HIDE DEF R
<1>3. PICK n \in T : \A m \in T : <<m, n>> \notin R
  BY <1>1, WFMin
<1>4. \A m \in T : ~(m < n)
  BY <1>2, <1>3
<1> QED
  BY <1>4

\* The delays so far are never more than all the delays: were they more after n
\* attempts, and n the last such number, they would be more after n + 1.
LEMMA DelaysAddUp == \A n \in 0..MaxAttempts : DelaySum[n] <= Window
<1> DEFINE T == { m \in Nat : m <= MaxAttempts /\ ~(DelaySum[MaxAttempts - m] <= Window) }
<1>1. SUFFICES ASSUME T # {} PROVE FALSE
  <2>1. ASSUME T = {}, NEW n \in 0..MaxAttempts PROVE DelaySum[n] <= Window
    <3>1. MaxAttempts - n \in Nat /\ MaxAttempts - n <= MaxAttempts
          /\ MaxAttempts - (MaxAttempts - n) = n
      BY RetryAssumption
    <3> QED
      BY <2>1, <3>1
  <2> QED
    BY <2>1
<1>2. PICK m \in T : \A l \in T : m <= l
  <2>1. T \subseteq Nat
    OBVIOUS
  <2> HIDE DEF T
  <2> QED
    BY <1>1, <2>1, LeastMember
<1> DEFINE n == MaxAttempts - m
<1>3. m \in Nat /\ m # 0 /\ n \in 0..(MaxAttempts - 1)
  <2>1. Window <= Window
    BY BoundsAreNatural
  <2> QED
    BY <1>2, <2>1, RetryAssumption DEF Window
<1>4. DelaySum[n + 1] <= Window
  <2>1. m - 1 \notin T /\ m - 1 \in Nat /\ m - 1 <= MaxAttempts /\ MaxAttempts - (m - 1) = n + 1
    BY <1>2, <1>3, RetryAssumption
  <2> QED
    BY <2>1
<1>5. /\ DelaySum[n] \in Nat /\ DelaySum[n + 1] \in Nat
      /\ DelaySum[n] <= DelaySum[n + 1]
  <2> HIDE DEF n
  <2>1. n + 1 \in 1..MaxAttempts /\ n \in 0..MaxAttempts /\ n + 1 \in 0..MaxAttempts
        /\ (n + 1) - 1 = n
    BY <1>3, RetryAssumption
  <2>2. Backoff(n + 1) \in Nat
    BY <2>1, DelayAssumption, RetryAssumption
  <2> QED
    BY <2>1, <2>2, DelayAssumption
<1>6. ~(DelaySum[n] <= Window)
  BY <1>2
<1> QED
  BY <1>4, <1>5, <1>6, BoundsAreNatural

\* A row that is in time is not past its deadline, whatever its attempts are.
LEMMA TimelyIsGivenUpInTime ==
  ASSUME TypeOK, TimelyRows
  PROVE  GivenUpInTime
<1> SUFFICES ASSUME RowCount <= Limit, NEW r \in Rows, Waiting(r)
             PROVE  age[r] <= Deadline + faults * FaultDelay
  BY DEF GivenUpInTime
<1> DEFINE k == attempts[r]
<1>1. age[r] <= DueAge(r) + Lateness + faults * FaultDelay
  BY TimelyAge DEF TimelyRows
<1>2. /\ k \in Nat /\ k <= MaxAttempts /\ DelaySum[k] \in Nat /\ k * Lateness \in Nat
      /\ Lateness \in Nat /\ Window \in Nat /\ age[r] \in Nat
      /\ faults * FaultDelay \in Nat
  BY RowTypes, LatenessIsNatural, BoundsAreNatural
<1>3. DelaySum[k] <= Window
  <2> HIDE DEF k
  <2> QED
    BY <1>2, DelaysAddUp, RetryAssumption
<1>4. k * Lateness + Lateness <= (MaxAttempts + 1) * Lateness
      /\ (MaxAttempts + 1) * Lateness \in Nat
  <2>1. PICK d \in Nat : MaxAttempts = k + d
    <3>1. MaxAttempts - k \in Nat /\ MaxAttempts = k + (MaxAttempts - k)
      BY <1>2, RetryAssumption
    <3> QED
      BY <3>1
  <2> HIDE DEF k
  <2>2. (MaxAttempts + 1) * Lateness = k * Lateness + d * Lateness + Lateness
    BY <1>2, <2>1
  <2>3. d * Lateness \in Nat
    BY LatenessIsNatural
  <2> QED
    BY <1>2, <2>2, <2>3
<1>5. DueAge(r) + Lateness <= Deadline /\ Deadline \in Nat /\ DueAge(r) \in Nat
  BY <1>2, <1>3, <1>4, RetryAssumption DEF DueAge, Deadline, Least
<1> QED
  BY <1>1, <1>2, <1>5

\* Every reachable state satisfies the timely invariant: a row that waits comes due
\* no later than its attempts allow, and once due has an instance that tries it in time.
THEOREM RowsStayTimely == Spec => []TimelyInv
<1>1. Init => TimelyInv
  BY DEF Init, TimelyInv, RunningPassesHaveRows, NewRowsAreNew, TimelyRows, Waiting
<1>2. RetryInv /\ RetryInv' /\ TimelyInv /\ [Next]_vars => TimelyInv'
  <2>1. ASSUME RetryInv, RetryInv', TimelyInv, Next PROVE TimelyInv'
    BY <2>1, RunningKeeps, NewRowsKeep, TimelyRowsKeep DEF RetryInv, TimelyInv
  <2>2. ASSUME TimelyInv, UNCHANGED vars PROVE TimelyInv'
    BY <2>2 DEF vars, rows, passes, TimelyInv, RunningPassesHaveRows, NewRowsAreNew, TimelyRows,
                Waiting, Timely, TriedInTime, UntilTried, DueAge, Lateness, FaultDelay, Now
  <2> QED
    BY <2>1, <2>2
<1> QED
  BY <1>1, <1>2, RetryInvariant, PTL DEF Spec

\* Where a pass has room for all the waiting rows, no row waits past its deadline,
\* which every error and every restart puts off by one interval and one pass.
THEOREM GivingUpIsInTime == Spec => []GivenUpInTime
<1>1. RetryInv /\ TimelyInv => GivenUpInTime
  BY TimelyIsGivenUpInTime DEF RetryInv, TimelyInv
<1> QED
  BY <1>1, RetryInvariant, RowsStayTimely, PTL
=============================================================================
