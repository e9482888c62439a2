--------------------------- MODULE OutboxPublisher ---------------------------
(***************************************************************************)
(* OutboxPublisherService: instances of the program publish the rows that  *)
(* settlements left in outbox_message to a queue.  A row is claimed with a *)
(* compare-and-set that counts an attempt and leases the row, is sent      *)
(* outside any transaction, and is then marked published or rescheduled,   *)
(* provided that the claim is still the row's latest.                      *)
(*                                                                         *)
(* Times are relative: the present is always 0, Tick moves every stored    *)
(* time one tick into the past, and nothing is told apart that is further  *)
(* back than LongAgo.                                                      *)
(***************************************************************************)
EXTENDS Integers, FiniteSets, Sequences

CONSTANTS
  Events,      \* ids of outbox_message rows
  Rank,        \* the position of each event in the order by occurredAt, id
  Publishers,  \* instances with the publisher enabled
  Limit,       \* rows of one batch
  Lease,       \* OUTBOX_CLAIM_LEASE_MS
  BaseDelay,   \* OUTBOX_RETRY_BASE_DELAY_MS
  MaxDelay,    \* OUTBOX_RETRY_MAX_DELAY_MS
  MaxSend,     \* bound on the ticks one send takes
  MaxFaults    \* bound on failed sends and aborted batches

ASSUME OutboxAssumption ==
  /\ IsFiniteSet(Publishers)
  /\ Rank \in [Events -> Nat]
  /\ \A e, f \in Events : Rank[e] = Rank[f] => e = f
  /\ Limit \in Nat \ {0}
  /\ Lease \in Nat \ {0}
  /\ BaseDelay \in Nat
  /\ MaxDelay \in Nat
  /\ MaxSend \in Nat
  /\ MaxFaults \in Nat

VARIABLES
  stored,      \* rows committed by settlements
  attempts,    \* column attempts
  nextAt,      \* column next_attempt_at; LongAgo stands for NULL
  published,   \* rows with published_at
  copies,      \* copies of each event the queue holds
  pc,          \* what each publisher does next
  batch,       \* rows of its batch it has not finished
  batchNow,    \* the time its batch was started at
  claimed,     \* the attempt it claimed the row in hand with
  flight,      \* ticks its send has taken
  faults       \* failed sends and aborted batches so far

table == <<stored, attempts, nextAt, published>>
vars == <<table, copies, pc, batch, batchNow, claimed, flight, faults>>

\* A batch takes at most MaxSend ticks per row: none started before this.
LongAgo == 0 - Limit * MaxSend

-----------------------------------------------------------------------------
(* Helpers *)

\* outboxRetryDelayMs
Backoff(n) == LET delay == BaseDelay * 2 ^ (IF n > 0 THEN n - 1 ELSE 0)
              IN  IF delay > MaxDelay THEN MaxDelay ELSE delay

\* Mutant: only rows that were never attempted are read.
Due_Unattempted == { e \in stored \ published : attempts[e] = 0 }

\* The rows that publishDue may read now.
Due == { e \in stored \ published : nextAt[e] <= 0 }

\* The batches publishDue may read: the first Limit of them, in their order.
Batches ==
  { rows \in UNION { [1..n -> Due] : n \in 1..Limit } :
      /\ \A i, j \in DOMAIN rows : i < j => Rank[rows[i]] < Rank[rows[j]]
      /\ \A e \in Due : \/ \E i \in DOMAIN rows : rows[i] = e
                        \/ Len(rows) = Limit /\ Rank[rows[Limit]] < Rank[e] }

\* The row publisher p has in hand.
InHand(p) == Head(batch[p])

\* The claim of p is the latest one of its row and the row is not published:
\* the WHERE of markPublished and of scheduleRetry.
Owns(p) == InHand(p) \notin published /\ attempts[InHand(p)] = claimed[p]

\* Mutant: the end of the batch is missed.
Proceed_NeverRests(p) ==
  /\ batch' = [batch EXCEPT ![p] = Tail(@)]
  /\ pc' = [pc EXCEPT ![p] = "claim"]
  /\ claimed' = [claimed EXCEPT ![p] = 0]
  /\ UNCHANGED <<batchNow, flight>>

\* publishOne returned: on to the next row of the batch, or to rest.
Proceed(p) ==
  LET rest == Tail(batch[p])
  IN  /\ batch' = [batch EXCEPT ![p] = rest]
      /\ pc' = [pc EXCEPT ![p] = IF rest = <<>> THEN "idle" ELSE "claim"]
      /\ batchNow' = [batchNow EXCEPT ![p] = IF rest = <<>> THEN 0 ELSE @]
      /\ claimed' = [claimed EXCEPT ![p] = 0]
      /\ UNCHANGED flight

-----------------------------------------------------------------------------
(* Actions *)

\* A settlement commits, and with it an event.
Enqueue(e) ==
  /\ e \notin stored
  /\ stored' = stored \cup {e}
  /\ UNCHANGED <<attempts, nextAt, published, copies, pc, batch, batchNow, claimed, flight, faults>>

\* tick, publishDue: a new batch, unless one is running.
FetchDue(p) ==
  /\ pc[p] = "idle"
  /\ \E rows \in Batches : batch' = [batch EXCEPT ![p] = rows]
  /\ pc' = [pc EXCEPT ![p] = "claim"]
  /\ UNCHANGED <<table, copies, batchNow, claimed, flight, faults>>

\* Whether claim finds the row still free, as of the time the batch started.
Claimable(p) == InHand(p) \notin published /\ nextAt[InHand(p)] <= batchNow[p]

\* Mutant: the attempt is counted when it fails, as OutboxMessage.scheduleRetry
\* of the domain does.
Claim_Uncounted(p) ==
  /\ pc[p] = "claim"
  /\ Claimable(p)
  /\ nextAt' = [nextAt EXCEPT ![InHand(p)] = batchNow[p] + Lease]
  /\ claimed' = [claimed EXCEPT ![p] = attempts[InHand(p)]]
  /\ pc' = [pc EXCEPT ![p] = "send"]
  /\ UNCHANGED <<stored, attempts, published, copies, batch, batchNow, flight, faults>>

\* claim: one more attempt, and a lease counted from the start of the batch.
Claim(p) ==
  /\ pc[p] = "claim"
  /\ Claimable(p)
  /\ attempts' = [attempts EXCEPT ![InHand(p)] = @ + 1]
  /\ nextAt' = [nextAt EXCEPT ![InHand(p)] = batchNow[p] + Lease]
  /\ claimed' = [claimed EXCEPT ![p] = attempts[InHand(p)] + 1]
  /\ pc' = [pc EXCEPT ![p] = "send"]
  /\ UNCHANGED <<stored, published, copies, batch, batchNow, flight, faults>>

\* The row was claimed or published by another instance.
Skip(p) ==
  /\ pc[p] = "claim"
  /\ ~Claimable(p)
  /\ Proceed(p)
  /\ UNCHANGED <<table, copies, faults>>

\* The queue takes a message.  It drops an equal body within its deduplication
\* window; whether that has passed is left open.
Accept(e) ==
  \/ copies' = [copies EXCEPT ![e] = @ + 1]
  \/ copies[e] > 0 /\ copies' = copies

\* gateway.publish returns.
Send(p) ==
  /\ pc[p] = "send"
  /\ Accept(InHand(p))
  /\ pc' = [pc EXCEPT ![p] = "mark"]
  /\ flight' = [flight EXCEPT ![p] = 0]
  /\ UNCHANGED <<table, batch, batchNow, claimed, faults>>

\* Mutant: an error of the gateway is taken for a success.
SendFails_Swallowed(p) ==
  /\ pc[p] = "send"
  /\ faults < MaxFaults
  /\ faults' = faults + 1
  /\ Accept(InHand(p)) \/ copies' = copies
  /\ pc' = [pc EXCEPT ![p] = "mark"]
  /\ flight' = [flight EXCEPT ![p] = 0]
  /\ UNCHANGED <<table, batch, batchNow, claimed>>

\* gateway.publish throws; the queue may have taken the message all the same.
SendFails(p) ==
  /\ pc[p] = "send"
  /\ faults < MaxFaults
  /\ faults' = faults + 1
  /\ Accept(InHand(p)) \/ copies' = copies
  /\ pc' = [pc EXCEPT ![p] = "retry"]
  /\ flight' = [flight EXCEPT ![p] = 0]
  /\ UNCHANGED <<table, batch, batchNow, claimed>>

\* Mutant: no check that the claim is still the latest.
MarkPublished_Unguarded(p) ==
  /\ pc[p] = "mark"
  /\ published' = published \cup {InHand(p)}
  /\ nextAt' = [nextAt EXCEPT ![InHand(p)] = LongAgo]
  /\ Proceed(p)
  /\ UNCHANGED <<stored, attempts, copies, faults>>

\* markPublished
MarkPublished(p) ==
  /\ pc[p] = "mark"
  /\ IF Owns(p)
     THEN /\ published' = published \cup {InHand(p)}
          /\ nextAt' = [nextAt EXCEPT ![InHand(p)] = LongAgo]
     ELSE UNCHANGED <<published, nextAt>>
  /\ Proceed(p)
  /\ UNCHANGED <<stored, attempts, copies, faults>>

\* scheduleRetry, also counted from the start of the batch.
ScheduleRetry(p) ==
  /\ pc[p] = "retry"
  /\ nextAt' = IF Owns(p) THEN [nextAt EXCEPT ![InHand(p)] = batchNow[p] + Backoff(claimed[p])]
               ELSE nextAt
  /\ Proceed(p)
  /\ UNCHANGED <<stored, attempts, published, copies, faults>>

\* The process dies, or a statement fails and tick gives the batch up.
Abort(p) ==
  /\ pc[p] # "idle"
  /\ faults < MaxFaults
  /\ faults' = faults + 1
  /\ batch' = [batch EXCEPT ![p] = <<>>]
  /\ pc' = [pc EXCEPT ![p] = "idle"]
  /\ batchNow' = [batchNow EXCEPT ![p] = 0]
  /\ claimed' = [claimed EXCEPT ![p] = 0]
  /\ flight' = [flight EXCEPT ![p] = 0]
  /\ UNCHANGED <<table, copies>>

\* Time passes, while publishers rest or wait for the queue; statements take none.
Tick ==
  /\ \A p \in Publishers : pc[p] = "idle" \/ (pc[p] = "send" /\ flight[p] < MaxSend)
  /\ nextAt' = [e \in Events |-> IF nextAt[e] > LongAgo THEN nextAt[e] - 1 ELSE LongAgo]
  /\ batchNow' = [p \in Publishers |-> IF pc[p] = "idle" THEN 0 ELSE batchNow[p] - 1]
  /\ flight' = [p \in Publishers |-> IF pc[p] = "idle" THEN 0 ELSE flight[p] + 1]
  /\ UNCHANGED <<stored, attempts, published, copies, pc, batch, claimed, faults>>

-----------------------------------------------------------------------------
(* Specification *)

Init ==
  /\ stored = {}
  /\ attempts = [e \in Events |-> 0]
  /\ nextAt = [e \in Events |-> LongAgo]
  /\ published = {}
  /\ copies = [e \in Events |-> 0]
  /\ pc = [p \in Publishers |-> "idle"]
  /\ batch = [p \in Publishers |-> <<>>]
  /\ batchNow = [p \in Publishers |-> 0]
  /\ claimed = [p \in Publishers |-> 0]
  /\ flight = [p \in Publishers |-> 0]
  /\ faults = 0

PublisherStep(p) ==
  \/ FetchDue(p) \/ Claim(p) \/ Skip(p) \/ Send(p) \/ SendFails(p)
  \/ MarkPublished(p) \/ ScheduleRetry(p)

Next ==
  \/ \E e \in Events : Enqueue(e)
  \/ \E p \in Publishers : PublisherStep(p) \/ Abort(p)
  \/ Tick

Spec == Init /\ [][Next]_vars

\* setInterval keeps calling tick, whose finally clears the flag that guards it; a
\* pending send or statement returns; time passes.  Nothing forces faults or events.
Fairness == /\ \A p \in Publishers : WF_vars(PublisherStep(p))
            /\ WF_vars(Tick)

FairSpec == Spec /\ Fairness

-----------------------------------------------------------------------------
(* Properties *)

\* Tables, queue and batches keep their shape: only committed rows are read and
\* published, and a publisher is at rest just when its batch is done.
TypeOK ==
  /\ stored \subseteq Events
  /\ attempts \in [Events -> Nat]
  /\ nextAt \in [Events -> Int]
  /\ published \subseteq stored
  /\ copies \in [Events -> Nat]
  /\ pc \in [Publishers -> {"idle", "claim", "send", "mark", "retry"}]
  /\ batch \in [Publishers -> Seq(stored)]
  /\ \A p \in Publishers : batch[p] = <<>> <=> pc[p] = "idle"
  /\ batchNow \in [Publishers -> LongAgo..0]
  /\ claimed \in [Publishers -> Nat]
  /\ flight \in [Publishers -> 0..MaxSend]
  /\ faults \in 0..MaxFaults

\* p has claimed event e and not finished with it.
Holds(p, e) == pc[p] \in {"send", "mark", "retry"} /\ e = InHand(p)

\* The latest claim of a row is the only one that decides about it: while its
\* holder is at work nobody has published the row or moved its lease, and any
\* other publisher still at work on the row has an older claim.
LatestClaimDecides ==
  \A p \in Publishers, e \in Events :
    Holds(p, e) =>
      /\ claimed[p] <= attempts[e]
      /\ claimed[p] = attempts[e] =>
           /\ e \notin published
           /\ nextAt[e] = batchNow[p] + Lease
      /\ \A q \in Publishers \ {p} : Holds(q, e) => claimed[q] # claimed[p]

\* A row is marked published only when the queue holds its event, whatever
\* failed, died or was overtaken between the send and the mark.
PublishedWasSent ==
  \A e \in published : copies[e] > 0

Senders(e) == { p \in Publishers : pc[p] = "send" /\ InHand(p) = e }

\* Duplicates are paid for with attempts: each copy in the queue, and each send
\* under way, has a claim of its own, so that a row claimed once is sent once.
OneSendPerClaim ==
  \A e \in Events : copies[e] + Cardinality(Senders(e)) <= attempts[e]

\* No event is lost: once committed with its settlement it is eventually marked
\* published, also when instances die or sends fail before the mark.
EveryEventPublished ==
  \A e \in Events : e \in stored ~> e \in published

-----------------------------------------------------------------------------
(* The inductive invariant behind the safety properties *)

\* The rows of its batch that p has sent, or skipped.
Done(p) == Limit - Len(batch[p]) + (IF pc[p] \in {"mark", "retry"} THEN 1 ELSE 0)

\* A batch is as old as its sends were long, which bounds how far back it started.
BatchAge ==
  \A p \in Publishers :
    /\ Len(batch[p]) <= Limit
    /\ pc[p] # "send" => flight[p] = 0
    /\ pc[p] = "idle" => batchNow[p] = 0
    /\ batchNow[p] >= 0 - (Done(p) * MaxSend + flight[p])

\* What is about to be marked is in the queue.
SentBeforeMark ==
  \A p \in Publishers : pc[p] = "mark" => copies[InHand(p)] > 0

PublisherInv ==
  /\ TypeOK
  /\ BatchAge
  /\ LatestClaimDecides
  /\ SentBeforeMark
  /\ PublishedWasSent
  /\ OneSendPerClaim

-----------------------------------------------------------------------------
(* A statement of the documents that the code does not keep *)

\* The lease covers the interval a send is in flight, so
\* that two publishers never send one row at the same time.
NoConcurrentPublication ==
  \A p, q \in Publishers : \A e \in Events :
    p # q => ~ (Holds(p, e) /\ pc[p] = "send" /\ Holds(q, e) /\ pc[q] = "send")
=============================================================================
