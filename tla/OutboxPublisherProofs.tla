------------------------ MODULE OutboxPublisherProofs ------------------------
(* Theorems about OutboxPublisher for every value of its constants. *)
EXTENDS OutboxPublisher, FiniteSetTheorems, TLAPS

-----------------------------------------------------------------------------
(* Arithmetic and batches *)

\* A retry delay is a number of ticks.
LEMMA BackoffType ==
  ASSUME NEW n \in Nat
  PROVE  Backoff(n) \in Int
<1>1. \A k \in Nat : 2 ^ k \in Int
  OBVIOUS
<1>2. (IF n > 0 THEN n - 1 ELSE 0) \in Nat
  OBVIOUS
<1> QED
  BY <1>1, <1>2, OutboxAssumption DEF Backoff

\* Ticks of the sends of a batch, as a function of their number.
LEMMA BatchTicks ==
  ASSUME NEW a \in Nat, NEW b \in Nat, a <= b
  PROVE  /\ a * MaxSend \in Nat
         /\ a * MaxSend <= b * MaxSend
         /\ (a + 1) * MaxSend = a * MaxSend + MaxSend
BY OutboxAssumption

\* A bound on the age of a batch holds a fortiori once more rows are done.
LEMMA OlderBatch ==
  ASSUME NEW a \in Nat, NEW b \in Nat, a <= b, NEW t \in Int, t >= 0 - (a * MaxSend + 0)
  PROVE  t >= 0 - (b * MaxSend + 0)
BY BatchTicks, OutboxAssumption

\* The end of a send turns its ticks into those of a row that is done.
LEMMA SentRow ==
  ASSUME NEW d \in Nat, NEW f \in Nat, f <= MaxSend, NEW t \in Int,
         t >= 0 - (d * MaxSend + f)
  PROVE  t >= 0 - ((d + 1) * MaxSend + 0)
<1>1. d * MaxSend \in Nat /\ (d + 1) * MaxSend = d * MaxSend + MaxSend
  BY BatchTicks
<1> QED
  BY <1>1, OutboxAssumption

\* No time that is told apart lies further back than LongAgo, and it is past.
LEMMA LongAgoType == LongAgo \in Int /\ LongAgo <= 0
<1>1. Limit * MaxSend \in Nat
  BY OutboxAssumption
<1> QED
  BY <1>1 DEF LongAgo

\* While a send is not over, its batch may grow one tick older.
LEMMA OneMoreTick ==
  ASSUME NEW d \in Nat, d < Limit, NEW f \in Nat, f < MaxSend, NEW t \in Int,
         t >= 0 - (d * MaxSend + f)
  PROVE  t - 1 >= LongAgo
<1>1. /\ d * MaxSend \in Nat
      /\ (d + 1) * MaxSend = d * MaxSend + MaxSend
  BY BatchTicks
<1>2. d + 1 \in Nat /\ d + 1 <= Limit /\ Limit \in Nat
  BY OutboxAssumption
<1>3. (d + 1) * MaxSend <= Limit * MaxSend /\ Limit * MaxSend \in Nat
  BY <1>2, BatchTicks
<1> QED
  BY <1>1, <1>3, OutboxAssumption DEF LongAgo

\* Rows left and rows done of a batch.
LEMMA RowsLeft ==
  ASSUME NEW n \in Nat \ {0}, n <= Limit
  PROVE  /\ Limit - n \in Nat /\ Limit - n < Limit
         /\ Limit - n + 1 \in Nat /\ Limit - n + 1 <= Limit
BY OutboxAssumption

\* A publisher at work has a committed row in hand.
LEMMA HandType ==
  ASSUME TypeOK, NEW p \in Publishers, pc[p] # "idle"
  PROVE  /\ InHand(p) \in stored
         /\ InHand(p) \in Events
         /\ Len(batch[p]) \in Nat \ {0}
         /\ Tail(batch[p]) \in Seq(stored)
         /\ Len(Tail(batch[p])) = Len(batch[p]) - 1
<1>1. batch[p] \in Seq(stored) /\ batch[p] # <<>> /\ stored \subseteq Events
  BY DEF TypeOK
<1> QED
  BY <1>1 DEF InHand

\* Batches are short sequences of committed rows.
LEMMA BatchesType ==
  ASSUME TypeOK, NEW rows \in Batches
  PROVE  rows \in Seq(stored) /\ rows # <<>> /\ Len(rows) <= Limit
<1>1. PICK n \in 1..Limit : rows \in [1..n -> Due]
  BY DEF Batches
<1>2. n \in Nat /\ n > 0 /\ n <= Limit
  BY <1>1, OutboxAssumption
<1>3. Due \subseteq stored
  BY DEF Due
<1>4. rows \in Seq(Due) /\ Len(rows) = n
  BY <1>1, <1>2
<1> QED
  BY <1>2, <1>3, <1>4

\* How far back the batch of a publisher at work started, with the rows it sent.
LEMMA AgeBounds ==
  ASSUME TypeOK, BatchAge, NEW p \in Publishers, pc[p] # "idle"
  PROVE  /\ Done(p) \in Nat
         /\ Done(p) <= Limit
         /\ pc[p] \notin {"mark", "retry"} => Done(p) = Limit - Len(batch[p]) /\ Done(p) < Limit
         /\ pc[p] \in {"mark", "retry"} => Done(p) = Limit - Len(batch[p]) + 1
         /\ batchNow[p] \in Int
         /\ flight[p] \in Nat /\ flight[p] <= MaxSend
         /\ Done(p) * MaxSend \in Nat
         /\ batchNow[p] >= 0 - (Done(p) * MaxSend + flight[p])
<1>1. Len(batch[p]) \in Nat \ {0} /\ Len(batch[p]) <= Limit
  BY HandType DEF BatchAge
<1>2. LongAgo \in Int
  BY LongAgoType
<1>3. batchNow[p] \in Int /\ flight[p] \in Nat /\ flight[p] <= MaxSend
  BY <1>2, OutboxAssumption DEF TypeOK
<1>4. /\ Done(p) \in Nat
      /\ Done(p) <= Limit
      /\ pc[p] \notin {"mark", "retry"} => Done(p) = Limit - Len(batch[p]) /\ Done(p) < Limit
      /\ pc[p] \in {"mark", "retry"} => Done(p) = Limit - Len(batch[p]) + 1
  <2>1. /\ Limit - Len(batch[p]) \in Nat /\ Limit - Len(batch[p]) < Limit
        /\ Limit - Len(batch[p]) + 1 \in Nat /\ Limit - Len(batch[p]) + 1 <= Limit
    BY <1>1, RowsLeft
  <2>2. CASE pc[p] \in {"mark", "retry"}
    BY <2>1, <2>2 DEF Done
  <2>3. CASE pc[p] \notin {"mark", "retry"}
    BY <2>1, <2>3, OutboxAssumption DEF Done
  <2> QED
    BY <2>2, <2>3
<1>5. Done(p) * MaxSend \in Nat
  BY <1>4, OutboxAssumption, BatchTicks
<1> QED
  BY <1>3, <1>4, <1>5 DEF BatchAge

\* What TypeOK and BatchAge say of publisher p.
PublisherOK(p) ==
  /\ pc[p] \in {"idle", "claim", "send", "mark", "retry"}
  /\ batch[p] \in Seq(stored)
  /\ batch[p] = <<>> <=> pc[p] = "idle"
  /\ batchNow[p] \in LongAgo..0
  /\ claimed[p] \in Nat
  /\ flight[p] \in 0..MaxSend
  /\ Len(batch[p]) <= Limit
  /\ pc[p] # "send" => flight[p] = 0
  /\ pc[p] = "idle" => batchNow[p] = 0
  /\ batchNow[p] >= 0 - (Done(p) * MaxSend + flight[p])

\* The types and ages, read per publisher.
LEMMA AllOK ==
  ASSUME TypeOK, BatchAge
  PROVE  \A p \in Publishers : PublisherOK(p)
BY DEF TypeOK, BatchAge, PublisherOK

\* A publisher that does not move stays in order.
LEMMA OthersOK ==
  ASSUME NEW q \in Publishers, PublisherOK(q), stored \subseteq stored',
         pc'[q] = pc[q], batch'[q] = batch[q], batchNow'[q] = batchNow[q],
         claimed'[q] = claimed[q], flight'[q] = flight[q]
  PROVE  PublisherOK(q)'
<1>1. Done(q)' = Done(q)
  BY DEF Done
<1>2. batch'[q] \in Seq(stored')
  BY DEF PublisherOK
<1> QED
  BY <1>1, <1>2 DEF PublisherOK

\* Moving on to the next row keeps a publisher in order.
LEMMA ProceedOK ==
  ASSUME TypeOK, BatchAge, NEW p \in Publishers, pc[p] \in {"claim", "mark", "retry"},
         Proceed(p), stored' = stored
  PROVE  PublisherOK(p)'
<1> DEFINE rest == Tail(batch[p])
<1>1. /\ batch'[p] = rest
      /\ pc'[p] = IF rest = <<>> THEN "idle" ELSE "claim"
      /\ batchNow'[p] = IF rest = <<>> THEN 0 ELSE batchNow[p]
      /\ claimed'[p] = 0
      /\ flight'[p] = flight[p]
  BY DEF Proceed, TypeOK
<1>2. flight[p] = 0
  BY DEF BatchAge
<1>3. CASE rest = <<>>
  <2>1. /\ pc'[p] = "idle" /\ batch'[p] = <<>> /\ batchNow'[p] = 0
        /\ claimed'[p] = 0 /\ flight'[p] = 0
    BY <1>1, <1>2, <1>3
  <2>2. Done(p)' = Limit /\ Limit * MaxSend \in Nat
    BY <2>1, OutboxAssumption DEF Done
  <2>3. 0 >= 0 - (Limit * MaxSend + 0) /\ 0 \in LongAgo..0
    BY <2>2, LongAgoType
  <2> QED
    BY <2>1, <2>2, <2>3, OutboxAssumption DEF PublisherOK
<1>4. CASE rest # <<>>
  <2>1. /\ rest \in Seq(stored) /\ Len(rest) = Len(batch[p]) - 1
        /\ Len(batch[p]) \in Nat \ {0} /\ Len(batch[p]) <= Limit
    BY HandType DEF BatchAge
  <2>2. pc'[p] = "claim" /\ batchNow'[p] = batchNow[p]
    BY <1>1, <1>4
  <2>3. Done(p)' = Limit - (Len(batch[p]) - 1) + 0
    BY <2>1, <2>2, <1>1 DEF Done
  <2>4. Done(p)' = Limit - Len(batch[p]) + 1 /\ Done(p)' \in Nat
    BY <2>1, <2>3, RowsLeft, OutboxAssumption
  <2>5. /\ Done(p) \in Nat /\ batchNow[p] \in Int /\ Done(p) * MaxSend \in Nat
        /\ batchNow[p] >= 0 - (Done(p) * MaxSend + 0)
        /\ Done(p) <= Done(p)'
    <3>1. Done(p) = Limit - Len(batch[p]) \/ Done(p) = Limit - Len(batch[p]) + 1
      BY AgeBounds
    <3>2. Limit - Len(batch[p]) \in Nat
      BY <2>1, RowsLeft
    <3> QED
      BY <3>1, <3>2, <2>4, <1>2, AgeBounds
  <2>6. batchNow[p] >= 0 - (Done(p)' * MaxSend + 0)
    BY <2>4, <2>5, OlderBatch
  <2>7. batchNow'[p] >= 0 - (Done(p)' * MaxSend + flight'[p])
    BY <2>2, <2>6, <1>1, <1>2
  <2>8. batchNow[p] \in LongAgo..0 /\ Len(rest) <= Limit
    BY <2>1, OutboxAssumption DEF TypeOK
  <2> QED
    BY <2>1, <2>2, <2>7, <2>8, <1>1, <1>2, <1>4, OutboxAssumption DEF PublisherOK
<1> QED
  BY <1>3, <1>4

\* The parts of TypeOK and BatchAge, put together.
LEMMA PublishersOK ==
  ASSUME \A p \in Publishers : PublisherOK(p)',
         stored' \subseteq Events, published' \subseteq stored',
         attempts' \in [Events -> Nat], nextAt' \in [Events -> Int], copies' \in [Events -> Nat],
         faults' \in 0..MaxFaults,
         pc' = [p \in Publishers |-> pc'[p]], batch' = [p \in Publishers |-> batch'[p]],
         batchNow' = [p \in Publishers |-> batchNow'[p]],
         claimed' = [p \in Publishers |-> claimed'[p]],
         flight' = [p \in Publishers |-> flight'[p]]
  PROVE  TypeOK' /\ BatchAge'
<1>1. /\ pc' \in [Publishers -> {"idle", "claim", "send", "mark", "retry"}]
      /\ batch' \in [Publishers -> Seq(stored')]
      /\ batchNow' \in [Publishers -> LongAgo..0]
      /\ claimed' \in [Publishers -> Nat]
      /\ flight' \in [Publishers -> 0..MaxSend]
  BY DEF PublisherOK
<1>2. TypeOK'
  BY <1>1 DEF TypeOK, PublisherOK
<1>3. BatchAge'
  BY DEF BatchAge, PublisherOK
<1> QED
  BY <1>2, <1>3

\* A step of publisher p that leaves the other publishers alone keeps the types,
\* given what it does to the table, to the queue and to p.
LEMMA StepOfOne ==
  ASSUME TypeOK, BatchAge, NEW p \in Publishers, PublisherOK(p)',
         stored' = stored, published' \subseteq stored,
         attempts' \in [Events -> Nat], nextAt' \in [Events -> Int], copies' \in [Events -> Nat],
         faults' \in 0..MaxFaults,
         NEW c, NEW b, NEW n, NEW k, NEW f,
         pc' = [pc EXCEPT ![p] = c], batch' = [batch EXCEPT ![p] = b],
         batchNow' = [batchNow EXCEPT ![p] = n], claimed' = [claimed EXCEPT ![p] = k],
         flight' = [flight EXCEPT ![p] = f]
  PROVE  TypeOK' /\ BatchAge'
<1>1. ASSUME NEW q \in Publishers, q # p  PROVE PublisherOK(q)'
  <2>1. /\ pc'[q] = pc[q] /\ batch'[q] = batch[q] /\ batchNow'[q] = batchNow[q]
        /\ claimed'[q] = claimed[q] /\ flight'[q] = flight[q]
    BY <1>1 DEF TypeOK
  <2> QED
    BY <2>1, AllOK, OthersOK
<1>2. /\ pc' = [q \in Publishers |-> pc'[q]] /\ batch' = [q \in Publishers |-> batch'[q]]
      /\ batchNow' = [q \in Publishers |-> batchNow'[q]]
      /\ claimed' = [q \in Publishers |-> claimed'[q]]
      /\ flight' = [q \in Publishers |-> flight'[q]]
  BY DEF TypeOK
<1>3. stored' \subseteq Events
  BY DEF TypeOK
<1> QED
  BY <1>1, <1>2, <1>3, PublishersOK

\* A step of one publisher that only moves on to the next row, after changing
\* the table.
LEMMA StepAndProceed ==
  ASSUME TypeOK, BatchAge, NEW p \in Publishers, pc[p] \in {"claim", "mark", "retry"},
         Proceed(p), stored' = stored, published' \subseteq stored,
         attempts' = attempts, nextAt' \in [Events -> Int], copies' = copies, faults' = faults
  PROVE  TypeOK' /\ BatchAge'
<1>1. PublisherOK(p)'
  BY ProceedOK
<1>2. flight' = [flight EXCEPT ![p] = flight[p]]
  BY DEF Proceed, TypeOK
<1>3. PICK c, b, n, k : /\ pc' = [pc EXCEPT ![p] = c] /\ batch' = [batch EXCEPT ![p] = b]
                        /\ batchNow' = [batchNow EXCEPT ![p] = n]
                        /\ claimed' = [claimed EXCEPT ![p] = k]
  BY DEF Proceed
<1>4. /\ attempts' \in [Events -> Nat] /\ copies' \in [Events -> Nat] /\ faults' \in 0..MaxFaults
  BY DEF TypeOK
<1> QED
  BY <1>1, <1>2, <1>3, <1>4, StepOfOne

-----------------------------------------------------------------------------
(* Types and the age of batches *)

\* Time passes only while sends are shorter than MaxSend, so that every batch
\* stays within LongAgo.
LEMMA TickTypes ==
  ASSUME TypeOK, BatchAge, Tick
  PROVE  TypeOK' /\ BatchAge'
<1>1. ASSUME NEW p \in Publishers  PROVE PublisherOK(p)'
  <2>1. /\ pc'[p] = pc[p] /\ batch'[p] = batch[p] /\ claimed'[p] = claimed[p]
        /\ stored' = stored
        /\ batchNow'[p] = IF pc[p] = "idle" THEN 0 ELSE batchNow[p] - 1
        /\ flight'[p] = IF pc[p] = "idle" THEN 0 ELSE flight[p] + 1
    BY DEF Tick
  <2>2. Done(p)' = Done(p)
    BY <2>1 DEF Done
  <2>3. PublisherOK(p)
    BY AllOK
  <2>4. CASE pc[p] = "idle"
    <3>1. Done(p) = Limit - 0 + 0
      BY <2>3, <2>4 DEF Done, PublisherOK
    <3>2. Done(p) = Limit /\ Limit * MaxSend \in Nat
      BY <3>1, OutboxAssumption
    <3>3. 0 >= 0 - (Limit * MaxSend + 0) /\ 0 \in LongAgo..0
      BY <3>2, LongAgoType
    <3> QED
      BY <2>1, <2>2, <2>3, <2>4, <3>2, <3>3, OutboxAssumption DEF PublisherOK
  <2>5. CASE pc[p] # "idle"
    <3>1. pc[p] = "send" /\ flight[p] < MaxSend
      BY <2>5 DEF Tick
    <3>2. /\ Done(p) \in Nat /\ Done(p) < Limit /\ batchNow[p] \in Int /\ flight[p] \in Nat
          /\ Done(p) * MaxSend \in Nat
          /\ batchNow[p] >= 0 - (Done(p) * MaxSend + flight[p])
      BY <3>1, AgeBounds
    <3>3. batchNow[p] - 1 >= 0 - (Done(p) * MaxSend + (flight[p] + 1))
      BY <3>2
    <3>5. batchNow[p] - 1 >= LongAgo
      BY <3>1, <3>2, OneMoreTick
    <3>6. batchNow[p] <= 0
      BY <2>3, LongAgoType DEF PublisherOK
    <3>7. batchNow'[p] \in LongAgo..0 /\ flight'[p] \in 0..MaxSend
      BY <2>1, <3>1, <3>2, <3>5, <3>6, LongAgoType, OutboxAssumption
    <3> QED
      BY <2>1, <2>2, <2>3, <2>5, <3>1, <3>3, <3>7 DEF PublisherOK
  <2> QED
    BY <2>4, <2>5
<1>2. nextAt' \in [Events -> Int]
  BY LongAgoType DEF Tick, TypeOK
<1>3. /\ stored' \subseteq Events /\ published' \subseteq stored'
      /\ attempts' \in [Events -> Nat] /\ copies' \in [Events -> Nat] /\ faults' \in 0..MaxFaults
  BY DEF Tick, TypeOK
<1>4. /\ pc' = [q \in Publishers |-> pc'[q]] /\ batch' = [q \in Publishers |-> batch'[q]]
      /\ batchNow' = [q \in Publishers |-> batchNow'[q]]
      /\ claimed' = [q \in Publishers |-> claimed'[q]]
      /\ flight' = [q \in Publishers |-> flight'[q]]
  BY DEF Tick, TypeOK
<1> QED
  BY <1>1, <1>2, <1>3, <1>4, PublishersOK

\* Every step of a publisher keeps the types.
LEMMA PublisherTypes ==
  ASSUME TypeOK, BatchAge, NEW p \in Publishers, PublisherStep(p) \/ Abort(p)
  PROVE  TypeOK' /\ BatchAge'
<1>0. /\ attempts \in [Events -> Nat] /\ nextAt \in [Events -> Int] /\ copies \in [Events -> Nat]
      /\ faults \in 0..MaxFaults /\ published \subseteq stored
      /\ PublisherOK(p) /\ LongAgo \in Int
  BY AllOK, LongAgoType DEF TypeOK
<1>1. ASSUME FetchDue(p)  PROVE TypeOK' /\ BatchAge'
  <2>1. PICK rows \in Batches : batch' = [batch EXCEPT ![p] = rows]
    BY <1>1 DEF FetchDue
  <2>2. /\ pc' = [pc EXCEPT ![p] = "claim"] /\ pc[p] = "idle"
        /\ batchNow' = [batchNow EXCEPT ![p] = batchNow[p]]
        /\ claimed' = [claimed EXCEPT ![p] = claimed[p]]
        /\ flight' = [flight EXCEPT ![p] = flight[p]]
        /\ UNCHANGED <<table, copies, faults>>
    BY <1>1 DEF FetchDue, TypeOK
  <2>3. rows \in Seq(stored) /\ rows # <<>> /\ Len(rows) \in Nat \ {0} /\ Len(rows) <= Limit
    BY <2>1, BatchesType
  <2>4. /\ pc'[p] = "claim" /\ batch'[p] = rows /\ batchNow'[p] = batchNow[p]
        /\ claimed'[p] = claimed[p] /\ flight'[p] = flight[p]
    BY <2>1, <2>2 DEF TypeOK
  <2>5. flight[p] = 0
    BY <2>2 DEF BatchAge
  <2>6. batchNow[p] >= 0 - (Done(p)' * MaxSend + 0)
    <3>1. Done(p)' = Limit - Len(rows) + 0
      BY <2>4 DEF Done
    <3>2. Done(p)' \in Nat
      BY <3>1, <2>3, RowsLeft
    <3>3. Done(p)' * MaxSend \in Nat
      BY <3>2, BatchTicks
    <3> QED
      BY <3>3, <2>2 DEF BatchAge
  <2>7. PublisherOK(p)'
    BY <1>0, <2>2, <2>3, <2>4, <2>5, <2>6 DEF PublisherOK, table
  <2> QED
    BY <1>0, <2>1, <2>2, <2>7, StepOfOne DEF table
<1>2. ASSUME Claim(p)  PROVE TypeOK' /\ BatchAge'
  <2>1. /\ pc[p] = "claim"
        /\ pc' = [pc EXCEPT ![p] = "send"]
        /\ batch' = [batch EXCEPT ![p] = batch[p]]
        /\ batchNow' = [batchNow EXCEPT ![p] = batchNow[p]]
        /\ claimed' = [claimed EXCEPT ![p] = attempts[InHand(p)] + 1]
        /\ flight' = [flight EXCEPT ![p] = flight[p]]
        /\ UNCHANGED <<stored, published, copies, faults>>
    BY <1>2 DEF Claim, TypeOK
  <2>2. InHand(p) \in Events /\ Len(batch[p]) \in Nat \ {0}
    BY <2>1, HandType
  <2>3. /\ attempts' \in [Events -> Nat] /\ nextAt' \in [Events -> Int]
        /\ attempts[InHand(p)] + 1 \in Nat
    BY <1>0, <1>2, <2>2, OutboxAssumption DEF Claim, PublisherOK
  <2>4. PublisherOK(p)'
    <3>1. /\ pc'[p] = "send" /\ batch'[p] = batch[p] /\ batchNow'[p] = batchNow[p]
          /\ claimed'[p] = attempts[InHand(p)] + 1 /\ flight'[p] = flight[p]
      BY <2>1 DEF TypeOK
    <3>2. Done(p)' = Done(p)
      BY <2>1, <3>1 DEF Done
    <3> QED
      BY <1>0, <2>1, <2>3, <3>1, <3>2 DEF PublisherOK
  <2> QED
    BY <1>0, <2>1, <2>3, <2>4, StepOfOne
<1>3. ASSUME Skip(p)  PROVE TypeOK' /\ BatchAge'
  BY <1>0, <1>3, StepAndProceed DEF Skip, table
<1>4. ASSUME Send(p) \/ SendFails(p)  PROVE TypeOK' /\ BatchAge'
  <2>1. PICK c \in {"mark", "retry"} : pc' = [pc EXCEPT ![p] = c]
    BY <1>4 DEF Send, SendFails
  <2>2. /\ pc[p] = "send"
        /\ batch' = [batch EXCEPT ![p] = batch[p]]
        /\ batchNow' = [batchNow EXCEPT ![p] = batchNow[p]]
        /\ claimed' = [claimed EXCEPT ![p] = claimed[p]]
        /\ flight' = [flight EXCEPT ![p] = 0]
        /\ UNCHANGED table
    BY <1>4 DEF Send, SendFails, TypeOK
  <2>3. copies' \in [Events -> Nat] /\ faults' \in 0..MaxFaults
    <3>1. InHand(p) \in Events
      BY <2>2, HandType
    <3>2. Accept(InHand(p)) \/ copies' = copies
      BY <1>4 DEF Send, SendFails
    <3>3. copies' \in [Events -> Nat]
      BY <1>0, <3>1, <3>2 DEF Accept
    <3>4. faults' \in 0..MaxFaults
      BY <1>0, <1>4, OutboxAssumption DEF Send, SendFails
    <3> QED
      BY <3>3, <3>4
  <2>4. PublisherOK(p)'
    <3>1. /\ pc'[p] = c /\ batch'[p] = batch[p] /\ batchNow'[p] = batchNow[p]
          /\ claimed'[p] = claimed[p] /\ flight'[p] = 0 /\ stored' = stored
      BY <2>1, <2>2 DEF TypeOK, table
    <3>2. /\ Len(batch[p]) \in Nat \ {0} /\ Len(batch[p]) <= Limit
          /\ Done(p) = Limit - Len(batch[p]) /\ Done(p) \in Nat
          /\ Done(p) * MaxSend \in Nat
          /\ flight[p] \in Nat /\ flight[p] <= MaxSend /\ batchNow[p] \in Int
          /\ batchNow[p] >= 0 - (Done(p) * MaxSend + flight[p])
      BY <1>0, <2>2, HandType, AgeBounds DEF PublisherOK
    <3>3. Done(p)' = Limit - Len(batch[p]) + 1
      BY <2>1, <3>1 DEF Done
    <3>4. Done(p)' = Done(p) + 1
      BY <3>2, <3>3
    <3>5. batchNow[p] >= 0 - ((Done(p) + 1) * MaxSend + 0)
      BY <3>2, SentRow
    <3>6. batchNow'[p] >= 0 - (Done(p)' * MaxSend + flight'[p])
      BY <3>1, <3>4, <3>5
    <3> QED
      BY <1>0, <2>1, <2>2, <3>1, <3>6, OutboxAssumption DEF PublisherOK
  <2> QED
    BY <1>0, <2>1, <2>2, <2>3, <2>4, StepOfOne DEF table
<1>5. ASSUME MarkPublished(p)  PROVE TypeOK' /\ BatchAge'
  <2>1. /\ pc[p] = "mark" /\ Proceed(p) /\ UNCHANGED <<stored, attempts, copies, faults>>
    BY <1>5 DEF MarkPublished
  <2>2. InHand(p) \in stored /\ InHand(p) \in Events
    BY <2>1, HandType
  <2>3. published' \subseteq stored /\ nextAt' \in [Events -> Int]
    BY <1>0, <1>5, <2>2 DEF MarkPublished
  <2> QED
    BY <2>1, <2>3, StepAndProceed
<1>6. ASSUME ScheduleRetry(p)  PROVE TypeOK' /\ BatchAge'
  <2>1. pc[p] = "retry" /\ Proceed(p) /\ UNCHANGED <<stored, attempts, published, copies, faults>>
    BY <1>6 DEF ScheduleRetry
  <2>2. nextAt' \in [Events -> Int]
    <3>1. CASE Owns(p)
      <4> DEFINE retryAt == batchNow[p] + Backoff(claimed[p])
      <4>1. retryAt \in Int
        BY <1>0, BackoffType DEF PublisherOK
      <4>2. nextAt' = [nextAt EXCEPT ![InHand(p)] = retryAt]
        BY <1>6, <3>1 DEF ScheduleRetry
      <4> HIDE DEF retryAt
      <4> QED
        BY <1>0, <4>1, <4>2
    <3>2. CASE ~Owns(p)
      BY <1>0, <1>6, <3>2 DEF ScheduleRetry
    <3> QED
      BY <3>1, <3>2
  <2> QED
    BY <1>0, <2>1, <2>2, StepAndProceed
<1>7. ASSUME Abort(p)  PROVE TypeOK' /\ BatchAge'
  <2>1. /\ pc' = [pc EXCEPT ![p] = "idle"] /\ batch' = [batch EXCEPT ![p] = <<>>]
        /\ batchNow' = [batchNow EXCEPT ![p] = 0] /\ claimed' = [claimed EXCEPT ![p] = 0]
        /\ flight' = [flight EXCEPT ![p] = 0] /\ UNCHANGED <<table, copies>>
    BY <1>7 DEF Abort
  <2>2. faults' \in 0..MaxFaults
    BY <1>0, <1>7, OutboxAssumption DEF Abort
  <2>3. /\ pc'[p] = "idle" /\ batch'[p] = <<>> /\ batchNow'[p] = 0
        /\ claimed'[p] = 0 /\ flight'[p] = 0
    BY <2>1 DEF TypeOK
  <2>4. PublisherOK(p)'
    <3>1. Done(p)' = Limit /\ Limit * MaxSend \in Nat
      BY <2>3, OutboxAssumption DEF Done
    <3>2. 0 >= 0 - (Limit * MaxSend + 0) /\ 0 \in LongAgo..0
      BY <3>1, LongAgoType
    <3> QED
      BY <2>3, <3>1, <3>2, OutboxAssumption DEF PublisherOK
  <2> QED
    BY <1>0, <2>1, <2>2, <2>4, StepOfOne DEF table
<1> QED
  BY <1>1, <1>2, <1>3, <1>4, <1>5, <1>6, <1>7 DEF PublisherStep

-----------------------------------------------------------------------------
(* Claims *)

\* What a publisher holds depends on its own batch only.
LEMMA SameHold ==
  ASSUME NEW q, pc'[q] = pc[q], batch'[q] = batch[q]
  PROVE  /\ InHand(q)' = InHand(q)
         /\ \A e : Holds(q, e)' <=> Holds(q, e)
BY DEF Holds, InHand

\* LatestClaimDecides, for one publisher and event.
ClaimOK(p, e) ==
  Holds(p, e) =>
    /\ claimed[p] <= attempts[e]
    /\ claimed[p] = attempts[e] => e \notin published /\ nextAt[e] = batchNow[p] + Lease
    /\ \A q \in Publishers \ {p} : Holds(q, e) => claimed[q] # claimed[p]

\* LatestClaimDecides is ClaimOK of every pair.
LEMMA ClaimsByPair == LatestClaimDecides <=> \A p \in Publishers, e \in Events : ClaimOK(p, e)
BY DEF LatestClaimDecides, ClaimOK

\* The same for the next state.
LEMMA ClaimsByPairNext ==
  ASSUME \A p \in Publishers, e \in Events : ClaimOK(p, e)'
  PROVE  LatestClaimDecides'
BY DEF LatestClaimDecides, ClaimOK

\* A publisher that moves on has let its row go; if it owned the row, what it
\* then did to it concerns no other claim, for theirs are older.
LEMMA LetGo ==
  ASSUME TypeOK, LatestClaimDecides, NEW p \in Publishers,
         pc[p] \in {"claim", "mark", "retry"}, Proceed(p), attempts' = attempts,
         \A e \in Events : \/ (e \in published' <=> e \in published) /\ nextAt'[e] = nextAt[e]
                           \/ pc[p] # "claim" /\ e = InHand(p) /\ Owns(p)
  PROVE  LatestClaimDecides'
<1>1. \A e : ~Holds(p, e)'
  <2>1. pc'[p] \in {"idle", "claim"}
    BY DEF Proceed, TypeOK
  <2> QED
    BY <2>1 DEF Holds
<1>2. ASSUME NEW q \in Publishers, q # p
      PROVE  /\ \A e : Holds(q, e)' <=> Holds(q, e)
             /\ claimed'[q] = claimed[q] /\ batchNow'[q] = batchNow[q]
  <2>1. /\ pc'[q] = pc[q] /\ batch'[q] = batch[q] /\ claimed'[q] = claimed[q]
        /\ batchNow'[q] = batchNow[q]
    BY <1>2 DEF Proceed, TypeOK
  <2> QED
    BY <2>1, SameHold
<1>3. ASSUME NEW q \in Publishers, NEW e \in Events  PROVE ClaimOK(q, e)'
  <2>1. CASE q = p
    BY <1>1, <2>1 DEF ClaimOK
  <2>2. CASE q # p
    <3>1. SUFFICES ASSUME Holds(q, e)'  PROVE ClaimOK(q, e)'
      BY DEF ClaimOK
    <3>2. Holds(q, e) /\ ClaimOK(q, e) /\ claimed'[q] = claimed[q] /\ batchNow'[q] = batchNow[q]
      BY <1>2, <2>2, <3>1, ClaimsByPair
    <3>3. \A r \in Publishers \ {q} : Holds(r, e)' => claimed'[r] # claimed'[q]
      BY <1>1, <1>2, <3>2 DEF ClaimOK
    <3>4. claimed'[q] = attempts'[e] => e \notin published' /\ nextAt'[e] = batchNow'[q] + Lease
      <4>1. CASE (e \in published' <=> e \in published) /\ nextAt'[e] = nextAt[e]
        BY <3>2, <4>1 DEF ClaimOK
      <4>2. CASE pc[p] # "claim" /\ e = InHand(p) /\ Owns(p)
        <5>1. Holds(p, e) /\ claimed[p] = attempts[e]
          BY <4>2 DEF Holds, Owns
        <5>2. claimed[q] # attempts[e]
          BY <2>2, <3>2, <5>1 DEF ClaimOK
        <5> QED
          BY <3>2, <5>2
      <4> QED
        BY <4>1, <4>2
    <3> QED
      BY <3>2, <3>3, <3>4 DEF ClaimOK
  <2> QED
    BY <2>1, <2>2
<1> QED
  BY <1>3, ClaimsByPairNext

\* A claim is newer than every other claim of its row.
LEMMA NewClaim ==
  ASSUME TypeOK, LatestClaimDecides, NEW p \in Publishers, Claim(p)
  PROVE  LatestClaimDecides'
<1>0. PICK h : h = InHand(p)
  OBVIOUS
<1>1. /\ h \in Events /\ h \notin published /\ pc[p] = "claim"
      /\ attempts[h] \in Nat
  <2>1. pc[p] = "claim" /\ Claimable(p)
    BY DEF Claim
  <2> QED
    BY <1>0, <2>1, HandType DEF Claimable, TypeOK
<1>2. /\ attempts'[h] = attempts[h] + 1 /\ nextAt'[h] = batchNow[p] + Lease
      /\ claimed'[p] = attempts[h] + 1 /\ batchNow' = batchNow /\ published' = published
      /\ batch' = batch
      /\ \A e \in Events \ {h} : attempts'[e] = attempts[e] /\ nextAt'[e] = nextAt[e]
      /\ \A q \in Publishers \ {p} : claimed'[q] = claimed[q] /\ pc'[q] = pc[q]
  BY <1>0, <1>1 DEF Claim, TypeOK
<1>3. \A e : ~Holds(p, e)
  BY <1>1 DEF Holds
<1>4. InHand(p)' = h
  BY <1>0, <1>2 DEF InHand
<1>5. \A q \in Publishers \ {p}, e \in Events : Holds(q, e)' <=> Holds(q, e)
  BY <1>2, SameHold
<1>6. \A q \in Publishers : claimed[q] \in Nat
  BY DEF TypeOK
<1>7. ASSUME NEW q \in Publishers, NEW e \in Events  PROVE ClaimOK(q, e)'
  <2>1. SUFFICES ASSUME Holds(q, e)'  PROVE ClaimOK(q, e)'
    BY DEF ClaimOK
  <2>2. CASE q = p
    <3>1. e = h
      BY <1>4, <2>1, <2>2 DEF Holds
    <3>2. \A r \in Publishers \ {p} : Holds(r, h) => claimed[r] <= attempts[h]
      BY <1>1, ClaimsByPair DEF ClaimOK
    <3>3. ASSUME NEW r \in Publishers \ {p}, Holds(r, h)'  PROVE claimed'[r] # claimed'[p]
      <4>1. claimed[r] <= attempts[h] /\ claimed[r] \in Nat
        BY <1>1, <1>5, <1>6, <3>2, <3>3
      <4> QED
        BY <1>1, <1>2, <4>1
    <3> QED
      BY <1>1, <1>2, <2>2, <3>1, <3>3 DEF ClaimOK
  <2>3. CASE q # p
    <3>1. Holds(q, e) /\ ClaimOK(q, e) /\ claimed'[q] = claimed[q] /\ batchNow'[q] = batchNow[q]
      BY <1>2, <1>5, <2>1, <2>3, ClaimsByPair
    <3>2. CASE e = h
      <4>1. claimed[q] <= attempts[h] /\ claimed[q] # attempts[h] + 1
        BY <1>1, <1>6, <3>1, <3>2 DEF ClaimOK
      <4>2. \A r \in Publishers \ {q} : Holds(r, e)' => claimed'[r] # claimed'[q]
        BY <1>2, <1>5, <2>3, <3>1, <4>1 DEF ClaimOK
      <4> QED
        BY <1>1, <1>2, <1>6, <3>1, <3>2, <4>1, <4>2 DEF ClaimOK
    <3>3. CASE e # h
      <4>1. ~Holds(p, e)'
        BY <1>4, <3>3 DEF Holds
      <4>2. \A r \in Publishers \ {q} : Holds(r, e)' => claimed'[r] # claimed'[q]
        BY <1>2, <1>5, <2>3, <3>1, <4>1 DEF ClaimOK
      <4> QED
        BY <1>2, <3>1, <3>3, <4>2 DEF ClaimOK
    <3> QED
      BY <3>2, <3>3
  <2> QED
    BY <2>2, <2>3
<1> QED
  BY <1>7, ClaimsByPairNext

\* A step that changes no row, no claim and no batch in hand.
LEMMA SameClaims ==
  ASSUME TypeOK, LatestClaimDecides,
         \A q \in Publishers, e \in Events : Holds(q, e)' => Holds(q, e),
         \A q \in Publishers, e \in Events : Holds(q, e)' => batchNow'[q] = batchNow[q],
         \A q \in Publishers, e \in Events : Holds(q, e)' => claimed'[q] = claimed[q],
         attempts' = attempts, published' = published, nextAt' = nextAt
  PROVE  LatestClaimDecides'
<1>1. ASSUME NEW q \in Publishers, NEW e \in Events  PROVE ClaimOK(q, e)'
  BY ClaimsByPair DEF ClaimOK
<1> QED
  BY <1>1, ClaimsByPairNext

\* Time moves a claim's lease along with the start of its batch.
LEMMA TickClaims ==
  ASSUME TypeOK, LatestClaimDecides, Tick
  PROVE  LatestClaimDecides'
<1>1. \A q \in Publishers : \A e : Holds(q, e)' <=> Holds(q, e)
  BY SameHold DEF Tick
<1>2. ASSUME NEW q \in Publishers, NEW e \in Events, Holds(q, e), nextAt[e] = batchNow[q] + Lease
      PROVE  nextAt'[e] = batchNow'[q] + Lease
  <2>1. pc[q] # "idle" /\ batchNow[q] \in LongAgo..0
    BY <1>2 DEF Holds, TypeOK
  <2>2. nextAt[e] > LongAgo
    BY <1>2, <2>1, LongAgoType, OutboxAssumption
  <2>3. nextAt'[e] = nextAt[e] - 1 /\ batchNow'[q] = batchNow[q] - 1
    BY <2>1, <2>2 DEF Tick
  <2> QED
    BY <1>2, <2>1, <2>3, LongAgoType, OutboxAssumption
<1>3. ASSUME NEW q \in Publishers, NEW e \in Events  PROVE ClaimOK(q, e)'
  BY <1>1, <1>2, ClaimsByPair DEF ClaimOK, Tick
<1> QED
  BY <1>3, ClaimsByPairNext

\* Every step keeps the latest claim the deciding one.
LEMMA ClaimStep ==
  ASSUME TypeOK, LatestClaimDecides, Next
  PROVE  LatestClaimDecides'
<1>1. ASSUME NEW e \in Events, Enqueue(e)  PROVE LatestClaimDecides'
  BY <1>1, SameHold, SameClaims DEF Enqueue
<1>2. ASSUME NEW p \in Publishers, FetchDue(p)  PROVE LatestClaimDecides'
  <2>1. \A q \in Publishers, e \in Events : Holds(q, e)' => q # p
    BY <1>2 DEF FetchDue, Holds, TypeOK
  <2>2. \A q \in Publishers \ {p} : pc'[q] = pc[q] /\ batch'[q] = batch[q]
    BY <1>2 DEF FetchDue, TypeOK
  <2>3. \A q \in Publishers, e \in Events : Holds(q, e)' => Holds(q, e)
    BY <2>1, <2>2, SameHold
  <2> QED
    BY <1>2, <2>3, SameClaims DEF FetchDue, table
<1>3. ASSUME NEW p \in Publishers, Claim(p)  PROVE LatestClaimDecides'
  BY <1>3, NewClaim
<1>4. ASSUME NEW p \in Publishers, Skip(p)  PROVE LatestClaimDecides'
  BY <1>4, LetGo DEF Skip, table
<1>5. ASSUME NEW p \in Publishers, Send(p) \/ SendFails(p)  PROVE LatestClaimDecides'
  <2>1. pc[p] = "send" /\ batch' = batch /\ batchNow' = batchNow /\ claimed' = claimed
        /\ UNCHANGED table /\ \A q \in Publishers \ {p} : pc'[q] = pc[q]
    BY <1>5 DEF Send, SendFails, TypeOK
  <2>2. \A q \in Publishers, e \in Events : Holds(q, e)' => Holds(q, e)
    BY <2>1 DEF Holds, InHand
  <2> QED
    BY <2>1, <2>2, SameClaims DEF table
<1>6. ASSUME NEW p \in Publishers, MarkPublished(p)  PROVE LatestClaimDecides'
  <2>1. pc[p] = "mark" /\ Proceed(p) /\ attempts' = attempts
    BY <1>6 DEF MarkPublished
  <2>2. ASSUME NEW e \in Events
        PROVE  \/ (e \in published' <=> e \in published) /\ nextAt'[e] = nextAt[e]
               \/ pc[p] # "claim" /\ e = InHand(p) /\ Owns(p)
    BY <1>6, <2>1 DEF MarkPublished, TypeOK
  <2> QED
    BY <2>1, <2>2, LetGo
<1>7. ASSUME NEW p \in Publishers, ScheduleRetry(p)  PROVE LatestClaimDecides'
  <2>1. pc[p] = "retry" /\ Proceed(p) /\ attempts' = attempts /\ published' = published
    BY <1>7 DEF ScheduleRetry
  <2>2. ASSUME NEW e \in Events
        PROVE  \/ (e \in published' <=> e \in published) /\ nextAt'[e] = nextAt[e]
               \/ pc[p] # "claim" /\ e = InHand(p) /\ Owns(p)
    BY <1>7, <2>1 DEF ScheduleRetry, TypeOK
  <2> QED
    BY <2>1, <2>2, LetGo
<1>8. ASSUME NEW p \in Publishers, Abort(p)  PROVE LatestClaimDecides'
  <2>1. \A q \in Publishers, e \in Events : Holds(q, e)' => q # p
    BY <1>8 DEF Abort, Holds, TypeOK
  <2>2. \A q \in Publishers \ {p} : /\ pc'[q] = pc[q] /\ batch'[q] = batch[q]
                                   /\ batchNow'[q] = batchNow[q] /\ claimed'[q] = claimed[q]
    BY <1>8 DEF Abort, TypeOK
  <2>3. \A q \in Publishers, e \in Events : Holds(q, e)' => Holds(q, e)
    BY <2>1, <2>2, SameHold
  <2> QED
    BY <1>8, <2>1, <2>2, <2>3, SameClaims DEF Abort, table
<1> QED
  BY <1>1, <1>2, <1>3, <1>4, <1>5, <1>6, <1>7, <1>8, TickClaims DEF Next, PublisherStep

-----------------------------------------------------------------------------
(* Sends *)

\* What a step may do to the copies of an event: nothing, or one more.
LEMMA CopiesStep ==
  ASSUME TypeOK, Next, NEW e \in Events
  PROVE  copies'[e] = copies[e] \/ copies'[e] = copies[e] + 1
BY DEF Next, PublisherStep, Enqueue, FetchDue, Claim, Skip, Send, SendFails, MarkPublished,
       ScheduleRetry, Abort, Tick, Accept, TypeOK

\* Every step marks only what was sent, and comes to a mark only by a send.
LEMMA SentStep ==
  ASSUME TypeOK, SentBeforeMark, PublishedWasSent, Next
  PROVE  SentBeforeMark' /\ PublishedWasSent'
<1>0. ASSUME NEW e \in Events, copies[e] > 0  PROVE copies'[e] > 0
  <2>1. copies[e] \in Nat
    BY DEF TypeOK
  <2> QED
    BY <1>0, <2>1, CopiesStep
<1>1. PublishedWasSent'
  <2>1. ASSUME NEW e \in published'  PROVE e \in Events /\ copies[e] > 0
    <3>1. CASE e \in published
      BY <3>1 DEF PublishedWasSent, TypeOK
    <3>2. CASE e \notin published
      <4>1. PICK p \in Publishers : MarkPublished(p) /\ e = InHand(p)
        BY <2>1, <3>2 DEF Next, PublisherStep, Enqueue, FetchDue, Claim, Skip, Send, SendFails,
                          MarkPublished, ScheduleRetry, Abort, Tick, table
      <4>2. pc[p] = "mark"
        BY <4>1 DEF MarkPublished
      <4> QED
        BY <4>1, <4>2, HandType DEF SentBeforeMark
    <3> QED
      BY <3>1, <3>2
  <2> QED
    BY <1>0, <2>1 DEF PublishedWasSent
<1>2. SentBeforeMark'
  <2>1. SUFFICES ASSUME NEW q \in Publishers, pc'[q] = "mark"  PROVE copies'[InHand(q)'] > 0
    BY DEF SentBeforeMark
  <2>2. CASE Send(q)
    <3>1. InHand(q) \in Events /\ InHand(q)' = InHand(q)
      BY <2>2, HandType DEF Send, InHand
    <3>2. copies'[InHand(q)] > 0
      BY <2>2, <3>1 DEF Send, Accept, TypeOK
    <3> QED
      BY <3>1, <3>2
  <2>3. CASE ~Send(q)
    <3>1. pc[q] = "mark" /\ batch'[q] = batch[q]
      BY <2>1, <2>3 DEF Next, PublisherStep, Enqueue, FetchDue, Claim, Skip, Send, SendFails,
                        MarkPublished, ScheduleRetry, Abort, Tick, Proceed, TypeOK
    <3>2. InHand(q)' = InHand(q) /\ InHand(q) \in Events
      BY <3>1, HandType DEF InHand
    <3> QED
      BY <1>0, <3>1, <3>2 DEF SentBeforeMark
  <2> QED
    BY <2>2, <2>3
<1> QED
  BY <1>1, <1>2

\* Senders are finitely many.
LEMMA SendersFinite ==
  ASSUME NEW e
  PROVE  IsFiniteSet(Senders(e)) /\ Cardinality(Senders(e)) \in Nat
<1>1. Senders(e) \subseteq Publishers
  BY DEF Senders
<1> QED
  BY <1>1, OutboxAssumption, FS_Subset, FS_CardinalityType

\* A step that starts no send and adds no copy.
LEMMA NoNewSend ==
  ASSUME TypeOK, OneSendPerClaim, attempts' = attempts, copies' = copies,
         \A q \in Publishers : pc'[q] = "send" => pc[q] = "send" /\ batch'[q] = batch[q]
  PROVE  OneSendPerClaim'
<1>1. ASSUME NEW e \in Events
      PROVE  copies'[e] + Cardinality(Senders(e)') <= attempts'[e]
  <2>1. Senders(e)' \subseteq Senders(e)
    BY DEF Senders, InHand
  <2>2. Cardinality(Senders(e)') <= Cardinality(Senders(e)) /\ Cardinality(Senders(e)') \in Nat
    BY <2>1, SendersFinite, FS_Subset, FS_CardinalityType
  <2>3. Cardinality(Senders(e)) \in Nat /\ copies[e] \in Nat /\ attempts[e] \in Nat
    BY SendersFinite DEF TypeOK
  <2> QED
    BY <2>2, <2>3 DEF OneSendPerClaim
<1> QED
  BY <1>1 DEF OneSendPerClaim

\* Every step pays for a send with a claim.
LEMMA SenderStep ==
  ASSUME TypeOK, OneSendPerClaim, Next
  PROVE  OneSendPerClaim'
<1>1. ASSUME NEW p \in Publishers, Claim(p)  PROVE OneSendPerClaim'
  <2>0. PICK h : h = InHand(p)
    OBVIOUS
  <2>1. /\ pc[p] = "claim" /\ h \in Events /\ batch' = batch /\ copies' = copies
        /\ pc' = [pc EXCEPT ![p] = "send"] /\ attempts' = [attempts EXCEPT ![h] = @ + 1]
    BY <1>1, <2>0, HandType DEF Claim
  <2>2. ASSUME NEW e \in Events
        PROVE  copies'[e] + Cardinality(Senders(e)') <= attempts'[e]
    <3>1. /\ Cardinality(Senders(e)) \in Nat /\ copies[e] \in Nat /\ attempts[e] \in Nat
          /\ copies[e] + Cardinality(Senders(e)) <= attempts[e]
      BY SendersFinite DEF TypeOK, OneSendPerClaim
    <3>2. CASE e = h
      <4>1. Senders(e)' = Senders(e) \cup {p}
        BY <2>0, <2>1, <3>2 DEF Senders, InHand, TypeOK
      <4>2. /\ Cardinality(Senders(e)') <= Cardinality(Senders(e)) + 1
            /\ Cardinality(Senders(e)') \in Nat
        BY <4>1, <3>1, SendersFinite, FS_AddElement
      <4>3. attempts'[e] = attempts[e] + 1 /\ copies'[e] = copies[e]
        BY <2>1, <3>2 DEF TypeOK
      <4> QED
        BY <3>1, <4>2, <4>3
    <3>3. CASE e # h
      <4>1. Senders(e)' = Senders(e)
        BY <2>0, <2>1, <3>3 DEF Senders, InHand, TypeOK
      <4> QED
        BY <2>1, <3>1, <3>3, <4>1 DEF TypeOK
    <3> QED
      BY <3>2, <3>3
  <2> QED
    BY <2>2 DEF OneSendPerClaim
<1>2. ASSUME NEW p \in Publishers, Send(p) \/ SendFails(p)  PROVE OneSendPerClaim'
  <2>0. PICK h : h = InHand(p)
    OBVIOUS
  <2>1. /\ pc[p] = "send" /\ h \in Events /\ batch' = batch /\ attempts' = attempts
        /\ \A q \in Publishers \ {p} : pc'[q] = pc[q]
        /\ pc'[p] # "send"
    BY <1>2, <2>0, HandType DEF Send, SendFails, TypeOK, table
  <2>2. ASSUME NEW e \in Events
        PROVE  copies'[e] + Cardinality(Senders(e)') <= attempts'[e]
    <3>1. /\ Cardinality(Senders(e)) \in Nat /\ copies[e] \in Nat /\ attempts[e] \in Nat
          /\ copies[e] + Cardinality(Senders(e)) <= attempts[e]
      BY SendersFinite DEF TypeOK, OneSendPerClaim
    <3>2. CASE e = h
      <4>1. Senders(e)' = Senders(e) \ {p} /\ p \in Senders(e)
        BY <2>0, <2>1, <3>2 DEF Senders, InHand
      <4>2. Cardinality(Senders(e)') = Cardinality(Senders(e)) - 1
        BY <4>1, SendersFinite, FS_RemoveElement
      <4>3. copies'[e] = copies[e] \/ copies'[e] = copies[e] + 1
        BY CopiesStep
      <4> QED
        BY <2>1, <3>1, <4>2, <4>3
    <3>3. CASE e # h
      <4>1. Senders(e)' = Senders(e)
        BY <2>0, <2>1, <3>3 DEF Senders, InHand
      <4>2. copies'[e] = copies[e]
        BY <1>2, <2>0, <3>3 DEF Send, SendFails, Accept, TypeOK
      <4> QED
        BY <2>1, <3>1, <4>1, <4>2
    <3> QED
      BY <3>2, <3>3
  <2> QED
    BY <2>2 DEF OneSendPerClaim
<1>3. ASSUME NEW e \in Events, Enqueue(e)  PROVE OneSendPerClaim'
  BY <1>3, NoNewSend DEF Enqueue
<1>4. ASSUME NEW p \in Publishers, FetchDue(p)  PROVE OneSendPerClaim'
  BY <1>4, NoNewSend DEF FetchDue, table, TypeOK
<1>5. ASSUME NEW p \in Publishers, Skip(p) \/ MarkPublished(p) \/ ScheduleRetry(p)
      PROVE  OneSendPerClaim'
  BY <1>5, NoNewSend DEF Skip, MarkPublished, ScheduleRetry, Proceed, table, TypeOK
<1>6. ASSUME NEW p \in Publishers, Abort(p)  PROVE OneSendPerClaim'
  BY <1>6, NoNewSend DEF Abort, table, TypeOK
<1>7. ASSUME Tick  PROVE OneSendPerClaim'
  BY <1>7, NoNewSend DEF Tick
<1> QED
  BY <1>1, <1>2, <1>3, <1>4, <1>5, <1>6, <1>7 DEF Next, PublisherStep

-----------------------------------------------------------------------------
(* Theorems *)

\* The inductive invariant: shapes, the age of batches, and the three claims below.
THEOREM PublisherInvariant == Spec => []PublisherInv
<1>1. Init => PublisherInv
  <2> SUFFICES ASSUME Init  PROVE PublisherInv
    OBVIOUS
  <2>1. TypeOK
    BY LongAgoType, OutboxAssumption DEF Init, TypeOK
  <2>2. BatchAge
    <3>1. ASSUME NEW p \in Publishers
          PROVE  Done(p) * MaxSend + flight[p] \in Nat /\ Len(batch[p]) = 0
      <4>1. Done(p) = Limit - 0 + 0 /\ Len(batch[p]) = 0 /\ flight[p] = 0
        BY DEF Done, Init
      <4>2. Limit * MaxSend \in Nat /\ Done(p) = Limit
        BY <4>1, OutboxAssumption
      <4> QED
        BY <4>1, <4>2
    <3> QED
      BY <3>1, OutboxAssumption DEF Init, BatchAge
  <2>3. LatestClaimDecides /\ SentBeforeMark /\ PublishedWasSent
    BY DEF Init, LatestClaimDecides, Holds, SentBeforeMark, PublishedWasSent
  <2>4. OneSendPerClaim
    <3>1. ASSUME NEW e \in Events  PROVE copies[e] + Cardinality(Senders(e)) <= attempts[e]
      <4>1. Senders(e) = {}
        BY DEF Init, Senders
      <4>2. Cardinality(Senders(e)) = 0
        BY <4>1, FS_EmptySet
      <4> QED
        BY <4>2 DEF Init
    <3> QED
      BY <3>1 DEF OneSendPerClaim
  <2> QED
    BY <2>1, <2>2, <2>3, <2>4 DEF PublisherInv
<1>2. PublisherInv /\ [Next]_vars => PublisherInv'
  <2> SUFFICES ASSUME PublisherInv, [Next]_vars  PROVE PublisherInv'
    OBVIOUS
  <2>1. CASE Next
    <3>1. TypeOK' /\ BatchAge'
      <4>1. ASSUME NEW e \in Events, Enqueue(e)  PROVE TypeOK' /\ BatchAge'
        <5>1. \A p \in Publishers : PublisherOK(p)'
          BY <4>1, AllOK, OthersOK DEF Enqueue, PublisherInv
        <5> QED
          BY <4>1, <5>1, PublishersOK DEF Enqueue, PublisherInv, TypeOK
      <4> QED
        BY <2>1, <4>1, PublisherTypes, TickTypes DEF Next, PublisherInv
    <3>2. LatestClaimDecides' /\ SentBeforeMark' /\ PublishedWasSent' /\ OneSendPerClaim'
      BY <2>1, ClaimStep, SentStep, SenderStep DEF PublisherInv
    <3> QED
      BY <3>1, <3>2 DEF PublisherInv
  <2>2. CASE UNCHANGED vars
    BY <2>2 DEF PublisherInv, TypeOK, BatchAge, Done, LatestClaimDecides, Holds, InHand, SentBeforeMark,
                PublishedWasSent, OneSendPerClaim, Senders, vars, table
  <2> QED
    BY <2>1, <2>2
<1> QED
  BY <1>1, <1>2, PTL DEF Spec

\* Rows, batches and times keep their shapes and their finite ranges.
THEOREM PublisherTypeCorrect == Spec => []TypeOK
<1>1. PublisherInv => TypeOK
  BY DEF PublisherInv
<1> QED
  BY <1>1, PublisherInvariant, PTL

\* Of all the claims of a row only the latest decides about it.
THEOREM LatestClaimDecidesAlways == Spec => []LatestClaimDecides
<1>1. PublisherInv => LatestClaimDecides
  BY DEF PublisherInv
<1> QED
  BY <1>1, PublisherInvariant, PTL

\* A row is marked published only when the queue holds its event.
THEOREM PublishedWasSentAlways == Spec => []PublishedWasSent
<1>1. PublisherInv => PublishedWasSent
  BY DEF PublisherInv
<1> QED
  BY <1>1, PublisherInvariant, PTL

\* Each copy of an event in the queue has a claim of its own.
THEOREM OneSendPerClaimAlways == Spec => []OneSendPerClaim
<1>1. PublisherInv => OneSendPerClaim
  BY DEF PublisherInv
<1> QED
  BY <1>1, PublisherInvariant, PTL
=============================================================================
