-------------------------- MODULE SqsConsumerProofs --------------------------
(* Theorems about SqsConsumer for every value of its constants. *)
EXTENDS SqsConsumer, TLAPS

-----------------------------------------------------------------------------
(* The invariant, as what concerns one consumer and what concerns the queue *)

PCs == {"idle", "submit", "ack", "dlq", "dlq delete", "stopped"}

\* The part of the invariant that is about consumer c.
ConsumerOK(c) ==
  /\ pc[c] \in PCs
  /\ batch[c] \in Seq(Handles)
  /\ batch[c] = <<>> <=> pc[c] \in {"idle", "stopped"}
  /\ \A i \in 1..Len(batch[c]) :
       /\ batch[c][i].msg \in sent
       /\ batch[c][i].receive <= receives[batch[c][i].msg]
  /\ pc[c] = "ack" => InHand(c).msg \in settled
  /\ pc[c] = "dlq delete" => InHand(c).msg \in dead
  /\ pc[c] = "dlq" => InHand(c).msg \in Permanent \/ InHand(c).receive = MaxReceive

\* The part of the invariant that is about the queues and the committed effects.
QueuesOK ==
  /\ sent \subseteq Messages
  /\ queued \subseteq sent
  /\ visible \subseteq queued
  /\ receives \in [Messages -> 0..MaxReceive]
  /\ dead \subseteq sent
  /\ settled \subseteq sent
  /\ stopping \subseteq Stoppable
  /\ NoMessageLost
  /\ DeadLettersAreLastResort

PartsOK ==
  /\ QueuesOK
  /\ DOMAIN pc = Consumers /\ pc = [c \in Consumers |-> pc[c]]
  /\ DOMAIN batch = Consumers /\ batch = [c \in Consumers |-> batch[c]]
  /\ \A c \in Consumers : ConsumerOK(c)

\* The two parts are the invariant.
LEMMA PartsAreInv == PartsOK <=> ConsumerInv
BY DEF PartsOK, QueuesOK, ConsumerOK, PCs, ConsumerInv, TypeOK, BatchesReceived,
       DecidedBeforeDelete

-----------------------------------------------------------------------------
(* Batches *)

\* An element of a batch is a handle.
LEMMA HandleInBatch ==
  ASSUME NEW s \in Seq(Handles)
  PROVE  \A i \in 1..Len(s) : s[i] \in Handles
OBVIOUS

\* The message in hand was sent, and its receive is one that the queue has counted.
LEMMA InHandOK ==
  ASSUME NEW c \in Consumers, ConsumerOK(c), QueuesOK, pc[c] \notin {"idle", "stopped"}
  PROVE  /\ InHand(c).msg \in sent
         /\ InHand(c).msg \in Messages
         /\ InHand(c).receive \in 1..MaxReceive
         /\ InHand(c).receive <= receives[InHand(c).msg]
<1>1. batch[c] \in Seq(Handles) /\ batch[c] # <<>>
  BY DEF ConsumerOK
<1>2. 1 \in 1..Len(batch[c]) /\ InHand(c) = batch[c][1] /\ InHand(c) \in Handles
  BY <1>1 DEF InHand
<1> QED
  BY <1>2 DEF ConsumerOK, Handles, QueuesOK

\* A message whose last receive is in hand has none left.
LEMMA LastReceive ==
  ASSUME NEW c \in Consumers, ConsumerOK(c), QueuesOK, pc[c] \notin {"idle", "stopped"},
         InHand(c).receive >= MaxReceive
  PROVE  InHand(c).receive = MaxReceive /\ receives[InHand(c).msg] = MaxReceive
<1>1. MaxReceive \in Nat /\ receives[InHand(c).msg] \in 0..MaxReceive
  BY InHandOK, ConsumerAssumption DEF QueuesOK
<1> QED
  BY <1>1, InHandOK

\* The handle of a message and one of its receives.
LEMMA HandleOf ==
  ASSUME NEW m \in Messages, NEW k \in 1..MaxReceive,
         NEW h, h = [msg |-> m, receive |-> k]
  PROVE  h \in Handles /\ h.msg = m /\ h.receive = k
BY DEF Handles

\* A batch of no messages is the empty one.
LEMMA NoMessages ==
  ASSUME NEW s \in Seq(Handles)
  PROVE  Len(s) = 0 <=> s = <<>>
OBVIOUS

\* The rest of a batch is a batch.
LEMMA RestOfBatch ==
  ASSUME NEW s \in Seq(Handles), s # <<>>
  PROVE  /\ Tail(s) \in Seq(Handles)
         /\ Len(s) = 1 <=> Tail(s) = <<>>
         /\ \A i \in 1..Len(Tail(s)) : i + 1 \in 1..Len(s) /\ Tail(s)[i] = s[i + 1]
<1>1. Len(s) \in Nat \ {0} /\ Tail(s) \in Seq(Handles) /\ Len(Tail(s)) = Len(s) - 1
  OBVIOUS
<1>2. Len(s) = 1 <=> Tail(s) = <<>>
  <2>1. Len(Tail(s)) = 0 <=> Tail(s) = <<>>
    BY <1>1, NoMessages
  <2> QED
    BY <1>1, <2>1
<1>3. \A i \in 1..Len(Tail(s)) : i + 1 \in 1..Len(s) /\ Tail(s)[i] = s[i + 1]
  BY <1>1
<1> QED
  BY <1>1, <1>2, <1>3

-----------------------------------------------------------------------------
(* Steps *)

\* What a step may do to the shared state without disturbing a consumer that does
\* not take it.
Grows ==
  /\ sent \subseteq sent'
  /\ dead \subseteq dead'
  /\ settled \subseteq settled'
  /\ \A m \in Messages : receives[m] <= receives'[m]

\* What a consumer has received stays received.
LEMMA StaysReceived ==
  ASSUME NEW c \in Consumers, ConsumerOK(c), QueuesOK, QueuesOK', Grows
  PROVE  \A i \in 1..Len(batch[c]) :
           batch[c][i].msg \in sent' /\ batch[c][i].receive <= receives'[batch[c][i].msg]
<1>1. \A i \in 1..Len(batch[c]) : batch[c][i] \in Handles
  BY HandleInBatch DEF ConsumerOK
<1>2. \A i \in 1..Len(batch[c]) :
        batch[c][i].msg \in Messages /\ batch[c][i].receive \in Nat
  BY <1>1, ConsumerAssumption DEF Handles
<1>3. \A m \in Messages : receives[m] \in Nat /\ receives'[m] \in Nat
  BY ConsumerAssumption DEF QueuesOK
<1>4. \A i \in 1..Len(batch[c]) :
        batch[c][i].msg \in sent /\ batch[c][i].receive <= receives[batch[c][i].msg]
  BY DEF ConsumerOK
<1>5. ASSUME NEW i \in 1..Len(batch[c]), NEW m \in Messages, m = batch[c][i].msg
      PROVE  m \in sent' /\ batch[c][i].receive <= receives'[m]
  <2>1. receives[m] <= receives'[m] /\ receives[m] \in Nat /\ receives'[m] \in Nat
    BY <1>3 DEF Grows
  <2>2. batch[c][i].receive \in Nat /\ batch[c][i].receive <= receives[m] /\ m \in sent
    BY <1>2, <1>4, <1>5
  <2> QED
    BY <2>1, <2>2 DEF Grows
<1> QED
  BY <1>2, <1>5

\* A consumer that takes no step keeps its part of the invariant.
LEMMA Bystander ==
  ASSUME NEW c \in Consumers, ConsumerOK(c), QueuesOK, QueuesOK', Grows,
         batch'[c] = batch[c], pc'[c] = pc[c]
  PROVE  ConsumerOK(c)'
BY StaysReceived DEF ConsumerOK, Grows, InHand

\* A step of one consumer preserves the invariant if it preserves the consumer's
\* part and the queues'.
LEMMA StepOfOne ==
  ASSUME NEW c \in Consumers, NEW x, NEW y, PartsOK, Grows, QueuesOK', ConsumerOK(c)',
         batch' = [batch EXCEPT ![c] = x], pc' = [pc EXCEPT ![c] = y]
  PROVE  PartsOK'
<1>1. ASSUME NEW d \in Consumers PROVE ConsumerOK(d)'
  <2>1. CASE d = c
    BY <2>1
  <2>2. CASE d # c
    BY <2>2, Bystander DEF PartsOK
  <2> QED
    BY <2>1, <2>2
<1> QED
  BY <1>1 DEF PartsOK

\* The next message of a batch, or none, whatever has become of the one in hand.
LEMMA ProceedOK ==
  ASSUME NEW c \in Consumers, PartsOK, Grows, QueuesOK', Proceed(c),
         pc[c] \notin {"idle", "stopped"}
  PROVE  PartsOK'
<1> DEFINE s == batch[c]
<1>1. s \in Seq(Handles) /\ s # <<>> /\ ConsumerOK(c) /\ QueuesOK
  BY DEF PartsOK, ConsumerOK
<1>2. /\ Tail(s) \in Seq(Handles)
      /\ Len(s) = 1 <=> Tail(s) = <<>>
      /\ \A i \in 1..Len(Tail(s)) : i + 1 \in 1..Len(s) /\ Tail(s)[i] = s[i + 1]
  BY <1>1, RestOfBatch
<1>3. batch'[c] = Tail(s) /\ pc'[c] = IF Len(s) = 1 THEN "idle" ELSE "submit"
  BY DEF Proceed, PartsOK
<1>4. \A i \in 1..Len(s) : s[i].msg \in sent' /\ s[i].receive <= receives'[s[i].msg]
  BY <1>1, StaysReceived
<1>5. \A i \in 1..Len(Tail(s)) :
        Tail(s)[i].msg \in sent' /\ Tail(s)[i].receive <= receives'[Tail(s)[i].msg]
  BY <1>2, <1>4
<1>6. ConsumerOK(c)'
  BY <1>2, <1>3, <1>5 DEF ConsumerOK, PCs
<1> QED
  BY <1>6, StepOfOne DEF Proceed

\* A batch that is given up leaves nothing to be kept.
LEMMA DropBatchOK ==
  ASSUME NEW c \in Consumers, NEW next \in {"idle", "stopped"}, PartsOK, Grows, QueuesOK',
         DropBatch(c, next)
  PROVE  PartsOK'
<1>1. batch'[c] = <<>> /\ pc'[c] = next
  BY DEF DropBatch, PartsOK
<1>2. <<>> \in Seq(Handles) /\ 1..Len(<<>>) = {}
  OBVIOUS
<1>3. ConsumerOK(c)'
  BY <1>1, <1>2 DEF ConsumerOK, PCs
<1> QED
  BY <1>3, StepOfOne DEF DropBatch

\* A consumer goes on with the message in hand.
LEMMA AdvanceOK ==
  ASSUME NEW c \in Consumers, NEW y \in {"ack", "dlq", "dlq delete"}, PartsOK, Grows, QueuesOK',
         pc[c] \notin {"idle", "stopped"},
         pc' = [pc EXCEPT ![c] = y], UNCHANGED batch,
         y = "ack" => InHand(c).msg \in settled',
         y = "dlq delete" => InHand(c).msg \in dead',
         y = "dlq" => InHand(c).msg \in Permanent \/ InHand(c).receive = MaxReceive
  PROVE  PartsOK'
<1>1. pc'[c] = y /\ batch'[c] = batch[c] /\ ConsumerOK(c) /\ QueuesOK
  BY DEF PartsOK
<1>2. \A i \in 1..Len(batch[c]) :
        batch[c][i].msg \in sent' /\ batch[c][i].receive <= receives'[batch[c][i].msg]
  BY <1>1, StaysReceived
<1>6. ConsumerOK(c)'
  BY <1>1, <1>2 DEF ConsumerOK, PCs, InHand
<1>7. batch' = [batch EXCEPT ![c] = batch[c]]
  BY DEF PartsOK
<1> QED
  BY <1>6, <1>7, StepOfOne

\* The queues after the deletion of a message that is safe.
LEMMA DeleteOK ==
  ASSUME NEW c \in Consumers, QueuesOK, Delete(InHand(c)),
         InHand(c).msg \in settled \cup dead, UNCHANGED <<dead, settled, stopping>>
  PROVE  QueuesOK' /\ Grows
<1>1. QueuesOK'
  BY DEF QueuesOK, Delete, NoMessageLost, DeadLettersAreLastResort
<1>2. \A m \in Messages : receives[m] <= receives'[m]
  BY ConsumerAssumption DEF QueuesOK, Delete
<1> QED
  BY <1>1, <1>2 DEF Grows, Delete

\* A step that leaves the queue alone and only adds effects or dead letters that are
\* justified.
LEMMA QueueKept ==
  ASSUME QueuesOK, UNCHANGED queue, stopping' \subseteq Stoppable,
         settled \subseteq settled', settled' \subseteq sent,
         dead \subseteq dead', dead' \subseteq sent,
         \A m \in dead' : m \in Permanent \/ receives[m] = MaxReceive
  PROVE  QueuesOK' /\ Grows
<1>1. QueuesOK'
  BY DEF QueuesOK, queue, NoMessageLost, DeadLettersAreLastResort
<1>2. \A m \in Messages : receives[m] <= receives'[m]
  BY ConsumerAssumption DEF QueuesOK, queue
<1> QED
  BY <1>1, <1>2 DEF Grows, queue

\* A failure that may pass: the message is given up, or left to its timeout.
LEMMA RouteTransientOK ==
  ASSUME NEW c \in Consumers, PartsOK, Grows, QueuesOK', RouteTransient(c),
         pc[c] \notin {"idle", "stopped"}
  PROVE  PartsOK'
<1>1. CASE InHand(c).receive >= MaxReceive
  <2>1. InHand(c).receive = MaxReceive
    BY <1>1, LastReceive DEF PartsOK
  <2>2. pc' = [pc EXCEPT ![c] = "dlq"] /\ UNCHANGED batch
    BY <1>1 DEF RouteTransient
  <2> QED
    BY <2>1, <2>2, AdvanceOK
<1>2. CASE ~ InHand(c).receive >= MaxReceive
  BY <1>2, ProceedOK DEF RouteTransient
<1> QED
  BY <1>1, <1>2

-----------------------------------------------------------------------------
(* The actions *)

\* A batch holds visible messages that have a receive left, and counts it.
LEMMA ReceiveOK ==
  ASSUME NEW c \in Consumers, PartsOK, Receive(c)
  PROVE  PartsOK'
<1>1. PICK ms \in Receivable :
        LET taken == { ms[i] : i \in DOMAIN ms }
        IN  /\ visible' = visible \ taken
            /\ receives' = [m \in Messages |-> IF m \in taken THEN receives[m] + 1 ELSE receives[m]]
            /\ batch' = [batch EXCEPT ![c] =
                           [i \in DOMAIN ms |-> [msg |-> ms[i], receive |-> receives[ms[i]] + 1]]]
  BY DEF Receive
<1> DEFINE taken == { ms[i] : i \in DOMAIN ms }
           hs == [i \in DOMAIN ms |-> [msg |-> ms[i], receive |-> receives[ms[i]] + 1]]
<1>2. PICK n \in 1..BatchSize : ms \in [1..n -> { m \in visible : receives[m] < MaxReceive }]
  BY DEF Receivable
<1>3. /\ QueuesOK
      /\ MaxReceive \in Nat \ {0}
      /\ n \in Nat \ {0}
      /\ \A m \in Messages : receives[m] \in 0..MaxReceive
      /\ visible \subseteq Messages /\ visible \subseteq sent
  BY ConsumerAssumption DEF PartsOK, QueuesOK
<1>4. /\ \A m \in taken : m \in Messages /\ m \in sent /\ receives[m] < MaxReceive
      /\ \A m \in Messages : receives'[m] = IF m \in taken THEN receives[m] + 1 ELSE receives[m]
  BY <1>1, <1>2, <1>3
<1>5. receives' \in [Messages -> 0..MaxReceive] /\ \A m \in Messages : receives[m] <= receives'[m]
  <2>1. ASSUME NEW m \in Messages
        PROVE  /\ (IF m \in taken THEN receives[m] + 1 ELSE receives[m]) \in 0..MaxReceive
               /\ receives[m] <= IF m \in taken THEN receives[m] + 1 ELSE receives[m]
    BY <1>3, <1>4
  <2> QED
    BY <1>1, <2>1
<1>6. UNCHANGED <<sent, queued, dead, settled, stopping>> /\ visible' \subseteq visible
  BY <1>1 DEF Receive
<1>7. \A m \in dead : m \in Permanent \/ receives'[m] = MaxReceive
  BY <1>3, <1>4 DEF QueuesOK, DeadLettersAreLastResort
<1>8. QueuesOK' /\ Grows
  BY <1>3, <1>5, <1>6, <1>7
     DEF QueuesOK, Grows, NoMessageLost, DeadLettersAreLastResort
<1>9. ASSUME NEW i \in 1..n
      PROVE  /\ hs[i] \in Handles
             /\ hs[i].msg \in sent'
             /\ hs[i].receive <= receives'[hs[i].msg]
  <2> DEFINE m == ms[i]
             k == receives[m] + 1
  <2>1. m \in Messages /\ m \in sent' /\ k \in 1..MaxReceive /\ receives'[m] = k
    BY <1>2, <1>3, <1>4, <1>6
  <2>2. hs[i] = [msg |-> m, receive |-> k]
    BY <1>2
  <2>3. k <= k
    BY <1>3, <2>1
  <2> HIDE DEF hs, m, k
  <2>4. hs[i] \in Handles /\ hs[i].msg = m /\ hs[i].receive = k
    BY <2>1, <2>2, HandleOf
  <2> QED
    BY <2>1, <2>3, <2>4
<1>10. hs \in Seq(Handles) /\ hs # <<>> /\ Len(hs) = n
  BY <1>2, <1>3, <1>9
<1>11. batch'[c] = hs /\ pc'[c] = "submit" /\ pc' = [pc EXCEPT ![c] = "submit"]
  BY <1>1 DEF Receive, PartsOK
<1>12. ConsumerOK(c)'
  BY <1>9, <1>10, <1>11 DEF ConsumerOK, PCs
<1> QED
  BY <1>1, <1>8, <1>11, <1>12, StepOfOne

\* Every step of a consumer preserves the invariant.
LEMMA ConsumerStepOK ==
  ASSUME NEW c \in Consumers, PartsOK, ConsumerStep(c)
  PROVE  PartsOK'
<1>1. QueuesOK /\ ConsumerOK(c) /\ \A m \in dead : m \in Permanent \/ receives[m] = MaxReceive
  BY DEF PartsOK, QueuesOK, DeadLettersAreLastResort
<1>2. CASE Receive(c)
  BY <1>2, ReceiveOK
<1>3. CASE Settle(c)
  <2>1. InHand(c).msg \in sent
    BY <1>1, <1>3, InHandOK DEF Settle
  <2>2. QueuesOK' /\ Grows
    BY <1>1, <1>3, <2>1, QueueKept DEF Settle, QueuesOK
  <2> QED
    BY <1>3, <2>2, AdvanceOK DEF Settle
<1>4. CASE FailPermanently(c)
  <2>1. QueuesOK' /\ Grows
    BY <1>1, <1>4, QueueKept DEF FailPermanently, QueuesOK
  <2> QED
    BY <1>4, <2>1, AdvanceOK DEF FailPermanently
<1>5. CASE FailTransiently(c)
  <2>1. InHand(c).msg \in sent
    BY <1>1, <1>5, InHandOK DEF FailTransiently
  <2>2. QueuesOK' /\ Grows
    BY <1>1, <1>5, <2>1, QueueKept DEF FailTransiently, QueuesOK
  <2> QED
    BY <1>5, <2>2, RouteTransientOK DEF FailTransiently
<1>6. CASE Ack(c)
  <2>1. InHand(c).msg \in settled
    BY <1>1, <1>6 DEF Ack, ConsumerOK
  <2>2. QueuesOK' /\ Grows
    BY <1>1, <1>6, <2>1, DeleteOK DEF Ack
  <2> QED
    BY <1>6, <2>2, ProceedOK DEF Ack
<1>7. CASE AckFails(c)
  <2>1. QueuesOK' /\ Grows
    BY <1>1, <1>7, QueueKept DEF AckFails, QueuesOK
  <2> QED
    BY <1>7, <2>1, RouteTransientOK DEF AckFails
<1>8. ASSUME pc[c] = "dlq"
      PROVE  /\ InHand(c).msg \in sent
             /\ InHand(c).msg \in Permanent \/ receives[InHand(c).msg] = MaxReceive
  <2>1. InHand(c).msg \in Permanent \/ InHand(c).receive = MaxReceive
    BY <1>1, <1>8 DEF ConsumerOK
  <2>2. InHand(c).receive = MaxReceive => InHand(c).receive >= MaxReceive
    BY ConsumerAssumption
  <2> QED
    BY <1>1, <1>8, <2>1, <2>2, InHandOK, LastReceive
<1>9. CASE MoveToDlq(c)
  <2>1. QueuesOK' /\ Grows
    BY <1>1, <1>8, <1>9, QueueKept DEF MoveToDlq, QueuesOK
  <2> QED
    BY <1>9, <2>1, AdvanceOK DEF MoveToDlq
<1>10. CASE DeleteMoved(c)
  <2>1. InHand(c).msg \in dead
    BY <1>1, <1>10 DEF DeleteMoved, ConsumerOK
  <2>2. QueuesOK' /\ Grows
    BY <1>1, <1>10, <2>1, DeleteOK DEF DeleteMoved
  <2> QED
    BY <1>10, <2>2, ProceedOK DEF DeleteMoved
<1>11. CASE MoveFails(c)
  <2>1. QueuesOK' /\ Grows
    BY <1>1, <1>8, <1>11, QueueKept DEF MoveFails, QueuesOK
  <2> QED
    BY <1>11, <2>1, DropBatchOK DEF MoveFails
<1>12. CASE Crash(c)
  <2>1. QueuesOK' /\ Grows
    BY <1>1, <1>12, QueueKept DEF Crash, QueuesOK
  <2> QED
    BY <1>12, <2>1, DropBatchOK DEF Crash
<1> QED
  BY <1>2, <1>3, <1>4, <1>5, <1>6, <1>7, <1>9, <1>10, <1>11, <1>12 DEF ConsumerStep

\* A step of the queue that leaves the consumers alone preserves the invariant.
LEMMA QueueStepOK ==
  ASSUME NEW m \in Messages, PartsOK, SendMessage(m) \/ QueueStep(m)
  PROVE  PartsOK'
<1>1. QueuesOK /\ \A k \in Messages : receives[k] \in Nat
  BY ConsumerAssumption DEF PartsOK, QueuesOK
<1>2. UNCHANGED <<receives, settled, pc, batch, stopping>>
  BY DEF SendMessage, QueueStep, BecomeVisible, Redrive
<1>3. CASE SendMessage(m)
  <2>1. QueuesOK'
    BY <1>1, <1>2, <1>3
       DEF QueuesOK, SendMessage, NoMessageLost, DeadLettersAreLastResort
  <2> QED
    BY <1>1, <1>2, <1>3, <2>1, Bystander DEF Grows, SendMessage, PartsOK
<1>4. CASE BecomeVisible(m)
  <2>1. QueuesOK'
    BY <1>1, <1>2, <1>4
       DEF QueuesOK, BecomeVisible, NoMessageLost, DeadLettersAreLastResort
  <2> QED
    BY <1>1, <1>2, <1>4, <2>1, Bystander DEF Grows, BecomeVisible, PartsOK
<1>5. CASE Redrive(m)
  <2>1. receives[m] = MaxReceive
    BY <1>1, <1>5, ConsumerAssumption DEF Redrive, QueuesOK
  <2>2. QueuesOK'
    BY <1>1, <1>2, <1>5, <2>1
       DEF QueuesOK, Redrive, NoMessageLost, DeadLettersAreLastResort
  <2> QED
    BY <1>1, <1>2, <1>5, <2>2, Bystander DEF Grows, Redrive, PartsOK
<1> QED
  BY <1>3, <1>4, <1>5 DEF QueueStep

\* Shutting down, and every step of Next, preserves the invariant.
LEMMA NextOK ==
  ASSUME PartsOK, [Next]_vars
  PROVE  PartsOK'
<1>1. QueuesOK /\ \A m \in dead : m \in Permanent \/ receives[m] = MaxReceive
  BY DEF PartsOK, QueuesOK, DeadLettersAreLastResort
<1>2. ASSUME NEW m \in Messages, SendMessage(m) \/ QueueStep(m)
      PROVE  PartsOK'
  BY <1>2, QueueStepOK
<1>3. ASSUME NEW c \in Consumers, ConsumerStep(c)
      PROVE  PartsOK'
  BY <1>3, ConsumerStepOK
<1>4. ASSUME NEW c \in Consumers, Close(c)
      PROVE  PartsOK'
  <2>1. QueuesOK' /\ Grows
    BY <1>1, <1>4, QueueKept DEF Close, QueuesOK
  <2> QED
    BY <1>1, <1>4, <2>1, Bystander DEF Close, PartsOK
<1>5. ASSUME NEW c \in Consumers, Stop(c)
      PROVE  PartsOK'
  <2>1. QueuesOK' /\ Grows
    BY <1>1, <1>5, QueueKept DEF Stop, QueuesOK
  <2> QED
    BY <1>5, <2>1, DropBatchOK DEF Stop
<1>6. CASE UNCHANGED vars
  <2>1. QueuesOK' /\ Grows
    BY <1>1, <1>6, QueueKept DEF vars, QueuesOK
  <2> QED
    BY <1>1, <1>6, <2>1, Bystander DEF vars, PartsOK
<1> QED
  BY <1>2, <1>3, <1>4, <1>5, <1>6 DEF Next, Quiescent

\* Nothing is sent, received or decided at first.
LEMMA InitOK == Init => PartsOK
<1>1. <<>> \in Seq(Handles) /\ 1..Len(<<>>) = {}
  OBVIOUS
<1>2. SUFFICES ASSUME Init PROVE PartsOK
  OBVIOUS
<1>3. QueuesOK
  BY <1>2, ConsumerAssumption
     DEF Init, QueuesOK, NoMessageLost, DeadLettersAreLastResort
<1>4. ASSUME NEW c \in Consumers PROVE pc[c] = "idle" /\ batch[c] = <<>>
  BY <1>2 DEF Init
<1>5. \A c \in Consumers : ConsumerOK(c)
  BY <1>1, <1>4 DEF ConsumerOK, PCs
<1> QED
  BY <1>2, <1>3, <1>5 DEF Init, PartsOK

-----------------------------------------------------------------------------
(* Theorems *)

\* The inductive invariant: who is about to delete a message has made it safe, and
\* who is about to give it up may.
THEOREM ConsumerInvariant == Spec => []ConsumerInv
<1>1. Init => ConsumerInv
  BY InitOK, PartsAreInv
<1>2. ConsumerInv /\ [Next]_vars => ConsumerInv'
  <2>1. PartsOK' <=> ConsumerInv'
    BY PartsAreInv, PTL
  <2> QED
    BY <2>1, PartsAreInv, NextOK
<1> QED
  BY <1>1, <1>2, PTL DEF Spec

\* Queues, counts and batches keep their shape.
THEOREM ConsumerTypeCorrect == Spec => []TypeOK
<1>1. ConsumerInv => TypeOK
  BY DEF ConsumerInv
<1> QED
  BY <1>1, ConsumerInvariant, PTL

\* Whatever fails, dies, is shut down or is delivered twice, a message is only gone
\* from the queue when its effect is committed or the dead-letter queue has it.
THEOREM NoMessageIsLost == Spec => []NoMessageLost
<1>1. ConsumerInv => NoMessageLost
  BY DEF ConsumerInv
<1> QED
  BY <1>1, ConsumerInvariant, PTL

\* A message that might still take effect is not given up before its last receive.
THEOREM DeadLettersComeLast == Spec => []DeadLettersAreLastResort
<1>1. ConsumerInv => DeadLettersAreLastResort
  BY DEF ConsumerInv
<1> QED
  BY <1>1, ConsumerInvariant, PTL
=============================================================================
