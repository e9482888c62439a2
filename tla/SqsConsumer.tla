---------------------------- MODULE SqsConsumer ----------------------------
(***************************************************************************)
(* WagerSqsConsumerService and its gateway: instances of the program take  *)
(* batches of messages from a queue, submit each one, and delete it, leave *)
(* it to be delivered again, or move it to the dead-letter queue.          *)
(*                                                                         *)
(* The queue is SQS as the gateway and the queue's set-up use it: a        *)
(* received message is hidden until a timeout, is delivered again after    *)
(* it, and is moved to the dead-letter queue by SQS itself instead of      *)
(* being received more than MaxReceive times.  submit is WagerSettlement,  *)
(* seen from outside: it commits the effect of a message or fails.         *)
(***************************************************************************)
EXTENDS Naturals, Sequences

CONSTANTS
  Messages,    \* messages producers may send
  Permanent,   \* those that are malformed, invalid or in conflict with their key
  Consumers,   \* instances with the consumer enabled
  Stoppable,   \* those of them that may be shut down
  BatchSize,   \* MAX_MESSAGES
  MaxReceive   \* SQS_MAX_RECEIVE_COUNT, and maxReceiveCount of the queue

ASSUME ConsumerAssumption ==
  /\ Permanent \subseteq Messages
  /\ Stoppable \subseteq Consumers
  /\ BatchSize \in Nat \ {0}
  /\ MaxReceive \in Nat \ {0}

VARIABLES
  sent,        \* messages producers have sent
  queued,      \* messages in the queue
  visible,     \* those of them a receive may return
  receives,    \* ApproximateReceiveCount of each message
  dead,        \* messages in the dead-letter queue
  settled,     \* messages whose effect is committed
  pc,          \* what each consumer does next
  batch,       \* handles of the messages of its batch that are not finished
  stopping     \* consumers that were told to close

queue == <<sent, queued, visible, receives>>
vars == <<queue, dead, settled, pc, batch, stopping>>

-----------------------------------------------------------------------------
(* Helpers *)

\* A handle: the message, and which of its receives returned it.
Handles == [msg : Messages, receive : 1..MaxReceive]
InHand(c) == Head(batch[c])

\* Mutant: after the last message of its batch a consumer goes on.
Proceed_NeverRests(c) ==
  /\ batch' = [batch EXCEPT ![c] = Tail(@)]
  /\ pc' = [pc EXCEPT ![c] = "submit"]

\* handleMessage returned: the next message of the batch, or rest.
Proceed(c) ==
  /\ batch' = [batch EXCEPT ![c] = Tail(@)]
  /\ pc' = [pc EXCEPT ![c] = IF Len(batch[c]) = 1 THEN "idle" ELSE "submit"]

\* An error leaves pollOnce, whose cycle drops the rest of the batch.
DropBatch(c, next) ==
  /\ batch' = [batch EXCEPT ![c] = <<>>]
  /\ pc' = [pc EXCEPT ![c] = next]

\* Mutant: the receive count is compared before the last receive.
RouteTransient_OneEarly(c) ==
  IF InHand(c).receive >= MaxReceive - 1
  THEN /\ pc' = [pc EXCEPT ![c] = "dlq"]
       /\ UNCHANGED batch
  ELSE Proceed(c)

\* consumeActionForFailure and routeFailure, for an error that is not permanent.
RouteTransient(c) ==
  IF InHand(c).receive >= MaxReceive
  THEN /\ pc' = [pc EXCEPT ![c] = "dlq"]
       /\ UNCHANGED batch
  ELSE Proceed(c)

\* DeleteMessage with a handle: it works for the message's latest receive; for an
\* older one the queue may refuse it.
Delete(h) ==
  /\ queued' = queued \ {h.msg}
  /\ visible' = visible \ {h.msg}
  /\ UNCHANGED <<sent, receives>>

-----------------------------------------------------------------------------
(* The queue *)

\* A producer sends a message.
SendMessage(m) ==
  /\ m \notin sent
  /\ sent' = sent \cup {m}
  /\ queued' = queued \cup {m}
  /\ visible' = visible \cup {m}
  /\ UNCHANGED <<receives, dead, settled, pc, batch, stopping>>

\* The visibility timeout of a received message is over, whether or not somebody
\* still works on it.
BecomeVisible(m) ==
  /\ m \in queued \ visible
  /\ visible' = visible \cup {m}
  /\ UNCHANGED <<sent, queued, receives, dead, settled, pc, batch, stopping>>

\* Mutant: the message is copied to the dead-letter queue and stays in this one.
Redrive_Copies(m) ==
  /\ m \in visible
  /\ receives[m] >= MaxReceive
  /\ \E c \in Consumers : pc[c] # "stopped"
  /\ dead' = dead \cup {m}
  /\ UNCHANGED <<queue, settled, pc, batch, stopping>>

\* Instead of a receive too many SQS moves the message, while somebody polls.
Redrive(m) ==
  /\ m \in visible
  /\ receives[m] >= MaxReceive
  /\ \E c \in Consumers : pc[c] # "stopped"
  /\ queued' = queued \ {m}
  /\ visible' = visible \ {m}
  /\ dead' = dead \cup {m}
  /\ UNCHANGED <<sent, receives, settled, pc, batch, stopping>>

-----------------------------------------------------------------------------
(* The consumer *)

\* The batches a receive may return: some visible messages, in any order.
Receivable ==
  { ms \in UNION { [1..n -> { m \in visible : receives[m] < MaxReceive }] : n \in 1..BatchSize } :
      \A i, j \in DOMAIN ms : ms[i] = ms[j] => i = j }

\* onTimer, runCycle, pollOnce: no cycle runs and the consumer is not closing.
Receive(c) ==
  /\ pc[c] = "idle"
  /\ c \notin stopping
  /\ \E ms \in Receivable :
       LET taken == { ms[i] : i \in DOMAIN ms }
       IN  /\ visible' = visible \ taken
           /\ receives' = [m \in Messages |-> IF m \in taken THEN receives[m] + 1 ELSE receives[m]]
           /\ batch' = [batch EXCEPT ![c] =
                          [i \in DOMAIN ms |-> [msg |-> ms[i], receive |-> receives[ms[i]] + 1]]]
  /\ pc' = [pc EXCEPT ![c] = "submit"]
  /\ UNCHANGED <<sent, queued, dead, settled, stopping>>

\* submit commits or replays: business outcomes, rejections included, are no errors.
Settle(c) ==
  /\ pc[c] = "submit"
  /\ InHand(c).msg \notin Permanent
  /\ settled' = settled \cup {InHand(c).msg}
  /\ pc' = [pc EXCEPT ![c] = "ack"]
  /\ UNCHANGED <<queue, dead, batch, stopping>>

\* The message does not parse, or submit reports an error that stays.
FailPermanently(c) ==
  /\ pc[c] = "submit"
  /\ InHand(c).msg \in Permanent
  /\ pc' = [pc EXCEPT ![c] = "dlq"]
  /\ UNCHANGED <<queue, dead, settled, batch, stopping>>

\* submit fails otherwise: the wallet is missing or the database is, in which case
\* the effect of a message may have been committed all the same.
FailTransiently(c) ==
  /\ pc[c] = "submit"
  /\ \/ UNCHANGED settled
     \/ InHand(c).msg \notin Permanent /\ settled' = settled \cup {InHand(c).msg}
  /\ RouteTransient(c)
  /\ UNCHANGED <<queue, dead, stopping>>

\* gateway.ack
Ack(c) ==
  /\ pc[c] = "ack"
  /\ Delete(InHand(c))
  /\ Proceed(c)
  /\ UNCHANGED <<dead, settled, stopping>>

\* gateway.ack throws inside the same try as submit: the message failed.
AckFails(c) ==
  /\ pc[c] = "ack"
  /\ RouteTransient(c)
  /\ UNCHANGED <<queue, dead, settled, stopping>>

\* Mutant: an error of the send is swallowed, and the message deleted all the same.
MoveToDlq_Swallowed(c) ==
  /\ pc[c] = "dlq"
  /\ dead' \in {dead, dead \cup {InHand(c).msg}}
  /\ pc' = [pc EXCEPT ![c] = "dlq delete"]
  /\ UNCHANGED <<queue, settled, batch, stopping>>

\* moveToDlq, the send: an equal deduplication id is taken once.
MoveToDlq(c) ==
  /\ pc[c] = "dlq"
  /\ dead' = dead \cup {InHand(c).msg}
  /\ pc' = [pc EXCEPT ![c] = "dlq delete"]
  /\ UNCHANGED <<queue, settled, batch, stopping>>

\* moveToDlq, the deletion.
DeleteMoved(c) ==
  /\ pc[c] = "dlq delete"
  /\ Delete(InHand(c))
  /\ Proceed(c)
  /\ UNCHANGED <<dead, settled, stopping>>

\* An error of moveToDlq is caught only by runCycle; the send may have worked.
MoveFails(c) ==
  /\ \/ pc[c] = "dlq" /\ dead' \in {dead, dead \cup {InHand(c).msg}}
     \/ pc[c] = "dlq delete" /\ UNCHANGED dead
  /\ DropBatch(c, "idle")
  /\ UNCHANGED <<queue, settled, stopping>>

\* The process dies and is started again, or the answer to its receive is lost.
Crash(c) ==
  /\ pc[c] # "idle"
  /\ c \notin stopping
  /\ DropBatch(c, "idle")
  /\ UNCHANGED <<queue, dead, settled, stopping>>

\* close: no more receives; the batch in flight goes on.
Close(c) ==
  /\ c \in Stoppable \ stopping
  /\ stopping' = stopping \cup {c}
  /\ UNCHANGED <<queue, dead, settled, pc, batch>>

\* close returns: the cycle is over, or the grace period is and the rest of the
\* batch is left to its visibility timeout.
Stop(c) ==
  /\ c \in stopping
  /\ pc[c] # "stopped"
  /\ DropBatch(c, "stopped")
  /\ UNCHANGED <<queue, dead, settled, stopping>>

-----------------------------------------------------------------------------
(* Specification *)

Init ==
  /\ sent = {} /\ queued = {} /\ visible = {}
  /\ receives = [m \in Messages |-> 0]
  /\ dead = {}
  /\ settled = {}
  /\ pc = [c \in Consumers |-> "idle"]
  /\ batch = [c \in Consumers |-> <<>>]
  /\ stopping = {}

ConsumerStep(c) ==
  \/ Receive(c) \/ Settle(c) \/ FailPermanently(c) \/ FailTransiently(c)
  \/ Ack(c) \/ AckFails(c) \/ MoveToDlq(c) \/ DeleteMoved(c) \/ MoveFails(c) \/ Crash(c)

QueueStep(m) == BecomeVisible(m) \/ Redrive(m)

\* Every message sent has left the queue: the consumers poll in vain.
Quiescent ==
  /\ queued = {}
  /\ UNCHANGED vars

Next ==
  \/ \E m \in Messages : SendMessage(m) \/ QueueStep(m)
  \/ \E c \in Consumers : ConsumerStep(c) \/ Close(c) \/ Stop(c)
  \/ Quiescent

Spec == Init /\ [][Next]_vars

\* setInterval keeps polling, whose cycle catches its errors; calls return or throw,
\* in whatever proportion; visibility timeouts pass and SQS applies its policy.
Fairness ==
  /\ \A c \in Consumers : WF_vars(ConsumerStep(c))
  /\ \A m \in Messages : WF_vars(QueueStep(m))

FairSpec == Spec /\ Fairness

-----------------------------------------------------------------------------
(* Properties *)

\* Queues, counts and batches keep their shape: only what was sent is queued, and a
\* consumer has a batch just when it is at work.
TypeOK ==
  /\ sent \subseteq Messages
  /\ queued \subseteq sent
  /\ visible \subseteq queued
  /\ receives \in [Messages -> 0..MaxReceive]
  /\ dead \subseteq sent
  /\ settled \subseteq sent
  /\ pc \in [Consumers -> {"idle", "submit", "ack", "dlq", "dlq delete", "stopped"}]
  /\ batch \in [Consumers -> Seq(Handles)]
  /\ \A c \in Consumers : batch[c] = <<>> <=> pc[c] \in {"idle", "stopped"}
  /\ stopping \subseteq Stoppable

\* No message is lost: it leaves the queue only with its effect committed or a copy
\* in the dead-letter queue, whichever call failed, crashed or came too late.
NoMessageLost ==
  \A m \in sent \ queued : m \in settled \cup dead

\* The dead-letter queue is the last resort: only a message that can never take
\* effect goes there before all its receives are used up.
DeadLettersAreLastResort ==
  \A m \in dead : m \in Permanent \/ receives[m] = MaxReceive

\* Every message leaves the queue, even if every call fails and every handler
\* crashes: the receives run out.
EveryMessageLeaves ==
  \A m \in Messages : m \in queued ~> m \notin queued

-----------------------------------------------------------------------------
(* The inductive invariant behind the safety properties *)

\* What a consumer has in its batch was received from the queue, at a receive that
\* the queue has counted.
BatchesReceived ==
  \A c \in Consumers : \A i \in 1..Len(batch[c]) :
    /\ batch[c][i].msg \in sent
    /\ batch[c][i].receive <= receives[batch[c][i].msg]

\* A consumer that is about to delete has made the message safe, and one that is
\* about to give it up has a reason.
DecidedBeforeDelete ==
  \A c \in Consumers :
    /\ pc[c] = "ack" => InHand(c).msg \in settled
    /\ pc[c] = "dlq delete" => InHand(c).msg \in dead
    /\ pc[c] = "dlq" => InHand(c).msg \in Permanent \/ InHand(c).receive = MaxReceive

ConsumerInv ==
  /\ TypeOK
  /\ BatchesReceived
  /\ DecidedBeforeDelete
  /\ NoMessageLost
  /\ DeadLettersAreLastResort
=============================================================================
