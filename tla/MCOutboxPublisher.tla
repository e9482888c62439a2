-------------------------- MODULE MCOutboxPublisher --------------------------
(* Constants of OutboxPublisher for TLC. *)
EXTENDS OutboxPublisher

CONSTANTS e1, e2, e3

\* The order by occurredAt and id.
MCRank == [e \in Events |-> CASE e = e1 -> 1 [] e = e2 -> 2 [] OTHER -> 3]
=============================================================================
