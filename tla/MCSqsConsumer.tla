--------------------------- MODULE MCSqsConsumer ---------------------------
(* Constants of SqsConsumer for TLC. *)
EXTENDS SqsConsumer

CONSTANTS m1, m2
=============================================================================
