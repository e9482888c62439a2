---------------------- MODULE MCPendingReferenceRetry ----------------------
(* Constants of PendingReferenceRetry for TLC. *)
EXTENDS PendingReferenceRetry, TLC

MCDelaySum ==
  LET sum[n \in 0..MaxAttempts] == IF n = 0 THEN 0 ELSE sum[n - 1] + Backoff(n) IN sum

InstanceSymmetry == Permutations(Instances)
=============================================================================
