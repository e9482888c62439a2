\* Two instances, no faults, every send shorter than the lease.
SPECIFICATION Spec
CONSTANTS
  e1 = e1  e2 = e2  e3 = e3
  Events = {e1, e2, e3}
  Rank <- MCRank
  Publishers = {1, 2}
  Limit = 2
  Lease = 2
  BaseDelay = 1
  MaxDelay = 2
  MaxSend = 1
  MaxFaults = 0
INVARIANTS
  NoConcurrentPublication
