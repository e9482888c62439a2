\* Two instances, three events that may be committed in any order, batches of
\* two, sends shorter than a lease, two faults.
SPECIFICATION FairSpec
CONSTANTS
  e1 = e1  e2 = e2  e3 = e3
  Events = {e1, e2, e3}
  Rank <- MCRank
  Publishers = {1, 2}
  Limit = 2
  Lease = 2
  BaseDelay = 1
  MaxDelay = 2
  MaxSend = 1
  MaxFaults = 2
INVARIANTS
  TypeOK
  LatestClaimDecides
  PublishedWasSent
  OneSendPerClaim
PROPERTIES
  EveryEventPublished
