\* Two instances, one of which may be shut down, a message that can be settled and
\* one that cannot, batches of up to two, three receives.  Faults are not bounded.
SPECIFICATION FairSpec
CONSTANTS
  m1 = m1  m2 = m2
  Messages = {m1, m2}
  Permanent = {m2}
  Consumers = {1, 2}
  Stoppable = {1}
  BatchSize = 2
  MaxReceive = 3
INVARIANTS
  TypeOK
  NoMessageLost
  DeadLettersAreLastResort
PROPERTIES
  EveryMessageLeaves
