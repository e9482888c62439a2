\* Two schedulers retry two rows until their time is up.
SPECIFICATION Spec
CONSTANTS
  i1 = i1  i2 = i2
  Instances = {i1, i2}
  RowCount = 2
  Limit = 2
  Poll = 2
  BaseDelay = 1
  MaxDelay = 2
  MaxAttempts = 3
  TimeToLive = 6
  DelaySum <- MCDelaySum
  MaxPass = 1
  MaxFaults = 2
SYMMETRY InstanceSymmetry
INVARIANTS
  TypeOK
  GivenUpInTime
PROPERTIES
  WaitsOutTheWindow
