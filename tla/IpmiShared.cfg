CONSTANTS
  t1 = t1
  t2 = t2
  NoTask = NoTask
  Tasks <- MCTwo
  Owner = t1
  MaxCancels = 2
  MaxFaults = 2
  MaxOpens = 2
SPECIFICATION FairSpec
INVARIANTS
  TypeOK
  LiveSession
  NoSessionLost
  SerialUnlessCancelled
PROPERTIES
  CallsReturn
CHECK_DEADLOCK FALSE
