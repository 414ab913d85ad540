CONSTANTS
  t1 = t1
  t2 = t2
  NoTask = NoTask
  Tasks <- MCTwo
  Owner = t1
  MaxCancels = 1
  MaxFaults = 0
  MaxOpens = 1
SPECIFICATION Spec
INVARIANTS
  Serialised
CHECK_DEADLOCK FALSE
