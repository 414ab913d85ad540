CONSTANTS
  t1 = t1
  t2 = t2
  NoTask = NoTask
  Tasks <- MCTwo
  MaxConcurrent = 2
  MaxFaults = 3
SPECIFICATION RFairSpec
INVARIANTS
  RTypeOK
  PermitsConserved
  OneConnection
  TimedOutClosed
  ResetDropsSession
PROPERTIES
  PoolKept
  CallsReturn
