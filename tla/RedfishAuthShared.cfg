CONSTANTS
  t1 = t1
  t2 = t2
  Tasks <- MCTwo
  Closers <- MCOne
  Modes <- MCBothModes
  CtorToken = 0
  MaxFaults = 2
SPECIFICATION Spec
INVARIANTS
  TypeOK
  ExecutedOnce
  RetryHasNewToken
  SessionsAccounted
  NoClientLeak
PROPERTIES
  FailureExplained
  BasicStays
