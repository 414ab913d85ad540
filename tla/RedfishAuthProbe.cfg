CONSTANTS
  t1 = t1
  t2 = t2
  Tasks <- MCOne
  Closers <- MCOne
  Modes <- MCBothModes
  CtorToken = 0
  MaxFaults = 1
SPECIFICATION Spec
PROPERTIES
  RejectedBasicDropped
