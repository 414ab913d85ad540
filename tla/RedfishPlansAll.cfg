CONSTANTS
  t1 = t1
  Tasks <- MCTasks
  Closers <- MCTasks
  Modes <- MCSessions
  CtorToken = 0
  MaxFaults = 2
  MaxRenames = 1
  Lacks <- MCLacks
SPECIFICATION PFairSpec
INVARIANTS
  PTypeOK
  OutcomeExplained
  ActsOnce
PROPERTIES
  OperationsEnd
