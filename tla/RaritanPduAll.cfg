CONSTANTS
  t1 = t1
  t2 = t2
  n1 = n1
  n2 = n2
  NoName = NoName
  Tasks <- MCTasks
  Outlets = 2
  Names <- MCNames
  MaxFaults = 2
  MaxRenames = 1
SPECIFICATION Spec
SYMMETRY Symmetry
INVARIANTS
  TypeOK
  SessionsReleased
  NamedOutlet
  FailureExplained
