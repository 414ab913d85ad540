CONSTANTS
  n1 = n1
  n2 = n2
  NoName = NoName
  Outlets = 2
  Names <- MCNames
  Resends = 1
  MaxLosses = 3
  MaxRenames = 2
  Verbs <- MCVerbs
  MaxFailures = 2
SPECIFICATION DSpec
SYMMETRY MCSymmetry
INVARIANTS
  DTypeOK
  RightOutlet
  CallExplained
  LastResort
PROPERTIES
  Dispatches
