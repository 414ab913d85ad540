CONSTANTS
  t1 = t1
  t2 = t2
  iso = iso
  None = None
  Tasks <- MCTwo
  Shape <- MCShape
  Lists <- MCLists
  Limits <- MCLimits
  Images <- MCImages
  BmcKinds <- MCBmcKinds
  MaxFaults = 1
  MaxRenames = 1
SPECIFICATION Spec
SYMMETRY Symmetry
INVARIANTS
  TypeOK
  ListedExplained
  FirstLog
  MediaAccounted
