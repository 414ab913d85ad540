CONSTANTS
  t1 = t1
  t2 = t2
  NoTask = NoTask
  Tasks <- MCTwo
  MaxConcurrent = 2
  MaxFaults = 2
SPECIFICATION RSpec
INVARIANTS
  ResetHadSession
