CONSTANTS
  s1 = s1
  s2 = s2
  NoSender = NoSender
  Senders <- MCSenders
  Capacity = 2
  MaxChunks = 4
  MaxFaults = 2
SPECIFICATION FairSpec
INVARIANTS
  TypeOK
  InOrder
  ConsoleAccounted
PROPERTIES
  SolEnds
