CONSTANTS
  s1 = s1
  s2 = s2
  NoSender = NoSender
  Senders <- MCSenders
  Capacity = 2
  MaxChunks = 1
  MaxFaults = 1
SPECIFICATION Spec
INVARIANT Deactivated
