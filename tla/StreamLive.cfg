SPECIFICATION FairSpec
CONSTANTS
  stdout = stdout
  stderr = stderr
  c1 = c1
  c2 = c2
  Pumps <- OnlyStdout
  Clients <- TwoClients
  Lines <- TwoLines
  SubCap = 2
  ChanCap = 1
  RingCap = 1
  PipeCap = 1
INVARIANT NoPanic
PROPERTIES JobEnds StreamsEnd KeepsContract
CHECK_DEADLOCK FALSE
