SPECIFICATION FairSpec
CONSTANTS
  stdout = stdout
  stderr = stderr
  c1 = c1
  c2 = c2
  Pumps <- OnlyStdout
  Clients <- TwoClients
  Lines <- TwoLines
  SubCap = 1
  ChanCap = 2
  RingCap = 3
  PipeCap = 2
PROPERTY JobEnds
CHECK_DEADLOCK FALSE
