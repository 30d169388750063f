SPECIFICATION Spec
CONSTANTS
  stdout = stdout
  stderr = stderr
  c1 = c1
  c2 = c2
  Pumps <- OnlyStdout
  Clients <- OneClient
  Lines <- FourLines
  SubCap = 2
  ChanCap = 4
  RingCap = 4
  PipeCap = 2
INVARIANT AllOutputIsBuffered
CHECK_DEADLOCK FALSE
