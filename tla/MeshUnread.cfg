SPECIFICATION PeersSpec
CONSTANTS
  a1 = a1
  a2 = a2
  b = b
  PeersTxt <- Txt
  HostOf <- HostName
  MaxPolls = 3
  MaxCrashes = 1
  MaxChanges = 2
PROPERTY TimeoutsDropNobody
CHECK_DEADLOCK FALSE
