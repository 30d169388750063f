SPECIFICATION MeshSpec
CONSTANTS
  k1 = k1
  w1 = w1
  p1 = p1
  Killers <- OneKiller
  Watchers <- OneWatcher
  Pollers <- OnePoller
  here = here
  there = there
  mine = mine
  Posts <- PostSet
  Broadcast <- BroadcastSet
  FromOf <- From
  AddrOf <- Addr
  NameOf <- Name
  Here = here
  Self = "m"
  LastTick = 1
INVARIANTS QuietStateIsExact StreamEndsWithVerdict PollIsCoherent SettledIsShownWhole ExitMeansDelivered
PROPERTIES SettledStateIsFrozen StreamEnds BroadcastEnds
CHECK_DEADLOCK FALSE
