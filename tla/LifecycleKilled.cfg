SPECIFICATION Spec
CONSTANTS
  k1 = k1
  w1 = w1
  p1 = p1
  Killers <- OneKiller
  Watchers <- NoOne
  Pollers <- NoOne
INVARIANT KilledJobEndsKilled
CHECK_DEADLOCK FALSE
