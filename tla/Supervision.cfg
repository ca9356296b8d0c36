SPECIFICATION FairSpec
CONSTANTS
  p1 = p1
  p2 = p2
  p3 = p3
  Pids = {p1, p2, p3}
  Host = host
  Unborn = {p3}
  Bonds <- Pair
  Traps = {p1}
  Mortal = {p1, p2}
  Callers = {p1, p2}
  MaxCalls = 1
  MaxRefs = 1
INVARIANTS
    DownExactlyOnce
    DeathReachesLinked
    NoZombie
PROPERTIES
    KilledIsFinalized
CHECK_DEADLOCK FALSE
