SPECIFICATION Spec
CONSTANTS
  p1 = p1
  p2 = p2
  p3 = p3
  Pids = {p1, p2}
  Host = host
  Unborn = {}
  Bonds <- Pair
  Traps = {}
  Mortal = {p1}
  Callers = {p1}
  MaxCalls = 1
  MaxRefs = 0
INVARIANTS
    UnlinkHolds
CHECK_DEADLOCK FALSE
