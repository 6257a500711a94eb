SPECIFICATION Spec
CONSTANTS
  User = {u, v}
  Loop = Loop
  Collector = Collector
  Target = Target
  Neighbour = {p}
  NoRoute = NoRoute
  ChanCap = 2
  Limit = 5
INVARIANT ThreadSafe
CHECK_DEADLOCK FALSE
