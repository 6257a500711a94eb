SPECIFICATION FairSpec
CONSTANTS
  User = {u, v}
  Loop = Loop
  Collector = Collector
  Target = Target
  Neighbour = {p}
  NoRoute = NoRoute
  ChanCap = 2
  Limit = 5
INVARIANTS ThreadsTypeOK QueueIsServed
PROPERTY SentOnce
CHECK_DEADLOCK FALSE
