SPECIFICATION FaultsSpec
CONSTANTS
  a = a b = b c = c x = x y = y z = z e = e ab = ab bc = bc ca = ca ce = ce ea = ea
  Node = {a, b, c, e}
  NoNode = NoNode
  Lan = {ab, bc, ca, ce}
  Links <- RingAndStub
  Loopback = FALSE
  TTL = 2
  SeqSpace = 4
  HopSpace = 3
  Payload = {x, y, z}
  Offered <- OneMessage
  Wanted <- NearAndStub
  MaxQueue = 3
  Limit <- RouteFaults
INVARIANTS FreshnessOrder LoopFree NoBlackHole
CHECK_DEADLOCK FALSE
