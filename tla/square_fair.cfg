SPECIFICATION AnyStartFairSpec
CONSTANTS
  a = a b = b c = c x = x y = y z = z e = e ab = ab bc = bc ca = ca ce = ce ea = ea
  Node = {a, b, c, e}
  NoNode = NoNode
  Lan = {ab, bc, ce, ea}
  Links <- Square
  Loopback = FALSE
  TTL = 4
  SeqSpace = 64
  HopSpace = 16
  Payload = {x, y, z}
  Offered <- BothWays
  Wanted <- Nothing
  MaxQueue = 3
  Limit <- NoEvents
INVARIANTS NothingLost
CHECK_DEADLOCK FALSE
PROPERTY Delivered
