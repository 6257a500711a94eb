SPECIFICATION WarmFairSpec
CONSTANTS
  a = a b = b c = c x = x y = y z = z e = e ab = ab bc = bc ca = ca ce = ce ea = ea
  Node = {a, b, c}
  NoNode = NoNode
  Lan = {ab, bc}
  Links <- Line
  Loopback = FALSE
  TTL = 3
  SeqSpace = 4
  HopSpace = 4
  Payload = {x, y, z}
  Offered <- TwoMessages
  Wanted <- Nothing
  MaxQueue = 3
  Limit <- OneExpiry
  PayloadLengths = {0, 1, 3}
  Rests <- SomeRests
PROPERTY BrokenRouteForgotten
INVARIANTS AtMostOneCopy WireFaithful
CHECK_DEADLOCK FALSE
