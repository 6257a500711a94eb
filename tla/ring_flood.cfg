SPECIFICATION WarmSpec
CONSTANTS
  a = a b = b c = c x = x y = y z = z e = e ab = ab bc = bc ca = ca ce = ce ea = ea
  Node = {a, b, c, e}
  NoNode = NoNode
  Lan = {ab, bc, ca}
  Links <- RingAndAbsent
  Loopback = FALSE
  TTL = 2
  SeqSpace = 64
  HopSpace = 16
  Payload = {x, y, z}
  Offered <- OneMessage
  Wanted <- NearAndNowhere
  MaxQueue = 3
  Limit <- TwoSearches
INVARIANTS NewestRequestHeard SearchWithinTTL
PROPERTY FloodsOnce
CHECK_DEADLOCK FALSE
