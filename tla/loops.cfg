SPECIFICATION WarmSpec
CONSTANTS
  a = a b = b c = c x = x y = y z = z e = e ab = ab bc = bc ca = ca ce = ce ea = ea
  Node = {a, b, c}
  NoNode = NoNode
  Lan = {ab, bc, ca}
  Links <- Ring
  Loopback = FALSE
  TTL = 3
  SeqSpace = 64
  HopSpace = 16
  Payload = {x, y, z}
  Offered <- OneMessage
  Wanted <- FromGateway
  MaxQueue = 3
  Limit <- ExpirySearch
INVARIANTS NeverALoop
CHECK_DEADLOCK FALSE
