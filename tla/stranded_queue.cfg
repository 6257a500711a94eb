SPECIFICATION WarmFairSpec
CONSTANTS
  a = a b = b c = c x = x y = y z = z e = e ab = ab bc = bc ca = ca ce = ce ea = ea
  Node = {a, b, c}
  NoNode = NoNode
  Lan = {ab, bc}
  Links <- Line
  Loopback = FALSE
  TTL = 3
  SeqSpace = 64
  HopSpace = 16
  Payload = {x, y, z}
  Offered <- OneMessage
  Wanted <- Nothing
  MaxQueue = 3
  Limit <- OneLoss
PROPERTY QueueDrains
CHECK_DEADLOCK FALSE
