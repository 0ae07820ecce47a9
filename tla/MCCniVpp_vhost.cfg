CONSTANTS
  p = p
  q = q
  r = r
  Att = {p, q}
  SwIf = {1, 2}
  SockId = {1, 2}
  BdId = {1, 2}
  NoPath = NoPath
  Conf <- VhostAndMemif
  Faults = {"crash"}
  MaxFaults = 1
SPECIFICATION Spec
PROPERTIES TouchesOwn
CHECK_DEADLOCK FALSE
