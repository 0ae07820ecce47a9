CONSTANTS
  p = p
  q = q
  r = r
  Att = {p, q}
  SwIf = {1, 2}
  SockId = {1, 2}
  BdId = {1}
  NoPath = NoPath
  Conf <- MemifPair
  Faults = {"crash", "timeout", "api", "kill", "remote", "redel", "readd", "nopod"}
  MaxFaults = 1
SPECIFICATION FairSpec
PROPERTIES DelConverges ImplementsLifecycle
CHECK_DEADLOCK FALSE
