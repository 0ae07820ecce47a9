CONSTANTS
  p = p
  q = q
  r = r
  Att = {p, q}
  SwIf = {1, 2}
  SockId = {1, 2}
  BdId = {1}
  NoPath = NoPath
  Conf <- MemifPair
  Faults = {"crash", "timeout", "api", "kill", "remote", "redel", "readd", "nopod", "torn"}
  MaxFaults = 2
SPECIFICATION Spec
INVARIANTS TypeOK AddedIsWired DeletedIsGone LastDelReclaims SocketsConsistent
PROPERTIES MemifTouchesOwn
CHECK_DEADLOCK FALSE
