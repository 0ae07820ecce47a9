CONSTANTS
  p = p
  q = q
  r = r
  Att = {p, q, r}
  SwIf = {1, 2}
  SockId = {1, 2}
  BdId = {1}
  NoPath = NoPath
  Conf <- Mixed
  Faults = {"timeout", "api", "kill", "remote", "redel"}
  MaxFaults = 1
SPECIFICATION Spec
INVARIANTS AddedIsWired DeletedIsGone
PROPERTIES TouchesOwn
CHECK_DEADLOCK FALSE
