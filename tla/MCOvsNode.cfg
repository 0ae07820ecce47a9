CONSTANTS
  p = p
  q = q
  Att = {p, q}
  Confs <- AllConfs
  Uuid = {1, 2, 3, 4, 5, 6}
  Faults = {"down", "error", "timeout", "kill", "nopod", "dir", "late", "torn", "remote", "redel"}
  MaxFaults = 2
SPECIFICATION Spec
INVARIANTS OvsTypeOK OvsAddedIsWired OvsDeletedIsGone OvsDelSucceeds OvsLastDelReclaims
PROPERTIES PortLostOnlyWithBridge
CHECK_DEADLOCK FALSE
