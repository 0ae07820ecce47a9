CONSTANTS
  Faults = {"crash", "flap", "failed", "closed", "connect", "channel", "sync", "drift", "restart"}
  MaxFaults = 4
SPECIFICATION FairSpec
INVARIANTS WatchTypeOK SyncOnlyConnected
PROPERTIES SyncsForever  DownIsReported UpIsReported StopsWhenCancelled
CHECK_DEADLOCK FALSE
