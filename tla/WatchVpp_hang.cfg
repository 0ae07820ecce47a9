CONSTANTS
  Faults = {"crash"}
  MaxFaults = 1
SPECIFICATION FairSpec
PROPERTIES ReassertsOnConnect
CHECK_DEADLOCK FALSE
