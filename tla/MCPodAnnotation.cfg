CONSTANTS
  s = s
  t = t
  Sandbox = {s, t}
  NetLists <- Lists
  MaxOther = 1
  MaxAdds = 3
SPECIFICATION Spec
INVARIANTS AnnotationTypeOK AddedIsDelivered DaemonOnlyRestores SyncedIsAsAdded
PROPERTIES EntriesOnlyGrow
SYMMETRY Symmetry
CHECK_DEADLOCK FALSE
