CONSTANTS
  p = p
  q = q
  Att = {p, q}
  Listen = {p, q}
  Volume = {p, q}
  PodOf <- OwnPod
  DirOf <- OneDir
  Grace = 2
  Assumed = {"apart", "fresh", "dump", "pod"}
  MaxFaults = 2
SPECIFICATION Spec
PROPERTIES GcSparesLive
SYMMETRY Symmetry
