CONSTANTS
  p = p
  q = q
  Att = {p, q}
  Listen = {p, q}
  Volume = {p, q}
  PodOf <- OwnPod
  DirOf <- OneDir
  Grace = 2
  Assumed = {"nad", "apart", "fresh", "dump", "pod"}
  MaxFaults = 1
SPECIFICATION Spec
INVARIANTS TypeOK SocketMarksMemif
PROPERTIES GcSparesLive
SYMMETRY Symmetry
