CONSTANTS
  p = p
  q = q
  Att = {p}
  Listen = {p}
  Volume = {p}
  PodOf <- OwnPod
  DirOf <- OneDir
  Grace = 2
  Assumed = {"wire"}
  MaxFaults = 3
SPECIFICATION FairSpec
PROPERTIES RestoreConverges OrphanReclaimed
