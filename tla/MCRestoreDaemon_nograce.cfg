CONSTANTS
  p = p
  q = q
  Att = {p, q}
  Listen = {p, q}
  Volume = {p}
  PodOf <- OwnPod
  DirOf <- OneDir
  Grace = 0
  Assumed = {"pod"}
  MaxFaults = 1
SPECIFICATION Spec
PROPERTIES GcPicksDead
