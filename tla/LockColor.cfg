SPECIFICATION LockSpec
CONSTANTS
  ann = ann
  bob = bob
  c1 = c1
  c2 = c2
  Users = {ann, bob}
  Widgets = {w1}
  Conns = {c1, c2}
  Instances = {i1}
  Viewers = {v1}
  UserOf <- TwoUsers
  Nobody = Nobody
  NoLock = NoLock
  NoWidget = NoWidget
  MaxEvents = 0
  Faults = FALSE
INVARIANT NoStrandedColor
