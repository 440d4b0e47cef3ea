SPECIFICATION BoardSpec
CONSTANTS
  ann = ann
  bob = bob
  c1 = c1
  c2 = c2
  w1 = w1
  w2 = w2
  Users = {ann, bob}
  Widgets = {w1, w2}
  Conns = {c1, c2}
  Instances = {i1, i2}
  Viewers = {}
  UserOf <- TwoUsers
  Nobody = Nobody
  NoLock = NoLock
  NoWidget = NoWidget
  MaxEvents = 1
  Faults = TRUE
INVARIANTS LockTypeOK HoldersWon
PROPERTIES OnlyHolderUnlessLapsed ImplementsReservation CallsFinish
