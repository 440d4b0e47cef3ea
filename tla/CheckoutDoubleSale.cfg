SPECIFICATION Spec
CONSTANTS
  ann = ann
  bob = bob
  c1 = c1
  c2 = c2
  r1 = r1
  r2 = r2
  r3 = r3
  k1 = k1
  k2 = k2
  w1 = w1
  w2 = w2
  Users = {ann, bob}
  Widgets = {w1}
  Conns = {c1, c2}
  Instances = {}
  Viewers = {}
  UserOf <- TwoConns
  Nobody = Nobody
  NoLock = NoLock
  NoWidget = NoWidget
  NoOrder = NoOrder
  MaxEvents = 0
  Faults = FALSE
  Requests = {r1, r2}
  Keys = {k1, k2}
  KeyOf <- RivalKeys
  BuyerOf <- RivalBuyers
  ItemsOf <- OneItem
INVARIANT NoDoubleSale
