SPECIFICATION Spec
CONSTANTS
  c1 = c1
  c2 = c2
  i1 = i1
  i2 = i2
  Widgets = {w1}
  Instances = {i1, i2}
  Conns = {c1, c2}
  InstanceOf <- TwoMovers
  NoMsg = NoMsg
  MaxMoves = 2
  Faults = {"command", "connection", "instance"}
INVARIANTS PositionsTypeOK LatestNotDropped SentNotForgotten
