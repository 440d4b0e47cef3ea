SPECIFICATION FairSpec
CONSTANTS
  c1 = c1
  c2 = c2
  i1 = i1
  i2 = i2
  Widgets = {w1}
  Instances = {i1}
  Conns = {c1}
  InstanceOf <- OneMover
  NoMsg = NoMsg
  MaxMoves = 1
  Faults = {"connection"}
PROPERTY SentEventuallyStored
CHECK_DEADLOCK FALSE
