SPECIFICATION Spec
CONSTANTS
  i1 = i1
  i2 = i2
  c1 = c1
  c2 = c2
  s1 = s1
  r1 = r1
  r2 = r2
  z1 = z1
  Instances = {i1, i2}
  Conns = {c1, c2}
  Relays = {r1, r2}
  Workers = {s1}
  InstanceOf <- Cluster
  Board = Board
  NoFrame = NoFrame
  Zones = {z1}
  Viewports <- Views
  MaxCasts = 2
  MaxSubs = 2
  MaxLost = 1
INVARIANTS HubTypeOK NoSendOnClosed OncePerConnection ReachesRoom InZoneRooms
CHECK_DEADLOCK FALSE
