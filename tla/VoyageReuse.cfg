CONSTANTS
  a = a
  b = b
  c = c
  s1 = s1
  s2 = s2
  r1 = r1
  r2 = r2
  r3 = r3
  Point = {a, b}
  City <- MCCity
  Near <- MCNear
  CityCargo = 2
  MaxDeficit = 1
  MaxCargo = 3
  MaxShips = 1
  ShipType = {s1}
  PortArg <- MCPorts
  RouteKey = {r1, r2}
  RouteLen <- MCLens
  MaxOvershoot = 2
  Slot = {1, 2}
  LoadLot = 2
  MaxTotal = 3
  File <- MCFile
  AdminCommands = {"SpawnShip", "DeleteShip"}
SPECIFICATION FairSpec
INVARIANT NeverStranded
PROPERTIES LeavesDock VoyagesContinue
