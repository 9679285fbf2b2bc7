CONSTANTS
  a = a
  b = b
  c = c
  s1 = s1
  s2 = s2
  r1 = r1
  r2 = r2
  r3 = r3
  Point = {a, b}
  City <- MCCity
  Near <- MCNear
  CityCargo = 1
  MaxDeficit = 1
  MaxCargo = 2
  MaxShips = 2
  ShipType = {s1, s2}
  PortArg <- MCPorts
  RouteKey = {r1, r2}
  RouteLen <- MCLen
  MaxOvershoot = 2
  Slot = {1}
  LoadLot = 1
  MaxTotal = 1
  File <- MCFile
  AdminCommands = {"SpawnShip", "DeleteShip", "NamePort"}
SPECIFICATION Spec
INVARIANTS OneDocking DockedAtEnd CargoFromOtherEnd
PROPERTY ActsAsFerry
SYMMETRY MCSymmetry
