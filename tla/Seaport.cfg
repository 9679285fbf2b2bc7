CONSTANTS
  a = a
  b = b
  n0 = n0
  n1 = n1
  MaxCargo = 2
  Point = {a, b}
  City <- MCCity
  Near <- MCNear
  CityCargo = 2
  MaxDeficit = 2
  PortArg <- MCTwoPorts
  ShipAmount = {1, 2}
  LoadLot = 2
  MaxLoaded = 2
  MaxUnloaded = 3
  Owner = {1}
  OldPort <- MCOldPort
  NameFile <- MCNameFile
  Name = {n0, n1}
  NoName = n0
SPECIFICATION SeaportSpec
INVARIANTS PointsDistinct PointsIndexed NothingInherited
PROPERTIES LoadsAreCounted ConversionConserves
