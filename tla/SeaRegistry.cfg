CONSTANTS
  t1 = t1
  t2 = t2
  g1 = g1
  g2 = g2
  none = none
  a = a
  b = b
  MaxShips = 2
  ShipType = {t1, t2}
  GuidType = t1
  Guid = {g1, g2}
  NoGuid = none
  Pos = {a, b}
  MaxCopies = 2
SPECIFICATION Spec
INVARIANTS ShipsIndexed OneValueEach KeysAgree DestinationKnown
SYMMETRY MCSymmetry
