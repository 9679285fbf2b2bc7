CONSTANTS
  Point = {1, 2}
  City = {3, 5}
  Extent = 4
  PingMax = 1
  RequestKey <- MCKeys
  MaxClock = 6
SPECIFICATION Spec
INVARIANTS StaleIsRefreshed NeverAhead
