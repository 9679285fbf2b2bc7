SPECIFICATION Spec
CONSTANTS
    Extent = 4
    MaxScale = 4
    MaxRects = 4
    MaxPlaces = 2
    MaxShips = 2
    MaxWaypoints = 2
    Land <- MCLand
    Water <- MCWater
    Sea <- MCSea
    PortAt <- MCPortAt
    CityAt <- MCCityAt
    ShipAt <- MCShipAt
    ShipOf <- MCShipOf
    RouteLength <- MCRouteLength
    Population <- MCPopulation
    Rounding = 0
    Surveyed <- MCSurveyed
    Layers <- MCLayers
    Clients = {"c1", "c2"}
    Web = "web"
    Requests <- MCRequests
    Commands <- MCCommands
    Expiry = 1
    MaxQueue = 1
    MaxUnsent = 0
INVARIANTS AnswersGoHome PlacesFit LandAsLastPixel OneArea
PROPERTIES EndpointsCurrent Served
CHECK_DEADLOCK FALSE
