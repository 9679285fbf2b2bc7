SPECIFICATION Spec
CONSTANTS
    Water <- MCWater
    Pixel <- MCPixel
    MaxCells = 5
INVARIANTS NeverAborts SnappedInWater SeaIsComponent
PROPERTY StaysInSea
