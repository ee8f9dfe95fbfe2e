CONSTANTS
    Sizes = {1, 2}
    RegionSize = 3
    InitialRegions = 2
    MaxSize = 9
    GrowthFactor = 2
    Threshold = 7
    SystemRegions = 3
    SizeRange = 16
    Tasks = 1
    MaxDepth = 2
SPECIFICATION Spec
INVARIANTS
    SweepOnObjects
PROPERTIES
    CollectionEnds
CHECK_DEADLOCK FALSE
