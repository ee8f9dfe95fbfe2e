CONSTANTS
    Ref = {1, 2}
    Completion = {1}
    Register = {1}
    Capacity = 2
    Resizes = 1
    MaxObjects = 3
    PromotionAge = 1
    CollectionThreshold = 95
    GrowthThreshold = 60
SPECIFICATION Spec
INVARIANTS
    GraphIntact
    CopiedOnce
    SpaceSuffices
PROPERTIES
    GarbageFreed
    CollectionEnds
