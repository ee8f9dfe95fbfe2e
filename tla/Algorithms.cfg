CONSTANTS
    ConfigLevels = {0, 1, 2, 3, 4, 5, 6}
    Boosts = {0, 1, 2, 3}
    WeightRange = 65536
    ByteBits = 1
    CodeBits = 3
    Meaning <- MCMeaning
    Missing = {"AWAIT"}
    Garbage = 5
    Address = 3
    PageSize = 4
    Granule = 1
    HeaderSize = 1
    MinRegionSize = 8
    Thousand = 10
    Kilo = 8
    ByteRange = 16
    ShortRange = 64
    LongRange = 1024
    Words <- MCWords
    Floats <- MCFloats
    Codes <- MCCodes
    Modules <- MCModules
    CommandLines <- MCCommandLines
    Requests = {2, 7, 8}
    MaxRegions = 3
    MaxSnapshots = 2
SPECIFICATION AllSpec
INVARIANTS
    EveryLevelServed
    InstructionsExact
    BranchesLand
    LayoutSound
    DispatchFindsOverride
    OptionsReachConfig
    ArenaSound
PROPERTIES
    RestoreUndoes
