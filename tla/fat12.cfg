SPECIFICATION Spec
VIEW LiveState
CONSTANTS
    TotalClusters = 6
    FatBytes = 10
    RootEntries = 2
    SectorSize = 2
    Names = {"a", "b", "c"}
    Sizes = {0, 1, 5}
    MaxPath = 2
INVARIANTS
    Mirrored
    ChainsPartition
    SizeWithinChain
    LookupFindsAll
    PathNamesDirectory
PROPERTY
    ImplementsFileStore
