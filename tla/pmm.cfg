SPECIFICATION Spec
CONSTANTS
    TotalBlocks = 10
    Reserved = 2
    WordBits = 4
    Words = 3
    BlockSize = 2
    Counts = {0, 1, 2, 3, 5}
    Regions <- MCRegions
INVARIANTS
    OneOwner
    BlocksAccounted
    UsedIsExact
    FindsLowestFree
    ScanFindsLowestRun
