SPECIFICATION Spec
CONSTANTS
    HeapSize = 140
    Header = 12
    Align = 16
    MinSplit = 16
    Sizes = {0, 1, 20, 48}
INVARIANTS Tiling UsedIsLent LentFits PayloadsDisjoint WalkFindsFirstFit
