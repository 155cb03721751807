SPECIFICATION Spec
CONSTANTS
    TotalBlocks = 17
    WordBits = 4
    Words = 5
    PageWords = 8
    StackPages = 2
    MaxClones = 1
    MaxUserFrames = 3
    Segments <- MCSegments
    Caches = {"pcb"}
    Sizes = {17, 64}
    BlockBytes = 64
    DescriptorBytes = 24
    PointerBytes = 4
    MaxSlabs = 2
INVARIANT UserStackMapped
