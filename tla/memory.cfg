SPECIFICATION Spec
VIEW ObjectsAlike
CONSTANTS
    TotalBlocks = 17
    WordBits = 4
    Words = 5
    PageWords = 8
    StackPages = 1
    MaxClones = 1
    MaxUserFrames = 2
    Segments <- MCSegments
    Caches = {"pcb"}
    Sizes = {17, 64}
    BlockBytes = 64
    DescriptorBytes = 24
    PointerBytes = 4
    MaxSlabs = 2
INVARIANTS
    SlabsSorted
    ObjectsAccounted
    KernelMapSound
    UserPagesPrivate
