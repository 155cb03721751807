SPECIFICATION Spec
CONSTANTS
    BufferSize = 3
    MaxCodes = 16
    VgaWidth = 4
    VgaHeight = 3
    CmdBufferSize = 5
    HistorySize = 2
    Prompt <- MCPrompt
    RedrawPrompt <- MCRedrawPrompt
CHECK_DEADLOCK FALSE
INVARIANTS
    RingHoldsNewest
    KeysTyped
    ScreenShowsLine
    HistoryKept
