SPECIFICATION Spec
CONSTANTS
    Uses <- Manual
    GenMax = 1
    FrameMax = 1
    PlayMax = 1
    CmdCap = 2
    EvtCap = 1
    EndedCap = 1
INVARIANT ManualKept
