SPECIFICATION Spec
CONSTANTS
    Uses <- Frames
    GenMax = 2
    FrameMax = 2
    PlayMax = 2
    CmdCap = 3
    EvtCap = 1
    EndedCap = 1
INVARIANTS FrameWhole PlayingIsExact OccNotInherited
PROPERTY EndedIsOver
