SPECIFICATION Spec
CONSTANTS
  File = {f1}
  SoundCap = 1
  VoiceCap = 1
  JobCap = 2
  HoldCap = 1
  CmdCap = 1
  SoundGens = 2
  SourceGens = 2
  RefMax = 2
  Calls = {"async", "acquire", "release", "create", "play", "seek", "stop", "stop_all", "stop_at", "destroy", "shutdown"}
INVARIANT EveryBufferOwned
INVARIANT ReservedUnseen
INVARIANT AsAsked
INVARIANT EverySlotOwned
INVARIANT NoLostWakeUp
CHECK_DEADLOCK FALSE
