SPECIFICATION Spec
CONSTANTS
  Calls <- Pressure
  Pool = 1
  Reserve = 1
  SoundCap = 1
  CmdCap = 2
  EvtCap = 3
  QueueCap = 0
  GenMax = 2
  Priorities <- Extremes
INVARIANT FreelistExact
PROPERTY NoLiveOverwrite
