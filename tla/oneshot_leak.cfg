SPECIFICATION FairSpec
CONSTANTS
  Calls <- Oneshots
  Pool = 1
  Reserve = 0
  SoundCap = 1
  CmdCap = 4
  EvtCap = 2
  QueueCap = 0
  GenMax = 1
  Priorities <- NoPriorities
PROPERTY SilentOneshotReturns
