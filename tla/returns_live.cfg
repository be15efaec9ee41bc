SPECIFICATION FairSpec
CONSTANTS
  Calls <- Returns
  Pool = 1
  Reserve = 0
  SoundCap = 1
  CmdCap = 4
  EvtCap = 2
  QueueCap = 0
  GenMax = 2
  Priorities <- NoPriorities
PROPERTY RetireCompletes
PROPERTY InternalSoundFreed
PROPERTY StoppedOneshotReturns
INVARIANT OneEndedPerLet
INVARIANT InternalSoundOwned
