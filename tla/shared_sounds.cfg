SPECIFICATION Spec
CONSTANTS
  Calls <- SharedSounds
  Pool = 1
  Reserve = 1
  SoundCap = 1
  CmdCap = 2
  EvtCap = 4
  QueueCap = 1
  GenMax = 1
  Priorities <- NoPriorities
INVARIANT TypeOK
INVARIANT NoDanglingSound
INVARIANT AckFindsItsSound
INVARIANT OneConsumer
INVARIANT NoAckLost
