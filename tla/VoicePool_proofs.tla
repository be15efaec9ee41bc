-------------------------- MODULE VoicePool_proofs --------------------------
(***************************************************************************)
(* Machine-checked proofs about VoicePool, for every value of the          *)
(* constants.  First its types, and that its free lists are exact -        *)
(* alloc_handle, recycle_handle, salloc_sound and srecycle_sound never     *)
(* hand an index out twice and never lose one.  Then the retire handshake: *)
(* rt_unload_sound and retire_internal_sound, CMD_SOUND_RETIRE,            *)
(* EVT_SOUND_RETIRED and drain_events together free a sound buffer only    *)
(* when no voice refers to it and no command in flight can make one do so. *)
(***************************************************************************)
EXTENDS VoicePoolInv, TLAPS, SequenceTheorems

Shape == TypeOK /\ ThreadsOK

THEOREM InitShape == Init => Shape
<1> SUFFICES ASSUME Init PROVE Shape
  OBVIOUS
<1> USE PoolAssumption DEF Init, VoiceCap
<1>1. slot \in [Voice -> Slot] /\ snd \in [Sound -> SoundSlot]
  BY DEF Slot, SoundSlot, None, Handle
<1>2. free \in Seq(Voice) /\ sfree \in Seq(Sound)
  BY DEF Voice, Sound
<1>3. ctl \in Ctl /\ ThreadsOK
  BY DEF Ctl, CtlPc, Idle, None, Handle, ThreadsOK
<1>4. voice \in [Voice -> VoiceRec] /\ \A i \in Voice : Len(voice[i].queue) <= QueueCap
  BY DEF VoiceRec, None, Handle
<1>5. /\ park \subseteq Handle /\ app \subseteq Handle /\ cdone \in Nat /\ edone \in Nat
      /\ lost \in BOOLEAN /\ aud \in [pc : {"idle", "drain", "mix"}, todo : Nat, next : Nat]
  OBVIOUS
<1>6. cmd \in Seq(Cmd) /\ evt \in Seq(Evt)
  OBVIOUS
<1>7. Len(cmd) + cdone <= CmdCap /\ Len(evt) + edone <= EvtCap
  OBVIOUS
<1> QED BY <1>1, <1>2, <1>3, <1>4, <1>5, <1>6, <1>7 DEF Shape, TypeOK
-----------------------------------------------------------------------------
(* Shape is inductive.  Its three parts follow the three groups of variables. *)

ControlShape ==
    /\ slot \in [Voice -> Slot] /\ free \in Seq(Voice)
    /\ snd \in [Sound -> SoundSlot] /\ sfree \in Seq(Sound)
    /\ park \subseteq Handle /\ app \subseteq Handle /\ ctl \in Ctl
    /\ ctl.pc = "cut" => ctl.vic.idx \in Voice
    /\ ctl.pc = "push" => ctl.h.idx \in Voice
    /\ ctl.pc \notin {"push", "cut"} => ctl.s = None

RingShape ==
    /\ cmd \in Seq(Cmd) /\ cdone \in Nat /\ evt \in Seq(Evt) /\ edone \in Nat
    /\ Len(cmd) + cdone <= CmdCap /\ Len(evt) + edone <= EvtCap
    /\ ctl.pc = "drain" => ctl.todo <= Len(evt)
    /\ aud.pc = "drain" => aud.todo <= Len(cmd)

AudioShape ==
    /\ aud \in [pc : {"idle", "drain", "mix"}, todo : Nat, next : Nat]
    /\ voice \in [Voice -> VoiceRec] /\ lost \in BOOLEAN
    /\ \A i \in Voice : Len(voice[i].queue) <= QueueCap

LEMMA ShapeParts == Shape <=> ControlShape /\ RingShape /\ AudioShape
BY DEF Shape, TypeOK, ThreadsOK, ControlShape, RingShape, AudioShape

LEMMA ShapePartsPrime == Shape' <=> ControlShape' /\ RingShape' /\ AudioShape'
BY DEF Shape, TypeOK, ThreadsOK, ControlShape, RingShape, AudioShape

LEMMA Constants ==
    /\ Pool \in Nat \ {0} /\ Reserve \in Nat /\ SoundCap \in Nat \ {0} /\ VoiceCap \in Nat \ {0}
    /\ CmdCap \in Nat \ {0} /\ EvtCap \in Nat /\ QueueCap \in Nat
    /\ None \in Handle /\ Idle \in Ctl
BY PoolAssumption DEF VoiceCap, None, Handle, Idle, Ctl, CtlPc

LEMMA HandleType == \A i, g \in Nat : H(i, g) \in Handle
BY DEF H, Handle

LEMMA CmdType ==
    \A t \in CmdTypes, v \in Handle, s \in Handle, one \in BOOLEAN :
        MkCmd(t, v, s, one) \in Cmd /\ VCmd(t, v) \in Cmd
BY Constants DEF MkCmd, VCmd, Cmd

LEMMA AppendType ==
    \A q \in Seq(Cmd), c \in Cmd : Append(q, c) \in Seq(Cmd) /\ Len(Append(q, c)) = Len(q) + 1
OBVIOUS

LEMMA AppendedCmd ==
    ASSUME RingShape, CmdRoom(1), NEW c \in Cmd
    PROVE  /\ Append(cmd, c) \in Seq(Cmd) /\ Len(Append(cmd, c)) + cdone <= CmdCap
           /\ Len(Append(cmd, c)) >= Len(cmd)
<1>1. Len(cmd) \in Nat /\ cdone \in Nat /\ Len(cmd) + cdone + 1 <= CmdCap
  BY Constants DEF RingShape, CmdRoom
<1>2. Append(cmd, c) \in Seq(Cmd) /\ Len(Append(cmd, c)) = Len(cmd) + 1
  BY AppendType DEF RingShape
<1> QED BY <1>1, <1>2, Constants

LEMMA LenCmd == RingShape => Len(cmd) \in Nat /\ cdone \in Nat /\ Len(cmd) + cdone <= CmdCap
BY DEF RingShape

LEMMA MaybeAppended ==
    ASSUME RingShape, cmd' = cmd \/ (CmdRoom(1) /\ \E c \in Cmd : cmd' = Append(cmd, c))
    PROVE  cmd' \in Seq(Cmd) /\ Len(cmd') + cdone <= CmdCap /\ Len(cmd') >= Len(cmd)
<1>1. CASE cmd' = cmd
  BY <1>1, LenCmd DEF RingShape
<1>2. CASE CmdRoom(1) /\ \E c \in Cmd : cmd' = Append(cmd, c)
  BY <1>2, AppendedCmd
<1> QED BY <1>1, <1>2

\* A call of the control thread that only adds commands.
LEMMA RingGrows ==
    ASSUME RingShape, AudioShape, cmd' \in Seq(Cmd), Len(cmd') + cdone <= CmdCap,
           Len(cmd') >= Len(cmd), cdone' = cdone, evt' = evt, edone' = edone, aud' = aud,
           ctl'.pc = "drain" => ctl'.todo <= Len(evt)
    PROVE  RingShape'
<1>1. aud.todo \in Nat /\ Len(cmd') \in Nat /\ Len(cmd) \in Nat
  BY LenCmd DEF AudioShape
<1>2. aud'.pc = "drain" => aud'.todo <= Len(cmd')
  BY <1>1 DEF RingShape
<1> QED BY <1>2 DEF RingShape

\* Letting a slot: what alloc_handle does keeps the table's shape.
LEMMA LetType == ASSUME ControlShape, NEW i \in Voice PROVE Let(i) \in Slot /\ Unlet(Let(i)) \in Slot
<1>1. slot[i].gen + 1 \in Nat
  BY DEF ControlShape, Slot
<1>2. Let(i) \in Slot
  BY <1>1, Constants DEF Slot, Let
<1>3. \A r \in Slot : Unlet(r) \in Slot
  BY DEF Slot, Unlet
<1> QED BY <1>2, <1>3

LEMMA PopFree == ASSUME ControlShape, Len(free) > 0
                 PROVE  Last(free) \in Voice /\ Front(free) \in Seq(Voice)
BY Constants DEF ControlShape, Last, Front

LEMMA PopSfree == ASSUME ControlShape, Len(sfree) > 0
                  PROVE  Last(sfree) \in Sound /\ Front(sfree) \in Seq(Sound)
BY Constants DEF ControlShape, Last, Front

LEMMA SlotFields ==
    ASSUME ControlShape, NEW i \in Voice
    PROVE  /\ i \in Nat /\ slot[i].gen \in Nat /\ slot[i].push \in Handle
           /\ H(i, slot[i].gen) \in Handle /\ H(i, slot[i].gen + 1) \in Handle
<1>1. i \in Nat
  BY Constants DEF Voice
<1>2. slot[i] \in Slot
  BY DEF ControlShape
<1>3. slot[i].gen \in Nat /\ slot[i].push \in Handle
  BY <1>2 DEF Slot
<1> QED BY <1>1, <1>3 DEF H, Handle

LEMMA SoundFields ==
    ASSUME ControlShape, NEW s \in Sound
    PROVE  /\ s \in Nat /\ snd[s].gen \in Nat
           /\ H(s, snd[s].gen) \in Handle /\ H(s, snd[s].gen + 1) \in Handle
<1>1. s \in Nat
  BY Constants DEF Sound
<1>2. snd[s] \in SoundSlot
  BY DEF ControlShape
<1>3. snd[s].gen \in Nat
  BY <1>2 DEF SoundSlot
<1> QED BY <1>1, <1>3 DEF H, Handle

\* The call's locals while a call is between two ring pushes.
LEMMA LocalsType ==
    ASSUME NEW h \in Handle, NEW s \in Handle
    PROVE  /\ [Idle EXCEPT !.pc = "push", !.h = h, !.s = s] \in Ctl
           /\ [Idle EXCEPT !.pc = "cut", !.vic = h, !.s = s] \in Ctl
BY Constants DEF Ctl, CtlPc, Idle

\* rt_source_create, pool not full.
LEMMA FromPoolShape ==
    ASSUME ControlShape, NEW s \in Handle, CreateFromPool(s)
    PROVE  /\ slot' \in [Voice -> Slot] /\ free' \in Seq(Voice)
           /\ ctl' \in Ctl /\ ctl'.pc = "push" /\ ctl'.h.idx \in Voice
           /\ cmd' = cmd
<1> DEFINE i == Last(free)
<1>1. i \in Voice /\ Front(free) \in Seq(Voice)
  <2>1. Len(free) > 0
    BY Constants DEF CreateFromPool, ControlShape
  <2> QED BY <2>1, PopFree
<1>2. slot' \in [Voice -> Slot] /\ free' \in Seq(Voice)
  BY <1>1, LetType DEF ControlShape, CreateFromPool
<1>3. ctl' = [Idle EXCEPT !.pc = "push", !.h = H(i, slot[i].gen + 1), !.s = s] /\ cmd' = cmd
  BY DEF CreateFromPool
<1>4. H(i, slot[i].gen + 1) \in Handle
  BY <1>1, SlotFields
<1>5. ctl'.pc = "push" /\ ctl'.h.idx \in Voice
  BY <1>1, <1>3 DEF Idle, H
<1> QED BY <1>2, <1>3, <1>4, <1>5, LocalsType

\* rt_source_create, pool full.
LEMMA StealShape ==
    ASSUME ControlShape, NEW s \in Handle, CreateBySteal(s)
    PROVE  /\ slot' \in [Voice -> Slot] /\ free' \in Seq(Voice) /\ ctl' \in Ctl
           /\ \/ ctl'.pc = "push" /\ ctl'.h.idx \in Voice
              \/ ctl'.pc = "cut" /\ ctl'.vic.idx \in Voice
           /\ cmd' = cmd \/ (CmdRoom(1) /\ \E c \in Cmd : cmd' = Append(cmd, c))
<1> DEFINE i == Last(free)
<1>1. PICK v \in Voice : CreateBySteal(s)!2!(v)
  BY DEF CreateBySteal
<1> DEFINE vh == H(v, slot[v].gen)
<1>2. vh \in Handle /\ VCmd("STEAL", vh) \in Cmd
  BY SlotFields, CmdType, Constants DEF CmdTypes
<1>3. CASE free = <<>>
  <2>1. slot' = slot /\ free' = free /\ cmd' = cmd
        /\ ctl' = [Idle EXCEPT !.pc = "cut", !.vic = vh, !.s = s]
    BY <1>1, <1>3
  <2>2. ctl'.pc = "cut" /\ ctl'.vic.idx \in Voice
    BY <2>1 DEF Idle, H
  <2> QED BY <2>1, <2>2, <1>2, LocalsType DEF ControlShape
<1>4. CASE free # <<>>
  <2>1. i \in Voice /\ Front(free) \in Seq(Voice)
    <3>1. Len(free) > 0
      BY <1>4 DEF ControlShape
    <3> QED BY <3>1, PopFree
  <2>2. H(i, slot[i].gen + 1) \in Handle
    BY <2>1, SlotFields
  <2>3. Let(i) \in Slot /\ Unlet(Let(i)) \in Slot
    BY <2>1, LetType
  <2>4. CASE CmdRoom(1)
    <3>1. slot' = [slot EXCEPT ![i] = Let(i), ![v].stealing = TRUE] /\ free' = Front(free)
          /\ cmd' = Append(cmd, VCmd("STEAL", vh))
          /\ ctl' = [Idle EXCEPT !.pc = "push", !.h = H(i, slot[i].gen + 1), !.s = s]
      BY <1>1, <1>4, <2>4
    <3>2. [slot EXCEPT ![i] = Let(i)] \in [Voice -> Slot]
      BY <2>1, <2>3 DEF ControlShape
    <3>3. slot' \in [Voice -> Slot]
      <4>1. \A r \in Slot : [r EXCEPT !.stealing = TRUE] \in Slot
        BY DEF Slot
      <4>2. \A f \in [Voice -> Slot] : [f EXCEPT ![v].stealing = TRUE] \in [Voice -> Slot]
        BY <4>1
      <4> QED BY <3>1, <3>2, <4>2
    <3>4. ctl'.pc = "push" /\ ctl'.h.idx \in Voice
      BY <2>1, <3>1 DEF Idle, H
    <3> QED BY <3>1, <3>3, <3>4, <2>1, <2>2, <2>4, <1>2, LocalsType
  <2>5. CASE ~CmdRoom(1)
    <3>1. slot' = [slot EXCEPT ![i] = Unlet(Let(i))] /\ free' = free /\ cmd' = cmd
          /\ ctl' = [Idle EXCEPT !.pc = "cut", !.vic = vh, !.s = s]
      BY <1>1, <1>4, <2>5
    <3>2. slot' \in [Voice -> Slot]
      BY <3>1, <2>1, <2>3 DEF ControlShape
    <3>3. ctl'.pc = "cut" /\ ctl'.vic.idx \in Voice
      BY <3>1 DEF Idle, H
    <3> QED BY <3>1, <3>2, <3>3, <1>2, LocalsType DEF ControlShape
  <2> QED BY <2>4, <2>5
<1> QED BY <1>3, <1>4
\* Setting one field of one record keeps a table's shape.
LEMMA SlotUpdates ==
    \A f \in [Voice -> Slot], i \in Nat, b \in BOOLEAN, h \in Handle :
        /\ [f EXCEPT ![i].inuse = b] \in [Voice -> Slot]
        /\ [f EXCEPT ![i].stealing = b] \in [Voice -> Slot]
        /\ [f EXCEPT ![i].push = h] \in [Voice -> Slot]
<1>1. \A r \in Slot, b \in BOOLEAN, h \in Handle :
        /\ [r EXCEPT !.inuse = b] \in Slot /\ [r EXCEPT !.stealing = b] \in Slot
        /\ [r EXCEPT !.push = h] \in Slot
  BY DEF Slot
<1> QED BY <1>1

LEMMA SoundUpdates ==
    \A f \in [Sound -> SoundSlot], i \in Nat, b \in BOOLEAN :
        /\ [f EXCEPT ![i].inuse = b] \in [Sound -> SoundSlot]
        /\ [f EXCEPT ![i].retiring = b] \in [Sound -> SoundSlot]
<1>1. \A r \in SoundSlot, b \in BOOLEAN :
        [r EXCEPT !.inuse = b] \in SoundSlot /\ [r EXCEPT !.retiring = b] \in SoundSlot
  BY DEF SoundSlot
<1> QED BY <1>1

LEMMA HandleFields == \A h \in Handle : h.idx \in Nat /\ h.gen \in Nat
BY DEF Handle

\* push_sound_release keeps the sound table's shape and at most appends one command.
LEMMA ReleaseShape ==
    ASSUME ControlShape, cdone \in Nat, NEW h \in Handle,
           NEW c \in Seq(Cmd), Len(c) + cdone <= CmdCap, ReleasePush(h, c)
    PROVE  /\ snd' \in [Sound -> SoundSlot] /\ park' \subseteq Handle
           /\ cmd' \in Seq(Cmd) /\ Len(cmd') + cdone <= CmdCap /\ Len(cmd') >= Len(c)
<1> DEFINE ps == slot[h.idx].push
<1>0. Len(c) \in Nat
  OBVIOUS
<1>1. CASE ~IsPush(h) \/ ~CanRetire(ps)
  <2>1. cmd' = c /\ snd' = snd /\ park' = park
    BY <1>1 DEF ReleasePush
  <2> QED BY <1>0, <2>1 DEF ControlShape
<1>2. CASE IsPush(h) /\ CanRetire(ps)
  <2>1. ps \in Handle
    BY <1>2, SlotFields DEF IsPush, Live
  <2>2. MkCmd("RETIRE", None, ps, FALSE) \in Cmd
    BY <2>1, CmdType, Constants DEF CmdTypes
  <2>3. Retiring(snd, ps) \in [Sound -> SoundSlot]
    BY <2>1, HandleFields, SoundUpdates DEF Retiring, ControlShape
  <2>4. CASE Len(c) + cdone + 1 <= CmdCap
    <3>1. cmd' = Append(c, MkCmd("RETIRE", None, ps, FALSE)) /\ snd' = Retiring(snd, ps)
          /\ park' = park
      BY <1>2, <2>4 DEF ReleasePush
    <3>2. cmd' \in Seq(Cmd) /\ Len(cmd') = Len(c) + 1
      BY <3>1, <2>2, AppendType
    <3>3. Len(cmd') + cdone <= CmdCap /\ Len(cmd') >= Len(c)
      BY <1>0, <2>4, <3>2, Constants
    <3> QED BY <3>1, <3>2, <3>3, <2>3 DEF ControlShape
  <2>5. CASE ~(Len(c) + cdone + 1 <= CmdCap)
    <3>1. cmd' = c /\ snd' = snd /\ park' = park \cup {ps}
      BY <1>2, <2>5 DEF ReleasePush, Parked
    <3> QED BY <3>1, <2>1 DEF ControlShape
  <2> QED BY <2>4, <2>5
<1> QED BY <1>1, <1>2

\* alloc of a sound slot.
LEMMA AllocSoundShape ==
    ASSUME ControlShape, NEW stream \in BOOLEAN, NEW internal \in BOOLEAN,
           AllocSound(stream, internal)
    PROVE  snd' \in [Sound -> SoundSlot] /\ sfree' \in Seq(Sound) /\ Last(sfree) \in Sound
<1>1. Len(sfree) > 0
  BY DEF AllocSound, ControlShape
<1>2. Last(sfree) \in Sound /\ Front(sfree) \in Seq(Sound)
  BY <1>1, PopSfree
<1>3. snd[Last(sfree)].gen + 1 \in Nat
  BY <1>2, SoundFields
<1>4. [gen |-> snd[Last(sfree)].gen + 1, inuse |-> TRUE, retiring |-> FALSE,
       stream |-> stream, internal |-> internal] \in SoundSlot
  BY <1>3 DEF SoundSlot
<1> QED BY <1>2, <1>4 DEF AllocSound, ControlShape

-----------------------------------------------------------------------------
(* One lemma per action of the control thread. *)

LEMMA CreateSourceShape == ASSUME Shape, CreateSource PROVE Shape'
<1>0. ControlShape /\ RingShape /\ AudioShape
  BY ShapeParts
<1>1. /\ slot' \in [Voice -> Slot] /\ free' \in Seq(Voice) /\ ctl' \in Ctl
      /\ \/ ctl'.pc = "push" /\ ctl'.h.idx \in Voice
         \/ ctl'.pc = "cut" /\ ctl'.vic.idx \in Voice
      /\ cmd' = cmd \/ (CmdRoom(1) /\ \E c \in Cmd : cmd' = Append(cmd, c))
  BY <1>0, FromPoolShape, StealShape, Constants DEF CreateSource
<1>2. ControlShape'
  BY <1>0, <1>1 DEF ControlShape, CreateSource
<1>3. RingShape'
  <2>1. cmd' \in Seq(Cmd) /\ Len(cmd') + cdone <= CmdCap /\ Len(cmd') >= Len(cmd)
    BY <1>0, <1>1, MaybeAppended
  <2>2. ctl'.pc # "drain" /\ UNCHANGED <<cdone, evt, edone, aud>>
    BY <1>1 DEF CreateSource
  <2> QED BY <2>1, <2>2, <1>0, RingGrows
<1>4. AudioShape'
  BY <1>0 DEF AudioShape, CreateSource
<1> QED BY <1>2, <1>3, <1>4, ShapePartsPrime

LEMMA CreateStreamShape == ASSUME Shape, CreateStream PROVE Shape'
<1>0. ControlShape /\ RingShape /\ AudioShape
  BY ShapeParts
<1> DEFINE sh == H(Last(sfree), snd[Last(sfree)].gen + 1)
<1>1. Last(sfree) \in Sound /\ Front(sfree) \in Seq(Sound) /\ sh \in Handle
  <2>1. Len(sfree) > 0
    BY <1>0 DEF CreateStream, ControlShape
  <2> QED BY <2>1, <1>0, PopSfree, SoundFields
<1>2. CASE AllocSound(TRUE, TRUE) /\ (CreateFromPool(sh) \/ CreateBySteal(sh))
  <2>1. /\ slot' \in [Voice -> Slot] /\ free' \in Seq(Voice) /\ ctl' \in Ctl
        /\ \/ ctl'.pc = "push" /\ ctl'.h.idx \in Voice
           \/ ctl'.pc = "cut" /\ ctl'.vic.idx \in Voice
        /\ cmd' = cmd \/ (CmdRoom(1) /\ \E c \in Cmd : cmd' = Append(cmd, c))
    BY <1>0, <1>1, <1>2, FromPoolShape, StealShape
  <2>2. snd' \in [Sound -> SoundSlot] /\ sfree' \in Seq(Sound)
    BY <1>0, <1>2, AllocSoundShape
  <2>3. ControlShape'
    BY <1>0, <2>1, <2>2 DEF ControlShape, CreateStream
  <2>4. RingShape'
    <3>1. cmd' \in Seq(Cmd) /\ Len(cmd') + cdone <= CmdCap /\ Len(cmd') >= Len(cmd)
      BY <1>0, <2>1, MaybeAppended
    <3>2. ctl'.pc # "drain" /\ UNCHANGED <<cdone, evt, edone, aud>>
      BY <2>1 DEF CreateStream
    <3> QED BY <3>1, <3>2, <1>0, RingGrows
  <2>5. AudioShape'
    BY <1>0 DEF AudioShape, CreateStream
  <2> QED BY <2>3, <2>4, <2>5, ShapePartsPrime
<1>3. CASE /\ snd' = [snd EXCEPT ![Last(sfree)] = [gen |-> sh.gen, inuse |-> TRUE, retiring |-> TRUE,
                                                    stream |-> TRUE, internal |-> TRUE]]
           /\ sfree' = Front(sfree)
           /\ cmd' = Append(cmd, MkCmd("RETIRE", None, sh, FALSE))
           /\ UNCHANGED <<slot, free, ctl>>
  <2>1. snd' \in [Sound -> SoundSlot]
    <3>1. [gen |-> sh.gen, inuse |-> TRUE, retiring |-> TRUE, stream |-> TRUE, internal |-> TRUE]
            \in SoundSlot
      BY <1>1, HandleFields DEF SoundSlot
    <3> QED BY <3>1, <1>0, <1>1, <1>3 DEF ControlShape
  <2>2. ControlShape'
    BY <1>0, <1>1, <1>3, <2>1 DEF ControlShape, CreateStream
  <2>3. RingShape'
    <3>1. MkCmd("RETIRE", None, sh, FALSE) \in Cmd
      BY <1>1, CmdType, Constants DEF CmdTypes
    <3>2. CmdRoom(1)
      BY <1>0, Constants DEF RingShape, CmdRoom, CreateStream, StreamCmds
    <3>3. cmd' \in Seq(Cmd) /\ Len(cmd') + cdone <= CmdCap /\ Len(cmd') >= Len(cmd)
      BY <3>1, <3>2, <1>0, <1>3, AppendedCmd
    <3>4. ctl'.pc # "drain" /\ UNCHANGED <<cdone, evt, edone, aud>>
      BY <1>3 DEF CreateStream, Call
    <3> QED BY <3>3, <3>4, <1>0, RingGrows
  <2>4. AudioShape'
    BY <1>0 DEF AudioShape, CreateStream
  <2> QED BY <2>2, <2>3, <2>4, ShapePartsPrime
<1> QED BY <1>2, <1>3 DEF CreateStream
LEMMA DestroySourceShape ==
    ASSUME Shape, NEW h \in app, DestroySource(h)
    PROVE  Shape'
<1>0. ControlShape /\ RingShape /\ AudioShape
  BY ShapeParts
<1>1. h \in Handle
  BY <1>0 DEF ControlShape
<1>2. /\ DestroyCmd(h) \in Seq(Cmd) /\ Len(DestroyCmd(h)) + cdone <= CmdCap
      /\ Len(DestroyCmd(h)) >= Len(cmd)
  <2>1. VCmd("DESTROY", h) \in Cmd
    BY <1>1, CmdType, Constants DEF CmdTypes
  <2> QED BY <2>1, <1>0, AppendedCmd DEF DestroyCmd, DestroySource
<1>3. /\ snd' \in [Sound -> SoundSlot] /\ park' \subseteq Handle
      /\ cmd' \in Seq(Cmd) /\ Len(cmd') + cdone <= CmdCap /\ Len(cmd') >= Len(DestroyCmd(h))
  BY <1>0, <1>1, <1>2, LenCmd, ReleaseShape DEF DestroySource
<1>4. slot' \in [Voice -> Slot] /\ free' \in Seq(Voice)
  <2>1. CASE Live(h)
    <3>1. /\ slot' = [slot EXCEPT ![h.idx].inuse = FALSE, ![h.idx].push = None]
          /\ free' = Append(free, h.idx) /\ h.idx \in Voice
      BY <2>1 DEF DestroySource, Live
    <3>2. [slot EXCEPT ![h.idx].inuse = FALSE] \in [Voice -> Slot]
      BY <1>0, <1>1, HandleFields, SlotUpdates DEF ControlShape
    <3>3. slot' \in [Voice -> Slot]
      BY <3>1, <3>2, <1>1, HandleFields, SlotUpdates, Constants
    <3> QED BY <3>1, <3>3, <1>0 DEF ControlShape
  <2>2. CASE ~Live(h)
    BY <2>2, <1>0 DEF DestroySource, ControlShape
  <2> QED BY <2>1, <2>2
<1>5. ControlShape'
  BY <1>0, <1>3, <1>4 DEF ControlShape, DestroySource
<1>6. RingShape'
  <2>1. Len(cmd') >= Len(cmd)
    BY <1>0, <1>2, <1>3, LenCmd
  <2>2. ctl'.pc # "drain" /\ UNCHANGED <<cdone, evt, edone, aud>>
    BY DEF DestroySource, Call
  <2> QED BY <1>0, <1>3, <2>1, <2>2, RingGrows
<1>7. AudioShape'
  BY <1>0 DEF AudioShape, DestroySource
<1> QED BY <1>5, <1>6, <1>7, ShapePartsPrime

LEMMA CreateCutShape == ASSUME Shape, CreateCut PROVE Shape'
<1>0. ControlShape /\ RingShape /\ AudioShape
  BY ShapeParts
<1> DEFINE v == ctl.vic.idx
           i == Last(free)
<1>1. ctl.pc = "cut" /\ v \in Voice /\ ctl.vic \in Handle /\ ctl \in Ctl
  BY <1>0 DEF CreateCut, ControlShape, Ctl
<1>a. \A h \in Handle : [ctl EXCEPT !.pc = "push", !.h = h] \in Ctl
  BY <1>1 DEF Ctl, CtlPc
<1>2. CASE /\ CmdRoom(1)
           /\ ReleasePush(ctl.vic, DestroyCmd(ctl.vic))
           /\ slot' = [slot EXCEPT ![v] = Let(v)]
           /\ ctl' = [ctl EXCEPT !.pc = "push", !.h = H(v, slot[v].gen + 1)]
           /\ UNCHANGED free
  <2>1. /\ DestroyCmd(ctl.vic) \in Seq(Cmd) /\ Len(DestroyCmd(ctl.vic)) + cdone <= CmdCap
        /\ Len(DestroyCmd(ctl.vic)) >= Len(cmd)
    <3>1. VCmd("DESTROY", ctl.vic) \in Cmd
      BY <1>1, CmdType, Constants DEF CmdTypes
    <3> QED BY <3>1, <1>0, <1>2, AppendedCmd DEF DestroyCmd
  <2>2. /\ snd' \in [Sound -> SoundSlot] /\ park' \subseteq Handle
        /\ cmd' \in Seq(Cmd) /\ Len(cmd') + cdone <= CmdCap /\ Len(cmd') >= Len(DestroyCmd(ctl.vic))
    BY <1>0, <1>1, <1>2, <2>1, LenCmd, ReleaseShape
  <2>3. slot' \in [Voice -> Slot]
    BY <1>0, <1>1, <1>2, LetType DEF ControlShape
  <2>4. ctl' \in Ctl /\ ctl'.pc = "push" /\ ctl'.h.idx \in Voice
    <3>1. ctl' \in Ctl
      BY <1>0, <1>1, <1>a, <1>2, SlotFields
    <3>2. ctl'.pc = "push" /\ ctl'.h = H(v, slot[v].gen + 1)
      BY <1>1, <1>2 DEF Ctl
    <3> QED BY <3>1, <3>2, <1>1 DEF H
  <2>5. ControlShape'
    BY <1>0, <1>2, <2>2, <2>3, <2>4 DEF ControlShape, CreateCut
  <2>6. RingShape'
    <3>1. Len(cmd') >= Len(cmd)
      BY <1>0, <2>1, <2>2, LenCmd
    <3>2. ctl'.pc # "drain" /\ UNCHANGED <<cdone, evt, edone, aud>>
      BY <2>4 DEF CreateCut
    <3> QED BY <1>0, <2>2, <3>1, <3>2, RingGrows
  <2>7. AudioShape'
    BY <1>0 DEF AudioShape, CreateCut
  <2> QED BY <2>5, <2>6, <2>7, ShapePartsPrime
<1>3. CASE /\ ~CmdRoom(1) /\ free # <<>>
           /\ slot' = [slot EXCEPT ![i] = Let(i)]
           /\ free' = Front(free)
           /\ ctl' = [ctl EXCEPT !.pc = "push", !.h = H(i, slot[i].gen + 1)]
           /\ UNCHANGED <<snd, park, cmd>>
  <2>1. i \in Voice /\ Front(free) \in Seq(Voice)
    <3>1. Len(free) > 0
      BY <1>0, <1>3 DEF ControlShape
    <3> QED BY <3>1, <1>0, PopFree
  <2>2. slot' \in [Voice -> Slot]
    BY <1>0, <1>3, <2>1, LetType DEF ControlShape
  <2>3. ctl' \in Ctl /\ ctl'.pc = "push" /\ ctl'.h.idx \in Voice
    <3>1. ctl' \in Ctl
      BY <1>0, <1>a, <1>3, <2>1, SlotFields
    <3>2. ctl'.pc = "push" /\ ctl'.h = H(i, slot[i].gen + 1)
      BY <1>1, <1>3 DEF Ctl
    <3> QED BY <3>1, <3>2, <2>1 DEF H
  <2>4. ControlShape'
    BY <1>0, <1>3, <2>1, <2>2, <2>3 DEF ControlShape, CreateCut
  <2>5. RingShape'
    <3>1. cmd' \in Seq(Cmd) /\ Len(cmd') + cdone <= CmdCap /\ Len(cmd') >= Len(cmd)
      BY <1>0, <1>3, MaybeAppended
    <3>2. ctl'.pc # "drain" /\ UNCHANGED <<cdone, evt, edone, aud>>
      BY <2>3 DEF CreateCut
    <3> QED BY <1>0, <3>1, <3>2, RingGrows
  <2>6. AudioShape'
    BY <1>0 DEF AudioShape, CreateCut
  <2> QED BY <2>4, <2>5, <2>6, ShapePartsPrime
<1>4. CASE /\ ~CmdRoom(1) /\ free = <<>>
           /\ ctl' = Idle
           /\ UNCHANGED <<slot, free, snd, park, cmd>>
  <2>1. ControlShape'
    BY <1>0, <1>4, Constants DEF ControlShape, CreateCut, Idle
  <2>2. RingShape'
    <3>1. cmd' \in Seq(Cmd) /\ Len(cmd') + cdone <= CmdCap /\ Len(cmd') >= Len(cmd)
      BY <1>0, <1>4, MaybeAppended
    <3>2. ctl'.pc # "drain" /\ UNCHANGED <<cdone, evt, edone, aud>>
      BY <1>4 DEF CreateCut, Idle
    <3> QED BY <1>0, <3>1, <3>2, RingGrows
  <2>3. AudioShape'
    BY <1>0 DEF AudioShape, CreateCut
  <2> QED BY <2>1, <2>2, <2>3, ShapePartsPrime
<1> QED BY <1>2, <1>3, <1>4 DEF CreateCut

LEMMA CreatePushShape == ASSUME Shape, CreatePush PROVE Shape'
<1>0. ControlShape /\ RingShape /\ AudioShape
  BY ShapeParts
<1> DEFINE i == ctl.h.idx
           create == Append(cmd, VCmd("CREATE", ctl.h))
           play == MkCmd("PLAY", ctl.h, ctl.s, FALSE)
<1>1. i \in Voice /\ ctl.h \in Handle /\ ctl.s \in Handle
  BY <1>0 DEF CreatePush, ControlShape, Ctl
<1>2. /\ snd' \in [Sound -> SoundSlot] /\ sfree' \in Seq(Sound)
      /\ ctl' = Idle /\ UNCHANGED <<cdone, evt, edone, aud, voice, lost>>
  BY <1>0 DEF CreatePush, ControlShape
<1>3. CASE /\ CmdRoom(1)
           /\ cmd' = IF ctl.s # None /\ CmdRoom(2) THEN Append(create, play) ELSE create
           /\ slot' = [slot EXCEPT ![i].push = ctl.s]
           /\ app' = app \cup {ctl.h}
           /\ UNCHANGED <<free, park>>
  <2>1. slot' \in [Voice -> Slot]
    BY <1>0, <1>1, <1>3, HandleFields, SlotUpdates DEF ControlShape
  <2>2. ControlShape'
    BY <1>0, <1>1, <1>2, <1>3, <2>1, Constants DEF ControlShape, Idle
  <2>3. VCmd("CREATE", ctl.h) \in Cmd /\ play \in Cmd
    BY <1>1, CmdType, Constants DEF CmdTypes
  <2>4. create \in Seq(Cmd) /\ Len(create) = Len(cmd) + 1 /\ Len(cmd) + cdone + 1 <= CmdCap
    BY <1>0, <1>3, <2>3, AppendType DEF RingShape, CmdRoom
  <2>5. cmd' \in Seq(Cmd) /\ Len(cmd') + cdone <= CmdCap /\ Len(cmd') >= Len(cmd)
    <3>0. Len(cmd) \in Nat /\ cdone \in Nat /\ CmdCap \in Nat
      BY <1>0, LenCmd, Constants
    <3> HIDE DEF create, play
    <3>1. CASE ctl.s # None /\ CmdRoom(2)
      <4>1. cmd' = Append(create, play) /\ Len(cmd) + cdone + 2 <= CmdCap
        BY <1>3, <3>1 DEF CmdRoom
      <4>2. cmd' \in Seq(Cmd) /\ Len(cmd') = Len(create) + 1
        BY <4>1, <2>3, <2>4, AppendType
      <4> QED BY <4>1, <4>2, <2>4, <3>0
    <3>2. CASE ~(ctl.s # None /\ CmdRoom(2))
      <4>1. cmd' = create
        BY <1>3, <3>2
      <4> QED BY <4>1, <2>4, <3>0
    <3> QED BY <3>1, <3>2
  <2>6. RingShape'
    BY <1>0, <1>2, <2>5, RingGrows DEF Idle
  <2>7. AudioShape'
    BY <1>0, <1>2 DEF AudioShape
  <2> QED BY <2>2, <2>6, <2>7, ShapePartsPrime
<1>4. CASE /\ ~CmdRoom(1)
           /\ slot' = [slot EXCEPT ![i] = Unlet(slot[i])]
           /\ free' = Append(free, i)
           /\ park' = IF ctl.s # None THEN Parked(ctl.s) ELSE park
           /\ UNCHANGED <<cmd, app>>
  <2>1. slot' \in [Voice -> Slot] /\ free' \in Seq(Voice)
    <3>1. Unlet(slot[i]) \in Slot
      <4>1. slot[i] \in Slot
        BY <1>0, <1>1 DEF ControlShape
      <4> QED BY <4>1 DEF Slot, Unlet
    <3> QED BY <3>1, <1>0, <1>1, <1>4 DEF ControlShape
  <2>2. ControlShape'
    BY <1>0, <1>1, <1>2, <1>4, <2>1, Constants DEF ControlShape, Idle, Parked
  <2>3. RingShape'
    <3>1. cmd' \in Seq(Cmd) /\ Len(cmd') + cdone <= CmdCap /\ Len(cmd') >= Len(cmd)
      BY <1>0, <1>4, MaybeAppended
    <3> QED BY <1>0, <1>2, <3>1, RingGrows DEF Idle
  <2>4. AudioShape'
    BY <1>0, <1>2 DEF AudioShape
  <2> QED BY <2>2, <2>3, <2>4, ShapePartsPrime
<1> QED BY <1>3, <1>4 DEF CreatePush
LEMMA PlayOneshotShape == ASSUME Shape, NEW s \in AppSounds, PlayOneshot(s) PROVE Shape'
<1>0. ControlShape /\ RingShape /\ AudioShape
  BY ShapeParts
<1> DEFINE i == Last(free)
           h == H(i, slot[i].gen + 1)
<1>1. i \in Voice /\ Front(free) \in Seq(Voice) /\ h \in Handle
  <2>1. Len(free) > 0
    BY <1>0, Constants DEF PlayOneshot, ControlShape
  <2> QED BY <2>1, <1>0, PopFree, SlotFields
<1>2. s \in Handle
  BY <1>0, SoundFields DEF AppSounds
<1>3. ControlShape'
  <2>1. slot' \in [Voice -> Slot]
    BY <1>0, <1>1, LetType DEF ControlShape, PlayOneshot
  <2>2. free' \in Seq(Voice)
    BY <1>1 DEF PlayOneshot
  <2> QED BY <1>0, <2>1, <2>2 DEF ControlShape, PlayOneshot
<1>4. RingShape'
  <2> DEFINE c1 == VCmd("CREATE", h)
             c2 == VCmd("PARAM", h)
             c4 == MkCmd("PLAY", h, s, TRUE)
  <2>1. c1 \in Cmd /\ c2 \in Cmd /\ c4 \in Cmd
    BY <1>1, <1>2, CmdType, Constants DEF CmdTypes
  <2>2. cmd' = cmd \o <<c1, c2, c2, c4>>
    BY DEF PlayOneshot
  <2>3. Len(cmd) + cdone + 4 <= CmdCap
    BY DEF PlayOneshot, OneshotCmds, CmdRoom
  <2>4. ctl'.pc # "drain" /\ UNCHANGED <<cdone, evt, edone, aud>>
    BY DEF PlayOneshot, Call
  <2>5. cmd \in Seq(Cmd) /\ Len(cmd) \in Nat /\ cdone \in Nat
    BY <1>0, LenCmd DEF RingShape
  <2> HIDE DEF c1, c2, c4
  <2>6. <<c1, c2, c2, c4>> \in Seq(Cmd) /\ Len(<<c1, c2, c2, c4>>) = 4
    BY <2>1
  <2>7. cmd' \in Seq(Cmd) /\ Len(cmd') = Len(cmd) + 4
    BY <2>2, <2>5, <2>6
  <2>8. Len(cmd') + cdone <= CmdCap /\ Len(cmd') >= Len(cmd)
    BY <2>3, <2>5, <2>7, Constants
  <2> QED BY <2>4, <2>7, <2>8, <1>0, RingGrows
<1>5. AudioShape'
  BY <1>0 DEF AudioShape, PlayOneshot
<1> QED BY <1>3, <1>4, <1>5, ShapePartsPrime

\* A call that only encodes one command.
LEMMA OneCommandShape ==
    ASSUME Shape, NEW c \in Cmd, ctl.pc = "idle", Push1(c),
           UNCHANGED <<ctlVars, cdone, evt, edone, audVars>>
    PROVE  Shape'
<1>0. ControlShape /\ RingShape /\ AudioShape
  BY ShapeParts
<1>1. cmd' \in Seq(Cmd) /\ Len(cmd') + cdone <= CmdCap /\ Len(cmd') >= Len(cmd)
  BY <1>0, MaybeAppended DEF Push1
<1>2. ControlShape'
  BY <1>0 DEF ControlShape, ctlVars
<1>3. RingShape'
  BY <1>0, <1>1, RingGrows DEF ctlVars, audVars
<1>4. AudioShape'
  BY <1>0 DEF AudioShape, audVars
<1> QED BY <1>2, <1>3, <1>4, ShapePartsPrime

LEMMA CallsShape ==
    ASSUME Shape
    PROVE  /\ \A h \in app, s \in AppSounds : Play(h, s) \/ Queue(h, s) => Shape'
           /\ \A h \in app : Stop(h) => Shape'
           /\ StopAll => Shape'
<1>0. ControlShape
  BY ShapeParts
<1>1. \A h \in app : h \in Handle
  BY <1>0 DEF ControlShape
<1>2. \A s \in AppSounds : s \in Handle
  BY <1>0, SoundFields DEF AppSounds
<1>3. \A h \in app, s \in AppSounds :
        MkCmd("PLAY", h, s, FALSE) \in Cmd /\ MkCmd("QUEUE", h, s, FALSE) \in Cmd
  BY <1>1, <1>2, CmdType DEF CmdTypes
<1>4. VCmd("STOP_ALL", None) \in Cmd /\ \A h \in app : VCmd("STOP", h) \in Cmd
  BY <1>1, CmdType, Constants DEF CmdTypes
<1>5. ASSUME NEW h \in app, NEW s \in AppSounds, Play(h, s) PROVE Shape'
  BY <1>3, <1>5, OneCommandShape DEF Play, Call
<1>6. ASSUME NEW h \in app, NEW s \in AppSounds, Queue(h, s) PROVE Shape'
  BY <1>3, <1>6, OneCommandShape DEF Queue, Call
<1>7. ASSUME NEW h \in app, Stop(h) PROVE Shape'
  BY <1>4, <1>7, OneCommandShape DEF Stop, Call
<1>8. ASSUME StopAll PROVE Shape'
  BY <1>4, <1>8, OneCommandShape DEF StopAll, Call
<1> QED BY <1>5, <1>6, <1>7, <1>8

LEMMA SetPriorityShape ==
    ASSUME Shape, NEW h \in app, NEW p \in Priorities, SetPriority(h, p)
    PROVE  Shape'
<1>0. ControlShape /\ RingShape /\ AudioShape
  BY ShapeParts
<1>1. slot' \in [Voice -> Slot]
  <2>1. p \in 0 .. 255
    BY PoolAssumption
  <2>2. \A r \in Slot : [r EXCEPT !.prio = p] \in Slot
    BY <2>1 DEF Slot
  <2> QED BY <2>2, <1>0 DEF ControlShape, SetPriority
<1>2. ControlShape'
  BY <1>0, <1>1 DEF ControlShape, SetPriority
<1>3. RingShape'
  BY <1>0 DEF RingShape, SetPriority, ringVars, audVars
<1>4. AudioShape'
  BY <1>0 DEF AudioShape, SetPriority, audVars
<1> QED BY <1>2, <1>3, <1>4, ShapePartsPrime

LEMMA LoadSoundShape ==
    ASSUME Shape, NEW stream \in BOOLEAN, LoadSound(stream)
    PROVE  Shape'
<1>0. ControlShape /\ RingShape /\ AudioShape
  BY ShapeParts
<1>1. snd' \in [Sound -> SoundSlot] /\ sfree' \in Seq(Sound)
  BY <1>0, AllocSoundShape DEF LoadSound
<1>2. ControlShape'
  BY <1>0, <1>1 DEF ControlShape, LoadSound
<1>3. RingShape'
  BY <1>0 DEF RingShape, LoadSound, ringVars, audVars
<1>4. AudioShape'
  BY <1>0 DEF AudioShape, LoadSound, audVars
<1> QED BY <1>2, <1>3, <1>4, ShapePartsPrime

LEMMA UnloadShape == ASSUME Shape, NEW s \in AppSounds, Unload(s) PROVE Shape'
<1>0. ControlShape /\ RingShape /\ AudioShape
  BY ShapeParts
<1>1. s \in Handle
  BY <1>0, SoundFields DEF AppSounds
<1>2. snd' \in [Sound -> SoundSlot]
  BY <1>0, <1>1, HandleFields, SoundUpdates DEF ControlShape, Unload, Retiring
<1>3. ControlShape'
  BY <1>0, <1>2 DEF ControlShape, Unload
<1>4. RingShape'
  <2>1. MkCmd("RETIRE", None, s, FALSE) \in Cmd
    BY <1>1, CmdType, Constants DEF CmdTypes
  <2>2. cmd' \in Seq(Cmd) /\ Len(cmd') + cdone <= CmdCap /\ Len(cmd') >= Len(cmd)
    BY <2>1, <1>0, AppendedCmd DEF Unload
  <2>3. ctl'.pc # "drain" /\ UNCHANGED <<cdone, evt, edone, aud>>
    BY DEF Unload, Call, audVars
  <2> QED BY <2>2, <2>3, <1>0, RingGrows
<1>5. AudioShape'
  BY <1>0 DEF AudioShape, Unload, audVars
<1> QED BY <1>3, <1>4, <1>5, ShapePartsPrime

LEMMA CommitShape == ASSUME Shape, Commit PROVE Shape'
<1>0. ControlShape /\ RingShape /\ AudioShape
  BY ShapeParts
<1>1. ctl' \in Ctl /\ ctl'.pc = "retry" /\ ctl'.s = None
  BY <1>0, Constants DEF Commit, ControlShape, Ctl, CtlPc, Idle
<1>2. ControlShape'
  BY <1>0, <1>1 DEF ControlShape, Commit
<1>3. RingShape'
  <2>1. VCmd("COMMIT", None) \in Cmd
    BY CmdType, Constants DEF CmdTypes
  <2>2. cmd' \in Seq(Cmd) /\ Len(cmd') + cdone <= CmdCap /\ Len(cmd') >= Len(cmd)
    BY <2>1, <1>0, MaybeAppended DEF Commit, Push1
  <2> QED BY <2>2, <1>0, <1>1, RingGrows DEF Commit, audVars
<1>4. AudioShape'
  BY <1>0 DEF AudioShape, Commit, audVars
<1> QED BY <1>2, <1>3, <1>4, ShapePartsPrime

LEMMA RetryParkedShape == ASSUME Shape, NEW s \in ctl.try, RetryParked(s) PROVE Shape'
<1>0. ControlShape /\ RingShape /\ AudioShape
  BY ShapeParts
<1>1. s \in Handle /\ ctl \in Ctl
  BY <1>0 DEF ControlShape, Ctl
<1>2. ctl' \in Ctl /\ ctl'.pc = "retry" /\ ctl'.s = None
  <2>1. ctl' = [ctl EXCEPT !.try = ctl.try \ {s}] /\ ctl.pc = "retry"
    BY DEF RetryParked
  <2>2. ctl.s = None
    BY <1>0, <2>1 DEF ControlShape
  <2> QED BY <1>1, <2>1, <2>2 DEF Ctl
<1>3. snd' \in [Sound -> SoundSlot] /\ park' \subseteq Handle
  <2>1. Retiring(snd, s) \in [Sound -> SoundSlot]
    BY <1>0, <1>1, HandleFields, SoundUpdates DEF ControlShape, Retiring
  <2> QED BY <2>1, <1>0 DEF ControlShape, RetryParked
<1>4. ControlShape'
  BY <1>0, <1>2, <1>3 DEF ControlShape, RetryParked
<1>5. RingShape'
  <2>1. MkCmd("RETIRE", None, s, FALSE) \in Cmd
    BY <1>1, CmdType, Constants DEF CmdTypes
  <2>2. cmd' \in Seq(Cmd) /\ Len(cmd') + cdone <= CmdCap /\ Len(cmd') >= Len(cmd)
    BY <2>1, <1>0, MaybeAppended DEF RetryParked
  <2> QED BY <2>2, <1>0, <1>2, RingGrows DEF RetryParked, audVars
<1>6. AudioShape'
  BY <1>0 DEF AudioShape, RetryParked, audVars
<1> QED BY <1>4, <1>5, <1>6, ShapePartsPrime
LEMMA BeginDrainEventsShape == ASSUME Shape, BeginDrainEvents PROVE Shape'
<1>0. ControlShape /\ RingShape /\ AudioShape
  BY ShapeParts
<1>1. Len(evt) \in Nat
  BY <1>0 DEF RingShape
<1>2. ctl' \in Ctl /\ ctl'.pc = "drain" /\ ctl'.s = None /\ ctl'.todo = Len(evt)
  BY <1>0, <1>1 DEF ControlShape, Ctl, CtlPc, BeginDrainEvents
<1>3. ControlShape'
  BY <1>0, <1>2 DEF ControlShape, BeginDrainEvents
<1>4. RingShape'
  BY <1>0, <1>1, <1>2 DEF RingShape, BeginDrainEvents, ringVars, audVars
<1>5. AudioShape'
  BY <1>0 DEF AudioShape, BeginDrainEvents, audVars
<1> QED BY <1>3, <1>4, <1>5, ShapePartsPrime

\* What taking an event does to the event ring and to the call's locals.
LEMMA TakeEvtShape ==
    ASSUME Shape, NEW t \in EvtTypes, TakeEvt(t)
    PROVE  /\ evt # <<>> /\ Head(evt) \in Evt /\ Head(evt).h \in Handle
           /\ evt' \in Seq(Evt) /\ edone' \in Nat /\ Len(evt') + edone' <= EvtCap
           /\ ctl' \in Ctl /\ ctl'.pc = "drain" /\ ctl'.s = None /\ ctl'.todo <= Len(evt')
<1>0. ControlShape /\ RingShape
  BY ShapeParts
<1>1. ctl \in Ctl /\ ctl.pc = "drain" /\ ctl.todo \in Nat /\ ctl.todo > 0 /\ ctl.s = None
  BY <1>0 DEF ControlShape, Ctl, TakeEvt
<1>2. evt \in Seq(Evt) /\ ctl.todo <= Len(evt) /\ edone \in Nat /\ Len(evt) + edone <= EvtCap
  BY <1>0, <1>1 DEF RingShape
<1>3. evt # <<>> /\ Len(evt) \in Nat
  BY <1>1, <1>2
<1>4. Head(evt) \in Evt /\ Tail(evt) \in Seq(Evt) /\ Len(Tail(evt)) = Len(evt) - 1
  BY <1>2, <1>3
<1>5. Head(evt).h \in Handle
  BY <1>4 DEF Evt
<1>6. evt' = Tail(evt) /\ edone' = edone + 1 /\ ctl' = [ctl EXCEPT !.todo = ctl.todo - 1]
  BY DEF TakeEvt
<1>7. ctl.todo - 1 \in Nat
  BY <1>1
<1>8. ctl' \in Ctl /\ ctl'.pc = "drain" /\ ctl'.s = None /\ ctl'.todo = ctl.todo - 1
  BY <1>1, <1>6, <1>7 DEF Ctl
<1>9. Len(evt') + edone' <= EvtCap /\ ctl'.todo <= Len(evt') /\ edone' \in Nat
  <2>1. PICK n, m \in Nat : n = Len(evt) /\ m = Len(evt')
    BY <1>3, <1>4, <1>6, LenProperties
  <2>2. m = n - 1 /\ ctl.todo <= n /\ n + edone <= EvtCap
    BY <1>2, <1>4, <1>6, <2>1
  <2>3. m + edone' <= EvtCap /\ ctl'.todo <= m /\ edone' \in Nat
    <3>1. EvtCap \in Nat /\ edone' = edone + 1 /\ ctl'.todo = ctl.todo - 1
      BY <1>6, <1>8, Constants
    <3> QED BY <1>1, <1>2, <2>2, <3>1
  <2> QED BY <2>1, <2>3
<1> QED BY <1>3, <1>4, <1>5, <1>6, <1>8, <1>9

\* An event handled by a control thread that leaves the audio side alone.
LEMMA EventHandled ==
    ASSUME Shape, NEW t \in EvtTypes, TakeEvt(t),
           slot' \in [Voice -> Slot], free' \in Seq(Voice), snd' \in [Sound -> SoundSlot],
           sfree' \in Seq(Sound), park' \subseteq Handle, app' = app,
           cmd' \in Seq(Cmd), Len(cmd') + cdone <= CmdCap, Len(cmd') >= Len(cmd), cdone' = cdone,
           UNCHANGED audVars
    PROVE  Shape'
<1>0. ControlShape /\ RingShape /\ AudioShape
  BY ShapeParts
<1>1. /\ evt' \in Seq(Evt) /\ edone' \in Nat /\ Len(evt') + edone' <= EvtCap
      /\ ctl' \in Ctl /\ ctl'.pc = "drain" /\ ctl'.s = None /\ ctl'.todo <= Len(evt')
  BY TakeEvtShape
<1>2. ControlShape'
  BY <1>0, <1>1 DEF ControlShape
<1>3. RingShape'
  <2>1. aud.todo \in Nat /\ Len(cmd) \in Nat /\ Len(cmd') \in Nat /\ cdone \in Nat
    BY <1>0, LenCmd DEF AudioShape
  <2>2. aud'.pc = "drain" => aud'.todo <= Len(cmd')
    BY <2>1, <1>0 DEF RingShape, audVars
  <2> QED BY <2>1, <2>2, <1>1 DEF RingShape
<1>4. AudioShape'
  BY <1>0 DEF AudioShape, audVars
<1> QED BY <1>2, <1>3, <1>4, ShapePartsPrime

LEMMA RecycledShape ==
    ASSUME ControlShape, NEW h \in Handle
    PROVE  /\ [slot EXCEPT ![h.idx].stealing = FALSE] \in [Voice -> Slot]
           /\ [slot EXCEPT ![h.idx].inuse = FALSE, ![h.idx].stealing = FALSE, ![h.idx].push = None]
                \in [Voice -> Slot]
<1>1. h.idx \in Nat
  BY HandleFields
<1>2. /\ [slot EXCEPT ![h.idx].stealing = FALSE] \in [Voice -> Slot]
      /\ [slot EXCEPT ![h.idx].inuse = FALSE] \in [Voice -> Slot]
  BY <1>1, SlotUpdates DEF ControlShape
<1>3. [slot EXCEPT ![h.idx].inuse = FALSE, ![h.idx].stealing = FALSE] \in [Voice -> Slot]
  BY <1>1, <1>2, SlotUpdates
<1> QED BY <1>1, <1>2, <1>3, SlotUpdates, Constants

LEMMA DrainEndedShape == ASSUME Shape, DrainEnded PROVE Shape'
<1>0. ControlShape /\ RingShape
  BY ShapeParts
<1> DEFINE h == Head(evt).h
<1>1. h \in Handle
  BY TakeEvtShape DEF DrainEnded, EvtTypes
<1>2. /\ snd' \in [Sound -> SoundSlot] /\ park' \subseteq Handle
      /\ cmd' \in Seq(Cmd) /\ Len(cmd') + cdone <= CmdCap /\ Len(cmd') >= Len(cmd)
  <2>1. cmd \in Seq(Cmd)
    BY <1>0 DEF RingShape
  <2> QED BY <2>1, <1>0, <1>1, LenCmd, ReleaseShape DEF DrainEnded
<1>3. slot' \in [Voice -> Slot] /\ free' \in Seq(Voice)
  <2>1. CASE Live(h)
    <3>1. /\ slot' = [slot EXCEPT ![h.idx].inuse = FALSE, ![h.idx].stealing = FALSE,
                                  ![h.idx].push = None]
          /\ free' = Append(free, h.idx) /\ h.idx \in Voice
      BY <2>1 DEF DrainEnded, Live
    <3> HIDE DEF h
    <3>2. slot' \in [Voice -> Slot]
      BY <3>1, <1>0, <1>1, RecycledShape
    <3>3. free' \in Seq(Voice)
      BY <3>1, <1>0 DEF ControlShape
    <3> QED BY <3>2, <3>3
  <2>2. CASE ~Live(h)
    <3>1. slot' = [slot EXCEPT ![h.idx].stealing = FALSE] /\ free' = free
      BY <2>2 DEF DrainEnded
    <3> HIDE DEF h
    <3> QED BY <3>1, <1>0, <1>1, RecycledShape DEF ControlShape
  <2> QED BY <2>1, <2>2
<1> QED BY <1>0, <1>2, <1>3, EventHandled DEF DrainEnded, ControlShape, EvtTypes

LEMMA DrainRetiredShape == ASSUME Shape, DrainRetired PROVE Shape'
<1>0. ControlShape /\ RingShape
  BY ShapeParts
<1> DEFINE h == Head(evt).h
<1>1. h \in Handle /\ h.idx \in Nat
  BY TakeEvtShape, HandleFields DEF DrainRetired, EvtTypes
<1>2. snd' \in [Sound -> SoundSlot] /\ sfree' \in Seq(Sound)
  <2>1. CASE SndLive(h)
    <3>1. /\ snd' = [snd EXCEPT ![h.idx].inuse = FALSE, ![h.idx].retiring = FALSE]
          /\ sfree' = Append(sfree, h.idx) /\ h.idx \in Sound
      BY <2>1 DEF DrainRetired, SndLive
    <3>2. [snd EXCEPT ![h.idx].inuse = FALSE] \in [Sound -> SoundSlot]
      BY <1>0, <1>1, SoundUpdates DEF ControlShape
    <3> QED BY <3>1, <3>2, <1>0, <1>1, SoundUpdates DEF ControlShape
  <2>2. CASE ~SndLive(h)
    BY <2>2, <1>0 DEF DrainRetired, ControlShape
  <2> QED BY <2>1, <2>2
<1>3. cmd' \in Seq(Cmd) /\ Len(cmd') + cdone <= CmdCap /\ Len(cmd') >= Len(cmd)
  BY <1>0, MaybeAppended DEF DrainRetired
<1> QED BY <1>0, <1>2, <1>3, EventHandled DEF DrainRetired, ControlShape, EvtTypes

LEMMA DrainNoticeShape == ASSUME Shape, DrainNotice PROVE Shape'
<1>0. ControlShape /\ RingShape
  BY ShapeParts
<1>1. cmd' \in Seq(Cmd) /\ Len(cmd') + cdone <= CmdCap /\ Len(cmd') >= Len(cmd)
  BY <1>0, MaybeAppended DEF DrainNotice
<1> QED BY <1>0, <1>1, EventHandled DEF DrainNotice, ControlShape, EvtTypes

LEMMA EndDrainEventsShape == ASSUME Shape, EndDrainEvents PROVE Shape'
<1>0. ControlShape /\ RingShape /\ AudioShape
  BY ShapeParts
<1>1. ControlShape'
  BY <1>0, Constants DEF ControlShape, EndDrainEvents, Idle
<1>2. RingShape'
  <2>1. Len(evt) \in Nat /\ edone \in Nat
    BY <1>0 DEF RingShape
  <2> QED BY <2>1, <1>0, Constants DEF RingShape, EndDrainEvents, Idle, audVars
<1>3. AudioShape'
  BY <1>0 DEF AudioShape, EndDrainEvents, audVars
<1> QED BY <1>1, <1>2, <1>3, ShapePartsPrime

THEOREM ControlShapeStep == ASSUME Shape, ControlNext PROVE Shape'
BY CreateSourceShape, CreateStreamShape, CreateCutShape, CreatePushShape, PlayOneshotShape,
   UnloadShape, CallsShape, DestroySourceShape, SetPriorityShape, LoadSoundShape, CommitShape,
   RetryParkedShape, BeginDrainEventsShape, DrainEndedShape, DrainRetiredShape, DrainNoticeShape,
   EndDrainEventsShape DEF ControlNext
-----------------------------------------------------------------------------
(* One lemma per action of the audio thread. *)

VoiceTable == {f \in [Voice -> VoiceRec] : \A i \in Voice : Len(f[i].queue) <= QueueCap}

LEMMA AudioTable == AudioShape <=>
    /\ aud \in [pc : {"idle", "drain", "mix"}, todo : Nat, next : Nat]
    /\ voice \in VoiceTable /\ lost \in BOOLEAN
BY DEF AudioShape, VoiceTable

LEMMA AudioTablePrime == AudioShape' <=>
    /\ aud' \in [pc : {"idle", "drain", "mix"}, todo : Nat, next : Nat]
    /\ voice' \in VoiceTable /\ lost' \in BOOLEAN
BY DEF AudioShape, VoiceTable

LEMMA VoiceUpdate ==
    ASSUME NEW f \in VoiceTable, NEW i, NEW r \in VoiceRec, i \in Voice => r.queue = f[i].queue
    PROVE  [f EXCEPT ![i] = r] \in VoiceTable
<1>1. f \in [Voice -> VoiceRec] /\ \A j \in Voice : Len(f[j].queue) <= QueueCap
  BY DEF VoiceTable
<1>2. [f EXCEPT ![i] = r] \in [Voice -> VoiceRec]
  BY <1>1
<1>3. \A j \in Voice : [f EXCEPT ![i] = r][j].queue = f[j].queue
  BY <1>1
<1> QED BY <1>1, <1>2, <1>3 DEF VoiceTable

\* Setting one field other than the queue keeps the table's shape.
LEMMA SetFlag ==
    ASSUME NEW f \in VoiceTable, NEW i, NEW b \in BOOLEAN
    PROVE  /\ [f EXCEPT ![i].active = b] \in VoiceTable
           /\ [f EXCEPT ![i].playing = b] \in VoiceTable
           /\ [f EXCEPT ![i].open = b] \in VoiceTable
<1>1. CASE i \in Voice
  <2>1. f[i] \in VoiceRec
    BY <1>1 DEF VoiceTable
  <2>2. /\ [f[i] EXCEPT !.active = b] \in VoiceRec /\ [f[i] EXCEPT !.active = b].queue = f[i].queue
        /\ [f[i] EXCEPT !.playing = b] \in VoiceRec /\ [f[i] EXCEPT !.playing = b].queue = f[i].queue
        /\ [f[i] EXCEPT !.open = b] \in VoiceRec /\ [f[i] EXCEPT !.open = b].queue = f[i].queue
    BY <2>1 DEF VoiceRec
  <2> QED BY <2>2, VoiceUpdate
<1>2. CASE i \notin Voice
  BY <1>2 DEF VoiceTable
<1> QED BY <1>1, <1>2

LEMMA SetSnd ==
    ASSUME NEW f \in VoiceTable, NEW i, NEW h \in Handle
    PROVE  [f EXCEPT ![i].snd = h] \in VoiceTable
<1>1. CASE i \in Voice
  <2>1. f[i] \in VoiceRec
    BY <1>1 DEF VoiceTable
  <2>2. [f[i] EXCEPT !.snd = h] \in VoiceRec /\ [f[i] EXCEPT !.snd = h].queue = f[i].queue
    BY <2>1 DEF VoiceRec
  <2> QED BY <2>2, VoiceUpdate
<1>2. CASE i \notin Voice
  BY <1>2 DEF VoiceTable
<1> QED BY <1>1, <1>2

LEMMA SetStopping ==
    ASSUME NEW f \in VoiceTable, NEW i, NEW n \in 0 .. 2
    PROVE  [f EXCEPT ![i].stopping = n] \in VoiceTable
<1>1. CASE i \in Voice
  <2>1. f[i] \in VoiceRec
    BY <1>1 DEF VoiceTable
  <2>2. [f[i] EXCEPT !.stopping = n] \in VoiceRec /\ [f[i] EXCEPT !.stopping = n].queue = f[i].queue
    BY <2>1 DEF VoiceRec
  <2> QED BY <2>2, VoiceUpdate
<1>2. CASE i \notin Voice
  BY <1>2 DEF VoiceTable
<1> QED BY <1>1, <1>2

LEMMA QueueUpdate ==
    ASSUME NEW f \in VoiceTable, NEW i \in Voice, NEW q \in Seq(Handle), Len(q) <= QueueCap
    PROVE  [f EXCEPT ![i].queue = q] \in VoiceTable
<1>1. f \in [Voice -> VoiceRec] /\ f[i] \in VoiceRec
  BY DEF VoiceTable
<1>2. [f[i] EXCEPT !.queue = q] \in VoiceRec /\ [f[i] EXCEPT !.queue = q].queue = q
  BY <1>1 DEF VoiceRec
<1> QED BY <1>1, <1>2 DEF VoiceTable

LEMMA AckShape ==
    ASSUME RingShape, lost \in BOOLEAN, NEW e \in Evt, PushAck(e)
    PROVE  /\ evt' \in Seq(Evt) /\ Len(evt') + edone <= EvtCap /\ Len(evt') >= Len(evt)
           /\ lost' \in BOOLEAN
<1>1. evt \in Seq(Evt) /\ Len(evt) \in Nat /\ edone \in Nat /\ Len(evt) + edone <= EvtCap
  BY DEF RingShape
<1>2. CASE AckRoom
  <2>1. evt' = Append(evt, e) /\ lost' = lost /\ Len(evt) + edone < EvtCap
    BY <1>2 DEF PushAck, AckRoom
  <2>2. evt' \in Seq(Evt) /\ Len(evt') = Len(evt) + 1
    BY <1>1, <2>1
  <2> QED BY <1>1, <2>1, <2>2, Constants
<1>3. CASE ~AckRoom
  <2>1. evt' = evt /\ lost' = TRUE
    BY <1>3 DEF PushAck
  <2> QED BY <1>1, <2>1
<1> QED BY <1>2, <1>3

LEMMA NoticeShape ==
    ASSUME RingShape, NEW e \in Evt, PushNotice(e)
    PROVE  evt' \in Seq(Evt) /\ Len(evt') + edone <= EvtCap /\ Len(evt') >= Len(evt)
<1>1. evt \in Seq(Evt) /\ Len(evt) \in Nat /\ edone \in Nat /\ Len(evt) + edone <= EvtCap
  BY DEF RingShape
<1>2. CASE NoticeRoom
  <2>1. evt' = Append(evt, e) /\ Len(evt) + edone < EvtCap
    BY <1>1, <1>2, Constants DEF PushNotice, NoticeRoom
  <2>2. evt' \in Seq(Evt) /\ Len(evt') = Len(evt) + 1
    BY <1>1, <2>1
  <2> QED BY <1>1, <2>1, <2>2, Constants
<1>3. CASE ~NoticeRoom
  <2>1. evt' = evt
    BY <1>3 DEF PushNotice
  <2> QED BY <1>1, <2>1
<1> QED BY <1>2, <1>3

LEMMA EvtType == \A t \in EvtTypes, h \in Handle : MkEvt(t, h) \in Evt
BY DEF MkEvt, Evt

\* What taking a command does to the command ring and to the audio thread.
LEMMA TakeCmdShape ==
    ASSUME Shape, NEW t \in CmdTypes, TakeCmd(t)
    PROVE  /\ cmd # <<>> /\ Head(cmd) \in Cmd /\ Head(cmd).v \in Handle /\ Head(cmd).s \in Handle
           /\ Head(cmd).one \in BOOLEAN
           /\ cmd' \in Seq(Cmd) /\ cdone' \in Nat /\ Len(cmd') + cdone' <= CmdCap
           /\ aud' \in [pc : {"idle", "drain", "mix"}, todo : Nat, next : Nat]
           /\ aud'.pc = "drain" /\ aud'.todo <= Len(cmd')
<1>0. RingShape /\ AudioShape
  BY ShapeParts
<1>1. aud.pc = "drain" /\ aud.todo \in Nat /\ aud.todo > 0
  BY <1>0 DEF AudioShape, TakeCmd
<1>2. cmd \in Seq(Cmd) /\ aud.todo <= Len(cmd) /\ cdone \in Nat /\ Len(cmd) + cdone <= CmdCap
  BY <1>0, <1>1 DEF RingShape
<1>3. cmd # <<>> /\ Len(cmd) \in Nat
  BY <1>1, <1>2
<1>4. Head(cmd) \in Cmd /\ Tail(cmd) \in Seq(Cmd) /\ Len(Tail(cmd)) = Len(cmd) - 1
  BY <1>2, <1>3
<1>5. Head(cmd).v \in Handle /\ Head(cmd).s \in Handle /\ Head(cmd).one \in BOOLEAN
  BY <1>4 DEF Cmd
<1>6. cmd' = Tail(cmd) /\ cdone' = cdone + 1 /\ aud' = [aud EXCEPT !.todo = aud.todo - 1]
  BY DEF TakeCmd
<1>7. aud.todo - 1 \in Nat
  BY <1>1
<1>8. /\ aud' \in [pc : {"idle", "drain", "mix"}, todo : Nat, next : Nat]
      /\ aud'.pc = "drain" /\ aud'.todo = aud.todo - 1
  BY <1>0, <1>1, <1>6, <1>7 DEF AudioShape
<1>9. Len(cmd') + cdone' <= CmdCap /\ aud'.todo <= Len(cmd') /\ cdone' \in Nat
  <2>1. Len(cmd') = Len(cmd) - 1 /\ cdone' = cdone + 1 /\ aud'.todo = aud.todo - 1
    BY <1>4, <1>6, <1>8
  <2>2. CmdCap \in Nat
    BY Constants
  <2> QED BY <1>1, <1>2, <1>3, <2>1, <2>2
<1> QED BY <1>3, <1>4, <1>5, <1>6, <1>8, <1>9

\* A command handled: what remains to show is that the voice table and the event ring keep theirs.
LEMMA CommandHandled ==
    ASSUME Shape, NEW t \in CmdTypes, TakeCmd(t), voice' \in VoiceTable, lost' \in BOOLEAN,
           evt' \in Seq(Evt), Len(evt') + edone <= EvtCap, Len(evt') >= Len(evt)
    PROVE  Shape'
<1>0. ControlShape /\ RingShape /\ AudioShape
  BY ShapeParts
<1>1. /\ cmd' \in Seq(Cmd) /\ cdone' \in Nat /\ Len(cmd') + cdone' <= CmdCap
      /\ aud' \in [pc : {"idle", "drain", "mix"}, todo : Nat, next : Nat]
      /\ aud'.pc = "drain" /\ aud'.todo <= Len(cmd')
  BY TakeCmdShape
<1>2. UNCHANGED <<ctlVars, edone>>
  BY DEF TakeCmd
<1>3. ControlShape'
  BY <1>0, <1>2 DEF ControlShape, ctlVars
<1>4. RingShape'
  <2>1. Len(evt) \in Nat /\ Len(evt') \in Nat /\ ctl.todo \in Nat
    BY <1>0 DEF RingShape, ControlShape, Ctl
  <2>2. ctl'.pc = "drain" => ctl'.todo <= Len(evt')
    BY <2>1, <1>0, <1>2 DEF RingShape, ctlVars
  <2> QED BY <2>2, <1>0, <1>1, <1>2 DEF RingShape
<1>5. AudioShape'
  BY <1>1, AudioTablePrime
<1> QED BY <1>3, <1>4, <1>5, ShapePartsPrime

LEMMA QuietEvents ==
    ASSUME Shape, UNCHANGED <<evt, lost>>
    PROVE  /\ lost' \in BOOLEAN /\ evt' \in Seq(Evt) /\ Len(evt') + edone <= EvtCap
           /\ Len(evt') >= Len(evt)
<1>1. RingShape /\ lost \in BOOLEAN
  BY ShapeParts DEF AudioShape
<1>2. evt \in Seq(Evt) /\ Len(evt) \in Nat /\ Len(evt) + edone <= EvtCap
  BY <1>1 DEF RingShape
<1> QED BY <1>1, <1>2
LEMMA DrainCreateShape == ASSUME Shape, DrainCreate PROVE Shape'
<1>0. AudioShape
  BY ShapeParts
<1> DEFINE h == Head(cmd).v
           r == [gen |-> h.gen, active |-> TRUE, playing |-> FALSE, snd |-> None, stopping |-> 0,
                 oneshot |-> FALSE, open |-> TRUE, queue |-> <<>>]
<1>1. h \in Handle
  BY TakeCmdShape DEF DrainCreate, CmdTypes
<1>2. voice' = [voice EXCEPT ![h.idx] = r]
  BY DEF DrainCreate
<1>3. r \in VoiceRec /\ Len(r.queue) <= QueueCap
  BY <1>1, HandleFields, Constants DEF VoiceRec
<1> HIDE DEF h, r
<1>4. voice' \in VoiceTable
  BY <1>0, <1>2, <1>3 DEF AudioShape, VoiceTable
<1> QED BY <1>4, QuietEvents, CommandHandled DEF DrainCreate, CmdTypes

LEMMA DrainDestroyShape == ASSUME Shape, DrainDestroy PROVE Shape'
<1>0. AudioShape
  BY ShapeParts
<1> DEFINE h == Head(cmd).v
<1>1. h \in Handle /\ h.idx \in Nat
  BY TakeCmdShape, HandleFields DEF DrainDestroy, CmdTypes
<1>2. \/ voice' = voice
      \/ voice' = [voice EXCEPT ![h.idx].active = FALSE, ![h.idx].playing = FALSE, ![h.idx].snd = None]
  BY DEF DrainDestroy
<1> HIDE DEF h
<1>3. voice' \in VoiceTable
  <2>1. [voice EXCEPT ![h.idx].active = FALSE] \in VoiceTable
    BY <1>0, AudioTable, SetFlag
  <2>2. [voice EXCEPT ![h.idx].active = FALSE, ![h.idx].playing = FALSE] \in VoiceTable
    BY <2>1, SetFlag
  <2>3. [voice EXCEPT ![h.idx].active = FALSE, ![h.idx].playing = FALSE, ![h.idx].snd = None]
          \in VoiceTable
    BY <2>2, SetSnd, Constants
  <2> QED BY <1>0, <1>2, <2>3, AudioTable
<1> QED BY <1>3, QuietEvents, CommandHandled DEF DrainDestroy, CmdTypes

LEMMA DrainPlayShape == ASSUME Shape, DrainPlay PROVE Shape'
<1>0. AudioShape
  BY ShapeParts
<1> DEFINE c == Head(cmd)
<1>1. c.s \in Handle /\ c.one \in BOOLEAN
  BY TakeCmdShape DEF DrainPlay, CmdTypes
<1>2. \A i \in Voice : voice[i] \in VoiceRec /\ Len(voice[i].queue) <= QueueCap
  BY <1>0 DEF AudioShape
<1>3. \A r \in VoiceRec : Bound(r, c) \in VoiceRec /\ Len(Bound(r, c).queue) <= QueueCap
  <2> TAKE r \in VoiceRec
  <2> DEFINE n == IF r.stopping = 2 THEN 2 ELSE 0
  <2>1. n \in 0 .. 2
    OBVIOUS
  <2>2. Bound(r, c) = [r EXCEPT !.snd = c.s, !.playing = TRUE, !.oneshot = c.one, !.open = TRUE,
                                !.queue = <<>>, !.stopping = n]
    BY DEF Bound
  <2>3. <<>> \in Seq(Handle) /\ Len(<<>>) = 0
    OBVIOUS
  <2> HIDE DEF n, c
  <2>4. Bound(r, c) \in VoiceRec /\ Bound(r, c).queue = <<>>
    BY <1>1, <2>1, <2>2, <2>3 DEF VoiceRec
  <2> QED BY <2>3, <2>4, Constants
<1>4. \A r \in VoiceRec : Detached(r) \in VoiceRec /\ Detached(r).queue = r.queue
  BY Constants DEF Detached, VoiceRec
<1>5. \/ voice' = voice
      \/ voice' = [i \in Voice |->
                     IF i = c.v.idx THEN Bound(voice[i], c)
                     ELSE IF snd[c.s.idx].stream /\ voice[i].snd.idx = c.s.idx THEN Detached(voice[i])
                     ELSE voice[i]]
  BY DEF DrainPlay
<1> HIDE DEF c
<1>6. voice' \in VoiceTable
  BY <1>0, <1>2, <1>3, <1>4, <1>5, AudioTable DEF VoiceTable
<1> QED BY <1>6, QuietEvents, CommandHandled DEF DrainPlay, CmdTypes

LEMMA DrainStopShape == ASSUME Shape, DrainStop PROVE Shape'
<1>0. AudioShape
  BY ShapeParts
<1> DEFINE h == Head(cmd).v
<1>1. h \in Handle /\ h.idx \in Nat
  BY TakeCmdShape, HandleFields DEF DrainStop, CmdTypes
<1>2. voice' = voice \/ voice' = [voice EXCEPT ![h.idx].stopping = 1]
  BY DEF DrainStop
<1> HIDE DEF h
<1>3. voice' \in VoiceTable
  <2>1. [voice EXCEPT ![h.idx].stopping = 1] \in VoiceTable
    <3>1. 1 \in 0 .. 2
      OBVIOUS
    <3> QED BY <3>1, <1>0, AudioTable, SetStopping
  <2> QED BY <1>0, <1>2, <2>1, AudioTable
<1> QED BY <1>3, QuietEvents, CommandHandled DEF DrainStop, CmdTypes

LEMMA DrainStopAllShape == ASSUME Shape, DrainStopAll PROVE Shape'
<1>0. AudioShape
  BY ShapeParts
<1>1. \A i \in Voice : voice[i] \in VoiceRec /\ Len(voice[i].queue) <= QueueCap
  BY <1>0 DEF AudioShape
<1>2. \A r \in VoiceRec : /\ [r EXCEPT !.stopping = 1, !.queue = <<>>] \in VoiceRec
                          /\ Len([r EXCEPT !.stopping = 1, !.queue = <<>>].queue) <= QueueCap
  <2> TAKE r \in VoiceRec
  <2>1. <<>> \in Seq(Handle) /\ Len(<<>>) = 0 /\ 1 \in 0 .. 2
    OBVIOUS
  <2>2. /\ [r EXCEPT !.stopping = 1, !.queue = <<>>] \in VoiceRec
        /\ [r EXCEPT !.stopping = 1, !.queue = <<>>].queue = <<>>
    BY <2>1 DEF VoiceRec
  <2> QED BY <2>1, <2>2, Constants
<1>3. voice' \in VoiceTable
  BY <1>1, <1>2 DEF DrainStopAll, VoiceTable
<1> QED BY <1>3, QuietEvents, CommandHandled DEF DrainStopAll, CmdTypes

LEMMA DrainQueueShape == ASSUME Shape, DrainQueue PROVE Shape'
<1>0. AudioShape
  BY ShapeParts
<1> DEFINE c == Head(cmd)
           i == c.v.idx
<1>1. c.s \in Handle
  BY TakeCmdShape DEF DrainQueue, CmdTypes
<1>2. \/ voice' = voice
      \/ /\ i \in Voice /\ Len(voice[i].queue) < QueueCap
         /\ voice' = [voice EXCEPT ![i].queue = Append(voice[i].queue, c.s)]
  BY DEF DrainQueue, VoiceFor
<1> HIDE DEF c, i
<1>3. voice' \in VoiceTable
  <2>1. CASE voice' = voice
    BY <2>1, <1>0, AudioTable
  <2>2. CASE /\ i \in Voice /\ Len(voice[i].queue) < QueueCap
             /\ voice' = [voice EXCEPT ![i].queue = Append(voice[i].queue, c.s)]
    <3>1. voice[i] \in VoiceRec
      BY <1>0, <2>2 DEF AudioShape
    <3>2. voice[i].queue \in Seq(Handle)
      BY <3>1 DEF VoiceRec
    <3>3. Append(voice[i].queue, c.s) \in Seq(Handle) /\ Len(Append(voice[i].queue, c.s)) <= QueueCap
      BY <1>1, <2>2, <3>2, Constants
    <3> QED BY <2>2, <3>3, <1>0, AudioTable, QueueUpdate
  <2> QED BY <1>2, <2>1, <2>2
<1> QED BY <1>3, QuietEvents, CommandHandled DEF DrainQueue, CmdTypes

LEMMA DrainStealShape == ASSUME Shape, DrainSteal PROVE Shape'
<1>0. RingShape /\ AudioShape
  BY ShapeParts
<1> DEFINE h == Head(cmd).v
<1>1. h \in Handle /\ h.idx \in Nat
  BY TakeCmdShape, HandleFields DEF DrainSteal, CmdTypes
<1>2. \/ UNCHANGED <<voice, evt, lost>>
      \/ voice' = [voice EXCEPT ![h.idx].stopping = 2] /\ UNCHANGED <<evt, lost>>
      \/ /\ voice' = [voice EXCEPT ![h.idx].stopping = 0, ![h.idx].active = FALSE, ![h.idx].snd = None]
         /\ PushAck(MkEvt("ENDED", h))
  BY DEF DrainSteal
<1> HIDE DEF h
<1>3. voice' \in VoiceTable
  <2>1. [voice EXCEPT ![h.idx].stopping = 2] \in VoiceTable
        /\ [voice EXCEPT ![h.idx].stopping = 0] \in VoiceTable
    <3>1. 0 \in 0 .. 2 /\ 2 \in 0 .. 2
      OBVIOUS
    <3> QED BY <3>1, <1>0, AudioTable, SetStopping
  <2>2. [voice EXCEPT ![h.idx].stopping = 0, ![h.idx].active = FALSE] \in VoiceTable
    BY <2>1, SetFlag
  <2>3. [voice EXCEPT ![h.idx].stopping = 0, ![h.idx].active = FALSE, ![h.idx].snd = None]
          \in VoiceTable
    BY <2>2, SetSnd, Constants
  <2> QED BY <1>0, <1>2, <2>1, <2>3, AudioTable
<1>4. /\ lost' \in BOOLEAN /\ evt' \in Seq(Evt) /\ Len(evt') + edone <= EvtCap
      /\ Len(evt') >= Len(evt)
  <2>1. CASE UNCHANGED <<evt, lost>>
    BY <2>1, QuietEvents
  <2>2. CASE PushAck(MkEvt("ENDED", h))
    <3>1. MkEvt("ENDED", h) \in Evt
      BY <1>1, EvtType DEF EvtTypes
    <3> QED BY <3>1, <2>2, <1>0, AckShape DEF AudioShape
  <2> QED BY <1>2, <2>1, <2>2
<1> QED BY <1>3, <1>4, CommandHandled DEF DrainSteal, CmdTypes

LEMMA ReleasedShape ==
    ASSUME NEW r \in VoiceRec, NEW i \in Nat, Len(r.queue) <= QueueCap
    PROVE  Released(r, i) \in VoiceRec /\ Len(Released(r, i).queue) <= QueueCap
<1> DEFINE q == [k \in DOMAIN r.queue |-> IF r.queue[k].idx = i THEN None ELSE r.queue[k]]
<1>1. r.queue \in Seq(Handle)
  BY DEF VoiceRec
<1>2. q \in Seq(Handle) /\ Len(q) = Len(r.queue)
  BY <1>1, Constants
<1>3. Released(r, i) = [r EXCEPT !.playing = r.playing /\ r.snd.idx # i,
                                 !.snd = IF r.snd.idx = i THEN None ELSE r.snd, !.queue = q]
  BY DEF Released
<1> HIDE DEF q
<1>4. r.playing \in BOOLEAN /\ r.snd \in Handle
  BY DEF VoiceRec
<1>5. (r.playing /\ r.snd.idx # i) \in BOOLEAN /\ (IF r.snd.idx = i THEN None ELSE r.snd) \in Handle
  BY <1>4, Constants
<1>6. Released(r, i) \in VoiceRec
  BY <1>2, <1>3, <1>5 DEF VoiceRec
<1>7. Released(r, i).queue = q
  BY <1>3 DEF VoiceRec
<1> QED BY <1>2, <1>6, <1>7

LEMMA DrainRetireShape == ASSUME Shape, DrainRetire PROVE Shape'
<1>0. RingShape /\ AudioShape
  BY ShapeParts
<1> DEFINE h == Head(cmd).s
<1>1. h \in Handle /\ h.idx \in Nat
  BY TakeCmdShape, HandleFields DEF DrainRetire, CmdTypes
<1>2. /\ voice' = voice \/ voice' = [i \in Voice |-> Released(voice[i], h.idx)]
      /\ PushAck(MkEvt("RETIRED", h))
  BY DEF DrainRetire
<1> HIDE DEF h
<1>3. \A i \in Voice : voice[i] \in VoiceRec /\ Len(voice[i].queue) <= QueueCap
  BY <1>0 DEF AudioShape
<1>4. \A i \in Voice : /\ Released(voice[i], h.idx) \in VoiceRec
                       /\ Len(Released(voice[i], h.idx).queue) <= QueueCap
  BY <1>1, <1>3, ReleasedShape
<1>5. voice' \in VoiceTable
  BY <1>0, <1>2, <1>4, AudioTable DEF VoiceTable
<1>6. /\ lost' \in BOOLEAN /\ evt' \in Seq(Evt) /\ Len(evt') + edone <= EvtCap
      /\ Len(evt') >= Len(evt)
  <2>1. MkEvt("RETIRED", h) \in Evt
    BY <1>1, EvtType DEF EvtTypes
  <2> QED BY <2>1, <1>0, <1>2, AckShape DEF AudioShape
<1> QED BY <1>5, <1>6, CommandHandled DEF DrainRetire, CmdTypes

LEMMA DrainParamShape == ASSUME Shape, DrainParam PROVE Shape'
<1>1. voice' \in VoiceTable /\ UNCHANGED <<evt, lost>>
  BY ShapeParts, AudioTable DEF DrainParam
<1>2. PICK t \in {"PARAM", "COMMIT"} : TakeCmd(t)
  BY DEF DrainParam
<1>3. t \in CmdTypes
  BY DEF CmdTypes
<1> QED BY <1>1, <1>2, <1>3, QuietEvents, CommandHandled
LEMMA BlockShape == ASSUME Shape, BeginBlock \/ EndDrainCommands \/ EndBlock PROVE Shape'
<1>0. ControlShape /\ RingShape /\ AudioShape
  BY ShapeParts
<1>1. UNCHANGED <<ctlVars, cmd, evt, edone, voice, lost>>
  BY DEF BeginBlock, EndDrainCommands, EndBlock, ringVars
<1>2. Len(cmd) \in Nat /\ cdone \in Nat
  BY <1>0, LenCmd
<1>3. ControlShape'
  BY <1>0, <1>1 DEF ControlShape, ctlVars
<1>4. aud' \in [pc : {"idle", "drain", "mix"}, todo : Nat, next : Nat]
  <2>1. CASE BeginBlock
    BY <2>1, <1>0, <1>2 DEF AudioShape, BeginBlock
  <2>2. CASE EndDrainCommands
    BY <2>2, <1>0 DEF AudioShape, EndDrainCommands
  <2>3. CASE EndBlock
    BY <2>3, <1>0 DEF AudioShape, EndBlock
  <2> QED BY <2>1, <2>2, <2>3
<1>5. AudioShape'
  BY <1>0, <1>1, <1>4 DEF AudioShape
<1>6. cdone' \in Nat /\ cdone' <= cdone
  BY <1>2 DEF BeginBlock, EndDrainCommands, EndBlock, ringVars
<1>7. aud'.pc = "drain" => aud'.todo = Len(cmd)
  BY <1>0 DEF AudioShape, BeginBlock, EndDrainCommands, EndBlock
<1>8. RingShape'
  BY <1>0, <1>1, <1>2, <1>6, <1>7, Constants DEF RingShape, ctlVars
<1> QED BY <1>3, <1>5, <1>8, ShapePartsPrime

\* A voice mixed: what remains to show is that the voice table and the event ring keep theirs.
LEMMA VoiceMixed ==
    ASSUME Shape, NEW i \in Voice, MixAt(i), Mixed(i), voice' \in VoiceTable, lost' \in BOOLEAN,
           evt' \in Seq(Evt), Len(evt') + edone <= EvtCap, Len(evt') >= Len(evt)
    PROVE  Shape'
<1>0. ControlShape /\ RingShape /\ AudioShape
  BY ShapeParts
<1>1. UNCHANGED <<ctlVars, cmd, cdone, edone>>
  BY DEF Mixed
<1>2. aud' \in [pc : {"idle", "drain", "mix"}, todo : Nat, next : Nat] /\ aud'.pc = "mix"
  <2>1. i + 1 \in Nat
    BY <1>0, SlotFields
  <2> QED BY <2>1, <1>0 DEF AudioShape, Mixed, MixAt
<1>3. ControlShape'
  BY <1>0, <1>1 DEF ControlShape, ctlVars
<1>4. RingShape'
  <2>1. Len(evt) \in Nat /\ Len(evt') \in Nat /\ ctl.todo \in Nat
    BY <1>0 DEF RingShape, ControlShape, Ctl
  <2>2. ctl'.pc = "drain" => ctl'.todo <= Len(evt')
    BY <2>1, <1>0, <1>1 DEF RingShape, ctlVars
  <2> QED BY <2>2, <1>0, <1>1, <1>2 DEF RingShape
<1>5. AudioShape'
  BY <1>2, AudioTablePrime
<1> QED BY <1>3, <1>4, <1>5, ShapePartsPrime

LEMMA MixFinalizeShape == ASSUME Shape, NEW i \in Voice, MixFinalize(i) PROVE Shape'
<1>0. ControlShape /\ RingShape /\ AudioShape
  BY ShapeParts
<1>1. voice' = [voice EXCEPT ![i].stopping = 0, ![i].playing = FALSE, ![i].active = ~GivesBack(i)]
  BY DEF MixFinalize
<1>2. voice' \in VoiceTable
  <2>1. [voice EXCEPT ![i].stopping = 0] \in VoiceTable
    <3>1. 0 \in 0 .. 2
      OBVIOUS
    <3> QED BY <3>1, <1>0, AudioTable, SetStopping
  <2>2. [voice EXCEPT ![i].stopping = 0, ![i].playing = FALSE] \in VoiceTable
    BY <2>1, SetFlag
  <2>3. (~GivesBack(i)) \in BOOLEAN
    OBVIOUS
  <2> QED BY <1>1, <2>2, <2>3, SetFlag
<1>3. /\ lost' \in BOOLEAN /\ evt' \in Seq(Evt) /\ Len(evt') + edone <= EvtCap
      /\ Len(evt') >= Len(evt)
  <2>1. H(i, voice[i].gen) \in Handle
    <3>1. voice[i] \in VoiceRec
      BY <1>0 DEF AudioShape
    <3>2. voice[i].gen \in Nat
      BY <3>1 DEF VoiceRec
    <3> QED BY <3>2, <1>0, SlotFields, HandleType
  <2>2. MkEvt("ENDED", H(i, voice[i].gen)) \in Evt
    BY <2>1, EvtType DEF EvtTypes
  <2>3. PushAck(MkEvt("ENDED", H(i, voice[i].gen))) \/ UNCHANGED <<evt, lost>>
    BY DEF MixFinalize
  <2> QED BY <2>2, <2>3, <1>0, AckShape, QuietEvents DEF AudioShape
<1> QED BY <1>2, <1>3, VoiceMixed DEF MixFinalize

LEMMA MixOnShape == ASSUME Shape, NEW i \in Voice, MixOn(i) PROVE Shape'
<1>0. AudioShape
  BY ShapeParts
<1>1. PICK o \in BOOLEAN : voice' = [voice EXCEPT ![i].open = o]
  BY DEF MixOn, GateTargets
<1>2. voice' \in VoiceTable
  BY <1>0, <1>1, AudioTable, SetFlag
<1> QED BY <1>2, QuietEvents, VoiceMixed DEF MixOn

LEMMA MixChainShape == ASSUME Shape, NEW i \in Voice, MixChain(i) PROVE Shape'
<1>0. AudioShape
  BY ShapeParts
<1> DEFINE q == voice[i].queue
<1>1. PICK k \in Valid(q), o \in BOOLEAN :
        voice' = [voice EXCEPT ![i].snd = q[k], ![i].queue = SubSeq(q, k + 1, Len(q)), ![i].open = o]
  BY DEF MixChain
<1>2. q \in Seq(Handle) /\ Len(q) <= QueueCap
  <2>1. voice[i] \in VoiceRec /\ Len(voice[i].queue) <= QueueCap
    BY <1>0 DEF AudioShape
  <2> QED BY <2>1 DEF VoiceRec
<1> HIDE DEF q
<1>3. k \in 1 .. Len(q)
  BY <1>1 DEF Valid
<1>4. q[k] \in Handle /\ SubSeq(q, k + 1, Len(q)) \in Seq(Handle)
      /\ Len(SubSeq(q, k + 1, Len(q))) <= QueueCap
  BY <1>2, <1>3, Constants
<1>5. [voice EXCEPT ![i].snd = q[k]] \in VoiceTable
  BY <1>0, <1>4, AudioTable, SetSnd
<1>6. [voice EXCEPT ![i].snd = q[k], ![i].queue = SubSeq(q, k + 1, Len(q))] \in VoiceTable
  BY <1>4, <1>5, QueueUpdate
<1>7. voice' \in VoiceTable
  BY <1>1, <1>6, SetFlag
<1> QED BY <1>7, QuietEvents, VoiceMixed DEF MixChain

LEMMA MixEndShape == ASSUME Shape, NEW i \in Voice, MixEnd(i) PROVE Shape'
<1>0. ControlShape /\ RingShape /\ AudioShape
  BY ShapeParts
<1>1. PICK o \in BOOLEAN :
        voice' = [voice EXCEPT ![i].playing = FALSE, ![i].open = o, ![i].active = ~voice[i].oneshot,
                               ![i].queue = IF voice[i].stopping = 0 /\ ~snd[voice[i].snd.idx].stream
                                            THEN <<>> ELSE voice[i].queue]
  BY DEF MixEnd, GateTargets
<1> DEFINE q == IF voice[i].stopping = 0 /\ ~snd[voice[i].snd.idx].stream
                THEN <<>> ELSE voice[i].queue
           a == ~voice[i].oneshot
<1>2. voice[i] \in VoiceRec /\ Len(voice[i].queue) <= QueueCap
  BY <1>0 DEF AudioShape
<1>3. voice[i].queue \in Seq(Handle) /\ voice[i].oneshot \in BOOLEAN /\ voice[i].gen \in Nat
  BY <1>2 DEF VoiceRec
<1>4. q \in Seq(Handle) /\ Len(q) <= QueueCap /\ a \in BOOLEAN
  BY <1>2, <1>3, Constants
<1>5. voice' = [voice EXCEPT ![i].playing = FALSE, ![i].open = o, ![i].active = a, ![i].queue = q]
  BY <1>1
<1> HIDE DEF q, a
<1>6. [voice EXCEPT ![i].playing = FALSE, ![i].open = o, ![i].active = a] \in VoiceTable
  <2>1. [voice EXCEPT ![i].playing = FALSE] \in VoiceTable
    BY <1>0, AudioTable, SetFlag
  <2>2. [voice EXCEPT ![i].playing = FALSE, ![i].open = o] \in VoiceTable
    BY <2>1, SetFlag
  <2> QED BY <2>2, <1>4, SetFlag
<1>7. voice' \in VoiceTable
  BY <1>4, <1>5, <1>6, QueueUpdate
<1>8. /\ lost' \in BOOLEAN /\ evt' \in Seq(Evt) /\ Len(evt') + edone <= EvtCap
      /\ Len(evt') >= Len(evt)
  <2>1. H(i, voice[i].gen) \in Handle
    BY <1>0, <1>3, SlotFields, HandleType
  <2>2. MkEvt("ENDED", H(i, voice[i].gen)) \in Evt /\ MkEvt("NOTICE", H(i, voice[i].gen)) \in Evt
    BY <2>1, EvtType DEF EvtTypes
  <2>3. \/ PushAck(MkEvt("ENDED", H(i, voice[i].gen)))
        \/ PushNotice(MkEvt("NOTICE", H(i, voice[i].gen))) /\ UNCHANGED lost
    BY DEF MixEnd
  <2>4. lost \in BOOLEAN
    BY <1>0 DEF AudioShape
  <2> QED BY <2>2, <2>3, <2>4, <1>0, AckShape, NoticeShape
<1> QED BY <1>7, <1>8, VoiceMixed DEF MixEnd

THEOREM AudioShapeStep == ASSUME Shape, AudioNext PROVE Shape'
BY BlockShape, DrainCreateShape, DrainDestroyShape, DrainPlayShape, DrainStopShape,
   DrainStopAllShape, DrainQueueShape, DrainStealShape, DrainRetireShape, DrainParamShape,
   MixFinalizeShape, MixOnShape, MixChainShape, MixEndShape DEF AudioNext

\* Every variable keeps its shape, and the rings and the chain queues their capacity.
THEOREM TypeCorrect == Spec => []TypeOK
<1>1. Init => Shape
  BY InitShape
<1>2. Shape /\ [Next]_vars => Shape'
  <2>1. ASSUME Shape, Next PROVE Shape'
    BY <2>1, ControlShapeStep, AudioShapeStep DEF Next
  <2>2. ASSUME Shape, UNCHANGED vars PROVE Shape'
    BY <2>2 DEF Shape, TypeOK, ThreadsOK, vars
  <2> QED BY <2>1, <2>2
<1>3. Shape => TypeOK
  BY DEF Shape
<1> QED BY <1>1, <1>2, <1>3, PTL DEF Spec

-----------------------------------------------------------------------------
(* A stack of distinct entries. *)

LEMMA Popped ==
    ASSUME NEW S, NEW q \in Seq(S), Len(q) > 0, Distinct(q)
    PROVE  /\ Distinct(Front(q)) /\ Last(q) \in S
           /\ \A i : On(Front(q), i) <=> On(q, i) /\ i # Last(q)
<1>0. Len(q) \in Nat /\ Len(q) - 1 \in Nat /\ \A k \in 1 .. Len(q) : q[k] \in S
  OBVIOUS
<1>1. /\ Front(q) \in Seq(S) /\ Len(Front(q)) = Len(q) - 1 /\ Len(q) \in Nat
      /\ \A k \in 1 .. Len(q) - 1 : Front(q)[k] = q[k]
  <2> DEFINE n == Len(q) - 1
  <2>1. n \in Nat /\ \A k \in 1 .. n : q[k] \in S
    BY <1>0
  <2> HIDE DEF n
  <2>2. /\ SubSeq(q, 1, n) \in Seq(S)
        /\ Len(SubSeq(q, 1, n)) = IF 1 <= n THEN n - 1 + 1 ELSE 0
        /\ \A k \in 1 .. n - 1 + 1 : SubSeq(q, 1, n)[k] = q[1 + k - 1]
    BY <2>1, SubSeqProperties
  <2>3. Len(SubSeq(q, 1, n)) = n
    BY <2>1, <2>2
  <2>4. \A k \in 1 .. n : SubSeq(q, 1, n)[k] = q[k]
    BY <2>1, <2>2
  <2>5. Front(q) = SubSeq(q, 1, n)
    BY DEF Front, n
  <2> QED BY <1>0, <2>2, <2>3, <2>4, <2>5 DEF n
<1>2. \A j, k \in 1 .. Len(q) : q[j] = q[k] => j = k
  BY DEF Distinct
<1>3. Distinct(Front(q))
  BY <1>1, <1>2 DEF Distinct
<1>4. Last(q) \in S
  BY DEF Last
<1>5. \A i : On(Front(q), i) <=> On(q, i) /\ i # Last(q)
  <2> TAKE i
  <2>1. ASSUME On(Front(q), i) PROVE On(q, i) /\ i # Last(q)
    <3>1. PICK k \in 1 .. Len(q) - 1 : q[k] = i
      BY <1>1, <2>1 DEF On
    <3> QED BY <1>1, <1>2, <3>1 DEF On, Last
  <2>2. ASSUME On(q, i), i # Last(q) PROVE On(Front(q), i)
    <3>1. PICK k \in 1 .. Len(q) : q[k] = i
      BY <2>2 DEF On
    <3>2. k # Len(q)
      BY <2>2, <3>1 DEF Last
    <3>3. k \in 1 .. Len(Front(q)) /\ Front(q)[k] = i
      BY <1>1, <3>1, <3>2
    <3> QED BY <3>3 DEF On
  <2> QED BY <2>1, <2>2
<1> QED BY <1>3, <1>4, <1>5

LEMMA Pushed ==
    ASSUME NEW S, NEW q \in Seq(S), NEW x \in S, Distinct(q), ~On(q, x)
    PROVE  /\ Distinct(Append(q, x))
           /\ \A i : On(Append(q, x), i) <=> On(q, i) \/ i = x
<1> DEFINE p == Append(q, x)
<1>1. /\ p \in Seq(S) /\ Len(p) = Len(q) + 1 /\ Len(q) \in Nat /\ p[Len(q) + 1] = x
      /\ \A k \in 1 .. Len(q) : p[k] = q[k]
  OBVIOUS
<1> HIDE DEF p
<1>2. \A j, k \in 1 .. Len(q) : q[j] = q[k] => j = k
  BY DEF Distinct
<1>3. \A k \in 1 .. Len(q) : q[k] # x
  BY DEF On
<1>4. Distinct(p)
  BY <1>1, <1>2, <1>3 DEF Distinct
<1>5. \A i : On(p, i) <=> On(q, i) \/ i = x
  <2> TAKE i
  <2>1. ASSUME On(p, i) PROVE On(q, i) \/ i = x
    BY <1>1, <2>1 DEF On
  <2>2. ASSUME On(q, i) PROVE On(p, i)
    BY <1>1, <2>2 DEF On
  <2>3. ASSUME i = x PROVE On(p, i)
    <3>1. Len(q) + 1 \in 1 .. Len(p)
      BY <1>1
    <3> QED BY <1>1, <2>3, <3>1 DEF On
  <2> QED BY <2>1, <2>2, <2>3
<1> QED BY <1>4, <1>5 DEF p

-----------------------------------------------------------------------------
(* The steps. *)

\* Shape, with what the free lists and the calls in progress say.
LEMMA SlotsParts ==
    SlotsInv <=> Shape /\ CallHoldsSlots /\ VoicesExact /\ SoundsExact
BY DEF SlotsInv, Shape, FreelistExact

LEMMA SlotsPartsPrime ==
    SlotsInv' <=> Shape' /\ CallHoldsSlots' /\ VoicesExact' /\ SoundsExact'
BY DEF SlotsInv, Shape, FreelistExact

LEMMA LetFields ==
    ASSUME ControlShape, NEW i \in Voice
    PROVE  /\ Let(i).inuse = TRUE /\ Let(i).gen = slot[i].gen + 1
           /\ Unlet(Let(i)).inuse = FALSE /\ Unlet(slot[i]).inuse = FALSE
<1>1. slot[i] \in Slot /\ Let(i) \in Slot
  BY LetType DEF ControlShape
<1>2. Let(i).inuse = TRUE /\ Let(i).gen = slot[i].gen + 1
  BY DEF Let
<1>3. \A r \in Slot : Unlet(r).inuse = FALSE
  BY DEF Slot, Unlet
<1> QED BY <1>1, <1>2, <1>3

\* alloc_handle: the slot on top of the free list is let.
LEMMA LetFromTop ==
    ASSUME ControlShape, VoicesExact, Len(free) > 0, slot' = [slot EXCEPT ![Last(free)] = Let(Last(free))],
           free' = Front(free)
    PROVE  /\ VoicesExact' /\ Last(free) \in Voice /\ ~slot[Last(free)].inuse
           /\ slot'[Last(free)].inuse /\ slot'[Last(free)].gen = slot[Last(free)].gen + 1
<1> DEFINE i == Last(free)
<1>1. /\ i \in Voice /\ Distinct(Front(free))
      /\ \A j : On(Front(free), j) <=> On(free, j) /\ j # i
  BY Popped DEF ControlShape, VoicesExact
<1>2. On(free, i)
  BY DEF On, Last, ControlShape
<1>3. Let(i).inuse = TRUE /\ Let(i).gen = slot[i].gen + 1
  BY <1>1, LetFields
<1>4. slot'[i] = Let(i) /\ \A j \in Voice : j # i => slot'[j] = slot[j]
  BY <1>1 DEF ControlShape
<1> HIDE DEF i
<1>5. VoicesExact'
  BY <1>1, <1>3, <1>4 DEF VoicesExact, i
<1> QED BY <1>1, <1>2, <1>3, <1>4, <1>5 DEF VoicesExact, i

\* recycle_handle: a let slot goes back.
LEMMA RecycledExact ==
    ASSUME ControlShape, VoicesExact, NEW i \in Voice, slot[i].inuse, free' = Append(free, i),
           ~slot'[i].inuse, \A j \in Voice : j # i => slot'[j].inuse = slot[j].inuse
    PROVE  VoicesExact'
<1>1. free \in Seq(Voice) /\ Distinct(free) /\ ~On(free, i)
  BY DEF ControlShape, VoicesExact
<1>2. Distinct(free') /\ \A j : On(free', j) <=> On(free, j) \/ j = i
  BY <1>1, Pushed
<1> QED BY <1>2 DEF VoicesExact

LEMMA SameVoices ==
    ASSUME VoicesExact, free' = free, \A j \in Voice : slot'[j].inuse = slot[j].inuse
    PROVE  VoicesExact'
BY DEF VoicesExact

LEMMA SameSounds ==
    ASSUME SoundsExact, sfree' = sfree, \A s \in Sound : snd'[s].inuse = snd[s].inuse
    PROVE  SoundsExact'
BY DEF SoundsExact

\* rt_source_create, pool not full.
LEMMA FromPoolExact ==
    ASSUME ControlShape, VoicesExact, NEW s \in Handle, CreateFromPool(s)
    PROVE  VoicesExact' /\ CallHoldsSlots'
<1> DEFINE i == Last(free)
<1>1. Len(free) > 0
  BY Constants DEF CreateFromPool, ControlShape
<1>2. VoicesExact' /\ i \in Voice /\ slot'[i].inuse /\ slot'[i].gen = slot[i].gen + 1
  BY <1>1, LetFromTop DEF CreateFromPool
<1>3. ctl'.pc = "push" /\ ctl'.h = H(i, slot[i].gen + 1)
  BY DEF CreateFromPool, Idle
<1> QED BY <1>2, <1>3 DEF CallHoldsSlots, Live, H

\* rt_source_create, pool full.
LEMMA StealExact ==
    ASSUME ControlShape, VoicesExact, NEW s \in Handle, CreateBySteal(s)
    PROVE  VoicesExact' /\ CallHoldsSlots'
<1> DEFINE i == Last(free)
<1>1. PICK v \in Voice : CreateBySteal(s)!2!(v)
  BY DEF CreateBySteal
<1> DEFINE vh == H(v, slot[v].gen)
<1>2. v \in Voice /\ slot[v].inuse
  BY <1>1 DEF IsVictim, Stealable
<1>3. CASE free = <<>>
  <2>1. slot' = slot /\ free' = free /\ ctl' = [Idle EXCEPT !.pc = "cut", !.vic = vh, !.s = s]
    BY <1>1, <1>3
  <2>2. ctl'.pc = "cut" /\ ctl'.vic = H(v, slot[v].gen)
    BY <2>1 DEF Idle
  <2>3. CallHoldsSlots'
    BY <2>1, <2>2, <1>2 DEF CallHoldsSlots, Live, H
  <2> QED BY <2>1, <2>3, SameVoices
<1>4. CASE free # <<>>
  <2>0. Len(free) > 0 /\ i \in Voice
    <3>1. Len(free) > 0
      BY <1>4 DEF ControlShape
    <3> QED BY <3>1, PopFree
  <2>1. On(free, i)
    BY <2>0 DEF On, Last, ControlShape
  <2>2. ~slot[i].inuse /\ i # v
    BY <2>0, <2>1, <1>2 DEF VoicesExact
  <2>3. CASE CmdRoom(1)
    <3>1. slot' = [slot EXCEPT ![i] = Let(i), ![v].stealing = TRUE] /\ free' = Front(free)
          /\ ctl' = [Idle EXCEPT !.pc = "push", !.h = H(i, slot[i].gen + 1), !.s = s]
      BY <1>1, <1>4, <2>3
    <3>2. /\ slot'[i] = Let(i)
          /\ \A j \in Voice : j # i => slot'[j].inuse = slot[j].inuse
      <4>1. slot \in [Voice -> Slot] /\ \A r \in Slot : [r EXCEPT !.stealing = TRUE].inuse = r.inuse
        BY DEF ControlShape, Slot
      <4> QED BY <3>1, <4>1, <2>0, <2>2, <1>2
    <3>3. /\ Distinct(Front(free)) /\ \A j : On(Front(free), j) <=> On(free, j) /\ j # i
      BY <2>0, Popped DEF ControlShape, VoicesExact
    <3>4. slot'[i].inuse = TRUE /\ slot'[i].gen = slot[i].gen + 1
      BY <3>2, <2>0, LetFields
    <3>5. VoicesExact'
      <4> HIDE DEF i
      <4> QED BY <3>1, <3>2, <3>3, <3>4 DEF VoicesExact
    <3>6. ctl'.pc = "push" /\ ctl'.h = H(i, slot[i].gen + 1)
      BY <3>1 DEF Idle
    <3> QED BY <3>4, <3>5, <3>6, <2>0 DEF CallHoldsSlots, Live, H
  <2>4. CASE ~CmdRoom(1)
    <3>1. slot' = [slot EXCEPT ![i] = Unlet(Let(i))] /\ free' = free
          /\ ctl' = [Idle EXCEPT !.pc = "cut", !.vic = vh, !.s = s]
      BY <1>1, <1>4, <2>4
    <3>2. slot'[v] = slot[v] /\ \A j \in Voice : slot'[j].inuse = slot[j].inuse
      <4>1. Unlet(Let(i)).inuse = FALSE
        BY <2>0, LetFields
      <4>2. slot[i].inuse = FALSE
        BY <2>0, <2>2 DEF ControlShape, Slot
      <4> QED BY <3>1, <4>1, <4>2, <2>0, <2>2, <1>2 DEF ControlShape
    <3>3. VoicesExact'
      BY <3>1, <3>2, SameVoices
    <3>4. ctl'.pc = "cut" /\ ctl'.vic = H(v, slot[v].gen)
      BY <3>1 DEF Idle
    <3> QED BY <3>2, <3>3, <3>4, <1>2 DEF CallHoldsSlots, Live, H
  <2> QED BY <2>3, <2>4
<1> QED BY <1>3, <1>4

\* salloc_sound: the sound slot on top of its free list is taken.
LEMMA AllocSoundExact ==
    ASSUME ControlShape, SoundsExact, Len(sfree) > 0, sfree' = Front(sfree), NEW r \in SoundSlot,
           r.inuse, snd' = [snd EXCEPT ![Last(sfree)] = r]
    PROVE  SoundsExact' /\ Last(sfree) \in Sound /\ ~snd[Last(sfree)].inuse
<1> DEFINE i == Last(sfree)
<1>1. /\ i \in Sound /\ Distinct(Front(sfree))
      /\ \A j : On(Front(sfree), j) <=> On(sfree, j) /\ j # i
  BY Popped DEF ControlShape, SoundsExact
<1>2. On(sfree, i)
  BY DEF On, Last, ControlShape
<1>3. snd'[i] = r /\ \A j \in Sound : j # i => snd'[j] = snd[j]
  BY <1>1 DEF ControlShape
<1> HIDE DEF i
<1>4. SoundsExact'
  BY <1>1, <1>3 DEF SoundsExact, i
<1> QED BY <1>1, <1>2, <1>4 DEF SoundsExact, i

\* Marking a sound as retiring leaves the free lists alone.
LEMMA RetiringInuse ==
    ASSUME ControlShape, NEW h \in Handle
    PROVE  \A s \in Sound : Retiring(snd, h)[s].inuse = snd[s].inuse
<1>1. \A r \in SoundSlot : [r EXCEPT !.retiring = TRUE].inuse = r.inuse
  BY DEF SoundSlot
<1> QED BY <1>1 DEF ControlShape, Retiring

LEMMA ReleaseExact ==
    ASSUME ControlShape, SoundsExact, NEW h \in Handle, NEW c, ReleasePush(h, c), sfree' = sfree
    PROVE  SoundsExact'
<1> DEFINE ps == slot[h.idx].push
<1>1. snd' = snd \/ (ps \in Handle /\ snd' = Retiring(snd, ps))
  BY SlotFields DEF ReleasePush, IsPush, Live
<1>2. \A s \in Sound : snd'[s].inuse = snd[s].inuse
  BY <1>1, RetiringInuse
<1> QED BY <1>2, SameSounds
\* What the step of every action must show beside Shape'.
SlotsKept == VoicesExact' /\ SoundsExact' /\ CallHoldsSlots'

LEMMA SlotsUse ==
    ASSUME SlotsInv
    PROVE  ControlShape /\ Shape /\ CallHoldsSlots /\ VoicesExact /\ SoundsExact
BY SlotsParts, ShapeParts

\* A step that changes no table of the control thread, and leaves it outside a create.
LEMMA TablesUnchanged ==
    ASSUME SlotsInv, UNCHANGED <<slot, free, snd, sfree>>, ctl' = ctl \/ ctl'.pc \notin {"cut", "push"}
    PROVE  SlotsKept
BY SlotsUse DEF SlotsKept, VoicesExact, SoundsExact, CallHoldsSlots, Live

LEMMA CreateSourceSlots == ASSUME SlotsInv, CreateSource PROVE SlotsKept
<1>1. VoicesExact' /\ CallHoldsSlots'
  BY SlotsUse, FromPoolExact, StealExact, Constants DEF CreateSource
<1>2. SoundsExact'
  BY SlotsUse DEF CreateSource, SoundsExact
<1> QED BY <1>1, <1>2 DEF SlotsKept

LEMMA CreateStreamSlots == ASSUME SlotsInv, CreateStream PROVE SlotsKept
<1>0. ControlShape /\ VoicesExact /\ SoundsExact
  BY SlotsUse
<1> DEFINE sh == H(Last(sfree), snd[Last(sfree)].gen + 1)
<1>1. Len(sfree) > 0
  BY <1>0 DEF CreateStream, ControlShape
<1>2. Last(sfree) \in Sound /\ sh \in Handle /\ sh.gen \in Nat /\ snd[Last(sfree)].gen + 1 \in Nat
  BY <1>0, <1>1, PopSfree, SoundFields, HandleFields
<1>3. CASE AllocSound(TRUE, TRUE) /\ (CreateFromPool(sh) \/ CreateBySteal(sh))
  <2>1. VoicesExact' /\ CallHoldsSlots'
    BY <1>0, <1>2, <1>3, FromPoolExact, StealExact
  <2> DEFINE r == [gen |-> snd[Last(sfree)].gen + 1, inuse |-> TRUE, retiring |-> FALSE,
                   stream |-> TRUE, internal |-> TRUE]
  <2>2. r \in SoundSlot /\ r.inuse
    BY <1>2 DEF SoundSlot
  <2>3. sfree' = Front(sfree) /\ snd' = [snd EXCEPT ![Last(sfree)] = r]
    BY <1>3 DEF AllocSound
  <2> HIDE DEF r
  <2>4. SoundsExact'
    BY <1>0, <1>1, <2>2, <2>3, AllocSoundExact
  <2> QED BY <2>1, <2>4 DEF SlotsKept
<1>4. CASE /\ snd' = [snd EXCEPT ![Last(sfree)] = [gen |-> sh.gen, inuse |-> TRUE, retiring |-> TRUE,
                                                    stream |-> TRUE, internal |-> TRUE]]
           /\ sfree' = Front(sfree)
           /\ cmd' = Append(cmd, MkCmd("RETIRE", None, sh, FALSE))
           /\ UNCHANGED <<slot, free, ctl>>
  <2> DEFINE r == [gen |-> sh.gen, inuse |-> TRUE, retiring |-> TRUE, stream |-> TRUE, internal |-> TRUE]
  <2>1. r \in SoundSlot /\ r.inuse
    BY <1>2 DEF SoundSlot
  <2>2. sfree' = Front(sfree) /\ snd' = [snd EXCEPT ![Last(sfree)] = r]
    BY <1>4
  <2> HIDE DEF r
  <2>3. SoundsExact'
    BY <1>0, <1>1, <2>1, <2>2, AllocSoundExact
  <2>4. VoicesExact' /\ CallHoldsSlots'
    BY <1>0, <1>4 DEF VoicesExact, CallHoldsSlots, CreateStream, Call
  <2> QED BY <2>3, <2>4 DEF SlotsKept
<1> QED BY <1>3, <1>4 DEF CreateStream

LEMMA CreateCutSlots == ASSUME SlotsInv, CreateCut PROVE SlotsKept
<1>0. ControlShape /\ VoicesExact /\ SoundsExact /\ CallHoldsSlots
  BY SlotsUse
<1> DEFINE v == ctl.vic.idx
           i == Last(free)
<1>1. ctl.pc = "cut" /\ v \in Voice /\ ctl.vic \in Handle /\ ctl \in Ctl /\ slot[v].inuse
  BY <1>0 DEF CreateCut, ControlShape, Ctl, CallHoldsSlots, Live
<1>a. \A h \in Handle : [ctl EXCEPT !.pc = "push", !.h = h].pc = "push"
                        /\ [ctl EXCEPT !.pc = "push", !.h = h].h = h
  BY <1>1 DEF Ctl
<1>b. sfree' = sfree
  BY DEF CreateCut
<1>2. CASE /\ CmdRoom(1)
           /\ ReleasePush(ctl.vic, DestroyCmd(ctl.vic))
           /\ slot' = [slot EXCEPT ![v] = Let(v)]
           /\ ctl' = [ctl EXCEPT !.pc = "push", !.h = H(v, slot[v].gen + 1)]
           /\ UNCHANGED free
  <2>1. SoundsExact'
    BY <1>0, <1>1, <1>2, <1>b, ReleaseExact
  <2>2. slot'[v] = Let(v) /\ \A j \in Voice : j # v => slot'[j] = slot[j]
    BY <1>0, <1>1, <1>2 DEF ControlShape
  <2>3. Let(v).inuse = TRUE /\ Let(v).gen = slot[v].gen + 1
    BY <1>0, <1>1, LetFields
  <2>4. slot[v].inuse = TRUE
    BY <1>0, <1>1 DEF ControlShape, Slot
  <2>5. VoicesExact'
    BY <1>0, <1>2, <2>2, <2>3, <2>4, SameVoices
  <2>6. ctl'.pc = "push" /\ ctl'.h = H(v, slot[v].gen + 1)
    BY <1>0, <1>1, <1>a, <1>2, SlotFields
  <2>7. CallHoldsSlots'
    BY <1>1, <2>2, <2>3, <2>6 DEF CallHoldsSlots, Live, H
  <2> QED BY <2>1, <2>5, <2>7 DEF SlotsKept
<1>3. CASE /\ ~CmdRoom(1) /\ free # <<>>
           /\ slot' = [slot EXCEPT ![i] = Let(i)]
           /\ free' = Front(free)
           /\ ctl' = [ctl EXCEPT !.pc = "push", !.h = H(i, slot[i].gen + 1)]
           /\ UNCHANGED <<snd, park, cmd>>
  <2>1. Len(free) > 0
    BY <1>0, <1>3 DEF ControlShape
  <2>2. VoicesExact' /\ i \in Voice /\ slot'[i].inuse /\ slot'[i].gen = slot[i].gen + 1
    BY <1>0, <1>3, <2>1, LetFromTop
  <2>3. ctl'.pc = "push" /\ ctl'.h = H(i, slot[i].gen + 1)
    BY <1>0, <1>a, <1>3, <2>2, SlotFields
  <2>4. CallHoldsSlots'
    BY <2>2, <2>3 DEF CallHoldsSlots, Live, H
  <2>5. SoundsExact'
    BY <1>0, <1>3, <1>b DEF SoundsExact
  <2> QED BY <2>2, <2>4, <2>5 DEF SlotsKept
<1>4. CASE /\ ~CmdRoom(1) /\ free = <<>>
           /\ ctl' = Idle
           /\ UNCHANGED <<slot, free, snd, park, cmd>>
  BY <1>4, <1>b, TablesUnchanged DEF Idle
<1> QED BY <1>2, <1>3, <1>4 DEF CreateCut

LEMMA CreatePushSlots == ASSUME SlotsInv, CreatePush PROVE SlotsKept
<1>0. ControlShape /\ VoicesExact /\ SoundsExact /\ CallHoldsSlots
  BY SlotsUse
<1> DEFINE i == ctl.h.idx
<1>1. i \in Voice /\ slot[i].inuse /\ slot \in [Voice -> Slot]
  BY <1>0 DEF CreatePush, CallHoldsSlots, Live, ControlShape
<1>2. SoundsExact' /\ CallHoldsSlots'
  BY <1>0 DEF CreatePush, SoundsExact, CallHoldsSlots, Idle
<1>3. CASE slot' = [slot EXCEPT ![i].push = ctl.s] /\ free' = free
  <2>1. \A r \in Slot : [r EXCEPT !.push = ctl.s].inuse = r.inuse
    BY DEF Slot
  <2>2. \A j \in Voice : slot'[j].inuse = slot[j].inuse
    BY <1>1, <1>3, <2>1
  <2> QED BY <1>0, <1>2, <1>3, <2>2, SameVoices DEF SlotsKept
<1>4. CASE slot' = [slot EXCEPT ![i] = Unlet(slot[i])] /\ free' = Append(free, i)
  <2>1. ~Unlet(slot[i]).inuse
    BY <1>0, <1>1, LetFields
  <2>2. ~slot'[i].inuse /\ \A j \in Voice : j # i => slot'[j].inuse = slot[j].inuse
    BY <1>1, <1>4, <2>1
  <2> HIDE DEF i
  <2>3. VoicesExact'
    BY <1>0, <1>1, <1>4, <2>2, RecycledExact
  <2> QED BY <1>2, <2>3 DEF SlotsKept
<1> QED BY <1>3, <1>4 DEF CreatePush

LEMMA PlayOneshotSlots == ASSUME SlotsInv, NEW s \in AppSounds, PlayOneshot(s) PROVE SlotsKept
<1>0. ControlShape /\ VoicesExact /\ SoundsExact
  BY SlotsUse
<1>1. Len(free) > 0
  BY <1>0, Constants DEF PlayOneshot, ControlShape
<1>2. VoicesExact'
  BY <1>0, <1>1, LetFromTop DEF PlayOneshot
<1>3. SoundsExact' /\ CallHoldsSlots'
  BY <1>0 DEF PlayOneshot, Call, SoundsExact, CallHoldsSlots
<1> QED BY <1>2, <1>3 DEF SlotsKept

LEMMA DestroySourceSlots == ASSUME SlotsInv, NEW h \in app, DestroySource(h) PROVE SlotsKept
<1>0. ControlShape /\ VoicesExact /\ SoundsExact
  BY SlotsUse
<1>1. h \in Handle
  BY <1>0 DEF ControlShape
<1>2. SoundsExact'
  BY <1>0, <1>1, ReleaseExact DEF DestroySource
<1>3. CallHoldsSlots'
  BY DEF DestroySource, Call, CallHoldsSlots
<1>4. VoicesExact'
  <2>1. CASE Live(h)
    <3>1. /\ slot' = [slot EXCEPT ![h.idx].inuse = FALSE, ![h.idx].push = None]
          /\ free' = Append(free, h.idx) /\ h.idx \in Voice /\ slot[h.idx].inuse
      BY <2>1 DEF DestroySource, Live
    <3>2. \A r \in Slot : ~[r EXCEPT !.inuse = FALSE, !.push = None].inuse
      BY DEF Slot
    <3>3. ~slot'[h.idx].inuse /\ \A j \in Voice : j # h.idx => slot'[j].inuse = slot[j].inuse
      BY <1>0, <3>1, <3>2 DEF ControlShape, Slot
    <3> QED BY <1>0, <3>1, <3>3, RecycledExact
  <2>2. CASE ~Live(h)
    BY <2>2, <1>0 DEF DestroySource, VoicesExact
  <2> QED BY <2>1, <2>2
<1> QED BY <1>2, <1>3, <1>4 DEF SlotsKept

LEMMA SetPrioritySlots ==
    ASSUME SlotsInv, NEW h \in app, NEW p \in Priorities, SetPriority(h, p)
    PROVE  SlotsKept
<1>0. ControlShape /\ VoicesExact /\ SoundsExact
  BY SlotsUse
<1>1. \A r \in Slot : [r EXCEPT !.prio = p].inuse = r.inuse
  BY DEF Slot
<1>2. free' = free /\ \A j \in Voice : slot'[j].inuse = slot[j].inuse
  BY <1>0, <1>1 DEF SetPriority, ControlShape
<1>3. SoundsExact' /\ CallHoldsSlots'
  BY <1>0 DEF SetPriority, Call, SoundsExact, CallHoldsSlots
<1> QED BY <1>0, <1>2, <1>3, SameVoices DEF SlotsKept

LEMMA LoadSoundSlots == ASSUME SlotsInv, NEW stream \in BOOLEAN, LoadSound(stream) PROVE SlotsKept
<1>0. ControlShape /\ VoicesExact /\ SoundsExact
  BY SlotsUse
<1>1. Len(sfree) > 0
  BY <1>0 DEF LoadSound, AllocSound, ControlShape
<1> DEFINE r == [gen |-> snd[Last(sfree)].gen + 1, inuse |-> TRUE, retiring |-> FALSE,
                 stream |-> stream, internal |-> FALSE]
<1>2. r \in SoundSlot /\ r.inuse
  BY <1>0, <1>1, PopSfree, SoundFields DEF SoundSlot
<1>3. sfree' = Front(sfree) /\ snd' = [snd EXCEPT ![Last(sfree)] = r]
  BY DEF LoadSound, AllocSound
<1> HIDE DEF r
<1>4. SoundsExact'
  BY <1>0, <1>1, <1>2, <1>3, AllocSoundExact
<1>5. VoicesExact' /\ CallHoldsSlots'
  BY <1>0 DEF LoadSound, Call, VoicesExact, CallHoldsSlots
<1> QED BY <1>4, <1>5 DEF SlotsKept

LEMMA UnloadSlots == ASSUME SlotsInv, NEW s \in AppSounds, Unload(s) PROVE SlotsKept
<1>0. ControlShape /\ VoicesExact /\ SoundsExact
  BY SlotsUse
<1>1. s \in Handle
  BY <1>0, SoundFields DEF AppSounds
<1>2. SoundsExact'
  BY <1>0, <1>1, RetiringInuse, SameSounds DEF Unload
<1>3. VoicesExact' /\ CallHoldsSlots'
  BY <1>0 DEF Unload, Call, VoicesExact, CallHoldsSlots
<1> QED BY <1>2, <1>3 DEF SlotsKept

LEMMA RetryParkedSlots == ASSUME SlotsInv, NEW s \in ctl.try, RetryParked(s) PROVE SlotsKept
<1>0. ControlShape /\ VoicesExact /\ SoundsExact
  BY SlotsUse
<1>1. s \in Handle /\ ctl \in Ctl
  BY <1>0 DEF ControlShape, Ctl
<1>2. SoundsExact'
  <2>1. snd' = snd \/ snd' = Retiring(snd, s)
    BY DEF RetryParked
  <2> QED BY <1>0, <1>1, <2>1, RetiringInuse, SameSounds DEF RetryParked
<1>3. VoicesExact' /\ CallHoldsSlots'
  BY <1>0, <1>1 DEF RetryParked, VoicesExact, CallHoldsSlots, Ctl
<1> QED BY <1>2, <1>3 DEF SlotsKept

LEMMA DrainEndedSlots == ASSUME SlotsInv, DrainEnded PROVE SlotsKept
<1>0. ControlShape /\ VoicesExact /\ SoundsExact /\ Shape
  BY SlotsUse
<1> DEFINE h == Head(evt).h
<1>1. h \in Handle /\ ctl'.pc = "drain"
  BY <1>0, TakeEvtShape DEF DrainEnded, EvtTypes
<1>2. SoundsExact'
  BY <1>0, <1>1, ReleaseExact DEF DrainEnded
<1>3. CallHoldsSlots'
  BY <1>1 DEF CallHoldsSlots
<1>4. VoicesExact'
  <2>1. CASE Live(h)
    <3>1. /\ slot' = [slot EXCEPT ![h.idx].inuse = FALSE, ![h.idx].stealing = FALSE,
                                  ![h.idx].push = None]
          /\ free' = Append(free, h.idx) /\ h.idx \in Voice /\ slot[h.idx].inuse
      BY <2>1 DEF DrainEnded, Live
    <3> HIDE DEF h
    <3>2. \A r \in Slot : ~[r EXCEPT !.inuse = FALSE, !.stealing = FALSE, !.push = None].inuse
      BY DEF Slot
    <3>3. ~slot'[h.idx].inuse /\ \A j \in Voice : j # h.idx => slot'[j].inuse = slot[j].inuse
      BY <1>0, <3>1, <3>2 DEF ControlShape, Slot
    <3> QED BY <1>0, <3>1, <3>3, RecycledExact
  <2>2. CASE ~Live(h)
    <3>1. slot' = [slot EXCEPT ![h.idx].stealing = FALSE] /\ free' = free
      BY <2>2 DEF DrainEnded
    <3> HIDE DEF h
    <3>2. \A r \in Slot : [r EXCEPT !.stealing = FALSE].inuse = r.inuse
      BY DEF Slot
    <3>3. \A j \in Voice : slot'[j].inuse = slot[j].inuse
      BY <1>0, <3>1, <3>2 DEF ControlShape
    <3> QED BY <1>0, <3>1, <3>3, SameVoices
  <2> QED BY <2>1, <2>2
<1> QED BY <1>2, <1>3, <1>4 DEF SlotsKept

LEMMA DrainRetiredSlots == ASSUME SlotsInv, DrainRetired PROVE SlotsKept
<1>0. ControlShape /\ VoicesExact /\ SoundsExact /\ Shape
  BY SlotsUse
<1> DEFINE h == Head(evt).h
           i == Head(evt).h.idx
<1>1. ctl'.pc = "drain"
  BY <1>0, TakeEvtShape DEF DrainRetired, EvtTypes
<1>2. VoicesExact' /\ CallHoldsSlots'
  BY <1>0, <1>1 DEF DrainRetired, VoicesExact, CallHoldsSlots
<1>3. SoundsExact'
  <2>1. CASE SndLive(h)
    <3>1. /\ snd' = [snd EXCEPT ![i].inuse = FALSE, ![i].retiring = FALSE]
          /\ sfree' = Append(sfree, i) /\ i \in Sound /\ snd[i].inuse
      BY <2>1 DEF DrainRetired, SndLive
    <3> HIDE DEF i
    <3>2. \A r \in SoundSlot : ~[r EXCEPT !.inuse = FALSE, !.retiring = FALSE].inuse
      BY DEF SoundSlot
    <3>3. ~snd'[i].inuse /\ \A j \in Sound : j # i => snd'[j].inuse = snd[j].inuse
      BY <1>0, <3>1, <3>2 DEF ControlShape, SoundSlot
    <3>4. sfree \in Seq(Sound) /\ Distinct(sfree) /\ ~On(sfree, i)
      BY <1>0, <3>1 DEF ControlShape, SoundsExact
    <3>5. Distinct(sfree') /\ \A j : On(sfree', j) <=> On(sfree, j) \/ j = i
      BY <3>1, <3>4, Pushed
    <3> QED BY <1>0, <3>3, <3>5 DEF SoundsExact
  <2>2. CASE ~SndLive(h)
    BY <2>2, <1>0 DEF DrainRetired, SoundsExact
  <2> QED BY <2>1, <2>2
<1> QED BY <1>2, <1>3 DEF SlotsKept

LEMMA OtherControlSlots ==
    ASSUME SlotsInv,
           \/ \E h \in app, s \in AppSounds : Play(h, s) \/ Queue(h, s)
           \/ StopAll \/ \E h \in app : Stop(h)
           \/ Commit \/ BeginDrainEvents \/ DrainNotice \/ EndDrainEvents
    PROVE  SlotsKept
<1>1. UNCHANGED <<slot, free, snd, sfree>>
  BY DEF Play, Queue, StopAll, Stop, Commit, BeginDrainEvents, DrainNotice, EndDrainEvents, ctlVars
<1>2. ctl' = ctl \/ ctl'.pc \notin {"cut", "push"}
  <2>1. CASE \/ \E h \in app, s \in AppSounds : Play(h, s) \/ Queue(h, s)
             \/ StopAll \/ \E h \in app : Stop(h)
    BY <2>1 DEF Play, Queue, StopAll, Stop, ctlVars
  <2>2. CASE Commit
    <3>1. [Idle EXCEPT !.pc = "retry", !.try = park].pc = "retry"
      BY DEF Idle
    <3> QED BY <2>2, <3>1 DEF Commit
  <2>3. CASE BeginDrainEvents
    BY <2>3, SlotsUse DEF BeginDrainEvents, ControlShape, Ctl
  <2>4. CASE DrainNotice
    BY <2>4, SlotsUse, TakeEvtShape DEF DrainNotice, EvtTypes
  <2>5. CASE EndDrainEvents
    <3>1. Idle.pc = "idle"
      BY DEF Idle
    <3> QED BY <2>5, <3>1 DEF EndDrainEvents
  <2> QED BY <2>1, <2>2, <2>3, <2>4, <2>5
<1> QED BY <1>1, <1>2, TablesUnchanged

LEMMA AudioSlots == ASSUME SlotsInv, AudioNext PROVE SlotsKept
<1>1. UNCHANGED ctlVars
  BY DEF AudioNext, BeginBlock, EndDrainCommands, EndBlock, DrainCreate, DrainDestroy, DrainPlay,
     DrainStop, DrainStopAll, DrainQueue, DrainSteal, DrainRetire, DrainParam, TakeCmd,
     MixFinalize, MixOn, MixChain, MixEnd, Mixed
<1> QED BY <1>1, TablesUnchanged DEF ctlVars

LEMMA InitSlots == Init => VoicesExact /\ SoundsExact /\ CallHoldsSlots
<1> SUFFICES ASSUME Init PROVE VoicesExact /\ SoundsExact /\ CallHoldsSlots
  OBVIOUS
<1>1. VoicesExact
  <2>1. /\ Len(free) = VoiceCap /\ \A k \in 1 .. VoiceCap : free[k] = VoiceCap + 1 - k
        /\ \A i \in Voice : ~slot[i].inuse
    BY Constants DEF Init, Voice
  <2>2. Distinct(free)
    BY <2>1, Constants DEF Distinct
  <2>3. \A i \in Voice : On(free, i)
    <3> TAKE i \in Voice
    <3>1. VoiceCap + 1 - i \in 1 .. VoiceCap /\ VoiceCap + 1 - (VoiceCap + 1 - i) = i
      BY Constants DEF Voice
    <3> QED BY <2>1, <3>1 DEF On
  <2> QED BY <2>1, <2>2, <2>3 DEF VoicesExact
<1>2. SoundsExact
  <2>1. /\ Len(sfree) = SoundCap /\ \A k \in 1 .. SoundCap : sfree[k] = SoundCap + 1 - k
        /\ \A s \in Sound : ~snd[s].inuse
    BY Constants DEF Init, Sound
  <2>2. Distinct(sfree)
    BY <2>1, Constants DEF Distinct
  <2>3. \A s \in Sound : On(sfree, s)
    <3> TAKE s \in Sound
    <3>1. SoundCap + 1 - s \in 1 .. SoundCap /\ SoundCap + 1 - (SoundCap + 1 - s) = s
      BY Constants DEF Sound
    <3> QED BY <2>1, <3>1 DEF On
  <2> QED BY <2>1, <2>2, <2>3 DEF SoundsExact
<1>3. CallHoldsSlots
  BY DEF Init, CallHoldsSlots, Idle
<1> QED BY <1>1, <1>2, <1>3

\* The free lists' invariant is inductive.
THEOREM SlotsInvariant == Spec => []SlotsInv
<1>1. Init => SlotsInv
  BY InitShape, InitSlots, SlotsParts
<1>2. SlotsInv /\ [Next]_vars => SlotsInv'
  <2>1. ASSUME SlotsInv, Next PROVE SlotsInv'
    <3>1. Shape'
      BY <2>1, SlotsUse, ControlShapeStep, AudioShapeStep DEF Next
    <3>2. SlotsKept
      BY <2>1, CreateSourceSlots, CreateStreamSlots, CreateCutSlots, CreatePushSlots, PlayOneshotSlots,
         DestroySourceSlots, SetPrioritySlots, LoadSoundSlots, UnloadSlots, RetryParkedSlots,
         DrainEndedSlots, DrainRetiredSlots, OtherControlSlots, AudioSlots DEF Next, ControlNext
    <3> QED BY <3>1, <3>2, SlotsPartsPrime DEF SlotsKept
  <2>2. ASSUME SlotsInv, UNCHANGED vars PROVE SlotsInv'
    BY <2>2 DEF SlotsInv, TypeOK, ThreadsOK, CallHoldsSlots, Live, FreelistExact, VoicesExact,
       SoundsExact, vars
  <2> QED BY <2>1, <2>2
<1> QED BY <1>1, <1>2, PTL DEF Spec

\* Exactly the slots that are not let are on the free lists, each once, in every reachable state of
\* every instance: no voice and no sound is handed out twice or leaked by the allocators.
THEOREM FreelistCorrect == Spec => []FreelistExact
<1>1. SlotsInv => FreelistExact
  BY DEF SlotsInv
<1> QED BY <1>1, SlotsInvariant, PTL

-----------------------------------------------------------------------------
(* The retire handshake. *)

\* A sound whose retire is under way.
Waiting(h) == SndLive(h) /\ snd[h.idx].retiring

\* Voice i points at h, or will when its chain gets there.
Refers(i, h) == voice[i].snd = h \/ \E k \in 1 .. Len(voice[i].queue) : voice[i].queue[k] = h

Handshake ==
    /\ RetireFindsItsSound /\ AckFindsItsSound /\ RetireOnce
    /\ NoBindAfterRetire /\ AckedUnreferenced /\ NoDanglingSound

\* What a step of the control thread does to the commands: it only adds some; ...
CmdGrown == Len(cmd) <= Len(cmd') /\ \A k \in 1 .. Len(cmd) : cmd'[k] = cmd[k]
\* ... none it adds binds a sound that is being retired, and a retire it adds is the last of
\* them, for a sound that this step begins to retire.
NewCmd(k, h) ==
    /\ cmd'[k].t \in Binds => ~Waiting(h)
    /\ cmd'[k].t = "RETIRE" => k = Len(cmd') /\ ~Waiting(h) /\ Waiting(h)'
NewCmds == \A k \in Len(cmd) + 1 .. Len(cmd'), h \in Handle : cmd'[k].s = h => NewCmd(k, h)
\* What it does to the events: d of them are handled.
EvtShift(d) == Len(evt') = Len(evt) - d /\ \A k \in 1 .. Len(evt') : evt'[k] = evt[k + d]
\* What it does to the sounds: every one stays as it is, or starts to be retired.
StillThere(h) == (SndLive(h) => SndLive(h)') /\ (Waiting(h) => Waiting(h)')

-----------------------------------------------------------------------------
(* Types of what the rings and the voices hold. *)

LEMMA RingTypes ==
    ASSUME Shape
    PROVE  /\ Len(cmd) \in Nat /\ Len(evt) \in Nat
           /\ \A k \in 1 .. Len(cmd) : cmd[k] \in Cmd /\ cmd[k].s \in Handle /\ cmd[k].v \in Handle
           /\ \A k \in 1 .. Len(evt) : evt[k] \in Evt /\ evt[k].h \in Handle
<1>1. cmd \in Seq(Cmd) /\ evt \in Seq(Evt)
  BY DEF Shape, TypeOK
<1>2. \A c \in Cmd : c.s \in Handle /\ c.v \in Handle
  BY DEF Cmd
<1>3. \A e \in Evt : e.h \in Handle
  BY DEF Evt
<1> QED BY <1>1, <1>2, <1>3

LEMMA RingTypesPrime ==
    ASSUME Shape'
    PROVE  /\ Len(cmd') \in Nat /\ Len(evt') \in Nat
           /\ \A k \in 1 .. Len(cmd') : cmd'[k] \in Cmd /\ cmd'[k].s \in Handle /\ cmd'[k].v \in Handle
           /\ \A k \in 1 .. Len(evt') : evt'[k] \in Evt /\ evt'[k].h \in Handle
<1>1. cmd' \in Seq(Cmd) /\ evt' \in Seq(Evt)
  BY DEF Shape, TypeOK
<1>2. \A c \in Cmd : c.s \in Handle /\ c.v \in Handle
  BY DEF Cmd
<1>3. \A e \in Evt : e.h \in Handle
  BY DEF Evt
<1> QED BY <1>1, <1>2, <1>3

LEMMA VoiceTypes ==
    ASSUME Shape, NEW i \in Voice
    PROVE  /\ voice[i] \in VoiceRec /\ voice[i].snd \in Handle
           /\ voice[i].queue \in Seq(Handle) /\ Len(voice[i].queue) \in Nat
           /\ \A k \in 1 .. Len(voice[i].queue) : voice[i].queue[k] \in Handle
           /\ \A h : Refers(i, h) => h \in Handle
<1>1. voice[i] \in VoiceRec
  BY DEF Shape, TypeOK
<1>2. voice[i].snd \in Handle /\ voice[i].queue \in Seq(Handle)
  BY <1>1 DEF VoiceRec
<1>3. /\ Len(voice[i].queue) \in Nat
      /\ \A k \in 1 .. Len(voice[i].queue) : voice[i].queue[k] \in Handle
  BY <1>2
<1> QED BY <1>1, <1>2, <1>3 DEF Refers

LEMMA NoneNotLive == ~SndLive(None)
BY Constants DEF SndLive, Sound, None

\* The two properties of the voices, in terms of Refers.
LEMMA DanglingIsRefers ==
    NoDanglingSound <=> \A i \in Voice : \A h : Refers(i, h) /\ h # None => SndLive(h)
BY DEF NoDanglingSound, Refers

LEMMA DanglingIsRefersPrime ==
    NoDanglingSound' <=> \A i \in Voice : \A h : Refers(i, h)' /\ h # None => SndLive(h)'
BY DEF NoDanglingSound, Refers, SndLive

LEMMA AckedIsRefers ==
    AckedUnreferenced <=>
        \A n \in 1 .. Len(evt) : evt[n].t = "RETIRED" =>
            /\ \A k \in 1 .. Len(cmd) : cmd[k].t \in Binds => cmd[k].s # evt[n].h
            /\ \A i \in Voice : ~Refers(i, evt[n].h)
BY DEF AckedUnreferenced, Refers

LEMMA AckedIsRefersPrime ==
    AckedUnreferenced' <=>
        \A n \in 1 .. Len(evt') : evt'[n].t = "RETIRED" =>
            /\ \A k \in 1 .. Len(cmd') : cmd'[k].t \in Binds => cmd'[k].s # evt'[n].h
            /\ \A i \in Voice : \A h : Refers(i, h)' => h # evt'[n].h
BY DEF AckedUnreferenced, Refers

LEMMA FindsIsWaiting ==
    /\ RetireFindsItsSound <=> \A k \in 1 .. Len(cmd) : cmd[k].t = "RETIRE" => Waiting(cmd[k].s)
    /\ AckFindsItsSound <=> \A k \in 1 .. Len(evt) : evt[k].t = "RETIRED" => Waiting(evt[k].h)
BY DEF RetireFindsItsSound, AckFindsItsSound, Waiting

LEMMA FindsIsWaitingPrime ==
    /\ RetireFindsItsSound' <=>
        \A k \in 1 .. Len(cmd') : cmd'[k].t = "RETIRE" => \A h : h = cmd'[k].s => Waiting(h)'
    /\ AckFindsItsSound' <=>
        \A k \in 1 .. Len(evt') : evt'[k].t = "RETIRED" => \A h : h = evt'[k].h => Waiting(h)'
BY DEF RetireFindsItsSound, AckFindsItsSound, Waiting, SndLive

-----------------------------------------------------------------------------
(* The two kinds of step keep the handshake. *)

\* A step of the control thread that adds admissible commands, handles at most one event, and
\* frees no sound but the one whose acknowledgement it handles.
LEMMA ControlKeeps ==
    ASSUME Shape, Shape', Handshake, voice' = voice, CmdGrown, NewCmds, NEW d \in 0 .. 1, EvtShift(d),
           \A h \in Handle : StillThere(h) \/ (d = 1 /\ evt[1].t = "RETIRED" /\ evt[1].h = h)
    PROVE  Handshake'
<1> DEFINE N == Len(cmd)
           N1 == Len(cmd')
           E == Len(evt)
           E1 == Len(evt')
           Gone(h) == d = 1 /\ evt[1].t = "RETIRED" /\ evt[1].h = h
<1>1. N \in Nat /\ N1 \in Nat /\ N <= N1 /\ E \in Nat /\ E1 \in Nat /\ E1 = E - d
  BY RingTypes, RingTypesPrime DEF CmdGrown, EvtShift
<1>2. /\ \A k \in 1 .. N : cmd'[k] = cmd[k]
      /\ \A k \in 1 .. N1 : cmd'[k].s \in Handle
  BY RingTypes, RingTypesPrime DEF CmdGrown
<1>3. /\ \A k \in 1 .. E1 : evt'[k] = evt[k + d] /\ k + d \in 1 .. E
      /\ \A k \in 1 .. E : evt[k].h \in Handle
  BY <1>1, RingTypes DEF EvtShift
<1>4. \A k \in 1 .. N1, h \in Handle : k \notin 1 .. N /\ cmd'[k].s = h =>
        /\ cmd'[k].t \in Binds => ~Waiting(h)
        /\ cmd'[k].t = "RETIRE" => k = N1 /\ ~Waiting(h) /\ Waiting(h)'
  <2>1. \A k \in 1 .. N1 : k \notin 1 .. N => k \in N + 1 .. N1
    BY <1>1
  <2> QED BY <2>1 DEF NewCmds, NewCmd
<1>5. \A h \in Handle : (Waiting(h) /\ ~Gone(h) => Waiting(h)') /\ (SndLive(h) /\ ~Gone(h) => SndLive(h)')
  BY DEF StillThere
<1>6. /\ \A k \in 1 .. N : cmd[k].t = "RETIRE" => Waiting(cmd[k].s)
      /\ \A k \in 1 .. E : evt[k].t = "RETIRED" => Waiting(evt[k].h)
      /\ \A n \in 1 .. E : evt[n].t = "RETIRED" =>
            /\ \A k \in 1 .. N : cmd[k].t \in Binds => cmd[k].s # evt[n].h
            /\ \A i \in Voice : ~Refers(i, evt[n].h)
      /\ \A i \in Voice : \A h : Refers(i, h) /\ h # None => SndLive(h)
  BY FindsIsWaiting, AckedIsRefers, DanglingIsRefers DEF Handshake
<1>7. /\ \A j, k \in 1 .. N : cmd[j].t = "RETIRE" /\ cmd[k].t = "RETIRE" /\ cmd[j].s = cmd[k].s => j = k
      /\ \A j, k \in 1 .. E : evt[j].t = "RETIRED" /\ evt[k].t = "RETIRED" /\ evt[j].h = evt[k].h => j = k
      /\ \A j \in 1 .. N, k \in 1 .. E : cmd[j].t = "RETIRE" /\ evt[k].t = "RETIRED" => cmd[j].s # evt[k].h
      /\ \A j, k \in 1 .. N : j < k /\ cmd[j].t = "RETIRE" /\ cmd[k].t \in Binds => cmd[j].s # cmd[k].s
  BY DEF Handshake, RetireOnce, NoBindAfterRetire
<1>8. \A h : Gone(h) => 1 \in 1 .. E /\ h = evt[1].h /\ evt[1].t = "RETIRED" /\ d = 1
  BY <1>1
<1> HIDE DEF N, N1, E, E1, Gone
<1>9. RetireFindsItsSound'
  <2>1. ASSUME NEW k \in 1 .. N1, cmd'[k].t = "RETIRE", NEW h, h = cmd'[k].s PROVE Waiting(h)'
    <3>1. h \in Handle
      BY <2>1, <1>2
    <3>2. CASE k \in 1 .. N
      <4>1. cmd[k].t = "RETIRE" /\ cmd[k].s = h
        BY <2>1, <3>2, <1>2
      <4>2. ~Gone(h)
        BY <4>1, <3>2, <1>7, <1>8
      <4> QED BY <4>1, <4>2, <3>1, <3>2, <1>5, <1>6
    <3>3. CASE k \notin 1 .. N
      BY <2>1, <3>1, <3>3, <1>4
    <3> QED BY <3>2, <3>3
  <2> QED BY <2>1, FindsIsWaitingPrime DEF N1
<1>10. AckFindsItsSound'
  <2>1. ASSUME NEW k \in 1 .. E1, evt'[k].t = "RETIRED", NEW h, h = evt'[k].h PROVE Waiting(h)'
    <3>1. k + d \in 1 .. E /\ evt[k + d].t = "RETIRED" /\ evt[k + d].h = h /\ h \in Handle
      BY <2>1, <1>3
    <3>2. ~Gone(h)
      <4>1. ASSUME Gone(h) PROVE FALSE
        <5>1. 1 = k + d /\ d = 1
          BY <4>1, <3>1, <1>7, <1>8
        <5> QED BY <5>1, <1>1
      <4> QED BY <4>1
    <3> QED BY <3>1, <3>2, <1>5, <1>6
  <2> QED BY <2>1, FindsIsWaitingPrime DEF E1
<1>11. RetireOnce'
  <2>1. ASSUME NEW j \in 1 .. N1, NEW k \in 1 .. N1, cmd'[j].t = "RETIRE", cmd'[k].t = "RETIRE",
               cmd'[j].s = cmd'[k].s
        PROVE  j = k
    <3>1. cmd'[j].s \in Handle
      BY <1>2
    <3>2. CASE j \in 1 .. N /\ k \in 1 .. N
      BY <2>1, <3>2, <1>2, <1>7
    <3>3. CASE j \notin 1 .. N /\ k \notin 1 .. N
      <4>1. j = N1 /\ k = N1
        BY <2>1, <3>1, <3>3, <1>4
      <4> QED BY <4>1
    <3>4. CASE j \in 1 .. N /\ k \notin 1 .. N
      BY <2>1, <3>1, <3>4, <1>2, <1>4, <1>6
    <3>5. CASE j \notin 1 .. N /\ k \in 1 .. N
      BY <2>1, <3>1, <3>5, <1>2, <1>4, <1>6
    <3> QED BY <3>2, <3>3, <3>4, <3>5
  <2>2. ASSUME NEW j \in 1 .. E1, NEW k \in 1 .. E1, evt'[j].t = "RETIRED", evt'[k].t = "RETIRED",
               evt'[j].h = evt'[k].h
        PROVE  j = k
    <3>1. j + d = k + d
      BY <2>2, <1>3, <1>7
    <3> QED BY <3>1, <1>1
  <2>3. ASSUME NEW j \in 1 .. N1, NEW k \in 1 .. E1, cmd'[j].t = "RETIRE", evt'[k].t = "RETIRED"
        PROVE  cmd'[j].s # evt'[k].h
    <3>1. k + d \in 1 .. E /\ evt'[k] = evt[k + d] /\ evt[k + d].t = "RETIRED"
      BY <2>3, <1>3
    <3>2. CASE j \in 1 .. N
      BY <2>3, <3>1, <3>2, <1>2, <1>7
    <3>3. CASE j \notin 1 .. N
      BY <2>3, <3>1, <3>3, <1>2, <1>4, <1>6
    <3> QED BY <3>2, <3>3
  <2> QED BY <2>1, <2>2, <2>3 DEF RetireOnce, N1, E1
<1>12. NoBindAfterRetire'
  <2>1. ASSUME NEW j \in 1 .. N1, NEW k \in 1 .. N1, j < k, cmd'[j].t = "RETIRE", cmd'[k].t \in Binds
        PROVE  cmd'[j].s # cmd'[k].s
    <3>1. cmd'[j].s \in Handle /\ cmd'[k].s \in Handle
      BY <1>2
    <3>2. j \in 1 .. N
      <4>1. ASSUME j \notin 1 .. N PROVE j = N1
        BY <2>1, <3>1, <4>1, <1>4
      <4> QED BY <2>1, <4>1, <1>1
    <3>3. CASE k \in 1 .. N
      BY <2>1, <3>2, <3>3, <1>2, <1>7
    <3>4. CASE k \notin 1 .. N
      BY <2>1, <3>1, <3>2, <3>4, <1>2, <1>4, <1>6
    <3> QED BY <3>3, <3>4
  <2> QED BY <2>1 DEF NoBindAfterRetire, N1
<1>13. AckedUnreferenced'
  <2>1. ASSUME NEW n \in 1 .. E1, evt'[n].t = "RETIRED"
        PROVE  /\ \A k \in 1 .. N1 : cmd'[k].t \in Binds => cmd'[k].s # evt'[n].h
               /\ \A i \in Voice : \A h : Refers(i, h)' => h # evt'[n].h
    <3>1. n + d \in 1 .. E /\ evt'[n] = evt[n + d] /\ evt[n + d].t = "RETIRED"
      BY <2>1, <1>3
    <3>2. \A i \in Voice : \A h : Refers(i, h)' <=> Refers(i, h)
      BY DEF Refers
    <3>3. ASSUME NEW k \in 1 .. N1, cmd'[k].t \in Binds PROVE cmd'[k].s # evt'[n].h
      <4>1. CASE k \in 1 .. N
        BY <3>1, <3>3, <4>1, <1>2, <1>6
      <4>2. CASE k \notin 1 .. N
        BY <3>1, <3>3, <4>2, <1>2, <1>4, <1>6
      <4> QED BY <4>1, <4>2
    <3> QED BY <3>1, <3>2, <3>3, <1>6
  <2> QED BY <2>1, AckedIsRefersPrime DEF N1, E1
<1>14. NoDanglingSound'
  <2>1. ASSUME NEW i \in Voice, NEW h, Refers(i, h)', h # None PROVE SndLive(h)'
    <3>1. Refers(i, h)
      BY <2>1 DEF Refers
    <3>2. h \in Handle /\ SndLive(h)
      BY <2>1, <3>1, <1>6, VoiceTypes
    <3>3. ~Gone(h)
      BY <3>1, <1>6, <1>8
    <3> QED BY <3>2, <3>3, <1>5
  <2> QED BY <2>1, DanglingIsRefersPrime
<1> QED BY <1>9, <1>10, <1>11, <1>12, <1>13, <1>14 DEF Handshake

\* A step of the audio thread that handles at most one command, adds events, and makes a voice
\* refer to nothing new but the sound of a bind command it handles.  An acknowledgement it adds
\* answers the retire command it handles, whose sound no voice refers to any more.
LEMMA AudioKeeps ==
    ASSUME Shape, Shape', Handshake, snd' = snd, NEW d \in 0 .. 1,
           Len(cmd') = Len(cmd) - d, \A k \in 1 .. Len(cmd') : cmd'[k] = cmd[k + d],
           Len(evt) <= Len(evt'), \A k \in 1 .. Len(evt) : evt'[k] = evt[k],
           \A k \in 1 .. Len(evt') : k \notin 1 .. Len(evt) /\ evt'[k].t = "RETIRED" =>
                /\ d = 1 /\ cmd[1].t = "RETIRE" /\ evt'[k].h = cmd[1].s /\ k = Len(evt')
                /\ \A i \in Voice : \A h : Refers(i, h)' => h # cmd[1].s,
           \A i \in Voice : \A h : Refers(i, h)' /\ h # None =>
                Refers(i, h) \/ (d = 1 /\ cmd[1].t \in Binds /\ h = cmd[1].s /\ SndLive(h))
    PROVE  Handshake'
<1> DEFINE N == Len(cmd)
           N1 == Len(cmd')
           E == Len(evt)
           E1 == Len(evt')
<1>1. N \in Nat /\ N1 \in Nat /\ N1 = N - d /\ E \in Nat /\ E1 \in Nat /\ E <= E1
  BY RingTypes, RingTypesPrime
<1>2. \A k \in 1 .. N1 : cmd'[k] = cmd[k + d] /\ k + d \in 1 .. N
  BY <1>1
<1>3. \A k \in 1 .. E : evt'[k] = evt[k]
  OBVIOUS
<1>4. \A k \in 1 .. E1 : k \notin 1 .. E /\ evt'[k].t = "RETIRED" =>
        /\ d = 1 /\ 1 \in 1 .. N /\ cmd[1].t = "RETIRE" /\ evt'[k].h = cmd[1].s /\ k = E1
        /\ \A i \in Voice : \A h : Refers(i, h)' => h # cmd[1].s
  BY <1>1
<1>5. \A h : Waiting(h)' <=> Waiting(h)
  BY DEF Waiting, SndLive
<1>6. /\ \A k \in 1 .. N : cmd[k].t = "RETIRE" => Waiting(cmd[k].s)
      /\ \A k \in 1 .. E : evt[k].t = "RETIRED" => Waiting(evt[k].h)
      /\ \A n \in 1 .. E : evt[n].t = "RETIRED" =>
            /\ \A k \in 1 .. N : cmd[k].t \in Binds => cmd[k].s # evt[n].h
            /\ \A i \in Voice : ~Refers(i, evt[n].h)
      /\ \A i \in Voice : \A h : Refers(i, h) /\ h # None => SndLive(h)
  BY FindsIsWaiting, AckedIsRefers, DanglingIsRefers DEF Handshake
<1>7. /\ \A j, k \in 1 .. N : cmd[j].t = "RETIRE" /\ cmd[k].t = "RETIRE" /\ cmd[j].s = cmd[k].s => j = k
      /\ \A j, k \in 1 .. E : evt[j].t = "RETIRED" /\ evt[k].t = "RETIRED" /\ evt[j].h = evt[k].h => j = k
      /\ \A j \in 1 .. N, k \in 1 .. E : cmd[j].t = "RETIRE" /\ evt[k].t = "RETIRED" => cmd[j].s # evt[k].h
      /\ \A j, k \in 1 .. N : j < k /\ cmd[j].t = "RETIRE" /\ cmd[k].t \in Binds => cmd[j].s # cmd[k].s
  BY DEF Handshake, RetireOnce, NoBindAfterRetire
<1>8. \A i \in Voice : \A h : Refers(i, h)' /\ h # None =>
        Refers(i, h) \/ (d = 1 /\ 1 \in 1 .. N /\ cmd[1].t \in Binds /\ h = cmd[1].s /\ SndLive(h))
  BY <1>1
<1> HIDE DEF N, N1, E, E1
<1>9. RetireFindsItsSound'
  <2>1. \A k \in 1 .. N1 : cmd'[k].t = "RETIRE" => Waiting(cmd[k + d].s) /\ cmd'[k] = cmd[k + d]
    BY <1>2, <1>6
  <2> QED BY <2>1, <1>5, FindsIsWaitingPrime DEF N1
<1>10. AckFindsItsSound'
  <2>1. ASSUME NEW k \in 1 .. E1, evt'[k].t = "RETIRED", NEW h, h = evt'[k].h PROVE Waiting(h)
    <3>1. CASE k \in 1 .. E
      BY <2>1, <3>1, <1>3, <1>6
    <3>2. CASE k \notin 1 .. E
      BY <2>1, <3>2, <1>4, <1>6
    <3> QED BY <3>1, <3>2
  <2> QED BY <2>1, <1>5, FindsIsWaitingPrime DEF E1
<1>11. RetireOnce'
  <2>1. ASSUME NEW j \in 1 .. N1, NEW k \in 1 .. N1, cmd'[j].t = "RETIRE", cmd'[k].t = "RETIRE",
               cmd'[j].s = cmd'[k].s
        PROVE  j = k
    <3>1. /\ j + d \in 1 .. N /\ cmd[j + d].t = "RETIRE" /\ cmd[j + d].s = cmd'[j].s
          /\ k + d \in 1 .. N /\ cmd[k + d].t = "RETIRE" /\ cmd[k + d].s = cmd'[k].s
      BY <2>1, <1>2
    <3>2. j + d = k + d
      BY <2>1, <3>1, <1>7
    <3> QED BY <3>2, <1>1
  <2>2. ASSUME NEW j \in 1 .. E1, NEW k \in 1 .. E1, evt'[j].t = "RETIRED", evt'[k].t = "RETIRED",
               evt'[j].h = evt'[k].h
        PROVE  j = k
    <3>1. CASE j \in 1 .. E /\ k \in 1 .. E
      BY <2>2, <3>1, <1>3, <1>7
    <3>2. CASE j \notin 1 .. E /\ k \notin 1 .. E
      <4>1. j = E1 /\ k = E1
        BY <2>2, <3>2, <1>4
      <4> QED BY <4>1
    <3>3. CASE j \in 1 .. E /\ k \notin 1 .. E
      BY <2>2, <3>3, <1>3, <1>4, <1>7
    <3>4. CASE j \notin 1 .. E /\ k \in 1 .. E
      BY <2>2, <3>4, <1>3, <1>4, <1>7
    <3> QED BY <3>1, <3>2, <3>3, <3>4
  <2>3. ASSUME NEW j \in 1 .. N1, NEW k \in 1 .. E1, cmd'[j].t = "RETIRE", evt'[k].t = "RETIRED"
        PROVE  cmd'[j].s # evt'[k].h
    <3>1. j + d \in 1 .. N /\ cmd'[j] = cmd[j + d] /\ cmd[j + d].t = "RETIRE"
      BY <2>3, <1>2
    <3>2. CASE k \in 1 .. E
      BY <2>3, <3>1, <3>2, <1>3, <1>7
    <3>3. CASE k \notin 1 .. E
      <4>1. d = 1 /\ 1 \in 1 .. N /\ cmd[1].t = "RETIRE" /\ evt'[k].h = cmd[1].s
        BY <2>3, <3>3, <1>4
      <4>2. ASSUME cmd[j + d].s = cmd[1].s PROVE FALSE
        <5>1. j + d = 1
          BY <3>1, <4>1, <4>2, <1>7
        <5> QED BY <5>1, <4>1, <1>1
      <4> QED BY <3>1, <4>1, <4>2
    <3> QED BY <3>2, <3>3
  <2> QED BY <2>1, <2>2, <2>3 DEF RetireOnce, N1, E1
<1>12. NoBindAfterRetire'
  <2>1. ASSUME NEW j \in 1 .. N1, NEW k \in 1 .. N1, j < k, cmd'[j].t = "RETIRE", cmd'[k].t \in Binds
        PROVE  cmd'[j].s # cmd'[k].s
    <3>1. j + d < k + d
      BY <2>1, <1>1
    <3>2. /\ j + d \in 1 .. N /\ cmd[j + d].t = "RETIRE" /\ cmd[j + d].s = cmd'[j].s
          /\ k + d \in 1 .. N /\ cmd[k + d].t \in Binds /\ cmd[k + d].s = cmd'[k].s
      BY <2>1, <1>2
    <3> QED BY <3>1, <3>2, <1>7
  <2> QED BY <2>1 DEF NoBindAfterRetire, N1
<1>13. AckedUnreferenced'
  <2>1. ASSUME NEW n \in 1 .. E1, evt'[n].t = "RETIRED"
        PROVE  /\ \A k \in 1 .. N1 : cmd'[k].t \in Binds => cmd'[k].s # evt'[n].h
               /\ \A i \in Voice : \A h : Refers(i, h)' => h # evt'[n].h
    <3>1. CASE n \in 1 .. E
      <4>1. evt'[n] = evt[n] /\ evt[n].t = "RETIRED" /\ Waiting(evt[n].h)
        BY <2>1, <3>1, <1>3, <1>6
      <4>2. evt[n].h # None
        BY <4>1, NoneNotLive DEF Waiting
      <4>3. ASSUME NEW i \in Voice, NEW h, Refers(i, h)', h = evt[n].h PROVE FALSE
        BY <4>1, <4>2, <4>3, <3>1, <1>6, <1>8
      <4>4. ASSUME NEW k \in 1 .. N1, cmd'[k].t \in Binds PROVE cmd'[k].s # evt[n].h
        BY <4>1, <4>4, <3>1, <1>2, <1>6
      <4> QED BY <4>1, <4>3, <4>4
    <3>2. CASE n \notin 1 .. E
      <4>1. /\ d = 1 /\ 1 \in 1 .. N /\ cmd[1].t = "RETIRE" /\ evt'[n].h = cmd[1].s
            /\ \A i \in Voice : \A h : Refers(i, h)' => h # cmd[1].s
        BY <2>1, <3>2, <1>4
      <4>2. ASSUME NEW k \in 1 .. N1, cmd'[k].t \in Binds PROVE cmd'[k].s # evt'[n].h
        <5>1. 1 < k + d
          BY <4>1, <1>1
        <5> QED BY <4>1, <4>2, <5>1, <1>2, <1>7
      <4> QED BY <4>1, <4>2
    <3> QED BY <3>1, <3>2
  <2> QED BY <2>1, AckedIsRefersPrime DEF N1, E1
<1>14. NoDanglingSound'
  <2>1. \A h : SndLive(h)' <=> SndLive(h)
    BY DEF SndLive
  <2> QED BY <2>1, <1>6, <1>8, DanglingIsRefersPrime
<1> QED BY <1>9, <1>10, <1>11, <1>12, <1>13, <1>14 DEF Handshake

-----------------------------------------------------------------------------
(* What one call does to each table. *)

\* Every sound keeps its generation or gets a later one.
GensKept == \A s \in Sound : snd[s].gen <= snd'[s].gen
\* No source gets a push sound it did not have.
PushKept == \A i \in Voice : slot'[i].push \in {None, slot[i].push}
\* The sound a call in progress will bind stays the same, and stays bindable.
BindKept == \A h : ctl'.s = h /\ h # None => ctl.s = h /\ (CanRetire(h) => CanRetire(h)')
\* The step changes the sounds and the locals only in these ways.
Orderly == GensKept /\ PushKept /\ BindKept /\ \A h \in Handle : StillThere(h)

LEMMA FreshKeeps ==
    ASSUME Shape, Shape', FreshBind, PushKept, BindKept, GensKept
    PROVE  FreshBind'
<1>1. ASSUME NEW h, h = ctl'.s, h # None PROVE CanRetire(h)'
  BY <1>1 DEF FreshBind, BindKept
<1>2. ASSUME NEW i \in Voice, slot'[i].push # None
      PROVE  /\ slot'[i].push # ctl'.s
             /\ slot'[i].push.idx \in Sound /\ slot'[i].push.gen <= snd'[slot'[i].push.idx].gen
  <2> DEFINE h == slot[i].push
  <2>1. slot'[i].push = h /\ h # None
    BY <1>2 DEF PushKept
  <2>2. h # ctl.s /\ h.idx \in Sound /\ h.gen <= snd[h.idx].gen
    BY <2>1 DEF FreshBind
  <2>3. h \in Handle /\ snd[h.idx].gen \in Nat /\ snd'[h.idx].gen \in Nat /\ h.gen \in Nat
    <3>1. slot[i] \in Slot /\ snd[h.idx] \in SoundSlot /\ snd'[h.idx] \in SoundSlot
      BY <2>2 DEF Shape, TypeOK
    <3> QED BY <3>1 DEF Slot, SoundSlot, Handle
  <2> HIDE DEF h
  <2>4. h.gen <= snd'[h.idx].gen
    BY <2>2, <2>3 DEF GensKept
  <2>5. h # ctl'.s
    BY <2>1, <2>2 DEF BindKept
  <2> QED BY <2>1, <2>2, <2>4, <2>5
<1> QED BY <1>1, <1>2 DEF FreshBind, CanRetire, SndLive

LEMMA SoundsSame ==
    ASSUME Shape, snd' = snd
    PROVE  GensKept /\ \A h \in Handle : StillThere(h)
<1>1. \A s \in Sound : snd[s].gen \in Nat
  BY SoundFields, ShapeParts
<1> QED BY <1>1 DEF GensKept, StillThere, SndLive, Waiting

\* What a list of commands may hold for the handshake.
Admissible(w) ==
    \A k \in 1 .. Len(w) :
        /\ w[k].t \in Binds => ~Waiting(w[k].s)
        /\ w[k].t = "RETIRE" => k = Len(w) /\ ~Waiting(w[k].s) /\ Waiting(w[k].s)'

LEMMA Extended ==
    ASSUME Shape, NEW w \in Seq(Cmd), cmd' = cmd \o w, Admissible(w)
    PROVE  CmdGrown /\ NewCmds
<1>1. cmd \in Seq(Cmd) /\ Len(cmd) \in Nat /\ Len(w) \in Nat
  BY DEF Shape, TypeOK
<1>2. /\ Len(cmd') = Len(cmd) + Len(w)
      /\ \A k \in 1 .. Len(cmd) : cmd'[k] = cmd[k]
      /\ \A k \in Len(cmd) + 1 .. Len(cmd) + Len(w) : cmd'[k] = w[k - Len(cmd)]
  BY <1>1
<1>3. CmdGrown
  BY <1>1, <1>2 DEF CmdGrown
<1>4. ASSUME NEW k \in Len(cmd) + 1 .. Len(cmd'), NEW h \in Handle, cmd'[k].s = h PROVE NewCmd(k, h)
  <2>1. PICK m \in 1 .. Len(w) : m = k - Len(cmd)
    BY <1>1, <1>2
  <2>2. m \in 1 .. Len(w) /\ cmd'[k] = w[m] /\ w[m].s = h /\ (m = Len(w) => k = Len(cmd'))
    BY <1>1, <1>2, <1>4, <2>1
  <2>3. Waiting(w[m].s)' => Waiting(h)'
    BY <2>2 DEF Waiting, SndLive
  <2> QED BY <2>2, <2>3 DEF NewCmd, Admissible
<1> QED BY <1>3, <1>4 DEF NewCmds

\* The step adds an admissible list of commands, which may be empty.
CmdsAdded == \E w \in Seq(Cmd) : cmd' = cmd \o w /\ Admissible(w)

LEMMA Lists ==
    \A q \in Seq(Cmd), a, b \in Cmd :
        /\ q = q \o <<>> /\ Append(q, a) = q \o <<a>>
        /\ Append(Append(q, a), b) = q \o <<a, b>>
        /\ <<a>> \in Seq(Cmd) /\ <<a, b>> \in Seq(Cmd)
OBVIOUS

\* A call that handles no event.
LEMMA CallHandshake ==
    ASSUME Shape, Shape', Handshake, voice' = voice, evt' = evt, \A h \in Handle : StillThere(h), CmdsAdded
    PROVE  Handshake'
<1>1. EvtShift(0) /\ 0 \in 0 .. 1
  BY RingTypes DEF EvtShift
<1>2. CmdGrown /\ NewCmds
  BY Extended DEF CmdsAdded
<1> QED BY <1>1, <1>2, ControlKeeps

\* A call that handles no event and does to the tables what Orderly allows.
LEMMA CallKeeps ==
    ASSUME Shape, Shape', FreshBind, Handshake, voice' = voice, evt' = evt, Orderly, CmdsAdded
    PROVE  FreshBind' /\ Handshake'
BY CallHandshake, FreshKeeps DEF Orderly

\* Handling one event.
LEMMA TakenEvt ==
    ASSUME Shape, NEW t \in EvtTypes, TakeEvt(t)
    PROVE  /\ EvtShift(1) /\ 1 \in 0 .. 1 /\ evt # <<>> /\ evt[1] = Head(evt) /\ evt[1].t = t
           /\ evt[1].h \in Handle /\ 1 \in 1 .. Len(evt) /\ BindKept /\ ctl'.pc = "drain"
<1>1. evt # <<>> /\ Head(evt).h \in Handle /\ ctl'.s = None /\ ctl'.pc = "drain"
  BY TakeEvtShape
<1>2. evt \in Seq(Evt) /\ evt' = Tail(evt) /\ Head(evt).t = t
  BY DEF Shape, TypeOK, TakeEvt
<1>3. Len(evt) \in Nat /\ Len(evt) > 0 /\ Len(evt') = Len(evt) - 1 /\ Head(evt) = evt[1]
  BY <1>1, <1>2
<1>4. \A k \in 1 .. Len(evt') : evt'[k] = evt[k + 1]
  BY <1>1, <1>2, <1>3
<1>5. 1 \in 0 .. 1 /\ 1 \in 1 .. Len(evt)
  BY <1>3
<1> QED BY <1>1, <1>2, <1>3, <1>4, <1>5 DEF EvtShift, BindKept

\* rt_unload_sound and retire_internal_sound: the sound starts to be retired, no other changes.
LEMMA RetiringKeeps ==
    ASSUME Shape, NEW h \in Handle, CanRetire(h), snd' = Retiring(snd, h)
    PROVE  /\ Waiting(h)' /\ ~Waiting(h) /\ GensKept /\ \A g \in Handle : StillThere(g)
           /\ \A g \in Handle : CanRetire(g) /\ g # h => CanRetire(g)'
<1>1. h.idx \in Sound /\ snd \in [Sound -> SoundSlot] /\ snd[h.idx].inuse /\ snd[h.idx].gen = h.gen
  BY DEF CanRetire, SndLive, Shape, TypeOK
<1>2. \A r \in SoundSlot : LET q == [r EXCEPT !.retiring = TRUE]
                           IN  q.inuse = r.inuse /\ q.gen = r.gen /\ q.retiring = TRUE
  BY DEF SoundSlot
<1>3. /\ \A s \in Sound : snd'[s].inuse = snd[s].inuse /\ snd'[s].gen = snd[s].gen
      /\ \A s \in Sound : s # h.idx => snd'[s].retiring = snd[s].retiring
      /\ snd'[h.idx].retiring = TRUE
  BY <1>1, <1>2 DEF Retiring
<1>4. \A g \in Handle : SndLive(g) <=> SndLive(g)'
  BY <1>3 DEF SndLive
<1>5. Waiting(h)' /\ ~Waiting(h)
  BY <1>3, <1>4 DEF Waiting, CanRetire
<1>6. \A g \in Handle : StillThere(g)
  <2>1. \A g \in Handle : Waiting(g) => Waiting(g)'
    BY <1>3, <1>4 DEF Waiting, SndLive
  <2> QED BY <1>4, <2>1 DEF StillThere
<1>7. \A s \in Sound : snd[s].gen \in Nat
  BY SoundFields, ShapeParts
<1>8. ASSUME NEW g \in Handle, CanRetire(g), g # h PROVE CanRetire(g)'
  <2>1. g.idx # h.idx
    <3>1. g = [idx |-> g.idx, gen |-> g.gen] /\ h = [idx |-> h.idx, gen |-> h.gen]
      BY DEF Handle
    <3> QED BY <1>1, <1>8, <3>1 DEF CanRetire, SndLive
  <2> QED BY <1>3, <1>4, <1>8, <2>1 DEF CanRetire, SndLive
<1> QED BY <1>3, <1>5, <1>6, <1>7, <1>8 DEF GensKept

\* salloc_sound: a free slot gets its next occupant.
LEMMA AllocKeeps ==
    ASSUME Shape, NEW i \in Sound, ~snd[i].inuse, NEW r \in SoundSlot, r.gen = snd[i].gen + 1,
           r.inuse, snd' = [snd EXCEPT ![i] = r]
    PROVE  /\ GensKept /\ \A g \in Handle : StillThere(g)
           /\ LET h == H(i, snd[i].gen + 1) IN
              /\ h \in Handle /\ h # None /\ ~SndLive(h)
              /\ \A g : g = h => SndLive(g)' /\ (r.retiring => Waiting(g)') /\ (~r.retiring => CanRetire(g)')
<1>1. snd \in [Sound -> SoundSlot] /\ snd[i].gen \in Nat /\ i \in Nat /\ i # 0
      /\ H(i, snd[i].gen + 1) \in Handle
  BY SoundFields, ShapeParts, Constants DEF Shape, TypeOK, Sound
<1>2. snd'[i] = r /\ \A s \in Sound : s # i => snd'[s] = snd[s]
  BY <1>1
<1>3. GensKept
  <2>1. \A s \in Sound : snd[s].gen \in Nat
    BY SoundFields, ShapeParts
  <2> QED BY <1>1, <1>2, <2>1 DEF GensKept
<1>4. \A g \in Handle : StillThere(g)
  <2>1. \A g \in Handle : SndLive(g) => g.idx \in Sound /\ g.idx # i
    BY DEF SndLive
  <2> QED BY <1>2, <2>1 DEF StillThere, SndLive, Waiting
<1> DEFINE h == H(i, snd[i].gen + 1)
<1>5. h \in Handle /\ h # None /\ ~SndLive(h) /\ h.idx = i /\ h.gen = r.gen
  BY <1>1 DEF H, None, SndLive
<1>6. ASSUME NEW g, g = h PROVE SndLive(g)' /\ (r.retiring => Waiting(g)') /\ (~r.retiring => CanRetire(g)')
  <2>1. g.idx = i /\ g.gen = r.gen
    BY <1>5, <1>6
  <2>2. SndLive(g)'
    BY <1>2, <2>1 DEF SndLive
  <2> QED BY <1>2, <2>1, <2>2 DEF Waiting, CanRetire
<1> QED BY <1>3, <1>4, <1>5, <1>6

-----------------------------------------------------------------------------
(* The actions of the control thread. *)

\* A command the handshake does not care about.
Neutral(c) == c.t \notin Binds \cup {"RETIRE"}

LEMMA NeutralCmds ==
    /\ \A t, v, s, one : MkCmd(t, v, s, one).t = t /\ MkCmd(t, v, s, one).s = s
    /\ \A t, v : VCmd(t, v).t = t
    /\ \A t \in {"CREATE", "DESTROY", "PARAM", "STOP", "STOP_ALL", "STEAL", "COMMIT"} : \A v :
            Neutral(VCmd(t, v))
BY DEF MkCmd, VCmd, Neutral, Binds

\* Nothing, or one neutral command, is added.
LEMMA QuietList ==
    ASSUME Shape, cmd' = cmd \/ \E c \in Cmd : cmd' = Append(cmd, c) /\ Neutral(c)
    PROVE  CmdsAdded
<1>0. cmd \in Seq(Cmd)
  BY DEF Shape, TypeOK
<1>1. CASE cmd' = cmd
  <2>1. Admissible(<<>>) /\ <<>> \in Seq(Cmd)
    BY DEF Admissible
  <2>2. cmd' = cmd \o <<>>
    BY <1>0, <1>1
  <2> QED BY <2>1, <2>2 DEF CmdsAdded
<1>2. CASE \E c \in Cmd : cmd' = Append(cmd, c) /\ Neutral(c)
  <2>1. PICK c \in Cmd : cmd' = Append(cmd, c) /\ Neutral(c)
    BY <1>2
  <2>2. Admissible(<<c>>)
    BY <2>1 DEF Admissible, Neutral
  <2>3. <<c>> \in Seq(Cmd) /\ cmd' = cmd \o <<c>>
    BY <1>0, <2>1, Lists
  <2> QED BY <2>2, <2>3 DEF CmdsAdded
<1> QED BY <1>1, <1>2

\* One bind of a sound that is not being retired is added.
LEMMA BindList ==
    ASSUME Shape, NEW c \in Cmd, cmd' = cmd \/ cmd' = Append(cmd, c), c.t # "RETIRE", ~Waiting(c.s)
    PROVE  CmdsAdded
<1>0. cmd \in Seq(Cmd)
  BY DEF Shape, TypeOK
<1>1. Admissible(<<c>>) /\ Admissible(<<>>) /\ <<>> \in Seq(Cmd)
  BY DEF Admissible
<1> QED BY <1>0, <1>1, Lists DEF CmdsAdded

\* A retire of the sound this call begins to retire is added, after neutral commands.
LEMMA RetireList ==
    ASSUME NEW h \in Handle, NEW w \in Seq(Cmd), \A k \in 1 .. Len(w) : Neutral(w[k]),
           ~Waiting(h), Waiting(h)'
    PROVE  LET c == MkCmd("RETIRE", None, h, FALSE) IN
           /\ c \in Cmd /\ Append(w, c) \in Seq(Cmd) /\ Admissible(Append(w, c))
           /\ \A q \in Seq(Cmd) : Append(q \o w, c) = q \o Append(w, c)
<1> DEFINE c == MkCmd("RETIRE", None, h, FALSE)
<1>1. c \in Cmd /\ c.t = "RETIRE" /\ c.s = h
  <2>1. "RETIRE" \in CmdTypes
    BY DEF CmdTypes
  <2>2. c \in Cmd
    BY <2>1, CmdType, Constants
  <2> QED BY <2>2 DEF MkCmd
<1> HIDE DEF c
<1>2. /\ Append(w, c) \in Seq(Cmd) /\ Len(Append(w, c)) = Len(w) + 1 /\ Len(w) \in Nat
      /\ \A k \in 1 .. Len(w) : Append(w, c)[k] = w[k]
      /\ Append(w, c)[Len(w) + 1] = c
  BY <1>1
<1>3. PICK v : v = Append(w, c)
  OBVIOUS
<1>4. ASSUME NEW k \in 1 .. Len(v)
      PROVE  /\ v[k].t \in Binds => ~Waiting(v[k].s)
             /\ v[k].t = "RETIRE" => k = Len(v) /\ ~Waiting(v[k].s) /\ Waiting(v[k].s)'
  <2>1. CASE k \in 1 .. Len(w)
    BY <1>2, <1>3, <2>1 DEF Neutral
  <2>2. CASE k \notin 1 .. Len(w)
    <3>1. k = Len(w) + 1 /\ v[k] = c
      BY <1>2, <1>3, <2>2
    <3>2. v[k].t = "RETIRE" /\ v[k].s = h /\ k = Len(v)
      BY <1>1, <1>2, <1>3, <3>1
    <3>3. Waiting(v[k].s)' <=> Waiting(h)'
      BY <3>2 DEF Waiting, SndLive
    <3> QED BY <3>2, <3>3 DEF Binds
  <2> QED BY <2>1, <2>2
<1>5. Admissible(Append(w, c))
  BY <1>3, <1>4 DEF Admissible
<1>6. \A q \in Seq(Cmd) : Append(q \o w, c) = q \o Append(w, c)
  BY <1>1
<1> QED BY <1>1, <1>2, <1>5, <1>6 DEF c

\* alloc_handle starts a slot without a push sound; the other updates of a slot keep its own or
\* drop it.
LEMMA PushFields ==
    ASSUME Shape
    PROVE  /\ \A i \in Voice : Let(i).push = None /\ Unlet(Let(i)).push = None
           /\ \A r \in Slot, b \in BOOLEAN, p \in 0 .. 255 :
                /\ [r EXCEPT !.stealing = b].push = r.push
                /\ [r EXCEPT !.prio = p].push = r.push
                /\ [r EXCEPT !.inuse = b, !.push = None].push = None
                /\ [r EXCEPT !.inuse = b, !.stealing = b, !.push = None].push = None
           /\ \A r \in Slot : Unlet(r).push = r.push
           /\ slot \in [Voice -> Slot] /\ \A i \in Voice : Let(i) \in Slot
<1>1. ControlShape /\ slot \in [Voice -> Slot]
  BY ShapeParts DEF ControlShape
<1>2. \A i \in Voice : Let(i).push = None /\ Let(i) \in Slot
  BY <1>1, LetType DEF Let
<1>3. \A r \in Slot : Unlet(r).push = r.push
  BY DEF Slot, Unlet
<1>4. \A r \in Slot, b \in BOOLEAN, p \in 0 .. 255 :
        /\ [r EXCEPT !.stealing = b].push = r.push
        /\ [r EXCEPT !.prio = p].push = r.push
        /\ [r EXCEPT !.inuse = b, !.push = None].push = None
        /\ [r EXCEPT !.inuse = b, !.stealing = b, !.push = None].push = None
  BY DEF Slot
<1> QED BY <1>1, <1>2, <1>3, <1>4

\* rt_source_create with room in the pool.
LEMMA FromPoolKeeps ==
    ASSUME Shape, NEW s \in Handle, CreateFromPool(s)
    PROVE  PushKept /\ ctl'.s = s /\ cmd' = cmd
<1> DEFINE i == Last(free)
<1>1. i \in Voice
  <2>1. Len(free) > 0
    BY ShapeParts, Constants DEF CreateFromPool, ControlShape
  <2> QED BY <2>1, ShapeParts, PopFree
<1>2. slot' = [slot EXCEPT ![i] = Let(i)]
  BY DEF CreateFromPool
<1> HIDE DEF i
<1>3. PushKept
  BY <1>1, <1>2, PushFields DEF PushKept
<1>4. ctl'.s = s /\ cmd' = cmd
  BY DEF CreateFromPool, Idle
<1> QED BY <1>3, <1>4

\* rt_source_create with the pool full.
LEMMA StealKeeps ==
    ASSUME Shape, NEW s \in Handle, CreateBySteal(s)
    PROVE  /\ PushKept /\ ctl'.s = s
           /\ cmd' = cmd \/ \E c \in Cmd : cmd' = Append(cmd, c) /\ Neutral(c)
<1> DEFINE i == Last(free)
<1>1. PICK v \in Voice : CreateBySteal(s)!2!(v)
  BY DEF CreateBySteal
<1> DEFINE vh == H(v, slot[v].gen)
<1>2. CASE free = <<>>
  <2>1. slot' = slot /\ cmd' = cmd /\ ctl' = [Idle EXCEPT !.pc = "cut", !.vic = vh, !.s = s]
    BY <1>1, <1>2
  <2>2. ctl'.s = s
    BY <2>1 DEF Idle
  <2> QED BY <2>1, <2>2 DEF PushKept
<1>3. CASE free # <<>>
  <2>0. i \in Voice
    <3>1. Len(free) > 0
      BY <1>3, ShapeParts DEF ControlShape
    <3> QED BY <3>1, ShapeParts, PopFree
  <2>1. CASE CmdRoom(1)
    <3>1. /\ slot' = [slot EXCEPT ![i] = Let(i), ![v].stealing = TRUE]
          /\ ctl' = [Idle EXCEPT !.pc = "push", !.h = H(i, slot[i].gen + 1), !.s = s]
          /\ cmd' = Append(cmd, VCmd("STEAL", vh))
      BY <1>1, <1>3, <2>1
    <3>2. PushKept
      <4> HIDE DEF i
      <4> QED BY <2>0, <3>1, PushFields DEF PushKept
    <3>3. ctl'.s = s
      BY <3>1 DEF Idle
    <3>4. VCmd("STEAL", vh) \in Cmd /\ Neutral(VCmd("STEAL", vh))
      <4>1. "STEAL" \in CmdTypes /\ vh \in Handle
        BY ShapeParts, SlotFields DEF CmdTypes
      <4> QED BY <4>1, CmdType, Constants, NeutralCmds
    <3> QED BY <3>1, <3>2, <3>3, <3>4
  <2>2. CASE ~CmdRoom(1)
    <3>1. /\ slot' = [slot EXCEPT ![i] = Unlet(Let(i))] /\ cmd' = cmd
          /\ ctl' = [Idle EXCEPT !.pc = "cut", !.vic = vh, !.s = s]
      BY <1>1, <1>3, <2>2
    <3>2. PushKept
      <4> HIDE DEF i
      <4> QED BY <2>0, <3>1, PushFields DEF PushKept
    <3>3. ctl'.s = s
      BY <3>1 DEF Idle
    <3> QED BY <3>1, <3>2, <3>3
  <2> QED BY <2>1, <2>2
<1> QED BY <1>2, <1>3

LEMMA SameSlots == slot' = slot => PushKept
BY DEF PushKept

LEMMA SameBind == ctl'.s = None \/ (ctl'.s = ctl.s /\ snd' = snd) => BindKept
BY DEF BindKept, CanRetire, SndLive

LEMMA CreateSourceKeeps ==
    ASSUME Shape, Shape', FreshBind, Handshake, CreateSource
    PROVE  FreshBind' /\ Handshake'
<1>1. /\ PushKept /\ ctl'.s = None
      /\ cmd' = cmd \/ \E c \in Cmd : cmd' = Append(cmd, c) /\ Neutral(c)
  BY FromPoolKeeps, StealKeeps, Constants DEF CreateSource
<1>2. snd' = snd /\ voice' = voice /\ evt' = evt
  BY DEF CreateSource
<1> QED BY <1>1, <1>2, SoundsSame, SameBind, QuietList, CallKeeps DEF Orderly

\* The sound slot that salloc_sound would hand out next is free.
LEMMA TopSoundFree ==
    ASSUME SlotsInv, Len(sfree) > 0
    PROVE  Last(sfree) \in Sound /\ ~snd[Last(sfree)].inuse
<1>1. sfree \in Seq(Sound)
  BY SlotsUse DEF ControlShape
<1>2. Last(sfree) \in Sound /\ On(sfree, Last(sfree))
  BY <1>1 DEF Last, On
<1> QED BY <1>2, SlotsUse DEF SoundsExact

\* A push sound that rt_source_create_stream just loaded is fresh.
LEMMA NewSoundFresh ==
    ASSUME Shape, Shape', FreshBind, PushKept, GensKept, NEW i \in Sound, NEW h,
           h = H(i, snd[i].gen + 1), ctl'.s = h, \A g : g = h => CanRetire(g)'
    PROVE  FreshBind'
<1>1. ASSUME NEW j \in Voice, slot'[j].push # None
      PROVE  /\ slot'[j].push # ctl'.s
             /\ slot'[j].push.idx \in Sound /\ slot'[j].push.gen <= snd'[slot'[j].push.idx].gen
  <2>1. PICK p : p = slot[j].push
    OBVIOUS
  <2>2. slot'[j].push = p /\ p # None /\ p.idx \in Sound /\ p.gen <= snd[p.idx].gen
    BY <1>1, <2>1 DEF PushKept, FreshBind
  <2>3. snd[p.idx].gen \in Nat /\ snd'[p.idx].gen \in Nat /\ p.gen \in Nat
    <3>1. slot[j] \in Slot /\ snd[p.idx] \in SoundSlot /\ snd'[p.idx] \in SoundSlot
      BY <2>2 DEF Shape, TypeOK
    <3> QED BY <2>1, <3>1 DEF Slot, SoundSlot, Handle
  <2>4. p.gen <= snd'[p.idx].gen
    BY <2>2, <2>3 DEF GensKept
  <2>5. p # h
    <3>1. ASSUME p = h PROVE FALSE
      <4>1. p.idx = i /\ p.gen = snd[i].gen + 1
        BY <3>1 DEF H
      <4> QED BY <4>1, <2>2, <2>3
    <3> QED BY <3>1
  <2> QED BY <2>2, <2>4, <2>5
<1>2. \A g : g = ctl'.s => CanRetire(g)'
  OBVIOUS
<1> QED BY <1>1, <1>2 DEF FreshBind, CanRetire, SndLive

LEMMA CreateStreamKeeps ==
    ASSUME SlotsInv, Shape', FreshBind, Handshake, CreateStream
    PROVE  FreshBind' /\ Handshake'
<1>0. Shape /\ ControlShape
  BY SlotsUse
<1>1. Len(sfree) > 0
  BY <1>0 DEF CreateStream, ControlShape
<1>2. PICK i : i = Last(sfree)
  OBVIOUS
<1>3. i \in Sound /\ ~snd[i].inuse
  BY <1>1, <1>2, TopSoundFree
<1>4. PICK sh : sh = H(i, snd[i].gen + 1)
  OBVIOUS
<1>5. sh \in Handle /\ sh.gen = snd[i].gen + 1 /\ snd[i].gen + 1 \in Nat
  <2>1. snd[i].gen \in Nat /\ H(i, snd[i].gen + 1) \in Handle
    BY <1>0, <1>3, SoundFields
  <2> QED BY <1>4, <2>1 DEF H
<1>6. voice' = voice /\ evt' = evt
  BY DEF CreateStream
<1>7. CASE AllocSound(TRUE, TRUE) /\ (CreateFromPool(sh) \/ CreateBySteal(sh))
  <2>1. PICK r : r = [gen |-> snd[i].gen + 1, inuse |-> TRUE, retiring |-> FALSE,
                      stream |-> TRUE, internal |-> TRUE]
    OBVIOUS
  <2>2. r \in SoundSlot /\ r.inuse /\ r.gen = snd[i].gen + 1 /\ ~r.retiring
    BY <1>5, <2>1 DEF SoundSlot
  <2>3. snd' = [snd EXCEPT ![i] = r]
    BY <1>2, <1>7, <2>1 DEF AllocSound
  <2>4. GensKept /\ (\A g \in Handle : StillThere(g)) /\ \A g : g = sh => CanRetire(g)'
    BY <1>0, <1>3, <1>4, <2>2, <2>3, AllocKeeps
  <2>5. PushKept /\ ctl'.s = sh /\ (cmd' = cmd \/ \E c \in Cmd : cmd' = Append(cmd, c) /\ Neutral(c))
    BY <1>0, <1>5, <1>7, FromPoolKeeps, StealKeeps
  <2>6. Handshake'
    BY <1>0, <1>6, <2>4, <2>5, QuietList, CallHandshake
  <2>7. FreshBind'
    BY <1>0, <1>3, <1>4, <2>4, <2>5, NewSoundFresh
  <2> QED BY <2>6, <2>7
<1>8. CASE /\ snd' = [snd EXCEPT ![i] = [gen |-> sh.gen, inuse |-> TRUE, retiring |-> TRUE,
                                          stream |-> TRUE, internal |-> TRUE]]
           /\ cmd' = Append(cmd, MkCmd("RETIRE", None, sh, FALSE))
           /\ UNCHANGED <<slot, free, ctl>>
  <2>1. PICK r : r = [gen |-> sh.gen, inuse |-> TRUE, retiring |-> TRUE, stream |-> TRUE, internal |-> TRUE]
    OBVIOUS
  <2>2. r \in SoundSlot /\ r.inuse /\ r.gen = snd[i].gen + 1 /\ r.retiring
    BY <1>5, <2>1 DEF SoundSlot
  <2>3. snd' = [snd EXCEPT ![i] = r]
    BY <1>8, <2>1
  <2>4. GensKept /\ (\A g \in Handle : StillThere(g)) /\ Waiting(sh)' /\ ~Waiting(sh)
    <3>1. /\ GensKept /\ (\A g \in Handle : StillThere(g)) /\ ~SndLive(sh)
          /\ \A g : g = sh => Waiting(g)'
      BY <1>0, <1>3, <1>4, <2>2, <2>3, AllocKeeps
    <3> QED BY <3>1 DEF Waiting
  <2>5. CmdsAdded
    <3>1. \A w \in Seq(Cmd) : w = <<>> => \A k \in 1 .. Len(w) : Neutral(w[k])
      OBVIOUS
    <3>2. PICK w \in Seq(Cmd) : w = <<>>
      <4>1. <<>> \in Seq(Cmd)
        OBVIOUS
      <4> QED BY <4>1
    <3>3. cmd \in Seq(Cmd) /\ cmd \o w = cmd
      BY <1>0, <3>2 DEF Shape, TypeOK
    <3>4. PICK c : c = MkCmd("RETIRE", None, sh, FALSE)
      OBVIOUS
    <3>5. /\ Append(w, c) \in Seq(Cmd) /\ Admissible(Append(w, c))
          /\ \A q \in Seq(Cmd) : Append(q \o w, c) = q \o Append(w, c)
      BY <1>5, <2>4, <3>1, <3>2, <3>4, RetireList
    <3>6. cmd' = cmd \o Append(w, c)
      BY <1>8, <3>3, <3>4, <3>5
    <3> QED BY <3>5, <3>6 DEF CmdsAdded
  <2>6. ctl'.s = None
    BY <1>0, <1>8 DEF ControlShape, CreateStream, Call
  <2> QED BY <1>0, <1>6, <1>8, <2>4, <2>5, <2>6, SameSlots, SameBind, CallKeeps DEF Orderly
<1> QED BY <1>2, <1>4, <1>5, <1>7, <1>8 DEF CreateStream

\* push_sound_release, after neutral commands w.
LEMMA ReleaseKeeps ==
    ASSUME Shape, NEW h \in Handle, NEW w \in Seq(Cmd), \A k \in 1 .. Len(w) : Neutral(w[k]),
           NEW c, c = cmd \o w, ReleasePush(h, c)
    PROVE  /\ GensKept /\ CmdsAdded /\ \A g \in Handle : StillThere(g)
           /\ \A g \in Handle : CanRetire(g) /\ (IsPush(h) => g # slot[h.idx].push) => CanRetire(g)'
<1>0. PICK ps : ps = slot[h.idx].push
  OBVIOUS
<1>1. CASE cmd' = c /\ snd' = snd
  <2>1. Admissible(w)
    BY DEF Admissible, Neutral
  <2>2. \A g \in Handle : CanRetire(g) => CanRetire(g)'
    BY <1>1 DEF CanRetire, SndLive
  <2> QED BY <1>1, <2>1, <2>2, SoundsSame DEF CmdsAdded
<1>2. CASE /\ IsPush(h) /\ CanRetire(ps)
           /\ cmd' = Append(c, MkCmd("RETIRE", None, ps, FALSE))
           /\ snd' = Retiring(snd, ps)
  <2>1. ps \in Handle
    BY <1>0, <1>2, ShapeParts, SlotFields DEF IsPush, Live
  <2>2. /\ Waiting(ps)' /\ ~Waiting(ps) /\ GensKept /\ \A g \in Handle : StillThere(g)
        /\ \A g \in Handle : CanRetire(g) /\ g # ps => CanRetire(g)'
    BY <1>2, <2>1, RetiringKeeps
  <2>3. cmd \in Seq(Cmd)
    BY DEF Shape, TypeOK
  <2>4. CmdsAdded
    BY <1>2, <2>1, <2>2, <2>3, RetireList DEF CmdsAdded
  <2> QED BY <1>0, <1>2, <2>2, <2>4
<1>3. (cmd' = c /\ snd' = snd) \/ (/\ IsPush(h) /\ CanRetire(ps)
                                   /\ cmd' = Append(c, MkCmd("RETIRE", None, ps, FALSE))
                                   /\ snd' = Retiring(snd, ps))
  BY <1>0 DEF ReleasePush
<1> QED BY <1>1, <1>2, <1>3

LEMMA NeutralLists ==
    ASSUME Shape, NEW c \in Cmd, Neutral(c)
    PROVE  /\ \E w \in Seq(Cmd) : Append(cmd, c) = cmd \o w /\ \A k \in 1 .. Len(w) : Neutral(w[k])
           /\ \E w \in Seq(Cmd) : cmd = cmd \o w /\ \A k \in 1 .. Len(w) : Neutral(w[k])
<1>1. cmd \in Seq(Cmd)
  BY DEF Shape, TypeOK
<1>2. <<c>> \in Seq(Cmd) /\ Append(cmd, c) = cmd \o <<c>> /\ \A k \in 1 .. Len(<<c>>) : Neutral(<<c>>[k])
  BY <1>1
<1>3. <<>> \in Seq(Cmd) /\ cmd = cmd \o <<>> /\ \A k \in 1 .. Len(<<>>) : Neutral(<<>>[k])
  BY <1>1
<1> QED BY <1>2, <1>3

LEMMA NeutralDestroy == \A h \in Handle : VCmd("DESTROY", h) \in Cmd /\ Neutral(VCmd("DESTROY", h))
<1>1. "DESTROY" \in CmdTypes
  BY DEF CmdTypes
<1> QED BY <1>1, CmdType, Constants, NeutralCmds

LEMMA ReleaseAfterDestroy ==
    ASSUME Shape, NEW h \in Handle, ReleasePush(h, DestroyCmd(h))
    PROVE  /\ GensKept /\ CmdsAdded /\ \A g \in Handle : StillThere(g)
           /\ \A g \in Handle : CanRetire(g) /\ (IsPush(h) => g # slot[h.idx].push) => CanRetire(g)'
<1>1. PICK w \in Seq(Cmd) : DestroyCmd(h) = cmd \o w /\ \A k \in 1 .. Len(w) : Neutral(w[k])
  BY NeutralDestroy, NeutralLists DEF DestroyCmd
<1> QED BY <1>1, ReleaseKeeps

LEMMA DestroySourceKeeps ==
    ASSUME Shape, Shape', FreshBind, Handshake, NEW h \in app, DestroySource(h)
    PROVE  FreshBind' /\ Handshake'
<1>0. h \in Handle
  BY DEF Shape, TypeOK
<1>1. GensKept /\ CmdsAdded /\ \A g \in Handle : StillThere(g)
  BY <1>0, ReleaseAfterDestroy DEF DestroySource
<1>2. PushKept
  <2>1. CASE Live(h)
    <3>1. slot' = [slot EXCEPT ![h.idx].inuse = FALSE, ![h.idx].push = None] /\ h.idx \in Voice
      BY <2>1 DEF DestroySource, Live
    <3> QED BY <3>1, PushFields DEF PushKept
  <2>2. CASE ~Live(h)
    BY <2>2, SameSlots DEF DestroySource
  <2> QED BY <2>1, <2>2
<1>3. voice' = voice /\ evt' = evt /\ ctl'.s = None
  BY ShapeParts DEF DestroySource, Call, ControlShape
<1> QED BY <1>1, <1>2, <1>3, SameBind, CallKeeps DEF Orderly

LEMMA CreateCutKeeps ==
    ASSUME Shape, Shape', FreshBind, Handshake, CreateCut
    PROVE  FreshBind' /\ Handshake'
<1> DEFINE v == ctl.vic.idx
           i == Last(free)
<1>1. ctl.pc = "cut" /\ v \in Voice /\ ctl.vic \in Handle /\ ctl \in Ctl /\ ctl.s \in Handle
  BY ShapeParts DEF CreateCut, ControlShape, Ctl
<1>2. \A h \in Handle : [ctl EXCEPT !.pc = "push", !.h = h].s = ctl.s
  BY <1>1 DEF Ctl
<1>3. voice' = voice /\ evt' = evt
  BY DEF CreateCut
<1>4. CASE /\ ReleasePush(ctl.vic, DestroyCmd(ctl.vic))
           /\ slot' = [slot EXCEPT ![v] = Let(v)]
           /\ ctl' = [ctl EXCEPT !.pc = "push", !.h = H(v, slot[v].gen + 1)]
  <2>1. /\ GensKept /\ CmdsAdded /\ \A g \in Handle : StillThere(g)
        /\ \A g \in Handle : CanRetire(g) /\ (IsPush(ctl.vic) => g # slot[v].push) => CanRetire(g)'
    BY <1>1, <1>4, ReleaseAfterDestroy
  <2>2. PushKept
    <3> HIDE DEF v
    <3> QED BY <1>1, <1>4, PushFields DEF PushKept
  <2>3. ctl'.s = ctl.s
    BY <1>1, <1>2, <1>4, SlotFields, ShapeParts
  <2>4. IsPush(ctl.vic) => ctl.s # slot[v].push
    BY <1>1 DEF IsPush, FreshBind
  <2>5. BindKept
    BY <1>1, <2>1, <2>3, <2>4 DEF BindKept
  <2> QED BY <1>3, <2>1, <2>2, <2>5, CallKeeps DEF Orderly
<1>5. CASE /\ free # <<>> /\ slot' = [slot EXCEPT ![i] = Let(i)]
           /\ ctl' = [ctl EXCEPT !.pc = "push", !.h = H(i, slot[i].gen + 1)]
           /\ UNCHANGED <<snd, cmd>>
  <2>0. i \in Voice
    <3>1. Len(free) > 0
      BY <1>5, ShapeParts DEF ControlShape
    <3> QED BY <3>1, ShapeParts, PopFree
  <2>1. PushKept
    <3> HIDE DEF i
    <3> QED BY <2>0, <1>5, PushFields DEF PushKept
  <2>2. ctl'.s = ctl.s
    BY <2>0, <1>2, <1>5, SlotFields, ShapeParts
  <2> QED BY <1>3, <1>5, <2>1, <2>2, SoundsSame, SameBind, QuietList, CallKeeps DEF Orderly
<1>6. CASE ctl' = Idle /\ UNCHANGED <<slot, snd, cmd>>
  <2>1. ctl'.s = None
    BY <1>6 DEF Idle
  <2> QED BY <1>3, <1>6, <2>1, SoundsSame, SameSlots, SameBind, QuietList, CallKeeps DEF Orderly
<1> QED BY <1>4, <1>5, <1>6 DEF CreateCut

LEMMA CreatePushKeeps ==
    ASSUME Shape, Shape', FreshBind, Handshake, CreatePush
    PROVE  FreshBind' /\ Handshake'
<1> DEFINE create == VCmd("CREATE", ctl.h)
           play == MkCmd("PLAY", ctl.h, ctl.s, FALSE)
<1>1. /\ ctl.h.idx \in Voice /\ ctl.h \in Handle /\ ctl.s \in Handle
      /\ snd' = snd /\ voice' = voice /\ evt' = evt
  BY ShapeParts DEF CreatePush, ControlShape, Ctl
<1>2. ctl'.s = None
  BY DEF CreatePush, Idle
<1>3. /\ create \in Cmd /\ play \in Cmd /\ Neutral(create)
      /\ play.t = "PLAY" /\ play.s = ctl.s
  <2>1. "CREATE" \in CmdTypes /\ "PLAY" \in CmdTypes
    BY DEF CmdTypes
  <2>2. create \in Cmd /\ play \in Cmd /\ Neutral(create)
    BY <1>1, <2>1, CmdType, Constants, NeutralCmds
  <2>3. play.t = "PLAY" /\ play.s = ctl.s
    BY DEF MkCmd
  <2> QED BY <2>2, <2>3
<1>4. ctl.s # None => CanRetire(ctl.s) /\ ~Waiting(ctl.s)
  BY DEF FreshBind, CanRetire, Waiting
<1>5. CmdsAdded
  <2>1. CASE cmd' = cmd \/ cmd' = Append(cmd, create)
    BY <1>3, <2>1, QuietList
  <2>2. CASE ctl.s # None /\ cmd' = Append(Append(cmd, create), play)
    <3> HIDE DEF create, play
    <3>1. PICK w : w = <<create, play>>
      OBVIOUS
    <3>2. w \in Seq(Cmd) /\ cmd' = cmd \o w
      BY <1>3, <2>2, <3>1, Lists DEF Shape, TypeOK
    <3>3. Admissible(w)
      <4>1. \A k \in 1 .. Len(w) : w[k] = create \/ w[k] = play
        BY <3>1
      <4>2. create.t \notin Binds /\ create.t # "RETIRE" /\ play.t # "RETIRE"
        BY <1>3 DEF Neutral
      <4> QED BY <1>3, <1>4, <2>2, <4>1, <4>2 DEF Admissible
    <3> QED BY <3>2, <3>3 DEF CmdsAdded
  <2> QED BY <2>1, <2>2 DEF CreatePush
<1>6. Handshake'
  BY <1>1, <1>5, SoundsSame, CallHandshake
<1>7. FreshBind'
  <2>1. PICK i : i = ctl.h.idx
    OBVIOUS
  <2>2. CASE slot' = [slot EXCEPT ![i].push = ctl.s]
    <3>1. \A r \in Slot : [r EXCEPT !.push = ctl.s].push = ctl.s
      BY DEF Slot
    <3>2. \A j \in Voice : slot'[j].push = IF j = i THEN ctl.s ELSE slot[j].push
      BY <1>1, <2>1, <2>2, <3>1, PushFields
    <3>3. ctl.s # None => ctl.s.idx \in Sound /\ ctl.s.gen <= snd[ctl.s.idx].gen
      <4>1. ctl.s.gen \in Nat
        BY <1>1, HandleFields
      <4> QED BY <1>4, <4>1 DEF CanRetire, SndLive
    <3> QED BY <1>1, <1>2, <3>2, <3>3 DEF FreshBind
  <2>3. CASE slot' = [slot EXCEPT ![i] = Unlet(slot[i])]
    <3>1. slot[i] \in Slot /\ Unlet(slot[i]).push = slot[i].push
      BY <1>1, <2>1, PushFields
    <3>2. PushKept
      BY <1>1, <2>1, <2>3, <3>1, PushFields DEF PushKept
    <3> QED BY <1>1, <1>2, <3>2, SameBind, SoundsSame, FreshKeeps
  <2> QED BY <2>1, <2>2, <2>3 DEF CreatePush
<1> QED BY <1>6, <1>7

LEMMA PlayOneshotKeeps ==
    ASSUME Shape, Shape', FreshBind, Handshake, NEW s \in AppSounds, PlayOneshot(s)
    PROVE  FreshBind' /\ Handshake'
<1>0. s \in Handle
  BY ShapeParts, SoundFields DEF AppSounds
<1>1. PICK i : i = Last(free)
  OBVIOUS
<1>2. PICK h : h = H(i, slot[i].gen + 1)
  OBVIOUS
<1>3. i \in Voice /\ h \in Handle
  <2>1. Len(free) > 0
    BY ShapeParts, Constants DEF PlayOneshot, ControlShape
  <2>2. i \in Voice
    BY <1>1, <2>1, ShapeParts, PopFree
  <2> QED BY <1>2, <2>2, ShapeParts, SlotFields
<1>4. slot' = [slot EXCEPT ![i] = Let(i)]
  BY <1>1 DEF PlayOneshot
<1>5. PushKept
  BY <1>3, <1>4, PushFields DEF PushKept
<1>6. snd' = snd /\ voice' = voice /\ evt' = evt /\ ctl' = ctl
  BY DEF PlayOneshot
<1>7. PICK a, p, b : a = VCmd("CREATE", h) /\ p = VCmd("PARAM", h) /\ b = MkCmd("PLAY", h, s, TRUE)
  OBVIOUS
<1>8. a \in Cmd /\ p \in Cmd /\ b \in Cmd /\ Neutral(a) /\ Neutral(p) /\ b.t = "PLAY" /\ b.s = s
  <2>1. "CREATE" \in CmdTypes /\ "PARAM" \in CmdTypes /\ "PLAY" \in CmdTypes
    BY DEF CmdTypes
  <2>2. a \in Cmd /\ p \in Cmd /\ b \in Cmd /\ Neutral(a) /\ Neutral(p)
    BY <1>0, <1>3, <1>7, <2>1, CmdType, Constants, NeutralCmds
  <2>3. b.t = "PLAY" /\ b.s = s
    BY <1>7 DEF MkCmd
  <2> QED BY <2>2, <2>3
<1>9. PICK w : w = <<a, p, p, b>>
  OBVIOUS
<1>10. w \in Seq(Cmd) /\ cmd' = cmd \o w
  <2>1. w \in Seq(Cmd)
    BY <1>8, <1>9
  <2>2. cmd' = cmd \o <<VCmd("CREATE", h), VCmd("PARAM", h), VCmd("PARAM", h), MkCmd("PLAY", h, s, TRUE)>>
    BY <1>1, <1>2 DEF PlayOneshot
  <2> QED BY <1>7, <1>9, <2>1, <2>2
<1>11. Admissible(w)
  <2>1. \A k \in 1 .. Len(w) : w[k] = a \/ w[k] = p \/ w[k] = b
    BY <1>9
  <2>2. ~Waiting(s)
    BY DEF PlayOneshot, CanRetire, Waiting
  <2> QED BY <1>8, <2>1, <2>2 DEF Admissible, Neutral
<1> QED BY <1>5, <1>6, <1>10, <1>11, SoundsSame, SameBind, CallKeeps DEF Orderly, CmdsAdded

LEMMA BindCallKeeps ==
    ASSUME Shape, Shape', FreshBind, Handshake, NEW h \in app, NEW s \in AppSounds,
           Play(h, s) \/ Queue(h, s)
    PROVE  FreshBind' /\ Handshake'
<1>0. s \in Handle /\ h \in Handle
  BY ShapeParts, SoundFields DEF AppSounds, ControlShape
<1>1. UNCHANGED <<slot, snd, ctl, voice, evt>> /\ ~Waiting(s)
  BY DEF Play, Queue, ctlVars, audVars, CanRetire, Waiting
<1>2. PICK t \in Binds : cmd' = cmd \/ cmd' = Append(cmd, MkCmd(t, h, s, FALSE))
  BY DEF Play, Queue, Push1, Binds
<1>3. PICK c : c = MkCmd(t, h, s, FALSE)
  OBVIOUS
<1>4. c \in Cmd /\ c.t # "RETIRE" /\ c.s = s
  <2>1. t \in CmdTypes /\ t # "RETIRE"
    BY DEF CmdTypes, Binds
  <2>2. c \in Cmd
    BY <1>0, <1>3, <2>1, CmdType
  <2> QED BY <1>3, <2>1, <2>2 DEF MkCmd
<1>5. CmdsAdded
  BY <1>1, <1>2, <1>3, <1>4, BindList
<1> QED BY <1>1, <1>5, SoundsSame, SameSlots, SameBind, CallKeeps DEF Orderly

\* A retire that the control thread sends by itself or for rt_unload_sound, outside a create.
LEMMA RetireCallKeeps ==
    ASSUME Shape, Shape', FreshBind, Handshake, NEW s \in Handle, CanRetire(s),
           snd' = Retiring(snd, s), cmd' = Append(cmd, MkCmd("RETIRE", None, s, FALSE)),
           slot' = slot, voice' = voice, evt' = evt, ctl'.s = None
    PROVE  FreshBind' /\ Handshake'
<1>1. Waiting(s)' /\ ~Waiting(s) /\ GensKept /\ \A g \in Handle : StillThere(g)
  BY RetiringKeeps
<1>2. CmdsAdded
  <2>1. PICK w : w = <<>>
    OBVIOUS
  <2>2. w \in Seq(Cmd) /\ \A k \in 1 .. Len(w) : Neutral(w[k])
    BY <2>1
  <2>3. cmd \in Seq(Cmd) /\ cmd \o w = cmd
    BY <2>1 DEF Shape, TypeOK
  <2>4. PICK c : c = MkCmd("RETIRE", None, s, FALSE)
    OBVIOUS
  <2>5. Append(w, c) \in Seq(Cmd) /\ Admissible(Append(w, c)) /\ Append(cmd \o w, c) = cmd \o Append(w, c)
    BY <1>1, <2>2, <2>3, <2>4, RetireList
  <2>6. cmd' = cmd \o Append(w, c)
    BY <2>3, <2>4, <2>5
  <2> QED BY <2>5, <2>6 DEF CmdsAdded
<1> QED BY <1>1, <1>2, SameSlots, SameBind, CallKeeps DEF Orderly

LEMMA UnloadKeeps ==
    ASSUME Shape, Shape', FreshBind, Handshake, NEW s \in AppSounds, Unload(s)
    PROVE  FreshBind' /\ Handshake'
<1>1. s \in Handle
  BY ShapeParts, SoundFields DEF AppSounds
<1>2. ctl'.s = None
  BY ShapeParts DEF Unload, Call, ControlShape
<1> QED BY <1>1, <1>2, RetireCallKeeps DEF Unload, audVars

LEMMA RetryParkedKeeps ==
    ASSUME Shape, Shape', FreshBind, Handshake, NEW s \in ctl.try, RetryParked(s)
    PROVE  FreshBind' /\ Handshake'
<1>1. s \in Handle /\ ctl.s = None /\ ctl \in Ctl
  BY ShapeParts DEF RetryParked, ControlShape, Ctl
<1>2. ctl'.s = None /\ slot' = slot /\ voice' = voice /\ evt' = evt
  BY <1>1 DEF RetryParked, Ctl, audVars
<1>3. CASE /\ CanRetire(s) /\ snd' = Retiring(snd, s)
           /\ cmd' = Append(cmd, MkCmd("RETIRE", None, s, FALSE))
  BY <1>1, <1>2, <1>3, RetireCallKeeps
<1>4. CASE cmd' = cmd /\ snd' = snd
  BY <1>2, <1>4, SoundsSame, SameSlots, SameBind, QuietList, CallKeeps DEF Orderly
<1> QED BY <1>3, <1>4 DEF RetryParked

LEMMA LoadSoundKeeps ==
    ASSUME SlotsInv, Shape', FreshBind, Handshake, NEW stream \in BOOLEAN, LoadSound(stream)
    PROVE  FreshBind' /\ Handshake'
<1>0. Shape /\ ControlShape
  BY SlotsUse
<1>1. Len(sfree) > 0
  BY <1>0 DEF LoadSound, AllocSound, ControlShape
<1>2. PICK i : i = Last(sfree)
  OBVIOUS
<1>3. i \in Sound /\ ~snd[i].inuse
  BY <1>1, <1>2, TopSoundFree
<1>4. PICK r : r = [gen |-> snd[i].gen + 1, inuse |-> TRUE, retiring |-> FALSE,
                    stream |-> stream, internal |-> FALSE]
  OBVIOUS
<1>5. r \in SoundSlot /\ r.inuse /\ r.gen = snd[i].gen + 1
  <2>1. snd[i].gen + 1 \in Nat
    BY <1>0, <1>3, SoundFields
  <2> QED BY <1>4, <2>1 DEF SoundSlot
<1>6. snd' = [snd EXCEPT ![i] = r]
  BY <1>2, <1>4 DEF LoadSound, AllocSound
<1>7. GensKept /\ \A g \in Handle : StillThere(g)
  BY <1>0, <1>3, <1>5, <1>6, AllocKeeps
<1>8. slot' = slot /\ voice' = voice /\ evt' = evt /\ cmd' = cmd /\ ctl'.s = None
  BY <1>0 DEF LoadSound, Call, ControlShape, ringVars, audVars
<1> QED BY <1>0, <1>7, <1>8, SameSlots, SameBind, QuietList, CallKeeps DEF Orderly

LEMMA DrainEndedKeeps ==
    ASSUME Shape, Shape', FreshBind, Handshake, DrainEnded
    PROVE  FreshBind' /\ Handshake'
<1>1. /\ EvtShift(1) /\ 1 \in 0 .. 1 /\ BindKept /\ Head(evt).h \in Handle
  BY TakenEvt DEF DrainEnded, EvtTypes
<1>2. PICK h : h = Head(evt).h
  OBVIOUS
<1>3. PICK w \in Seq(Cmd) : cmd = cmd \o w /\ \A k \in 1 .. Len(w) : Neutral(w[k])
  BY <1>1, NeutralDestroy, NeutralLists
<1>4. GensKept /\ CmdsAdded /\ \A g \in Handle : StillThere(g)
  BY <1>1, <1>2, <1>3, ReleaseKeeps DEF DrainEnded
<1>5. PushKept
  <2>1. CASE Live(h)
    <3>1. /\ slot' = [slot EXCEPT ![h.idx].inuse = FALSE, ![h.idx].stealing = FALSE,
                                  ![h.idx].push = None]
          /\ h.idx \in Voice
      BY <1>2, <2>1 DEF DrainEnded, Live
    <3> QED BY <3>1, PushFields DEF PushKept
  <2>2. CASE ~Live(h)
    <3>1. slot' = [slot EXCEPT ![h.idx].stealing = FALSE]
      BY <1>2, <2>2 DEF DrainEnded
    <3>2. \A r \in Slot : [r EXCEPT !.stealing = FALSE].push = r.push
      BY DEF Slot
    <3>3. \A j \in Voice : slot'[j].push = slot[j].push
      BY <3>1, <3>2, PushFields
    <3> QED BY <3>3 DEF PushKept
  <2> QED BY <2>1, <2>2
<1>6. voice' = voice
  BY DEF DrainEnded, audVars
<1>7. Handshake'
  BY <1>1, <1>4, <1>6, Extended, ControlKeeps DEF CmdsAdded
<1> QED BY <1>1, <1>4, <1>5, <1>7, FreshKeeps

\* The acknowledgement handled frees the sound it names and no other.
LEMMA DrainRetiredKeeps ==
    ASSUME Shape, Shape', FreshBind, Handshake, DrainRetired
    PROVE  FreshBind' /\ Handshake'
<1>1. /\ EvtShift(1) /\ 1 \in 0 .. 1 /\ BindKept /\ Head(evt) = evt[1] /\ evt[1].t = "RETIRED"
      /\ evt[1].h \in Handle /\ 1 \in 1 .. Len(evt)
  BY TakenEvt DEF DrainRetired, EvtTypes
<1>2. PICK h \in Handle : h = evt[1].h
  BY <1>1
<1>3. SndLive(h) /\ h.idx \in Sound /\ snd[h.idx].gen = h.gen
  BY <1>1, <1>2, FindsIsWaiting DEF Handshake, Waiting, SndLive
<1>4. snd' = [snd EXCEPT ![h.idx].inuse = FALSE, ![h.idx].retiring = FALSE]
  BY <1>1, <1>2, <1>3 DEF DrainRetired
<1>5. /\ \A s \in Sound : s # h.idx => snd'[s] = snd[s]
      /\ \A s \in Sound : snd'[s].gen = snd[s].gen /\ snd[s].gen \in Nat
  <2>1. snd \in [Sound -> SoundSlot]
    BY DEF Shape, TypeOK
  <2>2. \A r \in SoundSlot : [r EXCEPT !.inuse = FALSE, !.retiring = FALSE].gen = r.gen
    BY DEF SoundSlot
  <2>3. \A s \in Sound : snd'[s].gen = snd[s].gen /\ (s # h.idx => snd'[s] = snd[s])
    BY <1>3, <1>4, <2>1, <2>2
  <2> QED BY <2>3, SoundFields, ShapeParts
<1>6. GensKept
  BY <1>5 DEF GensKept
<1>7. \A g \in Handle : StillThere(g) \/ evt[1].h = g
  <2>1. ASSUME NEW g \in Handle, g # h, SndLive(g) PROVE g.idx # h.idx
    <3>1. g = [idx |-> g.idx, gen |-> g.gen] /\ h = [idx |-> h.idx, gen |-> h.gen]
      BY DEF Handle
    <3> QED BY <1>3, <2>1, <3>1 DEF SndLive
  <2>2. ASSUME NEW g \in Handle, g # h PROVE StillThere(g)
    <3>1. CASE ~SndLive(g)
      BY <3>1 DEF StillThere, Waiting
    <3>2. CASE SndLive(g)
      <4>1. g.idx # h.idx /\ g.idx \in Sound
        BY <2>1, <2>2, <3>2 DEF SndLive
      <4> QED BY <1>5, <4>1 DEF StillThere, Waiting, SndLive
    <3> QED BY <3>1, <3>2
  <2> QED BY <1>2, <2>2
<1>8. slot' = slot /\ voice' = voice /\ cmd' = cmd
  BY DEF DrainRetired, audVars
<1>9. CmdsAdded
  BY <1>8, QuietList
<1>10. Handshake'
  BY <1>1, <1>7, <1>8, <1>9, Extended, ControlKeeps DEF CmdsAdded
<1> QED BY <1>1, <1>6, <1>8, <1>10, SameSlots, FreshKeeps

\* The calls that neither bind nor retire a sound.
LEMMA OtherControlKeeps ==
    ASSUME Shape, Shape', FreshBind, Handshake,
           \/ StopAll \/ \E h \in app : Stop(h)
           \/ \E h \in app, p \in Priorities : SetPriority(h, p)
           \/ Commit \/ BeginDrainEvents \/ EndDrainEvents
    PROVE  FreshBind' /\ Handshake'
<1>1. snd' = snd /\ voice' = voice /\ evt' = evt
  BY DEF StopAll, Stop, SetPriority, Commit, BeginDrainEvents, EndDrainEvents, ctlVars, ringVars, audVars
<1>2. ctl'.s = None
  <2>1. CASE StopAll \/ (\E h \in app : Stop(h)) \/ \E h \in app, p \in Priorities : SetPriority(h, p)
    BY <2>1, ShapeParts DEF StopAll, Stop, SetPriority, Call, ctlVars, ControlShape
  <2>2. CASE Commit \/ EndDrainEvents
    <3>1. Idle.s = None /\ [Idle EXCEPT !.pc = "retry", !.try = park].s = None
      BY DEF Idle
    <3> QED BY <2>2, <3>1 DEF Commit, EndDrainEvents
  <2>3. CASE BeginDrainEvents
    BY <2>3, ShapeParts DEF BeginDrainEvents, ControlShape, Ctl
  <2> QED BY <2>1, <2>2, <2>3
<1>3. PushKept
  <2>1. CASE \E h \in app, p \in Priorities : SetPriority(h, p)
    <3>1. PICK h \in app, p \in Priorities : SetPriority(h, p)
      BY <2>1
    <3>2. slot' = [slot EXCEPT ![h.idx].prio = p]
      BY <3>1 DEF SetPriority
    <3>3. \A r \in Slot : [r EXCEPT !.prio = p].push = r.push
      BY DEF Slot
    <3>4. \A j \in Voice : slot'[j].push = slot[j].push
      BY <3>2, <3>3, PushFields
    <3> QED BY <3>4 DEF PushKept
  <2>2. CASE StopAll \/ (\E h \in app : Stop(h)) \/ Commit \/ BeginDrainEvents \/ EndDrainEvents
    BY <2>2, SameSlots DEF StopAll, Stop, Commit, BeginDrainEvents, EndDrainEvents, ctlVars
  <2> QED BY <2>1, <2>2
<1>4. cmd' = cmd \/ \E c \in Cmd : cmd' = Append(cmd, c) /\ Neutral(c)
  <2>1. /\ \A h \in Handle : VCmd("STOP", h) \in Cmd /\ Neutral(VCmd("STOP", h))
        /\ VCmd("STOP_ALL", None) \in Cmd /\ Neutral(VCmd("STOP_ALL", None))
        /\ VCmd("COMMIT", None) \in Cmd /\ Neutral(VCmd("COMMIT", None))
    <3>1. {"STOP", "STOP_ALL", "COMMIT"} \subseteq CmdTypes
      BY DEF CmdTypes
    <3> QED BY <3>1, CmdType, Constants, NeutralCmds
  <2>2. \A h \in app : h \in Handle
    BY DEF Shape, TypeOK
  <2> QED BY <2>1, <2>2 DEF StopAll, Stop, SetPriority, Commit, BeginDrainEvents, EndDrainEvents,
             Push1, ringVars
<1> QED BY <1>1, <1>2, <1>3, <1>4, SoundsSame, SameBind, QuietList, CallKeeps DEF Orderly

LEMMA DrainNoticeKeeps ==
    ASSUME Shape, Shape', FreshBind, Handshake, DrainNotice
    PROVE  FreshBind' /\ Handshake'
<1>1. EvtShift(1) /\ 1 \in 0 .. 1 /\ BindKept
  BY TakenEvt DEF DrainNotice, EvtTypes
<1>2. slot' = slot /\ snd' = snd /\ voice' = voice /\ cmd' = cmd
  BY DEF DrainNotice, audVars
<1>3. CmdsAdded
  BY <1>2, QuietList
<1>4. Handshake'
  BY <1>1, <1>2, <1>3, SoundsSame, Extended, ControlKeeps DEF CmdsAdded
<1> QED BY <1>1, <1>2, <1>4, SameSlots, SoundsSame, FreshKeeps

-----------------------------------------------------------------------------
(* The actions of the audio thread. *)

\* No voice refers to a sound it did not refer to before.
RefsOld == \A i \in Voice : \A h : Refers(i, h)' /\ h # None => Refers(i, h)
\* The oldest d commands are handled.
CmdShift(d) == Len(cmd') = Len(cmd) - d /\ \A k \in 1 .. Len(cmd') : cmd'[k] = cmd[k + d]
\* At most one event is added, and no acknowledgement of a retire.
NoRetired == evt' = evt \/ \E e \in Evt : evt' = Append(evt, e) /\ e.t # "RETIRED"

LEMMA VoiceTypesPrime ==
    ASSUME Shape', NEW i \in Voice
    PROVE  /\ voice'[i].queue \in Seq(Handle) /\ Len(voice'[i].queue) \in Nat
           /\ \A h : Refers(i, h)' <=> \/ voice'[i].snd = h
                                       \/ \E k \in 1 .. Len(voice'[i].queue) : voice'[i].queue[k] = h
<1>1. voice'[i] \in VoiceRec
  BY DEF Shape, TypeOK
<1>2. voice'[i].queue \in Seq(Handle)
  BY <1>1 DEF VoiceRec
<1> QED BY <1>2 DEF Refers

LEMMA KeptRefs ==
    ASSUME NEW i \in Voice, voice'[i].snd \in {None, voice[i].snd},
           voice'[i].queue \in {<<>>, voice[i].queue}
    PROVE  \A h : Refers(i, h)' /\ h # None => Refers(i, h)
BY DEF Refers

LEMMA TakenCmd ==
    ASSUME Shape, NEW t \in CmdTypes, TakeCmd(t)
    PROVE  /\ CmdShift(1) /\ 1 \in 0 .. 1 /\ cmd[1] = Head(cmd) /\ cmd[1].t = t
           /\ cmd[1].s \in Handle /\ cmd[1].v \in Handle /\ 1 \in 1 .. Len(cmd)
           /\ snd' = snd
<1>1. cmd # <<>> /\ Head(cmd).v \in Handle /\ Head(cmd).s \in Handle
  BY TakeCmdShape
<1>2. cmd \in Seq(Cmd) /\ cmd' = Tail(cmd) /\ Head(cmd).t = t /\ snd' = snd
  BY DEF Shape, TypeOK, TakeCmd, ctlVars
<1>3. Len(cmd) \in Nat /\ Len(cmd) > 0 /\ Len(cmd') = Len(cmd) - 1 /\ Head(cmd) = cmd[1]
  BY <1>1, <1>2
<1>4. \A k \in 1 .. Len(cmd') : cmd'[k] = cmd[k + 1]
  BY <1>1, <1>2, <1>3
<1>5. 1 \in 0 .. 1 /\ 1 \in 1 .. Len(cmd)
  BY <1>3
<1> QED BY <1>1, <1>2, <1>3, <1>4, <1>5 DEF CmdShift

LEMMA SameCmd == ASSUME Shape, cmd' = cmd PROVE CmdShift(0) /\ 0 \in 0 .. 1
BY RingTypes DEF CmdShift

LEMMA AddedEvt ==
    ASSUME Shape, NEW e \in Evt, evt' = evt \/ evt' = Append(evt, e)
    PROVE  /\ Len(evt) <= Len(evt') /\ \A k \in 1 .. Len(evt) : evt'[k] = evt[k]
           /\ \A k \in 1 .. Len(evt') : k \notin 1 .. Len(evt) => k = Len(evt') /\ evt'[k] = e
<1>1. evt \in Seq(Evt) /\ Len(evt) \in Nat
  BY DEF Shape, TypeOK
<1>2. CASE evt' = evt
  BY <1>1, <1>2
<1>3. CASE evt' = Append(evt, e)
  BY <1>1, <1>3
<1> QED BY <1>2, <1>3

\* Any step of the audio thread but the one that handles a retire.
LEMMA QuietAudio ==
    ASSUME Shape, Shape', Handshake, snd' = snd, NEW d \in 0 .. 1, CmdShift(d), NoRetired,
           \A i \in Voice : \A h : Refers(i, h)' /\ h # None =>
                Refers(i, h) \/ (d = 1 /\ cmd[1].t \in Binds /\ h = cmd[1].s /\ SndLive(h))
    PROVE  Handshake'
<1>1. /\ Len(evt) <= Len(evt') /\ \A k \in 1 .. Len(evt) : evt'[k] = evt[k]
      /\ \A k \in 1 .. Len(evt') : k \notin 1 .. Len(evt) => evt'[k].t # "RETIRED"
  <2>1. CASE evt' = evt
    BY <2>1, RingTypes
  <2>2. CASE \E e \in Evt : evt' = Append(evt, e) /\ e.t # "RETIRED"
    <3>1. PICK e \in Evt : evt' = Append(evt, e) /\ e.t # "RETIRED"
      BY <2>2
    <3> QED BY <3>1, AddedEvt
  <2> QED BY <2>1, <2>2 DEF NoRetired
<1> QED BY <1>1, AudioKeeps DEF CmdShift

LEMMA QuietDrain ==
    ASSUME Shape, Shape', Handshake, NEW t \in CmdTypes, TakeCmd(t), NoRetired, RefsOld
    PROVE  Handshake'
BY TakenCmd, QuietAudio DEF RefsOld

LEMMA QuietMix ==
    ASSUME Shape, Shape', Handshake, snd' = snd, cmd' = cmd, NoRetired, RefsOld
    PROVE  Handshake'
BY SameCmd, QuietAudio DEF RefsOld

LEMMA AckedEnd ==
    \A h \in Handle : MkEvt("ENDED", h) \in Evt /\ MkEvt("NOTICE", h) \in Evt
                      /\ MkEvt("ENDED", h).t # "RETIRED" /\ MkEvt("NOTICE", h).t # "RETIRED"
BY DEF MkEvt, Evt, EvtTypes

LEMMA DrainCreateKeeps ==
    ASSUME Shape, Shape', Handshake, DrainCreate PROVE Handshake'
<1>1. PICK r, j : /\ r.snd = None /\ r.queue = <<>> /\ voice' = [voice EXCEPT ![j] = r]
  <2>1. PICK r : r = [gen |-> Head(cmd).v.gen, active |-> TRUE, playing |-> FALSE, snd |-> None,
                      stopping |-> 0, oneshot |-> FALSE, open |-> TRUE, queue |-> <<>>]
    OBVIOUS
  <2> QED BY <2>1 DEF DrainCreate
<1>2. voice \in [Voice -> VoiceRec]
  BY DEF Shape, TypeOK
<1>3. RefsOld
  BY <1>1, <1>2, KeptRefs DEF RefsOld
<1>4. "CREATE" \in CmdTypes /\ TakeCmd("CREATE") /\ evt' = evt
  BY DEF CmdTypes, DrainCreate
<1> QED BY <1>3, <1>4, QuietDrain DEF NoRetired

LEMMA DrainDestroyKeeps ==
    ASSUME Shape, Shape', Handshake, DrainDestroy PROVE Handshake'
<1>1. voice \in [Voice -> VoiceRec]
  BY DEF Shape, TypeOK
<1>2. \A r \in VoiceRec : LET q == [r EXCEPT !.active = FALSE, !.playing = FALSE, !.snd = None]
                          IN  q.snd = None /\ q.queue = r.queue
  BY DEF VoiceRec
<1>3. voice' = voice \/ \E j \in Voice :
        voice' = [voice EXCEPT ![j].active = FALSE, ![j].playing = FALSE, ![j].snd = None]
  BY DEF DrainDestroy, VoiceFor
<1>4. RefsOld
  <2>1. \A i \in Voice : voice'[i].snd \in {None, voice[i].snd} /\ voice'[i].queue = voice[i].queue
    <3>1. CASE voice' = voice
      BY <3>1
    <3>2. ASSUME NEW j \in Voice,
                 voice' = [voice EXCEPT ![j].active = FALSE, ![j].playing = FALSE, ![j].snd = None]
          PROVE  \A i \in Voice : voice'[i].snd \in {None, voice[i].snd} /\ voice'[i].queue = voice[i].queue
      <4>1. voice'[j].snd = None /\ voice'[j].queue = voice[j].queue
        BY <1>1, <1>2, <3>2
      <4>2. \A i \in Voice : i # j => voice'[i] = voice[i]
        BY <1>1, <3>2
      <4> QED BY <4>1, <4>2
    <3> QED BY <1>3, <3>1, <3>2
  <2> QED BY <2>1, KeptRefs DEF RefsOld
<1>5. "DESTROY" \in CmdTypes /\ TakeCmd("DESTROY") /\ evt' = evt
  BY DEF CmdTypes, DrainDestroy
<1> QED BY <1>4, <1>5, QuietDrain DEF NoRetired

LEMMA DrainPlayKeeps ==
    ASSUME Shape, Shape', Handshake, DrainPlay PROVE Handshake'
<1>1. voice \in [Voice -> VoiceRec]
  BY DEF Shape, TypeOK
<1>2. PICK c : c = Head(cmd)
  OBVIOUS
<1>3. "PLAY" \in CmdTypes /\ TakeCmd("PLAY") /\ evt' = evt
  BY DEF CmdTypes, DrainPlay
<1>4. cmd[1] = c /\ cmd[1].t \in Binds /\ CmdShift(1) /\ 1 \in 0 .. 1 /\ snd' = snd
  BY <1>2, <1>3, TakenCmd DEF Binds
<1>5. \A r \in VoiceRec : /\ Bound(r, c).snd = c.s /\ Bound(r, c).queue = <<>>
                          /\ Detached(r).snd = None /\ Detached(r).queue = r.queue
  BY DEF VoiceRec, Bound, Detached
<1>6. ASSUME NEW i \in Voice, NEW h, Refers(i, h)', h # None
      PROVE  Refers(i, h) \/ (h = c.s /\ SndLive(h))
  <2>1. CASE voice' = voice
    BY <1>6, <2>1 DEF Refers
  <2>2. CASE /\ SoundFor(c.s)
             /\ voice' = [k \in Voice |->
                            IF k = c.v.idx THEN Bound(voice[k], c)
                            ELSE IF snd[c.s.idx].stream /\ voice[k].snd.idx = c.s.idx THEN Detached(voice[k])
                            ELSE voice[k]]
    <3>1. voice[i] \in VoiceRec
      BY <1>1
    <3>2. CASE i = c.v.idx
      <4>1. voice'[i].snd = c.s /\ voice'[i].queue = <<>>
        BY <1>5, <2>2, <3>1, <3>2
      <4> QED BY <1>6, <2>2, <4>1 DEF Refers, SoundFor
    <3>3. CASE i # c.v.idx
      <4>1. voice'[i].snd \in {None, voice[i].snd} /\ voice'[i].queue = voice[i].queue
        BY <1>5, <2>2, <3>1, <3>3
      <4> QED BY <1>6, <4>1, KeptRefs
    <3> QED BY <3>2, <3>3
  <2> QED BY <1>2, <2>1, <2>2 DEF DrainPlay
<1> QED BY <1>3, <1>4, <1>6, QuietAudio DEF NoRetired

LEMMA DrainStopKeeps ==
    ASSUME Shape, Shape', Handshake, DrainStop PROVE Handshake'
<1>1. voice \in [Voice -> VoiceRec]
  BY DEF Shape, TypeOK
<1>2. \A r \in VoiceRec : LET q == [r EXCEPT !.stopping = 1] IN q.snd = r.snd /\ q.queue = r.queue
  BY DEF VoiceRec
<1>3. PICK j : voice' = voice \/ voice' = [voice EXCEPT ![j].stopping = 1]
  BY DEF DrainStop
<1>4. RefsOld
  BY <1>1, <1>2, <1>3, KeptRefs DEF RefsOld
<1>5. "STOP" \in CmdTypes /\ TakeCmd("STOP") /\ evt' = evt
  BY DEF CmdTypes, DrainStop
<1> QED BY <1>4, <1>5, QuietDrain DEF NoRetired

LEMMA DrainStopAllKeeps ==
    ASSUME Shape, Shape', Handshake, DrainStopAll PROVE Handshake'
<1>1. voice \in [Voice -> VoiceRec]
  BY DEF Shape, TypeOK
<1>2. \A r \in VoiceRec : LET q == [r EXCEPT !.stopping = 1, !.queue = <<>>]
                          IN  q.snd = r.snd /\ q.queue = <<>>
  BY DEF VoiceRec
<1>3. voice' = [i \in Voice |-> IF voice[i].active /\ voice[i].playing /\ voice[i].stopping # 2
                                THEN [voice[i] EXCEPT !.stopping = 1, !.queue = <<>>] ELSE voice[i]]
  BY DEF DrainStopAll
<1>4. \A i \in Voice : voice'[i].snd = voice[i].snd /\ voice'[i].queue \in {<<>>, voice[i].queue}
  BY <1>1, <1>2, <1>3
<1>5. RefsOld
  BY <1>4, KeptRefs DEF RefsOld
<1>6. "STOP_ALL" \in CmdTypes /\ TakeCmd("STOP_ALL") /\ evt' = evt
  BY DEF CmdTypes, DrainStopAll
<1> QED BY <1>5, <1>6, QuietDrain DEF NoRetired

LEMMA DrainQueueKeeps ==
    ASSUME Shape, Shape', Handshake, DrainQueue PROVE Handshake'
<1>1. voice \in [Voice -> VoiceRec]
  BY DEF Shape, TypeOK
<1>2. PICK c : c = Head(cmd)
  OBVIOUS
<1>3. "QUEUE" \in CmdTypes /\ TakeCmd("QUEUE") /\ evt' = evt
  BY DEF CmdTypes, DrainQueue
<1>4. cmd[1] = c /\ cmd[1].t \in Binds /\ CmdShift(1) /\ 1 \in 0 .. 1 /\ snd' = snd /\ c.s \in Handle
  BY <1>2, <1>3, TakenCmd DEF Binds
<1>5. \A r \in VoiceRec : LET q == [r EXCEPT !.queue = Append(@, c.s)]
                          IN  q.snd = r.snd /\ q.queue = Append(r.queue, c.s)
  BY DEF VoiceRec
<1>6. ASSUME NEW i \in Voice, NEW h, Refers(i, h)', h # None
      PROVE  Refers(i, h) \/ (h = c.s /\ SndLive(h))
  <2>1. CASE voice' = voice
    BY <1>6, <2>1 DEF Refers
  <2>2. CASE SoundFor(c.s) /\ voice' = [voice EXCEPT ![c.v.idx].queue = Append(@, c.s)]
    <3>1. voice[i] \in VoiceRec /\ voice[i].queue \in Seq(Handle)
      BY <1>1, VoiceTypes
    <3>2. CASE i = c.v.idx
      <4>1. voice'[i].snd = voice[i].snd /\ voice'[i].queue = Append(voice[i].queue, c.s)
        BY <1>1, <1>5, <2>2, <3>1, <3>2
      <4>2. \A k \in 1 .. Len(Append(voice[i].queue, c.s)) :
                \/ k \in 1 .. Len(voice[i].queue) /\ Append(voice[i].queue, c.s)[k] = voice[i].queue[k]
                \/ Append(voice[i].queue, c.s)[k] = c.s
        BY <1>4, <3>1
      <4> QED BY <1>6, <2>2, <4>1, <4>2 DEF Refers, SoundFor
    <3>3. CASE i # c.v.idx
      <4>1. voice'[i] = voice[i]
        BY <1>1, <2>2, <3>3
      <4> QED BY <1>6, <4>1 DEF Refers
    <3> QED BY <3>2, <3>3
  <2> QED BY <1>2, <2>1, <2>2 DEF DrainQueue
<1> QED BY <1>3, <1>4, <1>6, QuietAudio DEF NoRetired

LEMMA EndedQuiet ==
    ASSUME NEW h \in Handle, evt' = evt \/ PushAck(MkEvt("ENDED", h)) \/ PushNotice(MkEvt("NOTICE", h))
    PROVE  NoRetired
BY AckedEnd DEF NoRetired, PushAck, PushNotice

LEMMA DrainStealKeeps ==
    ASSUME Shape, Shape', Handshake, DrainSteal PROVE Handshake'
<1>1. voice \in [Voice -> VoiceRec]
  BY DEF Shape, TypeOK
<1>2. "STEAL" \in CmdTypes /\ TakeCmd("STEAL")
  BY DEF CmdTypes, DrainSteal
<1>3. PICK h \in Handle : h = Head(cmd).v
  BY <1>2, TakeCmdShape
<1>4. NoRetired
  BY <1>3, EndedQuiet DEF DrainSteal
<1>5. /\ \A r \in VoiceRec : LET q == [r EXCEPT !.stopping = 2] IN q.snd = r.snd /\ q.queue = r.queue
      /\ \A r \in VoiceRec : LET q == [r EXCEPT !.stopping = 0, !.active = FALSE, !.snd = None]
                             IN  q.snd = None /\ q.queue = r.queue
  BY DEF VoiceRec
<1>6. \/ voice' = voice
      \/ /\ h.idx \in Voice
         /\ \/ voice' = [voice EXCEPT ![h.idx].stopping = 2]
            \/ voice' = [voice EXCEPT ![h.idx].stopping = 0, ![h.idx].active = FALSE, ![h.idx].snd = None]
  BY <1>3 DEF DrainSteal, VoiceFor
<1>7. RefsOld
  <2>1. \A i \in Voice : voice'[i].snd \in {None, voice[i].snd} /\ voice'[i].queue = voice[i].queue
    <3>1. CASE voice' = voice
      BY <3>1
    <3>2. CASE h.idx \in Voice /\ voice' = [voice EXCEPT ![h.idx].stopping = 2]
      BY <1>1, <1>5, <3>2
    <3>3. CASE /\ h.idx \in Voice
               /\ voice' = [voice EXCEPT ![h.idx].stopping = 0, ![h.idx].active = FALSE, ![h.idx].snd = None]
      <4>1. voice'[h.idx].snd = None /\ voice'[h.idx].queue = voice[h.idx].queue
        BY <1>1, <1>5, <3>3
      <4>2. \A i \in Voice : i # h.idx => voice'[i] = voice[i]
        BY <1>1, <3>3
      <4> QED BY <4>1, <4>2
    <3> QED BY <1>6, <3>1, <3>2, <3>3
  <2> QED BY <2>1, KeptRefs DEF RefsOld
<1> QED BY <1>2, <1>4, <1>7, QuietDrain

\* CMD_SOUND_RETIRE: every reference to the sound is gone when its acknowledgement is posted.
LEMMA DrainRetireKeeps ==
    ASSUME Shape, Shape', Handshake, DrainRetire PROVE Handshake'
<1>1. voice \in [Voice -> VoiceRec]
  BY DEF Shape, TypeOK
<1>2. "RETIRE" \in CmdTypes /\ TakeCmd("RETIRE")
  BY DEF CmdTypes, DrainRetire
<1>3. /\ CmdShift(1) /\ 1 \in 0 .. 1 /\ cmd[1] = Head(cmd) /\ cmd[1].t = "RETIRE"
      /\ cmd[1].s \in Handle /\ 1 \in 1 .. Len(cmd) /\ snd' = snd
  BY <1>2, TakenCmd
<1>4. PICK h \in Handle : h = cmd[1].s
  BY <1>3
<1>5. SndLive(h)
  BY <1>3, <1>4, FindsIsWaiting DEF Handshake, Waiting
<1>6. voice' = [i \in Voice |-> Released(voice[i], h.idx)]
  BY <1>3, <1>4, <1>5 DEF DrainRetire, SoundFor
<1>7. ASSUME NEW i \in Voice, NEW g, Refers(i, g)'
      PROVE  (g # None => Refers(i, g)) /\ g # h
  <2>1. /\ voice[i] \in VoiceRec /\ voice[i].queue \in Seq(Handle) /\ Len(voice[i].queue) \in Nat
        /\ voice'[i] = Released(voice[i], h.idx)
    BY <1>1, <1>6, VoiceTypes
  <2>2. /\ Released(voice[i], h.idx).snd = IF voice[i].snd.idx = h.idx THEN None ELSE voice[i].snd
        /\ Released(voice[i], h.idx).queue =
                [k \in DOMAIN voice[i].queue |->
                    IF voice[i].queue[k].idx = h.idx THEN None ELSE voice[i].queue[k]]
    BY <2>1 DEF VoiceRec, Released
  <2>3. /\ voice'[i].queue \in Seq(Handle) /\ Len(voice'[i].queue) \in Nat
        /\ voice'[i].snd = g \/ \E k \in 1 .. Len(voice'[i].queue) : voice'[i].queue[k] = g
    BY <1>7, VoiceTypesPrime
  <2>4. h # None /\ h.idx # None.idx
    BY <1>5, NoneNotLive, Constants DEF SndLive, None, Sound
  <2>5. CASE voice'[i].snd = g
    BY <2>1, <2>2, <2>4, <2>5 DEF Refers
  <2>6. CASE \E k \in 1 .. Len(voice'[i].queue) : voice'[i].queue[k] = g
    <3>1. PICK k \in 1 .. Len(voice'[i].queue) : voice'[i].queue[k] = g
      BY <2>6
    <3>2. k \in DOMAIN voice[i].queue /\ k \in 1 .. Len(voice[i].queue)
      <4>1. DOMAIN voice'[i].queue = DOMAIN voice[i].queue
        BY <2>1, <2>2
      <4> QED BY <2>1, <2>3, <3>1, <4>1
    <3>3. g = IF voice[i].queue[k].idx = h.idx THEN None ELSE voice[i].queue[k]
      BY <2>1, <2>2, <3>1, <3>2
    <3> QED BY <2>4, <3>2, <3>3 DEF Refers
  <2> QED BY <2>3, <2>5, <2>6
<1>8. PICK e : e = MkEvt("RETIRED", h)
  OBVIOUS
<1>9. e \in Evt /\ e.h = h /\ e.t = "RETIRED"
  BY <1>8 DEF MkEvt, Evt, EvtTypes
<1>10. evt' = evt \/ evt' = Append(evt, e)
  BY <1>3, <1>4, <1>8 DEF DrainRetire, PushAck
<1>11. /\ Len(evt) <= Len(evt') /\ \A k \in 1 .. Len(evt) : evt'[k] = evt[k]
       /\ \A k \in 1 .. Len(evt') : k \notin 1 .. Len(evt) => k = Len(evt') /\ evt'[k] = e
  BY <1>9, <1>10, AddedEvt
<1>12. \A k \in 1 .. Len(evt') : k \notin 1 .. Len(evt) /\ evt'[k].t = "RETIRED" =>
        /\ 1 = 1 /\ cmd[1].t = "RETIRE" /\ evt'[k].h = cmd[1].s /\ k = Len(evt')
        /\ \A i \in Voice : \A g : Refers(i, g)' => g # cmd[1].s
  BY <1>3, <1>4, <1>7, <1>9, <1>11
<1>13. \A i \in Voice : \A g : Refers(i, g)' /\ g # None =>
        Refers(i, g) \/ (1 = 1 /\ cmd[1].t \in Binds /\ g = cmd[1].s /\ SndLive(g))
  BY <1>7
<1>14. Len(cmd') = Len(cmd) - 1 /\ \A k \in 1 .. Len(cmd') : cmd'[k] = cmd[k + 1]
  BY <1>3 DEF CmdShift
<1> QED BY <1>3, <1>11, <1>12, <1>13, <1>14, AudioKeeps

LEMMA QuietAudioSteps ==
    ASSUME Shape, Shape', Handshake, DrainParam \/ EndDrainCommands \/ BeginBlock \/ EndBlock
    PROVE  Handshake'
<1>1. voice' = voice /\ evt' = evt /\ snd' = snd
  BY DEF DrainParam, EndDrainCommands, BeginBlock, EndBlock, TakeCmd, ctlVars, ringVars
<1>2. RefsOld /\ NoRetired
  BY <1>1 DEF RefsOld, NoRetired, Refers
<1>3. CASE DrainParam
  <2>1. PICK t \in {"PARAM", "COMMIT"} : TakeCmd(t)
    BY <1>3 DEF DrainParam
  <2>2. t \in CmdTypes
    BY DEF CmdTypes
  <2> QED BY <1>2, <2>1, <2>2, QuietDrain
<1>4. CASE EndDrainCommands \/ BeginBlock \/ EndBlock
  BY <1>1, <1>2, <1>4, QuietMix DEF EndDrainCommands, BeginBlock, EndBlock, ringVars
<1> QED BY <1>3, <1>4

LEMMA MixKeeps ==
    ASSUME Shape, Shape', Handshake, NEW i \in Voice, MixFinalize(i) \/ MixOn(i) \/ MixChain(i) \/ MixEnd(i)
    PROVE  Handshake'
<1>0. voice \in [Voice -> VoiceRec] /\ H(i, voice[i].gen) \in Handle
  <2>1. voice \in [Voice -> VoiceRec]
    BY DEF Shape, TypeOK
  <2>2. voice[i].gen \in Nat /\ i \in Nat
    BY <2>1, Constants DEF VoiceRec, Voice
  <2> QED BY <2>1, <2>2, HandleType
<1>1. snd' = snd /\ cmd' = cmd
  BY DEF MixFinalize, MixOn, MixChain, MixEnd, Mixed, ctlVars
<1>2. NoRetired
  BY <1>0, EndedQuiet DEF MixFinalize, MixOn, MixChain, MixEnd
<1>3. RefsOld
  <2>1. CASE MixFinalize(i)
    <3>1. PICK b : voice' = [voice EXCEPT ![i].stopping = 0, ![i].playing = FALSE, ![i].active = b]
      BY <2>1 DEF MixFinalize
    <3>2. \A r \in VoiceRec : LET q == [r EXCEPT !.stopping = 0, !.playing = FALSE, !.active = b]
                              IN  q.snd = r.snd /\ q.queue = r.queue
      BY DEF VoiceRec
    <3>3. \A j \in Voice : voice'[j].snd = voice[j].snd /\ voice'[j].queue = voice[j].queue
      BY <1>0, <3>1, <3>2
    <3> QED BY <3>3, KeptRefs DEF RefsOld
  <2>2. CASE MixOn(i)
    <3>1. PICK o : voice' = [voice EXCEPT ![i].open = o]
      BY <2>2 DEF MixOn
    <3>2. \A r \in VoiceRec : LET q == [r EXCEPT !.open = o] IN q.snd = r.snd /\ q.queue = r.queue
      BY DEF VoiceRec
    <3>3. \A j \in Voice : voice'[j].snd = voice[j].snd /\ voice'[j].queue = voice[j].queue
      BY <1>0, <3>1, <3>2
    <3> QED BY <3>3, KeptRefs DEF RefsOld
  <2>3. CASE MixChain(i)
    <3>1. PICK q, k, o : /\ q = voice[i].queue /\ k \in 1 .. Len(q)
                         /\ voice' = [voice EXCEPT ![i].snd = q[k], ![i].queue = SubSeq(q, k + 1, Len(q)),
                                                   ![i].open = o]
      BY <2>3 DEF MixChain, Valid
    <3>2. PICK tail : tail = SubSeq(q, k + 1, Len(q))
      OBVIOUS
    <3>3. \A r \in VoiceRec : LET c == [r EXCEPT !.snd = q[k], !.queue = tail, !.open = o]
                              IN  c.snd = q[k] /\ c.queue = tail
      BY DEF VoiceRec
    <3>4. /\ voice'[i].snd = q[k] /\ voice'[i].queue = tail
          /\ \A j \in Voice : j # i => voice'[j] = voice[j]
      BY <1>0, <3>1, <3>2, <3>3
    <3>5. q \in Seq(Handle) /\ Len(q) \in Nat
      BY <3>1, VoiceTypes
    <3>6. \A m \in 1 .. Len(tail) : \E n \in 1 .. Len(q) : tail[m] = q[n]
      <4>1. /\ Len(tail) = IF k + 1 <= Len(q) THEN Len(q) - (k + 1) + 1 ELSE 0
            /\ \A m \in 1 .. Len(q) - (k + 1) + 1 : tail[m] = q[k + 1 + m - 1]
        <5>1. q \in Seq(Handle) /\ k + 1 \in 1 .. Len(q) + 1 /\ Len(q) \in 0 .. Len(q)
          BY <3>1, <3>5
        <5> QED BY <3>2, <5>1, SubSeqProperties
      <4>2. ASSUME NEW m \in 1 .. Len(tail) PROVE k + 1 + m - 1 \in 1 .. Len(q) /\ tail[m] = q[k + 1 + m - 1]
        <5>1. k \in Nat /\ k + 1 <= Len(q)
          BY <3>1, <3>5, <4>1
        <5>2. Len(tail) = Len(q) - (k + 1) + 1
          BY <4>1, <5>1
        <5> QED BY <3>5, <4>1, <5>1, <5>2
      <4> QED BY <4>2
    <3>7. ASSUME NEW h, Refers(i, h)' PROVE Refers(i, h)
      <4>1. voice'[i].snd = h \/ \E m \in 1 .. Len(tail) : tail[m] = h
        BY <3>4, <3>7, VoiceTypesPrime
      <4>2. \E n \in 1 .. Len(q) : q[n] = h
        <5>1. CASE voice'[i].snd = h
          BY <3>1, <3>4, <5>1
        <5>2. CASE \E m \in 1 .. Len(tail) : tail[m] = h
          BY <3>6, <5>2
        <5> QED BY <4>1, <5>1, <5>2
      <4> QED BY <3>1, <4>2 DEF Refers
    <3>8. \A j \in Voice : j # i => \A h : Refers(j, h)' => Refers(j, h)
      BY <3>4 DEF Refers
    <3> QED BY <3>7, <3>8 DEF RefsOld
  <2>4. CASE MixEnd(i)
    <3>1. PICK b, o, q : /\ q \in {<<>>, voice[i].queue}
                         /\ voice' = [voice EXCEPT ![i].playing = FALSE, ![i].open = o, ![i].active = b,
                                                   ![i].queue = q]
      BY <2>4 DEF MixEnd
    <3>2. \A r \in VoiceRec : LET c == [r EXCEPT !.playing = FALSE, !.open = o, !.active = b, !.queue = q]
                              IN  c.snd = r.snd /\ c.queue = q
      BY DEF VoiceRec
    <3>3. /\ voice'[i].snd = voice[i].snd /\ voice'[i].queue = q
          /\ \A j \in Voice : j # i => voice'[j] = voice[j]
      BY <1>0, <3>1, <3>2
    <3>4. \A j \in Voice : voice'[j].snd = voice[j].snd /\ voice'[j].queue \in {<<>>, voice[j].queue}
      BY <3>1, <3>3
    <3> QED BY <3>4, KeptRefs DEF RefsOld
  <2> QED BY <2>1, <2>2, <2>3, <2>4
<1> QED BY <1>1, <1>2, <1>3, QuietMix

-----------------------------------------------------------------------------
(* The theorems. *)

LEMMA AudioFresh == FreshBind /\ UNCHANGED <<slot, snd, ctl>> => FreshBind'
BY DEF FreshBind, CanRetire, SndLive

LEMMA ControlStepKeeps ==
    ASSUME SlotsInv, Shape', FreshBind, Handshake, ControlNext
    PROVE  FreshBind' /\ Handshake'
<1>1. Shape
  BY SlotsUse
<1> QED BY <1>1, CreateSourceKeeps, CreateStreamKeeps, CreateCutKeeps, CreatePushKeeps, PlayOneshotKeeps,
        UnloadKeeps, BindCallKeeps, DestroySourceKeeps, LoadSoundKeeps, RetryParkedKeeps,
        DrainEndedKeeps, DrainRetiredKeeps, DrainNoticeKeeps, OtherControlKeeps DEF ControlNext

LEMMA AudioStepKeeps ==
    ASSUME Shape, Shape', FreshBind, Handshake, AudioNext
    PROVE  FreshBind' /\ Handshake'
<1>1. Handshake'
  BY DrainCreateKeeps, DrainDestroyKeeps, DrainPlayKeeps, DrainStopKeeps, DrainStopAllKeeps,
     DrainQueueKeeps, DrainStealKeeps, DrainRetireKeeps, QuietAudioSteps, MixKeeps DEF AudioNext
<1>2. UNCHANGED ctlVars
  BY DEF AudioNext, BeginBlock, EndDrainCommands, EndBlock, DrainCreate, DrainDestroy, DrainPlay,
     DrainStop, DrainStopAll, DrainQueue, DrainSteal, DrainRetire, DrainParam, TakeCmd,
     MixFinalize, MixOn, MixChain, MixEnd, Mixed
<1> QED BY <1>1, <1>2, AudioFresh DEF ctlVars

\* At the start nothing is in flight and no voice refers to a sound.
LEMMA InitHandshake == Init => FreshBind /\ Handshake
<1> SUFFICES ASSUME Init PROVE FreshBind /\ Handshake
  OBVIOUS
<1>1. Len(cmd) = 0 /\ Len(evt) = 0
  BY DEF Init
<1>2. ctl.s = None /\ \A i \in Voice : slot[i].push = None
  BY DEF Init, Idle
<1>3. \A i \in Voice : voice[i].snd = None /\ Len(voice[i].queue) = 0
  BY DEF Init
<1> QED BY <1>1, <1>2, <1>3 DEF FreshBind, Handshake, RetireFindsItsSound, AckFindsItsSound, RetireOnce,
        NoBindAfterRetire, AckedUnreferenced, NoDanglingSound

LEMMA RetireParts == RetireInv <=> Shape /\ FreshBind /\ Handshake
BY DEF RetireInv, Shape, Handshake

\* The invariant of the retire handshake - what must hold of the retires, binds and
\* acknowledgements in flight for drain_events to be right to free the data - holds in every
\* reachable state of every instance.
THEOREM RetireInvariant == Spec => []RetireInv
<1>1. Init => FreshBind /\ Handshake
  BY InitHandshake
<1>2. SlotsInv /\ SlotsInv' /\ FreshBind /\ Handshake /\ [Next]_vars => FreshBind' /\ Handshake'
  <2>1. ASSUME SlotsInv, SlotsInv', FreshBind, Handshake, Next PROVE FreshBind' /\ Handshake'
    <3>1. Shape /\ Shape'
      BY <2>1, SlotsUse, SlotsPartsPrime
    <3> QED BY <2>1, <3>1, ControlStepKeeps, AudioStepKeeps DEF Next
  <2>2. ASSUME FreshBind, Handshake, UNCHANGED vars PROVE FreshBind' /\ Handshake'
    <3>1. FreshBind' /\ RetireFindsItsSound' /\ AckFindsItsSound'
      BY <2>2 DEF FreshBind, CanRetire, SndLive, Handshake, RetireFindsItsSound, AckFindsItsSound, vars
    <3>2. RetireOnce' /\ NoBindAfterRetire'
      BY <2>2 DEF Handshake, RetireOnce, NoBindAfterRetire, vars
    <3>3. AckedUnreferenced' /\ NoDanglingSound'
      BY <2>2 DEF Handshake, AckedUnreferenced, NoDanglingSound, SndLive, vars
    <3> QED BY <3>1, <3>2, <3>3 DEF Handshake
  <2> QED BY <2>1, <2>2
<1>3. SlotsInv /\ FreshBind /\ Handshake => RetireInv
  BY SlotsUse, RetireParts
<1> QED BY <1>1, <1>2, <1>3, SlotsInvariant, PTL DEF Spec

\* No voice ever points at, or has queued, a sound buffer that drain_events freed, or freed and
\* handed out again, whatever the interleaving of rt_unload_sound, plays, chains and blocks.
THEOREM NoDanglingSoundCorrect == Spec => []NoDanglingSound
<1>1. RetireInv => NoDanglingSound
  BY DEF RetireInv
<1> QED BY <1>1, RetireInvariant, PTL

\* Every acknowledgement frees a sound that still waits for it: no buffer is freed twice, and
\* none that a later load put in the slot.
THEOREM AckFindsItsSoundCorrect == Spec => []AckFindsItsSound
<1>1. RetireInv => AckFindsItsSound
  BY DEF RetireInv
<1> QED BY <1>1, RetireInvariant, PTL
=============================================================================
