---------------------------- MODULE VoicePoolInv ----------------------------
(***************************************************************************)
(* The inductive strengthenings of VoicePool's safety properties: what     *)
(* must hold of the commands and events in flight for the retire handshake *)
(* to be safe (RetireInv), for a slot to be let to one source at a time on *)
(* both threads (LetInv), for a stream to have one consumer (ChainInv),    *)
(* for no sound of a push source to be lost (PushInv), and for every       *)
(* ownership ack to fit the event ring (AckRoomInv).  They are proved for  *)
(* every value of the constants in VoicePool_proofs and                    *)
(* VoicePoolLets_proofs.                                                   *)
(***************************************************************************)
EXTENDS VoicePool

Binds == {"PLAY", "QUEUE"}

\* Where the two threads are is consistent with what they hold: the control thread's locals name
\* slots while a call is under way, and neither thread has more left to handle than its ring holds.
ThreadsOK ==
    /\ ctl.pc = "cut" => ctl.vic.idx \in Voice
    /\ ctl.pc = "push" => ctl.h.idx \in Voice
    /\ ctl.pc \notin {"push", "cut"} => ctl.s = None
    /\ ctl.pc = "drain" => ctl.todo <= Len(evt)
    /\ aud.pc = "drain" => aud.todo <= Len(cmd)

\* The slot a call in progress is about to reuse or to create on is let, at the handle it holds.
CallHoldsSlots ==
    /\ ctl.pc = "cut" => Live(ctl.vic)
    /\ ctl.pc = "push" => Live(ctl.h)

\* The sound rt_source_create_stream is about to bind is fresh: loaded, not retiring, and no
\* source's push mapping names it yet.
FreshBind ==
    /\ ctl.s # None => CanRetire(ctl.s)
    /\ \A i \in Voice : slot[i].push # None =>
        /\ slot[i].push # ctl.s
        /\ slot[i].push.idx \in Sound /\ slot[i].push.gen <= snd[slot[i].push.idx].gen

\* A CMD_SOUND_RETIRE in flight finds its sound still waiting.
RetireFindsItsSound ==
    \A k \in 1 .. Len(cmd) : cmd[k].t = "RETIRE" => SndLive(cmd[k].s) /\ snd[cmd[k].s.idx].retiring

\* At most one retire or acknowledgement is in flight for a sound.
RetireOnce ==
    /\ \A j, k \in 1 .. Len(cmd) :
        cmd[j].t = "RETIRE" /\ cmd[k].t = "RETIRE" /\ cmd[j].s = cmd[k].s => j = k
    /\ \A j, k \in 1 .. Len(evt) :
        evt[j].t = "RETIRED" /\ evt[k].t = "RETIRED" /\ evt[j].h = evt[k].h => j = k
    /\ \A j \in 1 .. Len(cmd), k \in 1 .. Len(evt) :
        cmd[j].t = "RETIRE" /\ evt[k].t = "RETIRED" => cmd[j].s # evt[k].h

\* No command that binds a sound follows its retire in the ring.
NoBindAfterRetire ==
    \A j, k \in 1 .. Len(cmd) :
        j < k /\ cmd[j].t = "RETIRE" /\ cmd[k].t \in Binds => cmd[j].s # cmd[k].s

\* Once a retire is acknowledged, no voice refers to the sound and no command in flight can
\* make one refer to it again.
AckedUnreferenced ==
    \A n \in 1 .. Len(evt) : evt[n].t = "RETIRED" =>
        /\ \A k \in 1 .. Len(cmd) : cmd[k].t \in Binds => cmd[k].s # evt[n].h
        /\ \A i \in Voice :
            /\ voice[i].snd # evt[n].h
            /\ \A k \in 1 .. Len(voice[i].queue) : voice[i].queue[k] # evt[n].h

\* The inductive invariant of the free lists.
SlotsInv == TypeOK /\ ThreadsOK /\ CallHoldsSlots /\ FreelistExact

\* The inductive invariant of the retire handshake.
RetireInv ==
    /\ TypeOK /\ ThreadsOK /\ FreshBind
    /\ RetireFindsItsSound /\ AckFindsItsSound /\ RetireOnce
    /\ NoBindAfterRetire /\ AckedUnreferenced /\ NoDanglingSound

-----------------------------------------------------------------------------
(* One let at a time. *)

Commands(t) == {k \in 1 .. Len(cmd) : cmd[k].t = t}
\* The destroy of h is on its way, behind the command n.
DestroyAfter(n, h) == \E j \in Commands("DESTROY") : j > n /\ cmd[j].v = h
\* What voice i was last created for.
VoiceHandle(i) == H(i, voice[i].gen)

\* The lets of a slot reach the audio thread in order: a voice is at an earlier one than any create
\* on its way, and those come in order; what has ended was created.
LetOrder ==
    /\ \A i \in Voice : voice[i].gen <= slot[i].gen
    /\ \A k \in Commands("CREATE") :
        /\ cmd[k].v.idx \in Voice
        /\ voice[cmd[k].v.idx].gen < cmd[k].v.gen /\ cmd[k].v.gen <= slot[cmd[k].v.idx].gen
    /\ \A j, k \in Commands("CREATE") : j < k /\ cmd[j].v.idx = cmd[k].v.idx => cmd[j].v.gen < cmd[k].v.gen
    /\ ctl.pc = "push" =>
        /\ voice[ctl.h.idx].gen < ctl.h.gen
        /\ \A k \in Commands("CREATE") : cmd[k].v.idx = ctl.h.idx => cmd[k].v.gen < ctl.h.gen
    /\ \A k \in 1 .. Len(evt) : evt[k].t = "ENDED" =>
        evt[k].h.idx \in Voice /\ evt[k].h.gen <= voice[evt[k].h.idx].gen

\* A let that is over on the control side is over on the audio side too, or its destroy is on its
\* way - in front of the next create of the slot.
LetGo ==
    /\ \A i \in Voice : voice[i].active /\ ~Live(VoiceHandle(i)) => DestroyAfter(0, VoiceHandle(i))
    /\ \A k \in Commands("CREATE") : ~Live(cmd[k].v) => DestroyAfter(k, cmd[k].v)
    /\ \A k \in Commands("CREATE") :
        voice[cmd[k].v.idx].active =>
            \E j \in Commands("DESTROY") : j < k /\ cmd[j].v = VoiceHandle(cmd[k].v.idx)
    /\ \A j, k \in Commands("CREATE") :
        j < k /\ cmd[j].v.idx = cmd[k].v.idx =>
            \E n \in Commands("DESTROY") : j < n /\ n < k /\ cmd[n].v = cmd[j].v

\* An ended event is the last word of its let.
EndedOnce ==
    /\ \A k \in 1 .. Len(evt) : evt[k].t = "ENDED" =>
        ~(voice[evt[k].h.idx].active /\ VoiceHandle(evt[k].h.idx) = evt[k].h)
    /\ OneEndedPerLet

LetInv == LetOrder /\ LetGo /\ EndedOnce

-----------------------------------------------------------------------------
(* One consumer per stream. *)

\* A command that binds a sound names one that was loaded; a chained sound is not a stream.
ChainInv ==
    /\ OneConsumer
    /\ \A k \in 1 .. Len(cmd) : cmd[k].t \in Binds =>
        cmd[k].s.idx \in Sound /\ cmd[k].s.gen <= snd[cmd[k].s.idx].gen
    /\ \A k \in Commands("QUEUE") : SndLive(cmd[k].s) => ~snd[cmd[k].s.idx].stream
    /\ \A i \in Voice : \A k \in 1 .. Len(voice[i].queue) :
        voice[i].queue[k] # None => ~snd[voice[i].queue[k].idx].stream

-----------------------------------------------------------------------------
(* Push sources. *)

\* The commands a push source needs have their room from the start.
RoomKept ==
    /\ ctl.pc = "cut" /\ ctl.s # None => CmdRoom(4)
    /\ ctl.pc = "push" /\ ctl.s # None => CmdRoom(2)
    /\ ctl.pc = "retry" => ctl.try \subseteq park

\* The sound of a push source: loaded, a stream the client does not see, parked nowhere.
Hidden(h) == CanRetire(h) /\ snd[h.idx].internal /\ snd[h.idx].stream /\ h \notin park
Pushing(i) == slot[i].inuse /\ slot[i].push # None
SlotHandle(i) == H(i, slot[i].gen)
PushOwned ==
    /\ \A i \in Voice : Pushing(i) => Hidden(slot[i].push)
    /\ ctl.s # None => Hidden(ctl.s)
    /\ \A i, j \in Voice : Pushing(i) /\ Pushing(j) /\ slot[i].push = slot[j].push => i = j
    /\ \A i \in Voice : Pushing(i) => slot[i].push # ctl.s
    /\ ctl.pc = "push" => slot[ctl.h.idx].push = None
    /\ \A h \in park : h.idx \in Sound /\ h.gen <= snd[h.idx].gen

\* Which commands name a push source or its sound: the play that binds them, once it was created.
SourceKnown(h) == h.idx \in Voice /\ h.gen <= slot[h.idx].gen
Bind(k) == cmd[k].t \in Binds
PushNamed ==
    /\ \A h \in app : SourceKnown(h)
    /\ \A k \in 1 .. Len(cmd) : Bind(k) => SourceKnown(cmd[k].v)
    /\ ctl.pc = "push" => ctl.h \notin app /\ \A k \in 1 .. Len(cmd) : Bind(k) => cmd[k].v # ctl.h
    /\ ctl.s # None => \A k \in 1 .. Len(cmd) : Bind(k) => cmd[k].s # ctl.s
    /\ \A i \in Voice, k \in 1 .. Len(cmd) :
        Pushing(i) /\ Bind(k) /\ (cmd[k].v = SlotHandle(i) \/ cmd[k].s = slot[i].push) =>
            /\ cmd[k].t = "PLAY" /\ cmd[k].v = SlotHandle(i) /\ cmd[k].s = slot[i].push
            /\ voice[i].gen = slot[i].gen \/ \E j \in Commands("CREATE") : j < k /\ cmd[j].v = SlotHandle(i)

PushInv == RoomKept /\ PushOwned /\ PushNamed /\ InternalSoundOwned

-----------------------------------------------------------------------------
(* Room for every ownership ack. *)

\* What of the event ring evt_push leaves to the notices.
NoticeCap == EvtCap - (VoiceCap + SoundCap)
\* The slots that the events after the m-th give back.
VoicesBack(m) == {i \in Voice : \E k \in m + 1 .. Len(evt) : evt[k].t = "ENDED" /\ evt[k].h.idx = i}
SoundsBack(m) == {s \in Sound : \E k \in m + 1 .. Len(evt) : evt[k].t = "RETIRED" /\ evt[k].h.idx = s}

\* Past what notices may fill, no stretch of waiting events is longer than the slots it gives back.
StretchesFit ==
    \A m \in 0 .. Len(evt) :
        Len(evt) - m <= NoticeCap + Cardinality(VoicesBack(m)) + Cardinality(SoundsBack(m))

\* Nor is the whole ring, where the events that are handled but not yet released count: vs and ss are
\* the slots given back since the control thread last released any, and none of them is let again.
RingFits(vs, ss) ==
    /\ VoicesBack(0) \subseteq vs /\ SoundsBack(0) \subseteq ss
    /\ edone = 0 => vs = VoicesBack(0) /\ ss = SoundsBack(0)
    /\ Len(evt) + edone <= NoticeCap + Cardinality(vs) + Cardinality(ss)
    /\ \A i \in vs : ~voice[i].active /\ voice[i].gen # 0
    /\ \A s \in ss \ SoundsBack(0) : ~snd[s].inuse

AckRoomInv ==
    /\ NoAckLost /\ StretchesFit
    /\ edone # 0 => ctl.pc = "drain"
    /\ \A i \in Voice : voice[i].active => voice[i].gen # 0
    /\ \E vs \in SUBSET Voice, ss \in SUBSET Sound : RingFits(vs, ss)

\* What EVT_CAP is sized for: when the next let of a slot reaches the audio thread, drain_events has
\* handled and released what the one before it posted.  Always so for a slot's first let.
RemadeWhenHandled ==
    \A i \in Voice : voice'[i].gen # voice[i].gen =>
        voice[i].gen = 0 \/ (edone = 0 /\ i \notin VoicesBack(0))

\* No slot is let more than GenMax times, and a create about to cut has a let left wherever its
\* alloc_handle finds the slot.
LetBound ==
    /\ \A i \in Voice : slot[i].gen <= GenMax
    /\ ctl.pc = "cut" =>
        /\ slot[ctl.vic.idx].gen < GenMax
        /\ free # <<>> => slot[Last(free)].gen < GenMax
=============================================================================
