------------------------------ MODULE VoicePool ------------------------------
(***************************************************************************)
(* The ownership core of src/src/core/rt.c: voice slots and sound slots    *)
(* handed back and forth between the control thread (the rt_ entry points) *)
(* and the audio thread (rt_render) over two single-producer rings.        *)
(*                                                                         *)
(* A slot index is handed out again only with a higher generation; a sound *)
(* buffer is freed only after the audio thread acknowledged that no voice  *)
(* points at it.  Each rt_ call is one action, except where the audio      *)
(* thread's progress between two ring pushes of one call can change what   *)
(* the call does (rt_source_create, drain_events).  The audio thread takes *)
(* one step per command and one step per mixed voice.                      *)
(***************************************************************************)
EXTENDS Integers, Sequences, FiniteSets

CONSTANTS
    Pool,        \* voices the caller asked for (req_voice_cap)
    Reserve,     \* extra slots kept for click-free steals (BWA_FADE_RESERVE)
    SoundCap,    \* sound slots
    CmdCap,      \* RING_CAP
    EvtCap,      \* EVT_CAP
    QueueCap,    \* BWA_QUEUE
    GenMax,      \* bound: a slot is let at most GenMax times (the code wraps at 65535)
    Priorities,  \* steal priorities the client sets
    Calls        \* the API calls the client program makes

CallNames == {"create", "stream", "oneshot", "play", "stop", "stop_all", "queue", "destroy",
              "priority", "load", "unload"}

ASSUME PoolAssumption ==
    /\ Pool \in Nat \ {0} /\ Reserve \in Nat /\ SoundCap \in Nat \ {0}
    /\ CmdCap \in Nat \ {0} /\ EvtCap \in Nat /\ QueueCap \in Nat /\ GenMax \in Nat
    /\ Pool + Reserve + SoundCap <= EvtCap
    /\ Priorities \subseteq 0 .. 255
    /\ Calls \subseteq CallNames

VoiceCap == Pool + Reserve
Voice == 1 .. VoiceCap
Sound == 1 .. SoundCap

\* BWA_MK_H: a slot index with the generation it was let at.  Handle 0 is "none",
\* and stands for the NULL SoundData pointer on the audio side too.
Handle == [idx : Nat, gen : Nat]
None == [idx |-> 0, gen |-> 0]
H(i, g) == [idx |-> i, gen |-> g]

VARIABLES
    slot,    \* control side of a voice slot: gen, inuse, stealing, prio, push
    free,    \* freelist, a stack of voice indices
    snd,     \* SoundSlot: gen, inuse, retiring, stream; internal: never shown to the client
    sfree,   \* sfreelist, a stack of sound indices
    park,    \* retire_park: internal sounds whose retire did not fit in the ring
    app,     \* every source handle the client was ever given
    ctl,     \* where the control thread is inside a call, and that call's locals
    cmd,     \* commands not yet handled; cdone more slots are handled but not yet released
    cdone,
    evt,     \* events not yet handled; edone more slots are handled but not yet released
    edone,
    aud,     \* where the audio thread is inside rt_render
    voice,   \* Voice, the audio thread's table
    lost     \* an ownership ack was dropped by a full event ring

ctlVars == <<slot, free, snd, sfree, park, app, ctl>>
audVars == <<aud, voice, lost>>
ringVars == <<cmd, cdone, evt, edone>>
vars == <<slot, free, snd, sfree, park, app, ctl, cmd, cdone, evt, edone, aud, voice, lost>>

CmdTypes == {"CREATE", "DESTROY", "PARAM", "PLAY", "STOP", "STOP_ALL", "QUEUE",
             "STEAL", "COMMIT", "RETIRE"}
Cmd == [t : CmdTypes, v : Handle, s : Handle, one : BOOLEAN]
MkCmd(t, v, s, one) == [t |-> t, v |-> v, s |-> s, one |-> one]
VCmd(t, v) == MkCmd(t, v, None, FALSE)
EvtTypes == {"ENDED", "RETIRED", "NOTICE"}
Evt == [t : EvtTypes, h : Handle]
MkEvt(t, h) == [t |-> t, h |-> h]

Slot == [gen : Nat, inuse : BOOLEAN, stealing : BOOLEAN, prio : 0 .. 255, push : Handle]
SoundSlot == [gen : Nat, inuse : BOOLEAN, retiring : BOOLEAN, stream : BOOLEAN, internal : BOOLEAN]
VoiceRec == [gen : Nat, active : BOOLEAN, playing : BOOLEAN, snd : Handle,
             stopping : 0 .. 2, oneshot : BOOLEAN, open : BOOLEAN, queue : Seq(Handle)]
CtlPc == {"idle", "push", "cut", "retry", "drain"}
Ctl == [pc : CtlPc, h : Handle, vic : Handle, s : Handle, try : SUBSET Handle, todo : Nat]
Idle == [pc |-> "idle", h |-> None, vic |-> None, s |-> None, try |-> {}, todo |-> 0]

-----------------------------------------------------------------------------
\* The operators marked "Slip" are plausible faults of the code, to be put in the place of the
\* definition that follows; the specification uses none of them.

\* Slip: the full ring counts one slot too many.
CmdRoomPlusOne(k) == Len(cmd) + cdone + k <= CmdCap + 1

\* cmd_free / cmd_push: room for k more commands.
CmdRoom(k) == Len(cmd) + cdone + k <= CmdCap
\* evt_push: an ack fits while the ring is not full; a notice leaves the acks' reserve alone.
AckRoom == Len(evt) + edone < EvtCap
\* Slip: notices may fill the ring.
NoticeRoomAll == AckRoom
NoticeRoom == Len(evt) + edone < EvtCap - (VoiceCap + SoundCap)

\* Slip: an ownership ack is given up as easily as a notice.
PushAckBestEffort(e) == evt' = (IF NoticeRoom THEN Append(evt, e) ELSE evt) /\ UNCHANGED lost
PushAck(e) == IF AckRoom THEN evt' = Append(evt, e) /\ lost' = lost
                         ELSE evt' = evt /\ lost' = TRUE
PushNotice(e) == evt' = IF NoticeRoom THEN Append(evt, e) ELSE evt

\* Slip: a slot that was given back still matches.
LiveUnlet(h) == h.idx \in Voice /\ slot[h.idx].gen = h.gen

\* voice_live_ctrl / sound_slot_ctrl: is h its slot's current occupant?
Live(h) == h.idx \in Voice /\ slot[h.idx].inuse /\ slot[h.idx].gen = h.gen
SndLive(h) == h.idx \in Sound /\ snd[h.idx].inuse /\ snd[h.idx].gen = h.gen
\* sound handles the client may name
AppSounds == {H(s, snd[s].gen) : s \in {s \in Sound : snd[s].inuse /\ ~snd[s].internal}}
IsPush(h) == Live(h) /\ slot[h.idx].push # None

Last(s) == s[Len(s)]
Front(s) == SubSeq(s, 1, Len(s) - 1)

\* alloc_handle's view of the slot it hands out, and recycle_handle's of the one it takes back.
Let(i) == [gen |-> slot[i].gen + 1, inuse |-> TRUE, stealing |-> FALSE, prio |-> 128, push |-> None]
Unlet(r) == [r EXCEPT !.inuse = FALSE]

\* Slip: the slot is not marked as retiring.
RetiringUnmarked(sd, h) == sd

\* rt_unload_sound's effect when its CMD_SOUND_RETIRE fits, on snd.
Retiring(sd, h) == [sd EXCEPT ![h.idx].retiring = TRUE]
CanRetire(h) == SndLive(h) /\ ~snd[h.idx].retiring

\* Slip: a retire that did not fit is forgotten.
ParkedNot(h) == park

\* retire_internal_sound: what a retire that did not fit leaves behind.
Parked(h) == park \cup {h}

Init ==
    /\ slot = [i \in Voice |-> [gen |-> 0, inuse |-> FALSE, stealing |-> FALSE, prio |-> 0, push |-> None]]
    /\ free = [k \in 1 .. VoiceCap |-> VoiceCap + 1 - k]
    /\ snd = [s \in Sound |-> [gen |-> 0, inuse |-> FALSE, retiring |-> FALSE,
                               stream |-> FALSE, internal |-> FALSE]]
    /\ sfree = [k \in 1 .. SoundCap |-> SoundCap + 1 - k]
    /\ park = {} /\ app = {} /\ ctl = Idle
    /\ cmd = <<>> /\ cdone = 0 /\ evt = <<>> /\ edone = 0
    /\ aud = [pc |-> "idle", todo |-> 0, next |-> 1]
    /\ voice = [i \in Voice |-> [gen |-> 0, active |-> FALSE, playing |-> FALSE, snd |-> None,
                                 stopping |-> 0, oneshot |-> FALSE, open |-> FALSE, queue |-> <<>>]]
    /\ lost = FALSE

-----------------------------------------------------------------------------
(* The control thread.                                                     *)

Call(name) == name \in Calls /\ ctl.pc = "idle"

\* A call that only encodes one command: dropped when the ring is full.
Push1(c) == cmd' = IF CmdRoom(1) THEN Append(cmd, c) ELSE cmd

\* What rt_source_create's scan may pick: not mid-steal, not protected, of the lowest
\* priority, the lowest index first.
Stealable == {i \in Voice : slot[i].inuse /\ ~slot[i].stealing /\ slot[i].prio < 255}
IsVictim(i) ==
    /\ i \in Stealable
    /\ \A j \in Stealable : slot[i].prio < slot[j].prio \/ (slot[i].prio = slot[j].prio /\ i <= j)

\* salloc_sound
AllocSound(stream, internal) ==
    LET s == Last(sfree) IN
    /\ sfree # <<>> /\ snd[s].gen < GenMax
    /\ sfree' = Front(sfree)
    /\ snd' = [snd EXCEPT ![s] = [gen |-> snd[s].gen + 1, inuse |-> TRUE, retiring |-> FALSE,
                                  stream |-> stream, internal |-> internal]]

\* rt_source_create: the user pool still has a slot above the reserve.
CreateFromPool(s) ==
    LET i == Last(free) IN
    /\ Len(free) > Reserve /\ slot[i].gen < GenMax
    /\ slot' = [slot EXCEPT ![i] = Let(i)]
    /\ free' = Front(free)
    /\ ctl' = [Idle EXCEPT !.pc = "push", !.h = H(i, slot[i].gen + 1), !.s = s]
    /\ UNCHANGED cmd

\* rt_source_create: pool full.  A victim fades on its own slot while the new source takes a
\* reserve slot; with the reserve spent, or no room for CMD_SRC_STEAL, go on to the hard cut.
CreateBySteal(s) ==
    /\ Len(free) <= Reserve
    /\ \E v \in Voice :
        LET vh == H(v, slot[v].gen)
            i == Last(free)
        IN
        /\ IsVictim(v)
        /\ \/ /\ free = <<>> /\ slot[v].gen < GenMax
              /\ ctl' = [Idle EXCEPT !.pc = "cut", !.vic = vh, !.s = s]
              /\ UNCHANGED <<slot, free, cmd>>
           \/ /\ free # <<>> /\ slot[i].gen < GenMax /\ CmdRoom(1)
              /\ cmd' = Append(cmd, VCmd("STEAL", vh))
              /\ slot' = [slot EXCEPT ![i] = Let(i), ![v].stealing = TRUE]
              /\ free' = Front(free)
              /\ ctl' = [Idle EXCEPT !.pc = "push", !.h = H(i, slot[i].gen + 1), !.s = s]
           \/ /\ free # <<>> /\ slot[i].gen + 1 < GenMax /\ slot[v].gen < GenMax /\ ~CmdRoom(1)
              /\ slot' = [slot EXCEPT ![i] = Unlet(Let(i))]
              /\ ctl' = [Idle EXCEPT !.pc = "cut", !.vic = vh, !.s = s]
              /\ UNCHANGED <<free, cmd>>

CreateSource ==
    /\ Call("create")
    /\ CreateFromPool(None) \/ CreateBySteal(None)
    /\ UNCHANGED <<snd, sfree, park, app, cdone, evt, edone, aud, voice, lost>>

\* rt_source_create_stream: an internal stream sound, then rt_source_create; all of the commands
\* it may need (four) are reserved up front.  With nothing to steal the sound is retired again.
StreamCmds == 4
CreateStream ==
    /\ Call("stream")
    /\ CmdRoom(StreamCmds)
    /\ sfree # <<>>
    /\ LET sh == H(Last(sfree), snd[Last(sfree)].gen + 1) IN
       \/ AllocSound(TRUE, TRUE) /\ (CreateFromPool(sh) \/ CreateBySteal(sh))
       \/ /\ Len(free) <= Reserve /\ Stealable = {} /\ snd[Last(sfree)].gen < GenMax
          /\ sfree' = Front(sfree)
          /\ snd' = [snd EXCEPT ![Last(sfree)] = [gen |-> sh.gen, inuse |-> TRUE, retiring |-> TRUE,
                                                  stream |-> TRUE, internal |-> TRUE]]
          /\ cmd' = Append(cmd, MkCmd("RETIRE", None, sh, FALSE))
          /\ UNCHANGED <<slot, free, ctl>>
    /\ UNCHANGED <<park, app, cdone, evt, edone, aud, voice, lost>>

\* push_sound_release + retire_internal_sound for a dying push source, c being the ring with the
\* caller's own command on it: retire its sound, or park the handle when the ring is full.
ReleasePush(h, c) ==
    LET ps == slot[h.idx].push IN
    IF ~IsPush(h) \/ ~CanRetire(ps)
    THEN cmd' = c /\ UNCHANGED <<snd, park>>
    ELSE IF Len(c) + cdone + 1 <= CmdCap
    THEN /\ cmd' = Append(c, MkCmd("RETIRE", None, ps, FALSE))
         /\ snd' = Retiring(snd, ps)
         /\ UNCHANGED park
    ELSE /\ park' = Parked(ps)
         /\ cmd' = c /\ UNCHANGED snd

\* rt_source_destroy: only a destroy that was enqueued recycles, and only the current occupant.
DestroyCmd(h) == Append(cmd, VCmd("DESTROY", h))
DestroySource(h) ==
    /\ Call("destroy")
    /\ CmdRoom(1)
    /\ ReleasePush(h, DestroyCmd(h))
    /\ IF Live(h)
       THEN /\ slot' = [slot EXCEPT ![h.idx].inuse = FALSE, ![h.idx].push = None]
            /\ free' = Append(free, h.idx)
       ELSE UNCHANGED <<slot, free>>
    /\ UNCHANGED <<sfree, app, ctl, cdone, evt, edone, aud, voice, lost>>

\* rt_source_create, hard cut: rt_source_destroy(victim), then alloc_handle, which hands out the
\* victim's own slot - or, if the destroy did not fit but a reserve slot is free, that one.
CreateCut ==
    LET v == ctl.vic.idx
        i == Last(free)
    IN
    /\ ctl.pc = "cut"
    /\ \/ /\ CmdRoom(1)
          /\ ReleasePush(ctl.vic, DestroyCmd(ctl.vic))
          /\ slot' = [slot EXCEPT ![v] = Let(v)]
          /\ ctl' = [ctl EXCEPT !.pc = "push", !.h = H(v, slot[v].gen + 1)]
          /\ UNCHANGED free
       \/ /\ ~CmdRoom(1) /\ free # <<>>
          /\ slot' = [slot EXCEPT ![i] = Let(i)]
          /\ free' = Front(free)
          /\ ctl' = [ctl EXCEPT !.pc = "push", !.h = H(i, slot[i].gen + 1)]
          /\ UNCHANGED <<snd, park, cmd>>
       \/ /\ ~CmdRoom(1) /\ free = <<>>
          /\ ctl' = Idle
          /\ UNCHANGED <<slot, free, snd, park, cmd>>
    /\ UNCHANGED <<sfree, app, cdone, evt, edone, aud, voice, lost>>

\* rt_source_create's CMD_SRC_CREATE, undone when it does not fit; for a push source also the
\* CMD_PLAY that binds the internal sound (rt_source_create_stream).
CreatePush ==
    LET i == ctl.h.idx
        create == Append(cmd, VCmd("CREATE", ctl.h))
    IN
    /\ ctl.pc = "push"
    /\ \/ /\ CmdRoom(1)
          /\ cmd' = IF ctl.s # None /\ CmdRoom(2)
                    THEN Append(create, MkCmd("PLAY", ctl.h, ctl.s, FALSE)) ELSE create
          /\ slot' = [slot EXCEPT ![i].push = ctl.s]
          /\ app' = app \cup {ctl.h}
          /\ UNCHANGED <<free, park>>
       \/ /\ ~CmdRoom(1)
          /\ slot' = [slot EXCEPT ![i] = Unlet(slot[i])]
          /\ free' = Append(free, i)
          /\ park' = IF ctl.s # None THEN Parked(ctl.s) ELSE park
          /\ UNCHANGED <<cmd, app>>
    /\ ctl' = Idle
    /\ UNCHANGED <<snd, sfree, cdone, evt, edone, aud, voice, lost>>

\* rt_play_oneshot: a transient voice the client gets no handle for; never from the reserve, and
\* only when all four of its commands fit.
OneshotCmds == 4
PlayOneshot(s) ==
    LET i == Last(free)
        h == H(i, slot[i].gen + 1)
    IN
    /\ Call("oneshot")
    /\ CanRetire(s)
    /\ CmdRoom(OneshotCmds)
    /\ Len(free) > Reserve /\ slot[i].gen < GenMax
    /\ slot' = [slot EXCEPT ![i] = Let(i)]
    /\ free' = Front(free)
    /\ cmd' = cmd \o <<VCmd("CREATE", h), VCmd("PARAM", h), VCmd("PARAM", h), MkCmd("PLAY", h, s, TRUE)>>
    /\ UNCHANGED <<snd, sfree, park, app, ctl, cdone, evt, edone, aud, voice, lost>>

\* Slip: a retiring sound may be played.
PlayRetiring(h, s) ==
    /\ Call("play")
    /\ SndLive(s) /\ ~IsPush(h)
    /\ Push1(MkCmd("PLAY", h, s, FALSE))
    /\ UNCHANGED <<ctlVars, cdone, evt, edone, audVars>>

\* rt_source_play: refused on a retiring sound and on a push source.  A stale source handle is
\* encoded all the same; the audio thread drops it.
Play(h, s) ==
    /\ Call("play")
    /\ CanRetire(s) /\ ~IsPush(h)
    /\ Push1(MkCmd("PLAY", h, s, FALSE))
    /\ UNCHANGED <<ctlVars, cdone, evt, edone, audVars>>

\* rt_source_queue: in-memory sounds only.
Queue(h, s) ==
    /\ Call("queue")
    /\ CanRetire(s) /\ ~snd[s.idx].stream /\ ~IsPush(h)
    /\ Push1(MkCmd("QUEUE", h, s, FALSE))
    /\ UNCHANGED <<ctlVars, cdone, evt, edone, audVars>>

\* rt_source_stop
Stop(h) ==
    /\ Call("stop")
    /\ Push1(VCmd("STOP", h))
    /\ UNCHANGED <<ctlVars, cdone, evt, edone, audVars>>

\* rt_stop_all
StopAll ==
    /\ Call("stop_all")
    /\ Push1(VCmd("STOP_ALL", None))
    /\ UNCHANGED <<ctlVars, cdone, evt, edone, audVars>>

\* rt_source_set_priority
SetPriority(h, p) ==
    /\ Call("priority")
    /\ Live(h)
    /\ slot' = [slot EXCEPT ![h.idx].prio = p]
    /\ UNCHANGED <<free, snd, sfree, park, app, ctl, ringVars, audVars>>

\* rt_load_sound / rt_load_sound_streaming
LoadSound(stream) ==
    /\ Call("load")
    /\ AllocSound(stream, FALSE)
    /\ UNCHANGED <<slot, free, park, app, ctl, ringVars, audVars>>

\* rt_unload_sound: a retire that does not fit is reverted, and the client calls again.
Unload(s) ==
    /\ Call("unload")
    /\ CanRetire(s) /\ CmdRoom(1)
    /\ snd' = Retiring(snd, s)
    /\ cmd' = Append(cmd, MkCmd("RETIRE", None, s, FALSE))
    /\ UNCHANGED <<slot, free, sfree, park, app, ctl, cdone, evt, edone, audVars>>

\* rt_commit: CMD_COMMIT, then drain_events - first the parked retires, then the events.
Commit ==
    /\ ctl.pc = "idle"
    /\ Push1(VCmd("COMMIT", None))
    /\ ctl' = [Idle EXCEPT !.pc = "retry", !.try = park]
    /\ UNCHANGED <<slot, free, snd, sfree, park, app, cdone, evt, edone, audVars>>

\* Slip: the parked handle is dropped although the ring is still full.
RetryParkedOnce(s) ==
    /\ ctl.pc = "retry" /\ s \in ctl.try
    /\ ctl' = [ctl EXCEPT !.try = @ \ {s}]
    /\ park' = park \ {s}
    /\ IF CanRetire(s) /\ CmdRoom(1)
       THEN snd' = Retiring(snd, s) /\ cmd' = Append(cmd, MkCmd("RETIRE", None, s, FALSE))
       ELSE UNCHANGED <<cmd, snd>>
    /\ UNCHANGED <<slot, free, sfree, app, cdone, evt, edone, audVars>>
RetryParked(s) ==
    /\ ctl.pc = "retry" /\ s \in ctl.try
    /\ ctl' = [ctl EXCEPT !.try = @ \ {s}]
    /\ IF ~CanRetire(s)
       THEN park' = park \ {s} /\ UNCHANGED <<cmd, snd>>
       ELSE IF CmdRoom(1)
       THEN /\ park' = park \ {s}
            /\ snd' = Retiring(snd, s)
            /\ cmd' = Append(cmd, MkCmd("RETIRE", None, s, FALSE))
       ELSE UNCHANGED <<park, cmd, snd>>
    /\ UNCHANGED <<slot, free, sfree, app, cdone, evt, edone, audVars>>

\* drain_events reads the write index once; the slots it handles are released together at the end.
BeginDrainEvents ==
    /\ ctl.pc = "retry" /\ ctl.try = {}
    /\ ctl' = [ctl EXCEPT !.pc = "drain", !.todo = Len(evt)]
    /\ UNCHANGED <<slot, free, snd, sfree, park, app, ringVars, audVars>>

TakeEvt(t) ==
    /\ ctl.pc = "drain" /\ ctl.todo > 0
    /\ Head(evt).t = t
    /\ evt' = Tail(evt) /\ edone' = edone + 1
    /\ ctl' = [ctl EXCEPT !.todo = @ - 1]

\* EVT_VOICE_ENDED: recycle the slot if the handle is still current; the stealing flag of the
\* slot is cleared either way.
DrainEnded ==
    LET h == Head(evt).h IN
    /\ TakeEvt("ENDED")
    /\ ReleasePush(h, cmd)
    /\ IF Live(h)
       THEN /\ slot' = [slot EXCEPT ![h.idx].inuse = FALSE, ![h.idx].stealing = FALSE,
                                    ![h.idx].push = None]
            /\ free' = Append(free, h.idx)
       ELSE /\ slot' = [slot EXCEPT ![h.idx].stealing = FALSE]
            /\ UNCHANGED free
    /\ UNCHANGED <<sfree, app, cdone, audVars>>

\* EVT_SOUND_RETIRED: free the data and recycle the sound slot.
DrainRetired ==
    LET h == Head(evt).h IN
    /\ TakeEvt("RETIRED")
    /\ IF SndLive(h)
       THEN /\ snd' = [snd EXCEPT ![h.idx].inuse = FALSE, ![h.idx].retiring = FALSE]
            /\ sfree' = Append(sfree, h.idx)
       ELSE UNCHANGED <<snd, sfree>>
    /\ UNCHANGED <<slot, free, park, app, cmd, cdone, audVars>>

\* EVT_VOICE_DONE / EVT_VOICE_LOOPED: reported to the client, nothing changes hands.
DrainNotice ==
    /\ TakeEvt("NOTICE")
    /\ UNCHANGED <<slot, free, snd, sfree, park, app, cmd, cdone, audVars>>

EndDrainEvents ==
    /\ ctl.pc = "drain" /\ ctl.todo = 0
    /\ ctl' = Idle /\ edone' = 0
    /\ UNCHANGED <<slot, free, snd, sfree, park, app, cmd, cdone, evt, audVars>>

ControlNext ==
    \/ CreateSource \/ CreateStream \/ CreateCut \/ CreatePush
    \/ \E s \in AppSounds : PlayOneshot(s) \/ Unload(s)
    \/ \E h \in app, s \in AppSounds : Play(h, s) \/ Queue(h, s)
    \/ StopAll \/ \E h \in app : Stop(h) \/ DestroySource(h)
    \/ \E h \in app, p \in Priorities : SetPriority(h, p)
    \/ \E stream \in BOOLEAN : LoadSound(stream)
    \/ Commit \/ (\E s \in ctl.try : RetryParked(s)) \/ BeginDrainEvents
    \/ DrainEnded \/ DrainRetired \/ DrainNotice \/ EndDrainEvents

-----------------------------------------------------------------------------
(* The audio thread: drain the commands, then mix each sounding voice.     *)

BeginBlock ==
    /\ aud.pc = "idle"
    /\ aud' = [aud EXCEPT !.pc = "drain", !.todo = Len(cmd)]
    /\ UNCHANGED <<ctlVars, ringVars, voice, lost>>

\* Handle the next command; its slot is released only when the whole drain is over.
TakeCmd(t) ==
    /\ aud.pc = "drain" /\ aud.todo > 0
    /\ Head(cmd).t = t
    /\ cmd' = Tail(cmd) /\ cdone' = cdone + 1
    /\ aud' = [aud EXCEPT !.todo = @ - 1]
    /\ UNCHANGED <<ctlVars, edone>>

\* Slip: only a sounding voice is found.
VoiceForPlaying(h) == h.idx \in Voice /\ voice[h.idx].playing /\ voice[h.idx].gen = h.gen

\* voice_for / sound_for: a stale handle resolves to nothing.
VoiceFor(h) == h.idx \in Voice /\ voice[h.idx].active /\ voice[h.idx].gen = h.gen
SoundFor(h) == SndLive(h)

DrainCreate ==
    LET h == Head(cmd).v IN
    /\ TakeCmd("CREATE")
    /\ voice' = [voice EXCEPT ![h.idx] =
                    [gen |-> h.gen, active |-> TRUE, playing |-> FALSE, snd |-> None,
                     stopping |-> 0, oneshot |-> FALSE, open |-> TRUE, queue |-> <<>>]]
    /\ UNCHANGED <<evt, lost>>

DrainDestroy ==
    LET h == Head(cmd).v IN
    /\ TakeCmd("DESTROY")
    /\ voice' = IF VoiceFor(h)
                THEN [voice EXCEPT ![h.idx].active = FALSE, ![h.idx].playing = FALSE, ![h.idx].snd = None]
                ELSE voice
    /\ UNCHANGED <<evt, lost>>

\* The ring of a stream has one consumer, so any other voice on it is detached first.  A play
\* starts a voice running, except that a steal in progress stays one.
\* Slip: the voice that had the stream keeps it.
DetachedNot(r) == r
Detached(r) == [r EXCEPT !.playing = FALSE, !.snd = None]
Bound(r, c) == [r EXCEPT !.snd = c.s, !.playing = TRUE, !.oneshot = c.one, !.open = TRUE,
                         !.queue = <<>>, !.stopping = IF @ = 2 THEN 2 ELSE 0]
DrainPlay ==
    LET c == Head(cmd) IN
    /\ TakeCmd("PLAY")
    /\ voice' = IF VoiceFor(c.v) /\ SoundFor(c.s)
                THEN [i \in Voice |->
                        IF i = c.v.idx THEN Bound(voice[i], c)
                        ELSE IF snd[c.s.idx].stream /\ voice[i].snd.idx = c.s.idx THEN Detached(voice[i])
                        ELSE voice[i]]
                ELSE voice
    /\ UNCHANGED <<evt, lost>>

DrainStop ==
    LET h == Head(cmd).v IN
    /\ TakeCmd("STOP")
    /\ voice' = IF VoiceFor(h) /\ voice[h.idx].playing /\ voice[h.idx].stopping # 2
                THEN [voice EXCEPT ![h.idx].stopping = 1] ELSE voice
    /\ UNCHANGED <<evt, lost>>

\* voice_begin_stop over the whole table; unlike CMD_STOP it also drops the pending chain.
DrainStopAll ==
    LET Stopped(r) == IF r.active /\ r.playing /\ r.stopping # 2
                      THEN [r EXCEPT !.stopping = 1, !.queue = <<>>] ELSE r
    IN
    /\ TakeCmd("STOP_ALL")
    /\ voice' = [i \in Voice |-> Stopped(voice[i])]
    /\ UNCHANGED <<evt, lost>>

DrainQueue ==
    LET c == Head(cmd) IN
    /\ TakeCmd("QUEUE")
    /\ voice' = IF VoiceFor(c.v) /\ SoundFor(c.s) /\ Len(voice[c.v.idx].queue) < QueueCap
                THEN [voice EXCEPT ![c.v.idx].queue = Append(@, c.s)] ELSE voice
    /\ UNCHANGED <<evt, lost>>

\* A sounding victim fades first; a silent one is given back at once.
DrainSteal ==
    LET h == Head(cmd).v IN
    /\ TakeCmd("STEAL")
    /\ IF ~VoiceFor(h) THEN UNCHANGED <<voice, evt, lost>>
       ELSE IF voice[h.idx].playing
       THEN voice' = [voice EXCEPT ![h.idx].stopping = 2] /\ UNCHANGED <<evt, lost>>
       ELSE /\ voice' = [voice EXCEPT ![h.idx].stopping = 0, ![h.idx].active = FALSE, ![h.idx].snd = None]
            /\ PushAck(MkEvt("ENDED", h))


\* Detach every voice and tombstone every queue entry on the slot, then acknowledge.
Released(r, i) == [r EXCEPT !.playing = @ /\ r.snd.idx # i,
                            !.snd = IF @.idx = i THEN None ELSE @,
                            !.queue = [k \in DOMAIN @ |-> IF @[k].idx = i THEN None ELSE @[k]]]
DrainRetire ==
    LET h == Head(cmd).s IN
    /\ TakeCmd("RETIRE")
    /\ voice' = IF SoundFor(h) THEN [i \in Voice |-> Released(voice[i], h.idx)] ELSE voice
    /\ PushAck(MkEvt("RETIRED", h))

\* CMD_COMMIT and the parameter setters: nothing changes hands.
DrainParam ==
    /\ \E t \in {"PARAM", "COMMIT"} : TakeCmd(t)
    /\ UNCHANGED <<voice, evt, lost>>

EndDrainCommands ==
    /\ aud.pc = "drain" /\ aud.todo = 0
    /\ cdone' = 0
    /\ aud' = [aud EXCEPT !.pc = "mix", !.next = 1]
    /\ UNCHANGED <<ctlVars, cmd, evt, edone, voice, lost>>

\* Slip: a voice that stopped playing is still mixed.
RenderableStopped(i) == voice[i].snd # None
Renderable(i) == voice[i].active /\ voice[i].playing /\ voice[i].snd # None
ToMix == {i \in aud.next .. VoiceCap : Renderable(i)}
MixAt(i) == aud.pc = "mix" /\ i \in ToMix /\ (\A j \in ToMix : i <= j)
Mixed(i) == aud' = [aud EXCEPT !.next = i + 1] /\ UNCHANGED <<ctlVars, cmd, cdone, edone>>

\* Slip: only a steal gives the slot back.
GivesBackStolen(i) == voice[i].stopping = 2

\* pause_gate: the fade has reached silence, finalize the stop.  A steal, and any stop of a
\* oneshot, gives the slot back.
GivesBack(i) == voice[i].stopping = 2 \/ voice[i].oneshot
MixFinalize(i) ==
    /\ MixAt(i) /\ voice[i].stopping # 0 /\ ~voice[i].open
    /\ voice' = [voice EXCEPT ![i].stopping = 0, ![i].playing = FALSE, ![i].active = ~GivesBack(i)]
    /\ IF GivesBack(i) THEN PushAck(MkEvt("ENDED", H(i, voice[i].gen))) ELSE UNCHANGED <<evt, lost>>
    /\ Mixed(i)

\* The gate's target: closed while stopping, else whatever the pause and seek state asks for.
GateTargets(i) == IF voice[i].stopping # 0 THEN {FALSE} ELSE BOOLEAN

\* A block in which the sound goes on (or, the gate shut, stays frozen).
MixOn(i) ==
    /\ MixAt(i) /\ (voice[i].stopping = 0 \/ voice[i].open)
    /\ \E o \in GateTargets(i) : voice' = [voice EXCEPT ![i].open = o]
    /\ Mixed(i) /\ UNCHANGED <<evt, lost>>

\* queue_pop_valid: the entries a retire did not tombstone; the first of them plays next.
Valid(q) == {k \in 1 .. Len(q) : q[k] # None}

\* The in-memory sound reaches its end and the next queued one takes over without a gap.
MixChain(i) ==
    LET q == voice[i].queue IN
    /\ MixAt(i) /\ voice[i].stopping = 0
    /\ ~snd[voice[i].snd.idx].stream
    /\ \E k \in Valid(q), o \in BOOLEAN :
        /\ \A j \in Valid(q) : k <= j
        /\ voice[i].open \/ o
        /\ voice' = [voice EXCEPT ![i].snd = q[k], ![i].queue = SubSeq(q, k + 1, Len(q)), ![i].open = o]
    /\ Mixed(i) /\ UNCHANGED <<evt, lost>>

\* The sound ends.  A oneshot gives its slot back; any other voice only posts a notice.
MixEnd(i) ==
    /\ MixAt(i) /\ (voice[i].stopping = 0 \/ voice[i].open)
    /\ voice[i].stopping # 0 \/ snd[voice[i].snd.idx].stream \/ Valid(voice[i].queue) = {}
    /\ \E o \in GateTargets(i) :
        /\ voice[i].open \/ o
        /\ voice' = [voice EXCEPT ![i].playing = FALSE, ![i].open = o, ![i].active = ~voice[i].oneshot,
                                  ![i].queue = IF voice[i].stopping = 0 /\ ~snd[voice[i].snd.idx].stream
                                               THEN <<>> ELSE @]
    /\ IF voice[i].oneshot THEN PushAck(MkEvt("ENDED", H(i, voice[i].gen)))
                           ELSE PushNotice(MkEvt("NOTICE", H(i, voice[i].gen))) /\ UNCHANGED lost
    /\ Mixed(i)

EndBlock ==
    /\ aud.pc = "mix" /\ ToMix = {}
    /\ aud' = [aud EXCEPT !.pc = "idle", !.next = 1]
    /\ UNCHANGED <<ctlVars, ringVars, voice, lost>>

AudioNext ==
    \/ BeginBlock \/ EndDrainCommands \/ EndBlock
    \/ DrainCreate \/ DrainDestroy \/ DrainPlay \/ DrainStop \/ DrainStopAll \/ DrainQueue
    \/ DrainSteal \/ DrainRetire \/ DrainParam
    \/ \E i \in Voice : MixFinalize(i) \/ MixOn(i) \/ MixChain(i) \/ MixEnd(i)

Next == ControlNext \/ AudioNext

Spec == Init /\ [][Next]_vars

-----------------------------------------------------------------------------
(* Properties.                                                             *)

\* Every variable keeps its shape, and the two rings and the chain queues their capacity.
TypeOK ==
    /\ slot \in [Voice -> Slot] /\ free \in Seq(Voice)
    /\ snd \in [Sound -> SoundSlot] /\ sfree \in Seq(Sound)
    /\ park \subseteq Handle /\ app \subseteq Handle /\ ctl \in Ctl
    /\ cmd \in Seq(Cmd) /\ cdone \in Nat /\ evt \in Seq(Evt) /\ edone \in Nat
    /\ aud \in [pc : {"idle", "drain", "mix"}, todo : Nat, next : Nat]
    /\ voice \in [Voice -> VoiceRec] /\ lost \in BOOLEAN
    /\ Len(cmd) + cdone <= CmdCap /\ Len(evt) + edone <= EvtCap
    /\ \A i \in Voice : Len(voice[i].queue) <= QueueCap

\* Exactly the slots that are not let are on the free lists, each once: no slot or sound index is
\* ever handed out twice or leaked by alloc_handle, recycle_handle, salloc_sound, srecycle_sound.
Distinct(stack) == \A j, k \in 1 .. Len(stack) : stack[j] = stack[k] => j = k
On(stack, i) == \E k \in 1 .. Len(stack) : stack[k] = i
VoicesExact == Distinct(free) /\ \A i \in Voice : slot[i].inuse <=> ~On(free, i)
SoundsExact == Distinct(sfree) /\ \A s \in Sound : snd[s].inuse <=> ~On(sfree, s)
FreelistExact == VoicesExact /\ SoundsExact

\* The retire-ack handshake: whatever the interleaving of unloads, plays, queued sounds and
\* blocks, no voice ever points at a sound buffer that was freed, or freed and loaded again.
NoDanglingSound ==
    \A i \in Voice :
        /\ voice[i].snd # None => SndLive(voice[i].snd)
        /\ \A k \in 1 .. Len(voice[i].queue) : voice[i].queue[k] # None => SndLive(voice[i].queue[k])

\* Each buffer is freed by exactly one acknowledgement: an ack always finds the sound it retires,
\* still waiting for it.
AckFindsItsSound ==
    \A k \in 1 .. Len(evt) : evt[k].t = "RETIRED" => SndLive(evt[k].h) /\ snd[evt[k].h.idx].retiring

\* A stream's ring is single-consumer: never two voices on one stream (CMD_PLAY's detach loop).
OneConsumer ==
    \A i, j \in Voice :
        i # j /\ voice[i].snd # None /\ voice[j].snd # None /\ snd[voice[i].snd.idx].stream
            => voice[i].snd # voice[j].snd

\* A push source and its internal sound stay together. The sound is never lost: as long as it is
\* loaded, a live source feeds it, a call in progress holds it, it is parked, or its retire is
\* under way. And rt_source_create_stream lands whole: a live push source has its CMD_PLAY in
\* flight, or its voice was bound to its stream - it is never created and then silent forever.
InternalSoundOwned ==
    /\ \A s \in Sound :
        LET sh == H(s, snd[s].gen) IN
        snd[s].inuse /\ snd[s].internal =>
            \/ \E i \in Voice : slot[i].inuse /\ slot[i].push = sh
            \/ ctl.s = sh \/ sh \in park \/ snd[s].retiring
    /\ \A i \in Voice :
        LET h == H(i, slot[i].gen) IN
        slot[i].inuse /\ slot[i].push # None =>
            \/ \E k \in 1 .. Len(cmd) : cmd[k].t = "PLAY" /\ cmd[k].v = h /\ cmd[k].s = slot[i].push
            \/ voice[i].gen = slot[i].gen /\ (voice[i].active => voice[i].snd = slot[i].push)

\* A slot is let again only when the audio thread has let go of it: CMD_SRC_CREATE never
\* overwrites a voice that is still active.
NoLiveOverwrite == [][\A i \in Voice : voice'[i].gen # voice[i].gen => ~voice[i].active]_vars

\* No ownership ack is dropped by a full event ring (EVT_CAP >= voice_cap + sound_cap, and the
\* notices yield).
NoAckLost == ~lost

\* A slot that was let is given back at most once: the audio thread never has two EVT_VOICE_ENDED
\* of one handle under way, whichever of pause_gate and the commands ends the voice.
OneEndedPerLet ==
    \A j, k \in 1 .. Len(evt) :
        evt[j].t = "ENDED" /\ evt[k].t = "ENDED" /\ evt[j].h = evt[k].h => j = k

\* The audio thread renders block after block; the client keeps committing, and a call it made
\* runs to its end.
ControlStep ==
    \/ CreateCut \/ CreatePush \/ (\E s \in ctl.try : RetryParked(s)) \/ BeginDrainEvents
    \/ DrainEnded \/ DrainRetired \/ DrainNotice \/ EndDrainEvents
Fairness == WF_vars(AudioNext) /\ WF_vars(ControlStep) /\ SF_vars(Commit)
FairSpec == Spec /\ Fairness

\* An unloaded sound is freed: its retire is acknowledged and the ack is consumed.
RetireCompletes == \A s \in Sound : snd[s].retiring ~> ~snd[s].retiring

\* The internal sound of a push source that is gone is freed without the client's help, also when
\* its retire had to be parked - provided the client does not refill the command ring before every
\* one of its commits, so that some retry of the parked retires finds room.
RetriesFindRoom ==
    []<>(park = {} \/ (ctl.pc = "retry" /\ ctl.try = park /\ CmdRoom(Cardinality(park))))
DeadSource(s) == ~\E i \in Voice : slot[i].inuse /\ slot[i].push = H(s, snd[s].gen)
InternalSoundFreed ==
    RetriesFindRoom =>
        \A s \in Sound :
            (snd[s].inuse /\ snd[s].internal /\ ctl.pc = "idle" /\ DeadSource(s)) ~> ~snd[s].inuse

\* A oneshot that is being stopped gives its slot back by itself (pause_gate).
StoppedOneshotReturns ==
    \A i \in Voice : (voice[i].active /\ voice[i].oneshot /\ voice[i].stopping # 0) ~> ~slot[i].inuse

\* A oneshot that no longer sounds, whatever silenced it, gives its slot back by itself.
SilentOneshotReturns ==
    \A i \in Voice : (voice[i].active /\ voice[i].oneshot /\ ~voice[i].playing) ~> ~slot[i].inuse
=============================================================================
