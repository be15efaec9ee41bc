----------------------------- MODULE AssetCache -----------------------------
(***************************************************************************)
(* The shared-ownership asset cache (src/src/core/assets.c) with its        *)
(* loader thread, and the plays held for a sound that is still decoding     *)
(* (rt_sound_reserve, rt_sound_publish and the rt_source_ calls of rt.c).   *)
(*                                                                          *)
(* The control thread runs one call at a time.  A call that pumps takes one *)
(* step per result, per released play and per retried unload, so that the   *)
(* loader and the audio thread may run in between; any other call pushes at *)
(* most one command and is one step.  The audio thread takes the commands   *)
(* of a batch one by one and gives their room back at its end.  A sound     *)
(* outlasts the run: no voice reaches its end.                              *)
(***************************************************************************)
EXTENDS Integers, FiniteSets, SequencesExt

CONSTANTS
    File,       \* cache keys: a path with its load flags
    SoundCap,   \* sound slots
    VoiceCap,   \* voice slots
    JobCap,     \* AJOB_CAP
    HoldCap,    \* BWA_ASYNC_HOLD
    CmdCap,     \* RING_CAP
    SoundGens,  \* bound: a sound slot is let at most this often
    SourceGens, \* bound: a voice slot is let at most this often
    RefMax,     \* bound: owners of one cache entry
    Calls       \* the API calls the client program makes

CallNames == {"acquire", "async", "release", "create", "destroy", "play", "seek", "stop", "stop_at", "stop_all", "shutdown"}
ASSUME CacheAssumption ==
    /\ \A n \in {SoundCap, VoiceCap, JobCap, HoldCap, CmdCap, SoundGens, SourceGens, RefMax} :
        n \in Nat \ {0}
    /\ Calls \subseteq CallNames

Sound == 1 .. SoundCap
Voice == 1 .. VoiceCap
\* BWA_MK_H; the handle 0 is "none".
Handle == [idx : Nat, gen : Nat]
None == [idx |-> 0, gen |-> 0]
H(i, g) == [idx |-> i, gen |-> g]

VARIABLES
    entry,   \* AssetEntry by key: the handle it owns, its owners, and how far its load is
    inflight,
    park,    \* unloads whose CMD_SOUND_RETIRE hit a full ring
    snd,     \* SoundSlot: gen, and free, pending, live or retiring
    sfree,   \* sfreelist, a stack of sound indices
    slot,    \* control side of a voice slot: gen, inuse
    held,    \* HeldPlay: source, sound, and the seek issued meanwhile
    ctl,     \* where the control thread is inside a call
    batch,   \* drain_commands: how many commands of its batch are handled, and how many it has
    jobs, res, jobEv, stop,  \* job and result rings, the wake-up event, the stop flag
    ldr,     \* the loader thread
    cmd, ack,                \* commands and EVT_SOUND_RETIRED acks on their rings
    voice,   \* the audio thread's voices: the sound each plays, and what is pending for it
    heap,    \* the decoded buffers that are allocated, named by the handle they were decoded for
    want     \* what the client last asked of each source; all: and no ring refused any of it;
             \* stopAt: and a scheduled stop, once its play was sent

cacheVars == <<entry, inflight, park>>
loadVars == <<jobs, res, jobEv, stop, ldr>>
sourceVars == <<slot, held, want>>
audioVars == <<batch, voice>>
vars == <<cacheVars, snd, sfree, sourceVars, ctl, loadVars, cmd, ack, audioVars, heap>>

NoEntry == [snd |-> None, refs |-> 0, st |-> "none"]
Idle == [pc |-> "idle", h |-> None, try |-> {}, left |-> 0]
NoBatch == [done |-> 0, upto |-> 0]
Nothing == [snd |-> None, on |-> FALSE, seek |-> FALSE, stopAt |-> FALSE, all |-> TRUE]

-----------------------------------------------------------------------------
\* The operators marked "Slip" are plausible faults of the code, to be put in the place of the
\* definition that follows; the specification uses none of them.

\* sound_slot_ctrl, voice_live_ctrl: is h its slot's current occupant?
SndLive(h) == h.idx \in Sound /\ snd[h.idx].st # "free" /\ snd[h.idx].gen = h.gen
IsPending(h) == SndLive(h) /\ snd[h.idx].st = "pending"
Live(h) == h.idx \in Voice /\ slot[h.idx].inuse /\ slot[h.idx].gen = h.gen
Sounds == {H(s, snd[s].gen) : s \in {s \in Sound : snd[s].st # "free"}}
\* every source handle the client was ever given
Sources == {h \in [idx : Voice, gen : 1 .. SourceGens] : h.gen <= slot[h.idx].gen}

\* cmd_push: a command that does not fit is dropped.
CmdRoom(k) == Len(cmd) + k <= CmdCap
C(t, v, s) == [t |-> t, v |-> v, s |-> s]
Push(c) == cmd' = IF CmdRoom(1) THEN Append(cmd, c) ELSE cmd

\* held_drop_src / held_drop_snd
HeldButSrc(h) == {p \in held : p.src # h}
HeldButSnd(h) == {p \in held : p.snd # h}

\* The client asks source h for f, which the call either gets across (done) or loses.
Lost == [Nothing EXCEPT !.all = FALSE]
Asked(h, f, done) == IF Live(h) THEN [want EXCEPT ![h.idx] = IF f.all /\ done THEN f ELSE Lost] ELSE want
WantOf(h) == want[h.idx]

Call(name) == name \in Calls /\ ctl.pc = "idle"

\* assets_create, rt_create
Init ==
    /\ entry = [f \in File |-> NoEntry] /\ inflight = 0 /\ park = {}
    /\ snd = [s \in Sound |-> [gen |-> 0, st |-> "free"]]
    /\ sfree = [k \in 1 .. SoundCap |-> SoundCap + 1 - k]
    /\ slot = [i \in Voice |-> [gen |-> 0, inuse |-> FALSE]]
    /\ held = {} /\ ctl = Idle
    /\ jobs = <<>> /\ res = <<>> /\ jobEv = FALSE /\ stop = FALSE
    /\ ldr = [pc |-> "none", snd |-> None, ok |-> FALSE]
    /\ cmd = <<>> /\ ack = <<>> /\ batch = NoBatch
    /\ voice = [i \in Voice |-> [gen |-> 0, active |-> FALSE, snd |-> None, on |-> FALSE,
                                 seek |-> FALSE, stopAt |-> FALSE]]
    /\ heap = {} /\ want = [i \in Voice |-> Nothing]

-----------------------------------------------------------------------------
(* assets_pump, at the head of every cache call and of bwa_commit; which   *)
(* call it was shows in the step that follows the pump.                    *)

BeginPump ==
    /\ ctl.pc = "idle"
    /\ ctl' = [Idle EXCEPT !.pc = "pump"]
    /\ UNCHANGED <<cacheVars, snd, sfree, sourceVars, loadVars, cmd, ack, audioVars, heap>>

\* entry_for_handle: the key that owns h.
Owners(h) == {f \in File : entry[f].st # "none" /\ entry[f].snd = h}
\* Slip: the slot index alone finds the entry.
AdoptersByIndex(h) == {f \in File : entry[f].st = "loading" /\ entry[f].snd.idx = h.idx}
\* the entry still waiting for the buffer decoded for h
Adopters(h) == {f \in Owners(h) : entry[f].st = "loading"}

Landed(h) == inflight - 1

\* Take one result.  Released meanwhile: the buffer is freed.  Failed: the reserved slot stays.
PumpTake ==
    LET r == Head(res) IN
    /\ ctl.pc = "pump" /\ res # <<>>
    /\ res' = Tail(res) /\ inflight' = Landed(r.snd)
    /\ \/ /\ Adopters(r.snd) = {}
          /\ heap' = heap \ {r.snd}
          /\ UNCHANGED <<entry, snd, ctl>>
       \/ \E f \in Adopters(r.snd) :
            /\ entry' = [entry EXCEPT ![f].st = IF r.ok THEN "ready" ELSE "failed"]
            /\ IF r.ok /\ IsPending(entry[f].snd)       \* rt_sound_publish takes the buffer
               THEN /\ snd' = [snd EXCEPT ![entry[f].snd.idx].st = "live"]
                    /\ ctl' = [ctl EXCEPT !.pc = "fire", !.h = entry[f].snd]
                    /\ UNCHANGED heap
               ELSE heap' = heap \ {r.snd} /\ UNCHANGED <<snd, ctl>>
    /\ UNCHANGED <<park, sfree, sourceVars, jobs, jobEv, stop, ldr, cmd, ack, audioVars>>

\* rt_sound_publish releases one play held for the sound; its kind was refused at the call when
\* it disagreed with the load flags (refuse_pending_kind).  A source that died is passed over.
Fire(p) ==
    /\ ctl.pc = "fire" /\ p \in held /\ p.snd = ctl.h
    /\ held' = held \ {p}
    /\ IF ~Live(p.src) THEN UNCHANGED <<cmd, want, ctl>>
       ELSE /\ Push(C("PLAY", p.src, p.snd))
            /\ want' = Asked(p.src, WantOf(p.src), CmdRoom(1))
            /\ ctl' = IF p.seek THEN [ctl EXCEPT !.pc = "seek", !.try = {p.src}] ELSE ctl
    /\ UNCHANGED <<cacheVars, snd, sfree, slot, loadVars, ack, audioVars, heap>>

\* ... and the seek issued while the play was held goes out after it.
FireSeek ==
    /\ ctl.pc = "seek"
    /\ \E src \in ctl.try : /\ Push(C("SEEK", src, None))
                            /\ want' = Asked(src, WantOf(src), CmdRoom(1))
    /\ ctl' = [ctl EXCEPT !.pc = "fire", !.try = {}]
    /\ UNCHANGED <<cacheVars, snd, sfree, slot, held, loadVars, ack, audioVars, heap>>

FireEnd ==
    /\ ctl.pc = "fire" /\ \A p \in held : p.snd # ctl.h
    /\ ctl' = [ctl EXCEPT !.pc = "pump", !.h = None]
    /\ UNCHANGED <<cacheVars, snd, sfree, sourceVars, loadVars, cmd, ack, audioVars, heap>>

PumpEnd ==
    /\ ctl.pc = "pump" /\ res = <<>>
    /\ ctl' = IF park = {} THEN [ctl EXCEPT !.pc = "body"] ELSE [ctl EXCEPT !.pc = "park", !.try = park]
    /\ UNCHANGED <<cacheVars, snd, sfree, sourceVars, loadVars, cmd, ack, audioVars, heap>>

\* rt_unload_sound of a sound that is live: retire it if the command fits.
Retire(h) ==
    /\ held' = HeldButSnd(h)
    /\ Push(C("RETIRE", None, h))
    /\ snd' = IF CmdRoom(1) THEN [snd EXCEPT ![h.idx].st = "retiring"] ELSE snd

\* One retry; a handle that went stale is forgotten.
RetryPark(h) ==
    /\ ctl.pc = "park" /\ h \in ctl.try
    /\ ctl' = [ctl EXCEPT !.try = @ \ {h}]
    /\ IF SndLive(h) /\ snd[h.idx].st = "live"
       THEN Retire(h) /\ park' = IF CmdRoom(1) THEN park \ {h} ELSE park
       ELSE park' = park \ {h} /\ UNCHANGED <<held, cmd, snd>>
    /\ UNCHANGED <<entry, inflight, sfree, slot, want, loadVars, ack, audioVars, heap>>

\* The pump is over; the call that pumped goes on.
ParkEnd ==
    /\ ctl.pc = "park" /\ ctl.try = {}
    /\ ctl' = [ctl EXCEPT !.pc = "body"]
    /\ UNCHANGED <<cacheVars, snd, sfree, sourceVars, loadVars, cmd, ack, audioVars, heap>>

-----------------------------------------------------------------------------
(* acquire_common and assets_release.                                      *)

Body(call) == ctl.pc = "body" /\ call \in Calls

\* A call that finds nothing to do: a readiness query, a handle the cache does not own, a path it
\* refuses, a failed entry, a full sound table, a file that does not load at once.
Return ==
    /\ ctl.pc = "body"
    /\ ctl' = Idle
    /\ UNCHANGED <<cacheVars, snd, sfree, sourceVars, loadVars, cmd, ack, audioVars, heap>>

\* salloc_sound
Reserved(st) == [snd EXCEPT ![Last(sfree)] = [gen |-> @.gen + 1, st |-> st]]
NextSound == H(Last(sfree), snd[Last(sfree)].gen + 1)
CanReserve == sfree # <<>> /\ snd[Last(sfree)].gen < SoundGens
NewEntry(f, st) == [entry EXCEPT ![f] = [snd |-> NextSound, refs |-> 1, st |-> st]]

\* A cache hit: one more owner.
AcquireHit(f) ==
    /\ Body("acquire") \/ Body("async")
    /\ entry[f].st \in {"loading", "ready"} /\ entry[f].refs < RefMax
    /\ entry' = [entry EXCEPT ![f].refs = @ + 1]
    /\ ctl' = Idle
    /\ UNCHANGED <<inflight, park, snd, sfree, sourceVars, loadVars, cmd, ack, audioVars, heap>>

\* Reserve a slot and hand the file to the loader, which is started on first use.
AcquireAsync(f) ==
    /\ Body("async") /\ entry[f].st = "none"
    /\ inflight < JobCap /\ CanReserve
    /\ snd' = Reserved("pending") /\ sfree' = Front(sfree)
    /\ entry' = NewEntry(f, "loading")
    /\ jobs' = Append(jobs, NextSound) /\ inflight' = inflight + 1
    /\ ldr' = IF ldr.pc = "none" THEN [ldr EXCEPT !.pc = "top"] ELSE ldr
    /\ ctl' = [Idle EXCEPT !.pc = "signal"]
    /\ UNCHANGED <<park, sourceVars, res, jobEv, stop, cmd, ack, audioVars, heap>>

AcquireSignal ==
    /\ ctl.pc = "signal"
    /\ jobEv' = TRUE
    /\ ctl' = Idle
    /\ UNCHANGED <<cacheVars, snd, sfree, sourceVars, jobs, res, stop, ldr, cmd, ack, audioVars, heap>>

\* The loader's backlog is full, or the call is synchronous: load here and now.  No entry is made
\* for a file that does not load.  Without a loader thread an async acquire decodes into its
\* reserved slot, and keeps the slot when that fails.
AcquireNow(f) ==
    /\ entry[f].st = "none" /\ CanReserve
    /\ \/ /\ Body("acquire") \/ (Body("async") /\ inflight = JobCap)
          /\ snd' = Reserved("live") /\ entry' = NewEntry(f, "ready") /\ heap' = heap \cup {NextSound}
       \/ /\ Body("async") /\ inflight < JobCap /\ ldr.pc = "none"
          /\ \/ snd' = Reserved("live") /\ entry' = NewEntry(f, "ready") /\ heap' = heap \cup {NextSound}
             \/ snd' = Reserved("pending") /\ entry' = NewEntry(f, "failed") /\ UNCHANGED heap
    /\ sfree' = Front(sfree)
    /\ ctl' = Idle
    /\ UNCHANGED <<inflight, park, sourceVars, loadVars, cmd, ack, audioVars>>

\* Slip: a refused unload is forgotten.
ParkedNot(h) == park
Parked(h) == park \cup {h}

\* The last owner lets go.  A reserved slot is dropped outright (rt_sound_abandon), whatever the
\* loader is doing with it; a loaded sound is retired, or parked when the ring is full.
Release(f) ==
    LET h == entry[f].snd IN
    /\ Body("release") /\ entry[f].st # "none"
    /\ ctl' = Idle
    /\ IF entry[f].refs > 1
       THEN entry' = [entry EXCEPT ![f].refs = @ - 1] /\ UNCHANGED <<snd, sfree, held, cmd, park>>
       ELSE /\ entry' = [entry EXCEPT ![f] = NoEntry]
            /\ \/ /\ entry[f].st \in {"loading", "failed"}
                  /\ snd' = [snd EXCEPT ![h.idx].st = "free"]
                  /\ sfree' = Append(sfree, h.idx)
                  /\ held' = HeldButSnd(h)
                  /\ UNCHANGED <<cmd, park>>
               \/ /\ entry[f].st = "ready"
                  /\ Retire(h)
                  /\ park' = IF CmdRoom(1) THEN park ELSE Parked(h)
                  /\ UNCHANGED sfree
    /\ UNCHANGED <<inflight, slot, want, loadVars, ack, audioVars, heap>>

\* rt_commit: the COMMIT, then drain_events over the acknowledgements that are there ...
Commit ==
    /\ ctl.pc = "body"
    /\ Push(C("COMMIT", None, None))
    /\ ctl' = IF ack = <<>> THEN Idle ELSE [ctl EXCEPT !.pc = "events", !.left = Len(ack)]
    /\ UNCHANGED <<cacheVars, snd, sfree, sourceVars, loadVars, ack, audioVars, heap>>

\* ... each of which frees the data and the slot of a sound the audio thread has let go of.
TakeAck ==
    LET h == Head(ack) IN
    /\ ctl.pc = "events"
    /\ IF SndLive(h)
       THEN /\ snd' = [snd EXCEPT ![h.idx].st = "free"]
            /\ sfree' = Append(sfree, h.idx)
            /\ heap' = heap \ {h}
       ELSE UNCHANGED <<snd, sfree, heap>>
    /\ ack' = Tail(ack)
    /\ ctl' = IF ctl.left = 1 THEN Idle ELSE [ctl EXCEPT !.left = @ - 1]
    /\ UNCHANGED <<cacheVars, sourceVars, loadVars, cmd, audioVars>>

-----------------------------------------------------------------------------
(* The source calls a held play has to keep step with.                     *)

\* rt_source_create with a slot to spare; undone when CMD_SRC_CREATE does not fit.
CreateSource(i) ==
    /\ Call("create") /\ ~slot[i].inuse /\ slot[i].gen < SourceGens
    /\ slot' = [slot EXCEPT ![i] = [gen |-> @.gen + 1, inuse |-> CmdRoom(1)]]
    /\ Push(C("CREATE", H(i, slot[i].gen + 1), None))
    /\ want' = [want EXCEPT ![i] = Nothing]
    /\ UNCHANGED <<cacheVars, snd, sfree, held, ctl, loadVars, ack, audioVars, heap>>

\* rt_source_destroy leaves a held play behind, for rt_sound_publish to pass over.
DestroySource(h) ==
    /\ Call("destroy") /\ CmdRoom(1)
    /\ Push(C("DESTROY", h, None))
    /\ slot' = IF Live(h) THEN [slot EXCEPT ![h.idx].inuse = FALSE] ELSE slot
    /\ UNCHANGED <<cacheVars, snd, sfree, held, want, ctl, loadVars, ack, audioVars, heap>>

\* Slip: a play of a reserved sound is sent like any other.
HoldsNever(s) == FALSE
Holds(s) == IsPending(s)

\* play_at_kind: at once, or held while the sound is pending; a stale source is held too.
Play(h, s) ==
    LET playing == [Nothing EXCEPT !.snd = s, !.on = TRUE]
        new == [src |-> h, snd |-> s, seek |-> FALSE]
        room == Cardinality(HeldButSrc(h)) < HoldCap
    IN
    /\ Call("play")
    /\ snd[s.idx].st # "retiring"
    /\ IF Holds(s)
       THEN /\ held' = HeldButSrc(h) \cup (IF room THEN {new} ELSE {})
            /\ want' = Asked(h, playing, room)
            /\ UNCHANGED cmd
       ELSE /\ held' = HeldButSrc(h)
            /\ Push(C("PLAY", h, s))
            /\ want' = Asked(h, playing, CmdRoom(1))
    /\ UNCHANGED <<cacheVars, snd, sfree, slot, ctl, loadVars, ack, audioVars, heap>>

HeldFor(h) == {p \in held : p.src = h}

\* rt_source_seek rides on a held play.
Seek(h) ==
    /\ Call("seek")
    /\ IF HeldFor(h) # {}
       THEN /\ held' = HeldButSrc(h) \cup {[p EXCEPT !.seek = TRUE] : p \in HeldFor(h)}
            /\ want' = Asked(h, [WantOf(h) EXCEPT !.seek = @ \/ WantOf(h).on], TRUE)
            /\ UNCHANGED cmd
       ELSE /\ Push(C("SEEK", h, None))
            /\ want' = Asked(h, [WantOf(h) EXCEPT !.seek = @ \/ WantOf(h).on], CmdRoom(1))
            /\ UNCHANGED held
    /\ UNCHANGED <<cacheVars, snd, sfree, slot, ctl, loadVars, ack, audioVars, heap>>

\* rt_source_stop drops the held play, whether or not its command fits.
Stop(h) ==
    /\ Call("stop")
    /\ held' = HeldButSrc(h)
    /\ Push(C("STOP", h, None))
    /\ want' = Asked(h, [Nothing EXCEPT !.all = WantOf(h).all], CmdRoom(1))
    /\ UNCHANGED <<cacheVars, snd, sfree, slot, ctl, loadVars, ack, audioVars, heap>>

\* rt_source_stop_at does not look at the held plays: asked behind one, it is not kept for it.
StopAt(h) ==
    /\ Call("stop_at")
    /\ Push(C("STOP_AT", h, None))
    /\ want' = Asked(h, [WantOf(h) EXCEPT !.stopAt = @ \/ (WantOf(h).on /\ HeldFor(h) = {})], CmdRoom(1))
    /\ UNCHANGED <<cacheVars, snd, sfree, slot, held, ctl, loadVars, ack, audioVars, heap>>

\* Slip: the held plays go before the command is known to fit.
SweptFirst == held' = {}
\* rt_stop_all pushes first: on a full ring nothing has happened.
Swept == held' = IF CmdRoom(1) THEN {} ELSE held
StopAll ==
    /\ Call("stop_all")
    /\ Swept
    /\ Push(C("STOP_ALL", None, None))
    /\ want' = IF CmdRoom(1) THEN [i \in Voice |-> IF want[i].all THEN Nothing ELSE Lost] ELSE want
    /\ UNCHANGED <<cacheVars, snd, sfree, slot, ctl, loadVars, ack, audioVars, heap>>

-----------------------------------------------------------------------------
(* bwa_destroy: the devices are closed first, between two batches; then    *)
(* the loader is joined before its rings and the sound table go.           *)

Shutdown ==
    /\ Call("shutdown") /\ batch = NoBatch
    /\ IF ldr.pc = "none"
       THEN ctl' = [Idle EXCEPT !.pc = "join"] /\ UNCHANGED stop
       ELSE ctl' = [Idle EXCEPT !.pc = "quit"] /\ stop' = TRUE
    /\ UNCHANGED <<cacheVars, snd, sfree, sourceVars, jobs, res, jobEv, ldr, cmd, ack, audioVars, heap>>

ShutdownSignal ==
    /\ ctl.pc = "quit"
    /\ jobEv' = TRUE
    /\ ctl' = [Idle EXCEPT !.pc = "join"]
    /\ UNCHANGED <<cacheVars, snd, sfree, sourceVars, jobs, res, stop, ldr, cmd, ack, audioVars, heap>>

\* os_thread_join; leftover jobs and results are reaped, then rt_destroy frees the sound table.
ShutdownJoin ==
    /\ ctl.pc = "join" /\ ldr.pc \in {"none", "exit"}
    /\ jobs' = <<>> /\ res' = <<>>
    /\ heap' = heap \ ({r.snd : r \in ToSet(res)} \cup Sounds)
    /\ snd' = [s \in Sound |-> [snd[s] EXCEPT !.st = "free"]]
    /\ ctl' = [Idle EXCEPT !.pc = "gone"]
    /\ UNCHANGED <<cacheVars, sfree, sourceVars, jobEv, stop, ldr, cmd, ack, audioVars>>

ControlStep ==
    \/ PumpTake \/ (\E p \in held : Fire(p)) \/ FireSeek \/ FireEnd \/ PumpEnd
    \/ (\E h \in ctl.try : RetryPark(h)) \/ ParkEnd \/ Return \/ AcquireSignal \/ Commit \/ TakeAck
    \/ ShutdownSignal \/ ShutdownJoin
ControlNext ==
    \/ BeginPump \/ ControlStep
    \/ \E f \in File : AcquireHit(f) \/ AcquireAsync(f) \/ AcquireNow(f) \/ Release(f)
    \/ \E i \in Voice : CreateSource(i)
    \/ \E h \in Sources : DestroySource(h) \/ Seek(h) \/ Stop(h) \/ StopAt(h) \/ \E s \in Sounds : Play(h, s)
    \/ StopAll \/ Shutdown

-----------------------------------------------------------------------------
(* loader_thread.                                                          *)

Ldr(pc, to) == ldr.pc = pc /\ ldr' = [ldr EXCEPT !.pc = to]
LoaderTop ==
    /\ IF stop THEN Ldr("top", "exit") ELSE Ldr("top", "pop")
    /\ UNCHANGED <<cacheVars, snd, sfree, sourceVars, ctl, jobs, res, jobEv, stop, cmd, ack, audioVars, heap>>

\* Slip: the event is reset before it is waited for.
EventReset == FALSE
EventAtWait == jobEv
LoaderPop ==
    /\ \/ jobs = <<>> /\ Ldr("pop", "wait") /\ jobEv' = EventAtWait /\ UNCHANGED jobs
       \/ /\ jobs # <<>> /\ ldr.pc = "pop"
          /\ ldr' = [ldr EXCEPT !.pc = "decode", !.snd = Head(jobs)]
          /\ jobs' = Tail(jobs) /\ UNCHANGED jobEv
    /\ UNCHANGED <<cacheVars, snd, sfree, sourceVars, ctl, res, stop, cmd, ack, audioVars, heap>>

\* os_event_wait: the flag is sticky and reset by the wait that takes it.
LoaderWake ==
    /\ jobEv /\ jobEv' = FALSE
    /\ Ldr("wait", "top")
    /\ UNCHANGED <<cacheVars, snd, sfree, sourceVars, ctl, jobs, res, stop, cmd, ack, audioVars, heap>>

LoaderDecode ==
    /\ ldr.pc = "decode"
    /\ \E ok \in BOOLEAN :
        /\ ldr' = [ldr EXCEPT !.pc = "push", !.ok = ok]
        /\ heap' = IF ok THEN heap \cup {ldr.snd} ELSE heap
    /\ UNCHANGED <<cacheVars, snd, sfree, sourceVars, ctl, jobs, res, jobEv, stop, cmd, ack, audioVars>>

\* A result that does not fit would be thrown away.
LoaderPush ==
    /\ ldr.pc = "push"
    /\ IF Len(res) < JobCap
       THEN res' = Append(res, [snd |-> ldr.snd, ok |-> ldr.ok]) /\ UNCHANGED heap
       ELSE heap' = heap \ {ldr.snd} /\ UNCHANGED res
    /\ ldr' = [ldr EXCEPT !.pc = "top", !.snd = None, !.ok = FALSE]
    /\ UNCHANGED <<cacheVars, snd, sfree, sourceVars, ctl, jobs, jobEv, stop, cmd, ack, audioVars>>

LoaderNext == LoaderTop \/ LoaderPop \/ LoaderWake \/ LoaderDecode \/ LoaderPush

-----------------------------------------------------------------------------
(* The audio thread: one drain_commands.                                   *)

VoiceOf(vs, h) == h.idx \in Voice /\ vs[h.idx].active /\ vs[h.idx].gen = h.gen
\* what one command does to the voices; a seek or a scheduled stop of a voice that does not sound
\* is forgotten at once, since the next CMD_PLAY clears it
Silent(r) == [r EXCEPT !.on = FALSE, !.seek = FALSE, !.stopAt = FALSE]
Effect(vs, c) ==
    LET i == c.v.idx IN
    CASE c.t = "CREATE" -> [vs EXCEPT ![i] = [gen |-> c.v.gen, active |-> TRUE, snd |-> None, on |-> FALSE,
                                              seek |-> FALSE, stopAt |-> FALSE]]
      [] c.t = "PLAY" /\ VoiceOf(vs, c.v) -> [vs EXCEPT ![i] = [Silent(@) EXCEPT !.snd = c.s, !.on = TRUE]]
      [] c.t = "DESTROY" /\ VoiceOf(vs, c.v) -> [vs EXCEPT ![i] = [Silent(@) EXCEPT !.active = FALSE, !.snd = None]]
      [] c.t = "SEEK" /\ VoiceOf(vs, c.v) -> [vs EXCEPT ![i].seek = vs[i].on]
      [] c.t = "STOP" /\ VoiceOf(vs, c.v) -> [vs EXCEPT ![i] = Silent(@)]
      [] c.t = "STOP_AT" /\ VoiceOf(vs, c.v) -> [vs EXCEPT ![i].stopAt = vs[i].on]
      [] c.t = "STOP_ALL" -> [j \in Voice |-> Silent(vs[j])]
      [] c.t = "RETIRE" -> [j \in Voice |-> IF vs[j].snd = c.s THEN [Silent(vs[j]) EXCEPT !.snd = None] ELSE vs[j]]
      [] OTHER -> vs
\* A play of a sound that is gone does nothing.
Handled(vs, c) == IF c.t = "PLAY" /\ ~SndLive(c.s) THEN vs ELSE Effect(vs, c)

\* The next command of the batch: what it does to the voices, and a retire's acknowledgement.
Playable == ctl.pc \notin {"quit", "join", "gone"}
Upto == IF batch = NoBatch THEN Len(cmd) ELSE batch.upto
DrainCommand ==
    LET c == cmd[batch.done + 1] IN
    /\ Playable /\ batch.done < Upto
    /\ voice' = Handled(voice, c)
    /\ ack' = IF c.t = "RETIRE" THEN Append(ack, c.s) ELSE ack
    /\ batch' = [done |-> batch.done + 1, upto |-> Upto]
    /\ UNCHANGED <<cacheVars, snd, sfree, sourceVars, ctl, loadVars, cmd, heap>>

\* The batch is done: its room in the ring is given back.
DrainEnd ==
    /\ batch.upto > 0 /\ batch.done = batch.upto
    /\ cmd' = SubSeq(cmd, batch.upto + 1, Len(cmd))
    /\ batch' = NoBatch
    /\ UNCHANGED <<cacheVars, snd, sfree, sourceVars, ctl, loadVars, ack, voice, heap>>

AudioNext == DrainCommand \/ DrainEnd
Next == ControlNext \/ LoaderNext \/ AudioNext

Spec == Init /\ [][Next]_vars

-----------------------------------------------------------------------------
(* Properties.                                                             *)

\* A decoded buffer always has exactly one owner - the loader, a result on its way, or the sound
\* slot it was published in - whatever was released or acquired again while it was decoding; and an
\* owner's buffer has not been freed.
InHand == IF ldr.pc = "push" /\ ldr.ok THEN {ldr.snd} ELSE {}
OnRing == {r.snd : r \in {r \in ToSet(res) : r.ok}}
InSlot == {h \in Sounds : snd[h.idx].st \in {"live", "retiring"}}
EveryBufferOwned ==
    /\ heap = InHand \cup OnRing \cup InSlot
    /\ InHand \cap OnRing = {} /\ (InHand \cup OnRing) \cap InSlot = {}

\* A reserved slot is never handed to the audio thread: no command and no voice names a sound
\* that is still to be decoded, nor one whose buffer was freed.
ReservedUnseen ==
    /\ \A k \in DOMAIN cmd : cmd[k].t \in {"PLAY", "RETIRE"} => ~IsPending(cmd[k].s)
    /\ ctl.pc # "gone" =>
        \A i \in Voice : voice[i].snd # None => SndLive(voice[i].snd) /\ ~IsPending(voice[i].snd)

\* No sound slot is orphaned: it belongs to a cache entry, or waits on the park list for room in
\* the ring, or its retire is under way - as one command or one ack - however often its load and
\* its release raced; and what an entry is still waiting for is on its way to it, among at most
\* AJOB_CAP loads, the number for which the result ring has room.
Waiting == batch.done + 1 .. Len(cmd)      \* the commands not yet handled
UnderWay(h) == Cardinality({k \in Waiting : cmd[k].t = "RETIRE" /\ cmd[k].s = h})
               + Cardinality({k \in DOMAIN ack : ack[k] = h})
Decoding == IF ldr.pc \in {"decode", "push"} THEN {ldr.snd} ELSE {}
OnTheWay == ToSet(jobs) \cup Decoding \cup {r.snd : r \in ToSet(res)}
EverySlotOwned ==
    ctl.pc # "gone" =>
        /\ \A h \in Sounds :
            /\ Cardinality(Owners(h)) + Cardinality(park \cap {h}) + UnderWay(h) = 1
            /\ snd[h.idx].st = "retiring" <=> UnderWay(h) = 1
        /\ \A f \in File : entry[f].st = "loading" => entry[f].snd \in OnTheWay
        /\ Len(jobs) + Cardinality(Decoding) + Len(res) = inflight /\ inflight <= JobCap

\* Once nothing about a source is under way, its voice does what the client last asked of it: the
\* sound, the seek and the scheduled stop, as if every sound had been loaded before its play, a held
\* play that was superseded, stopped or swept never starting.  The one exception is a stop scheduled
\* behind a play that was still held: it is lost, because the CMD_PLAY of the release clears it, so
\* the voice has a scheduled stop exactly if one was asked of its play once that was sent.  No claim
\* where a full ring or hold list refused a request, or where the sound asked for is gone
\* (rt_sound_publish, rt_source_stop_at, CMD_PLAY in rt.c).
Settled(h) ==
    /\ \A k \in Waiting : cmd[k].v # h /\ cmd[k].t # "STOP_ALL"
    /\ \A p \in held : p.src # h
    /\ ~(ctl.pc = "seek" /\ h \in ctl.try)
Claims(h) == Live(h) /\ Settled(h) /\ WantOf(h).all
Sounding(h) == WantOf(h).on /\ SndLive(WantOf(h).snd) /\ snd[WantOf(h).snd.idx].st = "live"
AsAsked ==
    \A h \in Sources : Claims(h) =>
        /\ ~WantOf(h).on => ~voice[h.idx].on
        /\ Sounding(h) => /\ voice[h.idx].on /\ voice[h.idx].snd = WantOf(h).snd
                          /\ voice[h.idx].seek = WantOf(h).seek
                          /\ voice[h.idx].stopAt = WantOf(h).stopAt

\* The loader never sleeps through work or through bwa_destroy: when it waits, or is about to, and a
\* job is queued or the stop flag is up, the event is signalled or about to be.
NoLostWakeUp ==
    ldr.pc = "wait" /\ (jobs # <<>> \/ stop) => jobEv \/ ctl.pc \in {"signal", "quit"}
=============================================================================
