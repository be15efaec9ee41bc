----------------------------- MODULE SourceSlot -----------------------------
(***************************************************************************)
(* One source slot of cave-audio as its four parties see it: the control   *)
(* thread writes frames (source position, listener pose, a commit) and     *)
(* plays into the command ring and reads back what is sounding and what    *)
(* has ended; the audio thread drains the ring once per block, mixes from  *)
(* the committed values and publishes; the occlusion simulation, or the    *)
(* client, stores a source's occlusion past the ring.  The slot is let     *)
(* several times, each time under a new generation.                        *)
(***************************************************************************)
EXTENDS Integers, Sequences, FiniteSets

CONSTANTS
    Uses,       \* the sets of operations a client (and the simulation) may use
    GenMax,     \* bound: lets of the slot
    FrameMax,   \* bound: frames committed
    PlayMax,    \* bound: plays per let
    CmdCap,     \* RING_CAP
    EvtCap,     \* the share of the event ring open to notices
    EndedCap    \* ended_cap: completions kept for rt_poll_ended

CallNames == {"create", "destroy", "move", "play", "stop", "poll", "manual", "simulate"}

ASSUME SlotAssumption ==
    /\ Uses \subseteq SUBSET CallNames
    /\ GenMax \in Nat /\ FrameMax \in Nat /\ PlayMax \in Nat
    /\ CmdCap \in Nat \ {0} /\ EvtCap \in Nat /\ EndedCap \in Nat \ {0}

VARIABLES
    calls,      \* the operations in use
    slot,       \* the control thread's slot: gen, inuse, play_seq
    app,        \* the client's frame under way, what it has set, and a setter was refused
    frames,     \* the frames committed: generation, position and listener of each
    cmd,        \* the command ring, the commands being drained included
    aud,        \* the block: step, commands to drain, drained
    voice,      \* the voice: gen, active, playing, stopping, play_seq, pos_pending, pos_active
    lis,        \* the listener: p_pending, p_active
    pub,        \* play_pub: generation, play_seq, playing
    evt,        \* the EVT_VOICE_DONE notices
    ended,      \* the completions to poll
    occ,        \* occ_handle, and a word behind it: the generation its value is of (0: clear)
    setter,     \* rt_set_direct, by the client or by the simulation: step, generation
    mix         \* the mixer's read of occ: the handle matched, the word read

ctlVars == <<slot, app, frames, ended>>
audVars == <<aud, voice, lis, pub>>
vars == <<calls, ctlVars, cmd, audVars, evt, occ, setter, mix>>

\* The words of occ (direct level, bands, transmission, air) are stored and read one by one, and every
\* one is gated by the handle: one of them stands for each.
Clear == [h |-> 0, w |-> 0]
Quiet == [pc |-> "idle", gen |-> 0]
Unread == [mine |-> FALSE, w |-> 0]
Publisher == {"manual", "simulate"}

Cmd(t, g, n) == [t |-> t, gen |-> g, n |-> n]

Init ==
    /\ calls \in Uses
    /\ slot = [gen |-> 0, inuse |-> FALSE, seq |-> 0]
    /\ app = [frame |-> 1, pos |-> 0, lis |-> 0, lost |-> FALSE, set |-> FALSE]
    /\ frames = {} /\ cmd = <<>> /\ evt = <<>> /\ ended = <<>>
    /\ aud = [pc |-> "idle", todo |-> 0, n |-> 0]
    /\ voice = [gen |-> 0, active |-> FALSE, playing |-> FALSE, stopping |-> FALSE, seq |-> 0,
                pend |-> 0, pos |-> 0]
    /\ lis = [pend |-> 0, pos |-> 0]
    /\ pub = [gen |-> 0, seq |-> 0, on |-> FALSE]
    /\ occ = Clear
    /\ setter = [p \in Publisher |-> Quiet]
    /\ mix = Unread

-----------------------------------------------------------------------------
(* The control thread. *)

Call(c) == c \in calls /\ setter["manual"] = Quiet
Room == Len(cmd) < CmdCap
Push(c) == cmd' = IF Room THEN Append(cmd, c) ELSE cmd

\* rt_source_create: the handle is valid at once, the voice when CMD_SRC_CREATE is drained.
CreateSource ==
    /\ Call("create") /\ ~slot.inuse /\ slot.gen < GenMax /\ Room
    /\ slot' = [gen |-> slot.gen + 1, inuse |-> TRUE, seq |-> 0]
    /\ app' = [app EXCEPT !.pos = 0, !.set = FALSE]
    /\ cmd' = Append(cmd, Cmd("CREATE", slot.gen + 1, 0))
    /\ UNCHANGED <<calls, frames, ended, audVars, evt, occ, setter, mix>>

\* rt_source_destroy: refused by a full ring, the source lives on.
DestroySource ==
    /\ Call("destroy") /\ slot.inuse /\ Room
    /\ slot' = [slot EXCEPT !.inuse = FALSE]
    /\ cmd' = Append(cmd, Cmd("DESTROY", slot.gen, 0))
    /\ UNCHANGED <<calls, app, frames, ended, audVars, evt, occ, setter, mix>>

\* rt_source_set_pos and rt_set_listener; a full ring drops the value without a word.
SetPos ==
    /\ Call("move") /\ slot.inuse /\ app.frame <= FrameMax /\ app.pos < app.frame
    /\ Push(Cmd("SET_POS", slot.gen, app.frame))
    /\ app' = [app EXCEPT !.pos = app.frame, !.lost = @ \/ ~Room]
    /\ UNCHANGED <<calls, slot, frames, ended, audVars, evt, occ, setter, mix>>

SetListener ==
    /\ Call("move") /\ app.frame <= FrameMax /\ app.lis < app.frame
    /\ Push(Cmd("SET_LISTENER", 0, app.frame))
    /\ app' = [app EXCEPT !.lis = app.frame, !.lost = @ \/ ~Room]
    /\ UNCHANGED <<calls, slot, frames, ended, audVars, evt, occ, setter, mix>>

\* source_bind: the play counter is ahead of the ring, and taken back when the ring refuses.
\* Slip: the bump is kept.
RolledKept(prev) == prev + 1
Rolled(prev) == prev
Play ==
    /\ Call("play") /\ slot.inuse /\ slot.seq < PlayMax
    /\ Push(Cmd("PLAY", slot.gen, slot.seq + 1))
    /\ slot' = [slot EXCEPT !.seq = IF Room THEN @ + 1 ELSE Rolled(@)]
    /\ UNCHANGED <<calls, app, frames, ended, audVars, evt, occ, setter, mix>>

Stop ==
    /\ Call("stop") /\ slot.inuse /\ Room
    /\ cmd' = Append(cmd, Cmd("STOP", slot.gen, 0))
    /\ UNCHANGED <<calls, ctlVars, audVars, evt, occ, setter, mix>>

\* drain_events: a completion is noted when it is the latest play's, of the current let.
\* Slip: any play of the current let.
LatestOfTheLet(e) == e.seq # 0 /\ slot.inuse /\ slot.gen = e.gen
Latest(e) == e.seq # 0 /\ slot.inuse /\ slot.gen = e.gen /\ slot.seq = e.seq
\* Every notice that matches is of that one play, and notes one completion of it.
Completions ==
    [i \in 1 .. Cardinality({k \in DOMAIN evt : Latest(evt[k])}) |-> [gen |-> slot.gen, seq |-> slot.seq]]
\* ended_note drops the oldest when full.
Newest(s) == IF Len(s) <= EndedCap THEN s ELSE SubSeq(s, Len(s) - EndedCap + 1, Len(s))

\* rt_commit: the frame's end, then drain_events.
Commit ==
    /\ setter["manual"] = Quiet
    /\ app.frame <= FrameMax \/ evt # <<>>
    /\ Push(Cmd("COMMIT", 0, 0))
    /\ frames' = IF Room THEN frames \cup {<<slot.gen, app.pos, app.lis>>} ELSE frames
    /\ app' = [app EXCEPT !.frame = IF @ <= FrameMax THEN @ + 1 ELSE @]
    /\ ended' = Newest(ended \o Completions)
    /\ evt' = <<>>
    /\ UNCHANGED <<calls, slot, audVars, occ, setter, mix>>

\* rt_poll_ended.
Poll ==
    /\ Call("poll") /\ ended # <<>>
    /\ ended' = <<>>
    /\ UNCHANGED <<calls, slot, app, frames, cmd, audVars, evt, occ, setter, mix>>

\* rt_source_is_playing for the live handle.
IsPlaying ==
    /\ slot.inuse
    /\ \/ pub.gen # slot.gen /\ slot.seq # 0
       \/ pub.gen = slot.gen /\ (pub.seq # slot.seq \/ pub.on)

-----------------------------------------------------------------------------
(* rt_set_direct: the words, and then the handle. *)

SetDirect(p) ==
    /\ p \in calls /\ setter[p] = Quiet /\ slot.inuse
    /\ setter' = [setter EXCEPT ![p] = [pc |-> "word", gen |-> slot.gen]]
    /\ app' = [app EXCEPT !.set = @ \/ p = "manual"]
    /\ UNCHANGED <<calls, slot, frames, ended, cmd, audVars, evt, occ, mix>>

\* Slip: the handle before the words.
StoresSwapped(p) == [occ EXCEPT !.h = IF setter[p].pc = "word" THEN setter[p].gen ELSE @,
                                !.w = IF setter[p].pc = "handle" THEN setter[p].gen ELSE @]
Stores(p) == [occ EXCEPT !.w = IF setter[p].pc = "word" THEN setter[p].gen ELSE @,
                         !.h = IF setter[p].pc = "handle" THEN setter[p].gen ELSE @]

StoreWord(p) ==
    /\ setter[p].pc = "word"
    /\ occ' = Stores(p)
    /\ setter' = [setter EXCEPT ![p].pc = "handle"]
    /\ UNCHANGED <<calls, ctlVars, cmd, audVars, evt, mix>>

StoreHandle(p) ==
    /\ setter[p].pc = "handle"
    /\ occ' = Stores(p)
    /\ setter' = [setter EXCEPT ![p] = Quiet]
    /\ UNCHANGED <<calls, ctlVars, cmd, audVars, evt, mix>>

-----------------------------------------------------------------------------
(* The audio thread. *)

BeginBlock ==
    /\ aud.pc = "idle"
    /\ aud' = [pc |-> "drain", todo |-> Len(cmd), n |-> 0]
    /\ UNCHANGED <<calls, ctlVars, cmd, voice, lis, pub, evt, occ, setter, mix>>

At(t) == aud.pc = "drain" /\ aud.n < aud.todo /\ cmd[aud.n + 1].t = t
Next1 == cmd[aud.n + 1]
Drained == aud' = [aud EXCEPT !.n = @ + 1] /\ UNCHANGED <<calls, ctlVars, cmd, pub, evt, setter, mix>>
Mine == voice.active /\ voice.gen = Next1.gen

\* CMD_SRC_CREATE: a fresh voice, and no occlusion left from the occupant before.
DrainCreate ==
    /\ At("CREATE")
    /\ voice' = [gen |-> Next1.gen, active |-> TRUE, playing |-> FALSE, stopping |-> FALSE,
                 seq |-> 0, pend |-> 0, pos |-> 0]
    /\ occ' = Clear
    /\ UNCHANGED lis /\ Drained

DrainDestroy ==
    /\ At("DESTROY")
    /\ voice' = IF Mine THEN [voice EXCEPT !.active = FALSE, !.playing = FALSE] ELSE voice
    /\ UNCHANGED <<calls, lis, occ>> /\ Drained

\* CMD_SET_POS and CMD_SET_LISTENER write the pending values only.
\* Slip: the position is used at once.
MovedNow(n) == [voice EXCEPT !.pend = n, !.pos = n]
Moved(n) == [voice EXCEPT !.pend = n]
DrainSetPos ==
    /\ At("SET_POS")
    /\ voice' = IF Mine THEN Moved(Next1.n) ELSE voice
    /\ UNCHANGED <<calls, lis, occ>> /\ Drained

DrainSetListener ==
    /\ At("SET_LISTENER")
    /\ lis' = [lis EXCEPT !.pend = Next1.n]
    /\ UNCHANGED <<calls, voice, occ>> /\ Drained

\* CMD_COMMIT promotes them together.
DrainCommit ==
    /\ At("COMMIT")
    /\ lis' = [lis EXCEPT !.pos = lis.pend]
    /\ voice' = IF voice.active THEN [voice EXCEPT !.pos = voice.pend] ELSE voice
    /\ UNCHANGED occ /\ Drained

DrainPlay ==
    /\ At("PLAY")
    /\ voice' = IF Mine THEN [voice EXCEPT !.playing = TRUE, !.stopping = FALSE, !.seq = Next1.n]
                ELSE voice
    /\ UNCHANGED <<calls, lis, occ>> /\ Drained

DrainStop ==
    /\ At("STOP")
    /\ voice' = IF Mine THEN [voice EXCEPT !.stopping = voice.playing] ELSE voice
    /\ UNCHANGED <<calls, lis, occ>> /\ Drained

EndDrain ==
    /\ aud.pc = "drain" /\ aud.n = aud.todo
    /\ cmd' = SubSeq(cmd, aud.todo + 1, Len(cmd))
    /\ aud' = [pc |-> IF voice.active /\ voice.playing THEN "mix" ELSE "publish", todo |-> 0, n |-> 0]
    /\ UNCHANGED <<calls, ctlVars, voice, lis, pub, evt, occ, setter, mix>>

\* mix_voice: the handle that gates the occlusion, then its words.
MixLook ==
    /\ aud.pc = "mix"
    /\ mix' = [mix EXCEPT !.mine = occ.h = voice.gen]
    /\ aud' = [aud EXCEPT !.pc = IF occ.h = voice.gen THEN "read" ELSE "mixing"]
    /\ UNCHANGED <<calls, ctlVars, cmd, voice, lis, pub, evt, occ, setter>>

MixRead ==
    /\ aud.pc = "read"
    /\ mix' = [mix EXCEPT !.w = occ.w]
    /\ aud' = [aud EXCEPT !.pc = "mixing"]
    /\ UNCHANGED <<calls, ctlVars, cmd, voice, lis, pub, evt, occ, setter>>

\* The voice sounds on.
MixOn ==
    /\ aud.pc = "mixing" /\ ~voice.stopping
    /\ aud' = [aud EXCEPT !.pc = "publish"] /\ mix' = Unread
    /\ UNCHANGED <<calls, ctlVars, cmd, voice, lis, pub, evt, occ, setter>>

\* An explicit stop has faded out: no completion.
MixStopped ==
    /\ aud.pc = "mixing" /\ voice.stopping
    /\ voice' = [voice EXCEPT !.playing = FALSE, !.stopping = FALSE]
    /\ aud' = [aud EXCEPT !.pc = "publish"] /\ mix' = Unread
    /\ UNCHANGED <<calls, ctlVars, cmd, lis, pub, evt, occ, setter>>

\* The sound ends: a best-effort notice, which yields to the ownership events.
MixEnd ==
    /\ aud.pc = "mixing"
    /\ voice' = [voice EXCEPT !.playing = FALSE]
    /\ evt' = IF Len(evt) < EvtCap THEN Append(evt, [gen |-> voice.gen, seq |-> voice.seq]) ELSE evt
    /\ aud' = [aud EXCEPT !.pc = "publish"] /\ mix' = Unread
    /\ UNCHANGED <<calls, ctlVars, cmd, lis, pub, occ, setter>>

\* play_pub and pos_pub, at the end of every block.
Publish ==
    /\ aud.pc = "publish"
    /\ pub' = [gen |-> voice.gen, seq |-> voice.seq, on |-> voice.active /\ voice.playing]
    /\ aud' = [aud EXCEPT !.pc = "idle"]
    /\ UNCHANGED <<calls, ctlVars, cmd, voice, lis, evt, occ, setter, mix>>

Control == CreateSource \/ DestroySource \/ SetPos \/ SetListener \/ Play \/ Stop \/ Commit \/ Poll
Set == \E p \in Publisher : SetDirect(p) \/ StoreWord(p) \/ StoreHandle(p)
Drain ==
    \/ DrainCreate \/ DrainDestroy \/ DrainSetPos \/ DrainSetListener \/ DrainCommit
    \/ DrainPlay \/ DrainStop \/ EndDrain
Mix == MixLook \/ MixRead \/ MixOn \/ MixStopped \/ MixEnd \/ Publish

Next == Control \/ Set \/ BeginBlock \/ Drain \/ Mix

Spec == Init /\ [][Next]_vars

-----------------------------------------------------------------------------
(* Properties. *)

\* The mixer never sees half a frame: the position of a voice that was placed and the listener's are
\* those of one commit (as long as the ring refused no setter).
FrameWhole ==
    aud.pc \in {"mix", "read", "mixing"} /\ voice.pos # 0 /\ ~app.lost =>
        <<voice.gen, voice.pos, lis.pos>> \in frames

\* The latest play of the live source waits in the ring or sounds.
Sounding ==
    /\ slot.inuse
    /\ \/ \E k \in aud.n + 1 .. Len(cmd) : cmd[k] = Cmd("PLAY", slot.gen, slot.seq)
       \/ voice.active /\ voice.gen = slot.gen /\ voice.playing /\ voice.seq = slot.seq

\* rt_source_is_playing never denies a play that was accepted and has not ended, from the call on;
\* and between two blocks it claims nothing that is not so.
PlayingIsExact == (Sounding => IsPlaying) /\ (aud.pc = "idle" /\ IsPlaying => Sounding)

\* A completion that a commit notes is the end of what the client last played on that source: no
\* newer play of it waits in the ring or sounds.
EndedIsOver == [][ended' \notin {ended, <<>>} => ~Sounding]_vars

\* A voice never mixes with the occlusion of an earlier occupant of its slot: what it reads behind a
\* matching handle is its own or clear, or already its successor's.
OccNotInherited ==
    mix.mine /\ aud.pc = "mixing" => mix.w = 0 \/ mix.w >= voice.gen

\* The occlusion a client has set on a live source is what its voice mixes with once it is created.
ManualKept ==
    slot.inuse /\ app.set /\ setter["manual"] = Quiet /\ voice.active /\ voice.gen = slot.gen =>
        occ = [h |-> slot.gen, w |-> slot.gen]
=============================================================================
