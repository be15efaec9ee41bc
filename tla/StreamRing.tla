----------------------------- MODULE StreamRing -----------------------------
(***************************************************************************)
(* One stream of core/stream.c and its three threads: the control thread   *)
(* opens, starts, feeds (a push stream) and closes it, the streaming       *)
(* thread decodes the file into the ring ahead of the voice, and the audio *)
(* thread pulls a block at a time.  Positions count samples from the start *)
(* of a run; sample p of a file is frame p % FileLen, and the samples      *)
(* pushed by a caller are told apart by the same remainder.                *)
(***************************************************************************)
EXTENDS Integers, Sequences, FiniteSetsExt

CONSTANTS
    Kinds,      \* subset of BOOLEAN: is the stream a push stream?
    Ring,       \* RING_SIZE
    Chunk,      \* CHUNK, the frames decoded per read
    Block,      \* the samples a voice wants per audio block
    FileLen,    \* total_frames
    Plays,      \* bound: how often a file stream is started
    PosMax      \* bound: how far a run goes

ASSUME StreamAssumption ==
    /\ Kinds \subseteq BOOLEAN
    /\ {Ring, Chunk, Block, FileLen} \subseteq Nat \ {0}
    /\ {Plays, PosMax} \subseteq Nat

None == -1      \* EOF_NONE, or a ring sample never written

VARIABLES
    push,       \* s->push
    st,         \* the atomic words: state, loop_req, r, w, eof_w
    wpriv,      \* w_priv: the producer's cursor (streaming thread, or control for a push stream)
    ring,
    wake, stop, \* set->wake, set->stop
    thr,        \* the streaming thread: where it is, loop, done, the decoder's frame, fill's target
    cmd,        \* the voice's commands in the ring
    voice,      \* bound, playing, stream_pos, and the loop flag it was played with
    aud,        \* the audio thread: where it is, the w it loaded, the samples it copied
    ctl         \* the control thread: where it is, the space it saw, and what it has done
vars == <<push, st, wpriv, ring, wake, stop, thr, cmd, voice, aud, ctl>>
audVars == <<voice, aud>>

States == {"idle", "restart", "active", "closing", "reaped"}
Samples == {None} \cup 0 .. FileLen - 1
Commands == [t : {"play", "retire"}, loop : BOOLEAN]

TypeOK ==
    /\ push \in Kinds
    /\ st \in [state : States, loop : BOOLEAN, r : 0 .. PosMax, w : 0 .. PosMax + Ring,
               eof : {None} \cup 0 .. PosMax + Ring]
    /\ wpriv \in 0 .. PosMax + Ring
    /\ ring \in [0 .. Ring - 1 -> Samples]
    /\ wake \in BOOLEAN /\ stop \in BOOLEAN
    /\ thr \in [pc : {"top", "look", "r", "w", "eof", "go", "fill", "chunk", "end", "wait", "timed",
                      "forever", "out"},
                loop : BOOLEAN, done : BOOLEAN, dec : 0 .. FileLen, target : 0 .. PosMax + Ring]
    /\ cmd \in Seq(Commands) /\ Len(cmd) <= Plays + 2
    /\ voice \in [bound : BOOLEAN, playing : BOOLEAN, pos : 0 .. PosMax, loop : BOOLEAN]
    /\ aud \in [pc : {"idle", "load", "copy", "store", "ended", "off"}, w : 0 .. PosMax + Ring,
                buf : Seq(Samples)] /\ Len(aud.buf) <= Block
    /\ ctl \in [pc : {"idle", "restart", "signal", "bind", "closed", "push", "stop", "stopped",
                      "join", "gone"},
                loop : BOOLEAN, space : 0 .. Ring, plays : 0 .. Plays, retire : {"no", "sent", "acked", "done"}]

Frame(p) == p % FileLen

\* stream_open leaves a file stream idle; stream_open_push, with the PLAY that rt_source_create_stream
\* pushes right after it, an active one.
Init ==
    /\ push \in Kinds
    /\ st = [state |-> IF push THEN "active" ELSE "idle", loop |-> FALSE, r |-> 0, w |-> 0, eof |-> None]
    /\ wpriv = 0 /\ ring = [k \in 0 .. Ring - 1 |-> None]
    /\ wake = TRUE /\ stop = FALSE
    /\ thr = [pc |-> "top", loop |-> FALSE, done |-> FALSE, dec |-> 0, target |-> 0]
    /\ cmd = IF push THEN <<[t |-> "play", loop |-> FALSE]>> ELSE <<>>
    /\ voice = [bound |-> FALSE, playing |-> FALSE, pos |-> 0, loop |-> FALSE]
    /\ aud = [pc |-> "idle", w |-> 0, buf |-> <<>>]
    /\ ctl = [pc |-> "idle", loop |-> FALSE, space |-> 0, plays |-> 0, retire |-> "no"]

Smaller(a, b) == IF a < b THEN a ELSE b
Write(from, n) == [k \in 0 .. Ring - 1 |->
    LET p == {q \in from .. from + n - 1 : q % Ring = k} IN IF p = {} THEN ring[k] ELSE Frame(Max(p))]

-----------------------------------------------------------------------------
(* The streaming thread. *)

Thr(from, to) == thr.pc = from /\ thr' = [thr EXCEPT !.pc = to]
Store(field, value) == st' = [st EXCEPT ![field] = value]

\* The loop's condition, and the snapshot of the slots: this stream's slot is set until it is reaped.
Top ==
    /\ Thr("top", IF stop THEN "out" ELSE IF st.state = "reaped" THEN "wait" ELSE "look")
    /\ UNCHANGED <<push, st, wpriv, ring, wake, stop, cmd, audVars, ctl>>

Reap ==
    /\ st.state = "closing" /\ Thr("look", "wait") /\ Store("state", "reaped")
    /\ UNCHANGED <<push, wpriv, ring, wake, stop, cmd, audVars, ctl>>

\* ST_RESTART: the loop flag, the seek and the private fields, then each shared word in turn.
BeginRestart ==
    /\ st.state = "restart" /\ ~push /\ thr.pc = "look"
    /\ thr' = [thr EXCEPT !.pc = "r", !.loop = st.loop, !.done = FALSE, !.dec = 0]
    /\ wpriv' = 0
    /\ UNCHANGED <<push, st, ring, wake, stop, cmd, audVars, ctl>>
Reset ==
    /\ \/ Thr("r", "w") /\ Store("r", 0)
       \/ Thr("w", "eof") /\ Store("w", 0)
       \/ Thr("eof", "go") /\ Store("eof", None)
       \/ Thr("go", "fill") /\ Store("state", "active")
    /\ UNCHANGED <<push, wpriv, ring, wake, stop, cmd, audVars, ctl>>

Fillable == ~push /\ ~thr.done /\ st.state = "active"
LookOn ==
    /\ st.state # "closing" /\ (st.state = "restart" => push)
    /\ Thr("look", IF Fillable THEN "fill" ELSE "wait")
    /\ UNCHANGED <<push, st, wpriv, ring, wake, stop, cmd, audVars, ctl>>

\* Slip: the producer may run one sample further ahead than the ring holds.
TargetPlusOne == st.r + Ring + 1

\* fill: keep the ring's worth ahead of the consumer.
Target == st.r + Ring
FillBegin ==
    /\ thr.pc = "fill"
    /\ thr' = [thr EXCEPT !.pc = "chunk", !.target = Target]
    /\ UNCHANGED <<push, st, wpriv, ring, wake, stop, cmd, audVars, ctl>>

\* One dec_read, its samples into the ring, and w published; at the end of the file a loop seeks back.
FillChunk ==
    /\ thr.pc = "chunk"
    /\ IF wpriv >= thr.target
       THEN thr' = [thr EXCEPT !.pc = "wait"] /\ UNCHANGED <<st, wpriv, ring>>
       ELSE LET want == Smaller(thr.target - wpriv, Chunk)
                got == Smaller(want, FileLen - thr.dec) IN
            /\ ring' = Write(wpriv, got)
            /\ wpriv' = wpriv + got
            /\ Store("w", wpriv + got)
            /\ thr' = [thr EXCEPT !.pc = IF got < want /\ ~thr.loop THEN "end" ELSE "chunk",
                                  !.dec = IF got < want /\ thr.loop THEN 0 ELSE @ + got]
    /\ UNCHANGED <<push, wake, stop, cmd, audVars, ctl>>
FillEnd ==
    /\ thr.pc = "end"
    /\ Store("eof", wpriv)
    /\ thr' = [thr EXCEPT !.pc = "wait", !.done = TRUE]
    /\ UNCHANGED <<push, wpriv, ring, wake, stop, cmd, audVars, ctl>>

\* Slip: every wait lasts until a signal comes.
TimedNever == FALSE

\* refill_timeout_ms and os_event_wait: with nothing to fill the thread sleeps until it is signalled.
Timed == Fillable
Sleep ==
    /\ Thr("wait", IF Timed THEN "timed" ELSE "forever")
    /\ UNCHANGED <<push, st, wpriv, ring, wake, stop, cmd, audVars, ctl>>
Wake ==
    /\ Thr("timed", "top") \/ (wake /\ Thr("forever", "top"))
    /\ wake' = FALSE
    /\ UNCHANGED <<push, st, wpriv, ring, stop, cmd, audVars, ctl>>

-----------------------------------------------------------------------------
(* The audio thread. *)

\* drain_commands: CMD_PLAY binds the stream from position 0, CMD_SOUND_RETIRE lets go of it and
\* acknowledges.
BeginBlock ==
    /\ aud.pc = "idle"
    /\ LET retired == \E k \in 1 .. Len(cmd) : cmd[k].t = "retire"
           bound == IF cmd = <<>> THEN voice
                    ELSE IF retired THEN [voice EXCEPT !.bound = FALSE, !.playing = FALSE]
                    ELSE [bound |-> TRUE, playing |-> TRUE, pos |-> 0, loop |-> cmd[Len(cmd)].loop] IN
        /\ cmd # <<>> \/ voice.playing
        /\ voice' = bound
        /\ aud' = [aud EXCEPT !.pc = IF bound.playing /\ bound.pos + Block <= PosMax THEN "load" ELSE "idle"]
        /\ ctl' = IF retired THEN [ctl EXCEPT !.retire = "acked"] ELSE ctl
    /\ cmd' = <<>>
    /\ UNCHANGED <<push, st, wpriv, ring, wake, stop, thr>>

\* stream_pull.
PullLoad ==
    /\ aud.pc = "load"
    /\ aud' = [aud EXCEPT !.pc = "copy", !.w = st.w]
    /\ UNCHANGED <<push, st, wpriv, ring, wake, stop, thr, cmd, voice, ctl>>

\* Slip: the pull takes all there is.
GotAll(avail) == avail

Got(avail) == Smaller(avail, Block)
PullCopy ==
    /\ aud.pc = "copy"
    /\ LET got == Got(IF aud.w > voice.pos THEN aud.w - voice.pos ELSE 0) IN
        aud' = [aud EXCEPT !.pc = "store",
                           !.buf = [k \in 1 .. got |-> ring[(voice.pos + k - 1) % Ring]]]
    /\ UNCHANGED <<push, st, wpriv, ring, wake, stop, thr, cmd, voice, ctl>>
PullStore ==
    /\ aud.pc = "store"
    /\ IF aud.buf = <<>> THEN UNCHANGED st ELSE Store("r", voice.pos + Len(aud.buf))
    /\ aud' = [aud EXCEPT !.pc = "ended"]
    /\ UNCHANGED <<push, wpriv, ring, wake, stop, thr, cmd, voice, ctl>>

\* Slip: an end mark that was never set counts as position 0.
EndedUnset(p) == p >= st.eof

\* stream_ended, at the end of mix_voice.
Ended(p) == st.eof # None /\ p >= st.eof
EndBlock ==
    /\ aud.pc = "ended"
    /\ LET p == voice.pos + Len(aud.buf) IN voice' = [voice EXCEPT !.pos = p, !.playing = ~Ended(p)]
    /\ aud' = [aud EXCEPT !.pc = "idle"]
    /\ UNCHANGED <<push, st, wpriv, ring, wake, stop, thr, cmd, ctl>>

-----------------------------------------------------------------------------
(* The control thread. *)

Ctl(from, to) == ctl.pc = from /\ ctl' = [ctl EXCEPT !.pc = to]
Free == ctl.pc = "idle" /\ ctl.retire = "no"     \* the sound can still be used

\* stream_start, then the CMD_PLAY, which a full ring refuses.
StartLoop(loop) ==
    /\ Free /\ ~push /\ ctl.plays < Plays
    /\ Store("loop", loop)
    /\ ctl' = [ctl EXCEPT !.pc = "restart", !.loop = loop, !.plays = @ + 1]
    /\ UNCHANGED <<push, wpriv, ring, wake, stop, thr, cmd, audVars>>
StartState ==
    /\ Ctl("restart", "signal") /\ Store("state", "restart")
    /\ UNCHANGED <<push, wpriv, ring, wake, stop, thr, cmd, audVars>>
StartSignal ==
    /\ Ctl("signal", "bind") /\ wake' = TRUE
    /\ UNCHANGED <<push, st, wpriv, ring, stop, thr, cmd, audVars>>
StartBind ==
    /\ Ctl("bind", "idle")
    /\ cmd' = Append(cmd, [t |-> "play", loop |-> ctl.loop]) \/ UNCHANGED cmd
    /\ UNCHANGED <<push, st, wpriv, ring, wake, stop, thr, audVars>>

\* stream_push_space, and stream_push of n samples.
PushSpace ==
    /\ Free /\ push /\ st.eof = None /\ wpriv < PosMax
    /\ ctl' = [ctl EXCEPT !.pc = "push", !.space = Ring - (wpriv - st.r)]
    /\ UNCHANGED <<push, st, wpriv, ring, wake, stop, thr, cmd, audVars>>
PushWrite(n) ==
    /\ ctl.pc = "push" /\ wpriv + n <= PosMax
    /\ LET put == Smaller(n, ctl.space) IN
        /\ ring' = Write(wpriv, put)
        /\ wpriv' = wpriv + put
        /\ Store("w", wpriv + put)
    /\ ctl' = [ctl EXCEPT !.pc = "idle", !.space = 0]
    /\ UNCHANGED <<push, wake, stop, thr, cmd, audVars>>
PushEnd ==
    /\ Free /\ push /\ st.eof = None
    /\ Store("eof", wpriv)
    /\ UNCHANGED <<push, wpriv, ring, wake, stop, thr, cmd, audVars, ctl>>

\* rt_unload_sound sends the retire; the handler of its ack calls stream_close.
Unload ==
    /\ Free
    /\ cmd' = Append(cmd, [t |-> "retire", loop |-> FALSE])
    /\ ctl' = [ctl EXCEPT !.retire = "sent"]
    /\ UNCHANGED <<push, st, wpriv, ring, wake, stop, thr, audVars>>
Close ==
    /\ ctl.pc = "idle" /\ ctl.retire = "acked"
    /\ Store("state", "closing")
    /\ ctl' = [ctl EXCEPT !.pc = "closed", !.retire = "done"]
    /\ UNCHANGED <<push, wpriv, ring, wake, stop, thr, cmd, audVars>>

\* Slip: the close does not wake the streaming thread.
CloseSignalNot ==
    /\ Ctl("closed", "idle")
    /\ UNCHANGED <<push, st, wpriv, ring, wake, stop, thr, cmd, audVars>>
CloseSignal ==
    /\ Ctl("closed", "idle") /\ wake' = TRUE
    /\ UNCHANGED <<push, st, wpriv, ring, stop, thr, cmd, audVars>>

\* rt_destroy, after the device was stopped, calls stream_set_destroy.
DestroyStop ==
    /\ ctl.pc = "idle" /\ aud.pc = "idle"
    /\ aud' = [aud EXCEPT !.pc = "off"] /\ voice' = [voice EXCEPT !.playing = FALSE]
    /\ stop' = TRUE
    /\ ctl' = [ctl EXCEPT !.pc = "stop"]
    /\ UNCHANGED <<push, st, wpriv, ring, wake, thr, cmd>>

\* Slip: the streaming thread is not woken to see that it shall stop.
DestroySignalNot ==
    /\ Ctl("stop", "join")
    /\ UNCHANGED <<push, st, wpriv, ring, wake, stop, thr, cmd, audVars>>
DestroySignal ==
    /\ Ctl("stop", "join") /\ wake' = TRUE
    /\ UNCHANGED <<push, st, wpriv, ring, stop, thr, cmd, audVars>>
DestroyJoin ==
    /\ thr.pc = "out" /\ Ctl("join", "gone") /\ Store("state", "reaped")
    /\ UNCHANGED <<push, wpriv, ring, wake, stop, thr, cmd, audVars>>

-----------------------------------------------------------------------------
Thread ==
    \/ Top \/ Reap \/ BeginRestart \/ Reset \/ LookOn
    \/ FillBegin \/ FillChunk \/ FillEnd \/ Sleep \/ Wake
Audio == BeginBlock \/ PullLoad \/ PullCopy \/ PullStore \/ EndBlock
ControlStep ==
    \/ StartState \/ StartSignal \/ StartBind
    \/ (\E n \in 1 .. Ring : PushWrite(n))
    \/ Close \/ CloseSignal \/ DestroySignal \/ DestroyJoin
Call == (\E loop \in BOOLEAN : StartLoop(loop)) \/ PushSpace \/ PushEnd \/ Unload \/ DestroyStop

Next == Thread \/ Audio \/ ControlStep \/ Call
Spec == Init /\ [][Next]_vars

\* The three threads keep running: the device calls back, the streaming thread is scheduled, and a
\* call that was begun is finished (the acknowledgement of a retire is drained by the next commit).
FairSpec == Spec /\ WF_vars(Thread) /\ WF_vars(Audio) /\ WF_vars(ControlStep)

-----------------------------------------------------------------------------
(* Properties. *)

\* The samples the voice has taken, those of a pull in progress included.
Taken == voice.pos + (IF aud.pc \in {"store", "ended"} THEN Len(aud.buf) ELSE 0)

\* A stream that is started once, or pushed, is an ordered channel: the voice hears every sample of
\* the file or of the caller once, in order; nothing is overwritten before it was heard.
Channel == INSTANCE SampleChannel
    WITH Capacity <- Ring, sent <- st.w, heard <- Taken, out <- aud.buf
ImplementsChannel == Channel!Spec

\* A voice ends only at the true end: after the whole file, after everything that was pushed, and
\* never because the ring ran empty (stream_ended tells the two apart).
EndsAtTheEnd ==
    [][voice.playing /\ aud.pc = "ended" /\ ~voice'.playing
        => voice'.pos = (IF push THEN wpriv ELSE FileLen) /\ ~voice.loop]_vars

\* A voice is fed until it ends: the streaming thread never sleeps while the stream starves.  A push
\* stream plays on until its caller ends it.
FedToTheEnd ==
    voice.playing /\ (push => st.eof # None) ~> (~voice.playing \/ voice.pos + Block > PosMax)

\* The streaming thread does not sleep through a close.
ClosingIsReaped == st.state = "closing" ~> st.state # "closing"

\* A closed stream is reaped: its decoder, its memory and its slot come back (stream_close: "the
\* streaming thread performs the whole teardown on its next pass").
ClosedIsReaped == ctl.retire = "done" ~> st.state = "reaped"

\* stream_set_destroy returns: the streaming thread wakes up to stop.
DestroyReturns == ctl.pc = "join" ~> ctl.pc = "gone"
=============================================================================
