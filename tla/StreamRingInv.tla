--------------------------- MODULE StreamRingInv ---------------------------
(***************************************************************************)
(* The inductive strengthening of StreamRing's refinement of SampleChannel *)
(* and of EndsAtTheEnd: where the four cursors of a run may be, what the   *)
(* ring holds between them, and which steps of the three threads exclude   *)
(* each other.  StreamRing_proofs proves StreamIInv inductive for every    *)
(* ring, chunk, block and file length.                                     *)
(***************************************************************************)
EXTENDS StreamRing

\* The stream has one run: a second start rewinds the cursors under a voice that is still bound.
Once == push \/ Plays <= 1

PlayQueued == \E k \in 1 .. Len(cmd) : cmd[k].t = "play"
Starting == ctl.pc \in {"restart", "signal", "bind"}
Restarting == thr.pc \in {"r", "w", "eof", "go"}
Filling == thr.pc \in {"fill", "chunk", "end"}

\* Who runs which part: only a file stream is started and filled, only a push stream is pushed; a
\* block is only mixed for a voice that plays and has room to.
Roles ==
    /\ push => ~Restarting /\ ~Filling /\ ~Starting /\ ctl.plays = 0 /\ ~thr.done
    /\ ctl.pc = "push" => push
    /\ Starting \/ st.state = "restart" => ctl.plays > 0
    /\ aud.pc = "off" => ~voice.playing
    /\ aud.pc \in {"idle", "off"} \/ (voice.playing /\ voice.pos + Block <= PosMax)

\* The voice's commands: never more than were sent, and nothing is begun once a retire is on its way.
Queue ==
    /\ Starting \/ ctl.pc = "push" => ctl.retire = "no"
    /\ \A k \in 1 .. Len(cmd) : cmd[k].t = "retire" => ctl.retire = "sent"
    /\ Len(cmd) + (IF Starting THEN 1 ELSE 0)
         <= ctl.plays + (IF push THEN 1 ELSE 0) + (IF ctl.retire = "no" THEN 0 ELSE 1)

\* Nothing has been decoded, so there is nothing to hear, before the streaming thread has begun the run.
Unbegun == ctl.plays = 0 \/ ctl.pc = "restart" \/ st.state = "restart" \/ Restarting
Beginning ==
    /\ ~push /\ Unbegun =>
        /\ st.state # "active" /\ st.r = 0 /\ st.w = 0 /\ st.eof = None
        /\ wpriv = 0 /\ ~thr.done /\ ~Filling
        /\ voice.pos = 0 /\ aud.buf = <<>>
    /\ ~push /\ (ctl.plays = 0 \/ ctl.pc = "restart") => st.state # "restart" /\ ~Restarting

\* The play is drained once: until then the voice has heard nothing, and does not play.
PlayPending == PlayQueued \/ (~push /\ (ctl.plays = 0 \/ Starting))
Pending ==
    /\ PlayPending => ~voice.playing /\ voice.pos = 0 /\ aud.pc \in {"idle", "off"}
    /\ PlayQueued /\ ~push => ctl.plays > 0 /\ ~Starting

\* The cursors: the consumer's published one, what the voice has taken, the producer's, and the
\* room the producer counts on.
Cursors ==
    /\ wpriv = st.w /\ aud.w <= st.w
    /\ st.r <= Taken /\ Taken <= st.w /\ st.w <= st.r + Ring
    /\ thr.pc = "chunk" => thr.target <= st.r + Ring
    /\ ctl.pc = "push" => ctl.space <= Ring - (wpriv - st.r)

\* Between the voice's position and the producer's cursor the ring holds the samples in order.
Held == \A p \in Nat : Taken <= p /\ p < st.w => ring[p % Ring] = Frame(p)

\* The end mark stands where the producer stopped, for a file at the end of it.
EndMark ==
    /\ ~push /\ ~thr.loop => thr.dec = wpriv
    /\ thr.pc = "end" => wpriv = FileLen /\ ~thr.loop
    /\ st.eof # None => st.eof = wpriv /\ ctl.pc # "push"
    /\ ~push /\ st.eof # None => wpriv = FileLen /\ thr.done /\ ~thr.loop /\ ~Restarting /\ ~Filling
    /\ thr.done => st.eof # None

\* One loop flag per run: the call's, the stream's, the thread's and the voice's.
LoopFlag ==
    /\ push => ~voice.loop /\ \A k \in 1 .. Len(cmd) : ~cmd[k].loop
    /\ ~push /\ ctl.plays > 0 => st.loop = ctl.loop
    /\ ~push => \A k \in 1 .. Len(cmd) : cmd[k].t = "play" => cmd[k].loop = ctl.loop
    /\ ~push /\ voice.playing => voice.loop = ctl.loop /\ ctl.plays > 0
    /\ ~push /\ (Restarting \/ Filling \/ thr.done \/ st.state = "active") => thr.loop = st.loop /\ ctl.plays > 0

Run == Beginning /\ Pending /\ Cursors /\ Held /\ EndMark /\ LoopFlag
StreamIInv == TypeOK /\ Roles /\ Queue /\ (Once => Run)
=============================================================================
