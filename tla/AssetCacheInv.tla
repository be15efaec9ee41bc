--------------------------- MODULE AssetCacheInv ---------------------------
(***************************************************************************)
(* The inductive strengthening of AssetCache's ownership properties: which *)
(* handles may be where while the engine runs, each of them once.          *)
(* AssetCache_proofs proves CacheIInv inductive for any number of files,   *)
(* sounds and sources and any ring sizes; with it AskedIInv, which adds    *)
(* what the commands that wait will make of the voices.                    *)
(***************************************************************************)
EXTENDS AssetCache

SoundStates == {"free", "pending", "live", "retiring"}
CommandNames == {"CREATE", "DESTROY", "PLAY", "SEEK", "STOP", "STOP_AT", "STOP_ALL", "RETIRE", "COMMIT"}
ControlStates == {"idle", "pump", "fire", "seek", "park", "body", "signal", "events", "quit", "join", "gone"}
LoaderStates == {"none", "top", "pop", "wait", "decode", "push", "exit"}

TypeOK ==
    /\ entry \in [File -> [snd : Handle, refs : Nat, st : {"none", "loading", "ready", "failed"}]]
    /\ inflight \in Int /\ park \subseteq Handle
    /\ snd \in [Sound -> [gen : Nat, st : SoundStates]]
    /\ sfree \in Seq(Sound)
    /\ slot \in [Voice -> [gen : Nat, inuse : BOOLEAN]]
    /\ held \subseteq [src : Handle, snd : Handle, seek : BOOLEAN]
    /\ ctl \in [pc : ControlStates, h : Handle, try : SUBSET Handle, left : Int]
    /\ jobs \in Seq(Handle) /\ res \in Seq([snd : Handle, ok : BOOLEAN])
    /\ jobEv \in BOOLEAN /\ stop \in BOOLEAN
    /\ ldr \in [pc : LoaderStates, snd : Handle, ok : BOOLEAN]
    /\ cmd \in Seq([t : CommandNames, v : Handle, s : Handle]) /\ ack \in Seq(Handle)
    /\ batch \in [done : Nat, upto : Nat] /\ batch.done <= batch.upto /\ batch.upto <= Len(cmd)
    /\ voice \in [Voice -> [gen : Nat, active : BOOLEAN, snd : Handle, on : BOOLEAN, seek : BOOLEAN,
                            stopAt : BOOLEAN]]
    /\ heap \subseteq Handle
    /\ want \in [Voice -> [snd : Handle, on : BOOLEAN, seek : BOOLEAN, stopAt : BOOLEAN, all : BOOLEAN]]

\* h is its slot's occupant, in the state st.
Is(h, st) == h.idx \in Sound /\ snd[h.idx].gen = h.gen /\ snd[h.idx].st = st
\* h was given out: as the slot's present occupant or an earlier one.
Given(h) == h.idx \in Sound /\ h.gen <= snd[h.idx].gen

\* The free list names each of its slots once.
FreeList ==
    /\ \A k \in DOMAIN sfree : snd[sfree[k]].st = "free"
    /\ \A j, k \in DOMAIN sfree : sfree[j] = sfree[k] => j = k

\* An entry's slot is in the state the entry says, and no two entries share one.
Entries ==
    /\ \A f \in File : entry[f].st = "ready" => Is(entry[f].snd, "live")
    /\ \A f \in File : entry[f].st \in {"loading", "failed"} => Is(entry[f].snd, "pending")
    /\ \A f, g \in File :
        entry[f].st # "none" /\ entry[g].st # "none" /\ entry[f].snd = entry[g].snd => f = g

\* A parked unload is of a loaded sound that has no entry any more.
Parks ==
    /\ \A h \in park : Is(h, "live") /\ \A f \in File : entry[f].st # "none" => entry[f].snd # h
    /\ ctl.pc = "park" => ctl.try \subseteq park

\* A retire is under way once, as a command or as an acknowledgement.
RetireAt(k) == k \in Waiting /\ cmd[k].t = "RETIRE"
Retires ==
    /\ \A k \in Waiting : cmd[k].t = "RETIRE" => Is(cmd[k].s, "retiring")
    /\ \A k \in DOMAIN ack : Is(ack[k], "retiring")
    /\ \A j, k \in Waiting : cmd[j].t = "RETIRE" /\ cmd[k].t = "RETIRE" /\ cmd[j].s = cmd[k].s => j = k
    /\ \A j, k \in DOMAIN ack : ack[j] = ack[k] => j = k
    /\ \A j \in Waiting, k \in DOMAIN ack : cmd[j].t = "RETIRE" => cmd[j].s # ack[k]
    /\ ctl.pc = "events" => 1 <= ctl.left /\ ctl.left <= Len(ack)

\* Every slot in use has someone who will let go of it.
Kept ==
    \A h \in Handle :
        /\ Is(h, "pending") => \E f \in File : entry[f].st \in {"loading", "failed"} /\ entry[f].snd = h
        /\ Is(h, "live") => h \in park \/ \E f \in File : entry[f].st = "ready" /\ entry[f].snd = h
        /\ Is(h, "retiring") => \/ \E k \in Waiting : cmd[k].t = "RETIRE" /\ cmd[k].s = h
                                \/ \E k \in DOMAIN ack : ack[k] = h

\* A load is in one place, and its handle is not in use before the control thread has adopted it.
InLoader(h) == ldr.pc \in {"decode", "push"} /\ ldr.snd = h
Unborn(h) == Given(h) /\ ~Is(h, "live") /\ ~Is(h, "retiring")
Loads ==
    /\ \A k \in DOMAIN jobs : Unborn(jobs[k]) /\ ~InLoader(jobs[k])
    /\ \A k \in DOMAIN res : Unborn(res[k].snd) /\ ~InLoader(res[k].snd)
    /\ ldr.pc \in {"decode", "push"} => Unborn(ldr.snd)
    /\ \A j, k \in DOMAIN jobs : jobs[j] = jobs[k] => j = k
    /\ \A j, k \in DOMAIN res : res[j].snd = res[k].snd => j = k
    /\ \A j \in DOMAIN jobs, k \in DOMAIN res : jobs[j] # res[k].snd

\* The loads under way are counted, and what an entry waits for is among them.
LoaderBusy == IF ldr.pc \in {"decode", "push"} THEN 1 ELSE 0
Counted == Len(jobs) + LoaderBusy + Len(res) = inflight /\ inflight <= JobCap
Awaited ==
    \A f \in File : entry[f].st = "loading" =>
        \/ \E k \in DOMAIN jobs : jobs[k] = entry[f].snd
        \/ InLoader(entry[f].snd)
        \/ \E k \in DOMAIN res : res[k].snd = entry[f].snd

\* An allocated buffer is the loader's, a result's, or that of a slot in use.
Buffers ==
    \A h \in Handle :
        h \in heap <=> \/ ldr.pc = "push" /\ ldr.ok /\ ldr.snd = h
                       \/ \E k \in DOMAIN res : res[k].ok /\ res[k].snd = h
                       \/ Is(h, "live") \/ Is(h, "retiring")

\* What names a sound that the audio thread may look at: a play is held while the sound is pending;
\* one that was sent, and a voice, keep to sounds that are loaded and whose retire is still to come.
RetireAfter(k, h) == \E j \in Waiting : j > k /\ cmd[j].t = "RETIRE" /\ cmd[j].s = h
Visible(k, h) == Is(h, "live") \/ (Is(h, "retiring") /\ RetireAfter(k, h))
HeldUnsent ==
    /\ \A p \in held : Is(p.snd, "pending") \/ (ctl.pc \in {"fire", "seek"} /\ p.snd = ctl.h)
    /\ ctl.pc \in {"fire", "seek"} => Is(ctl.h, "live")
Named ==
    /\ \A k \in DOMAIN cmd : cmd[k].t \in {"PLAY", "RETIRE"} => Given(cmd[k].s) /\ ~Is(cmd[k].s, "pending")
    /\ \A k \in Waiting : cmd[k].t = "PLAY" => Visible(k, cmd[k].s)
    /\ \A i \in Voice : voice[i].snd # None => Visible(batch.done, voice[i].snd)

Running ==
    /\ FreeList /\ Entries /\ Parks /\ Retires /\ Kept
    /\ Loads /\ Counted /\ Awaited /\ Buffers /\ HeldUnsent /\ Named
\* After bwa_destroy nothing is left, and nothing moves.
Over == ctl.pc = "gone"
Emptied ==
    /\ heap = {} /\ jobs = <<>> /\ res = <<>> /\ ldr.pc \in {"none", "exit"}
    /\ \A s \in Sound : snd[s].st = "free"
Quitting == ctl.pc \in {"quit", "join", "gone"} => batch = NoBatch
CacheIInv == TypeOK /\ Quitting /\ IF Over THEN Emptied ELSE Running

(***************************************************************************)
(* What the waiting commands will make of the voices: fut[k] is the voices *)
(* once cmd[k] is handled.  Every play that waits finds its sound (Named). *)
(***************************************************************************)
Places == batch.done .. Len(cmd)
IsFuture(fut) == fut[batch.done] = voice /\ \A k \in Waiting : fut[k] = Effect(fut[k - 1], cmd[k])

\* A source has at most one held play, and it is what the client asked for last; no stop reaches it.
Occupants == {H(i, slot[i].gen) : i \in {i \in Voice : slot[i].inuse}}
HeldOnce ==
    /\ \A p, q \in held : p.src = q.src => p = q
    /\ \A p \in held : p.src.idx \in Voice /\ p.src.gen <= slot[p.src.idx].gen
    /\ \A p \in held : Live(p.src) /\ WantOf(p.src).all =>
        /\ WantOf(p.src).on /\ WantOf(p.src).snd = p.snd
        /\ WantOf(p.src).seek <=> p.seek
        /\ ~WantOf(p.src).stopAt

\* The seek of a released play is the last thing its source was asked.
Seeking(h) == ctl.pc = "seek" /\ h \in ctl.try
Unheld(h) == \A p \in held : p.src # h
SeekPends ==
    ctl.pc = "seek" => /\ \A g, h \in ctl.try : g = h
                       /\ \A h \in ctl.try : /\ Live(h) /\ Unheld(h)
                                             /\ WantOf(h).all => WantOf(h).on /\ WantOf(h).seek

\* The client asks for sounds it was given; a play of one that is decoding is held.
WantGiven ==
    \A i \in Voice : want[i].on =>
        /\ Given(want[i].snd)
        /\ slot[i].inuse /\ want[i].all /\ Is(want[i].snd, "pending") => \E p \in held : p.src = H(i, slot[i].gen)

\* The voices vs do what the client last asked of the source h, but for a seek on its way.
Outcome(vs, h) ==
    LET v == vs[h.idx]
        w == WantOf(h)
    IN
    /\ VoiceOf(vs, h)
    /\ w.all /\ Unheld(h) =>
        /\ ~w.on => ~v.on
        /\ w.on /\ Is(w.snd, "live") =>
            /\ v.on /\ v.snd = w.snd /\ (v.stopAt <=> w.stopAt)
            /\ Seeking(h) \/ (v.seek <=> w.seek)

\* From the last waiting command that touches a source on, its voice does what was asked.
Touches(c, h) == c.v = h \/ c.t = "STOP_ALL"
Untouched(k, h) == \A j \in Waiting : j > k => ~Touches(cmd[j], h)
ForeseenBy(fut) == \A h \in Occupants : \A k \in Places : Untouched(k, h) => Outcome(fut[k], h)
Foreseen == \E fut \in [Places -> [Voice -> [gen : Nat, active : BOOLEAN, snd : Handle, on : BOOLEAN,
                                            seek : BOOLEAN, stopAt : BOOLEAN]]] :
                IsFuture(fut) /\ ForeseenBy(fut)
Asking == HeldOnce /\ SeekPends /\ WantGiven /\ Foreseen
AskedIInv == CacheIInv /\ Asking
=============================================================================
