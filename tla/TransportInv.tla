---------------------------- MODULE TransportInv ----------------------------
(***************************************************************************)
(* The inductive strengthening of what Transport promises: the types, the  *)
(* state of the gate and the gains between two blocks, how long a voice    *)
(* that was asked to stop may still take, and what holds from sample to    *)
(* sample while a block is mixed.                                          *)
(***************************************************************************)
EXTENDS Transport

Entry == [snd : Sounds \cup {None}, loop : BOOLEAN]
Played == [snd : Sounds, pos : Nat]
Time == Nat \cup {Never}
VoiceRec ==
    [active : BOOLEAN, playing : BOOLEAN, snd : Sounds \cup {None}, cursor : Nat,
     loop : BOOLEAN, beg : Nat, end : Nat, wait : Nat, stopAt : Time, stopping : 0 .. 2,
     paused : BOOLEAN, seek : Time, rate : 1 .. 4, gate : 0 .. 1, level : 0 .. 1, queue : Seq(Entry)]
BlockRec ==
    [step : {"call", "silent", "mixed"}, heard : Seq(Played), far : Int, from : 0 .. 1, to : 0 .. 1,
     looped : Int, done : BOOLEAN, ended : BOOLEAN]
TypeOK ==
    /\ use \in Uses /\ v \in VoiceRec /\ hold \in BOOLEAN /\ mix \in BlockRec
    /\ due \in Time /\ since \subseteq {"cut", "region"}
    /\ v.playing => v.active /\ v.snd \in Sounds

\* The level a voice goes on at is the one the last block ended at, or silence if its content was cut;
\* and a voice that was heard to the last sample goes on, unless that was the end of its content.
Levels ==
    /\ v.playing /\ v.wait > 0 => v.level = 0
    /\ v.playing => v.gate * v.level = IF "cut" \in since THEN 0 ELSE mix.to
    /\ "cut" \notin since /\ mix.to = 1 /\ ~mix.done => v.playing

\* A stop that is scheduled is due a block after it; one that has begun leaves the time until the
\* voice has started and faded for a block, or the voice is silent already.
Deadlines ==
    v.playing =>
        /\ v.stopping = 0 => due = IF v.stopAt = Never THEN Never
                                   ELSE (IF v.stopAt > v.wait THEN v.stopAt ELSE v.wait) + Block
        /\ v.stopping # 0 => /\ due # Never
                             /\ due >= v.wait + Block \/ (v.gate = 0 /\ v.wait = 0)
TransportIInv == TypeOK /\ Levels /\ Deadlines

-----------------------------------------------------------------------------
(* While a block is mixed: m is the state after some samples of r.         *)

MixRec ==
    [snd : Sounds, cur : Nat, loop : BOOLEAN, rate : 1 .. 4, stopping : 0 .. 2, queue : Seq(Entry),
     beg : Nat, end : Nat, heard : Seq(Played), looped : Int, far : Int, over : BOOLEAN]
\* The region lies in the sound, and what was read lay in its sound.
Inside(m) ==
    /\ m.beg < m.end /\ m.end <= Frames[m.snd] /\ m.far < 0
    /\ \A i \in DOMAIN m.heard : m.heard[i].pos < Frames[m.heard[i].snd]
\* A loop stays in its sound and its region, and goes back only by wrapping.
RoundAndRound(r, m) ==
    LET b == LoopBeg(r, Frames[r.snd])
        e == LoopEnd(r, Frames[r.snd])
    IN  r.loop =>
        /\ m.loop /\ m.snd = r.snd /\ m.beg = b /\ m.end = e
        /\ m.heard # <<>> => m.cur = m.heard[Len(m.heard)].pos + r.rate
        /\ \A i \in DOMAIN m.heard :
            /\ m.heard[i].pos < e
            /\ i > 1 /\ m.heard[i].pos < b => m.heard[i].pos = m.heard[i - 1].pos + r.rate
\* A voice on its way out stays with its sound.
StaysOut(r, m) ==
    r.stopping # 0 => m.snd = r.snd /\ \A i \in DOMAIN m.heard : m.heard[i].snd = r.snd
\* The first sample is where the playhead was, if that is in the region.
StartsAt(r, m) ==
    LET e == LoopEnd(r, Frames[r.snd])
    IN  r.cursor < e => IF m.heard = <<>> THEN m.cur = r.cursor /\ m.end = e ELSE m.heard[1].pos = r.cursor
MixedOK(r, m) ==
    /\ m \in MixRec /\ m.stopping = r.stopping /\ m.rate = r.rate
    /\ Inside(m) /\ RoundAndRound(r, m) /\ StaysOut(r, m) /\ StartsAt(r, m)
=============================================================================
