------------------------------ MODULE Transport ------------------------------
(***************************************************************************)
(* The transport of one voice: where its playhead is and what a block of   *)
(* it sounds like, under play, loop regions, chained sounds, seek, pause,  *)
(* stop, scheduled starts and stops, steals, unloads, and the pauses of a  *)
(* group and of everything (the command handlers, pause_gate, mix_voice    *)
(* and the voice loop of rt_render in src/src/core/rt.c).                  *)
(*                                                                         *)
(* The client's commands reach the voice between two blocks, in order (the *)
(* rings are VoicePool's subject); a block is one step.  Times are kept    *)
(* relative to the block that comes next.                                  *)
(***************************************************************************)
EXTENDS Integers, SequencesExt

CONSTANTS
    Sounds,     \* the sounds in memory: mono, loaded
    Frames,     \* their lengths
    Block,      \* samples per block
    Ahead,      \* bound: how far a start or a stop is scheduled ahead
    QueueCap,   \* BWA_QUEUE
    Pitch,      \* playback rates; here whole numbers
    Uses        \* the sets of API calls a client makes: a behaviour picks one

CallNames == {"play", "play_at", "loop", "region", "seek", "pause", "hold", "stop", "stop_at",
              "sweep", "steal", "queue", "clear", "pitch", "destroy", "unload"}
ASSUME TransportAssumption ==
    /\ Frames \in [Sounds -> Nat \ {0}]
    /\ Block \in Nat \ {0} /\ Ahead \in Nat /\ QueueCap \in Nat
    /\ Pitch \subseteq 1 .. 4 /\ 1 \in Pitch
    /\ Uses \subseteq SUBSET CallNames

Longest == Max({Frames[s] : s \in Sounds})
None == "none"
Never == -1

VARIABLES
    use,        \* the calls this client makes
    v,          \* the Voice
    hold,       \* all_paused, or group_paused of the voice's group
    mix,        \* what the last block rendered, and whether it was the last step
    due,        \* when the voice must be silent: samples from now, Never for "not asked to stop"
    since       \* since the last block: "cut" (content changed at once), "region" (set_region)

vars == <<use, v, hold, mix, due, since>>

\* CMD_SRC_CREATE
Fresh ==
    [active |-> TRUE, playing |-> FALSE, snd |-> None, cursor |-> 0,
     loop |-> FALSE, beg |-> 0, end |-> 0,      \* loop_beg, loop_end (0: the whole clip)
     wait |-> 0, stopAt |-> Never,              \* start_sample; stop_at (Never: not armed)
     stopping |-> 0,                            \* 1: stop, 2: steal
     paused |-> FALSE, seek |-> Never, rate |-> 1,
     gate |-> 1,                                \* pause_g: 0 or 1 between blocks
     level |-> 0,                               \* gcur: 0 until the first block after a play
     queue |-> <<>>]                            \* of [snd, loop]
\* A block that does not mix; "mixed" is one that does, "call" a step of the client.
Silence == [step |-> "silent", heard |-> <<>>, far |-> Never, from |-> 0, to |-> 0, looped |-> 0,
            done |-> FALSE, ended |-> FALSE]

Init ==
    /\ use \in Uses
    /\ v = Fresh /\ hold = FALSE /\ mix = Silence /\ due = Never /\ since = {}

-----------------------------------------------------------------------------
(* The command handlers of drain_commands. *)

\* Of the block before a call, the level it ended at is kept.
Called == [Silence EXCEPT !.step = "call", !.to = mix.to, !.done = mix.done]
Call(name) == name \in use /\ v.active /\ mix' = Called /\ UNCHANGED use
Sounding == v.active /\ v.playing

\* CMD_PLAY and CMD_SET_REGION bound a region against the sound: out of range means the whole clip.
BegIn(s, b) == IF b < Frames[s] THEN b ELSE 0
EndIn(s, e) == IF e <= Frames[s] THEN e ELSE 0

\* CMD_PLAY: everything starts over, except that a steal goes on.
Play(s, loop, wait, b, e) ==
    /\ v' = [v EXCEPT !.playing = TRUE, !.snd = s, !.cursor = 0, !.loop = loop,
                      !.beg = BegIn(s, b), !.end = EndIn(s, e), !.wait = wait, !.stopAt = Never,
                      !.queue = <<>>, !.paused = FALSE, !.gate = 1, !.level = 0, !.seek = Never,
                      !.stopping = IF @ = 2 THEN 2 ELSE 0]
    /\ due' = IF v.stopping = 2 THEN wait + Block ELSE Never
    /\ since' = {"cut"}
    /\ UNCHANGED hold

PlayNow(s, loop) == Call("play") /\ Play(s, loop, 0, 0, 0)
PlayAt(s, t) == Call("play_at") /\ Play(s, FALSE, t, 0, 0)
PlayLoop(s, b, e) == Call("loop") /\ Play(s, TRUE, 0, b, e)

\* CMD_SET_REGION; rt_source_set_region refuses an empty region.
SetRegion(b, e) ==
    /\ Call("region") /\ (e # 0 => b < e)
    /\ v.snd # None
    /\ v' = [v EXCEPT !.beg = BegIn(v.snd, b), !.end = EndIn(v.snd, e)]
    /\ since' = since \cup {"region"}
    /\ UNCHANGED <<hold, due>>

\* CMD_SEEK
Seek(f) ==
    /\ Call("seek")
    /\ v.snd # None
    /\ v' = [v EXCEPT !.seek = f]
    /\ UNCHANGED <<hold, due, since>>

\* CMD_SET_PAUSED
SetPaused(on) ==
    /\ Call("pause")
    /\ v' = [v EXCEPT !.paused = on]
    /\ UNCHANGED <<hold, due, since>>

\* CMD_GROUP_PAUSED; rt_set_all_paused is read at the next block too.
SetHold(on) ==
    /\ Call("hold")
    /\ hold' = on
    /\ UNCHANGED <<v, due, since>>

Earliest(t) == IF due = Never THEN t ELSE Min({due, t})

\* CMD_STOP: the voice fades for a block; one that waits for its start fades when it has started.
CanStop == v.playing /\ v.stopping # 2
Stop ==
    /\ Call("stop")
    /\ CanStop
    /\ v' = [v EXCEPT !.stopping = 1]
    /\ due' = Earliest(v.wait + Block)
    /\ UNCHANGED <<hold, since>>

\* CMD_GROUP_STOP, CMD_STOP_ALL: voice_begin_stop also drops what is scheduled and chained.
Sweep ==
    /\ Call("sweep")
    /\ CanStop
    /\ v' = [v EXCEPT !.stopping = 1, !.stopAt = Never, !.queue = <<>>]
    /\ due' = Earliest(v.wait + Block)
    /\ UNCHANGED <<hold, since>>

\* CMD_STOP_AT
StopAt(t) ==
    /\ Call("stop_at")
    /\ v' = [v EXCEPT !.stopAt = t]
    /\ due' = IF v.playing /\ v.stopping = 0 THEN Max({t, v.wait}) + Block ELSE due
    /\ UNCHANGED <<hold, since>>

\* CMD_SRC_STEAL: a voice that sounds fades; a silent one ends at once.
Steal ==
    /\ "steal" \in use /\ v.active
    /\ \/ /\ v.playing
          /\ v' = [v EXCEPT !.stopping = 2] /\ due' = Earliest(v.wait + Block)
          /\ mix' = Called
       \/ /\ ~v.playing
          /\ v' = [v EXCEPT !.stopping = 0, !.active = FALSE, !.snd = None]
          /\ due' = Never /\ mix' = [Called EXCEPT !.ended = TRUE]
    /\ UNCHANGED <<use, hold, since>>

\* CMD_SRC_DESTROY: silent at once.
Destroy ==
    /\ Call("destroy")
    /\ v' = [v EXCEPT !.active = FALSE, !.playing = FALSE, !.snd = None]
    /\ due' = Never /\ since' = {"cut"}
    /\ UNCHANGED hold

\* CMD_SOUND_RETIRE: a bound voice is silent at once, a queued reference becomes a tombstone.
Unload(s) ==
    /\ Call("unload")
    /\ v' = [v EXCEPT !.playing = @ /\ v.snd # s, !.snd = IF @ = s THEN None ELSE @,
                      !.queue = [i \in DOMAIN @ |-> IF @[i].snd = s THEN [@[i] EXCEPT !.snd = None] ELSE @[i]]]
    /\ since' = IF v.snd = s THEN since \cup {"cut"} ELSE since
    /\ UNCHANGED <<hold, due>>

Create ==
    /\ ~v.active
    /\ v' = Fresh /\ due' = Never /\ mix' = Called
    /\ UNCHANGED <<use, hold, since>>

\* CMD_QUEUE
Queue(s, loop) ==
    /\ Call("queue")
    /\ Len(v.queue) < QueueCap
    /\ v' = [v EXCEPT !.queue = Append(@, [snd |-> s, loop |-> loop])]
    /\ UNCHANGED <<hold, due, since>>

\* CMD_QUEUE_CLEAR
ClearQueue ==
    /\ Call("clear")
    /\ v' = [v EXCEPT !.queue = <<>>]
    /\ UNCHANGED <<hold, due, since>>

\* CMD_SET_PITCH; the glide to the new rate over a block is left out.
SetPitch(r) ==
    /\ Call("pitch")
    /\ v' = [v EXCEPT !.rate = r]
    /\ UNCHANGED <<hold, due, since>>

Client ==
    \/ \E s \in Sounds, loop \in BOOLEAN : PlayNow(s, loop) \/ Queue(s, loop)
    \/ \E s \in Sounds, t \in 1 .. Ahead : PlayAt(s, t)
    \/ \E s \in Sounds, b \in 0 .. Longest, e \in 0 .. Longest : PlayLoop(s, b, e)
    \/ \E b \in 0 .. Longest, e \in 0 .. Longest : SetRegion(b, e)
    \/ \E f \in 0 .. Longest + 1 : Seek(f)
    \/ \E on \in BOOLEAN : SetPaused(on) \/ SetHold(on)
    \/ \E t \in 0 .. Ahead : StopAt(t)
    \/ \E r \in Pitch : SetPitch(r)
    \/ \E s \in Sounds : Unload(s)
    \/ Stop \/ Sweep \/ Steal \/ Destroy \/ Create \/ ClearQueue

-----------------------------------------------------------------------------
(* mix_voice: the samples of one block. *)

\* resolve_loop_region, against the sound that is bound now.
\* Slip: the end is taken as it was set, against the sound of then.
LoopEndAsSet(r, frames) == IF r.end = 0 THEN frames ELSE r.end
LoopEnd(r, frames) == IF r.end = 0 \/ r.end > frames THEN frames ELSE r.end
LoopBeg(r, frames) == IF r.beg >= LoopEnd(r, frames) THEN 0 ELSE r.beg

\* BWA_LOOP_ADVANCE_SPANS
AdvanceSpans == 4
\* loop_wrap: where the cursor lands, and how many wraps are reported.
\* Slip: the cursor goes to the beginning, whatever it overshot.
WrappedToBeg(cur, b, e) == b
Wrapped(cur, b, e) == b + ((cur - b) % (e - b))
Wraps(cur, b, e) == LET n == (cur - b) \div (e - b) IN IF n > AdvanceSpans THEN 1 ELSE n

\* queue_pop_valid: tombstones are skipped.
Valid(q) == {i \in DOMAIN q : q[i].snd # None}
First(q) == q[Min(Valid(q))]
AfterFirst(q) == SubSeq(q, 1 + Min(Valid(q)), Len(q))

\* The seam: at the region's end a loop wraps, a chain moves on, anything else is over.
Seam(m) ==
    CASE m.over \/ m.cur < m.end -> m
      [] ~m.over /\ m.cur >= m.end /\ m.loop ->
            [m EXCEPT !.cur = Wrapped(m.cur, m.beg, m.end), !.looped = @ + Wraps(m.cur, m.beg, m.end)]
      [] ~m.over /\ m.cur >= m.end /\ ~m.loop /\ m.stopping = 0 /\ Valid(m.queue) # {} ->
            LET q == First(m.queue) IN
            [m EXCEPT !.snd = q.snd, !.loop = q.loop, !.queue = AfterFirst(@), !.cur = 0, !.beg = 0, !.end = Frames[q.snd]]
      [] OTHER -> [m EXCEPT !.over = TRUE, !.queue = IF m.stopping = 0 THEN <<>> ELSE @]

\* The frame after pos that a pitched read blends in.
Partner(m) ==
    IF m.loop THEN IF m.cur + 1 >= m.end THEN m.beg ELSE m.cur + 1
    ELSE Min({m.cur + 1, Frames[m.snd] - 1})

\* One sample.
Sample(m) ==
    LET s == Seam(m) IN
    IF s.over THEN s
    ELSE [s EXCEPT !.heard = Append(@, [snd |-> s.snd, pos |-> s.cur]), !.cur = @ + s.rate,
                   !.far = Max({@, Partner(s) - Frames[s.snd]})]

Started(r) ==
    [snd |-> r.snd, cur |-> r.cursor, loop |-> r.loop, rate |-> r.rate, stopping |-> r.stopping, queue |-> r.queue,
     beg |-> LoopBeg(r, Frames[r.snd]), end |-> LoopEnd(r, Frames[r.snd]),
     heard |-> <<>>, looped |-> 0, far |-> Never, over |-> FALSE]
Room(r) == Block - r.wait
Mixing(r) == LET m[k \in 0 .. Room(r)] == IF k = 0 THEN Started(r) ELSE Sample(m[k - 1]) IN m
Mixed(r) == Mixing(r)[Room(r)]

-----------------------------------------------------------------------------
(* rt_render: one block of the voice. *)

Later(t) == CASE t = Never -> Never [] t > Block -> t - Block [] OTHER -> 0
Passed(r) == [r EXCEPT !.wait = Later(@), !.stopAt = Later(@)]
Clock == due' = Later(due) /\ since' = {} /\ UNCHANGED <<use, hold>>

\* Nothing to mix, or not yet.
Idle ==
    /\ ~Sounding \/ v.wait >= Block
    /\ v' = Passed(v) /\ mix' = Silence
    /\ Clock

\* The voice has started at the end of this block; its scheduled stop fires when the block reaches it.
Runs == Sounding /\ v.wait < Block
\* Slip: the stop is looked for before the block, not in it.
NowLate == IF v.stopAt = 0
       THEN [v EXCEPT !.stopAt = Never, !.stopping = IF @ = 2 THEN 2 ELSE 1]
       ELSE v
Now == IF v.stopAt # Never /\ v.stopAt <= Block
       THEN [v EXCEPT !.stopAt = Never, !.stopping = IF @ = 2 THEN 2 ELSE 1]
       ELSE v

\* pause_gate: open unless something closes it; each change takes a block.
Target == IF Now.paused \/ hold \/ Now.seek # Never \/ Now.stopping # 0 THEN 0 ELSE 1
Quiet == Now.gate = 0 /\ Target = 0

\* Once silent, a stopped voice is over; a stolen one gives its slot back.
\* Slip: the fade's block is not waited for.
FinalizeAtOnce ==
    /\ Runs /\ Now.stopping # 0
    /\ v' = [Passed(Now) EXCEPT !.playing = FALSE, !.stopping = 0, !.active = Now.stopping # 2]
    /\ mix' = [Silence EXCEPT !.ended = Now.stopping = 2]
    /\ Clock
Finalize ==
    /\ Runs /\ Quiet /\ Now.stopping # 0
    /\ v' = [Passed(Now) EXCEPT !.playing = FALSE, !.stopping = 0, !.active = Now.stopping # 2]
    /\ mix' = [Silence EXCEPT !.ended = Now.stopping = 2]
    /\ Clock

\* Where a seek lands: in the region.
Landing(r) ==
    LET n == Frames[r.snd]
        b == LoopBeg(r, n)
        e == LoopEnd(r, n)
    IN  IF r.seek < b THEN b
        ELSE IF r.seek < e THEN r.seek
        ELSE IF r.loop THEN b + ((r.seek - b) % (e - b)) ELSE e
Landed == IF Now.seek = Never THEN Now ELSE [Now EXCEPT !.cursor = Landing(Now), !.seek = Never]

\* Paused: a pending seek lands, nothing is mixed.
Frozen ==
    /\ Runs /\ Quiet /\ Now.stopping = 0
    /\ Now.paused \/ Now.seek = Never
    /\ v' = Passed(Landed) /\ mix' = Silence
    /\ Clock

\* A block of r is mixed while the gate goes to its target.
MixBlock(r, to) ==
    LET m == Mixed(r) IN
    /\ v' = [Passed(r) EXCEPT !.gate = to, !.level = 1, !.snd = m.snd, !.cursor = m.cur, !.loop = m.loop,
                              !.queue = m.queue, !.playing = ~m.over]
    /\ mix' = [step |-> "mixed", heard |-> m.heard, far |-> m.far, from |-> r.gate * r.level, to |-> to,
               looped |-> m.looped, done |-> m.over, ended |-> FALSE]
    /\ Clock

\* A seek has landed in silence, and the voice itself is not paused: it comes back in this block.
Land ==
    /\ Runs /\ Quiet /\ Now.stopping = 0
    /\ ~Now.paused /\ Now.seek # Never
    /\ MixBlock(Landed, 1)

\* The block sounds, or fades in or out.
Sound ==
    /\ Runs /\ ~Quiet
    /\ MixBlock(Now, Target)

Render == Idle \/ Finalize \/ Frozen \/ Land \/ Sound

Next == Client \/ Render
Spec == Init /\ [][Next]_vars

-----------------------------------------------------------------------------
(* What the voice should sound like, sample by sample and without blocks. *)

Take(s, n) == SubSeq(s, 1, Min({n, Len(s)}))
\* From c towards e once, every k-th frame.
Once(s, c, e, k) == [i \in 1 .. (IF c < e THEN (e - c + k - 1) \div k ELSE 0) |-> [snd |-> s, pos |-> c + (i - 1) * k]]
\* From c round and round [b, e), n samples.
Round(s, c, b, e, k, n) ==
    [i \in 1 .. n |-> LET p == c + (i - 1) * k IN [snd |-> s, pos |-> IF p < e THEN p ELSE b + ((p - b) % (e - b))]]

Chained(r, n) ==
    FlattenSeq([i \in DOMAIN r.queue |->
                  LET q == r.queue[i] IN
                  IF q.snd = None THEN <<>>
                  ELSE IF q.loop THEN Round(q.snd, 0, 0, Frames[q.snd], r.rate, n)
                  ELSE Once(q.snd, 0, Frames[q.snd], r.rate)])

\* The next n samples of r, if nothing is called.
Ideal(r, n) ==
    LET b == LoopBeg(r, Frames[r.snd])
        e == LoopEnd(r, Frames[r.snd])
    IN  Take(IF r.loop THEN Round(r.snd, r.cursor, b, e, r.rate, n)
             ELSE Once(r.snd, r.cursor, e, r.rate) \o (IF r.stopping = 0 THEN Chained(r, n) ELSE <<>>), n)

\* The wraps of those n samples: how often a looping playhead passes its region's end.
WrapsIn(r, n) ==
    LET b == LoopBeg(r, Frames[r.snd])
        e == LoopEnd(r, Frames[r.snd])
        last == r.cursor + (n - 1) * r.rate
    IN  IF last < e THEN 0 ELSE (last - b) \div (e - b)

Mixes == mix'.step = "mixed"
Renders == mix'.step # "call"
Base == IF Quiet THEN Landed ELSE Now

-----------------------------------------------------------------------------
(* Properties. *)

\* Content is contiguous: a block sounds what a player without blocks would sound from the same
\* place, it leaves the playhead where that player stands, and a loop reports each of its wraps --
\* at any rate, across seams, chains, tombstones, late starts, pauses and seeks.  A region moved
\* under a looping playhead is only asked for its sound, and a region is not asked to end with the
\* sound it was set on (mix_voice, loop_wrap, queue_pop_valid, pause_gate in rt.c).
PlaysThrough ==
    [][Mixes =>
        LET n == Room(Base)
            chained == Len(v'.queue) # Len(Base.queue)
        IN  /\ mix'.heard = Take(Ideal(Base, n), n)
            /\ mix'.done = (Len(mix'.heard) < n)
            /\ (v'.playing /\ ~(chained /\ (v.beg # 0 \/ v.end # 0)))
                 => mix'.heard \o Ideal(v', Block) = Ideal(Base, n + Block)
            /\ (Base.loop /\ "region" \notin since) => mix'.looped = WrapsIn(Base, n)]_vars

\* A block never reads outside its sound, nor does the frame blended in after each read; and it
\* never reads past the end of the region, nor before its beginning once it has been inside: after
\* a seek has landed, or a loop has wrapped (resolve_loop_region, the seam of mix_voice, the seek of
\* pause_gate in rt.c).
ReadsInBounds ==
    [][Mixes =>
        LET b == LoopBeg(Base, Frames[Base.snd])
            e == LoopEnd(Base, Frames[Base.snd])
        IN  /\ mix'.far < 0
            /\ \A i \in DOMAIN mix'.heard : mix'.heard[i].pos \in 0 .. Frames[mix'.heard[i].snd] - 1
            /\ Base.loop => \A i \in DOMAIN mix'.heard :
                   /\ mix'.heard[i].pos < e
                   /\ i > 1 /\ mix'.heard[i].pos < b => mix'.heard[i].pos = mix'.heard[i - 1].pos + Base.rate
            /\ (Now.seek # Never /\ Quiet /\ Base.cursor # e /\ mix'.heard # <<>>) =>
                   mix'.heard[1].pos \in b .. e - 1]_vars

\* A stop, a sweep, a steal and a scheduled stop are all heard in time: at most one block after
\* they are due nothing of the voice sounds and it no longer plays, and on its way out the voice does
\* not move on to what is queued -- whatever was paused, held, sought or scheduled meanwhile.  The
\* slot of a stolen source is given back in that block exactly if its sound still plays: one whose
\* sound ended or was unloaded during the fade is not given back, since a voice that does not play is
\* never finalized, and the end of a source's sound posts no EVT_VOICE_ENDED (pause_gate, the seam
\* and the end of mix_voice, voice_begin_stop, CMD_SOUND_RETIRE, rt_render in rt.c).
StopsOnTime ==
    [][Renders =>
        /\ due \in 0 .. Block - 1 => ~Mixes /\ ~v'.playing /\ (v.stopping = 2 => mix'.ended = v.playing)
        /\ (Mixes /\ Now.stopping # 0) => \A i \in DOMAIN mix'.heard : mix'.heard[i].snd = v.snd]_vars

\* No clicks: a block starts at the level the one before it ended at, or from silence after a play,
\* a destroy or an unload; and the voice does not fall silent from full level except at the end of
\* its content (pause_gate and the gains of CMD_PLAY in rt.c).
ClickFree ==
    [][Renders =>
        LET was == IF "cut" \in since THEN 0 ELSE mix.to
        IN  IF Mixes THEN mix'.from = was ELSE was = 0 \/ mix.done]_vars
=============================================================================
