------------------------------ MODULE Published ------------------------------
(***************************************************************************)
(* What one thread of cave-audio publishes for another without a lock: a   *)
(* value too wide for one atomic store, one writer, readers that never     *)
(* block.  A behaviour follows one of them (box), they share nothing:      *)
(*   pose     PoseSlot of pose.h: receiver thread -> audio thread          *)
(*   clock    the device clock and its fit: audio -> control thread        *)
(*   room     the shoebox of the early reflections: control -> audio       *)
(*   monitor  the stereo tap of cave_both: array -> headphone device       *)
(*   path     a voice's path field: simulation thread -> audio thread      *)
(*   eq       the headphone correction: control thread -> audio thread     *)
(* The first four have a sequence counter, the last three two buffers.     *)
(* A value is two words, each the number of the publication it comes from; *)
(* the words are relaxed, so both sides touch them in any order.           *)
(***************************************************************************)
EXTENDS Integers, FiniteSets

CONSTANTS
    Box,        \* the publications to follow
    PubMax      \* bound: values written, and headphone corrections published

ASSUME PublishedAssumption ==
    Box \subseteq {"pose", "clock", "room", "monitor", "path", "eq"} /\ PubMax \in Nat

VARIABLES
    box,        \* the publication followed
    buf,        \* the two buffers (the single-slot ones use buffer 0)
    seq,        \* clk_seq, ism_seq, mon_seq, PoseSlot.seq: odd while the buffer is rewritten
    idx,        \* mon_idx, path_idx, hpeq_idx: the published buffer, -1 for no correction
    on,         \* the device runs
    wr,         \* the writer: step, number of its value, buffer, words left, sessions stopped, late
    rd,         \* a reader: step, try, buffer, counter seen, words left and read, last value taken
    eq          \* hpeq_gen, hpeq_ack, and the renderer's adopted, active and audible correction

vars == <<box, buf, seq, idx, on, wr, rd, eq>>

Word == {1, 2}
Zero == [w \in Word |-> 0]
Seqlocked == {"pose", "clock", "room", "monitor"}
Doubled == {"monitor", "path", "eq"}
Tries == [b \in Box |-> CASE b = "pose" -> 8 [] b = "clock" -> 16 [] b = "monitor" -> 2 [] OTHER -> 1]

\* Where a read begins.
First == CASE box \in {"monitor", "path"} -> "idx" [] box = "eq" -> "gen" [] OTHER -> "seq"

Init ==
    /\ box \in Box
    /\ buf = [b \in {0, 1} |-> Zero] /\ seq = [b \in {0, 1} |-> 0]
    /\ idx = IF box = "eq" THEN -1 ELSE 0
    /\ on \in BOOLEAN
    /\ wr = [pc |-> "idle", k |-> 0, b |-> 0, left |-> {}, old |-> -1, late |-> FALSE]
    /\ rd = [pc |-> First, t |-> 1, b |-> 0, s |-> 0, seen |-> 0, left |-> {}, w |-> Zero,
             base |-> 0, got |-> Zero, raced |-> FALSE]
    /\ eq = [gen |-> 0, ack |-> 0, adopted |-> 0, active |-> -1, audible |-> FALSE, tgt |-> FALSE]

-----------------------------------------------------------------------------
(* The writer. *)

\* The buffer to write: the one that is not published.
Back == CASE box \in {"monitor", "path"} -> 1 - idx [] box = "eq" /\ idx = 0 -> 1 [] OTHER -> 0

\* Enter: make the counter odd.  bwa_load_headphone_eq begins to parse into the back design, late if
\* the renderer has not adopted the previous one.
Open ==
    /\ wr.pc = "idle" /\ wr.k < PubMax /\ eq.gen <= PubMax
    /\ box = "clock" => on
    /\ wr' = [wr EXCEPT !.pc = "store", !.k = @ + 1, !.b = Back, !.left = Word,
                        !.late = box = "eq" /\ eq.ack # eq.gen]
    /\ seq' = IF box \in Seqlocked THEN [seq EXCEPT ![Back] = @ + 1] ELSE seq
    /\ UNCHANGED <<box, buf, idx, on, rd, eq>>

Store(w) ==
    /\ wr.pc = "store" /\ w \in wr.left
    /\ buf' = [buf EXCEPT ![wr.b][w] = wr.k]
    /\ wr' = [wr EXCEPT !.left = @ \ {w},
                        !.pc = IF wr.left # {w} THEN "store"
                               ELSE IF box \in Seqlocked THEN "close" ELSE "flip"]
    /\ UNCHANGED <<box, seq, idx, on, rd, eq>>

\* Leave: make the counter even.
Close ==
    /\ wr.pc = "close"
    /\ seq' = [seq EXCEPT ![wr.b] = @ + 1]
    /\ wr' = [wr EXCEPT !.pc = IF box \in Doubled THEN "flip" ELSE "idle"]
    /\ UNCHANGED <<box, buf, idx, on, rd, eq>>

\* Publish the buffer that was written.
Flip ==
    /\ wr.pc = "flip"
    /\ idx' = wr.b
    /\ wr' = [wr EXCEPT !.pc = IF box = "eq" THEN "gen" ELSE "idle"]
    /\ UNCHANGED <<box, buf, seq, on, rd, eq>>

\* A correction file that does not parse: the back design keeps what was read of it.
ParseFails ==
    /\ box = "eq" /\ wr.pc = "store"
    /\ wr' = [wr EXCEPT !.pc = "idle", !.left = {}]
    /\ UNCHANGED <<box, buf, seq, idx, on, rd, eq>>

\* bwa_load_headphone_eq without a path: publish "none".
Clear ==
    /\ box = "eq" /\ wr.pc = "idle" /\ idx >= 0 /\ eq.gen <= PubMax
    /\ idx' = -1
    /\ wr' = [wr EXCEPT !.pc = "gen"]
    /\ UNCHANGED <<box, buf, seq, on, rd, eq>>

\* hpeq_publish: bump the generation, then wait for the renderer, if there is one.
Bump ==
    /\ wr.pc = "gen"
    /\ eq' = [eq EXCEPT !.gen = @ + 1]
    /\ wr' = [wr EXCEPT !.pc = IF on THEN "wait" ELSE "idle"]
    /\ UNCHANGED <<box, buf, seq, idx, on, rd>>

\* The wait ends with the renderer's answer, or after 100 tries of a millisecond.
Answered ==
    /\ wr.pc = "wait" /\ eq.ack = eq.gen
    /\ wr' = [wr EXCEPT !.pc = "idle"]
    /\ UNCHANGED <<box, buf, seq, idx, on, rd, eq>>

TimedOut ==
    /\ wr.pc = "wait" /\ eq.ack # eq.gen
    /\ wr' = [wr EXCEPT !.pc = "idle"]
    /\ UNCHANGED <<box, buf, seq, idx, on, rd, eq>>

\* bwa_stop and bwa_start.  The device's threads are joined, so no block is under way; the client is
\* in the call itself, so it neither loads nor reads.  Stopping forgets the clock of the session.
\* Slip: the published pair is left alone.
SessionKept == buf
Session == [buf EXCEPT ![0] = Zero]

Stop ==
    /\ box \in {"clock", "eq"} /\ on /\ wr.pc = "idle" /\ rd.pc = First
    /\ on' = FALSE
    /\ IF box = "clock"
       THEN /\ wr.old < wr.k
            /\ buf' = Session
            /\ seq' = [seq EXCEPT ![0] = @ + 2]
            /\ wr' = [wr EXCEPT !.old = wr.k]
       ELSE UNCHANGED <<buf, seq, wr>>
    /\ UNCHANGED <<box, idx, rd, eq>>

Start ==
    /\ box \in {"clock", "eq"} /\ ~on /\ wr.pc = "idle" /\ rd.pc = First
    /\ on' = TRUE
    /\ UNCHANGED <<box, buf, seq, idx, wr, rd, eq>>

-----------------------------------------------------------------------------
(* The readers. *)

\* A try that lost the race: again, or give up - the caller keeps the value it has.
Again ==
    rd' = [rd EXCEPT !.pc = First, !.left = {}, !.t = IF rd.t < Tries[box] THEN @ + 1 ELSE 1]

\* The published buffer; base is the number of the publication it holds.
LoadIdx ==
    /\ rd.pc = "idx"
    /\ rd' = [rd EXCEPT !.b = idx, !.pc = IF box = "monitor" THEN "seq" ELSE "load", !.left = Word,
                        !.base = IF wr.pc = "idle" THEN wr.k ELSE wr.k - 1]
    /\ UNCHANGED <<box, buf, seq, idx, on, wr, eq>>

\* A rewrite is under way.
\* Slip: an odd counter is not looked at.
BusyNever(s) == FALSE
Busy(s) == s % 2 = 1

\* The counter, before the words.  A pose that was never published, and a room already adopted, end
\* the read.
Nothing(s) == (box = "pose" /\ s = 0) \/ (box = "room" /\ s = rd.seen)
LoadSeq ==
    /\ rd.pc = "seq"
    /\ LET s == seq[rd.b] IN
       \/ Nothing(s) /\ rd' = [rd EXCEPT !.t = 1]
       \/ ~Nothing(s) /\ Busy(s) /\ Again
       \/ ~Nothing(s) /\ ~Busy(s) /\ rd' = [rd EXCEPT !.pc = "load", !.s = s, !.left = Word]
    /\ UNCHANGED <<box, buf, seq, idx, on, wr, eq>>

Load(w) ==
    /\ rd.pc = "load" /\ w \in rd.left
    /\ rd' = [rd EXCEPT !.w[w] = buf[rd.b][w], !.left = @ \ {w},
                        !.pc = IF rd.left # {w} THEN "load"
                               ELSE IF box \in Seqlocked THEN "check" ELSE "done"]
    /\ UNCHANGED <<box, buf, seq, idx, on, wr, eq>>

\* The counter, after the words: unchanged, or the try is void.  A clock without a time is no clock.
Check ==
    /\ rd.pc = "check"
    /\ IF seq[rd.b] # rd.s THEN Again
       ELSE rd' = [rd EXCEPT !.pc = IF box = "clock" /\ rd.w[2] = 0 THEN First ELSE "done", !.t = 1]
    /\ UNCHANGED <<box, buf, seq, idx, on, wr, eq>>

\* The second publication after the one being read has begun: it rewrites the buffer under the reader.
Raced == box \in {"monitor", "path"} /\ wr.k >= rd.base + 2

\* The value is used: a correction has been applied, and its mix has reached the target.  Read while
\* its buffer may have been rewritten, it is no measure for the next one.
Take ==
    /\ rd.pc = "done"
    /\ rd' = [rd EXCEPT !.pc = First, !.got = rd.w, !.seen = rd.s, !.raced = Raced \/ wr.late]
    /\ eq' = [eq EXCEPT !.audible = eq.tgt]
    /\ UNCHANGED <<box, buf, seq, idx, on, wr>>

-----------------------------------------------------------------------------
(* The reader of the headphone correction, engine_hpeq: once per block. *)

\* The generation.  A new one first mutes the correction that is still audible, for one block.
EqBlock ==
    /\ rd.pc = "gen" /\ on
    /\ \/ /\ eq.adopted # eq.gen /\ eq.audible /\ eq.active >= 0
          /\ rd' = [rd EXCEPT !.pc = "load", !.b = eq.active, !.left = Word]
          /\ eq' = [eq EXCEPT !.tgt = FALSE]
       \/ /\ eq.adopted # eq.gen /\ ~(eq.audible /\ eq.active >= 0)
          /\ rd' = [rd EXCEPT !.pc = "adopt"]
          /\ eq' = [eq EXCEPT !.adopted = eq.gen]
       \/ /\ eq.adopted = eq.gen
          /\ rd' = [rd EXCEPT !.pc = "render"]
          /\ UNCHANGED eq
    /\ UNCHANGED <<box, buf, seq, idx, on, wr>>

\* The index behind it, and a fresh filter state.
EqAdopt ==
    /\ rd.pc = "adopt"
    /\ rd' = [rd EXCEPT !.pc = "ack"]
    /\ eq' = [eq EXCEPT !.active = idx, !.audible = FALSE]
    /\ UNCHANGED <<box, buf, seq, idx, on, wr>>

EqAck ==
    /\ rd.pc = "ack"
    /\ rd' = [rd EXCEPT !.pc = "render"]
    /\ eq' = [eq EXCEPT !.ack = eq.adopted]
    /\ UNCHANGED <<box, buf, seq, idx, on, wr>>

\* Apply the active design toward the A/B switch, which the client turns at any time.
EqRender ==
    /\ rd.pc = "render"
    /\ \/ /\ eq.active >= 0
          /\ \E switch \in BOOLEAN :
               /\ switch \/ eq.audible
               /\ eq' = [eq EXCEPT !.tgt = switch]
          /\ rd' = [rd EXCEPT !.pc = "load", !.b = eq.active, !.left = Word]
       \/ /\ eq.active < 0 \/ ~eq.audible
          /\ rd' = [rd EXCEPT !.pc = "gen"]
          /\ UNCHANGED eq
    /\ UNCHANGED <<box, buf, seq, idx, on, wr>>

Write == Open \/ (\E w \in Word : Store(w)) \/ Close \/ Flip
Correct == ParseFails \/ Clear \/ Bump \/ Answered \/ TimedOut
Device == Stop \/ Start
Read == LoadIdx \/ LoadSeq \/ (\E w \in Word : Load(w)) \/ Check \/ Take
Render == EqBlock \/ EqAdopt \/ EqAck \/ EqRender

Next == Write \/ Correct \/ Device \/ Read \/ Render

Spec == Init /\ [][Next]_vars

-----------------------------------------------------------------------------
(* Properties. *)

Value == [Word -> 0 .. PubMax]
TypeOK ==
    /\ box \in Box /\ buf \in [{0, 1} -> Value] /\ seq \in [{0, 1} -> Nat]
    /\ idx \in -1 .. 1 /\ (idx = -1 => box = "eq") /\ on \in BOOLEAN
    /\ wr \in [pc : {"idle", "store", "close", "flip", "gen", "wait"}, k : 0 .. PubMax, b : {0, 1},
               left : SUBSET Word, old : -1 .. PubMax, late : BOOLEAN]
    /\ rd \in [pc : {"idx", "seq", "gen", "load", "check", "done", "adopt", "ack", "render"},
               t : 1 .. 16, b : {0, 1}, s : Nat, seen : Nat, left : SUBSET Word, w : Value,
               base : 0 .. PubMax, got : Value, raced : BOOLEAN]
    /\ eq \in [gen : Nat, ack : Nat, adopted : Nat, active : -1 .. 1, audible : BOOLEAN, tgt : BOOLEAN]

Whole(x) == x[1] = x[2]

\* No reader uses a value of two writes.  The counters guarantee it; the path field, which has none,
\* is torn only when the second publication after the one being read has begun; the headphone design
\* only when a load did not wait for the previous one to be adopted (it was loaded while the device
\* stood still, or the 100 ms ran out).
WholeValue ==
    rd.pc = "done" =>
        \/ Whole(rd.w)
        \/ box = "path" /\ Raced
        \/ box = "eq" /\ wr.late

\* A reader never goes back to an older value than it has used (after an undisturbed read), nor to the clock
\* of a session that was stopped.
NeverBack ==
    rd.pc = "done" /\ ~rd.raced /\ ~wr.late =>
        \A w \in Word : rd.w[w] >= rd.got[w] /\ rd.w[w] > wr.old
=============================================================================
