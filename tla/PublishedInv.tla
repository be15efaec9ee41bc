---------------------------- MODULE PublishedInv ----------------------------
(***************************************************************************)
(* The inductive strengthening of Published's WholeValue and NeverBack:    *)
(* what each of the three protocols keeps between its writer and its       *)
(* reader, and how the numbers of the values they exchange grow.           *)
(* Published_proofs proves PublishedIInv inductive for every PubMax.       *)
(***************************************************************************)
EXTENDS Published

\* The steps each party can be at.
PcOK ==
    /\ wr.pc \in {"gen", "wait"} => box = "eq"
    /\ wr.pc = "close" => box \in Seqlocked
    /\ wr.pc = "flip" => box \in Doubled
    /\ wr.pc \in {"store", "close"} \/ (wr.pc = "flip" /\ box # "eq") => wr.k > 0
    /\ rd.pc = "idx" => box \in {"monitor", "path"}
    /\ rd.pc \in {"seq", "check"} => box \in Seqlocked
    /\ rd.pc \in {"gen", "adopt", "ack", "render"} => box = "eq"
    /\ rd.pc \in {"check", "done"} => rd.left = {}
    /\ box \notin Doubled => wr.b = 0 /\ rd.b = 0 /\ idx = 0

\* The words of the buffer being written that are done are the new value's.
Writing ==
    /\ wr.pc = "store" => \A w \in Word \ wr.left : buf[wr.b][w] = wr.k
    /\ wr.pc \in {"close", "flip"} => \A w \in Word : buf[wr.b][w] = wr.k

\* What the reader has read of its buffer is what the buffer holds.
Agrees == \A w \in Word \ rd.left : rd.w[w] = buf[rd.b][w]

\* Sequence counters: odd exactly around a rewrite; a reader whose counter still stands has read
\* nothing but what is there.
Counted ==
    box \in Seqlocked =>
        /\ \A b \in {0, 1} : seq[b] % 2 = 1 <=> wr.pc \in {"store", "close"} /\ wr.b = b
        /\ \A b \in {0, 1} : ~(wr.pc = "store" /\ wr.b = b) => Whole(buf[b])
        /\ rd.pc \in {"load", "check"} =>
            rd.s % 2 = 0 /\ rd.s <= seq[rd.b] /\ (rd.s = seq[rd.b] => Agrees)
        /\ rd.pc = "done" => Whole(rd.w)

\* The number of the last publication.
Last == IF wr.pc = "idle" THEN wr.k ELSE wr.k - 1

\* The headphone correction: once the renderer has adopted the latest generation, or the load under
\* way waited for it, the design in use is whole and is not the one being written.
Fresh == eq.adopted = eq.gen /\ rd.pc # "adopt"
Adopting ==
    box = "eq" =>
        /\ eq.ack <= eq.adopted /\ eq.adopted <= eq.gen
        /\ rd.pc \in {"adopt", "ack"} => eq.ack < eq.adopted
        /\ rd.pc \in {"load", "done"} => rd.b = eq.active
        /\ wr.pc \in {"store", "flip"} => wr.b # idx
        /\ wr.pc = "store" /\ ~wr.late => eq.ack = eq.gen
        /\ idx >= 0 => Whole(buf[idx])
        /\ Fresh /\ wr.pc # "gen" => eq.active = idx
        /\ (Fresh \/ ~wr.late) /\ eq.active >= 0 =>
            Whole(buf[eq.active]) /\ (rd.pc \in {"load", "done"} => Agrees)

\* Numbers grow: nothing published is newer than the writer's count, and only the clock forgets.
Counting ==
    /\ \A b \in {0, 1}, w \in Word : buf[b][w] <= wr.k
    /\ wr.old <= wr.k
    /\ box # "clock" => wr.old = -1
    /\ box # "eq" => ~wr.late

\* One slot: at rest it holds the latest value, or nothing since the session was stopped; a reader
\* holds a value no older than the one it used before.
Single ==
    box \in {"pose", "clock", "room"} =>
        /\ \A w \in Word : rd.got[w] <= wr.k
        /\ wr.pc = "idle" =>
            \/ wr.old < wr.k /\ \A w \in Word : buf[0][w] = wr.k
            \/ box = "clock" /\ \A w \in Word : buf[0][w] = 0
        /\ wr.pc # "idle" => wr.old < wr.k
        /\ rd.pc = "done" =>
            \A w \in Word : rd.got[w] <= rd.w[w] /\ rd.w[w] <= wr.k /\ rd.w[w] > wr.old

\* Two slots: the published one holds the last publication, and the one being read holds nothing
\* older than what was published when the read began.
Double ==
    box \in {"monitor", "path"} =>
        /\ idx \in {0, 1} /\ (wr.pc # "idle" => wr.b = 1 - idx)
        /\ \A w \in Word : buf[idx][w] = Last /\ (~rd.raced => rd.got[w] <= Last)
        /\ rd.pc # "idx" =>
            /\ rd.base <= Last /\ (rd.base = Last => rd.b = idx)
            /\ \A w \in Word : buf[rd.b][w] >= rd.base /\ (~rd.raced => rd.got[w] <= rd.base)
            /\ \A w \in Word \ rd.left : rd.w[w] >= rd.base
            /\ ~Raced => /\ \A w \in Word : buf[rd.b][w] = rd.base
                         /\ \A w \in Word \ rd.left : rd.w[w] = rd.base
        /\ rd.pc = "seq" => rd.left = Word

\* The headphone correction: what the renderer used undisturbed is no newer than the design it is
\* about to use, which is no newer than the published one.
Newer ==
    box = "eq" =>
        /\ ~rd.raced => \A w \in Word : rd.got[w] <= wr.k
        /\ ~rd.raced /\ idx >= 0 => \A w \in Word : rd.got[w] <= buf[idx][w]
        /\ (Fresh \/ ~wr.late) /\ eq.active >= 0 =>
            /\ ~rd.raced => \A w \in Word : rd.got[w] <= buf[eq.active][w]
            /\ idx >= 0 => \A w \in Word : buf[eq.active][w] <= buf[idx][w]

PublishedIInv == TypeOK /\ PcOK /\ Writing /\ Counted /\ Adopting /\ Counting /\ Single /\ Double /\ Newer
=============================================================================
