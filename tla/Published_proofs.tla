-------------------------- MODULE Published_proofs --------------------------
(***************************************************************************)
(* No reader of cave-audio's published state uses a value of two writes, or *)
(* one older than it has used, however often the value is written: the     *)
(* sequence counters, the two slots of the monitor tap and the path, and the *)
(* acknowledged hand-over of the headphone correction, proved from one     *)
(* inductive invariant (PublishedInv).                                     *)
(***************************************************************************)
EXTENDS PublishedInv, TLAPS

-----------------------------------------------------------------------------
(* Types, per group of variables. *)

WrType == [pc : {"idle", "store", "close", "flip", "gen", "wait"}, k : 0 .. PubMax, b : {0, 1},
           left : SUBSET Word, old : -1 .. PubMax, late : BOOLEAN]
RdType == [pc : {"idx", "seq", "gen", "load", "check", "done", "adopt", "ack", "render"},
           t : 1 .. 16, b : {0, 1}, s : Nat, seen : Nat, left : SUBSET Word, w : Value,
           base : 0 .. PubMax, got : Value, raced : BOOLEAN]
EqType == [gen : Nat, ack : Nat, adopted : Nat, active : -1 .. 1, audible : BOOLEAN, tgt : BOOLEAN]

CellsOK == /\ box \in Box /\ buf \in [{0, 1} -> Value] /\ seq \in [{0, 1} -> Nat]
         /\ idx \in -1 .. 1 /\ (idx = -1 => box = "eq") /\ on \in BOOLEAN

LEMMA TypeParts == TypeOK <=> CellsOK /\ wr \in WrType /\ rd \in RdType /\ eq \in EqType
BY DEF TypeOK, CellsOK, WrType, RdType, EqType

LEMMA TypePartsPrime == TypeOK' <=> CellsOK' /\ wr' \in WrType /\ rd' \in RdType /\ eq' \in EqType
BY DEF TypeOK, CellsOK, WrType, RdType, EqType

LEMMA TriesType == ASSUME box \in Box PROVE Tries[box] \in 1 .. 16
BY DEF Tries

LEMMA FirstType ==
  ASSUME TypeOK
  PROVE /\ First \in {"idx", "seq", "gen"}
        /\ First = "idx" <=> box \in {"monitor", "path"}
        /\ First = "gen" <=> box = "eq"
        /\ First = "seq" <=> box \in {"pose", "clock", "room"}
BY PublishedAssumption DEF TypeOK, First

LEMMA BackType ==
  ASSUME TypeOK, PcOK
  PROVE /\ Back \in {0, 1}
        /\ box \in {"monitor", "path"} => Back = 1 - idx
        /\ box = "eq" => Back # idx
        /\ box \notin Doubled => Back = 0
BY PublishedAssumption DEF TypeOK, Back, PcOK, Doubled

LEMMA WordFacts == /\ Word = {1, 2} /\ Zero \in Value /\ Zero[1] = 0 /\ Zero[2] = 0 
BY PublishedAssumption DEF Word, Zero, Value

LEMMA NextTry == ASSUME TypeOK PROVE (IF rd.t < Tries[box] THEN rd.t + 1 ELSE 1) \in 1 .. 16
BY TriesType DEF TypeOK

Retried == \E n \in 1 .. 16 : rd' = [rd EXCEPT !.pc = First, !.left = {}, !.t = n]

LEMMA RetriedType == ASSUME TypeOK, Retried PROVE rd' \in RdType
<1>1. rd \in RdType /\ First \in {"idx", "seq", "gen"} /\ {} \in SUBSET Word
  BY TypeParts, FirstType
<1>2. PICK n \in 1 .. 16 : rd' = [rd EXCEPT !.pc = First, !.left = {}, !.t = n]
  BY DEF Retried
<1> QED BY <1>1, <1>2 DEF RdType

LEMMA AgainRetries == ASSUME TypeOK, Again PROVE Retried
BY NextTry DEF Again, Retried

LEMMA LoadSeqDoes ==
    ASSUME TypeOK, LoadSeq
    PROVE  /\ rd.pc = "seq" /\ UNCHANGED <<box, buf, seq, idx, on, wr, eq>>
           /\ \/ rd' = [rd EXCEPT !.t = 1]
              \/ Retried
              \/ rd' = [rd EXCEPT !.pc = "load", !.s = seq[rd.b], !.left = Word] /\ seq[rd.b] % 2 # 1
<1>1. CASE Nothing(seq[rd.b])
  BY <1>1, Zenon DEF LoadSeq
<1>2. CASE ~Nothing(seq[rd.b]) /\ Busy(seq[rd.b])
  <2>1. Again /\ rd.pc = "seq" /\ UNCHANGED <<box, buf, seq, idx, on, wr, eq>>
    BY <1>2, Zenon DEF LoadSeq
  <2> QED BY <2>1, AgainRetries
<1>3. CASE ~Nothing(seq[rd.b]) /\ ~Busy(seq[rd.b])
  BY <1>3, Zenon DEF LoadSeq, Busy
<1> QED BY <1>1, <1>2, <1>3

LEMMA CheckDoes ==
    ASSUME TypeOK, Check
    PROVE  /\ rd.pc = "check" /\ UNCHANGED <<box, buf, seq, idx, on, wr, eq>>
           /\ \/ Retried
              \/ seq[rd.b] = rd.s /\ \E pc \in {First, "done"} : rd' = [rd EXCEPT !.pc = pc, !.t = 1]
<1>1. CASE seq[rd.b] # rd.s
  <2>1. Again /\ rd.pc = "check" /\ UNCHANGED <<box, buf, seq, idx, on, wr, eq>>
    BY <1>1, Zenon DEF Check
  <2> QED BY <2>1, AgainRetries
<1>2. CASE seq[rd.b] = rd.s
  BY <1>2 DEF Check
<1> QED BY <1>1, <1>2

LEMMA OpenType == ASSUME TypeOK, PcOK, Open PROVE TypeOK'
<1>1. wr' \in WrType
  <2>1. wr \in WrType /\ Back \in {0, 1} /\ (box = "eq" /\ eq.ack # eq.gen) \in BOOLEAN
    BY TypeParts, BackType 
  <2>2. wr.k + 1 \in 0 .. PubMax /\ wr.k < PubMax
    BY <2>1, PublishedAssumption DEF Open, WrType
  <2>3. wr' = [pc |-> "store", k |-> wr.k + 1, b |-> Back, left |-> Word, old |-> wr.old,
               late |-> (box = "eq" /\ eq.ack # eq.gen)]
    BY <2>1 DEF Open, WrType
  <2> QED BY <2>1, <2>2, <2>3, Word \in SUBSET Word DEF WrType
<1>2. seq' \in [{0, 1} -> Nat]
  BY BackType DEF TypeOK, Open
<1> QED BY <1>1, <1>2, TypeParts, TypePartsPrime DEF Open, CellsOK

LEMMA StoreType == ASSUME TypeOK, NEW w \in Word, Store(w) PROVE TypeOK'
<1>1. wr' \in WrType
  <2>1. wr \in WrType /\ wr.left \ {w} \in SUBSET Word
    BY TypeParts DEF WrType
  <2> QED BY <2>1 DEF Store, WrType
<1>2. buf' \in [{0, 1} -> Value]
  BY DEF TypeOK, Store, Value
<1> QED BY <1>1, <1>2, TypeParts, TypePartsPrime DEF Store, CellsOK

LEMMA ParseFailsType == ASSUME TypeOK, ParseFails PROVE TypeOK'
<1>1. wr' \in WrType
  BY TypeParts, {} \in SUBSET Word DEF ParseFails, WrType
<1> QED BY <1>1, TypeParts, TypePartsPrime DEF ParseFails, CellsOK

LEMMA StopType == ASSUME TypeOK, Stop PROVE TypeOK'
<1>1. wr' \in WrType
  BY TypeParts, PublishedAssumption DEF Stop, WrType
<1>2. buf' \in [{0, 1} -> Value] /\ seq' \in [{0, 1} -> Nat]
  BY WordFacts DEF TypeOK, Stop, Session
<1> QED BY <1>1, <1>2, TypeParts, TypePartsPrime DEF Stop, CellsOK

LEMMA LoadIdxType == ASSUME TypeOK, PcOK, LoadIdx PROVE TypeOK'
<1>1. rd' \in RdType
  <2>1. rd \in RdType /\ idx \in {0, 1} /\ Word \in SUBSET Word
    BY TypeParts DEF CellsOK, PcOK, LoadIdx
  <2>2. (IF wr.pc = "idle" THEN wr.k ELSE wr.k - 1) \in 0 .. PubMax
    BY PublishedAssumption DEF TypeOK, PcOK, LoadIdx
  <2> QED BY <2>1, <2>2 DEF LoadIdx, RdType
<1> QED BY <1>1, TypeParts, TypePartsPrime DEF LoadIdx, CellsOK

LEMMA LoadSeqType == ASSUME TypeOK, LoadSeq PROVE TypeOK'
<1>1. rd' \in RdType
  <2>1. rd \in RdType /\ seq[rd.b] \in Nat /\ Word \in SUBSET Word /\ {} \in SUBSET Word
    BY TypeParts DEF CellsOK, RdType
  <2>2. CASE rd' = [rd EXCEPT !.t = 1]
    BY <2>1, <2>2 DEF RdType
  <2>3. CASE Retried
    BY <2>1, <2>3, RetriedType
  <2>4. CASE rd' = [rd EXCEPT !.pc = "load", !.s = seq[rd.b], !.left = Word]
    BY <2>1, <2>4 DEF RdType
  <2> QED BY <2>2, <2>3, <2>4, LoadSeqDoes
<1> QED BY <1>1, LoadSeqDoes, TypeParts, TypePartsPrime DEF CellsOK

LEMMA LoadType == ASSUME TypeOK, NEW w \in Word, Load(w) PROVE TypeOK'
<1>1. rd' \in RdType
  <2>1. rd \in RdType /\ rd.left \ {w} \in SUBSET Word
    BY TypeParts DEF RdType
  <2>2. [rd.w EXCEPT ![w] = buf[rd.b][w]] \in Value
    BY DEF TypeOK, Value
  <2> QED BY <2>1, <2>2 DEF Load, RdType
<1> QED BY <1>1, TypeParts, TypePartsPrime DEF Load, CellsOK

LEMMA CheckType == ASSUME TypeOK, Check PROVE TypeOK'
<1>1. rd' \in RdType
  <2>1. rd \in RdType /\ First \in {"idx", "seq", "gen"} /\ {} \in SUBSET Word
    BY TypeParts, FirstType
  <2>2. CASE Retried
    BY <2>1, <2>2, RetriedType
  <2>3. CASE \E pc \in {First, "done"} : rd' = [rd EXCEPT !.pc = pc, !.t = 1]
    <3>1. PICK pc \in {First, "done"} : rd' = [rd EXCEPT !.pc = pc, !.t = 1]
      BY <2>3
    <3>2. pc \in {"idx", "seq", "gen", "done"}
      BY <2>1, <3>1
    <3>3. [rd EXCEPT !.pc = pc] \in RdType
      BY <2>1, <3>2 DEF RdType
    <3>4. \A r \in RdType : [r EXCEPT !.t = 1] \in RdType
      BY DEF RdType
    <3>5. rd' = [[rd EXCEPT !.pc = pc] EXCEPT !.t = 1]
      BY <3>1
    <3> QED BY <3>3, <3>4, <3>5
  <2> QED BY <2>2, <2>3, CheckDoes
<1> QED BY <1>1, CheckDoes, TypeParts, TypePartsPrime DEF CellsOK

LEMMA TakeType == ASSUME TypeOK, Take PROVE TypeOK'
<1>1. rd' \in RdType /\ eq' \in EqType
  <2>1. rd \in RdType /\ eq \in EqType /\ First \in {"idx", "seq", "gen"} /\ Raced \in BOOLEAN
    BY TypeParts, FirstType DEF Raced
  <2> QED BY <2>1 DEF Take, RdType, EqType
<1> QED BY <1>1, TypeParts, TypePartsPrime DEF Take, CellsOK

LEMMA EqBlockType == ASSUME TypeOK, EqBlock PROVE TypeOK'
<1>1. rd' \in RdType /\ eq' \in EqType
  <2>1. rd \in RdType /\ eq \in EqType /\ Word \in SUBSET Word
    BY TypeParts
  <2>2. eq.active >= 0 => eq.active \in {0, 1}
    BY DEF TypeOK
  <2>3. rd' \in RdType
    <3>1. CASE eq.adopted # eq.gen /\ eq.audible /\ eq.active >= 0
      <4>1. PICK b \in {0, 1} : b = eq.active
        BY <2>2, <3>1
      <4>2. rd' = [rd EXCEPT !.pc = "load", !.b = b, !.left = Word]
        BY <3>1, <4>1 DEF EqBlock
      <4> QED BY <2>1, <4>2 DEF RdType
    <3>2. CASE ~(eq.adopted # eq.gen /\ eq.audible /\ eq.active >= 0)
      <4>1. PICK p \in {"adopt", "render"} : rd' = [rd EXCEPT !.pc = p]
        BY <3>2 DEF EqBlock
      <4> QED BY <2>1, <4>1 DEF RdType
    <3> QED BY <3>1, <3>2
  <2>4. eq' \in EqType
    BY <2>1 DEF EqBlock, EqType
  <2> QED BY <2>3, <2>4
<1> QED BY <1>1, TypeParts, TypePartsPrime DEF EqBlock, CellsOK

LEMMA EqAdoptType == ASSUME TypeOK, EqAdopt PROVE TypeOK'
<1>1. rd' \in RdType /\ eq' \in EqType
  BY TypeParts DEF EqAdopt, RdType, EqType, CellsOK
<1> QED BY <1>1, TypeParts, TypePartsPrime DEF EqAdopt, CellsOK

LEMMA EqRenderType == ASSUME TypeOK, EqRender PROVE TypeOK'
<1>1. rd' \in RdType /\ eq' \in EqType
  <2>1. rd \in RdType /\ eq \in EqType /\ Word \in SUBSET Word
    BY TypeParts
  <2>2. eq.active >= 0 => eq.active \in {0, 1}
    BY DEF TypeOK
  <2>3. rd' \in RdType
    <3>1. CASE rd' = [rd EXCEPT !.pc = "gen"]
      BY <2>1, <3>1 DEF RdType
    <3>2. CASE eq.active >= 0 /\ rd' = [rd EXCEPT !.pc = "load", !.b = eq.active, !.left = Word]
      <4>1. PICK b \in {0, 1} : b = eq.active
        BY <2>2, <3>2
      <4>2. rd' = [rd EXCEPT !.pc = "load", !.b = b, !.left = Word]
        BY <3>2, <4>1
      <4> QED BY <2>1, <4>2 DEF RdType
    <3> QED BY <3>1, <3>2 DEF EqRender
  <2>4. eq' \in EqType
    BY <2>1 DEF EqRender, EqType
  <2> QED BY <2>3, <2>4
<1> QED BY <1>1, TypeParts, TypePartsPrime DEF EqRender, CellsOK

-----------------------------------------------------------------------------
(* The invariant's other conjuncts, where an action needs more than its definition. *)

LEMMA OpenAdopting == ASSUME TypeOK, PcOK, Adopting, Open PROVE Adopting'
<1> SUFFICES ASSUME box' = "eq" PROVE Adopting'
  BY DEF Adopting
<1>1. /\ wr \in WrType /\ rd' = rd /\ eq' = eq /\ buf' = buf /\ idx' = idx /\ box = "eq"
      /\ wr.pc = "idle" /\ wr'.pc = "store" /\ wr'.b = Back /\ wr'.late = (eq.ack # eq.gen)
  BY TypeParts DEF Open, WrType
<1>2. Back # idx
  BY <1>1, BackType
<1>3. eq.ack = eq.gen => Fresh
  BY <1>1 DEF Adopting, Fresh, TypeOK
<1> QED BY <1>1, <1>2, <1>3 DEF Adopting, Fresh, Agrees, Whole

LEMMA LoadSeqPc == ASSUME TypeOK, PcOK, LoadSeq PROVE PcOK'
<1>1. rd \in RdType /\ First \in {"idx", "seq"} /\ (First = "idx" => box = "monitor") /\ box \in Seqlocked
  BY TypeParts, FirstType, LoadSeqDoes DEF PcOK, Seqlocked
<1>2. /\ rd'.b = rd.b
      /\ rd'.pc = "load" \/ rd'.pc = "seq" \/ rd'.pc = First
  BY <1>1, LoadSeqDoes DEF Retried, RdType
<1> QED BY <1>1, <1>2, LoadSeqDoes DEF PcOK, Seqlocked, Doubled

LEMMA CheckPc == ASSUME TypeOK, PcOK, Check PROVE PcOK'
<1>1. rd \in RdType /\ First \in {"idx", "seq"} /\ (First = "idx" => box = "monitor") /\ box \in Seqlocked
  BY TypeParts, FirstType, CheckDoes DEF PcOK, Seqlocked
<1>2. rd'.b = rd.b /\ (rd'.pc = First \/ (rd'.pc = "done" /\ rd'.left = rd.left))
  BY <1>1, CheckDoes DEF Retried, RdType
<1> QED BY <1>1, <1>2, CheckDoes DEF PcOK, Seqlocked, Doubled

LEMMA LoadSeqCounted == ASSUME TypeOK, PcOK, Counted, LoadSeq PROVE Counted'
<1> SUFFICES ASSUME box \in Seqlocked PROVE Counted'
  BY DEF Counted, LoadSeq
<1>1. CASE rd'.pc = "load"
  <2>1. rd \in RdType /\ seq[rd.b] \in Nat /\ First # "load"
    BY TypeParts, FirstType DEF RdType, CellsOK
  <2>2. rd'.b = rd.b /\ rd'.s = seq[rd.b] /\ rd'.left = Word /\ seq[rd.b] % 2 # 1
    BY <1>1, <2>1, LoadSeqDoes DEF Retried, RdType
  <2>3. seq[rd.b] % 2 = 0
    BY <2>1, <2>2
  <2> QED BY <1>1, <2>1, <2>2, <2>3, LoadSeqDoes DEF Counted, Agrees, Whole
<1>2. CASE rd'.pc # "load"
  <2>1. rd'.pc \in {"idx", "seq"}
    BY <1>2, FirstType DEF LoadSeq, Again, TypeOK, Seqlocked
  <2> QED BY <2>1 DEF Counted, LoadSeq
<1> QED BY <1>1, <1>2

LEMMA CheckCounted == ASSUME TypeOK, PcOK, Counted, Check PROVE Counted'
<1> SUFFICES ASSUME box \in Seqlocked PROVE Counted'
  BY DEF Counted, Check
<1>1. CASE rd'.pc = "done"
  <2>1. seq[rd.b] = rd.s /\ rd'.w = rd.w
    BY <1>1, FirstType DEF Check, Again, TypeOK
  <2>2. Whole(buf[rd.b]) /\ Agrees /\ rd.left = {}
    BY <2>1 DEF Counted, TypeOK, Check, PcOK
  <2>3. Whole(rd'.w)
    BY <2>1, <2>2 DEF Agrees, Whole, Word
  <2> QED BY <1>1, <2>3 DEF Counted, Check
<1>2. CASE rd'.pc # "done"
  <2>1. rd'.pc \in {"idx", "seq"}
    BY <1>2, FirstType DEF Check, Again, TypeOK, Seqlocked
  <2> QED BY <2>1 DEF Counted, Check
<1> QED BY <1>1, <1>2

LEMMA EqBlockPc == ASSUME TypeOK, PcOK, EqBlock PROVE PcOK'
<1>1. box = "eq" /\ rd'.pc \in {"load", "adopt", "render"} /\ rd \in RdType
  BY TypeParts DEF EqBlock, PcOK, RdType
<1> QED BY <1>1 DEF EqBlock, PcOK, Seqlocked, Doubled

LEMMA EqRenderPc == ASSUME TypeOK, PcOK, EqRender PROVE PcOK'
<1>1. box = "eq" /\ rd'.pc \in {"load", "gen"} /\ rd \in RdType
  BY TypeParts DEF EqRender, PcOK, RdType
<1> QED BY <1>1 DEF EqRender, PcOK, Seqlocked, Doubled

LEMMA EqBlockAdopting == ASSUME TypeOK, PcOK, Adopting, EqBlock PROVE Adopting'
<1>1. rd \in RdType /\ eq \in EqType /\ box = "eq" /\ UNCHANGED <<box, buf, idx, wr>>
  BY TypeParts DEF EqBlock, PcOK
<1>2. CASE rd'.pc = "adopt"
  <2>1. /\ eq'.ack = eq.ack /\ eq'.gen = eq.gen /\ eq'.active = eq.active
        /\ eq'.adopted = eq.gen /\ eq.adopted # eq.gen
    BY <1>1, <1>2 DEF EqBlock, RdType, EqType
  <2> QED BY <1>1, <1>2, <2>1 DEF Adopting, Fresh, EqType, Whole
<1>3. CASE rd'.pc # "adopt"
  <2>1. /\ eq'.ack = eq.ack /\ eq'.gen = eq.gen /\ eq'.active = eq.active
        /\ eq'.adopted = eq.adopted /\ rd.pc = "gen"
        /\ \/ rd'.pc = "render"
           \/ rd'.pc = "load" /\ rd'.b = eq.active /\ rd'.left = Word
    BY <1>1, <1>3 DEF EqBlock, RdType, EqType
  <2> QED BY <1>1, <1>3, <2>1 DEF Adopting, Fresh, EqType, Agrees, Whole
<1> QED BY <1>2, <1>3

LEMMA EqRenderAdopting == ASSUME TypeOK, PcOK, Adopting, EqRender PROVE Adopting'
<1>1. rd \in RdType /\ eq \in EqType /\ box = "eq" /\ UNCHANGED <<box, buf, idx, wr>>
  BY TypeParts DEF EqRender, PcOK
<1>2. /\ eq'.ack = eq.ack /\ eq'.gen = eq.gen /\ eq'.active = eq.active
      /\ eq'.adopted = eq.adopted /\ rd.pc = "render"
      /\ \/ rd'.pc = "gen"
         \/ rd'.pc = "load" /\ rd'.b = eq.active /\ rd'.left = Word
  BY <1>1 DEF EqRender, RdType, EqType
<1> QED BY <1>1, <1>2 DEF Adopting, Fresh, EqType, Agrees, Whole

LEMMA EqBlockDoes ==
    ASSUME TypeOK, EqBlock
    PROVE  /\ UNCHANGED <<box, buf, idx, wr>> /\ rd'.got = rd.got /\ rd'.raced = rd.raced /\ rd.pc = "gen"
           /\ eq'.active = eq.active /\ eq'.ack = eq.ack /\ eq'.gen = eq.gen
           /\ \/ eq'.adopted = eq.adopted
              \/ rd'.pc = "adopt"
<1>1. rd \in RdType /\ eq \in EqType
  BY TypeParts
<1>2. CASE eq.adopted # eq.gen /\ ~(eq.audible /\ eq.active >= 0)
  BY <1>1, <1>2 DEF EqBlock, RdType, EqType
<1>3. CASE eq.adopted # eq.gen /\ eq.audible /\ eq.active >= 0
  <2>1. /\ rd.pc = "gen" /\ UNCHANGED <<box, buf, idx, wr>>
        /\ rd' = [rd EXCEPT !.pc = "load", !.b = eq.active, !.left = Word] /\ eq' = [eq EXCEPT !.tgt = FALSE]
    BY <1>3 DEF EqBlock
  <2>2. rd'.got = rd.got /\ rd'.raced = rd.raced
    BY <1>1, <2>1 DEF RdType
  <2>3. eq'.active = eq.active /\ eq'.ack = eq.ack /\ eq'.gen = eq.gen /\ eq'.adopted = eq.adopted
    BY <1>1, <2>1 DEF EqType
  <2> QED BY <2>1, <2>2, <2>3
<1>4. CASE eq.adopted = eq.gen
  BY <1>1, <1>4 DEF EqBlock, RdType
<1> QED BY <1>2, <1>3, <1>4

LEMMA EqRenderDoes ==
    ASSUME TypeOK, EqRender
    PROVE  /\ UNCHANGED <<box, buf, idx, wr>> /\ rd'.got = rd.got /\ rd'.raced = rd.raced /\ rd.pc = "render"
           /\ eq'.active = eq.active /\ eq'.ack = eq.ack /\ eq'.gen = eq.gen /\ eq'.adopted = eq.adopted
BY DEF EqRender, TypeOK

LEMMA LoadSeqKeeps ==
    ASSUME TypeOK, LoadSeq
    PROVE  /\ UNCHANGED <<box, buf, seq, idx, on, wr, eq>> /\ rd.pc = "seq"
           /\ \A f \in {"b", "w", "base", "got", "raced"} : rd'[f] = rd[f]
           /\ \/ rd'.pc = First
              \/ rd'.pc = "seq" /\ rd'.left = rd.left
              \/ rd'.pc = "load" /\ rd'.left = Word
<1> USE DEF TypeOK, Retried
<1>1. CASE rd' = [rd EXCEPT !.t = 1]
  BY <1>1, LoadSeqDoes
<1>2. CASE Retried
  BY <1>2, LoadSeqDoes
<1>3. CASE rd' = [rd EXCEPT !.pc = "load", !.s = seq[rd.b], !.left = Word]
  BY <1>3, LoadSeqDoes
<1> QED BY <1>1, <1>2, <1>3, LoadSeqDoes

LEMMA CheckKeeps ==
    ASSUME TypeOK, Check
    PROVE  /\ UNCHANGED <<box, buf, seq, idx, on, wr, eq>> /\ rd.pc = "check"
           /\ \A f \in {"b", "w", "base", "got", "raced"} : rd'[f] = rd[f]
           /\ rd'.pc \in {First, "done"} /\ (rd'.pc = "done" => rd'.left = rd.left)
<1> USE DEF TypeOK, Retried
<1>1. CASE Retried
  BY <1>1, CheckDoes, FirstType
<1>2. CASE \E pc \in {First, "done"} : rd' = [rd EXCEPT !.pc = pc, !.t = 1]
  BY <1>2, CheckDoes
<1> QED BY <1>1, <1>2, CheckDoes

LEMMA CheckSingle == ASSUME TypeOK, PcOK, Writing, Counted, Counting, Single, Check PROVE Single'
<1> SUFFICES ASSUME box \in {"pose", "clock", "room"} PROVE Single'
  BY DEF Single, Check
<1>1. CASE rd'.pc = "done"
  <2>1. /\ seq[rd.b] = rd.s /\ rd'.w = rd.w /\ rd'.got = rd.got /\ UNCHANGED <<box, buf, wr>>
        /\ box = "clock" => rd.w[2] # 0
    BY <1>1, FirstType DEF Check, Again, TypeOK
  <2>2. Whole(buf[0]) /\ Agrees /\ rd.left = {} /\ rd.b = 0 /\ rd.s % 2 = 0
    BY <2>1 DEF Counted, TypeOK, Check, PcOK, Seqlocked, Doubled
  <2>3. wr.pc = "idle"
    BY <2>1, <2>2 DEF Counted, PcOK, TypeOK, Seqlocked, Doubled
  <2>4. \A w \in Word : rd.w[w] = buf[0][w]
    BY <2>2 DEF Agrees
  <2>5. \A w \in Word : buf[0][w] = wr.k /\ wr.old < wr.k
    BY <2>1, <2>2, <2>3, <2>4 DEF Single, Word
  <2> QED BY <1>1, <2>1, <2>3, <2>4, <2>5 DEF Single, TypeOK
<1>2. CASE rd'.pc # "done"
  <2>1. rd'.got = rd.got /\ UNCHANGED <<box, buf, wr>>
    BY FirstType DEF Check, Again, TypeOK
  <2> QED BY <1>2, <2>1 DEF Single
<1> QED BY <1>1, <1>2

-----------------------------------------------------------------------------
(* Each conjunct is kept by every action. *)

\* Types.
LEMMA TypeOKStep ==
    ASSUME TypeOK, PcOK, Next PROVE TypeOK'
<1> USE PublishedAssumption DEF TypeOK, Value, Word, Zero
<1>1. CASE Open
  BY <1>1, OpenType
<1>2. ASSUME NEW w \in Word, Store(w) PROVE TypeOK'
  BY <1>2, StoreType
<1>3. CASE Close
  BY <1>3 DEF Close
<1>4. CASE Flip
  BY <1>4 DEF Flip
<1>5. CASE ParseFails
  BY <1>5, ParseFailsType
<1>6. CASE Clear
  BY <1>6 DEF Clear
<1>7. CASE Bump
  BY <1>7 DEF Bump
<1>8. CASE Answered
  BY <1>8 DEF Answered
<1>9. CASE TimedOut
  BY <1>9 DEF TimedOut
<1>10. CASE Stop
  BY <1>10, StopType
<1>11. CASE Start
  BY <1>11, FirstType DEF Start
<1>12. CASE LoadIdx
  BY <1>12, LoadIdxType
<1>13. CASE LoadSeq
  BY <1>13, LoadSeqType
<1>14. ASSUME NEW w \in Word, Load(w) PROVE TypeOK'
  BY <1>14, LoadType
<1>15. CASE Check
  BY <1>15, CheckType
<1>16. CASE Take
  BY <1>16, TakeType
<1>17. CASE EqBlock
  BY <1>17, EqBlockType
<1>18. CASE EqAdopt
  BY <1>18, EqAdoptType
<1>19. CASE EqAck
  BY <1>19 DEF EqAck
<1>20. CASE EqRender
  BY <1>20, EqRenderType
<1>21. CASE Write
  BY <1>1, <1>2, <1>3, <1>4, <1>21 DEF Write
<1>22. CASE Correct
  BY <1>5, <1>6, <1>7, <1>8, <1>9, <1>22 DEF Correct
<1>23. CASE Device
  BY <1>10, <1>11, <1>23 DEF Device
<1>24. CASE Read
  BY <1>12, <1>13, <1>14, <1>15, <1>16, <1>24 DEF Read
<1>25. CASE Render
  BY <1>17, <1>18, <1>19, <1>20, <1>25 DEF Render
<1> QED BY <1>21, <1>22, <1>23, <1>24, <1>25 DEF Next

\* The steps.
LEMMA PcOKStep ==
    ASSUME TypeOK, PcOK, Next PROVE PcOK'
<1> USE PublishedAssumption DEF TypeOK, Value, Word, Zero, PcOK, Seqlocked, Doubled
<1>1. CASE Open
  BY <1>1, BackType DEF Open
<1>2. ASSUME NEW w \in Word, Store(w) PROVE PcOK'
  BY <1>2 DEF Store
<1>3. CASE Close
  BY <1>3 DEF Close
<1>4. CASE Flip
  BY <1>4 DEF Flip
<1>5. CASE ParseFails
  BY <1>5 DEF ParseFails
<1>6. CASE Clear
  BY <1>6 DEF Clear
<1>7. CASE Bump
  BY <1>7 DEF Bump
<1>8. CASE Answered
  BY <1>8 DEF Answered
<1>9. CASE TimedOut
  BY <1>9 DEF TimedOut
<1>10. CASE Stop
  BY <1>10, FirstType DEF Stop, Session
<1>11. CASE Start
  BY <1>11, FirstType DEF Start
<1>12. CASE LoadIdx
  BY <1>12 DEF LoadIdx
<1>13. CASE LoadSeq
  BY <1>13, LoadSeqPc
<1>14. ASSUME NEW w \in Word, Load(w) PROVE PcOK'
  BY <1>14 DEF Load
<1>15. CASE Check
  BY <1>15, CheckPc
<1>16. CASE Take
  BY <1>16, FirstType DEF Take
<1>17. CASE EqBlock
  BY <1>17, EqBlockPc
<1>18. CASE EqAdopt
  BY <1>18 DEF EqAdopt
<1>19. CASE EqAck
  BY <1>19 DEF EqAck
<1>20. CASE EqRender
  BY <1>20, EqRenderPc
<1>21. CASE Write
  BY <1>1, <1>2, <1>3, <1>4, <1>21 DEF Write
<1>22. CASE Correct
  BY <1>5, <1>6, <1>7, <1>8, <1>9, <1>22 DEF Correct
<1>23. CASE Device
  BY <1>10, <1>11, <1>23 DEF Device
<1>24. CASE Read
  BY <1>12, <1>13, <1>14, <1>15, <1>16, <1>24 DEF Read
<1>25. CASE Render
  BY <1>17, <1>18, <1>19, <1>20, <1>25 DEF Render
<1> QED BY <1>21, <1>22, <1>23, <1>24, <1>25 DEF Next

\* The buffer under way.
LEMMA WritingStep ==
    ASSUME TypeOK, PcOK, Writing, Next PROVE Writing'
<1> USE PublishedAssumption DEF TypeOK, Value, Word, Zero, PcOK, Writing, Seqlocked
<1>1. CASE Open
  BY <1>1, BackType DEF Open
<1>2. ASSUME NEW w \in Word, Store(w) PROVE Writing'
  BY <1>2 DEF Store
<1>3. CASE Close
  BY <1>3 DEF Close
<1>4. CASE Flip
  BY <1>4 DEF Flip
<1>5. CASE ParseFails
  BY <1>5 DEF ParseFails
<1>6. CASE Clear
  BY <1>6 DEF Clear
<1>7. CASE Bump
  BY <1>7 DEF Bump
<1>8. CASE Answered
  BY <1>8 DEF Answered
<1>9. CASE TimedOut
  BY <1>9 DEF TimedOut
<1>10. CASE Stop
  BY <1>10, FirstType DEF Stop, Session
<1>11. CASE Start
  BY <1>11, FirstType DEF Start
<1>12. CASE LoadIdx
  BY <1>12 DEF LoadIdx
<1>13. CASE LoadSeq
  BY <1>13, LoadSeqDoes
<1>14. ASSUME NEW w \in Word, Load(w) PROVE Writing'
  BY <1>14 DEF Load
<1>15. CASE Check
  BY <1>15, CheckDoes
<1>16. CASE Take
  BY <1>16, FirstType DEF Take
<1>17. CASE EqBlock
  BY <1>17 DEF EqBlock
<1>18. CASE EqAdopt
  BY <1>18 DEF EqAdopt
<1>19. CASE EqAck
  BY <1>19 DEF EqAck
<1>20. CASE EqRender
  BY <1>20 DEF EqRender
<1>21. CASE Write
  BY <1>1, <1>2, <1>3, <1>4, <1>21 DEF Write
<1>22. CASE Correct
  BY <1>5, <1>6, <1>7, <1>8, <1>9, <1>22 DEF Correct
<1>23. CASE Device
  BY <1>10, <1>11, <1>23 DEF Device
<1>24. CASE Read
  BY <1>12, <1>13, <1>14, <1>15, <1>16, <1>24 DEF Read
<1>25. CASE Render
  BY <1>17, <1>18, <1>19, <1>20, <1>25 DEF Render
<1> QED BY <1>21, <1>22, <1>23, <1>24, <1>25 DEF Next

\* The sequence counters.
LEMMA CountedStep ==
    ASSUME TypeOK, PcOK, Writing, Counted, Next PROVE Counted'
<1> USE PublishedAssumption DEF TypeOK, Value, Word, Zero, PcOK, Writing, Counted, Agrees, Whole, Seqlocked, Doubled
<1>1. CASE Open
  BY <1>1 DEF Open, Back
<1>2. ASSUME NEW w \in Word, Store(w) PROVE Counted'
  BY <1>2 DEF Store
<1>3. CASE Close
  BY <1>3 DEF Close
<1>4. CASE Flip
  BY <1>4 DEF Flip
<1>5. CASE ParseFails
  BY <1>5 DEF ParseFails
<1>6. CASE Clear
  BY <1>6 DEF Clear
<1>7. CASE Bump
  BY <1>7 DEF Bump
<1>8. CASE Answered
  BY <1>8 DEF Answered
<1>9. CASE TimedOut
  BY <1>9 DEF TimedOut
<1>10. CASE Stop
  BY <1>10, FirstType DEF Stop, Session
<1>11. CASE Start
  BY <1>11, FirstType DEF Start
<1>12. CASE LoadIdx
  BY <1>12 DEF LoadIdx
<1>13. CASE LoadSeq
  BY <1>13, LoadSeqCounted
<1>14. ASSUME NEW w \in Word, Load(w) PROVE Counted'
  BY <1>14 DEF Load
<1>15. CASE Check
  BY <1>15, CheckCounted
<1>16. CASE Take
  BY <1>16, FirstType DEF Take
<1>17. CASE EqBlock
  BY <1>17 DEF EqBlock
<1>18. CASE EqAdopt
  BY <1>18 DEF EqAdopt
<1>19. CASE EqAck
  BY <1>19 DEF EqAck
<1>20. CASE EqRender
  BY <1>20 DEF EqRender
<1>21. CASE Write
  BY <1>1, <1>2, <1>3, <1>4, <1>21 DEF Write
<1>22. CASE Correct
  BY <1>5, <1>6, <1>7, <1>8, <1>9, <1>22 DEF Correct
<1>23. CASE Device
  BY <1>10, <1>11, <1>23 DEF Device
<1>24. CASE Read
  BY <1>12, <1>13, <1>14, <1>15, <1>16, <1>24 DEF Read
<1>25. CASE Render
  BY <1>17, <1>18, <1>19, <1>20, <1>25 DEF Render
<1> QED BY <1>21, <1>22, <1>23, <1>24, <1>25 DEF Next

\* The headphone correction.
LEMMA AdoptingStep ==
    ASSUME TypeOK, PcOK, Writing, Adopting, Next PROVE Adopting'
<1> USE PublishedAssumption DEF TypeOK, Value, Word, Zero, PcOK, Writing, Adopting, Fresh, Agrees, Whole, Seqlocked
<1>1. CASE Open
  BY <1>1, OpenAdopting
<1>2. ASSUME NEW w \in Word, Store(w) PROVE Adopting'
  BY <1>2 DEF Store
<1>3. CASE Close
  BY <1>3 DEF Close
<1>4. CASE Flip
  BY <1>4 DEF Flip
<1>5. CASE ParseFails
  BY <1>5 DEF ParseFails
<1>6. CASE Clear
  BY <1>6 DEF Clear
<1>7. CASE Bump
  BY <1>7 DEF Bump
<1>8. CASE Answered
  BY <1>8 DEF Answered
<1>9. CASE TimedOut
  BY <1>9 DEF TimedOut
<1>10. CASE Stop
  BY <1>10, FirstType DEF Stop, Session
<1>11. CASE Start
  BY <1>11, FirstType DEF Start
<1>12. CASE LoadIdx
  BY <1>12 DEF LoadIdx
<1>13. CASE LoadSeq
  BY <1>13, LoadSeqDoes
<1>14. ASSUME NEW w \in Word, Load(w) PROVE Adopting'
  BY <1>14 DEF Load
<1>15. CASE Check
  BY <1>15, CheckDoes
<1>16. CASE Take
  BY <1>16, FirstType DEF Take
<1>17. CASE EqBlock
  BY <1>17, EqBlockAdopting
<1>18. CASE EqAdopt
  BY <1>18 DEF EqAdopt
<1>19. CASE EqAck
  BY <1>19 DEF EqAck
<1>20. CASE EqRender
  BY <1>20, EqRenderAdopting
<1>21. CASE Write
  BY <1>1, <1>2, <1>3, <1>4, <1>21 DEF Write
<1>22. CASE Correct
  BY <1>5, <1>6, <1>7, <1>8, <1>9, <1>22 DEF Correct
<1>23. CASE Device
  BY <1>10, <1>11, <1>23 DEF Device
<1>24. CASE Read
  BY <1>12, <1>13, <1>14, <1>15, <1>16, <1>24 DEF Read
<1>25. CASE Render
  BY <1>17, <1>18, <1>19, <1>20, <1>25 DEF Render
<1> QED BY <1>21, <1>22, <1>23, <1>24, <1>25 DEF Next

\* The numbers of the publications.
LEMMA CountingStep ==
    ASSUME TypeOK, PcOK, Writing, Counting, Next PROVE Counting'
<1> USE PublishedAssumption DEF TypeOK, Value, Word, Zero, PcOK, Counting
<1>1. CASE Open
  BY <1>1, BackType DEF Open
<1>2. ASSUME NEW w \in Word, Store(w) PROVE Counting'
  BY <1>2 DEF Store
<1>3. CASE Close
  BY <1>3 DEF Close
<1>4. CASE Flip
  BY <1>4 DEF Flip
<1>5. CASE ParseFails
  BY <1>5 DEF ParseFails
<1>6. CASE Clear
  BY <1>6 DEF Clear
<1>7. CASE Bump
  BY <1>7 DEF Bump
<1>8. CASE Answered
  BY <1>8 DEF Answered
<1>9. CASE TimedOut
  BY <1>9 DEF TimedOut
<1>10. CASE Stop
  BY <1>10, FirstType DEF Stop, Session
<1>11. CASE Start
  BY <1>11, FirstType DEF Start
<1>12. CASE LoadIdx
  BY <1>12 DEF LoadIdx
<1>13. CASE LoadSeq
  BY <1>13, LoadSeqDoes
<1>14. ASSUME NEW w \in Word, Load(w) PROVE Counting'
  BY <1>14 DEF Load
<1>15. CASE Check
  BY <1>15, CheckDoes
<1>16. CASE Take
  BY <1>16, FirstType DEF Take
<1>17. CASE EqBlock
  BY <1>17 DEF EqBlock
<1>18. CASE EqAdopt
  BY <1>18 DEF EqAdopt
<1>19. CASE EqAck
  BY <1>19 DEF EqAck
<1>20. CASE EqRender
  BY <1>20 DEF EqRender
<1>21. CASE Write
  BY <1>1, <1>2, <1>3, <1>4, <1>21 DEF Write
<1>22. CASE Correct
  BY <1>5, <1>6, <1>7, <1>8, <1>9, <1>22 DEF Correct
<1>23. CASE Device
  BY <1>10, <1>11, <1>23 DEF Device
<1>24. CASE Read
  BY <1>12, <1>13, <1>14, <1>15, <1>16, <1>24 DEF Read
<1>25. CASE Render
  BY <1>17, <1>18, <1>19, <1>20, <1>25 DEF Render
<1> QED BY <1>21, <1>22, <1>23, <1>24, <1>25 DEF Next

\* The single slots.
LEMMA SingleStep ==
    ASSUME TypeOK, PcOK, Writing, Counted, Counting, Single, Next PROVE Single'
<1> USE PublishedAssumption DEF TypeOK, Value, Word, Zero, PcOK, Writing, Counting, Single, Seqlocked, Doubled
<1>1. CASE Open
  BY <1>1, BackType DEF Open
<1>2. ASSUME NEW w \in Word, Store(w) PROVE Single'
  BY <1>2 DEF Store
<1>3. CASE Close
  BY <1>3 DEF Close
<1>4. CASE Flip
  BY <1>4 DEF Flip
<1>5. CASE ParseFails
  BY <1>5 DEF ParseFails
<1>6. CASE Clear
  BY <1>6 DEF Clear
<1>7. CASE Bump
  BY <1>7 DEF Bump
<1>8. CASE Answered
  BY <1>8 DEF Answered
<1>9. CASE TimedOut
  BY <1>9 DEF TimedOut
<1>10. CASE Stop
  BY <1>10, FirstType DEF Stop, Session
<1>11. CASE Start
  BY <1>11, FirstType DEF Start
<1>12. CASE LoadIdx
  BY <1>12 DEF LoadIdx
<1>13. CASE LoadSeq
  BY <1>13, LoadSeqKeeps, FirstType
<1>14. ASSUME NEW w \in Word, Load(w) PROVE Single'
  BY <1>14 DEF Load
<1>15. CASE Check
  BY <1>15, CheckSingle
<1>16. CASE Take
  BY <1>16, FirstType DEF Take
<1>17. CASE EqBlock
  BY <1>17 DEF EqBlock
<1>18. CASE EqAdopt
  BY <1>18 DEF EqAdopt
<1>19. CASE EqAck
  BY <1>19 DEF EqAck
<1>20. CASE EqRender
  BY <1>20 DEF EqRender
<1>21. CASE Write
  BY <1>1, <1>2, <1>3, <1>4, <1>21 DEF Write
<1>22. CASE Correct
  BY <1>5, <1>6, <1>7, <1>8, <1>9, <1>22 DEF Correct
<1>23. CASE Device
  BY <1>10, <1>11, <1>23 DEF Device
<1>24. CASE Read
  BY <1>12, <1>13, <1>14, <1>15, <1>16, <1>24 DEF Read
<1>25. CASE Render
  BY <1>17, <1>18, <1>19, <1>20, <1>25 DEF Render
<1> QED BY <1>21, <1>22, <1>23, <1>24, <1>25 DEF Next

\* The two slots.
LEMMA DoubleStep ==
    ASSUME TypeOK, PcOK, Writing, Counting, Double, Next PROVE Double'
<1> USE PublishedAssumption DEF TypeOK, Value, Word, Zero, PcOK, Writing, Counting, Double, Last, Raced, Seqlocked, Doubled
<1>1. CASE Open
  BY <1>1, BackType DEF Open
<1>2. ASSUME NEW w \in Word, Store(w) PROVE Double'
  BY <1>2 DEF Store
<1>3. CASE Close
  BY <1>3 DEF Close
<1>4. CASE Flip
  BY <1>4 DEF Flip
<1>5. CASE ParseFails
  BY <1>5 DEF ParseFails
<1>6. CASE Clear
  BY <1>6 DEF Clear
<1>7. CASE Bump
  BY <1>7 DEF Bump
<1>8. CASE Answered
  BY <1>8 DEF Answered
<1>9. CASE TimedOut
  BY <1>9 DEF TimedOut
<1>10. CASE Stop
  BY <1>10, FirstType DEF Stop, Session
<1>11. CASE Start
  BY <1>11, FirstType DEF Start
<1>12. CASE LoadIdx
  BY <1>12 DEF LoadIdx
<1>13. CASE LoadSeq
  BY <1>13, LoadSeqKeeps, FirstType
<1>14. ASSUME NEW w \in Word, Load(w) PROVE Double'
  BY <1>14 DEF Load
<1>15. CASE Check
  BY <1>15, CheckKeeps, FirstType
<1>16. CASE Take
  BY <1>16, FirstType DEF Take
<1>17. CASE EqBlock
  BY <1>17 DEF EqBlock
<1>18. CASE EqAdopt
  BY <1>18 DEF EqAdopt
<1>19. CASE EqAck
  BY <1>19 DEF EqAck
<1>20. CASE EqRender
  BY <1>20 DEF EqRender
<1>21. CASE Write
  BY <1>1, <1>2, <1>3, <1>4, <1>21 DEF Write
<1>22. CASE Correct
  BY <1>5, <1>6, <1>7, <1>8, <1>9, <1>22 DEF Correct
<1>23. CASE Device
  BY <1>10, <1>11, <1>23 DEF Device
<1>24. CASE Read
  BY <1>12, <1>13, <1>14, <1>15, <1>16, <1>24 DEF Read
<1>25. CASE Render
  BY <1>17, <1>18, <1>19, <1>20, <1>25 DEF Render
<1> QED BY <1>21, <1>22, <1>23, <1>24, <1>25 DEF Next

\* The headphone corrections.
LEMMA NewerStep ==
    ASSUME TypeOK, PcOK, Writing, Counting, Adopting, Newer, Next PROVE Newer'
<1> USE PublishedAssumption DEF TypeOK, Value, Word, Zero, PcOK, Writing, Counting, Adopting, Newer, Fresh, Agrees
<1>1. CASE Open
  BY <1>1, BackType DEF Open
<1>2. ASSUME NEW w \in Word, Store(w) PROVE Newer'
  BY <1>2 DEF Store
<1>3. CASE Close
  BY <1>3 DEF Close
<1>4. CASE Flip
  BY <1>4 DEF Flip
<1>5. CASE ParseFails
  BY <1>5 DEF ParseFails
<1>6. CASE Clear
  BY <1>6 DEF Clear
<1>7. CASE Bump
  BY <1>7 DEF Bump
<1>8. CASE Answered
  BY <1>8 DEF Answered
<1>9. CASE TimedOut
  BY <1>9 DEF TimedOut
<1>10. CASE Stop
  BY <1>10, FirstType DEF Stop, Session
<1>11. CASE Start
  BY <1>11, FirstType DEF Start
<1>12. CASE LoadIdx
  BY <1>12 DEF LoadIdx
<1>13. CASE LoadSeq
  BY <1>13 DEF LoadSeq, Seqlocked
<1>14. ASSUME NEW w \in Word, Load(w) PROVE Newer'
  BY <1>14 DEF Load
<1>15. CASE Check
  BY <1>15 DEF Check, Seqlocked
<1>16. CASE Take
  BY <1>16, FirstType DEF Take
<1>17. CASE EqBlock
  BY <1>17, EqBlockDoes
<1>18. CASE EqAdopt
  BY <1>18 DEF EqAdopt
<1>19. CASE EqAck
  BY <1>19 DEF EqAck
<1>20. CASE EqRender
  BY <1>20, EqRenderDoes
<1>21. CASE Write
  BY <1>1, <1>2, <1>3, <1>4, <1>21 DEF Write
<1>22. CASE Correct
  BY <1>5, <1>6, <1>7, <1>8, <1>9, <1>22 DEF Correct
<1>23. CASE Device
  BY <1>10, <1>11, <1>23 DEF Device
<1>24. CASE Read
  BY <1>12, <1>13, <1>14, <1>15, <1>16, <1>24 DEF Read
<1>25. CASE Render
  BY <1>17, <1>18, <1>19, <1>20, <1>25 DEF Render
<1> QED BY <1>21, <1>22, <1>23, <1>24, <1>25 DEF Next

-----------------------------------------------------------------------------

LEMMA InitIInv == Init => PublishedIInv
<1> SUFFICES ASSUME Init PROVE PublishedIInv
  OBVIOUS
<1> USE PublishedAssumption DEF Init, Zero, Word
<1>1. TypeOK
  <2>1. First \in {"idx", "seq", "gen"}
    BY DEF First
  <2> QED BY <2>1 DEF TypeOK, Value
<1>2. PcOK
  BY DEF PcOK, First, Seqlocked, Doubled
<1>3. Writing
  BY DEF Writing
<1>4. Counted
  BY DEF Counted, Whole, First
<1>5. Double
  BY DEF Double, Last, First
<1>6. Adopting
  BY DEF Adopting, Fresh, First
<1>7. Counting
  BY DEF Counting
<1>8. Single
  BY DEF Single, First
<1>9. Newer
  BY DEF Newer
<1> QED BY <1>1, <1>2, <1>3, <1>4, <1>5, <1>6, <1>7, <1>8, <1>9 DEF PublishedIInv

\* The invariant of the three protocols is inductive.
THEOREM PublishedInvariant == Spec => []PublishedIInv
<1>1. ASSUME PublishedIInv, Next PROVE PublishedIInv'
  BY <1>1, TypeOKStep, PcOKStep, WritingStep, CountedStep, AdoptingStep,
     CountingStep, SingleStep, DoubleStep, NewerStep DEF PublishedIInv
<1>2. ASSUME PublishedIInv, UNCHANGED vars PROVE PublishedIInv'
  BY <1>2 DEF PublishedIInv, TypeOK, PcOK, Writing, Counted, Adopting, Counting, Single, Double,
     Newer, Agrees, Whole, Last, Fresh, Raced, vars
<1> QED BY InitIInv, <1>1, <1>2, PTL DEF Spec

\* Every variable keeps its shape, for any number of publications.
THEOREM TypeCorrect == Spec => []TypeOK
<1>1. PublishedIInv => TypeOK
  BY DEF PublishedIInv
<1> QED BY <1>1, PublishedInvariant, PTL

\* No reader uses a value of two writes: always behind a sequence counter, for the path as long as
\* it is not overtaken twice, for the headphone correction as long as no load ran ahead of the
\* renderer's answer.
THEOREM WholeValueCorrect == Spec => []WholeValue
<1>1. PublishedIInv => WholeValue
  <2> SUFFICES ASSUME PublishedIInv, rd.pc = "done", ~(box = "path" /\ Raced), ~(box = "eq" /\ wr.late)
               PROVE  Whole(rd.w)
    BY DEF WholeValue
  <2>1. rd.left = {} /\ (box \in Seqlocked \/ box = "path" \/ box = "eq")
    BY PublishedAssumption DEF PublishedIInv, PcOK, TypeOK, Seqlocked
  <2>2. CASE box \in Seqlocked
    BY <2>2 DEF PublishedIInv, Counted
  <2>3. CASE box = "path"
    BY <2>1, <2>3 DEF PublishedIInv, Double, Whole, Word
  <2>4. CASE box = "eq"
    <3>1. eq.active >= 0
      BY <2>4 DEF PublishedIInv, Adopting, TypeOK
    <3> QED BY <2>1, <2>4, <3>1 DEF PublishedIInv, Adopting, Agrees, Whole, Word
  <2> QED BY <2>1, <2>2, <2>3, <2>4
<1> QED BY <1>1, PublishedInvariant, PTL
\* No reader goes back: what it uses is no older than what it used before, as long as neither was read
\* under a second publication or a load that did not wait, and never a clock of a stopped session.
THEOREM NeverBackCorrect == Spec => []NeverBack
<1>1. PublishedIInv => NeverBack
  <2> SUFFICES ASSUME PublishedIInv, rd.pc = "done", ~rd.raced, ~wr.late, NEW w \in Word
               PROVE  rd.w[w] >= rd.got[w] /\ rd.w[w] > wr.old
    BY DEF NeverBack
  <2> USE PublishedAssumption DEF PublishedIInv, TypeOK, PcOK, Value
  <2>1. /\ rd.left = {}
        /\ box \in {"pose", "clock", "room"} \/ box \in {"monitor", "path"} \/ box = "eq"
    OBVIOUS
  <2>2. CASE box \in {"pose", "clock", "room"}
    BY <2>2 DEF Single
  <2>3. CASE box \in {"monitor", "path"}
    BY <2>1, <2>3 DEF Double, Counting
  <2>4. CASE box = "eq"
    <3>1. eq.active >= 0 /\ rd.w[w] = buf[eq.active][w]
      BY <2>1, <2>4 DEF Adopting, Agrees
    <3> QED BY <2>4, <3>1 DEF Newer, Counting
  <2> QED BY <2>1, <2>2, <2>3, <2>4
<1> QED BY <1>1, PublishedInvariant, PTL
=============================================================================
