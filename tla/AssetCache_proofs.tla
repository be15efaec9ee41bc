-------------------------- MODULE AssetCache_proofs --------------------------
(***************************************************************************)
(* What the asset cache of cave-audio promises, for any number of files,   *)
(* sounds and sources and any ring sizes: every decoded buffer has exactly *)
(* one owner, every sound slot belongs to somebody who will let go of it,  *)
(* the audio thread never sees a sound still decoding or freed, and the    *)
(* loader never sleeps through a job or through bwa_destroy.  The first    *)
(* three follow from the invariant CacheIInv, the last from WakeInv.       *)
(* Besides, a source does what it was last asked once its plays and        *)
(* commands are through: AskedIInv says what the waiting commands will     *)
(* make of it.                                                             *)
(***************************************************************************)
EXTENDS AssetCacheInv, FiniteSetTheorems, TLAPS

-----------------------------------------------------------------------------
(* Types, per group of variables. *)

EntryRec == [snd : Handle, refs : Nat, st : {"none", "loading", "ready", "failed"}]
SndRec == [gen : Nat, st : SoundStates]
SlotRec == [gen : Nat, inuse : BOOLEAN]
HeldRec == [src : Handle, snd : Handle, seek : BOOLEAN]
CtlRec == [pc : ControlStates, h : Handle, try : SUBSET Handle, left : Int]
ResRec == [snd : Handle, ok : BOOLEAN]
LdrRec == [pc : LoaderStates, snd : Handle, ok : BOOLEAN]
Command == [t : CommandNames, v : Handle, s : Handle]
VoiceRec == [gen : Nat, active : BOOLEAN, snd : Handle, on : BOOLEAN, seek : BOOLEAN, stopAt : BOOLEAN]
WantRec == [snd : Handle, on : BOOLEAN, seek : BOOLEAN, stopAt : BOOLEAN, all : BOOLEAN]

CacheOK == entry \in [File -> EntryRec] /\ inflight \in Int /\ park \subseteq Handle
SlotsOK == /\ snd \in [Sound -> SndRec] /\ sfree \in Seq(Sound) /\ slot \in [Voice -> SlotRec]
           /\ held \subseteq HeldRec /\ heap \subseteq Handle
CtlOK == ctl \in CtlRec
LoadOK == /\ jobs \in Seq(Handle) /\ res \in Seq(ResRec) /\ jobEv \in BOOLEAN /\ stop \in BOOLEAN /\ ldr \in LdrRec
RingOK == /\ cmd \in Seq(Command) /\ ack \in Seq(Handle)
          /\ batch \in [done : Nat, upto : Nat] /\ batch.done <= batch.upto /\ batch.upto <= Len(cmd)
VoiceOK == voice \in [Voice -> VoiceRec]
WantOK == want \in [Voice -> WantRec]

LEMMA TypeParts ==
    TypeOK <=> CacheOK /\ SlotsOK /\ CtlOK /\ LoadOK /\ RingOK /\ VoiceOK /\ WantOK
BY DEF TypeOK, CacheOK, SlotsOK, CtlOK, LoadOK, RingOK, VoiceOK, WantOK, EntryRec, SndRec, SlotRec,
     HeldRec, CtlRec,
       ResRec, LdrRec, Command, VoiceRec, WantRec

LEMMA TypePartsPrime ==
    TypeOK' <=> CacheOK' /\ SlotsOK' /\ CtlOK' /\ LoadOK' /\ RingOK' /\ VoiceOK' /\ WantOK'
BY DEF TypeOK, CacheOK, SlotsOK, CtlOK, LoadOK, RingOK, VoiceOK, WantOK, EntryRec, SndRec, SlotRec,
     HeldRec, CtlRec,
       ResRec, LdrRec, Command, VoiceRec, WantRec

LEMMA Sizes ==
    /\ SoundCap \in Nat \ {0} /\ VoiceCap \in Nat \ {0} /\ JobCap \in Nat \ {0} /\ HoldCap \in Nat \ {0}
    /\ CmdCap \in Nat \ {0} /\ SoundGens \in Nat \ {0} /\ SourceGens \in Nat \ {0} /\ RefMax \in Nat \ {0}
BY CacheAssumption

\* Handles.
LEMMA Handles ==
    /\ None \in Handle
    /\ \A i, g \in Nat : H(i, g) \in Handle /\ H(i, g).idx = i /\ H(i, g).gen = g
    /\ \A h \in Handle : h.idx \in Nat /\ h.gen \in Nat /\ h = H(h.idx, h.gen)
    /\ \A h, g \in Handle : h.idx = g.idx /\ h.gen = g.gen => h = g
BY DEF Handle, None, H

-----------------------------------------------------------------------------
(* Sequences, commands and handles. *)

LEMMA FrontOf ==
    ASSUME NEW S, NEW s \in Seq(S), s # <<>>
    PROVE  /\ Front(s) \in Seq(S) /\ Len(Front(s)) = Len(s) - 1
           /\ \A k \in 1 .. Len(s) - 1 : Front(s)[k] = s[k]
           /\ Last(s) = s[Len(s)] /\ Last(s) \in S /\ Len(s) > 0
<1>1. Len(s) \in Nat /\ Len(s) > 0
  OBVIOUS
<1>2. Last(s) = s[Len(s)] /\ Last(s) \in S
  BY <1>1 DEF Last
<1>3. Front(s) = [k \in 1 .. Len(s) - 1 |-> s[k]]
  BY <1>1 DEF Front
<1>4. Len(s) - 1 \in Nat
  BY <1>1
<1>5. Front(s) \in Seq(S) /\ Len(Front(s)) = Len(s) - 1
  BY <1>3, <1>4
<1> QED BY <1>1, <1>2, <1>3, <1>5

LEMMA TailOf ==
    ASSUME NEW S, NEW s \in Seq(S), s # <<>>
    PROVE  /\ Tail(s) \in Seq(S) /\ Len(Tail(s)) = Len(s) - 1
           /\ \A k \in 1 .. Len(s) - 1 : Tail(s)[k] = s[k + 1]
           /\ Head(s) = s[1] /\ Head(s) \in S /\ Len(s) > 0 /\ Len(s) \in Nat
OBVIOUS

LEMMA RestOf ==
    ASSUME NEW S, NEW s \in Seq(S), NEW n \in 0 .. Len(s)
    PROVE  /\ SubSeq(s, n + 1, Len(s)) \in Seq(S) /\ Len(SubSeq(s, n + 1, Len(s))) = Len(s) - n
           /\ \A k \in 1 .. Len(s) - n : SubSeq(s, n + 1, Len(s))[k] = s[k + n]
OBVIOUS

LEMMA AppendOf ==
    ASSUME NEW S, NEW s \in Seq(S), NEW e \in S
    PROVE  /\ Append(s, e) \in Seq(S) /\ Len(Append(s, e)) = Len(s) + 1 /\ Len(s) \in Nat
           /\ \A k \in 1 .. Len(s) : Append(s, e)[k] = s[k]
           /\ Append(s, e)[Len(s) + 1] = e
OBVIOUS

LEMMA SeqDomain ==
    TypeOK => /\ DOMAIN sfree = 1 .. Len(sfree) /\ Len(sfree) \in Nat
              /\ DOMAIN jobs = 1 .. Len(jobs) /\ Len(jobs) \in Nat
              /\ DOMAIN res = 1 .. Len(res) /\ Len(res) \in Nat
              /\ DOMAIN cmd = 1 .. Len(cmd) /\ Len(cmd) \in Nat
              /\ DOMAIN ack = 1 .. Len(ack) /\ Len(ack) \in Nat
              /\ batch.done \in Nat /\ batch.upto \in Nat
BY DEF TypeOK

LEMMA SeqDomainPrime ==
    TypeOK' => /\ DOMAIN sfree' = 1 .. Len(sfree') /\ Len(sfree') \in Nat
              /\ DOMAIN jobs' = 1 .. Len(jobs') /\ Len(jobs') \in Nat
              /\ DOMAIN res' = 1 .. Len(res') /\ Len(res') \in Nat
              /\ DOMAIN cmd' = 1 .. Len(cmd') /\ Len(cmd') \in Nat
              /\ DOMAIN ack' = 1 .. Len(ack') /\ Len(ack') \in Nat
              /\ batch'.done \in Nat /\ batch'.upto \in Nat
BY DEF TypeOK

\* A command is sent, or dropped.
LEMMA Pushed ==
    ASSUME TypeOK, NEW c \in Command, Push(c)
    PROVE  /\ cmd' \in Seq(Command) /\ Len(cmd') \in Nat /\ Len(cmd') >= Len(cmd)
           /\ \A k \in 1 .. Len(cmd) : cmd'[k] = cmd[k]
           /\ CmdRoom(1) => Len(cmd') = Len(cmd) + 1 /\ cmd'[Len(cmd) + 1] = c
           /\ ~CmdRoom(1) => cmd' = cmd
<1>1. cmd \in Seq(Command) /\ Len(cmd) \in Nat /\ RingOK
  BY TypeParts DEF RingOK
<1>2. CASE CmdRoom(1)
  BY <1>1, <1>2, AppendOf DEF Push, RingOK
<1>3. CASE ~CmdRoom(1)
  BY <1>1, <1>3 DEF Push, RingOK
<1> QED BY <1>2, <1>3

\* What is not changed keeps its type.
LEMMA SameParts ==
    ASSUME TypeOK
    PROVE  /\ UNCHANGED cacheVars => CacheOK'
           /\ UNCHANGED <<snd, sfree, slot, held, heap>> => SlotsOK'
           /\ UNCHANGED ctl => CtlOK'
           /\ UNCHANGED loadVars => LoadOK'
           /\ UNCHANGED <<cmd, ack, batch>> => RingOK'
           /\ UNCHANGED voice => VoiceOK'
           /\ UNCHANGED want => WantOK'
BY TypeParts DEF CacheOK, SlotsOK, CtlOK, LoadOK, RingOK, VoiceOK, WantOK, cacheVars, loadVars

LEMMA SourceIs == ASSUME TypeOK, NEW h \in Sources PROVE h \in Handle /\ h.idx \in Voice
BY Sizes DEF Sources, Handle, Voice

LEMMA SoundIs ==
    ASSUME TypeOK, NEW h \in Sounds
    PROVE  h \in Handle /\ h.idx \in Sound /\ h.gen = snd[h.idx].gen /\ SndLive(h)
<1>1. PICK s \in Sound : snd[s].st # "free" /\ h = H(s, snd[s].gen)
  BY DEF Sounds
<1>2. s \in Nat /\ snd[s].gen \in Nat
  BY Sizes, TypeParts DEF SlotsOK, SndRec, Sound
<1> QED BY <1>1, <1>2, Handles DEF SndLive

LEMMA CommandIs ==
    ASSUME NEW t \in CommandNames, NEW v \in Handle, NEW s \in Handle
    PROVE  C(t, v, s) \in Command /\ C(t, v, s).t = t /\ C(t, v, s).v = v /\ C(t, v, s).s = s
BY DEF C, Command

\* The commands about a source, and about a sound.
LEMMA SourceCommand ==
    ASSUME NEW t \in CommandNames, NEW h \in Handle
    PROVE  \E c \in Command : c = C(t, h, None) /\ c.t = t /\ c.v = h
<1>1. None \in Handle
  BY Handles
<1> QED BY <1>1, CommandIs

LEMMA SoundCommand ==
    ASSUME NEW t \in CommandNames, NEW h \in Handle
    PROVE  \E c \in Command : c = C(t, None, h) /\ c.t = t /\ c.v = None /\ c.s = h
<1>1. None \in Handle
  BY Handles
<1> QED BY <1>1, CommandIs

LEMMA PushType ==
    ASSUME TypeOK, NEW c \in Command, Push(c), UNCHANGED <<ack, batch>>
    PROVE  RingOK'
<1>1. RingOK
  BY TypeParts
<1> QED BY <1>1, Pushed DEF RingOK

LEMMA AskedType ==
    ASSUME TypeOK, NEW h, NEW f, Live(h) => f \in WantRec, NEW d
    PROVE  Asked(h, f, d) \in [Voice -> WantRec]
<1>1. WantOK
  BY TypeParts
<1>2. Lost \in WantRec
  BY Handles DEF Lost, Nothing, WantRec
<1> QED BY <1>1, <1>2 DEF Asked, Live, WantOK

LEMMA WantOfType == ASSUME TypeOK, NEW h, h.idx \in Voice PROVE WantOf(h) \in WantRec
BY TypeParts DEF WantOf, WantOK

\* The top of the free list.
LEMMA NextIs ==
    ASSUME TypeOK, CanReserve
    PROVE  /\ Last(sfree) \in Sound /\ Last(sfree) = sfree[Len(sfree)] /\ Len(sfree) > 0
           /\ NextSound \in Handle /\ NextSound.idx = Last(sfree)
           /\ NextSound.gen = snd[Last(sfree)].gen + 1 /\ snd[Last(sfree)].gen \in Nat
           /\ Front(sfree) \in Seq(Sound) /\ Len(Front(sfree)) = Len(sfree) - 1
           /\ \A k \in 1 .. Len(sfree) - 1 : Front(sfree)[k] = sfree[k]
<1>1. sfree \in Seq(Sound) /\ sfree # <<>> /\ snd \in [Sound -> SndRec]
  BY TypeParts DEF SlotsOK, CanReserve
<1>2. /\ Last(sfree) \in Sound /\ Last(sfree) = sfree[Len(sfree)] /\ Len(sfree) > 0
      /\ Front(sfree) \in Seq(Sound) /\ Len(Front(sfree)) = Len(sfree) - 1
      /\ \A k \in 1 .. Len(sfree) - 1 : Front(sfree)[k] = sfree[k]
  BY <1>1, FrontOf
<1>3. Last(sfree) \in Nat /\ snd[Last(sfree)].gen \in Nat
  BY <1>1, <1>2, Sizes DEF Sound, SndRec
<1>4. snd[Last(sfree)].gen + 1 \in Nat
  BY <1>3
<1>5. NextSound \in Handle /\ NextSound.idx = Last(sfree) /\ NextSound.gen = snd[Last(sfree)].gen + 1
  BY <1>3, <1>4, Handles DEF NextSound
<1> QED BY <1>2, <1>3, <1>5

LEMMA ReservedIs ==
    ASSUME TypeOK, CanReserve, NEW st \in SoundStates, snd' = Reserved(st)
    PROVE  /\ snd' \in [Sound -> SndRec]
           /\ \A s \in Sound : /\ snd'[s].st = IF s = NextSound.idx THEN st ELSE snd[s].st
                               /\ snd'[s].gen = IF s = NextSound.idx THEN snd[s].gen + 1 ELSE snd[s].gen
<1>1. snd \in [Sound -> SndRec]
  BY TypeParts DEF SlotsOK
<1>2. Last(sfree) \in Sound /\ NextSound.idx = Last(sfree) /\ snd[Last(sfree)].gen \in Nat
  BY NextIs
<1>3. [gen |-> snd[Last(sfree)].gen + 1, st |-> st] \in SndRec
  BY <1>2 DEF SndRec
<1> QED BY <1>1, <1>2, <1>3 DEF Reserved

-----------------------------------------------------------------------------
(* What the actions do to the fields of the records they change. *)

\* A sound slot changes its state.
LEMMA Moved ==
    ASSUME TypeOK, NEW i \in Sound, NEW st \in SoundStates, snd' = [snd EXCEPT ![i].st = st]
    PROVE  /\ snd' \in [Sound -> SndRec]
           /\ \A s \in Sound : snd'[s].gen = snd[s].gen /\ snd'[s].st = IF s = i THEN st ELSE snd[s].st
<1>1. snd \in [Sound -> SndRec]
  BY TypeParts DEF SlotsOK
<1>2. snd' = [snd EXCEPT ![i] = [snd[i] EXCEPT !.st = st]]
  OBVIOUS
<1>3. /\ [snd[i] EXCEPT !.st = st] \in SndRec
      /\ [snd[i] EXCEPT !.st = st].st = st /\ [snd[i] EXCEPT !.st = st].gen = snd[i].gen
  BY <1>1 DEF SndRec
<1> QED BY <1>1, <1>2, <1>3

\* An entry changes.
LEMMA EntryIs ==
    ASSUME TypeOK, NEW f \in File, NEW e \in EntryRec, entry' = [entry EXCEPT ![f] = e]
    PROVE  entry' \in [File -> EntryRec] /\ \A g \in File : entry'[g] = IF g = f THEN e ELSE entry[g]
BY TypeParts DEF CacheOK

LEMMA RetireIs ==
    ASSUME TypeOK, NEW h \in Handle, h.idx \in Sound, Retire(h)
    PROVE  /\ held' = HeldButSnd(h) /\ held' \subseteq HeldRec
           /\ snd' \in [Sound -> SndRec]
           /\ \A s \in Sound : /\ snd'[s].gen = snd[s].gen
                               /\ snd'[s].st = IF s = h.idx /\ CmdRoom(1) THEN "retiring" ELSE snd[s].st
           /\ Push(C("RETIRE", None, h)) /\ C("RETIRE", None, h) \in Command
<1>1. snd \in [Sound -> SndRec] /\ held \subseteq HeldRec
  BY TypeParts DEF SlotsOK
<1>2. held' = HeldButSnd(h) /\ held' \subseteq HeldRec /\ Push(C("RETIRE", None, h))
  BY <1>1 DEF Retire, HeldButSnd
<1>3. C("RETIRE", None, h) \in Command
  BY Handles, CommandIs DEF CommandNames
<1>4. CASE CmdRoom(1)
  <2>1. snd' = [snd EXCEPT ![h.idx].st = "retiring"] /\ "retiring" \in SoundStates
    BY <1>4 DEF Retire, SoundStates
  <2>2. /\ snd' \in [Sound -> SndRec]
        /\ \A s \in Sound : snd'[s].gen = snd[s].gen /\ snd'[s].st = IF s = h.idx THEN "retiring" ELSE snd[s].st
    BY <2>1, Moved
  <2> QED BY <1>2, <1>3, <1>4, <2>2
<1>5. CASE ~CmdRoom(1)
  BY <1>1, <1>2, <1>3, <1>5 DEF Retire
<1> QED BY <1>4, <1>5

\* What a step of the pump does with one result.
LEMMA PumpTakeDoes ==
    ASSUME TypeOK, Entries, PumpTake
    PROVE  /\ ctl.pc = "pump" /\ inflight' = inflight - 1
           /\ UNCHANGED <<park, sfree, slot, held, want, jobs, jobEv, stop, ldr, cmd, ack, batch, voice>>
           /\ res' \in Seq(ResRec) /\ Len(res) > 0 /\ Len(res') = Len(res) - 1 /\ res[1] \in ResRec
           /\ \A k \in 1 .. Len(res) - 1 : res'[k] = res[k + 1]
           /\ entry' \in [File -> EntryRec] /\ snd' \in [Sound -> SndRec] /\ ctl' \in CtlRec /\ heap' \subseteq Handle
           /\ \A s \in Sound : snd'[s].gen = snd[s].gen
           /\ \/ /\ UNCHANGED <<entry, snd, ctl>> /\ heap' = heap \ {res[1].snd}
                 /\ \A f \in File : entry[f].st = "loading" => entry[f].snd # res[1].snd
              \/ \E f \in File :
                    /\ entry[f].st = "loading" /\ entry[f].snd = res[1].snd
                    /\ entry'[f].snd = entry[f].snd /\ \A g \in File \ {f} : entry'[g] = entry[g]
                    /\ \/ /\ res[1].ok /\ entry'[f].st = "ready" /\ heap' = heap
                          /\ \A s \in Sound : snd'[s].st = IF s = res[1].snd.idx THEN "live" ELSE snd[s].st
                          /\ ctl'.pc = "fire" /\ ctl'.h = res[1].snd
                       \/ /\ ~res[1].ok /\ entry'[f].st = "failed" /\ heap' = heap \ {res[1].snd}
                          /\ UNCHANGED <<snd, ctl>>
<1> DEFINE r == Head(res)
<1>1. /\ entry \in [File -> EntryRec] /\ snd \in [Sound -> SndRec] /\ ctl \in CtlRec /\ heap \subseteq Handle
      /\ res \in Seq(ResRec)
  BY TypeParts DEF CacheOK, SlotsOK, CtlOK, LoadOK
<1>2. /\ ctl.pc = "pump" /\ inflight' = inflight - 1
      /\ UNCHANGED <<park, sfree, slot, held, want, jobs, jobEv, stop, ldr, cmd, ack, batch, voice>>
      /\ res # <<>> /\ res' = Tail(res)
  BY DEF PumpTake, Landed, sourceVars, audioVars
<1>3. /\ res' \in Seq(ResRec) /\ Len(res) > 0 /\ Len(res') = Len(res) - 1 /\ res[1] \in ResRec /\ r = res[1]
      /\ \A k \in 1 .. Len(res) - 1 : res'[k] = res[k + 1]
  BY <1>1, <1>2, TailOf
<1> HIDE DEF r
<1>4. CASE Adopters(r.snd) = {} /\ heap' = heap \ {r.snd} /\ UNCHANGED <<entry, snd, ctl>>
  <2>1. \A f \in File : entry[f].st = "loading" => entry[f].snd # r.snd
    BY <1>4 DEF Adopters, Owners
  <2> QED BY <1>1, <1>2, <1>3, <1>4, <2>1
<1>5. ASSUME NEW f \in Adopters(r.snd),
             entry' = [entry EXCEPT ![f].st = IF r.ok THEN "ready" ELSE "failed"],
             IF r.ok /\ IsPending(entry[f].snd)
             THEN /\ snd' = [snd EXCEPT ![entry[f].snd.idx].st = "live"]
                  /\ ctl' = [ctl EXCEPT !.pc = "fire", !.h = entry[f].snd]
                  /\ UNCHANGED heap
             ELSE heap' = heap \ {r.snd} /\ UNCHANGED <<snd, ctl>>
      PROVE  /\ entry' \in [File -> EntryRec] /\ snd' \in [Sound -> SndRec] /\ ctl' \in CtlRec /\ heap' \subseteq Handle
             /\ \A s \in Sound : snd'[s].gen = snd[s].gen
             /\ f \in File /\ entry[f].st = "loading" /\ entry[f].snd = r.snd
             /\ entry'[f].snd = entry[f].snd /\ \A g \in File \ {f} : entry'[g] = entry[g]
             /\ \/ /\ r.ok /\ entry'[f].st = "ready" /\ heap' = heap
                   /\ \A s \in Sound : snd'[s].st = IF s = r.snd.idx THEN "live" ELSE snd[s].st
                   /\ ctl'.pc = "fire" /\ ctl'.h = r.snd
                \/ /\ ~r.ok /\ entry'[f].st = "failed" /\ heap' = heap \ {r.snd} /\ UNCHANGED <<snd, ctl>>
  <2>1. f \in File /\ entry[f].st = "loading" /\ entry[f].snd = r.snd /\ r.snd \in Handle
    BY <1>3, <1>5 DEF Adopters, Owners, ResRec
  <2>2. Is(r.snd, "pending")
    BY <2>1 DEF Entries
  <2>3. r.snd.idx \in Sound /\ IsPending(entry[f].snd)
    BY <2>1, <2>2 DEF Is, IsPending, SndLive
  <2>4. /\ entry' \in [File -> EntryRec] /\ entry'[f].snd = entry[f].snd
        /\ \A g \in File \ {f} : entry'[g] = entry[g]
        /\ entry'[f].st = IF r.ok THEN "ready" ELSE "failed"
    BY <1>1, <1>5, <2>1 DEF EntryRec
  <2>5. CASE r.ok
    <3>1. /\ snd' = [snd EXCEPT ![r.snd.idx].st = "live"] /\ heap' = heap
          /\ ctl' = [ctl EXCEPT !.pc = "fire", !.h = r.snd]
      BY <1>5, <2>1, <2>3, <2>5
    <3>2. ctl' \in CtlRec /\ ctl'.pc = "fire" /\ ctl'.h = r.snd
      BY <1>1, <2>1, <3>1 DEF CtlRec, ControlStates
    <3>3. "live" \in SoundStates
      BY DEF SoundStates
    <3>4. /\ snd' \in [Sound -> SndRec]
          /\ \A s \in Sound : snd'[s].gen = snd[s].gen /\ snd'[s].st = IF s = r.snd.idx THEN "live" ELSE snd[s].st
      BY <2>3, <3>1, <3>3, Moved
    <3> QED BY <1>1, <2>1, <2>4, <2>5, <3>1, <3>2, <3>4
  <2>6. CASE ~r.ok
    BY <1>1, <1>5, <2>1, <2>4, <2>6
  <2> QED BY <2>5, <2>6
<1>6. CASE \E f \in Adopters(r.snd) :
             /\ entry' = [entry EXCEPT ![f].st = IF r.ok THEN "ready" ELSE "failed"]
             /\ IF r.ok /\ IsPending(entry[f].snd)
                THEN /\ snd' = [snd EXCEPT ![entry[f].snd.idx].st = "live"]
                     /\ ctl' = [ctl EXCEPT !.pc = "fire", !.h = entry[f].snd]
                     /\ UNCHANGED heap
                ELSE heap' = heap \ {r.snd} /\ UNCHANGED <<snd, ctl>>
  <2>1. PICK f \in Adopters(r.snd) :
             /\ entry' = [entry EXCEPT ![f].st = IF r.ok THEN "ready" ELSE "failed"]
             /\ IF r.ok /\ IsPending(entry[f].snd)
                THEN /\ snd' = [snd EXCEPT ![entry[f].snd.idx].st = "live"]
                     /\ ctl' = [ctl EXCEPT !.pc = "fire", !.h = entry[f].snd]
                     /\ UNCHANGED heap
                ELSE heap' = heap \ {r.snd} /\ UNCHANGED <<snd, ctl>>
    BY <1>6
  <2>2. /\ entry' \in [File -> EntryRec] /\ snd' \in [Sound -> SndRec] /\ ctl' \in CtlRec /\ heap' \subseteq Handle
        /\ \A s \in Sound : snd'[s].gen = snd[s].gen
        /\ f \in File /\ entry[f].st = "loading" /\ entry[f].snd = r.snd
        /\ entry'[f].snd = entry[f].snd /\ \A g \in File \ {f} : entry'[g] = entry[g]
        /\ \/ /\ r.ok /\ entry'[f].st = "ready" /\ heap' = heap
              /\ \A s \in Sound : snd'[s].st = IF s = r.snd.idx THEN "live" ELSE snd[s].st
              /\ ctl'.pc = "fire" /\ ctl'.h = r.snd
           \/ /\ ~r.ok /\ entry'[f].st = "failed" /\ heap' = heap \ {r.snd} /\ UNCHANGED <<snd, ctl>>
    BY <1>5, <2>1
  <2> QED BY <1>2, <1>3, <2>2
<1> QED BY <1>4, <1>6 DEF PumpTake, r

\* A parked unload is retried.
LEMMA RetryParkDoes ==
    ASSUME TypeOK, Parks, NEW h \in ctl.try, RetryPark(h)
    PROVE  /\ ctl.pc = "park" /\ h \in park /\ h \in Handle /\ Is(h, "live") /\ h.idx \in Sound
           /\ UNCHANGED <<entry, inflight, sfree, slot, want, jobs, res, jobEv, stop, ldr, ack, batch, voice, heap>>
           /\ ctl' \in CtlRec /\ ctl'.pc = "park" /\ ctl'.try = ctl.try \ {h}
           /\ held' = HeldButSnd(h) /\ held' \subseteq HeldRec
           /\ snd' \in [Sound -> SndRec]
           /\ \A s \in Sound : /\ snd'[s].gen = snd[s].gen
                               /\ snd'[s].st = IF s = h.idx /\ CmdRoom(1) THEN "retiring" ELSE snd[s].st
           /\ Push(C("RETIRE", None, h)) /\ C("RETIRE", None, h) \in Command
           /\ park' = IF CmdRoom(1) THEN park \ {h} ELSE park
<1>1. ctl.pc = "park" /\ h \in park /\ h \in Handle /\ Is(h, "live") /\ h.idx \in Sound
  BY TypeParts DEF RetryPark, Parks, CacheOK, Is
<1>2. SndLive(h) /\ snd[h.idx].st = "live"
  BY <1>1 DEF Is, SndLive
<1>3. Retire(h) /\ park' = IF CmdRoom(1) THEN park \ {h} ELSE park
  BY <1>2 DEF RetryPark
<1>4. ctl' \in CtlRec /\ ctl'.pc = "park" /\ ctl'.try = ctl.try \ {h}
  BY <1>1, TypeParts DEF RetryPark, CtlOK, CtlRec
<1> QED BY <1>1, <1>3, <1>4, RetireIs DEF RetryPark, loadVars, audioVars

\* A slot is reserved and its file handed to the loader.
LEMMA AcquireAsyncDoes ==
    ASSUME TypeOK, NEW f \in File, AcquireAsync(f)
    PROVE  /\ ctl.pc = "body" /\ entry[f].st = "none" /\ CanReserve /\ inflight < JobCap /\ inflight' = inflight + 1
           /\ UNCHANGED <<park, slot, held, want, res, jobEv, stop, cmd, ack, batch, voice, heap>>
           /\ sfree' = Front(sfree)
           /\ snd' \in [Sound -> SndRec]
           /\ \A s \in Sound : /\ snd'[s].st = IF s = NextSound.idx THEN "pending" ELSE snd[s].st
                               /\ snd'[s].gen = IF s = NextSound.idx THEN snd[s].gen + 1 ELSE snd[s].gen
           /\ entry' \in [File -> EntryRec] /\ \A g \in File \ {f} : entry'[g] = entry[g]
           /\ entry'[f].snd = NextSound /\ entry'[f].st = "loading"
           /\ jobs' \in Seq(Handle) /\ Len(jobs') = Len(jobs) + 1 /\ jobs'[Len(jobs) + 1] = NextSound
           /\ \A k \in 1 .. Len(jobs) : jobs'[k] = jobs[k]
           /\ ldr' \in LdrRec /\ ldr'.snd = ldr.snd /\ ldr'.ok = ldr.ok
           /\ ldr'.pc = IF ldr.pc = "none" THEN "top" ELSE ldr.pc
           /\ ctl' \in CtlRec /\ ctl'.pc = "signal"
<1> DEFINE e == [snd |-> NextSound, refs |-> 1, st |-> "loading"]
<1>1. /\ ctl.pc = "body" /\ entry[f].st = "none" /\ CanReserve /\ inflight < JobCap /\ inflight' = inflight + 1
      /\ UNCHANGED <<park, slot, held, want, res, jobEv, stop, cmd, ack, batch, voice, heap>>
      /\ sfree' = Front(sfree) /\ snd' = Reserved("pending") /\ jobs' = Append(jobs, NextSound)
      /\ entry' = [entry EXCEPT ![f] = e]
  BY DEF AcquireAsync, Body, NewEntry, sourceVars, audioVars
<1>2. NextSound \in Handle
  BY <1>1, NextIs
<1>3. e \in EntryRec
  BY <1>2 DEF EntryRec
<1>4. entry' \in [File -> EntryRec] /\ \A g \in File : entry'[g] = IF g = f THEN e ELSE entry[g]
  <2> HIDE DEF e
  <2> QED BY <1>1, <1>3, EntryIs
<1>5. "pending" \in SoundStates
  BY DEF SoundStates
<1>6. /\ snd' \in [Sound -> SndRec]
      /\ \A s \in Sound : /\ snd'[s].st = IF s = NextSound.idx THEN "pending" ELSE snd[s].st
                          /\ snd'[s].gen = IF s = NextSound.idx THEN snd[s].gen + 1 ELSE snd[s].gen
  BY <1>1, <1>5, ReservedIs
<1>7. /\ jobs' \in Seq(Handle) /\ Len(jobs') = Len(jobs) + 1 /\ jobs'[Len(jobs) + 1] = NextSound
      /\ \A k \in 1 .. Len(jobs) : jobs'[k] = jobs[k]
  BY <1>1, <1>2, AppendOf, TypeParts DEF LoadOK
<1>8. /\ ldr' \in LdrRec /\ ldr'.snd = ldr.snd /\ ldr'.ok = ldr.ok
      /\ ldr'.pc = IF ldr.pc = "none" THEN "top" ELSE ldr.pc
  <2>1. ldr \in LdrRec /\ ldr' = IF ldr.pc = "none" THEN [ldr EXCEPT !.pc = "top"] ELSE ldr
    BY TypeParts DEF AcquireAsync, LoadOK
  <2> QED BY <2>1 DEF LdrRec, LoaderStates
<1>9. ctl' \in CtlRec /\ ctl'.pc = "signal"
  BY Handles DEF AcquireAsync, Idle, CtlRec, ControlStates
<1>10. entry'[f].snd = NextSound /\ entry'[f].st = "loading" /\ \A g \in File \ {f} : entry'[g] = entry[g]
  BY <1>4
<1> QED BY <1>1, <1>4, <1>6, <1>7, <1>8, <1>9, <1>10

\* A file is loaded within the call, or does not load and keeps its slot.
LEMMA AcquireNowDoes ==
    ASSUME TypeOK, NEW f \in File, AcquireNow(f)
    PROVE  /\ ctl.pc = "body" /\ entry[f].st = "none" /\ CanReserve
           /\ UNCHANGED <<inflight, park, slot, held, want, jobs, res, jobEv, stop, ldr, cmd, ack, batch, voice>>
           /\ sfree' = Front(sfree) /\ NextSound \in Handle
           /\ snd' \in [Sound -> SndRec]
           /\ \A s \in Sound : snd'[s].gen = IF s = NextSound.idx THEN snd[s].gen + 1 ELSE snd[s].gen
           /\ entry' \in [File -> EntryRec] /\ \A g \in File \ {f} : entry'[g] = entry[g]
           /\ entry'[f].snd = NextSound
           /\ ctl' \in CtlRec /\ ctl'.pc = "idle"
           /\ \/ /\ \A s \in Sound : snd'[s].st = IF s = NextSound.idx THEN "live" ELSE snd[s].st
                 /\ entry'[f].st = "ready" /\ heap' = heap \cup {NextSound}
              \/ /\ \A s \in Sound : snd'[s].st = IF s = NextSound.idx THEN "pending" ELSE snd[s].st
                 /\ entry'[f].st = "failed" /\ heap' = heap
<1> DEFINE e(st) == [snd |-> NextSound, refs |-> 1, st |-> st]
<1>1. /\ ctl.pc = "body" /\ entry[f].st = "none" /\ CanReserve
      /\ UNCHANGED <<inflight, park, slot, held, want, jobs, res, jobEv, stop, ldr, cmd, ack, batch, voice>>
      /\ sfree' = Front(sfree)
  BY DEF AcquireNow, Body, sourceVars, loadVars, audioVars
<1>2. \/ snd' = Reserved("live") /\ entry' = [entry EXCEPT ![f] = e("ready")] /\ heap' = heap \cup {NextSound}
      \/ snd' = Reserved("pending") /\ entry' = [entry EXCEPT ![f] = e("failed")] /\ heap' = heap
  BY DEF AcquireNow, NewEntry
<1>3. NextSound \in Handle
  BY <1>1, NextIs
<1>4. ASSUME NEW st \in {"ready", "failed"}, entry' = [entry EXCEPT ![f] = e(st)]
      PROVE  /\ entry' \in [File -> EntryRec] /\ \A g \in File \ {f} : entry'[g] = entry[g]
             /\ entry'[f].snd = NextSound /\ entry'[f].st = st
  <2>1. e(st) \in EntryRec
    BY <1>3 DEF EntryRec
  <2>2. entry' \in [File -> EntryRec] /\ \A g \in File : entry'[g] = IF g = f THEN e(st) ELSE entry[g]
    <3> HIDE DEF e
    <3> QED BY <1>4, <2>1, EntryIs
  <2> QED BY <2>2
<1>5. ASSUME NEW st \in {"live", "pending"}, snd' = Reserved(st)
      PROVE  /\ snd' \in [Sound -> SndRec]
             /\ \A s \in Sound : /\ snd'[s].st = IF s = NextSound.idx THEN st ELSE snd[s].st
                                 /\ snd'[s].gen = IF s = NextSound.idx THEN snd[s].gen + 1 ELSE snd[s].gen
  <2>1. st \in SoundStates
    BY DEF SoundStates
  <2> QED BY <1>1, <1>5, <2>1, ReservedIs
<1>6. ctl' \in CtlRec /\ ctl'.pc = "idle"
  BY Handles DEF AcquireNow, Idle, CtlRec, ControlStates
<1> HIDE DEF e
<1> QED BY <1>1, <1>2, <1>3, <1>4, <1>5, <1>6

\* The last owner of a file lets go, or an earlier one.
LEMMA ReleaseDoes ==
    ASSUME TypeOK, Entries, NEW f \in File, Release(f)
    PROVE  /\ ctl.pc = "body" /\ entry[f].st # "none" /\ entry[f].snd \in Handle /\ entry[f].snd.idx \in Sound
           /\ UNCHANGED <<inflight, slot, want, jobs, res, jobEv, stop, ldr, ack, batch, voice, heap>>
           /\ ctl' \in CtlRec /\ ctl'.pc = "idle"
           /\ entry' \in [File -> EntryRec] /\ \A g \in File \ {f} : entry'[g] = entry[g]
           /\ snd' \in [Sound -> SndRec] /\ \A s \in Sound : snd'[s].gen = snd[s].gen
           /\ held' \subseteq HeldRec
           /\ \/ /\ entry'[f].snd = entry[f].snd /\ entry'[f].st = entry[f].st
                 /\ UNCHANGED <<snd, sfree, held, cmd, park>>
              \/ /\ entry'[f].st = "none" /\ entry[f].st \in {"loading", "failed"}
                 /\ \A s \in Sound : snd'[s].st = IF s = entry[f].snd.idx THEN "free" ELSE snd[s].st
                 /\ sfree' = Append(sfree, entry[f].snd.idx)
                 /\ held' = HeldButSnd(entry[f].snd) /\ UNCHANGED <<cmd, park>>
              \/ /\ entry'[f].st = "none" /\ entry[f].st = "ready"
                 /\ \A s \in Sound : snd'[s].st = IF s = entry[f].snd.idx /\ CmdRoom(1) THEN "retiring" ELSE snd[s].st
                 /\ held' = HeldButSnd(entry[f].snd) /\ UNCHANGED sfree
                 /\ Push(C("RETIRE", None, entry[f].snd)) /\ C("RETIRE", None, entry[f].snd) \in Command
                 /\ park' = IF CmdRoom(1) THEN park ELSE park \cup {entry[f].snd}
<1> DEFINE h == entry[f].snd
<1>1. /\ entry \in [File -> EntryRec] /\ snd \in [Sound -> SndRec] /\ held \subseteq HeldRec
  BY TypeParts DEF CacheOK, SlotsOK
<1>2. /\ ctl.pc = "body" /\ entry[f].st # "none" /\ h \in Handle /\ h.idx \in Sound
      /\ UNCHANGED <<inflight, slot, want, jobs, res, jobEv, stop, ldr, ack, batch, voice, heap>>
  <2>1. h \in Handle /\ entry[f].st # "none" /\ ctl.pc = "body"
    BY <1>1 DEF Release, Body, EntryRec
  <2>2. entry[f].st \in {"loading", "ready", "failed"}
    BY <1>1, <2>1 DEF EntryRec
  <2>3. h.idx \in Sound
    BY <2>2 DEF Entries, Is
  <2>4. UNCHANGED <<inflight, slot, want, jobs, res, jobEv, stop, ldr, ack, batch, voice, heap>>
    BY Zenon DEF Release, loadVars, audioVars
  <2> QED BY <2>1, <2>3, <2>4
<1>3. ctl' \in CtlRec /\ ctl'.pc = "idle"
  <2>1. ctl' = Idle
    BY Zenon DEF Release
  <2> QED BY <2>1, Handles DEF Idle, CtlRec, ControlStates
<1>4. ASSUME entry' = [entry EXCEPT ![f] = NoEntry]
      PROVE  entry' \in [File -> EntryRec] /\ entry'[f].st = "none" /\ \A g \in File \ {f} : entry'[g] = entry[g]
  <2>1. NoEntry \in EntryRec /\ NoEntry.st = "none"
    BY Handles DEF NoEntry, EntryRec
  <2>2. entry' \in [File -> EntryRec] /\ \A g \in File : entry'[g] = IF g = f THEN NoEntry ELSE entry[g]
    BY <1>4, <2>1, EntryIs
  <2> QED BY <2>1, <2>2
<1>5. CASE entry' = [entry EXCEPT ![f].refs = @ - 1] /\ entry[f].refs > 1 /\ UNCHANGED <<snd, sfree, held, cmd, park>>
  <2>1. /\ entry' \in [File -> EntryRec] /\ entry'[f].snd = h /\ entry'[f].st = entry[f].st
        /\ \A g \in File \ {f} : entry'[g] = entry[g]
    BY <1>1, <1>5 DEF EntryRec
  <2> QED BY <1>1, <1>2, <1>3, <1>5, <2>1
<1>6. CASE /\ entry' = [entry EXCEPT ![f] = NoEntry] /\ entry[f].st \in {"loading", "failed"}
           /\ snd' = [snd EXCEPT ![h.idx].st = "free"] /\ sfree' = Append(sfree, h.idx)
           /\ held' = HeldButSnd(h) /\ UNCHANGED <<cmd, park>>
  <2>1. "free" \in SoundStates
    BY DEF SoundStates
  <2>2. /\ snd' \in [Sound -> SndRec]
        /\ \A s \in Sound : snd'[s].gen = snd[s].gen /\ snd'[s].st = IF s = h.idx THEN "free" ELSE snd[s].st
    BY <1>2, <1>6, <2>1, Moved
  <2>3. held' \subseteq HeldRec
    BY <1>1, <1>6 DEF HeldButSnd
  <2> QED BY <1>2, <1>3, <1>4, <1>6, <2>2, <2>3
<1>7. CASE /\ entry' = [entry EXCEPT ![f] = NoEntry] /\ entry[f].st = "ready" /\ Retire(h)
           /\ park' = (IF CmdRoom(1) THEN park ELSE Parked(h)) /\ UNCHANGED sfree
  <2>1. /\ held' = HeldButSnd(h) /\ held' \subseteq HeldRec
        /\ snd' \in [Sound -> SndRec]
        /\ \A s \in Sound : /\ snd'[s].gen = snd[s].gen
                            /\ snd'[s].st = IF s = h.idx /\ CmdRoom(1) THEN "retiring" ELSE snd[s].st
        /\ Push(C("RETIRE", None, h)) /\ C("RETIRE", None, h) \in Command
    BY <1>2, <1>7, RetireIs
  <2>2. park' = IF CmdRoom(1) THEN park ELSE park \cup {h}
    BY <1>7 DEF Parked
  <2> QED BY <1>2, <1>3, <1>4, <1>7, <2>1, <2>2
<1>8. \/ entry' = [entry EXCEPT ![f].refs = @ - 1] /\ entry[f].refs > 1 /\ UNCHANGED <<snd, sfree, held, cmd, park>>
      \/ /\ entry' = [entry EXCEPT ![f] = NoEntry] /\ entry[f].st \in {"loading", "failed"}
         /\ snd' = [snd EXCEPT ![h.idx].st = "free"] /\ sfree' = Append(sfree, h.idx)
         /\ held' = HeldButSnd(h) /\ UNCHANGED <<cmd, park>>
      \/ /\ entry' = [entry EXCEPT ![f] = NoEntry] /\ entry[f].st = "ready" /\ Retire(h)
         /\ park' = (IF CmdRoom(1) THEN park ELSE Parked(h)) /\ UNCHANGED sfree
  BY Zenon DEF Release
<1> QED BY <1>5, <1>6, <1>7, <1>8

\* An acknowledgement is taken.
LEMMA TakeAckDoes ==
    ASSUME TypeOK, Retires, TakeAck
    PROVE  /\ ctl.pc = "events" /\ ctl.left \in 1 .. Len(ack) /\ ack[1] \in Handle /\ ack[1].idx \in Sound
           /\ Is(ack[1], "retiring")
           /\ UNCHANGED <<entry, inflight, park, slot, held, want, jobs, res, jobEv, stop, ldr, cmd, batch, voice>>
           /\ snd' \in [Sound -> SndRec]
           /\ \A s \in Sound : snd'[s].gen = snd[s].gen /\ snd'[s].st = IF s = ack[1].idx THEN "free" ELSE snd[s].st
           /\ sfree' = Append(sfree, ack[1].idx) /\ heap' = heap \ {ack[1]}
           /\ ack' \in Seq(Handle) /\ Len(ack') = Len(ack) - 1 /\ \A k \in 1 .. Len(ack) - 1 : ack'[k] = ack[k + 1]
           /\ ctl' \in CtlRec
           /\ \/ ctl'.pc = "idle"
              \/ ctl'.pc = "events" /\ ctl'.left = ctl.left - 1 /\ ctl'.left \in 1 .. Len(ack) - 1
<1>1. ctl \in CtlRec /\ ack \in Seq(Handle)
  BY TypeParts DEF CtlOK, RingOK
<1>2. ctl.pc = "events" /\ ctl.left \in 1 .. Len(ack) /\ Len(ack) \in Nat
  BY <1>1 DEF TakeAck, Retires, CtlRec
<1>3. ack # <<>>
  BY <1>1, <1>2
<1>4. /\ Head(ack) = ack[1] /\ ack[1] \in Handle
      /\ Tail(ack) \in Seq(Handle) /\ Len(Tail(ack)) = Len(ack) - 1
      /\ \A k \in 1 .. Len(ack) - 1 : Tail(ack)[k] = ack[k + 1]
  BY <1>1, <1>3, TailOf
<1>5. Is(ack[1], "retiring") /\ ack[1].idx \in Sound /\ SndLive(ack[1])
  <2>1. 1 \in DOMAIN ack
    BY <1>1, <1>2
  <2> QED BY <2>1 DEF Retires, Is, SndLive
<1>6. /\ snd' = [snd EXCEPT ![ack[1].idx].st = "free"]
      /\ sfree' = Append(sfree, ack[1].idx) /\ heap' = heap \ {ack[1]} /\ ack' = Tail(ack)
  BY <1>4, <1>5 DEF TakeAck
<1>7. "free" \in SoundStates
  BY DEF SoundStates
<1>8. /\ snd' \in [Sound -> SndRec]
      /\ \A s \in Sound : snd'[s].gen = snd[s].gen /\ snd'[s].st = IF s = ack[1].idx THEN "free" ELSE snd[s].st
  BY <1>5, <1>6, <1>7, Moved
<1>9. /\ ctl' \in CtlRec
      /\ \/ ctl'.pc = "idle"
         \/ ctl'.pc = "events" /\ ctl'.left = ctl.left - 1 /\ ctl'.left \in 1 .. Len(ack) - 1
  <2>1. ctl' = IF ctl.left = 1 THEN Idle ELSE [ctl EXCEPT !.left = @ - 1]
    BY DEF TakeAck
  <2>2. CASE ctl.left = 1
    BY <2>1, <2>2, Handles DEF Idle, CtlRec, ControlStates
  <2>3. CASE ctl.left # 1
    BY <1>1, <1>2, <2>1, <2>3 DEF CtlRec
  <2> QED BY <2>2, <2>3
<1>10. UNCHANGED <<entry, inflight, park, slot, held, want, jobs, res, jobEv, stop, ldr, cmd, batch, voice>>
  BY DEF TakeAck, cacheVars, sourceVars, loadVars, audioVars
<1> QED BY <1>2, <1>4, <1>5, <1>6, <1>8, <1>9, <1>10

\* What command c does to a voice: it is left alone, emptied of its sound, or plays the command's.
LEMMA HandledIs ==
    ASSUME TypeOK, NEW c \in Command
    PROVE  /\ Handled(voice, c) \in [Voice -> VoiceRec]
           /\ \A i \in Voice :
                \/ Handled(voice, c)[i].snd = voice[i].snd
                \/ Handled(voice, c)[i].snd = None
                \/ Handled(voice, c)[i].snd = c.s /\ c.t = "PLAY" /\ SndLive(c.s)
           /\ c.t = "RETIRE" => \A i \in Voice : Handled(voice, c)[i].snd # c.s \/ c.s = None
<1>1. voice \in [Voice -> VoiceRec] /\ c.v \in Handle /\ c.s \in Handle /\ c.t \in CommandNames
  BY TypeParts DEF VoiceOK, Command
<1>2. ASSUME NEW r \in VoiceRec
      PROVE  Silent(r) \in VoiceRec /\ Silent(r).snd = r.snd
             /\ [Silent(r) EXCEPT !.snd = None] \in VoiceRec /\ [Silent(r) EXCEPT !.snd = None].snd = None
  BY Handles DEF Silent, VoiceRec
<1>3. CASE c.t = "CREATE"
  <2> DEFINE new == [gen |-> c.v.gen, active |-> TRUE, snd |-> None, on |-> FALSE, seek |-> FALSE, stopAt |-> FALSE]
  <2>1. new \in VoiceRec
    BY <1>1, Handles DEF VoiceRec
  <2>2. Handled(voice, c) = [voice EXCEPT ![c.v.idx] = new]
    BY <1>3 DEF Handled, Effect
  <2>3. Handled(voice, c) = [i \in Voice |-> IF i = c.v.idx THEN new ELSE voice[i]]
    BY <1>1, <2>2
  <2>4. new.snd = None
    OBVIOUS
  <2> HIDE DEF new
  <2>5. Handled(voice, c) \in [Voice -> VoiceRec]
    BY <1>1, <2>1, <2>3
  <2>6. \A i \in Voice : Handled(voice, c)[i].snd = voice[i].snd \/ Handled(voice, c)[i].snd = None
    BY <2>3, <2>4
  <2> QED BY <1>3, <2>5, <2>6
<1>4. CASE c.t = "PLAY" /\ VoiceOf(voice, c.v) /\ SndLive(c.s)
  <2> DEFINE new == [Silent(voice[c.v.idx]) EXCEPT !.snd = c.s, !.on = TRUE]
  <2>1. new \in VoiceRec /\ new.snd = c.s
    <3>1. c.v.idx \in Voice
      BY <1>4 DEF VoiceOf
    <3> QED BY <1>1, <1>2, <3>1 DEF VoiceRec
  <2>2. Handled(voice, c) = [voice EXCEPT ![c.v.idx] = new]
    BY <1>4 DEF Handled, Effect
  <2> HIDE DEF new
  <2> QED BY <1>1, <1>4, <2>1, <2>2
<1>5. CASE c.t = "DESTROY" /\ VoiceOf(voice, c.v)
  <2> DEFINE new == [Silent(voice[c.v.idx]) EXCEPT !.active = FALSE, !.snd = None]
  <2>1. new \in VoiceRec /\ new.snd = None
    <3>1. voice[c.v.idx] \in VoiceRec
      BY <1>1, <1>5 DEF VoiceOf
    <3>2. Silent(voice[c.v.idx]) \in VoiceRec
      BY <1>2, <3>1
    <3> QED BY <3>2, Handles DEF VoiceRec
  <2>2. Handled(voice, c) = [voice EXCEPT ![c.v.idx] = new]
    BY <1>5 DEF Handled, Effect
  <2> HIDE DEF new
  <2> QED BY <1>1, <1>5, <2>1, <2>2
<1>6. CASE c.t = "SEEK" /\ VoiceOf(voice, c.v)
  <2>1. Handled(voice, c) = [voice EXCEPT ![c.v.idx].seek = voice[c.v.idx].on]
    BY <1>6 DEF Handled, Effect
  <2> QED BY <1>1, <1>6, <2>1 DEF VoiceOf, VoiceRec
<1>7. CASE c.t = "STOP" /\ VoiceOf(voice, c.v)
  <2>1. Handled(voice, c) = [voice EXCEPT ![c.v.idx] = Silent(voice[c.v.idx])]
    BY <1>7 DEF Handled, Effect
  <2>2. voice[c.v.idx] \in VoiceRec
    BY <1>1, <1>7 DEF VoiceOf
  <2>3. Silent(voice[c.v.idx]) \in VoiceRec /\ Silent(voice[c.v.idx]).snd = voice[c.v.idx].snd
    BY <1>2, <2>2
  <2> QED BY <1>1, <1>7, <2>1, <2>3
<1>8. CASE c.t = "STOP_AT" /\ VoiceOf(voice, c.v)
  <2>1. Handled(voice, c) = [voice EXCEPT ![c.v.idx].stopAt = voice[c.v.idx].on]
    BY <1>8 DEF Handled, Effect
  <2> QED BY <1>1, <1>8, <2>1 DEF VoiceOf, VoiceRec
<1>9. CASE c.t = "STOP_ALL"
  <2>1. Handled(voice, c) = [j \in Voice |-> Silent(voice[j])]
    BY <1>9 DEF Handled, Effect
  <2> QED BY <1>1, <1>2, <1>9, <2>1
<1>10. CASE c.t = "RETIRE"
  <2>1. Handled(voice, c) = [j \in Voice |-> IF voice[j].snd = c.s THEN [Silent(voice[j]) EXCEPT !.snd = None] ELSE voice[j]]
    BY <1>10 DEF Handled, Effect
  <2> QED BY <1>1, <1>2, <1>10, <2>1
<1>11. CASE /\ c.t \notin {"CREATE", "STOP_ALL", "RETIRE"}
            /\ c.t \in {"DESTROY", "SEEK", "STOP", "STOP_AT"} => ~VoiceOf(voice, c.v)
            /\ c.t = "PLAY" => ~(VoiceOf(voice, c.v) /\ SndLive(c.s))
  <2>1. Handled(voice, c) = voice
    BY <1>11 DEF Handled, Effect
  <2> QED BY <1>1, <1>11, <2>1
<1> QED BY <1>3, <1>4, <1>5, <1>6, <1>7, <1>8, <1>9, <1>10, <1>11

LEMMA DrainCommandDoes ==
    ASSUME TypeOK, DrainCommand
    PROVE  LET k == batch.done + 1
               c == cmd[batch.done + 1] IN
           /\ Playable /\ k \in 1 .. Len(cmd) /\ c \in Command
           /\ UNCHANGED <<entry, inflight, park, snd, sfree, slot, held, want, ctl, jobs, res, jobEv, stop, ldr, cmd, heap>>
           /\ voice' = Handled(voice, c)
           /\ c.t = "RETIRE" => /\ ack' \in Seq(Handle) /\ Len(ack') = Len(ack) + 1 /\ ack'[Len(ack) + 1] = c.s
                                /\ \A j \in 1 .. Len(ack) : ack'[j] = ack[j]
           /\ c.t # "RETIRE" => ack' = ack
           /\ batch'.done = k /\ batch' \in [done : Nat, upto : Nat]
           /\ batch'.done <= batch'.upto /\ batch'.upto <= Len(cmd)
<1>1. /\ cmd \in Seq(Command) /\ ack \in Seq(Handle) /\ batch \in [done : Nat, upto : Nat]
      /\ batch.done <= batch.upto /\ batch.upto <= Len(cmd) /\ Len(cmd) \in Nat
  BY TypeParts DEF RingOK
<1>2. Upto \in Nat /\ batch.done < Upto /\ Upto <= Len(cmd)
  BY <1>1 DEF DrainCommand, Upto
<1>3. /\ Playable /\ batch.done + 1 \in 1 .. Len(cmd) /\ cmd[batch.done + 1] \in Command
      /\ batch' = [done |-> batch.done + 1, upto |-> Upto]
      /\ UNCHANGED <<entry, inflight, park, snd, sfree, slot, held, want, ctl, jobs, res, jobEv, stop, ldr, cmd, heap>>
  <2>1. batch.done + 1 \in 1 .. Len(cmd)
    BY <1>1, <1>2
  <2> QED BY <1>1, <2>1 DEF DrainCommand, cacheVars, sourceVars, loadVars
<1>4. batch'.done = batch.done + 1 /\ batch'.upto = Upto /\ batch' \in [done : Nat, upto : Nat]
  BY <1>1, <1>2, <1>3
<1>5. voice' = Handled(voice, cmd[batch.done + 1])
  BY DEF DrainCommand
<1>6. CASE cmd[batch.done + 1].t = "RETIRE"
  <2>1. ack' = Append(ack, cmd[batch.done + 1].s)
    BY <1>6 DEF DrainCommand
  <2>2. cmd[batch.done + 1].s \in Handle
    BY <1>3 DEF Command
  <2>3. /\ ack' \in Seq(Handle) /\ Len(ack') = Len(ack) + 1 /\ ack'[Len(ack) + 1] = cmd[batch.done + 1].s
        /\ \A j \in 1 .. Len(ack) : ack'[j] = ack[j]
    BY <1>1, <2>1, <2>2, AppendOf
  <2> QED BY <1>1, <1>2, <1>3, <1>4, <1>5, <1>6, <2>3
<1>7. CASE cmd[batch.done + 1].t # "RETIRE"
  <2>1. ack' = ack
    BY <1>7 DEF DrainCommand
  <2> QED BY <1>1, <1>2, <1>3, <1>4, <1>5, <1>7, <2>1
<1> QED BY <1>6, <1>7

LEMMA DrainEndDoes ==
    ASSUME TypeOK, DrainEnd
    PROVE  /\ batch.done = batch.upto /\ batch.done \in 1 .. Len(cmd) /\ batch' = NoBatch
           /\ UNCHANGED <<entry, inflight, park, snd, sfree, slot, held, want, ctl, jobs, res, jobEv, stop, ldr, ack, voice, heap>>
           /\ cmd' \in Seq(Command) /\ Len(cmd') = Len(cmd) - batch.done
           /\ \A k \in 1 .. Len(cmd) - batch.done : cmd'[k] = cmd[k + batch.done]
<1>1. /\ cmd \in Seq(Command) /\ batch.upto \in 0 .. Len(cmd) /\ Len(cmd) \in Nat
      /\ batch.upto > 0 /\ batch.done = batch.upto
  BY TypeParts DEF RingOK, DrainEnd
<1>2. cmd' = SubSeq(cmd, batch.upto + 1, Len(cmd)) /\ batch' = NoBatch
  BY DEF DrainEnd
<1>3. /\ cmd' \in Seq(Command) /\ Len(cmd') = Len(cmd) - batch.upto
      /\ \A k \in 1 .. Len(cmd) - batch.upto : cmd'[k] = cmd[k + batch.upto]
  <2>1. ASSUME NEW n \in 0 .. Len(cmd), cmd' = SubSeq(cmd, n + 1, Len(cmd))
        PROVE  /\ cmd' \in Seq(Command) /\ Len(cmd') = Len(cmd) - n
               /\ \A k \in 1 .. Len(cmd) - n : cmd'[k] = cmd[k + n]
    BY <1>1, <2>1, RestOf
  <2> QED BY <1>1, <1>2, <2>1
<1>4. /\ batch.done = batch.upto /\ batch.done \in 1 .. Len(cmd) /\ Len(cmd') = Len(cmd) - batch.done
      /\ \A k \in 1 .. Len(cmd) - batch.done : cmd'[k] = cmd[k + batch.done]
  BY <1>1, <1>3
<1>5. UNCHANGED <<entry, inflight, park, snd, sfree, slot, held, want, ctl, jobs, res, jobEv, stop, ldr, ack, voice, heap>>
  BY DEF DrainEnd, cacheVars, sourceVars, loadVars
<1> QED BY <1>2, <1>3, <1>4, <1>5, Zenon

LEMMA LoaderPopDoes ==
    ASSUME TypeOK, LoaderPop
    PROVE  /\ ldr.pc = "pop" /\ ldr' \in LdrRec
           /\ UNCHANGED <<entry, inflight, park, snd, sfree, slot, held, want, ctl, res, stop, cmd, ack, batch, voice, heap>>
           /\ \/ ldr'.pc = "wait" /\ UNCHANGED jobs
              \/ /\ ldr'.pc = "decode" /\ ldr'.snd = jobs[1]
                 /\ jobs' \in Seq(Handle) /\ Len(jobs) > 0 /\ Len(jobs') = Len(jobs) - 1
                 /\ \A k \in 1 .. Len(jobs) - 1 : jobs'[k] = jobs[k + 1]
<1>1. ldr \in LdrRec /\ jobs \in Seq(Handle)
  BY TypeParts DEF LoadOK
<1>2. UNCHANGED <<entry, inflight, park, snd, sfree, slot, held, want, ctl, res, stop, cmd, ack, batch, voice, heap>>
  BY DEF LoaderPop, cacheVars, sourceVars, audioVars
<1>3. CASE Ldr("pop", "wait") /\ UNCHANGED jobs
  BY <1>1, <1>2, <1>3 DEF Ldr, LdrRec, LoaderStates
<1>4. CASE jobs # <<>> /\ ldr.pc = "pop" /\ ldr' = [ldr EXCEPT !.pc = "decode", !.snd = Head(jobs)] /\ jobs' = Tail(jobs)
  <2>1. /\ Head(jobs) = jobs[1] /\ Head(jobs) \in Handle /\ jobs' \in Seq(Handle) /\ Len(jobs) > 0
        /\ Len(jobs') = Len(jobs) - 1 /\ \A k \in 1 .. Len(jobs) - 1 : jobs'[k] = jobs[k + 1]
    BY <1>1, <1>4, TailOf
  <2>2. ldr' \in LdrRec /\ ldr'.pc = "decode" /\ ldr'.snd = jobs[1]
    BY <1>1, <1>4, <2>1 DEF LdrRec, LoaderStates
  <2> QED BY <1>2, <1>4, <2>1, <2>2
<1> QED BY <1>3, <1>4 DEF LoaderPop

LEMMA LoaderDecodeDoes ==
    ASSUME TypeOK, LoaderDecode
    PROVE  /\ ldr.pc = "decode" /\ ldr' \in LdrRec /\ ldr'.pc = "push" /\ ldr'.snd = ldr.snd /\ ldr.snd \in Handle
           /\ UNCHANGED <<entry, inflight, park, snd, sfree, slot, held, want, ctl, jobs, res, jobEv, stop, cmd, ack, batch, voice>>
           /\ heap' = IF ldr'.ok THEN heap \cup {ldr.snd} ELSE heap
<1>1. ldr \in LdrRec /\ ldr.snd \in Handle
  BY TypeParts DEF LoadOK, LdrRec
<1>2. PICK ok \in BOOLEAN : /\ ldr' = [ldr EXCEPT !.pc = "push", !.ok = ok]
                            /\ heap' = IF ok THEN heap \cup {ldr.snd} ELSE heap
  BY DEF LoaderDecode
<1>3. ldr' \in LdrRec /\ ldr'.pc = "push" /\ ldr'.snd = ldr.snd /\ ldr'.ok = ok
  BY <1>1, <1>2 DEF LdrRec, LoaderStates
<1> QED BY <1>1, <1>2, <1>3 DEF LoaderDecode, cacheVars, sourceVars, audioVars

LEMMA LoaderPushDoes ==
    ASSUME TypeOK, Counted, LoaderPush
    PROVE  /\ ldr.pc = "push" /\ ldr' \in LdrRec /\ ldr'.pc = "top" /\ ldr.snd \in Handle
           /\ UNCHANGED <<entry, inflight, park, snd, sfree, slot, held, want, ctl, jobs, jobEv, stop, cmd, ack, batch, voice, heap>>
           /\ res' \in Seq(ResRec) /\ Len(res') = Len(res) + 1
           /\ res'[Len(res) + 1].snd = ldr.snd /\ res'[Len(res) + 1].ok = ldr.ok
           /\ \A k \in 1 .. Len(res) : res'[k] = res[k]
<1>1. ldr \in LdrRec /\ res \in Seq(ResRec) /\ Len(res) \in Nat /\ Len(jobs) \in Nat /\ inflight \in Int
  BY TypeParts DEF LoadOK, CacheOK
<1>2. Len(res) < JobCap
  BY <1>1, Sizes DEF LoaderPush, Counted, LoaderBusy
<1>3. ldr.snd \in Handle /\ [snd |-> ldr.snd, ok |-> ldr.ok] \in ResRec
  BY <1>1 DEF LdrRec, ResRec
<1>4. res' = Append(res, [snd |-> ldr.snd, ok |-> ldr.ok]) /\ heap' = heap
  BY <1>2 DEF LoaderPush
<1>5. /\ res' \in Seq(ResRec) /\ Len(res') = Len(res) + 1 /\ \A k \in 1 .. Len(res) : res'[k] = res[k]
      /\ res'[Len(res) + 1] = [snd |-> ldr.snd, ok |-> ldr.ok]
  BY <1>1, <1>3, <1>4, AppendOf
<1>6. ldr.pc = "push" /\ ldr' \in LdrRec /\ ldr'.pc = "top"
  BY <1>1, Handles DEF LoaderPush, LdrRec, LoaderStates
<1> QED BY <1>3, <1>4, <1>5, <1>6 DEF LoaderPush, cacheVars, sourceVars, audioVars

-----------------------------------------------------------------------------
(* Every action keeps the types. *)

LEMMA BeginPumpType ==
    ASSUME TypeOK, BeginPump
    PROVE  TypeOK'
<1>1. CtlOK'
  BY TypeParts, Handles DEF BeginPump, CtlOK, CtlRec, Idle, ControlStates
<1>2. CacheOK' /\ SlotsOK' /\ LoadOK' /\ RingOK' /\ VoiceOK' /\ WantOK'
  BY SameParts DEF BeginPump, cacheVars, sourceVars, loadVars, audioVars
<1> QED BY <1>1, <1>2, TypePartsPrime

LEMMA PumpTakeType ==
    ASSUME TypeOK, Entries, PumpTake
    PROVE  TypeOK'
<1>1. CacheOK' /\ SlotsOK' /\ CtlOK' /\ LoadOK'
  BY PumpTakeDoes, TypeParts DEF CacheOK, SlotsOK, CtlOK, LoadOK
<1>2. RingOK' /\ VoiceOK' /\ WantOK'
  BY PumpTakeDoes, SameParts
<1> QED BY <1>1, <1>2, TypePartsPrime

LEMMA FireType ==
    ASSUME TypeOK, NEW p \in held, Fire(p)
    PROVE  TypeOK'
<1>1. SlotsOK'
  BY TypeParts DEF Fire, SlotsOK
<1>2. CtlOK'
  <2>1. p.src \in Handle /\ ctl \in CtlRec
    BY TypeParts DEF SlotsOK, HeldRec, CtlOK
  <2>2. ctl' = ctl \/ ctl' = [ctl EXCEPT !.pc = "seek", !.try = {p.src}]
    BY Zenon DEF Fire
  <2>3. [ctl EXCEPT !.pc = "seek", !.try = {p.src}] \in CtlRec
    BY <2>1 DEF CtlRec, ControlStates
  <2> QED BY <2>1, <2>2, <2>3 DEF CtlOK
<1>3. RingOK'
  <2>1. p.src \in Handle /\ p.snd \in Handle
    BY TypeParts DEF SlotsOK, HeldRec
  <2>2. C("PLAY", p.src, p.snd) \in Command
    BY <2>1, CommandIs DEF CommandNames
  <2>3. UNCHANGED cmd \/ Push(C("PLAY", p.src, p.snd))
    BY Zenon DEF Fire
  <2>4. UNCHANGED <<ack, batch>>
    BY Zenon DEF Fire, audioVars
  <2>5. CASE UNCHANGED cmd
    BY <2>4, <2>5, SameParts
  <2> QED BY <2>2, <2>3, <2>4, <2>5, PushType
<1>4. WantOK'
  <2>1. UNCHANGED want \/ want' = Asked(p.src, WantOf(p.src), CmdRoom(1))
    BY Zenon DEF Fire
  <2>2. Live(p.src) => WantOf(p.src) \in WantRec
    BY WantOfType DEF Live
  <2>3. Asked(p.src, WantOf(p.src), CmdRoom(1)) \in [Voice -> WantRec]
    BY <2>2, AskedType
  <2> QED BY <2>1, <2>3, SameParts DEF WantOK
<1>5. CacheOK' /\ LoadOK' /\ VoiceOK'
  BY SameParts DEF Fire, cacheVars, sourceVars, loadVars, audioVars
<1> QED BY <1>1, <1>2, <1>3, <1>4, <1>5, TypePartsPrime

LEMMA FireSeekType ==
    ASSUME TypeOK, FireSeek
    PROVE  TypeOK'
<1>1. CtlOK'
  BY TypeParts, Handles DEF FireSeek, CtlOK, CtlRec, Idle, ControlStates
<1>2. RingOK'
  <2>1. PICK src \in ctl.try : Push(C("SEEK", src, None))
    BY DEF FireSeek
  <2>2. src \in Handle
    BY TypeParts DEF CtlOK, CtlRec
  <2>3. C("SEEK", src, None) \in Command
    BY <2>2, Handles, CommandIs DEF CommandNames
  <2> QED BY <2>1, <2>3, PushType DEF FireSeek, audioVars
<1>3. WantOK'
  <2>1. PICK src \in ctl.try : want' = Asked(src, WantOf(src), CmdRoom(1))
    BY DEF FireSeek
  <2>2. Live(src) => WantOf(src) \in WantRec
    BY WantOfType DEF Live
  <2> QED BY <2>1, <2>2, AskedType DEF WantOK
<1>4. CacheOK' /\ SlotsOK' /\ LoadOK' /\ VoiceOK'
  BY SameParts DEF FireSeek, cacheVars, sourceVars, loadVars, audioVars
<1> QED BY <1>1, <1>2, <1>3, <1>4, TypePartsPrime

LEMMA FireEndType ==
    ASSUME TypeOK, FireEnd
    PROVE  TypeOK'
<1>1. CtlOK'
  BY TypeParts, Handles DEF FireEnd, CtlOK, CtlRec, Idle, ControlStates
<1>2. CacheOK' /\ SlotsOK' /\ LoadOK' /\ RingOK' /\ VoiceOK' /\ WantOK'
  BY SameParts DEF FireEnd, cacheVars, sourceVars, loadVars, audioVars
<1> QED BY <1>1, <1>2, TypePartsPrime

LEMMA PumpEndType ==
    ASSUME TypeOK, PumpEnd
    PROVE  TypeOK'
<1>1. CtlOK'
  BY TypeParts, Handles DEF PumpEnd, CtlOK, CtlRec, Idle, ControlStates, CacheOK
<1>2. CacheOK' /\ SlotsOK' /\ LoadOK' /\ RingOK' /\ VoiceOK' /\ WantOK'
  BY SameParts DEF PumpEnd, cacheVars, sourceVars, loadVars, audioVars
<1> QED BY <1>1, <1>2, TypePartsPrime

LEMMA RetryParkType ==
    ASSUME TypeOK, Parks, NEW h \in ctl.try, RetryPark(h)
    PROVE  TypeOK'
<1>1. CacheOK' /\ SlotsOK' /\ CtlOK'
  BY RetryParkDoes, TypeParts DEF CacheOK, SlotsOK, CtlOK
<1>2. LoadOK' /\ VoiceOK' /\ WantOK'
  BY RetryParkDoes, SameParts DEF loadVars
<1>3. RingOK'
  BY RetryParkDoes, PushType
<1> QED BY <1>1, <1>2, <1>3, TypePartsPrime

LEMMA ParkEndType ==
    ASSUME TypeOK, ParkEnd
    PROVE  TypeOK'
<1>1. CtlOK'
  BY TypeParts, Handles DEF ParkEnd, CtlOK, CtlRec, Idle, ControlStates
<1>2. CacheOK' /\ SlotsOK' /\ LoadOK' /\ RingOK' /\ VoiceOK' /\ WantOK'
  BY SameParts DEF ParkEnd, cacheVars, sourceVars, loadVars, audioVars
<1> QED BY <1>1, <1>2, TypePartsPrime

LEMMA ReturnType ==
    ASSUME TypeOK, Return
    PROVE  TypeOK'
<1>1. CtlOK'
  BY TypeParts, Handles DEF Return, CtlOK, CtlRec, Idle, ControlStates
<1>2. CacheOK' /\ SlotsOK' /\ LoadOK' /\ RingOK' /\ VoiceOK' /\ WantOK'
  BY SameParts DEF Return, cacheVars, sourceVars, loadVars, audioVars
<1> QED BY <1>1, <1>2, TypePartsPrime

LEMMA AcquireSignalType ==
    ASSUME TypeOK, AcquireSignal
    PROVE  TypeOK'
<1>1. CtlOK'
  BY TypeParts, Handles DEF AcquireSignal, CtlOK, CtlRec, Idle, ControlStates
<1>2. LoadOK'
  BY TypeParts DEF AcquireSignal, LoadOK
<1>3. CacheOK' /\ SlotsOK' /\ RingOK' /\ VoiceOK' /\ WantOK'
  BY SameParts DEF AcquireSignal, cacheVars, sourceVars, loadVars, audioVars
<1> QED BY <1>1, <1>2, <1>3, TypePartsPrime

LEMMA CommitType ==
    ASSUME TypeOK, Commit
    PROVE  TypeOK'
<1>1. CtlOK'
  <2>1. ctl \in CtlRec /\ Len(ack) \in Int
    BY TypeParts DEF CtlOK, RingOK
  <2>2. Idle \in CtlRec
    BY Handles DEF Idle, CtlRec, ControlStates
  <2>3. [ctl EXCEPT !.pc = "events", !.left = Len(ack)] \in CtlRec
    BY <2>1 DEF CtlRec, ControlStates
  <2> QED BY <2>2, <2>3 DEF Commit, CtlOK
<1>2. RingOK'
  <2>1. C("COMMIT", None, None) \in Command
    BY Handles, CommandIs DEF CommandNames
  <2> QED BY <2>1, PushType DEF Commit, audioVars
<1>3. CacheOK' /\ SlotsOK' /\ LoadOK' /\ VoiceOK' /\ WantOK'
  BY SameParts DEF Commit, cacheVars, sourceVars, loadVars, audioVars
<1> QED BY <1>1, <1>2, <1>3, TypePartsPrime

LEMMA TakeAckType ==
    ASSUME TypeOK, Retires, TakeAck
    PROVE  TypeOK'
<1>1. CtlOK' /\ RingOK'
  BY TakeAckDoes, TypeParts DEF CtlOK, RingOK
<1>2. SlotsOK'
  <2>1. sfree' \in Seq(Sound)
    <3>1. sfree \in Seq(Sound) /\ ack[1].idx \in Sound
      BY TakeAckDoes, TypeParts DEF SlotsOK
    <3>2. Append(sfree, ack[1].idx) \in Seq(Sound)
      BY <3>1, AppendOf
    <3> QED BY <3>2, TakeAckDoes
  <2> QED BY <2>1, TakeAckDoes, TypeParts DEF SlotsOK
<1>3. CacheOK' /\ LoadOK' /\ VoiceOK' /\ WantOK'
  BY TakeAckDoes, SameParts DEF cacheVars, loadVars
<1> QED BY <1>1, <1>2, <1>3, TypePartsPrime

LEMMA ShutdownSignalType ==
    ASSUME TypeOK, ShutdownSignal
    PROVE  TypeOK'
<1>1. CtlOK'
  BY TypeParts, Handles DEF ShutdownSignal, CtlOK, CtlRec, Idle, ControlStates
<1>2. LoadOK'
  BY TypeParts DEF ShutdownSignal, LoadOK
<1>3. CacheOK' /\ SlotsOK' /\ RingOK' /\ VoiceOK' /\ WantOK'
  BY SameParts DEF ShutdownSignal, cacheVars, sourceVars, loadVars, audioVars
<1> QED BY <1>1, <1>2, <1>3, TypePartsPrime

LEMMA ShutdownJoinType ==
    ASSUME TypeOK, ShutdownJoin
    PROVE  TypeOK'
<1>1. SlotsOK'
  <2>1. snd \in [Sound -> SndRec] /\ "free" \in SoundStates
    BY TypeParts DEF SlotsOK, SoundStates
  <2>2. snd' \in [Sound -> SndRec]
    BY <2>1 DEF ShutdownJoin, SndRec
  <2> QED BY <2>2, TypeParts DEF ShutdownJoin, SlotsOK, sourceVars
<1>2. CtlOK'
  BY TypeParts, Handles DEF ShutdownJoin, CtlOK, CtlRec, Idle, ControlStates
<1>3. LoadOK'
  BY TypeParts DEF ShutdownJoin, LoadOK
<1>4. CacheOK' /\ RingOK' /\ VoiceOK' /\ WantOK'
  BY SameParts DEF ShutdownJoin, cacheVars, sourceVars, loadVars, audioVars
<1> QED BY <1>1, <1>2, <1>3, <1>4, TypePartsPrime

LEMMA AcquireHitType ==
    ASSUME TypeOK, NEW f \in File, AcquireHit(f)
    PROVE  TypeOK'
<1>1. CtlOK'
  BY TypeParts, Handles DEF AcquireHit, CtlOK, CtlRec, Idle, ControlStates
<1>2. CacheOK'
  BY TypeParts DEF AcquireHit, CacheOK, EntryRec
<1>3. SlotsOK' /\ LoadOK' /\ RingOK' /\ VoiceOK' /\ WantOK'
  BY SameParts DEF AcquireHit, cacheVars, sourceVars, loadVars, audioVars
<1> QED BY <1>1, <1>2, <1>3, TypePartsPrime

LEMMA AcquireAsyncType ==
    ASSUME TypeOK, NEW f \in File, AcquireAsync(f)
    PROVE  TypeOK'
<1>1. SlotsOK' /\ CtlOK' /\ LoadOK'
  BY AcquireAsyncDoes, NextIs, TypeParts DEF SlotsOK, CtlOK, LoadOK
<1>2. CacheOK'
  BY AcquireAsyncDoes, TypeParts DEF CacheOK
<1>3. RingOK' /\ VoiceOK' /\ WantOK'
  BY AcquireAsyncDoes, SameParts
<1> QED BY <1>1, <1>2, <1>3, TypePartsPrime

LEMMA AcquireNowType ==
    ASSUME TypeOK, NEW f \in File, AcquireNow(f)
    PROVE  TypeOK'
<1>1. CacheOK' /\ SlotsOK' /\ CtlOK'
  BY AcquireNowDoes, NextIs, TypeParts DEF CacheOK, SlotsOK, CtlOK
<1>2. LoadOK' /\ RingOK' /\ VoiceOK' /\ WantOK'
  BY AcquireNowDoes, SameParts DEF loadVars
<1> QED BY <1>1, <1>2, TypePartsPrime

LEMMA ReleaseType ==
    ASSUME TypeOK, Entries, NEW f \in File, Release(f)
    PROVE  TypeOK'
<1>1. CacheOK' /\ CtlOK'
  BY ReleaseDoes, TypeParts DEF CacheOK, CtlOK
<1>2. SlotsOK'
  <2>1. entry[f].snd.idx \in Sound /\ sfree \in Seq(Sound)
    BY ReleaseDoes, TypeParts DEF SlotsOK
  <2>2. Append(sfree, entry[f].snd.idx) \in Seq(Sound)
    BY <2>1, AppendOf
  <2>3. sfree' \in Seq(Sound)
    BY <2>1, <2>2, ReleaseDoes
  <2> QED BY <2>3, ReleaseDoes, TypeParts DEF SlotsOK
<1>3. LoadOK' /\ VoiceOK' /\ WantOK'
  BY ReleaseDoes, SameParts DEF loadVars
<1>4. RingOK'
  <2>1. UNCHANGED <<ack, batch>>
    BY ReleaseDoes
  <2>2. CASE UNCHANGED cmd
    BY <2>1, <2>2, SameParts
  <2>3. CASE Push(C("RETIRE", None, entry[f].snd)) /\ C("RETIRE", None, entry[f].snd) \in Command
    BY <2>1, <2>3, PushType
  <2> QED BY <2>2, <2>3, ReleaseDoes
<1> QED BY <1>1, <1>2, <1>3, <1>4, TypePartsPrime

LEMMA CreateSourceType ==
    ASSUME TypeOK, NEW i \in Voice, CreateSource(i)
    PROVE  TypeOK'
<1>1. SlotsOK'
  <2>1. slot \in [Voice -> SlotRec] /\ CmdRoom(1) \in BOOLEAN
    BY TypeParts DEF SlotsOK, CmdRoom
  <2>2. [gen |-> slot[i].gen + 1, inuse |-> CmdRoom(1)] \in SlotRec
    BY <2>1 DEF SlotRec
  <2> QED BY <2>1, <2>2, TypeParts DEF CreateSource, SlotsOK
<1>2. RingOK'
  <2>1. i \in Nat /\ slot[i].gen + 1 \in Nat
    BY TypeParts, Sizes DEF SlotsOK, SlotRec, Voice
  <2>2. H(i, slot[i].gen + 1) \in Handle
    BY <2>1, Handles
  <2>3. C("CREATE", H(i, slot[i].gen + 1), None) \in Command
    BY <2>2, Handles, CommandIs DEF CommandNames
  <2> QED BY <2>3, PushType DEF CreateSource, audioVars
<1>3. WantOK'
  BY TypeParts, Handles DEF CreateSource, WantOK, WantRec, Nothing
<1>4. CacheOK' /\ CtlOK' /\ LoadOK' /\ VoiceOK'
  BY SameParts DEF CreateSource, cacheVars, sourceVars, loadVars, audioVars
<1> QED BY <1>1, <1>2, <1>3, <1>4, TypePartsPrime

LEMMA DestroySourceType ==
    ASSUME TypeOK, NEW h \in Sources, DestroySource(h)
    PROVE  TypeOK'
<1>1. SlotsOK'
  <2>1. slot \in [Voice -> SlotRec]
    BY TypeParts DEF SlotsOK
  <2>2. slot' \in [Voice -> SlotRec]
    BY <2>1 DEF DestroySource, SlotRec
  <2> QED BY <2>2, TypeParts DEF DestroySource, SlotsOK
<1>2. RingOK'
  <2>1. C("DESTROY", h, None) \in Command
    BY Handles, CommandIs, SourceIs DEF CommandNames
  <2>2. CASE Push(C("DESTROY", h, None))
    BY <2>1, <2>2, PushType DEF DestroySource, audioVars
  <2>3. CASE UNCHANGED cmd
    BY <2>3, TypeParts DEF DestroySource, audioVars, RingOK
  <2> QED BY <2>2, <2>3 DEF DestroySource
<1>3. CacheOK' /\ CtlOK' /\ LoadOK' /\ VoiceOK' /\ WantOK'
  BY SameParts DEF DestroySource, cacheVars, sourceVars, loadVars, audioVars
<1> QED BY <1>1, <1>2, <1>3, TypePartsPrime

LEMMA SeekType ==
    ASSUME TypeOK, NEW h \in Sources, Seek(h)
    PROVE  TypeOK'
<1>1. SlotsOK'
  <2>1. held \subseteq HeldRec
    BY TypeParts DEF SlotsOK
  <2>2. {[p EXCEPT !.seek = TRUE] : p \in HeldFor(h)} \subseteq HeldRec
    BY <2>1 DEF HeldFor, HeldRec
  <2>3. held' \subseteq HeldRec
    BY <2>1, <2>2 DEF Seek, HeldButSrc
  <2> QED BY <2>3, TypeParts DEF Seek, SlotsOK
<1>2. RingOK'
  <2>1. C("SEEK", h, None) \in Command
    BY Handles, CommandIs, SourceIs DEF CommandNames
  <2>2. CASE Push(C("SEEK", h, None))
    BY <2>1, <2>2, PushType DEF Seek, audioVars
  <2>3. CASE UNCHANGED cmd
    BY <2>3, TypeParts DEF Seek, audioVars, RingOK
  <2> QED BY <2>2, <2>3 DEF Seek
<1>3. WantOK'
  <2>1. [WantOf(h) EXCEPT !.seek = WantOf(h).seek \/ WantOf(h).on] \in WantRec
    <3>1. WantOf(h) \in WantRec
      BY SourceIs, WantOfType
    <3>2. WantOf(h).seek \/ WantOf(h).on \in BOOLEAN
      BY <3>1, Zenon DEF WantRec
    <3>3. \A b \in BOOLEAN : [WantOf(h) EXCEPT !.seek = b] \in WantRec
      BY <3>1 DEF WantRec
    <3> QED BY <3>2, <3>3
  <2>2. \A d : Asked(h, [WantOf(h) EXCEPT !.seek = WantOf(h).seek \/ WantOf(h).on], d) \in [Voice -> WantRec]
    BY <2>1, AskedType
  <2>3. \E d : want' = Asked(h, [WantOf(h) EXCEPT !.seek = WantOf(h).seek \/ WantOf(h).on], d)
    BY Zenon DEF Seek
  <2> QED BY <2>2, <2>3, Zenon DEF WantOK
<1>4. CacheOK' /\ CtlOK' /\ LoadOK' /\ VoiceOK'
  BY SameParts DEF Seek, cacheVars, sourceVars, loadVars, audioVars
<1> QED BY <1>1, <1>2, <1>3, <1>4, TypePartsPrime

LEMMA StopType ==
    ASSUME TypeOK, NEW h \in Sources, Stop(h)
    PROVE  TypeOK'
<1>1. SlotsOK'
  BY TypeParts DEF Stop, SlotsOK, HeldButSrc
<1>2. RingOK'
  <2>1. C("STOP", h, None) \in Command
    BY Handles, CommandIs, SourceIs DEF CommandNames
  <2>2. CASE Push(C("STOP", h, None))
    BY <2>1, <2>2, PushType DEF Stop, audioVars
  <2>3. CASE UNCHANGED cmd
    BY <2>3, TypeParts DEF Stop, audioVars, RingOK
  <2> QED BY <2>2, <2>3 DEF Stop
<1>3. WantOK'
  <2>1. [Nothing EXCEPT !.all = WantOf(h).all] \in WantRec
    BY Handles, SourceIs, WantOfType DEF Nothing, WantRec
  <2> QED BY <2>1, AskedType DEF Stop, WantOK
<1>4. CacheOK' /\ CtlOK' /\ LoadOK' /\ VoiceOK'
  BY SameParts DEF Stop, cacheVars, sourceVars, loadVars, audioVars
<1> QED BY <1>1, <1>2, <1>3, <1>4, TypePartsPrime

LEMMA StopAtType ==
    ASSUME TypeOK, NEW h \in Sources, StopAt(h)
    PROVE  TypeOK'
<1>1. RingOK'
  <2>1. C("STOP_AT", h, None) \in Command
    BY Handles, CommandIs, SourceIs DEF CommandNames
  <2>2. CASE Push(C("STOP_AT", h, None))
    BY <2>1, <2>2, PushType DEF StopAt, audioVars
  <2>3. CASE UNCHANGED cmd
    BY <2>3, TypeParts DEF StopAt, audioVars, RingOK
  <2> QED BY <2>2, <2>3 DEF StopAt
<1>2. WantOK'
  <2>1. [WantOf(h) EXCEPT !.stopAt = WantOf(h).stopAt \/ (WantOf(h).on /\ HeldFor(h) = {})] \in WantRec
    <3>1. WantOf(h) \in WantRec
      BY SourceIs, WantOfType
    <3>2. (WantOf(h).stopAt \/ (WantOf(h).on /\ HeldFor(h) = {})) \in BOOLEAN
      BY <3>1, Zenon DEF WantRec
    <3>3. \A b \in BOOLEAN : [WantOf(h) EXCEPT !.stopAt = b] \in WantRec
      BY <3>1 DEF WantRec
    <3> QED BY <3>2, <3>3
  <2>2. \A d : Asked(h, [WantOf(h) EXCEPT !.stopAt = WantOf(h).stopAt \/ (WantOf(h).on /\ HeldFor(h) = {})], d) \in [Voice -> WantRec]
    BY <2>1, AskedType
  <2>3. \E d : want' = Asked(h, [WantOf(h) EXCEPT !.stopAt = WantOf(h).stopAt \/ (WantOf(h).on /\ HeldFor(h) = {})], d)
    BY Zenon DEF StopAt
  <2> QED BY <2>2, <2>3, Zenon DEF WantOK
<1>3. CacheOK' /\ SlotsOK' /\ CtlOK' /\ LoadOK' /\ VoiceOK'
  BY SameParts DEF StopAt, cacheVars, sourceVars, loadVars, audioVars
<1> QED BY <1>1, <1>2, <1>3, TypePartsPrime

LEMMA PlayType ==
    ASSUME TypeOK, NEW h \in Sources, NEW s \in Sounds, Play(h, s)
    PROVE  TypeOK'
<1>1. SlotsOK'
  <2>1. held \subseteq HeldRec
    BY TypeParts DEF SlotsOK
  <2>2. [src |-> h, snd |-> s, seek |-> FALSE] \in HeldRec
    BY SourceIs, SoundIs DEF HeldRec
  <2>3. held' \subseteq HeldRec
    BY <2>1, <2>2 DEF Play, HeldButSrc
  <2> QED BY <2>3, TypeParts DEF Play, SlotsOK
<1>2. RingOK'
  <2>1. C("PLAY", h, s) \in Command
    BY Handles, CommandIs, SourceIs, SoundIs DEF CommandNames
  <2>2. CASE Push(C("PLAY", h, s))
    BY <2>1, <2>2, PushType DEF Play, audioVars
  <2>3. CASE UNCHANGED cmd
    BY <2>3, TypeParts DEF Play, audioVars, RingOK
  <2> QED BY <2>2, <2>3 DEF Play
<1>3. WantOK'
  <2>1. [Nothing EXCEPT !.snd = s, !.on = TRUE] \in WantRec
    BY Handles, SoundIs DEF Nothing, WantRec
  <2> QED BY <2>1, AskedType DEF Play, WantOK
<1>4. CacheOK' /\ CtlOK' /\ LoadOK' /\ VoiceOK'
  BY SameParts DEF Play, cacheVars, sourceVars, loadVars, audioVars
<1> QED BY <1>1, <1>2, <1>3, <1>4, TypePartsPrime

LEMMA StopAllType ==
    ASSUME TypeOK, StopAll
    PROVE  TypeOK'
<1>1. SlotsOK'
  BY TypeParts DEF StopAll, SlotsOK, Swept
<1>2. RingOK'
  <2>1. C("STOP_ALL", None, None) \in Command
    BY Handles, CommandIs DEF CommandNames
  <2>2. CASE Push(C("STOP_ALL", None, None))
    BY <2>1, <2>2, PushType DEF StopAll, audioVars
  <2>3. CASE UNCHANGED cmd
    BY <2>3, TypeParts DEF StopAll, audioVars, RingOK
  <2> QED BY <2>2, <2>3 DEF StopAll
<1>3. WantOK'
  BY TypeParts, Handles DEF StopAll, WantOK, WantRec, Nothing, Lost
<1>4. CacheOK' /\ CtlOK' /\ LoadOK' /\ VoiceOK'
  BY SameParts DEF StopAll, cacheVars, sourceVars, loadVars, audioVars
<1> QED BY <1>1, <1>2, <1>3, <1>4, TypePartsPrime

LEMMA ShutdownType ==
    ASSUME TypeOK, Shutdown
    PROVE  TypeOK'
<1>1. CtlOK'
  BY TypeParts, Handles DEF Shutdown, CtlOK, CtlRec, Idle, ControlStates, Call
<1>2. LoadOK'
  BY TypeParts DEF Shutdown, LoadOK, loadVars
<1>3. CacheOK' /\ SlotsOK' /\ RingOK' /\ VoiceOK' /\ WantOK'
  BY SameParts DEF Shutdown, cacheVars, sourceVars, loadVars, audioVars
<1> QED BY <1>1, <1>2, <1>3, TypePartsPrime

LEMMA LoaderTopType ==
    ASSUME TypeOK, LoaderTop
    PROVE  TypeOK'
<1>1. LoadOK'
  <2>1. ldr' = [ldr EXCEPT !.pc = "exit"] \/ ldr' = [ldr EXCEPT !.pc = "pop"]
    BY Zenon DEF LoaderTop, Ldr
  <2>2. ldr' \in LdrRec
    BY <2>1, TypeParts DEF LoadOK, LdrRec, LoaderStates
  <2> QED BY <2>2, TypeParts DEF LoaderTop, LoadOK
<1>2. CacheOK' /\ SlotsOK' /\ CtlOK' /\ RingOK' /\ VoiceOK' /\ WantOK'
  BY SameParts DEF LoaderTop, cacheVars, sourceVars, loadVars, audioVars
<1> QED BY <1>1, <1>2, TypePartsPrime

LEMMA LoaderPopType ==
    ASSUME TypeOK, LoaderPop
    PROVE  TypeOK'
<1>1. LoadOK'
  BY TypeParts, LoaderPopDoes DEF LoadOK, LoaderPop, EventAtWait
<1>2. CacheOK' /\ SlotsOK' /\ CtlOK' /\ RingOK' /\ VoiceOK' /\ WantOK'
  BY LoaderPopDoes, SameParts DEF cacheVars
<1> QED BY <1>1, <1>2, TypePartsPrime

LEMMA LoaderWakeType ==
    ASSUME TypeOK, LoaderWake
    PROVE  TypeOK'
<1>1. LoadOK'
  BY TypeParts, Handles, CacheAssumption DEF LoaderWake, LoadOK, LdrRec, Ldr, LoaderStates
<1>2. CacheOK' /\ SlotsOK' /\ CtlOK' /\ RingOK' /\ VoiceOK' /\ WantOK'
  BY SameParts DEF LoaderWake, cacheVars, sourceVars, loadVars, audioVars
<1> QED BY <1>1, <1>2, TypePartsPrime

LEMMA LoaderDecodeType ==
    ASSUME TypeOK, LoaderDecode
    PROVE  TypeOK'
<1>1. LoadOK' /\ SlotsOK'
  BY TypeParts, LoaderDecodeDoes DEF LoadOK, SlotsOK
<1>2. CacheOK' /\ CtlOK' /\ RingOK' /\ VoiceOK' /\ WantOK'
  BY LoaderDecodeDoes, SameParts DEF cacheVars
<1> QED BY <1>1, <1>2, TypePartsPrime

LEMMA LoaderPushType ==
    ASSUME TypeOK, Counted, LoaderPush
    PROVE  TypeOK'
<1>1. LoadOK'
  BY TypeParts, LoaderPushDoes DEF LoadOK
<1>2. CacheOK' /\ SlotsOK' /\ CtlOK' /\ RingOK' /\ VoiceOK' /\ WantOK'
  BY LoaderPushDoes, SameParts DEF cacheVars
<1> QED BY <1>1, <1>2, TypePartsPrime

LEMMA DrainCommandType ==
    ASSUME TypeOK, DrainCommand
    PROVE  TypeOK'
<1>1. VoiceOK' /\ RingOK'
  BY DrainCommandDoes, HandledIs, TypeParts DEF VoiceOK, RingOK
<1>2. CacheOK' /\ SlotsOK' /\ CtlOK' /\ LoadOK' /\ WantOK'
  BY DrainCommandDoes, SameParts DEF cacheVars, loadVars
<1> QED BY <1>1, <1>2, TypePartsPrime

LEMMA DrainEndType ==
    ASSUME TypeOK, DrainEnd
    PROVE  TypeOK'
<1>1. RingOK'
  BY DrainEndDoes, TypeParts DEF RingOK, NoBatch
<1>2. CacheOK' /\ SlotsOK' /\ CtlOK' /\ LoadOK' /\ VoiceOK' /\ WantOK'
  BY DrainEndDoes, SameParts DEF cacheVars, loadVars
<1> QED BY <1>1, <1>2, TypePartsPrime

-----------------------------------------------------------------------------
(* The actions that give no sound away. *)

\* A conjunct whose variables a step leaves alone stays true.
LEMMA Alone ==
    /\ FreeList /\ UNCHANGED <<snd, sfree>> => FreeList'
    /\ Entries /\ UNCHANGED <<entry, snd>> => Entries'
    /\ Retires /\ UNCHANGED <<snd, batch, cmd, ack, ctl>> => Retires'
    /\ Kept /\ UNCHANGED <<snd, entry, park, batch, cmd, ack>> => Kept'
    /\ Loads /\ UNCHANGED <<snd, jobs, res, ldr>> => Loads'
    /\ Counted /\ UNCHANGED <<jobs, res, ldr, inflight>> => Counted'
    /\ Awaited /\ UNCHANGED <<entry, jobs, res, ldr>> => Awaited'
    /\ Buffers /\ UNCHANGED <<heap, snd, res, ldr>> => Buffers'
    /\ HeldUnsent /\ UNCHANGED <<held, snd, ctl>> => HeldUnsent'
    /\ Named /\ UNCHANGED <<cmd, snd, batch, voice>> => Named'
    /\ Parks /\ UNCHANGED <<park, entry, snd, ctl>> => Parks'
<1>1. FreeList /\ UNCHANGED <<snd, sfree>> => FreeList'
  BY DEF FreeList
<1>2. Entries /\ UNCHANGED <<entry, snd>> => Entries'
  BY DEF Entries, Is
<1>3. Retires /\ UNCHANGED <<snd, batch, cmd, ack, ctl>> => Retires'
  BY DEF Retires, Is, Waiting
<1>4. Kept /\ UNCHANGED <<snd, entry, park, batch, cmd, ack>> => Kept'
  BY DEF Kept, Is, Waiting
<1>5. Loads /\ UNCHANGED <<snd, jobs, res, ldr>> => Loads'
  BY DEF Loads, Unborn, Given, Is, InLoader
<1>6. Counted /\ UNCHANGED <<jobs, res, ldr, inflight>> => Counted'
  BY DEF Counted, LoaderBusy
<1>7. Awaited /\ UNCHANGED <<entry, jobs, res, ldr>> => Awaited'
  BY DEF Awaited, InLoader
<1>8. Buffers /\ UNCHANGED <<heap, snd, res, ldr>> => Buffers'
  BY DEF Buffers, Is
<1>9. HeldUnsent /\ UNCHANGED <<held, snd, ctl>> => HeldUnsent'
  BY DEF HeldUnsent, Is
<1>10. Named /\ UNCHANGED <<cmd, snd, batch, voice>> => Named'
  BY DEF Named, Visible, RetireAfter, Given, Is, Waiting
<1>11. Parks /\ UNCHANGED <<park, entry, snd, ctl>> => Parks'
  BY DEF Parks, Is
<1> QED BY <1>1, <1>2, <1>3, <1>4, <1>5, <1>6, <1>7, <1>8, <1>9, <1>10, <1>11

\* A step that gives no sound away and sends at most plays of sounds that are loaded keeps the

\* invariant, if it keeps the held plays and the place in the call.
LEMMA QuietKeeps ==
    ASSUME TypeOK, TypeOK', Running, HeldUnsent',
           UNCHANGED <<inflight, park, snd, sfree, jobs, res, ack, batch, voice, heap>>,
           \A f \in File : entry'[f].snd = entry[f].snd /\ entry'[f].st = entry[f].st,
           ldr'.snd = ldr.snd /\ ldr'.ok = ldr.ok,
           ldr'.pc = "push" <=> ldr.pc = "push", ldr'.pc = "decode" <=> ldr.pc = "decode",
           Len(cmd') >= Len(cmd), \A k \in 1 .. Len(cmd) : cmd'[k] = cmd[k],
           \A k \in 1 .. Len(cmd') : k > Len(cmd) => cmd'[k].t # "RETIRE" /\ (cmd'[k].t = "PLAY" => Is(cmd'[k].s, "live")),
           ctl'.pc = "park" => ctl'.try \subseteq park,
           ctl'.pc = "events" => ctl'.left \in 1 .. Len(ack)
    PROVE  Running'
<1>1. /\ FreeList /\ Entries /\ Parks /\ Retires /\ Kept
      /\ Loads /\ Counted /\ Awaited /\ Buffers /\ HeldUnsent /\ Named
  BY DEF Running
<1>2. /\ DOMAIN cmd = 1 .. Len(cmd) /\ Len(cmd) \in Nat /\ DOMAIN cmd' = 1 .. Len(cmd') /\ Len(cmd') \in Nat
      /\ DOMAIN ack = 1 .. Len(ack) /\ Len(ack) \in Nat /\ batch.done \in Nat
  BY SeqDomain, SeqDomainPrime
<1>3. /\ \A k \in Waiting : k \in Waiting' /\ cmd'[k] = cmd[k]
      /\ \A k \in Waiting' : cmd'[k].t = "RETIRE" => k \in Waiting
      /\ \A k \in Waiting' : k \in Waiting \/ k > Len(cmd)
  BY <1>2 DEF Waiting
<1>4. FreeList'
  BY <1>1, Alone
<1>5. Entries'
  BY <1>1 DEF Entries, Is
<1>6. Parks'
  BY <1>1 DEF Parks, Is
<1>7. Retires'
  <2>1. \A k \in Waiting' : cmd'[k].t = "RETIRE" => k \in Waiting /\ cmd'[k] = cmd[k]
    BY <1>3
  <2>2. ctl'.pc = "events" => 1 <= ctl'.left /\ ctl'.left <= Len(ack)
    BY <1>2
  <2> QED BY <1>1, <2>1, <2>2 DEF Retires, Is
<1>8. Kept'
  BY <1>1, <1>3 DEF Kept, Is
<1>9. Loads'
  BY <1>1 DEF Loads, Unborn, Given, Is, InLoader
<1>10. Counted'
  BY <1>1 DEF Counted, LoaderBusy
<1>11. Awaited'
  BY <1>1 DEF Awaited, InLoader
<1>12. Buffers'
  BY <1>1 DEF Buffers, Is
<1>13. Named'
  <2>1. \A k \in DOMAIN cmd' : cmd'[k].t \in {"PLAY", "RETIRE"} =>
            Given(cmd[k].s)' /\ ~Is(cmd[k].s, "pending")'
    <3> SUFFICES ASSUME NEW k \in 1 .. Len(cmd'), cmd'[k].t \in {"PLAY", "RETIRE"}
                 PROVE  Given(cmd[k].s)' /\ ~Is(cmd[k].s, "pending")'
      BY <1>2
    <3>1. CASE k \in 1 .. Len(cmd)
      <4>1. cmd'[k] = cmd[k] /\ k \in DOMAIN cmd
        BY <1>2, <3>1
      <4> QED BY <1>1, <4>1 DEF Named, Given, Is
    <3>2. CASE k > Len(cmd)
      <4>1. Is(cmd'[k].s, "live")
        BY <3>2
      <4>2. cmd'[k].s.idx \in Sound /\ snd[cmd'[k].s.idx].gen \in Nat
        BY <4>1, TypeParts DEF Is, SlotsOK, SndRec
      <4> QED BY <4>1, <4>2 DEF Given, Is
    <3> QED BY <1>2, <3>1, <3>2
  <2>2. ASSUME NEW k \in Nat, NEW h, Visible(k, h)
        PROVE  Visible(k, h)'
    BY <1>3, <2>2 DEF Visible, RetireAfter, Is
  <2>3. ASSUME NEW k \in Waiting', cmd'[k].t = "PLAY"
        PROVE  Visible(k, cmd[k].s)'
    <3>1. CASE k \in Waiting
      <4>1. Visible(k, cmd[k].s) /\ cmd'[k] = cmd[k] /\ k \in Nat
        BY <1>1, <1>2, <1>3, <2>3, <3>1 DEF Named, Waiting
      <4> QED BY <2>2, <4>1
    <3>2. CASE k > Len(cmd)
      <4>1. Is(cmd'[k].s, "live")
        BY <1>2, <2>3, <3>2 DEF Waiting
      <4> QED BY <4>1 DEF Visible, Is
    <3> QED BY <1>3, <3>1, <3>2
  <2>4. \A i \in Voice : voice'[i].snd # None => Visible(batch.done, voice[i].snd)'
    BY <1>1, <1>2, <2>2 DEF Named
  <2> QED BY <2>1, <2>3, <2>4 DEF Named
<1> QED BY <1>4, <1>5, <1>6, <1>7, <1>8, <1>9, <1>10, <1>11, <1>12, <1>13 DEF Running

\* What sending a command that is no retire does to the ring.
LEMMA QuietPush ==
    ASSUME TypeOK, NEW c \in Command, Push(c), c.t # "RETIRE", c.t = "PLAY" => Is(c.s, "live")
    PROVE  /\ Len(cmd') >= Len(cmd) /\ \A k \in 1 .. Len(cmd) : cmd'[k] = cmd[k]
           /\ \A k \in 1 .. Len(cmd') :
                k > Len(cmd) => cmd'[k].t # "RETIRE" /\ (cmd'[k].t = "PLAY" => Is(cmd'[k].s, "live"))
<1>1. Len(cmd) \in Nat
  BY SeqDomain
<1>2. CASE CmdRoom(1)
  <2>1. Len(cmd') = Len(cmd) + 1 /\ cmd'[Len(cmd) + 1] = c /\ \A k \in 1 .. Len(cmd) : cmd'[k] = cmd[k]
    BY <1>2, Pushed
  <2>2. \A k \in 1 .. Len(cmd') : k > Len(cmd) => k = Len(cmd) + 1
    BY <1>1, <2>1
  <2> QED BY <1>1, <2>1, <2>2
<1>3. CASE ~CmdRoom(1)
  BY <1>1, <1>3, Pushed
<1> QED BY <1>2, <1>3

\* A command that names no sound.
LEMMA PlainPush ==
    ASSUME TypeOK, NEW t \in CommandNames \ {"PLAY", "RETIRE"}, NEW v \in Handle, Push(C(t, v, None))
    PROVE  /\ Len(cmd') >= Len(cmd) /\ \A k \in 1 .. Len(cmd) : cmd'[k] = cmd[k]
           /\ \A k \in 1 .. Len(cmd') :
                k > Len(cmd) => cmd'[k].t # "RETIRE" /\ (cmd'[k].t = "PLAY" => Is(cmd'[k].s, "live"))
<1>1. /\ C(t, v, None) \in Command /\ C(t, v, None).t = t
  BY Handles, CommandIs
<1> QED BY <1>1, QuietPush

LEMMA BeginPumpKeeps ==
    ASSUME TypeOK, TypeOK', Running, BeginPump
    PROVE  Running'
<1>0. HeldUnsent /\ Parks /\ Retires
  BY DEF Running
<1>1. UNCHANGED <<inflight, park, snd, sfree, jobs, res, ack, batch, voice, heap>>
  BY DEF BeginPump, cacheVars, loadVars, audioVars
<1>2. \A f \in File : entry'[f].snd = entry[f].snd /\ entry'[f].st = entry[f].st
  BY DEF BeginPump, cacheVars
<1>3. /\ ldr'.snd = ldr.snd /\ ldr'.ok = ldr.ok
      /\ ldr'.pc = "push" <=> ldr.pc = "push"
      /\ ldr'.pc = "decode" <=> ldr.pc = "decode"
  BY DEF BeginPump, loadVars
<1>4. /\ Len(cmd') >= Len(cmd) /\ \A k \in 1 .. Len(cmd) : cmd'[k] = cmd[k]
      /\ \A k \in 1 .. Len(cmd') :
            k > Len(cmd) => cmd'[k].t # "RETIRE" /\ (cmd'[k].t = "PLAY" => Is(cmd'[k].s, "live"))
  BY SeqDomain DEF BeginPump
<1>5. ctl.pc = "idle" /\ ctl'.pc = "pump"
  BY DEF BeginPump, Idle
<1>6. HeldUnsent'
  <2>1. held' = held
    BY DEF BeginPump, sourceVars
  <2> QED BY <1>0, <1>1, <1>5, <2>1 DEF HeldUnsent, Is
<1>7. ctl'.pc = "park" => ctl'.try \subseteq park
  BY <1>0, <1>5 DEF Parks
<1>8. ctl'.pc = "events" => ctl'.left \in 1 .. Len(ack)
  BY <1>5
<1> QED BY <1>1, <1>2, <1>3, <1>4, <1>6, <1>7, <1>8, QuietKeeps

LEMMA FireSeekKeeps ==
    ASSUME TypeOK, TypeOK', Running, FireSeek
    PROVE  Running'
<1>0. HeldUnsent /\ Parks /\ Retires
  BY DEF Running
<1>1. UNCHANGED <<inflight, park, snd, sfree, jobs, res, ack, batch, voice, heap>>
  BY DEF FireSeek, cacheVars, loadVars, audioVars
<1>2. \A f \in File : entry'[f].snd = entry[f].snd /\ entry'[f].st = entry[f].st
  BY DEF FireSeek, cacheVars
<1>3. /\ ldr'.snd = ldr.snd /\ ldr'.ok = ldr.ok
      /\ ldr'.pc = "push" <=> ldr.pc = "push"
      /\ ldr'.pc = "decode" <=> ldr.pc = "decode"
  BY DEF FireSeek, loadVars
<1>4. /\ Len(cmd') >= Len(cmd) /\ \A k \in 1 .. Len(cmd) : cmd'[k] = cmd[k]
      /\ \A k \in 1 .. Len(cmd') :
            k > Len(cmd) => cmd'[k].t # "RETIRE" /\ (cmd'[k].t = "PLAY" => Is(cmd'[k].s, "live"))
  <2>1. PICK src \in ctl.try : Push(C("SEEK", src, None))
    BY DEF FireSeek
  <2>2. src \in Handle
    BY TypeParts DEF CtlOK, CtlRec
  <2> QED BY <2>1, <2>2, PlainPush DEF CommandNames
<1>5. ctl.pc = "seek" /\ ctl'.pc = "fire" /\ ctl'.h = ctl.h
  BY TypeParts DEF FireSeek, CtlOK, CtlRec
<1>6. HeldUnsent'
  <2>1. held' = held
    BY DEF FireSeek, sourceVars
  <2> QED BY <1>0, <1>1, <1>5, <2>1 DEF HeldUnsent, Is
<1>7. ctl'.pc = "park" => ctl'.try \subseteq park
  BY <1>0, <1>5 DEF Parks
<1>8. ctl'.pc = "events" => ctl'.left \in 1 .. Len(ack)
  BY <1>5
<1> QED BY <1>1, <1>2, <1>3, <1>4, <1>6, <1>7, <1>8, QuietKeeps

LEMMA FireEndKeeps ==
    ASSUME TypeOK, TypeOK', Running, FireEnd
    PROVE  Running'
<1>0. HeldUnsent /\ Parks /\ Retires
  BY DEF Running
<1>1. UNCHANGED <<inflight, park, snd, sfree, jobs, res, ack, batch, voice, heap>>
  BY DEF FireEnd, cacheVars, loadVars, audioVars
<1>2. \A f \in File : entry'[f].snd = entry[f].snd /\ entry'[f].st = entry[f].st
  BY DEF FireEnd, cacheVars
<1>3. /\ ldr'.snd = ldr.snd /\ ldr'.ok = ldr.ok
      /\ ldr'.pc = "push" <=> ldr.pc = "push"
      /\ ldr'.pc = "decode" <=> ldr.pc = "decode"
  BY DEF FireEnd, loadVars
<1>4. /\ Len(cmd') >= Len(cmd) /\ \A k \in 1 .. Len(cmd) : cmd'[k] = cmd[k]
      /\ \A k \in 1 .. Len(cmd') :
            k > Len(cmd) => cmd'[k].t # "RETIRE" /\ (cmd'[k].t = "PLAY" => Is(cmd'[k].s, "live"))
  BY SeqDomain DEF FireEnd
<1>5. ctl.pc = "fire" /\ ctl'.pc = "pump" /\ \A p \in held : p.snd # ctl.h
  BY TypeParts DEF FireEnd, CtlOK, CtlRec
<1>6. HeldUnsent'
  <2>1. held' = held
    BY DEF FireEnd, sourceVars
  <2> QED BY <1>0, <1>1, <1>5, <2>1 DEF HeldUnsent, Is
<1>7. ctl'.pc = "park" => ctl'.try \subseteq park
  BY <1>0, <1>5 DEF Parks
<1>8. ctl'.pc = "events" => ctl'.left \in 1 .. Len(ack)
  BY <1>5
<1> QED BY <1>1, <1>2, <1>3, <1>4, <1>6, <1>7, <1>8, QuietKeeps

LEMMA PumpEndKeeps ==
    ASSUME TypeOK, TypeOK', Running, PumpEnd
    PROVE  Running'
<1>0. HeldUnsent /\ Parks /\ Retires
  BY DEF Running
<1>1. UNCHANGED <<inflight, park, snd, sfree, jobs, res, ack, batch, voice, heap>>
  BY DEF PumpEnd, cacheVars, loadVars, audioVars
<1>2. \A f \in File : entry'[f].snd = entry[f].snd /\ entry'[f].st = entry[f].st
  BY DEF PumpEnd, cacheVars
<1>3. /\ ldr'.snd = ldr.snd /\ ldr'.ok = ldr.ok
      /\ ldr'.pc = "push" <=> ldr.pc = "push"
      /\ ldr'.pc = "decode" <=> ldr.pc = "decode"
  BY DEF PumpEnd, loadVars
<1>4. /\ Len(cmd') >= Len(cmd) /\ \A k \in 1 .. Len(cmd) : cmd'[k] = cmd[k]
      /\ \A k \in 1 .. Len(cmd') :
            k > Len(cmd) => cmd'[k].t # "RETIRE" /\ (cmd'[k].t = "PLAY" => Is(cmd'[k].s, "live"))
  BY SeqDomain DEF PumpEnd
<1>5. ctl.pc = "pump" /\ (ctl'.pc = "body" \/ (ctl'.pc = "park" /\ ctl'.try = park))
  BY TypeParts DEF PumpEnd, CtlOK, CtlRec
<1>6. HeldUnsent'
  <2>1. held' = held
    BY DEF PumpEnd, sourceVars
  <2> QED BY <1>0, <1>1, <1>5, <2>1 DEF HeldUnsent, Is
<1>7. ctl'.pc = "park" => ctl'.try \subseteq park
  BY <1>0, <1>5 DEF Parks
<1>8. ctl'.pc = "events" => ctl'.left \in 1 .. Len(ack)
  BY <1>5
<1> QED BY <1>1, <1>2, <1>3, <1>4, <1>6, <1>7, <1>8, QuietKeeps

LEMMA ParkEndKeeps ==
    ASSUME TypeOK, TypeOK', Running, ParkEnd
    PROVE  Running'
<1>0. HeldUnsent /\ Parks /\ Retires
  BY DEF Running
<1>1. UNCHANGED <<inflight, park, snd, sfree, jobs, res, ack, batch, voice, heap>>
  BY DEF ParkEnd, cacheVars, loadVars, audioVars
<1>2. \A f \in File : entry'[f].snd = entry[f].snd /\ entry'[f].st = entry[f].st
  BY DEF ParkEnd, cacheVars
<1>3. /\ ldr'.snd = ldr.snd /\ ldr'.ok = ldr.ok
      /\ ldr'.pc = "push" <=> ldr.pc = "push"
      /\ ldr'.pc = "decode" <=> ldr.pc = "decode"
  BY DEF ParkEnd, loadVars
<1>4. /\ Len(cmd') >= Len(cmd) /\ \A k \in 1 .. Len(cmd) : cmd'[k] = cmd[k]
      /\ \A k \in 1 .. Len(cmd') :
            k > Len(cmd) => cmd'[k].t # "RETIRE" /\ (cmd'[k].t = "PLAY" => Is(cmd'[k].s, "live"))
  BY SeqDomain DEF ParkEnd
<1>5. ctl.pc = "park" /\ ctl'.pc = "body"
  BY TypeParts DEF ParkEnd, CtlOK, CtlRec
<1>6. HeldUnsent'
  <2>1. held' = held
    BY DEF ParkEnd, sourceVars
  <2> QED BY <1>0, <1>1, <1>5, <2>1 DEF HeldUnsent, Is
<1>7. ctl'.pc = "park" => ctl'.try \subseteq park
  BY <1>0, <1>5 DEF Parks
<1>8. ctl'.pc = "events" => ctl'.left \in 1 .. Len(ack)
  BY <1>5
<1> QED BY <1>1, <1>2, <1>3, <1>4, <1>6, <1>7, <1>8, QuietKeeps

LEMMA ReturnKeeps ==
    ASSUME TypeOK, TypeOK', Running, Return
    PROVE  Running'
<1>0. HeldUnsent /\ Parks /\ Retires
  BY DEF Running
<1>1. UNCHANGED <<inflight, park, snd, sfree, jobs, res, ack, batch, voice, heap>>
  BY DEF Return, cacheVars, loadVars, audioVars
<1>2. \A f \in File : entry'[f].snd = entry[f].snd /\ entry'[f].st = entry[f].st
  BY DEF Return, cacheVars
<1>3. /\ ldr'.snd = ldr.snd /\ ldr'.ok = ldr.ok
      /\ ldr'.pc = "push" <=> ldr.pc = "push"
      /\ ldr'.pc = "decode" <=> ldr.pc = "decode"
  BY DEF Return, loadVars
<1>4. /\ Len(cmd') >= Len(cmd) /\ \A k \in 1 .. Len(cmd) : cmd'[k] = cmd[k]
      /\ \A k \in 1 .. Len(cmd') :
            k > Len(cmd) => cmd'[k].t # "RETIRE" /\ (cmd'[k].t = "PLAY" => Is(cmd'[k].s, "live"))
  BY SeqDomain DEF Return
<1>5. ctl.pc = "body" /\ ctl'.pc = "idle"
  BY DEF Return, Idle
<1>6. HeldUnsent'
  <2>1. held' = held
    BY DEF Return, sourceVars
  <2> QED BY <1>0, <1>1, <1>5, <2>1 DEF HeldUnsent, Is
<1>7. ctl'.pc = "park" => ctl'.try \subseteq park
  BY <1>0, <1>5 DEF Parks
<1>8. ctl'.pc = "events" => ctl'.left \in 1 .. Len(ack)
  BY <1>5
<1> QED BY <1>1, <1>2, <1>3, <1>4, <1>6, <1>7, <1>8, QuietKeeps

LEMMA AcquireHitKeeps ==
    ASSUME TypeOK, TypeOK', Running, NEW f \in File, AcquireHit(f)
    PROVE  Running'
<1>0. HeldUnsent /\ Parks /\ Retires
  BY DEF Running
<1>1. UNCHANGED <<inflight, park, snd, sfree, jobs, res, ack, batch, voice, heap>>
  BY DEF AcquireHit, cacheVars, loadVars, audioVars
<1>2. \A g \in File : entry'[g].snd = entry[g].snd /\ entry'[g].st = entry[g].st
  BY TypeParts DEF AcquireHit, CacheOK, EntryRec
<1>3. /\ ldr'.snd = ldr.snd /\ ldr'.ok = ldr.ok
      /\ ldr'.pc = "push" <=> ldr.pc = "push"
      /\ ldr'.pc = "decode" <=> ldr.pc = "decode"
  BY DEF AcquireHit, loadVars
<1>4. /\ Len(cmd') >= Len(cmd) /\ \A k \in 1 .. Len(cmd) : cmd'[k] = cmd[k]
      /\ \A k \in 1 .. Len(cmd') :
            k > Len(cmd) => cmd'[k].t # "RETIRE" /\ (cmd'[k].t = "PLAY" => Is(cmd'[k].s, "live"))
  BY SeqDomain DEF AcquireHit
<1>5. ctl.pc = "body" /\ ctl'.pc = "idle"
  BY DEF AcquireHit, Idle, Body
<1>6. HeldUnsent'
  <2>1. held' = held
    BY DEF AcquireHit, sourceVars
  <2> QED BY <1>0, <1>1, <1>5, <2>1 DEF HeldUnsent, Is
<1>7. ctl'.pc = "park" => ctl'.try \subseteq park
  BY <1>0, <1>5 DEF Parks
<1>8. ctl'.pc = "events" => ctl'.left \in 1 .. Len(ack)
  BY <1>5
<1> QED BY <1>1, <1>2, <1>3, <1>4, <1>6, <1>7, <1>8, QuietKeeps

LEMMA AcquireSignalKeeps ==
    ASSUME TypeOK, TypeOK', Running, AcquireSignal
    PROVE  Running'
<1>0. HeldUnsent /\ Parks /\ Retires
  BY DEF Running
<1>1. UNCHANGED <<inflight, park, snd, sfree, jobs, res, ack, batch, voice, heap>>
  BY DEF AcquireSignal, cacheVars, loadVars, audioVars
<1>2. \A f \in File : entry'[f].snd = entry[f].snd /\ entry'[f].st = entry[f].st
  BY DEF AcquireSignal, cacheVars
<1>3. /\ ldr'.snd = ldr.snd /\ ldr'.ok = ldr.ok
      /\ ldr'.pc = "push" <=> ldr.pc = "push"
      /\ ldr'.pc = "decode" <=> ldr.pc = "decode"
  BY DEF AcquireSignal, loadVars
<1>4. /\ Len(cmd') >= Len(cmd) /\ \A k \in 1 .. Len(cmd) : cmd'[k] = cmd[k]
      /\ \A k \in 1 .. Len(cmd') :
            k > Len(cmd) => cmd'[k].t # "RETIRE" /\ (cmd'[k].t = "PLAY" => Is(cmd'[k].s, "live"))
  BY SeqDomain DEF AcquireSignal
<1>5. ctl.pc = "signal" /\ ctl'.pc = "idle"
  BY DEF AcquireSignal, Idle
<1>6. HeldUnsent'
  <2>1. held' = held
    BY DEF AcquireSignal, sourceVars
  <2> QED BY <1>0, <1>1, <1>5, <2>1 DEF HeldUnsent, Is
<1>7. ctl'.pc = "park" => ctl'.try \subseteq park
  BY <1>0, <1>5 DEF Parks
<1>8. ctl'.pc = "events" => ctl'.left \in 1 .. Len(ack)
  BY <1>5
<1> QED BY <1>1, <1>2, <1>3, <1>4, <1>6, <1>7, <1>8, QuietKeeps

LEMMA CommitKeeps ==
    ASSUME TypeOK, TypeOK', Running, Commit
    PROVE  Running'
<1>0. HeldUnsent /\ Parks /\ Retires
  BY DEF Running
<1>1. UNCHANGED <<inflight, park, snd, sfree, jobs, res, ack, batch, voice, heap>>
  BY DEF Commit, cacheVars, loadVars, audioVars
<1>2. \A f \in File : entry'[f].snd = entry[f].snd /\ entry'[f].st = entry[f].st
  BY DEF Commit, cacheVars
<1>3. /\ ldr'.snd = ldr.snd /\ ldr'.ok = ldr.ok
      /\ ldr'.pc = "push" <=> ldr.pc = "push"
      /\ ldr'.pc = "decode" <=> ldr.pc = "decode"
  BY DEF Commit, loadVars
<1>4. /\ Len(cmd') >= Len(cmd) /\ \A k \in 1 .. Len(cmd) : cmd'[k] = cmd[k]
      /\ \A k \in 1 .. Len(cmd') :
            k > Len(cmd) => cmd'[k].t # "RETIRE" /\ (cmd'[k].t = "PLAY" => Is(cmd'[k].s, "live"))
  <2>1. None \in Handle
    BY Handles
  <2>2. CASE Push(C("COMMIT", None, None))
    BY <2>1, <2>2, PlainPush DEF CommandNames
  <2> QED BY <2>2 DEF Commit
<1>5. ctl.pc = "body" /\ (ctl'.pc = "idle" \/ (ctl'.pc = "events" /\ ctl'.left \in 1 .. Len(ack)))
  <2>1. ack = <<>> \/ Len(ack) \in 1 .. Len(ack)
    BY TypeParts DEF RingOK
  <2>2. (ctl' = Idle /\ ack = <<>>) \/ (ctl' = [ctl EXCEPT !.pc = "events", !.left = Len(ack)] /\ ack # <<>>)
    BY DEF Commit
  <2> QED BY <2>1, <2>2, TypeParts DEF Commit, Idle, CtlOK, CtlRec
<1>6. HeldUnsent'
  <2>1. held' = held
    BY DEF Commit, sourceVars
  <2> QED BY <1>0, <1>1, <1>5, <2>1 DEF HeldUnsent, Is
<1>7. ctl'.pc = "park" => ctl'.try \subseteq park
  BY <1>0, <1>5 DEF Parks
<1>8. ctl'.pc = "events" => ctl'.left \in 1 .. Len(ack)
  BY <1>5
<1> QED BY <1>1, <1>2, <1>3, <1>4, <1>6, <1>7, <1>8, QuietKeeps

LEMMA CreateSourceKeeps ==
    ASSUME TypeOK, TypeOK', Running, NEW i \in Voice, CreateSource(i)
    PROVE  Running'
<1>0. HeldUnsent /\ Parks /\ Retires
  BY DEF Running
<1>1. UNCHANGED <<inflight, park, snd, sfree, jobs, res, ack, batch, voice, heap>>
  BY DEF CreateSource, cacheVars, loadVars, audioVars
<1>2. \A f \in File : entry'[f].snd = entry[f].snd /\ entry'[f].st = entry[f].st
  BY DEF CreateSource, cacheVars
<1>3. /\ ldr'.snd = ldr.snd /\ ldr'.ok = ldr.ok
      /\ ldr'.pc = "push" <=> ldr.pc = "push"
      /\ ldr'.pc = "decode" <=> ldr.pc = "decode"
  BY DEF CreateSource, loadVars
<1>4. /\ Len(cmd') >= Len(cmd) /\ \A k \in 1 .. Len(cmd) : cmd'[k] = cmd[k]
      /\ \A k \in 1 .. Len(cmd') :
            k > Len(cmd) => cmd'[k].t # "RETIRE" /\ (cmd'[k].t = "PLAY" => Is(cmd'[k].s, "live"))
  <2>1. i \in Nat /\ slot[i].gen + 1 \in Nat
    BY TypeParts, Sizes DEF SlotsOK, SlotRec, Voice
  <2>2. H(i, slot[i].gen + 1) \in Handle
    BY <2>1, Handles
  <2>3. Push(C("CREATE", H(i, slot[i].gen + 1), None))
    BY DEF CreateSource
  <2> QED BY <2>2, <2>3, PlainPush DEF CommandNames
<1>5. ctl.pc = "idle" /\ ctl' = ctl
  BY DEF CreateSource, Call
<1>6. HeldUnsent'
  <2>1. held' = held
    BY DEF CreateSource, sourceVars
  <2> QED BY <1>0, <1>1, <1>5, <2>1 DEF HeldUnsent, Is
<1>7. ctl'.pc = "park" => ctl'.try \subseteq park
  BY <1>0, <1>5 DEF Parks
<1>8. ctl'.pc = "events" => ctl'.left \in 1 .. Len(ack)
  BY <1>5
<1> QED BY <1>1, <1>2, <1>3, <1>4, <1>6, <1>7, <1>8, QuietKeeps

LEMMA DestroySourceKeeps ==
    ASSUME TypeOK, TypeOK', Running, NEW h \in Sources, DestroySource(h)
    PROVE  Running'
<1>0. HeldUnsent /\ Parks /\ Retires
  BY DEF Running
<1>1. UNCHANGED <<inflight, park, snd, sfree, jobs, res, ack, batch, voice, heap>>
  BY DEF DestroySource, cacheVars, loadVars, audioVars
<1>2. \A f \in File : entry'[f].snd = entry[f].snd /\ entry'[f].st = entry[f].st
  BY DEF DestroySource, cacheVars
<1>3. /\ ldr'.snd = ldr.snd /\ ldr'.ok = ldr.ok
      /\ ldr'.pc = "push" <=> ldr.pc = "push"
      /\ ldr'.pc = "decode" <=> ldr.pc = "decode"
  BY DEF DestroySource, loadVars
<1>4. /\ Len(cmd') >= Len(cmd) /\ \A k \in 1 .. Len(cmd) : cmd'[k] = cmd[k]
      /\ \A k \in 1 .. Len(cmd') :
            k > Len(cmd) => cmd'[k].t # "RETIRE" /\ (cmd'[k].t = "PLAY" => Is(cmd'[k].s, "live"))
  <2>1. h \in Handle
    BY SourceIs
  <2>2. CASE Push(C("DESTROY", h, None))
    BY <2>1, <2>2, PlainPush DEF CommandNames
  <2> QED BY <2>2 DEF DestroySource
<1>5. ctl.pc = "idle" /\ ctl' = ctl
  BY DEF DestroySource, Call
<1>6. HeldUnsent'
  <2>1. held' = held
    BY DEF DestroySource, sourceVars
  <2> QED BY <1>0, <1>1, <1>5, <2>1 DEF HeldUnsent, Is
<1>7. ctl'.pc = "park" => ctl'.try \subseteq park
  BY <1>0, <1>5 DEF Parks
<1>8. ctl'.pc = "events" => ctl'.left \in 1 .. Len(ack)
  BY <1>5
<1> QED BY <1>1, <1>2, <1>3, <1>4, <1>6, <1>7, <1>8, QuietKeeps

LEMMA StopKeeps ==
    ASSUME TypeOK, TypeOK', Running, NEW h \in Sources, Stop(h)
    PROVE  Running'
<1>0. HeldUnsent /\ Parks /\ Retires
  BY DEF Running
<1>1. UNCHANGED <<inflight, park, snd, sfree, jobs, res, ack, batch, voice, heap>>
  BY DEF Stop, cacheVars, loadVars, audioVars
<1>2. \A f \in File : entry'[f].snd = entry[f].snd /\ entry'[f].st = entry[f].st
  BY DEF Stop, cacheVars
<1>3. /\ ldr'.snd = ldr.snd /\ ldr'.ok = ldr.ok
      /\ ldr'.pc = "push" <=> ldr.pc = "push"
      /\ ldr'.pc = "decode" <=> ldr.pc = "decode"
  BY DEF Stop, loadVars
<1>4. /\ Len(cmd') >= Len(cmd) /\ \A k \in 1 .. Len(cmd) : cmd'[k] = cmd[k]
      /\ \A k \in 1 .. Len(cmd') :
            k > Len(cmd) => cmd'[k].t # "RETIRE" /\ (cmd'[k].t = "PLAY" => Is(cmd'[k].s, "live"))
  <2>1. h \in Handle
    BY SourceIs
  <2>2. CASE Push(C("STOP", h, None))
    BY <2>1, <2>2, PlainPush DEF CommandNames
  <2> QED BY <2>2 DEF Stop
<1>5. ctl.pc = "idle" /\ ctl' = ctl
  BY DEF Stop, Call
<1>6. HeldUnsent'
  <2>1. held' \subseteq held
    BY DEF Stop, HeldButSrc
  <2> QED BY <1>0, <1>1, <1>5, <2>1 DEF HeldUnsent, Is
<1>7. ctl'.pc = "park" => ctl'.try \subseteq park
  BY <1>0, <1>5 DEF Parks
<1>8. ctl'.pc = "events" => ctl'.left \in 1 .. Len(ack)
  BY <1>5
<1> QED BY <1>1, <1>2, <1>3, <1>4, <1>6, <1>7, <1>8, QuietKeeps

LEMMA StopAtKeeps ==
    ASSUME TypeOK, TypeOK', Running, NEW h \in Sources, StopAt(h)
    PROVE  Running'
<1>0. HeldUnsent /\ Parks /\ Retires
  BY DEF Running
<1>1. UNCHANGED <<inflight, park, snd, sfree, jobs, res, ack, batch, voice, heap>>
  BY DEF StopAt, cacheVars, loadVars, audioVars
<1>2. \A f \in File : entry'[f].snd = entry[f].snd /\ entry'[f].st = entry[f].st
  BY DEF StopAt, cacheVars
<1>3. /\ ldr'.snd = ldr.snd /\ ldr'.ok = ldr.ok
      /\ ldr'.pc = "push" <=> ldr.pc = "push"
      /\ ldr'.pc = "decode" <=> ldr.pc = "decode"
  BY DEF StopAt, loadVars
<1>4. /\ Len(cmd') >= Len(cmd) /\ \A k \in 1 .. Len(cmd) : cmd'[k] = cmd[k]
      /\ \A k \in 1 .. Len(cmd') :
            k > Len(cmd) => cmd'[k].t # "RETIRE" /\ (cmd'[k].t = "PLAY" => Is(cmd'[k].s, "live"))
  <2>1. h \in Handle
    BY SourceIs
  <2>2. CASE Push(C("STOP_AT", h, None))
    BY <2>1, <2>2, PlainPush DEF CommandNames
  <2> QED BY <2>2 DEF StopAt
<1>5. ctl.pc = "idle" /\ ctl' = ctl
  BY DEF StopAt, Call
<1>6. HeldUnsent'
  <2>1. held' = held
    BY DEF StopAt, sourceVars
  <2> QED BY <1>0, <1>1, <1>5, <2>1 DEF HeldUnsent, Is
<1>7. ctl'.pc = "park" => ctl'.try \subseteq park
  BY <1>0, <1>5 DEF Parks
<1>8. ctl'.pc = "events" => ctl'.left \in 1 .. Len(ack)
  BY <1>5
<1> QED BY <1>1, <1>2, <1>3, <1>4, <1>6, <1>7, <1>8, QuietKeeps

LEMMA StopAllKeeps ==
    ASSUME TypeOK, TypeOK', Running, StopAll
    PROVE  Running'
<1>0. HeldUnsent /\ Parks /\ Retires
  BY DEF Running
<1>1. UNCHANGED <<inflight, park, snd, sfree, jobs, res, ack, batch, voice, heap>>
  BY DEF StopAll, cacheVars, loadVars, audioVars
<1>2. \A f \in File : entry'[f].snd = entry[f].snd /\ entry'[f].st = entry[f].st
  BY DEF StopAll, cacheVars
<1>3. /\ ldr'.snd = ldr.snd /\ ldr'.ok = ldr.ok
      /\ ldr'.pc = "push" <=> ldr.pc = "push"
      /\ ldr'.pc = "decode" <=> ldr.pc = "decode"
  BY DEF StopAll, loadVars
<1>4. /\ Len(cmd') >= Len(cmd) /\ \A k \in 1 .. Len(cmd) : cmd'[k] = cmd[k]
      /\ \A k \in 1 .. Len(cmd') :
            k > Len(cmd) => cmd'[k].t # "RETIRE" /\ (cmd'[k].t = "PLAY" => Is(cmd'[k].s, "live"))
  <2>1. None \in Handle
    BY Handles
  <2>2. CASE Push(C("STOP_ALL", None, None))
    BY <2>1, <2>2, PlainPush DEF CommandNames
  <2> QED BY <2>2 DEF StopAll
<1>5. ctl.pc = "idle" /\ ctl' = ctl
  BY DEF StopAll, Call
<1>6. HeldUnsent'
  BY <1>0, <1>5 DEF Running, HeldUnsent, StopAll, Swept, Is
<1>7. ctl'.pc = "park" => ctl'.try \subseteq park
  BY <1>0, <1>5 DEF Parks
<1>8. ctl'.pc = "events" => ctl'.left \in 1 .. Len(ack)
  BY <1>5
<1> QED BY <1>1, <1>2, <1>3, <1>4, <1>6, <1>7, <1>8, QuietKeeps

LEMMA SeekKeeps ==
    ASSUME TypeOK, TypeOK', Running, NEW h \in Sources, Seek(h)
    PROVE  Running'
<1>0. HeldUnsent /\ Parks /\ Retires
  BY DEF Running
<1>1. UNCHANGED <<inflight, park, snd, sfree, jobs, res, ack, batch, voice, heap>>
  BY DEF Seek, cacheVars, loadVars, audioVars
<1>2. \A f \in File : entry'[f].snd = entry[f].snd /\ entry'[f].st = entry[f].st
  BY DEF Seek, cacheVars
<1>3. /\ ldr'.snd = ldr.snd /\ ldr'.ok = ldr.ok
      /\ ldr'.pc = "push" <=> ldr.pc = "push"
      /\ ldr'.pc = "decode" <=> ldr.pc = "decode"
  BY DEF Seek, loadVars
<1>4. /\ Len(cmd') >= Len(cmd) /\ \A k \in 1 .. Len(cmd) : cmd'[k] = cmd[k]
      /\ \A k \in 1 .. Len(cmd') :
            k > Len(cmd) => cmd'[k].t # "RETIRE" /\ (cmd'[k].t = "PLAY" => Is(cmd'[k].s, "live"))
  <2>1. h \in Handle
    BY SourceIs
  <2>2. CASE Push(C("SEEK", h, None))
    BY <2>1, <2>2, PlainPush DEF CommandNames
  <2>3. CASE UNCHANGED cmd
    BY <2>3, SeqDomain
  <2> QED BY <2>2, <2>3 DEF Seek
<1>5. ctl.pc = "idle" /\ ctl' = ctl
  BY DEF Seek, Call
<1>6. HeldUnsent'
  <2>1. held \subseteq HeldRec
    BY TypeParts DEF SlotsOK
  <2>2. \A p \in held' : \E q \in held : p.snd = q.snd
    <3>1. \A p \in held : [p EXCEPT !.seek = TRUE].snd = p.snd
      BY <2>1 DEF HeldRec
    <3>2. held' \subseteq held \cup {[p EXCEPT !.seek = TRUE] : p \in held}
      BY DEF Seek, HeldButSrc, HeldFor
    <3> QED BY <3>1, <3>2
  <2> QED BY <1>0, <1>1, <1>5, <2>2 DEF HeldUnsent, Is
<1>7. ctl'.pc = "park" => ctl'.try \subseteq park
  BY <1>0, <1>5 DEF Parks
<1>8. ctl'.pc = "events" => ctl'.left \in 1 .. Len(ack)
  BY <1>5
<1> QED BY <1>1, <1>2, <1>3, <1>4, <1>6, <1>7, <1>8, QuietKeeps

LEMMA ShutdownKeeps ==
    ASSUME TypeOK, TypeOK', Running, Shutdown
    PROVE  Running'
<1>0. HeldUnsent /\ Parks /\ Retires
  BY DEF Running
<1>1. UNCHANGED <<inflight, park, snd, sfree, jobs, res, ack, batch, voice, heap>>
  BY DEF Shutdown, cacheVars, loadVars, audioVars
<1>2. \A f \in File : entry'[f].snd = entry[f].snd /\ entry'[f].st = entry[f].st
  BY DEF Shutdown, cacheVars
<1>3. /\ ldr'.snd = ldr.snd /\ ldr'.ok = ldr.ok
      /\ ldr'.pc = "push" <=> ldr.pc = "push"
      /\ ldr'.pc = "decode" <=> ldr.pc = "decode"
  BY DEF Shutdown, loadVars
<1>4. /\ Len(cmd') >= Len(cmd) /\ \A k \in 1 .. Len(cmd) : cmd'[k] = cmd[k]
      /\ \A k \in 1 .. Len(cmd') :
            k > Len(cmd) => cmd'[k].t # "RETIRE" /\ (cmd'[k].t = "PLAY" => Is(cmd'[k].s, "live"))
  BY SeqDomain DEF Shutdown
<1>5. ctl.pc = "idle" /\ ctl'.pc \in {"join", "quit"}
  BY DEF Shutdown, Call, Idle
<1>6. HeldUnsent'
  <2>1. held' = held
    BY DEF Shutdown, sourceVars
  <2> QED BY <1>0, <1>1, <1>5, <2>1 DEF HeldUnsent, Is
<1>7. ctl'.pc = "park" => ctl'.try \subseteq park
  BY <1>0, <1>5 DEF Parks
<1>8. ctl'.pc = "events" => ctl'.left \in 1 .. Len(ack)
  BY <1>5
<1> QED BY <1>1, <1>2, <1>3, <1>4, <1>6, <1>7, <1>8, QuietKeeps

LEMMA ShutdownSignalKeeps ==
    ASSUME TypeOK, TypeOK', Running, ShutdownSignal
    PROVE  Running'
<1>0. HeldUnsent /\ Parks /\ Retires
  BY DEF Running
<1>1. UNCHANGED <<inflight, park, snd, sfree, jobs, res, ack, batch, voice, heap>>
  BY DEF ShutdownSignal, cacheVars, loadVars, audioVars
<1>2. \A f \in File : entry'[f].snd = entry[f].snd /\ entry'[f].st = entry[f].st
  BY DEF ShutdownSignal, cacheVars
<1>3. /\ ldr'.snd = ldr.snd /\ ldr'.ok = ldr.ok
      /\ ldr'.pc = "push" <=> ldr.pc = "push"
      /\ ldr'.pc = "decode" <=> ldr.pc = "decode"
  BY DEF ShutdownSignal, loadVars
<1>4. /\ Len(cmd') >= Len(cmd) /\ \A k \in 1 .. Len(cmd) : cmd'[k] = cmd[k]
      /\ \A k \in 1 .. Len(cmd') :
            k > Len(cmd) => cmd'[k].t # "RETIRE" /\ (cmd'[k].t = "PLAY" => Is(cmd'[k].s, "live"))
  BY SeqDomain DEF ShutdownSignal
<1>5. ctl.pc = "quit" /\ ctl'.pc = "join"
  BY DEF ShutdownSignal, Idle
<1>6. HeldUnsent'
  <2>1. held' = held
    BY DEF ShutdownSignal, sourceVars
  <2> QED BY <1>0, <1>1, <1>5, <2>1 DEF HeldUnsent, Is
<1>7. ctl'.pc = "park" => ctl'.try \subseteq park
  BY <1>0, <1>5 DEF Parks
<1>8. ctl'.pc = "events" => ctl'.left \in 1 .. Len(ack)
  BY <1>5
<1> QED BY <1>1, <1>2, <1>3, <1>4, <1>6, <1>7, <1>8, QuietKeeps

LEMMA LoaderTopKeeps ==
    ASSUME TypeOK, TypeOK', Running, LoaderTop
    PROVE  Running'
<1>0. HeldUnsent /\ Parks /\ Retires
  BY DEF Running
<1>1. UNCHANGED <<inflight, park, snd, sfree, jobs, res, ack, batch, voice, heap>>
  BY DEF LoaderTop, cacheVars, loadVars, audioVars
<1>2. \A f \in File : entry'[f].snd = entry[f].snd /\ entry'[f].st = entry[f].st
  BY DEF LoaderTop, cacheVars
<1>3. /\ ldr'.snd = ldr.snd /\ ldr'.ok = ldr.ok
      /\ ldr'.pc = "push" <=> ldr.pc = "push"
      /\ ldr'.pc = "decode" <=> ldr.pc = "decode"
  <2>1. ldr' = [ldr EXCEPT !.pc = "exit"] \/ ldr' = [ldr EXCEPT !.pc = "pop"]
    BY Zenon DEF LoaderTop, Ldr
  <2>2. ldr.pc = "top"
    BY DEF LoaderTop, Ldr
  <2> QED BY <2>1, <2>2, TypeParts DEF LoadOK, LdrRec
<1>4. /\ Len(cmd') >= Len(cmd) /\ \A k \in 1 .. Len(cmd) : cmd'[k] = cmd[k]
      /\ \A k \in 1 .. Len(cmd') :
            k > Len(cmd) => cmd'[k].t # "RETIRE" /\ (cmd'[k].t = "PLAY" => Is(cmd'[k].s, "live"))
  BY SeqDomain DEF LoaderTop
<1>5. ctl' = ctl
  BY DEF LoaderTop
<1>6. HeldUnsent'
  <2>1. held' = held
    BY DEF LoaderTop, sourceVars
  <2> QED BY <1>0, <1>1, <1>5, <2>1 DEF HeldUnsent, Is
<1>7. ctl'.pc = "park" => ctl'.try \subseteq park
  BY <1>0, <1>5 DEF Parks
<1>8. ctl'.pc = "events" => ctl'.left \in 1 .. Len(ack)
  BY <1>0, <1>5, TypeParts, SeqDomain DEF Retires, CtlOK, CtlRec
<1> QED BY <1>1, <1>2, <1>3, <1>4, <1>6, <1>7, <1>8, QuietKeeps

LEMMA LoaderWakeKeeps ==
    ASSUME TypeOK, TypeOK', Running, LoaderWake
    PROVE  Running'
<1>0. HeldUnsent /\ Parks /\ Retires
  BY DEF Running
<1>1. UNCHANGED <<inflight, park, snd, sfree, jobs, res, ack, batch, voice, heap>>
  BY DEF LoaderWake, cacheVars, loadVars, audioVars
<1>2. \A f \in File : entry'[f].snd = entry[f].snd /\ entry'[f].st = entry[f].st
  BY DEF LoaderWake, cacheVars
<1>3. /\ ldr'.snd = ldr.snd /\ ldr'.ok = ldr.ok
      /\ ldr'.pc = "push" <=> ldr.pc = "push"
      /\ ldr'.pc = "decode" <=> ldr.pc = "decode"
  <2>1. ldr' = [ldr EXCEPT !.pc = "top"] /\ ldr.pc = "wait"
    BY DEF LoaderWake, Ldr
  <2> QED BY <2>1, TypeParts DEF LoadOK, LdrRec
<1>4. /\ Len(cmd') >= Len(cmd) /\ \A k \in 1 .. Len(cmd) : cmd'[k] = cmd[k]
      /\ \A k \in 1 .. Len(cmd') :
            k > Len(cmd) => cmd'[k].t # "RETIRE" /\ (cmd'[k].t = "PLAY" => Is(cmd'[k].s, "live"))
  BY SeqDomain DEF LoaderWake
<1>5. ctl' = ctl
  BY DEF LoaderWake
<1>6. HeldUnsent'
  <2>1. held' = held
    BY DEF LoaderWake, sourceVars
  <2> QED BY <1>0, <1>1, <1>5, <2>1 DEF HeldUnsent, Is
<1>7. ctl'.pc = "park" => ctl'.try \subseteq park
  BY <1>0, <1>5 DEF Parks
<1>8. ctl'.pc = "events" => ctl'.left \in 1 .. Len(ack)
  BY <1>0, <1>5, TypeParts, SeqDomain DEF Retires, CtlOK, CtlRec
<1> QED BY <1>1, <1>2, <1>3, <1>4, <1>6, <1>7, <1>8, QuietKeeps

LEMMA FireKeeps ==
    ASSUME TypeOK, TypeOK', Running, NEW p \in held, Fire(p)
    PROVE  Running'
<1>0. HeldUnsent /\ Parks /\ Retires
  BY DEF Running
<1>1. UNCHANGED <<inflight, park, snd, sfree, jobs, res, ack, batch, voice, heap>>
  BY DEF Fire, cacheVars, loadVars, audioVars
<1>2. \A f \in File : entry'[f].snd = entry[f].snd /\ entry'[f].st = entry[f].st
  BY DEF Fire, cacheVars
<1>3. /\ ldr'.snd = ldr.snd /\ ldr'.ok = ldr.ok
      /\ ldr'.pc = "push" <=> ldr.pc = "push"
      /\ ldr'.pc = "decode" <=> ldr.pc = "decode"
  BY DEF Fire, loadVars
<1>4. /\ Len(cmd') >= Len(cmd) /\ \A k \in 1 .. Len(cmd) : cmd'[k] = cmd[k]
      /\ \A k \in 1 .. Len(cmd') :
            k > Len(cmd) => cmd'[k].t # "RETIRE" /\ (cmd'[k].t = "PLAY" => Is(cmd'[k].s, "live"))
  <2>1. p.src \in Handle /\ p.snd \in Handle
    BY TypeParts DEF SlotsOK, HeldRec
  <2>2. Is(p.snd, "live")
    BY <1>0 DEF Fire, HeldUnsent
  <2>3. C("PLAY", p.src, p.snd) \in Command /\ C("PLAY", p.src, p.snd).t = "PLAY" /\ C("PLAY", p.src, p.snd).s = p.snd
    BY <2>1, CommandIs DEF CommandNames
  <2>4. Push(C("PLAY", p.src, p.snd)) \/ UNCHANGED cmd
    BY Zenon DEF Fire
  <2>5. CASE Push(C("PLAY", p.src, p.snd))
    BY <2>2, <2>3, <2>5, QuietPush
  <2>6. CASE UNCHANGED cmd
    BY <2>6, SeqDomain
  <2> QED BY <2>4, <2>5, <2>6
<1>5. ctl.pc = "fire" /\ ctl'.pc \in {"fire", "seek"} /\ ctl'.h = ctl.h
  <2>1. ctl' = ctl \/ ctl' = [ctl EXCEPT !.pc = "seek", !.try = {p.src}]
    BY Zenon DEF Fire
  <2>2. ctl.pc = "fire" /\ ctl \in CtlRec
    BY TypeParts DEF Fire, CtlOK
  <2> QED BY <2>1, <2>2 DEF CtlRec
<1>6. HeldUnsent'
  <2>1. held' \subseteq held
    BY DEF Fire, HeldButSrc
  <2> QED BY <1>0, <1>1, <1>5, <2>1 DEF HeldUnsent, Is
<1>7. ctl'.pc = "park" => ctl'.try \subseteq park
  BY <1>0, <1>5 DEF Parks
<1>8. ctl'.pc = "events" => ctl'.left \in 1 .. Len(ack)
  BY <1>5
<1> QED BY <1>1, <1>2, <1>3, <1>4, <1>6, <1>7, <1>8, QuietKeeps

LEMMA PlayKeeps ==
    ASSUME TypeOK, TypeOK', Running, NEW h \in Sources, NEW s \in Sounds, Play(h, s)
    PROVE  Running'
<1>0. HeldUnsent /\ Parks /\ Retires
  BY DEF Running
<1>1. UNCHANGED <<inflight, park, snd, sfree, jobs, res, ack, batch, voice, heap>>
  BY DEF Play, cacheVars, loadVars, audioVars
<1>2. \A f \in File : entry'[f].snd = entry[f].snd /\ entry'[f].st = entry[f].st
  BY DEF Play, cacheVars
<1>3. /\ ldr'.snd = ldr.snd /\ ldr'.ok = ldr.ok
      /\ ldr'.pc = "push" <=> ldr.pc = "push"
      /\ ldr'.pc = "decode" <=> ldr.pc = "decode"
  BY DEF Play, loadVars
<1>4. /\ Len(cmd') >= Len(cmd) /\ \A k \in 1 .. Len(cmd) : cmd'[k] = cmd[k]
      /\ \A k \in 1 .. Len(cmd') :
            k > Len(cmd) => cmd'[k].t # "RETIRE" /\ (cmd'[k].t = "PLAY" => Is(cmd'[k].s, "live"))
  <2>1. h \in Handle /\ s \in Handle /\ s.idx \in Sound /\ s.gen = snd[s.idx].gen /\ SndLive(s)
    BY SourceIs, SoundIs
  <2>2. C("PLAY", h, s) \in Command /\ C("PLAY", h, s).t = "PLAY" /\ C("PLAY", h, s).s = s
    BY <2>1, CommandIs DEF CommandNames
  <2>3. CASE IsPending(s)
    BY <2>3, SeqDomain DEF Play, Holds
  <2>4. CASE ~IsPending(s)
    <3>1. Push(C("PLAY", h, s)) /\ snd[s.idx].st # "retiring"
      BY <2>4 DEF Play, Holds
    <3>2. Is(s, "live")
      BY <2>1, <2>4, <3>1, TypeParts DEF Is, IsPending, SndLive, SlotsOK, SndRec, SoundStates
    <3> QED BY <2>2, <3>1, <3>2, QuietPush
  <2> QED BY <2>3, <2>4
<1>5. ctl.pc = "idle" /\ ctl' = ctl
  BY Zenon DEF Play, Call
<1>6. HeldUnsent'
  <2>1. h \in Handle /\ s \in Handle /\ s.idx \in Sound /\ s.gen = snd[s.idx].gen
    BY SourceIs, SoundIs
  <2> DEFINE new == [src |-> h, snd |-> s, seek |-> FALSE]
  <2>2. \A p \in held' : p \in held \/ (p.snd = s /\ IsPending(s))
    <3>1. IsPending(s) => held' \subseteq held \cup {new}
      BY DEF Play, Holds, HeldButSrc
    <3>2. ~IsPending(s) => held' \subseteq held
      BY DEF Play, Holds, HeldButSrc
    <3> QED BY <3>1, <3>2
  <2>3. \A p \in held' : Is(p.snd, "pending")
    BY <1>0, <1>5, <2>2 DEF HeldUnsent, IsPending, SndLive, Is
  <2> QED BY <1>1, <1>5, <2>3 DEF HeldUnsent, Is
<1>7. ctl'.pc = "park" => ctl'.try \subseteq park
  BY <1>0, <1>5 DEF Parks
<1>8. ctl'.pc = "events" => ctl'.left \in 1 .. Len(ack)
  BY <1>5
<1> QED BY <1>1, <1>2, <1>3, <1>4, <1>6, <1>7, <1>8, QuietKeeps

-----------------------------------------------------------------------------
(* The loader thread: a load moves on, with its buffer. *)

LEMMA LoaderDecodeKeeps ==
    ASSUME TypeOK, TypeOK', Running, LoaderDecode
    PROVE  Running'
<1>1. /\ FreeList /\ Entries /\ Parks /\ Retires /\ Kept
      /\ Loads /\ Counted /\ Awaited /\ Buffers /\ HeldUnsent /\ Named
  BY DEF Running
<1>2. /\ ldr.pc = "decode" /\ ldr'.pc = "push" /\ ldr'.snd = ldr.snd /\ ldr.snd \in Handle
      /\ UNCHANGED <<entry, inflight, park, snd, sfree, held, ctl, jobs, res, cmd, ack, batch, voice>>
      /\ heap' = IF ldr'.ok THEN heap \cup {ldr.snd} ELSE heap
  BY LoaderDecodeDoes
<1>3. FreeList' /\ Entries' /\ Parks' /\ Retires' /\ Kept' /\ HeldUnsent' /\ Named'
  BY <1>1, <1>2, Alone
<1>4. Loads'
  BY <1>1, <1>2 DEF Loads, Unborn, Given, Is, InLoader
<1>5. Counted'
  BY <1>1, <1>2 DEF Counted, LoaderBusy
<1>6. Awaited'
  BY <1>1, <1>2 DEF Awaited, InLoader
<1>7. Buffers'
  BY <1>1, <1>2 DEF Buffers, Is
<1> QED BY <1>3, <1>4, <1>5, <1>6, <1>7 DEF Running

LEMMA LoaderPushKeeps ==
    ASSUME TypeOK, TypeOK', Running, LoaderPush
    PROVE  Running'
<1>1. /\ FreeList /\ Entries /\ Parks /\ Retires /\ Kept
      /\ Loads /\ Counted /\ Awaited /\ Buffers /\ HeldUnsent /\ Named
  BY DEF Running
<1>2. /\ ldr.pc = "push" /\ ldr'.pc = "top" /\ ldr.snd \in Handle
      /\ UNCHANGED <<entry, inflight, park, snd, sfree, held, ctl, jobs, cmd, ack, batch, voice, heap>>
      /\ Len(res') = Len(res) + 1
      /\ res'[Len(res) + 1].snd = ldr.snd /\ res'[Len(res) + 1].ok = ldr.ok
      /\ \A k \in 1 .. Len(res) : res'[k] = res[k]
  BY <1>1, LoaderPushDoes
<1>3. /\ DOMAIN res = 1 .. Len(res) /\ Len(res) \in Nat /\ DOMAIN res' = 1 .. Len(res) + 1
      /\ DOMAIN jobs = 1 .. Len(jobs)
  BY <1>2, SeqDomain, SeqDomainPrime
<1>4. FreeList' /\ Entries' /\ Parks' /\ Retires' /\ Kept' /\ HeldUnsent' /\ Named'
  BY <1>1, <1>2, Alone
<1>5. /\ \A k \in DOMAIN res : k \in DOMAIN res' /\ res'[k] = res[k]
      /\ Len(res) + 1 \in DOMAIN res'
      /\ \A k \in DOMAIN res' : k = Len(res) + 1 \/ (k \in DOMAIN res /\ res'[k] = res[k])
  BY <1>2, <1>3
<1>6. Loads'
  <2>1. /\ Unborn(ldr.snd) /\ \A k \in DOMAIN jobs : jobs[k] # ldr.snd /\ Unborn(jobs[k])
        /\ \A k \in DOMAIN res : res[k].snd # ldr.snd /\ Unborn(res[k].snd)
    BY <1>1, <1>2 DEF Loads, InLoader
  <2>2. \A k \in DOMAIN jobs' : Unborn(jobs[k])' /\ ~InLoader(jobs[k])'
    BY <1>2, <2>1 DEF Unborn, Given, Is, InLoader
  <2>3. \A k \in DOMAIN res' : Unborn(res[k].snd)' /\ ~InLoader(res[k].snd)'
    <3>1. \A k \in DOMAIN res' : Unborn(res'[k].snd)
      BY <1>2, <1>5, <2>1
    <3> QED BY <1>2, <3>1 DEF Unborn, Given, Is, InLoader
  <2>4. /\ \A j, k \in DOMAIN jobs' : jobs'[j] = jobs'[k] => j = k
        /\ \A j, k \in DOMAIN res' : res'[j].snd = res'[k].snd => j = k
        /\ \A j \in DOMAIN jobs', k \in DOMAIN res' : jobs'[j] # res'[k].snd
    BY <1>1, <1>2, <1>5, <2>1 DEF Loads
  <2> QED BY <1>2, <2>2, <2>3, <2>4 DEF Loads
<1>7. Counted'
  BY <1>1, <1>2, <1>3 DEF Counted, LoaderBusy
<1>8. Awaited'
  BY <1>1, <1>2, <1>5 DEF Awaited, InLoader
<1>9. Buffers'
  <2>1. ASSUME NEW h \in Handle
        PROVE  (\E k \in DOMAIN res' : res'[k].ok /\ res'[k].snd = h) <=>
                    \/ \E k \in DOMAIN res : res[k].ok /\ res[k].snd = h
                    \/ ldr.ok /\ ldr.snd = h
    BY <1>2, <1>5
  <2> QED BY <1>1, <1>2, <2>1 DEF Buffers, Is
<1> QED BY <1>4, <1>6, <1>7, <1>8, <1>9 DEF Running

LEMMA LoaderPopKeeps ==
    ASSUME TypeOK, TypeOK', Running, LoaderPop
    PROVE  Running'
<1>1. /\ FreeList /\ Entries /\ Parks /\ Retires /\ Kept
      /\ Loads /\ Counted /\ Awaited /\ Buffers /\ HeldUnsent /\ Named
  BY DEF Running
<1>2. /\ ldr.pc = "pop"
      /\ UNCHANGED <<entry, inflight, park, snd, sfree, held, ctl, res, cmd, ack, batch, voice, heap>>
  BY LoaderPopDoes
<1>3. FreeList' /\ Entries' /\ Parks' /\ Retires' /\ Kept' /\ HeldUnsent' /\ Named'
  BY <1>1, <1>2, Alone
<1>4. CASE ldr'.pc = "wait" /\ UNCHANGED jobs
  <2>1. Loads'
    BY <1>1, <1>2, <1>4 DEF Loads, Unborn, Given, Is, InLoader
  <2>2. Counted' /\ Awaited'
    BY <1>1, <1>2, <1>4 DEF Counted, LoaderBusy, Awaited, InLoader
  <2>3. Buffers'
    BY <1>1, <1>2, <1>4 DEF Buffers, Is
  <2> QED BY <1>3, <2>1, <2>2, <2>3 DEF Running
<1>5. CASE /\ ldr'.pc = "decode" /\ ldr'.snd = jobs[1] /\ Len(jobs) > 0 /\ Len(jobs') = Len(jobs) - 1
           /\ \A k \in 1 .. Len(jobs) - 1 : jobs'[k] = jobs[k + 1]
  <2>1. /\ DOMAIN jobs = 1 .. Len(jobs) /\ Len(jobs) \in Nat /\ DOMAIN jobs' = 1 .. Len(jobs) - 1
        /\ Len(res) \in Nat /\ inflight \in Int
    BY <1>5, SeqDomain, SeqDomainPrime, TypeParts DEF CacheOK
  <2>2. /\ 1 \in DOMAIN jobs
        /\ \A k \in DOMAIN jobs' : k + 1 \in DOMAIN jobs /\ k + 1 # 1 /\ jobs'[k] = jobs[k + 1]
        /\ \A j, k \in DOMAIN jobs' : j + 1 = k + 1 => j = k
        /\ \A k \in DOMAIN jobs : k = 1 \/ (k - 1 \in DOMAIN jobs' /\ jobs'[k - 1] = jobs[k])
    BY <1>5, <2>1
  <2>3. Loads'
    <3>1. Unborn(ldr.snd)' <=> Unborn(jobs[1])
      BY <1>2, <1>5 DEF Unborn, Given, Is
    <3>2. \A h : InLoader(h)' <=> h = jobs[1]
      BY <1>5 DEF InLoader
    <3>3. \A h : Unborn(h)' <=> Unborn(h)
      BY <1>2 DEF Unborn, Given, Is
    <3>4. \A k \in DOMAIN jobs' : Unborn(jobs'[k]) /\ jobs'[k] # jobs[1]
      BY <1>1, <2>2 DEF Loads
    <3>5. \A j, k \in DOMAIN jobs' : jobs'[j] = jobs'[k] => j = k
      BY <1>1, <2>2 DEF Loads
    <3>6. \A k \in DOMAIN res' : Unborn(res'[k].snd) /\ res'[k].snd # jobs[1]
      BY <1>1, <1>2, <2>2 DEF Loads
    <3>7. \A j \in DOMAIN jobs', k \in DOMAIN res' : jobs'[j] # res'[k].snd
      BY <1>1, <1>2, <2>2 DEF Loads
    <3>8. Unborn(jobs[1])
      BY <1>1, <2>2 DEF Loads
    <3>9. \A j, k \in DOMAIN res' : res'[j].snd = res'[k].snd => j = k
      BY <1>1, <1>2 DEF Loads
    <3>10. \A k \in DOMAIN jobs' : Unborn(jobs[k])' /\ ~InLoader(jobs[k])'
      BY <3>2, <3>4, <1>2 DEF Unborn, Given, Is
    <3>11. \A k \in DOMAIN res' : Unborn(res[k].snd)' /\ ~InLoader(res[k].snd)'
      BY <3>2, <3>6, <1>2 DEF Unborn, Given, Is
    <3> QED BY <3>1, <3>5, <3>7, <3>8, <3>9, <3>10, <3>11 DEF Loads
  <2>4. Counted'
    BY <1>1, <1>2, <1>5, <2>1 DEF Counted, LoaderBusy
  <2>5. Awaited'
    BY <1>1, <1>2, <1>5, <2>2 DEF Awaited, InLoader
  <2>6. Buffers'
    BY <1>1, <1>2, <1>5 DEF Buffers, Is
  <2> QED BY <1>3, <2>3, <2>4, <2>5, <2>6 DEF Running
<1> QED BY <1>4, <1>5, LoaderPopDoes

-----------------------------------------------------------------------------
(* The audio thread: a command is handled, and the room of a batch given back. *)

LEMMA DrainCommandKeeps ==
    ASSUME TypeOK, TypeOK', Running, DrainCommand
    PROVE  Running'
<1> DEFINE m == batch.done + 1
           c == cmd[batch.done + 1]
<1>1. /\ FreeList /\ Entries /\ Parks /\ Retires /\ Kept
      /\ Loads /\ Counted /\ Awaited /\ Buffers /\ HeldUnsent /\ Named
  BY DEF Running
<1>2. /\ m \in 1 .. Len(cmd) /\ c \in Command /\ batch'.done = m /\ voice' = Handled(voice, c)
      /\ UNCHANGED <<entry, inflight, park, snd, sfree, held, ctl, jobs, res, ldr, cmd, heap>>
      /\ c.t = "RETIRE" => /\ Len(ack') = Len(ack) + 1 /\ ack'[Len(ack) + 1] = c.s
                           /\ \A j \in 1 .. Len(ack) : ack'[j] = ack[j]
      /\ c.t # "RETIRE" => ack' = ack
  BY DrainCommandDoes
<1>3. /\ DOMAIN cmd = 1 .. Len(cmd) /\ Len(cmd) \in Nat /\ batch.done \in Nat
      /\ DOMAIN ack = 1 .. Len(ack) /\ Len(ack) \in Nat /\ DOMAIN ack' = 1 .. Len(ack')
  BY SeqDomain, SeqDomainPrime
<1> HIDE DEF c
<1>4. m \in Waiting /\ Waiting' = Waiting \ {m} /\ \A k \in Waiting : k \in Nat /\ k >= m
  <2>1. batch'.done = m /\ cmd' = cmd /\ m \in 1 .. Len(cmd)
    BY <1>2
  <2>2. Waiting = m .. Len(cmd) /\ Waiting' = m + 1 .. Len(cmd)
    BY <2>1 DEF Waiting
  <2> HIDE DEF m
  <2> QED BY <1>3, <2>1, <2>2
<1>5. /\ \A k \in DOMAIN ack : k \in DOMAIN ack' /\ ack'[k] = ack[k]
      /\ c.t = "RETIRE" => Len(ack) + 1 \in DOMAIN ack'
      /\ \A k \in DOMAIN ack' : \/ k \in DOMAIN ack /\ ack'[k] = ack[k]
                                \/ c.t = "RETIRE" /\ k = Len(ack) + 1 /\ ack'[k] = c.s
      /\ Len(ack') >= Len(ack)
  <2> HIDE DEF m
  <2>1. CASE c.t = "RETIRE"
    <3>1. DOMAIN ack' = 1 .. Len(ack) + 1 /\ Len(ack') = Len(ack) + 1
      BY <1>2, <1>3, <2>1
    <3> QED BY <1>2, <1>3, <2>1, <3>1
  <2>2. CASE c.t # "RETIRE"
    <3>1. ack' = ack
      BY <1>2, <2>2
    <3> QED BY <1>3, <2>2, <3>1
  <2> QED BY <2>1, <2>2
<1>6. c.t = cmd[m].t /\ c.s = cmd[m].s
  BY DEF c
<1> HIDE DEF m
<1>7. FreeList' /\ Entries' /\ Parks' /\ Loads' /\ Counted' /\ Awaited' /\ Buffers' /\ HeldUnsent'
  BY <1>1, <1>2, Alone
<1>8. Retires'
  <2>1. \A k \in Waiting' : cmd'[k].t = "RETIRE" => Is(cmd[k].s, "retiring")'
    BY <1>1, <1>2, <1>4 DEF Retires, Is
  <2>2. c.t = "RETIRE" => Is(c.s, "retiring")
    BY <1>1, <1>4, <1>6 DEF Retires
  <2>3. \A k \in DOMAIN ack' : Is(ack'[k], "retiring")
    BY <1>1, <1>5, <2>2 DEF Retires
  <2>4. \A k \in DOMAIN ack' : Is(ack[k], "retiring")'
    BY <1>2, <2>3 DEF Is
  <2>5. \A j, k \in Waiting' : cmd'[j].t = "RETIRE" /\ cmd'[k].t = "RETIRE" /\ cmd'[j].s = cmd'[k].s => j = k
    BY <1>1, <1>2, <1>4 DEF Retires
  <2>6. c.t = "RETIRE" => \A k \in DOMAIN ack : ack[k] # c.s
    BY <1>1, <1>4, <1>6 DEF Retires
  <2>7. \A j, k \in DOMAIN ack' : ack'[j] = ack'[k] => j = k
    BY <1>1, <1>5, <2>6 DEF Retires
  <2>8. \A j \in Waiting', k \in DOMAIN ack' : cmd'[j].t = "RETIRE" => cmd'[j].s # ack'[k]
    BY <1>1, <1>2, <1>4, <1>5, <1>6 DEF Retires
  <2>9. ctl'.pc = "events" => 1 <= ctl'.left /\ ctl'.left <= Len(ack')
    <3>1. Len(ack') \in Nat /\ ctl.left \in Int /\ ctl' = ctl /\ Len(ack') >= Len(ack)
      BY <1>2, <1>5, TypeParts, SeqDomainPrime DEF CtlOK, CtlRec
    <3> QED BY <1>1, <1>3, <3>1 DEF Retires
  <2> QED BY <2>1, <2>4, <2>5, <2>7, <2>8, <2>9 DEF Retires
<1>9. Kept'
  <2>1. ASSUME NEW h \in Handle, Is(h, "retiring")
        PROVE  \/ \E k \in Waiting' : cmd'[k].t = "RETIRE" /\ cmd'[k].s = h
               \/ \E k \in DOMAIN ack' : ack'[k] = h
    <3>1. CASE \E k \in Waiting : cmd[k].t = "RETIRE" /\ cmd[k].s = h
      BY <1>2, <1>4, <1>5, <1>6, <3>1
    <3>2. CASE \E k \in DOMAIN ack : ack[k] = h
      BY <1>5, <3>2
    <3> QED BY <1>1, <2>1, <3>1, <3>2 DEF Kept
  <2> QED BY <1>1, <1>2, <2>1 DEF Kept, Is
<1>10. Named'
  <2>1. \A k \in DOMAIN cmd' : cmd'[k].t \in {"PLAY", "RETIRE"} => Given(cmd[k].s)' /\ ~Is(cmd[k].s, "pending")'
    BY <1>1, <1>2 DEF Named, Given, Is
  <2>2. ASSUME NEW k \in Nat, k >= m, NEW h, Visible(k, h)
        PROVE  Is(h, "live") \/ (Is(h, "retiring") /\ \E j \in Waiting' : j > k /\ cmd'[j].t = "RETIRE" /\ cmd'[j].s = h)
    BY <1>2, <1>4, <2>2 DEF Visible, RetireAfter
  <2>3. ASSUME NEW k \in Waiting', cmd'[k].t = "PLAY"
        PROVE  Visible(k, cmd[k].s)'
    <3>1. k \in Nat /\ k >= m /\ Visible(k, cmd[k].s) /\ cmd'[k] = cmd[k]
      BY <1>1, <1>2, <1>4, <2>3 DEF Named
    <3>2. \/ Is(cmd'[k].s, "live")
          \/ Is(cmd'[k].s, "retiring") /\ \E j \in Waiting' : j > k /\ cmd'[j].t = "RETIRE" /\ cmd'[j].s = cmd'[k].s
      BY <2>2, <3>1
    <3> QED BY <1>2, <3>2 DEF Visible, RetireAfter, Is
  <2>4. ASSUME NEW i \in Voice, voice'[i].snd # None
        PROVE  Visible(batch.done, voice[i].snd)'
    <3> DEFINE h == voice'[i].snd
    <3>1. Is(h, "live") \/ (Is(h, "retiring") /\ \E j \in Waiting' : j > m /\ cmd'[j].t = "RETIRE" /\ cmd'[j].s = h)
      <4>1. CASE h = voice[i].snd
        <5>1. Visible(batch.done, h)
          BY <1>1, <2>4, <4>1 DEF Named
        <5>2. c.t = "RETIRE" => h # c.s
          <6>1. c.t = "RETIRE" => h # c.s \/ c.s = None
            BY <1>2, HandledIs
          <6> QED BY <2>4, <6>1
        <5>3. \A j \in Waiting : cmd[j].t = "RETIRE" /\ cmd[j].s = h => j \in Waiting' /\ j > m
          BY <1>4, <1>6, <5>2, <1>3 DEF m
        <5> QED BY <1>2, <5>1, <5>3 DEF Visible, RetireAfter
      <4>2. CASE h = c.s /\ c.t = "PLAY"
        <5>1. Visible(m, h) /\ m \in Nat
          BY <1>1, <1>4, <1>6, <4>2 DEF Named
        <5> QED BY <2>2, <5>1
      <4>3. h = voice[i].snd \/ h = None \/ (h = c.s /\ c.t = "PLAY")
        BY <1>2, HandledIs
      <4> QED BY <2>4, <4>1, <4>2, <4>3
    <3> QED BY <1>2, <3>1 DEF Visible, RetireAfter, Is
  <2> QED BY <2>1, <2>3, <2>4 DEF Named
<1> QED BY <1>7, <1>8, <1>9, <1>10 DEF Running

LEMMA DrainEndKeeps ==
    ASSUME TypeOK, TypeOK', Running, DrainEnd
    PROVE  Running'
<1> DEFINE n == batch.done
<1>1. /\ FreeList /\ Entries /\ Parks /\ Retires /\ Kept
      /\ Loads /\ Counted /\ Awaited /\ Buffers /\ HeldUnsent /\ Named
  BY DEF Running
<1>2. /\ n \in 1 .. Len(cmd) /\ batch'.done = 0
      /\ UNCHANGED <<entry, inflight, park, snd, sfree, held, ctl, jobs, res, ldr, ack, voice, heap>>
      /\ Len(cmd') = Len(cmd) - n
      /\ \A k \in 1 .. Len(cmd) - n : cmd'[k] = cmd[k + n]
  BY DrainEndDoes DEF NoBatch
<1>3. /\ DOMAIN cmd = 1 .. Len(cmd) /\ Len(cmd) \in Nat /\ n \in Nat
      /\ DOMAIN cmd' = 1 .. Len(cmd) - n
  BY <1>2, SeqDomain, SeqDomainPrime
<1>4. Waiting = n + 1 .. Len(cmd) /\ Waiting' = 1 .. Len(cmd) - n
  BY <1>2, <1>3 DEF Waiting
<1> HIDE DEF n
<1>5. /\ \A k \in Waiting' : k \in Nat /\ k + n \in Waiting /\ cmd'[k] = cmd[k + n] /\ k + n \in DOMAIN cmd
      /\ \A j, k \in Waiting' : j + n = k + n => j = k
      /\ \A k \in Waiting : k \in Nat /\ k - n \in Waiting' /\ cmd'[k - n] = cmd[k]
      /\ DOMAIN cmd' = Waiting'
  BY <1>2, <1>3, <1>4
<1>6. FreeList' /\ Entries' /\ Parks' /\ Loads' /\ Counted' /\ Awaited' /\ Buffers' /\ HeldUnsent'
  BY <1>1, <1>2, Alone
<1>7. Retires'
  <2>1. \A k \in Waiting' : cmd'[k].t = "RETIRE" => Is(cmd'[k].s, "retiring")
    BY <1>1, <1>5 DEF Retires
  <2>2. \A k \in Waiting' : cmd'[k].t = "RETIRE" => Is(cmd[k].s, "retiring")'
    BY <1>2, <2>1 DEF Is
  <2>3. \A k \in DOMAIN ack' : Is(ack[k], "retiring")'
    BY <1>1, <1>2 DEF Retires, Is
  <2>4. \A j, k \in Waiting' : cmd'[j].t = "RETIRE" /\ cmd'[k].t = "RETIRE" /\ cmd'[j].s = cmd'[k].s => j = k
    BY <1>1, <1>5 DEF Retires
  <2>5. \A j \in Waiting', k \in DOMAIN ack' : cmd'[j].t = "RETIRE" => cmd'[j].s # ack'[k]
    BY <1>1, <1>2, <1>5 DEF Retires
  <2>6. /\ \A j, k \in DOMAIN ack' : ack'[j] = ack'[k] => j = k
        /\ ctl'.pc = "events" => 1 <= ctl'.left /\ ctl'.left <= Len(ack')
    BY <1>1, <1>2 DEF Retires
  <2> QED BY <2>2, <2>3, <2>4, <2>5, <2>6 DEF Retires
<1>8. Kept'
  <2>1. ASSUME NEW h, \E k \in Waiting : cmd[k].t = "RETIRE" /\ cmd[k].s = h
        PROVE  \E k \in Waiting' : cmd'[k].t = "RETIRE" /\ cmd'[k].s = h
    BY <1>5, <2>1
  <2>2. \A g, st : Is(g, st)' <=> Is(g, st)
    BY <1>2 DEF Is
  <2>3. ASSUME NEW g \in Handle, Is(g, "retiring")
        PROVE  \/ \E k \in Waiting' : cmd'[k].t = "RETIRE" /\ cmd'[k].s = g
               \/ \E k \in DOMAIN ack' : ack'[k] = g
    <3>1. (\E k \in Waiting : cmd[k].t = "RETIRE" /\ cmd[k].s = g) \/ \E k \in DOMAIN ack : ack[k] = g
      BY <1>1, <2>3 DEF Kept
    <3> QED BY <1>2, <2>1, <3>1
  <2> QED BY <1>1, <1>2, <2>2, <2>3 DEF Kept
<1>9. Named'
  <2>1. \A k \in DOMAIN cmd' : cmd'[k].t \in {"PLAY", "RETIRE"} => Given(cmd'[k].s) /\ ~Is(cmd'[k].s, "pending")
    BY <1>1, <1>5 DEF Named
  <2>2. \A k \in DOMAIN cmd' : cmd'[k].t \in {"PLAY", "RETIRE"} => Given(cmd[k].s)' /\ ~Is(cmd[k].s, "pending")'
    BY <1>2, <2>1 DEF Given, Is
  <2>3. ASSUME NEW k \in Nat, NEW h, Visible(k + n, h)
        PROVE  Is(h, "live") \/ (Is(h, "retiring") /\ \E j \in Waiting' : j > k /\ cmd'[j].t = "RETIRE" /\ cmd'[j].s = h)
    <3>1. \A j \in Waiting : j > k + n => j - n > k
      BY <1>3, <1>5
    <3> QED BY <1>5, <2>3, <3>1 DEF Visible, RetireAfter
  <2>4. ASSUME NEW k \in Waiting', cmd'[k].t = "PLAY"
        PROVE  Visible(k, cmd[k].s)'
    <3>1. k \in Nat /\ Visible(k + n, cmd'[k].s)
      BY <1>1, <1>5, <2>4 DEF Named
    <3>2. \/ Is(cmd'[k].s, "live")
          \/ Is(cmd'[k].s, "retiring") /\ \E j \in Waiting' : j > k /\ cmd'[j].t = "RETIRE" /\ cmd'[j].s = cmd'[k].s
      BY <2>3, <3>1
    <3> QED BY <1>2, <3>2 DEF Visible, RetireAfter, Is
  <2>5. ASSUME NEW i \in Voice, voice'[i].snd # None
        PROVE  Visible(batch.done, voice[i].snd)'
    <3>1. Visible(0 + n, voice'[i].snd)
      BY <1>1, <1>2, <1>3, <2>5 DEF Named, n
    <3>2. \/ Is(voice'[i].snd, "live")
          \/ Is(voice'[i].snd, "retiring") /\ \E j \in Waiting' : j > 0 /\ cmd'[j].t = "RETIRE" /\ cmd'[j].s = voice'[i].snd
      BY <2>3, <3>1
    <3> QED BY <1>2, <3>2 DEF Visible, RetireAfter, Is
  <2> QED BY <2>2, <2>4, <2>5 DEF Named
<1> QED BY <1>6, <1>7, <1>8, <1>9 DEF Running

-----------------------------------------------------------------------------
(* The last owner lets go: retiring, parking, and the way back to the free list. *)

\* A loaded sound is retired, or the ring is full: what does not depend on who owned it.
LEMMA RetireKeeps ==
    ASSUME TypeOK, TypeOK', Running, NEW h \in Handle, Is(h, "live"),
           ctl.pc \notin {"fire", "seek"}, ctl'.pc \notin {"fire", "seek", "events"},
           UNCHANGED <<inflight, sfree, jobs, res, ldr, ack, batch, voice, heap>>,
           held' = HeldButSnd(h), Push(C("RETIRE", None, h)),
           \A s \in Sound : /\ snd'[s].gen = snd[s].gen
                            /\ snd'[s].st = IF s = h.idx /\ CmdRoom(1) THEN "retiring" ELSE snd[s].st
    PROVE  /\ FreeList' /\ Retires' /\ Loads' /\ Counted' /\ Buffers' /\ HeldUnsent' /\ Named'
           /\ \A k \in Waiting : k \in Waiting' /\ cmd'[k] = cmd[k]
           /\ CmdRoom(1) => \E k \in Waiting' : cmd'[k].t = "RETIRE" /\ cmd'[k].s = h
<1>1. /\ FreeList /\ Entries /\ Parks /\ Retires /\ Kept
      /\ Loads /\ Counted /\ Awaited /\ Buffers /\ HeldUnsent /\ Named
  BY DEF Running
<1> DEFINE c == C("RETIRE", None, h)
           n == Len(cmd) + 1
<1>2. c \in Command /\ c.t = "RETIRE" /\ c.s = h
  BY Handles, CommandIs DEF CommandNames
<1>3. /\ DOMAIN cmd = 1 .. Len(cmd) /\ Len(cmd) \in Nat /\ batch.done \in Nat /\ batch.done <= Len(cmd)
      /\ DOMAIN cmd' = 1 .. Len(cmd')
      /\ h.idx \in Sound /\ snd[h.idx].st = "live" /\ snd[h.idx].gen = h.gen
  BY SeqDomain, SeqDomainPrime, TypeParts DEF Is, RingOK
<1> HIDE DEF c
<1>4. /\ \A k \in 1 .. Len(cmd) : cmd'[k] = cmd[k]
      /\ CmdRoom(1) => Len(cmd') = n /\ cmd'[n] = c
      /\ ~CmdRoom(1) => cmd' = cmd
  BY <1>2, Pushed DEF c
<1> HIDE DEF n
<1>5. /\ n \in Nat /\ \A k \in Waiting : k \in Nat /\ k < n /\ k \in DOMAIN cmd /\ k \in Waiting' /\ cmd'[k] = cmd[k]
      /\ batch.done < n
      /\ CmdRoom(1) => n \in Waiting' /\ cmd'[n].t = "RETIRE" /\ cmd'[n].s = h
      /\ \A k \in Waiting' : k \in Waiting \/ (k = n /\ CmdRoom(1) /\ k \notin Waiting)
      /\ \A k \in DOMAIN cmd' : (k \in DOMAIN cmd /\ cmd'[k] = cmd[k]) \/ (k = n /\ CmdRoom(1) /\ cmd'[k].s = h)
  <2>1. CASE CmdRoom(1)
    <3>1. Len(cmd') = Len(cmd) + 1 /\ cmd'[n] = c /\ n = Len(cmd) + 1
      BY <1>4, <2>1 DEF n
    <3>2. Waiting = batch.done + 1 .. Len(cmd) /\ Waiting' = batch.done + 1 .. Len(cmd) + 1
      BY <3>1 DEF Waiting
    <3> QED BY <1>2, <1>3, <1>4, <2>1, <3>1, <3>2
  <2>2. CASE ~CmdRoom(1)
    <3>1. cmd' = cmd /\ n = Len(cmd) + 1
      BY <1>4, <2>2 DEF n
    <3>2. Waiting = batch.done + 1 .. Len(cmd) /\ Waiting' = Waiting
      BY <3>1 DEF Waiting
    <3> QED BY <1>3, <2>2, <3>1, <3>2
  <2> QED BY <2>1, <2>2
<1>6. \A g : /\ Given(g)' <=> Given(g)
             /\ Is(g, "pending")' <=> Is(g, "pending")
             /\ Is(g, "retiring") => Is(g, "retiring")'
             /\ Is(g, "live") => Is(g, "live")' \/ (CmdRoom(1) /\ Is(g, "retiring")' /\ g.idx = h.idx /\ g.gen = h.gen)
             /\ Is(g, "live")' \/ Is(g, "retiring")' <=> Is(g, "live") \/ Is(g, "retiring")
             /\ CmdRoom(1) => Is(h, "retiring")'
  BY <1>3 DEF Given, Is
<1>7. FreeList'
  BY <1>1, <1>3, TypeParts DEF FreeList, SlotsOK
<1>8. Retires'
  <2>1. \A k \in Waiting' : cmd'[k].t = "RETIRE" => \/ k \in Waiting /\ cmd[k].t = "RETIRE" /\ cmd'[k].s = cmd[k].s
                                                    \/ k = n /\ cmd'[k].s = h /\ CmdRoom(1)
    BY <1>5
  <2>2. \A k \in Waiting : cmd[k].t = "RETIRE" => Is(cmd[k].s, "retiring") /\ cmd[k].s # h
    BY <1>1, <1>3 DEF Retires, Is
  <2>3. \A k \in DOMAIN ack : Is(ack[k], "retiring") /\ ack[k] # h
    BY <1>1, <1>3 DEF Retires, Is
  <2>4. \A k \in Waiting' : cmd'[k].t = "RETIRE" => Is(cmd[k].s, "retiring")'
    BY <1>3, <2>1, <2>2 DEF Is
  <2>5. \A k \in DOMAIN ack' : Is(ack[k], "retiring")'
    BY <2>3, <1>3 DEF Is
  <2>6. \A j, k \in Waiting' : cmd'[j].t = "RETIRE" /\ cmd'[k].t = "RETIRE" /\ cmd'[j].s = cmd'[k].s => j = k
    BY <1>1, <2>1, <2>2 DEF Retires
  <2>7. \A j \in Waiting', k \in DOMAIN ack' : cmd'[j].t = "RETIRE" => cmd'[j].s # ack'[k]
    BY <1>1, <2>1, <2>3 DEF Retires
  <2>8. \A j, k \in DOMAIN ack' : ack'[j] = ack'[k] => j = k
    BY <1>1 DEF Retires
  <2> QED BY <2>4, <2>5, <2>6, <2>7, <2>8 DEF Retires
<1>9. Loads'
  <2>1. \A k \in DOMAIN jobs' : Unborn(jobs[k])' /\ ~InLoader(jobs[k])'
    BY <1>1, <1>3 DEF Loads, Unborn, Given, Is, InLoader
  <2>2. \A k \in DOMAIN res' : Unborn(res[k].snd)' /\ ~InLoader(res[k].snd)'
    BY <1>1, <1>3 DEF Loads, Unborn, Given, Is, InLoader
  <2>3. ldr'.pc \in {"decode", "push"} => Unborn(ldr.snd)'
    BY <1>1, <1>3 DEF Loads, Unborn, Given, Is, InLoader
  <2> QED BY <1>1, <2>1, <2>2, <2>3 DEF Loads
<1>10. Counted'
  BY <1>1, Alone
<1>11. Buffers'
  BY <1>1, <1>3 DEF Buffers, Is
<1>12. HeldUnsent'
  <2>1. \A p \in held' : Is(p.snd, "pending")
    BY <1>1 DEF HeldUnsent, HeldButSnd
  <2> QED BY <1>3, <2>1 DEF HeldUnsent, Is
<1>13. Named'
  <2>1. \A k \in DOMAIN cmd' : cmd'[k].t \in {"PLAY", "RETIRE"} => Given(cmd'[k].s) /\ ~Is(cmd'[k].s, "pending")
    <3>1. Given(h) /\ ~Is(h, "pending")
      BY <1>3, TypeParts DEF Given, Is, SlotsOK, SndRec
    <3> QED BY <1>1, <1>5, <3>1 DEF Named
  <2>2. \A k \in DOMAIN cmd' : cmd'[k].t \in {"PLAY", "RETIRE"} => Given(cmd[k].s)' /\ ~Is(cmd[k].s, "pending")'
    BY <1>3, <2>1 DEF Given, Is
  <2>3. ASSUME NEW k \in Nat, k < n, NEW g \in Handle, Visible(k, g)
        PROVE  \/ g.idx \in Sound /\ snd'[g.idx].gen = g.gen /\ snd'[g.idx].st = "live"
               \/ /\ g.idx \in Sound /\ snd'[g.idx].gen = g.gen /\ snd'[g.idx].st = "retiring"
                  /\ \E j \in Waiting' : j > k /\ cmd'[j].t = "RETIRE" /\ cmd'[j].s = g
    <3>1. CASE g = h /\ CmdRoom(1)
      BY <1>3, <1>5, <2>3, <3>1
    <3>2. CASE Is(g, "live") /\ ~(g = h /\ CmdRoom(1))
      BY <1>3, <3>2, Handles DEF Is
    <3>3. CASE Is(g, "retiring") /\ RetireAfter(k, g)
      BY <1>3, <1>5, <3>3 DEF Is, RetireAfter
    <3> QED BY <2>3, <3>1, <3>2, <3>3 DEF Visible
  <2>4. ASSUME NEW k \in Waiting', cmd'[k].t = "PLAY"
        PROVE  Visible(k, cmd[k].s)'
    <3>1. k \in Waiting /\ k \in Nat /\ k < n /\ cmd'[k] = cmd[k]
      BY <1>5, <2>4
    <3>2. Visible(k, cmd'[k].s)
      BY <1>1, <2>4, <3>1 DEF Named
    <3>3. cmd[k] \in Command
      BY <1>5, <3>1, TypeParts DEF RingOK
    <3>4. cmd'[k].s \in Handle
      BY <3>1, <3>3 DEF Command
    <3> QED BY <2>3, <3>1, <3>2, <3>4 DEF Visible, RetireAfter, Is
  <2>5. ASSUME NEW i \in Voice, voice'[i].snd # None
        PROVE  Visible(batch.done, voice[i].snd)'
    <3>1. Visible(batch.done, voice'[i].snd) /\ voice'[i].snd \in Handle
      BY <1>1, <2>5, TypeParts DEF Named, VoiceOK, VoiceRec
    <3>2. batch'.done = batch.done /\ batch.done \in Nat /\ batch.done < n
      BY <1>3, <1>5
    <3>3. LET g == voice'[i].snd IN
          \/ g.idx \in Sound /\ snd'[g.idx].gen = g.gen /\ snd'[g.idx].st = "live"
          \/ /\ g.idx \in Sound /\ snd'[g.idx].gen = g.gen /\ snd'[g.idx].st = "retiring"
             /\ \E j \in Waiting' : j > batch.done /\ cmd'[j].t = "RETIRE" /\ cmd'[j].s = g
      BY <2>3, <3>1, <3>2
    <3> QED BY <3>2, <3>3 DEF Visible, RetireAfter, Is
  <2> QED BY <2>2, <2>4, <2>5 DEF Named
<1> QED BY <1>5, <1>7, <1>8, <1>9, <1>10, <1>11, <1>12, <1>13

LEMMA RetryParkKeeps ==
    ASSUME TypeOK, TypeOK', Running, NEW h \in ctl.try, RetryPark(h)
    PROVE  Running'
<1>1. /\ FreeList /\ Entries /\ Parks /\ Retires /\ Kept
      /\ Loads /\ Counted /\ Awaited /\ Buffers /\ HeldUnsent /\ Named
  BY DEF Running
<1>2. /\ ctl.pc = "park" /\ h \in park /\ h \in Handle /\ Is(h, "live") /\ h.idx \in Sound
      /\ UNCHANGED <<entry, inflight, sfree, slot, want, jobs, res, jobEv, stop, ldr, ack, batch, voice, heap>>
      /\ ctl'.pc = "park" /\ ctl'.try = ctl.try \ {h}
      /\ held' = HeldButSnd(h)
      /\ \A s \in Sound : /\ snd'[s].gen = snd[s].gen
                          /\ snd'[s].st = IF s = h.idx /\ CmdRoom(1) THEN "retiring" ELSE snd[s].st
      /\ Push(C("RETIRE", None, h))
      /\ park' = IF CmdRoom(1) THEN park \ {h} ELSE park
  BY <1>1, RetryParkDoes
<1>3. /\ FreeList' /\ Retires' /\ Loads' /\ Counted' /\ Buffers' /\ HeldUnsent' /\ Named'
      /\ \A k \in Waiting : k \in Waiting' /\ cmd'[k] = cmd[k]
      /\ CmdRoom(1) => \E k \in Waiting' : cmd'[k].t = "RETIRE" /\ cmd'[k].s = h
  BY <1>2, RetireKeeps
<1>4. snd[h.idx].gen = h.gen /\ snd[h.idx].st = "live" /\ \A f \in File : entry[f].st # "none" => entry[f].snd # h
  BY <1>1, <1>2 DEF Parks, Is
<1>5. entry \in [File -> EntryRec] /\ park \subseteq Handle
  BY TypeParts DEF CacheOK
<1>6. Entries'
  <2>1. ASSUME NEW f \in File, NEW st, Is(entry[f].snd, st), entry[f].st # "none"
        PROVE  entry[f].snd.idx \in Sound /\ snd'[entry[f].snd.idx].gen = entry[f].snd.gen /\ snd'[entry[f].snd.idx].st = st
    <3>1. entry[f].snd # h /\ entry[f].snd \in Handle
      BY <1>4, <1>5, <2>1 DEF EntryRec
    <3>2. entry[f].snd.idx # h.idx
      BY <1>2, <1>4, <2>1, <3>1, Handles DEF Is
    <3> QED BY <1>2, <2>1, <3>2 DEF Is
  <2> QED BY <1>1, <1>2, <2>1 DEF Entries, Is
<1>7. Parks'
  <2>1. ASSUME NEW g \in park' PROVE Is(g, "live")' /\ \A f \in File : entry'[f].st # "none" => entry'[f].snd # g
    <3>1. /\ g \in park /\ g \in Handle /\ g.idx \in Sound /\ snd[g.idx].gen = g.gen /\ snd[g.idx].st = "live"
          /\ \A f \in File : entry[f].st # "none" => entry[f].snd # g
      BY <1>1, <1>2, <1>5, <2>1 DEF Parks, Is
    <3>2. g.idx = h.idx => g = h
      BY <1>2, <1>4, <3>1, Handles
    <3>3. CmdRoom(1) => g # h
      BY <1>2, <2>1
    <3> QED BY <1>2, <3>1, <3>2, <3>3 DEF Is
  <2>2. ctl'.try \subseteq park'
    BY <1>1, <1>2 DEF Parks
  <2> QED BY <2>1, <2>2 DEF Parks
<1>8. Kept'
  <2>1. ASSUME NEW g \in Handle, Is(g, "live"), ~(g = h /\ CmdRoom(1))
        PROVE  g \in park' \/ \E f \in File : entry[f].st = "ready" /\ entry[f].snd = g
    BY <1>1, <1>2, <2>1 DEF Kept
  <2>2. ASSUME NEW g \in Handle, Is(g, "retiring") \/ (g = h /\ CmdRoom(1))
        PROVE  \/ \E k \in Waiting' : cmd'[k].t = "RETIRE" /\ cmd'[k].s = g
               \/ \E k \in DOMAIN ack : ack[k] = g
    BY <1>1, <1>3, <2>2 DEF Kept
  <2>3. ASSUME NEW g \in Handle, g.idx \in Sound, snd'[g.idx].gen = g.gen
        PROVE  /\ snd'[g.idx].st = "pending" => Is(g, "pending")
               /\ snd'[g.idx].st = "live" => Is(g, "live") /\ ~(g = h /\ CmdRoom(1))
               /\ snd'[g.idx].st = "retiring" => Is(g, "retiring") \/ (g = h /\ CmdRoom(1))
    BY <1>2, <1>4, <2>3, Handles DEF Is
  <2>4. \A g \in Handle : Is(g, "pending") => \E f \in File : entry'[f].st \in {"loading", "failed"} /\ entry'[f].snd = g
    BY <1>1, <1>2 DEF Kept
  <2> QED BY <1>2, <2>1, <2>2, <2>3, <2>4 DEF Kept, Is
<1>9. Awaited'
  BY <1>1, <1>2, Alone
<1> QED BY <1>3, <1>6, <1>7, <1>8, <1>9 DEF Running

\* Whatever is named is a handle.
LEMMA HandlesIn ==
    ASSUME TypeOK
    PROVE  /\ \A k \in DOMAIN jobs : jobs[k] \in Handle
           /\ \A k \in DOMAIN res : res[k] \in ResRec /\ res[k].snd \in Handle
           /\ \A k \in DOMAIN ack : ack[k] \in Handle
           /\ \A k \in DOMAIN cmd : cmd[k] \in Command /\ cmd[k].s \in Handle
           /\ \A k \in Waiting : k \in DOMAIN cmd /\ cmd[k].s \in Handle
           /\ \A i \in Voice : voice[i].snd \in Handle
           /\ ldr.snd \in Handle
           /\ \A f \in File : entry[f].snd \in Handle
           /\ \A p \in held : p.snd \in Handle
<1>1. /\ jobs \in Seq(Handle) /\ res \in Seq(ResRec) /\ ack \in Seq(Handle) /\ cmd \in Seq(Command)
      /\ ldr \in LdrRec /\ voice \in [Voice -> VoiceRec] /\ entry \in [File -> EntryRec] /\ held \subseteq HeldRec
  BY TypeParts DEF LoadOK, RingOK, VoiceOK, CacheOK, SlotsOK
<1>2. \A k \in DOMAIN jobs : jobs[k] \in Handle
  BY <1>1
<1>3. \A k \in DOMAIN res : res[k] \in ResRec /\ res[k].snd \in Handle
  <2>1. \A k \in DOMAIN res : res[k] \in ResRec
    BY <1>1
  <2> QED BY <2>1 DEF ResRec
<1>4. \A k \in DOMAIN ack : ack[k] \in Handle
  BY <1>1
<1>5. \A k \in DOMAIN cmd : cmd[k] \in Command /\ cmd[k].s \in Handle
  <2>1. \A k \in DOMAIN cmd : cmd[k] \in Command
    BY <1>1
  <2> QED BY <2>1 DEF Command
<1>6. \A k \in Waiting : k \in DOMAIN cmd
  BY SeqDomain DEF Waiting
<1>7. \A i \in Voice : voice[i].snd \in Handle
  BY <1>1 DEF VoiceRec
<1>8. ldr.snd \in Handle
  BY <1>1 DEF LdrRec
<1>9. \A f \in File : entry[f].snd \in Handle
  BY <1>1 DEF EntryRec
<1>10. \A p \in held : p.snd \in Handle
  BY <1>1 DEF HeldRec
<1> QED BY <1>2, <1>3, <1>4, <1>5, <1>6, <1>7, <1>8, <1>9, <1>10

\* A slot goes back to the free list.
LEMMA FreedList ==
    ASSUME TypeOK, TypeOK', FreeList, NEW i \in Sound, snd[i].st # "free", sfree' = Append(sfree, i),
           \A s \in Sound : snd'[s].gen = snd[s].gen /\ snd'[s].st = IF s = i THEN "free" ELSE snd[s].st
    PROVE  FreeList'
<1>1. sfree \in Seq(Sound) /\ DOMAIN sfree = 1 .. Len(sfree) /\ Len(sfree) \in Nat
  BY SeqDomain, TypeParts DEF SlotsOK
<1>2. /\ DOMAIN sfree' = 1 .. Len(sfree) + 1 /\ sfree'[Len(sfree) + 1] = i
      /\ \A k \in 1 .. Len(sfree) : sfree'[k] = sfree[k]
  BY <1>1, AppendOf, SeqDomainPrime
<1>3. \A k \in DOMAIN sfree : sfree[k] \in Sound /\ sfree[k] # i /\ snd[sfree[k]].st = "free"
  BY <1>1 DEF FreeList
<1>4. \A k \in DOMAIN sfree' : \/ k \in DOMAIN sfree /\ sfree'[k] = sfree[k]
                               \/ k = Len(sfree) + 1 /\ sfree'[k] = i
  BY <1>1, <1>2
<1>5. \A k \in DOMAIN sfree' : snd'[sfree'[k]].st = "free"
  BY <1>3, <1>4
<1>6. \A j, k \in DOMAIN sfree' : sfree'[j] = sfree'[k] => j = k
  BY <1>3, <1>4 DEF FreeList
<1> QED BY <1>5, <1>6 DEF FreeList

LEMMA ReleaseKeeps ==
    ASSUME TypeOK, TypeOK', Running, NEW f \in File, Release(f)
    PROVE  Running'
<1> DEFINE h == entry[f].snd
<1>1. /\ FreeList /\ Entries /\ Parks /\ Retires /\ Kept
      /\ Loads /\ Counted /\ Awaited /\ Buffers /\ HeldUnsent /\ Named
  BY DEF Running
<1>2. /\ ctl.pc = "body" /\ entry[f].st # "none" /\ h \in Handle /\ h.idx \in Sound
      /\ UNCHANGED <<inflight, slot, want, jobs, res, jobEv, stop, ldr, ack, batch, voice, heap>>
      /\ ctl'.pc = "idle"
      /\ \A g \in File \ {f} : entry'[g] = entry[g]
      /\ \A s \in Sound : snd'[s].gen = snd[s].gen
  BY <1>1, ReleaseDoes
<1>3. entry \in [File -> EntryRec] /\ park \subseteq Handle /\ held \subseteq HeldRec
  BY TypeParts DEF CacheOK, SlotsOK
<1>4. CASE /\ entry'[f].snd = entry[f].snd /\ entry'[f].st = entry[f].st
           /\ UNCHANGED <<snd, sfree, held, cmd, park>>
  <2>1. HeldUnsent'
    BY <1>1, <1>2, <1>4 DEF HeldUnsent, Is
  <2>2. \A g \in File : entry'[g].snd = entry[g].snd /\ entry'[g].st = entry[g].st
    BY <1>2, <1>4
  <2>3. /\ Len(cmd') >= Len(cmd) /\ \A k \in 1 .. Len(cmd) : cmd'[k] = cmd[k]
        /\ \A k \in 1 .. Len(cmd') :
              k > Len(cmd) => cmd'[k].t # "RETIRE" /\ (cmd'[k].t = "PLAY" => Is(cmd'[k].s, "live"))
    BY <1>4, SeqDomain
  <2> QED BY <1>2, <1>4, <2>1, <2>2, <2>3, QuietKeeps
<1> HIDE DEF h
<1>5. CASE /\ entry'[f].st = "none" /\ entry[f].st \in {"loading", "failed"}
           /\ \A s \in Sound : snd'[s].st = IF s = h.idx THEN "free" ELSE snd[s].st
           /\ sfree' = Append(sfree, h.idx)
           /\ held' = HeldButSnd(h) /\ UNCHANGED <<cmd, park>>
  <2>1. snd[h.idx].gen = h.gen /\ snd[h.idx].st = "pending"
    BY <1>1, <1>5 DEF Entries, Is, h
  <2>2. \A g \in File : g # f /\ entry[g].st # "none" => entry[g].snd # h
    BY <1>1, <1>2 DEF Entries, h
  <2>3. FreeList'
    BY <1>1, <1>2, <1>5, <2>1, FreedList
  <2>4. ASSUME NEW g \in Handle
        PROVE  /\ g.idx \in Sound /\ snd'[g.idx].gen = g.gen /\ snd'[g.idx].st = "pending" <=> Is(g, "pending") /\ g # h
               /\ g.idx \in Sound /\ snd'[g.idx].gen = g.gen /\ snd'[g.idx].st = "live" <=> Is(g, "live")
               /\ g.idx \in Sound /\ snd'[g.idx].gen = g.gen /\ snd'[g.idx].st = "retiring" <=> Is(g, "retiring")
               /\ g.idx \in Sound /\ g.gen <= snd'[g.idx].gen <=> Given(g)
    BY <1>2, <1>5, <2>1, Handles DEF Is, Given
  <2>5. Entries'
    <3>1. \A g \in File : entry'[g].st # "none" => g # f /\ entry'[g] = entry[g] /\ entry[g].snd # h /\ entry[g].snd \in Handle
      BY <1>2, <1>3, <1>5, <2>2 DEF EntryRec
    <3> QED BY <1>1, <2>4, <3>1 DEF Entries, Is
  <2>6. Parks'
    BY <1>1, <1>2, <1>3, <1>5, <2>4 DEF Parks, Is
  <2>7. Retires'
    <3>1. \A k \in Waiting : cmd[k].s \in Handle
      BY HandlesIn
    <3>2. \A k \in DOMAIN ack : ack[k] \in Handle
      BY HandlesIn
    <3> QED BY <1>1, <1>2, <1>5, <2>4, <3>1, <3>2 DEF Retires, Waiting, Is
  <2>8. Kept'
    <3>1. ASSUME NEW g \in Handle, Is(g, "pending") /\ g # h
          PROVE  \E e \in File : entry'[e].st \in {"loading", "failed"} /\ entry'[e].snd = g
      BY <1>1, <1>2, <3>1 DEF Kept, h
    <3>2. ASSUME NEW g \in Handle, Is(g, "live")
          PROVE  g \in park \/ \E e \in File : entry'[e].st = "ready" /\ entry'[e].snd = g
      BY <1>1, <1>2, <1>5, <3>2 DEF Kept
    <3>3. ASSUME NEW g \in Handle, Is(g, "retiring")
          PROVE  (\E k \in Waiting' : cmd'[k].t = "RETIRE" /\ cmd'[k].s = g) \/ \E k \in DOMAIN ack : ack[k] = g
      BY <1>1, <1>2, <1>5, <3>3 DEF Kept, Waiting
    <3> QED BY <1>2, <1>5, <2>4, <3>1, <3>2, <3>3 DEF Kept, Is
  <2>9. Loads'
    <3>1. /\ \A k \in DOMAIN jobs : jobs[k] \in Handle
          /\ \A k \in DOMAIN res : res[k].snd \in Handle
          /\ ldr.snd \in Handle
      BY HandlesIn
    <3> QED BY <1>1, <1>2, <2>4, <3>1 DEF Loads, Unborn, Given, Is, InLoader
  <2>10. Counted'
    BY <1>1, <1>2, Alone
  <2>11. Awaited'
    BY <1>1, <1>2, <1>5 DEF Awaited, InLoader
  <2>12. Buffers'
    BY <1>1, <1>2, <2>4 DEF Buffers, Is
  <2>13. HeldUnsent'
    <3>1. \A p \in held' : p.snd \in Handle /\ Is(p.snd, "pending") /\ p.snd # h
      BY <1>1, <1>2, <1>3, <1>5 DEF HeldUnsent, HeldButSnd, HeldRec
    <3> QED BY <1>2, <2>4, <3>1 DEF HeldUnsent, Is
  <2>14. Named'
    <3>1. /\ \A k \in DOMAIN cmd : cmd[k] \in Command /\ cmd[k].s \in Handle
          /\ \A k \in Waiting : k \in DOMAIN cmd
          /\ \A i \in Voice : voice[i].snd \in Handle
      BY HandlesIn
    <3>2. Waiting' = Waiting /\ cmd' = cmd /\ UNCHANGED <<batch, voice>>
      BY <1>2, <1>5 DEF Waiting
    <3>3. \A g \in Handle : (Given(g) => Given(g)') /\ (Is(g, "pending")' => Is(g, "pending"))
      BY <1>2, <2>4 DEF Given, Is
    <3>4. ASSUME NEW k \in DOMAIN cmd, NEW g \in Handle, g = cmd[k].s, cmd[k].t \in {"PLAY", "RETIRE"}
          PROVE  Given(g)' /\ ~Is(g, "pending")'
      BY <1>1, <3>3, <3>4 DEF Named
    <3>5. \A k : \A g \in Handle : RetireAfter(k, g) => RetireAfter(k, g)'
      BY <3>2 DEF RetireAfter
    <3>6. \A k : \A g \in Handle : Visible(k, g) => Visible(k, g)'
      BY <1>2, <2>4, <3>5 DEF Visible, Is
    <3>7. (\A k \in DOMAIN cmd : cmd[k].t \in {"PLAY", "RETIRE"} => Given(cmd[k].s) /\ ~Is(cmd[k].s, "pending"))'
      BY <3>1, <3>2, <3>4 DEF Given, Is
    <3>8. ASSUME NEW k, NEW g \in Handle, Visible(k, g) PROVE Visible(k, g)'
      BY <3>6, <3>8
    <3>9. (\A k \in Waiting : cmd[k].t = "PLAY" => Visible(k, cmd[k].s))'
      BY <1>1, <3>1, <3>2, <3>8 DEF Named, Visible, RetireAfter, Is
    <3>10. (\A i \in Voice : voice[i].snd # None => Visible(batch.done, voice[i].snd))'
      BY <1>1, <3>1, <3>2, <3>8 DEF Named, Visible, RetireAfter, Is
    <3> QED BY <3>7, <3>9, <3>10 DEF Named
  <2> QED BY <2>3, <2>5, <2>6, <2>7, <2>8, <2>9, <2>10, <2>11, <2>12, <2>13, <2>14 DEF Running
<1>6. CASE /\ entry'[f].st = "none" /\ entry[f].st = "ready"
           /\ \A s \in Sound : snd'[s].st = IF s = h.idx /\ CmdRoom(1) THEN "retiring" ELSE snd[s].st
           /\ held' = HeldButSnd(h) /\ UNCHANGED sfree
           /\ Push(C("RETIRE", None, h))
           /\ park' = IF CmdRoom(1) THEN park ELSE park \cup {h}
  <2>1. snd[h.idx].gen = h.gen /\ snd[h.idx].st = "live" /\ Is(h, "live")
    BY <1>1, <1>6 DEF Entries, Is, h
  <2>2. \A g \in File : g # f /\ entry[g].st # "none" => entry[g].snd # h
    BY <1>1, <1>2 DEF Entries, h
  <2>3. /\ FreeList' /\ Retires' /\ Loads' /\ Counted' /\ Buffers' /\ HeldUnsent' /\ Named'
        /\ \A k \in Waiting : k \in Waiting' /\ cmd'[k] = cmd[k]
        /\ CmdRoom(1) => \E k \in Waiting' : cmd'[k].t = "RETIRE" /\ cmd'[k].s = h
    BY <1>2, <1>6, <2>1, RetireKeeps
  <2>4. ASSUME NEW g \in Handle, g.idx \in Sound, snd'[g.idx].gen = g.gen
        PROVE  /\ snd'[g.idx].st = "pending" <=> Is(g, "pending")
               /\ snd'[g.idx].st = "live" <=> Is(g, "live") /\ ~(g = h /\ CmdRoom(1))
               /\ snd'[g.idx].st = "retiring" <=> Is(g, "retiring") \/ (g = h /\ CmdRoom(1))
    BY <1>2, <1>6, <2>1, <2>4, Handles DEF Is
  <2>5. Entries'
    <3>1. \A g \in File : entry'[g].st # "none" => g # f /\ entry'[g] = entry[g] /\ entry[g].snd # h /\ entry[g].snd \in Handle
      BY <1>2, <1>3, <1>6, <2>2 DEF EntryRec
    <3>2. ASSUME NEW g \in File, NEW st, entry'[g].st # "none", Is(entry[g].snd, st), st \in {"live", "pending"}
          PROVE  /\ entry[g].snd.idx \in Sound /\ snd'[entry[g].snd.idx].gen = entry[g].snd.gen
                 /\ snd'[entry[g].snd.idx].st = st
      BY <1>2, <2>4, <3>1, <3>2 DEF Is
    <3> QED BY <1>1, <3>1, <3>2 DEF Entries, Is
  <2>6. Parks'
    <3>1. \A g \in park : Is(g, "live") /\ g # h /\ g \in Handle
      BY <1>1, <1>2, <1>3 DEF Parks, h
    <3>2. \A g \in park' : g \in Handle /\ Is(g, "live") /\ ~(g = h /\ CmdRoom(1))
      BY <1>2, <1>6, <2>1, <3>1
    <3>3. \A g \in park' : g.idx \in Sound /\ snd'[g.idx].gen = g.gen /\ snd'[g.idx].st = "live"
      BY <1>2, <2>4, <3>2 DEF Is
    <3>4. \A g \in park' : \A e \in File : entry'[e].st # "none" => entry'[e].snd # g
      BY <1>1, <1>2, <1>6, <2>2 DEF Parks
    <3> QED BY <1>2, <3>3, <3>4 DEF Parks, Is
  <2>7. Kept'
    <3>1. ASSUME NEW g \in Handle, Is(g, "live"), ~(g = h /\ CmdRoom(1))
          PROVE  g \in park' \/ \E e \in File : entry'[e].st = "ready" /\ entry'[e].snd = g
      <4>1. CASE g = h
        BY <1>6, <3>1, <4>1
      <4>2. CASE g # h
        BY <1>1, <1>2, <1>6, <3>1, <4>2 DEF Kept, h
      <4> QED BY <4>1, <4>2
    <3>2. ASSUME NEW g \in Handle, Is(g, "retiring") \/ (g = h /\ CmdRoom(1))
          PROVE  \/ \E k \in Waiting' : cmd'[k].t = "RETIRE" /\ cmd'[k].s = g
                 \/ \E k \in DOMAIN ack : ack[k] = g
      BY <1>1, <2>3, <3>2 DEF Kept
    <3>3. \A g \in Handle : Is(g, "pending") => \E e \in File : entry'[e].st \in {"loading", "failed"} /\ entry'[e].snd = g
      BY <1>1, <1>2, <1>6 DEF Kept
    <3> QED BY <1>2, <2>4, <3>1, <3>2, <3>3 DEF Kept, Is
  <2>8. Awaited'
    BY <1>1, <1>2, <1>6 DEF Awaited, InLoader
  <2> QED BY <2>3, <2>5, <2>6, <2>7, <2>8 DEF Running
<1> QED BY <1>1, <1>4, <1>5, <1>6, ReleaseDoes DEF h

LEMMA TakeAckKeeps ==
    ASSUME TypeOK, TypeOK', Running, TakeAck
    PROVE  Running'
<1> DEFINE h == ack[1]
<1>1. /\ FreeList /\ Entries /\ Parks /\ Retires /\ Kept
      /\ Loads /\ Counted /\ Awaited /\ Buffers /\ HeldUnsent /\ Named
  BY DEF Running
<1>2. /\ ctl.pc = "events" /\ Len(ack) >= 1 /\ h \in Handle /\ h.idx \in Sound
      /\ snd[h.idx].gen = h.gen /\ snd[h.idx].st = "retiring"
      /\ UNCHANGED <<entry, inflight, park, held, jobs, res, ldr, cmd, batch, voice>>
      /\ \A s \in Sound : snd'[s].gen = snd[s].gen /\ snd'[s].st = IF s = h.idx THEN "free" ELSE snd[s].st
      /\ sfree' = Append(sfree, h.idx) /\ heap' = heap \ {h}
      /\ Len(ack') = Len(ack) - 1 /\ \A k \in 1 .. Len(ack) - 1 : ack'[k] = ack[k + 1]
      /\ ctl'.pc = "idle" \/ (ctl'.pc = "events" /\ ctl'.left \in 1 .. Len(ack) - 1)
  <2>1. Len(ack) >= 1
    BY <1>1, TakeAckDoes, SeqDomain
  <2> QED BY <1>1, <2>1, TakeAckDoes DEF Is
<1>3. /\ DOMAIN ack = 1 .. Len(ack) /\ Len(ack) \in Nat /\ DOMAIN ack' = 1 .. Len(ack) - 1
  BY <1>2, SeqDomain, SeqDomainPrime
<1>4. /\ 1 \in DOMAIN ack /\ h = ack[1]
      /\ \A k \in DOMAIN ack' : k + 1 \in DOMAIN ack /\ k + 1 # 1 /\ ack'[k] = ack[k + 1]
      /\ \A j, k \in DOMAIN ack' : j + 1 = k + 1 => j = k
      /\ \A k \in DOMAIN ack : k = 1 \/ (k - 1 \in DOMAIN ack' /\ ack'[k - 1] = ack[k])
  BY <1>2, <1>3
<1> HIDE DEF h
<1>5. ASSUME NEW g \in Handle
      PROVE  /\ g.idx \in Sound /\ snd'[g.idx].gen = g.gen /\ snd'[g.idx].st = "pending" <=> Is(g, "pending")
             /\ g.idx \in Sound /\ snd'[g.idx].gen = g.gen /\ snd'[g.idx].st = "live" <=> Is(g, "live")
             /\ g.idx \in Sound /\ snd'[g.idx].gen = g.gen /\ snd'[g.idx].st = "retiring" <=> Is(g, "retiring") /\ g # h
             /\ g.idx \in Sound /\ g.gen <= snd'[g.idx].gen <=> Given(g)
  <2>1. g.idx \in Sound /\ g.idx # h.idx => snd'[g.idx].gen = snd[g.idx].gen /\ snd'[g.idx].st = snd[g.idx].st
    BY <1>2
  <2>2. g.idx = h.idx => snd'[g.idx].gen = h.gen /\ snd'[g.idx].st = "free"
    BY <1>2
  <2>3. g.idx = h.idx /\ g.gen = h.gen => g = h
    BY <1>2, Handles
  <2>4. g.idx \in Sound /\ g.gen <= snd'[g.idx].gen <=> Given(g)
    BY <1>2 DEF Given
  <2>5. Is(g, "pending") \/ Is(g, "live") => g.idx # h.idx
    BY <1>2 DEF Is
  <2>6. Is(g, "retiring") => g.idx # h.idx \/ g = h
    BY <1>2, <2>3 DEF Is
  <2> QED BY <2>1, <2>2, <2>4, <2>5, <2>6 DEF Is
<1>6. Is(h, "retiring") /\ ~Is(h, "live") /\ ~Is(h, "pending")
  BY <1>2 DEF Is
<1>7. /\ \A k \in Waiting : cmd[k].t = "RETIRE" => cmd[k].s # h
      /\ \A k \in DOMAIN ack' : ack'[k] # h
  <2>1. \A k \in DOMAIN ack : k # 1 => ack[k] # h
    BY <1>1, <1>4 DEF Retires
  <2> QED BY <1>1, <1>4, <2>1 DEF Retires
<1>8. FreeList'
  BY <1>1, <1>2, FreedList
<1>9. Entries'
  BY <1>1, <1>2, <1>5, HandlesIn DEF Entries, Is
<1>10. Parks'
  <2>1. \A g \in park : g \in Handle
    BY TypeParts DEF CacheOK
  <2> QED BY <1>1, <1>2, <1>5, <2>1 DEF Parks, Is
<1>11. Retires'
  <2>1. \A k \in Waiting : cmd[k].t = "RETIRE" => Is(cmd[k].s, "retiring") /\ cmd[k].s # h /\ cmd[k].s \in Handle
    BY <1>1, <1>7, HandlesIn DEF Retires
  <2>2. \A k \in Waiting' : cmd'[k].t = "RETIRE" => Is(cmd[k].s, "retiring")'
    BY <1>2, <1>5, <2>1 DEF Waiting, Is
  <2>3. \A k \in DOMAIN ack' : ack'[k] \in Handle /\ Is(ack'[k], "retiring") /\ ack'[k] # h
    BY <1>1, <1>4, <1>7, HandlesIn DEF Retires
  <2>4. \A k \in DOMAIN ack' : Is(ack[k], "retiring")'
    BY <1>5, <2>3 DEF Is
  <2>5. /\ \A j, k \in DOMAIN ack' : ack'[j] = ack'[k] => j = k
        /\ \A j \in Waiting', k \in DOMAIN ack' : cmd'[j].t = "RETIRE" => cmd'[j].s # ack'[k]
    BY <1>1, <1>2, <1>4 DEF Retires, Waiting
  <2>6. \A j, k \in Waiting' : cmd'[j].t = "RETIRE" /\ cmd'[k].t = "RETIRE" /\ cmd'[j].s = cmd'[k].s => j = k
    BY <1>1, <1>2 DEF Retires, Waiting
  <2>7. ctl'.pc = "events" => 1 <= ctl'.left /\ ctl'.left <= Len(ack')
    BY <1>2, <1>3
  <2> QED BY <2>2, <2>4, <2>5, <2>6, <2>7 DEF Retires
<1>12. Kept'
  <2>1. ASSUME NEW g \in Handle, Is(g, "retiring"), g # h
        PROVE  (\E k \in Waiting' : cmd'[k].t = "RETIRE" /\ cmd'[k].s = g) \/ \E k \in DOMAIN ack' : ack'[k] = g
    <3>1. CASE \E k \in Waiting : cmd[k].t = "RETIRE" /\ cmd[k].s = g
      BY <1>2, <3>1 DEF Waiting
    <3>2. CASE \E k \in DOMAIN ack : ack[k] = g
      BY <1>4, <2>1, <3>2
    <3> QED BY <1>1, <2>1, <3>1, <3>2 DEF Kept
  <2> QED BY <1>1, <1>2, <1>5, <2>1 DEF Kept, Is
<1>13. Loads'
  <2>1. /\ \A k \in DOMAIN jobs : Unborn(jobs[k]) /\ jobs[k] \in Handle
        /\ \A k \in DOMAIN res : Unborn(res[k].snd) /\ res[k].snd \in Handle
        /\ ldr.snd \in Handle
    BY <1>1, HandlesIn DEF Loads
  <2> QED BY <1>1, <1>2, <1>5, <2>1 DEF Loads, Unborn, Given, Is, InLoader
<1>14. Counted' /\ Awaited'
  BY <1>1, <1>2, Alone
<1>15. Buffers'
  <2>1. ASSUME NEW g \in Handle
        PROVE  g \in heap' <=> \/ ldr'.pc = "push" /\ ldr'.ok /\ ldr'.snd = g
                               \/ \E k \in DOMAIN res' : res'[k].ok /\ res'[k].snd = g
                               \/ Is(g, "live") \/ (Is(g, "retiring") /\ g # h)
    <3>1. /\ ldr.pc = "push" => ldr.snd # h
          /\ \A k \in DOMAIN res : res[k].snd # h
      BY <1>1, <1>6 DEF Loads, Unborn
    <3> QED BY <1>1, <1>2, <1>6, <3>1 DEF Buffers
  <2> QED BY <1>5, <2>1 DEF Buffers, Is
<1>16. HeldUnsent'
  <2>1. \A p \in held : Is(p.snd, "pending") /\ p.snd \in Handle
    BY <1>1, <1>2, HandlesIn DEF HeldUnsent
  <2> QED BY <1>2, <1>5, <2>1 DEF HeldUnsent, Is
<1>17. Named'
  <2>1. \A k \in DOMAIN cmd' : cmd'[k].t \in {"PLAY", "RETIRE"} => Given(cmd[k].s)' /\ ~Is(cmd[k].s, "pending")'
    BY <1>1, <1>2, <1>5, HandlesIn DEF Named, Given, Is
  <2>2. ASSUME NEW k, NEW g \in Handle, Visible(k, g)
        PROVE  /\ g.idx \in Sound /\ snd'[g.idx].gen = g.gen
               /\ \/ snd'[g.idx].st = "live"
                  \/ /\ snd'[g.idx].st = "retiring"
                     /\ \E j \in Waiting' : j > k /\ cmd'[j].t = "RETIRE" /\ cmd'[j].s = g
    <3>1. CASE Is(g, "live")
      BY <1>5, <3>1
    <3>2. CASE Is(g, "retiring") /\ RetireAfter(k, g)
      <4>1. g # h /\ \E j \in Waiting' : j > k /\ cmd'[j].t = "RETIRE" /\ cmd'[j].s = g
        BY <1>2, <1>7, <3>2 DEF RetireAfter, Waiting
      <4> QED BY <1>5, <3>2, <4>1
    <3> QED BY <2>2, <3>1, <3>2 DEF Visible
  <2>3. ASSUME NEW k \in Waiting', cmd'[k].t = "PLAY"
        PROVE  Visible(k, cmd[k].s)'
    <3>1. k \in Waiting /\ Visible(k, cmd'[k].s) /\ cmd'[k].s \in Handle
      BY <1>1, <1>2, <2>3, HandlesIn DEF Named, Waiting
    <3> QED BY <2>2, <3>1 DEF Visible, RetireAfter, Is
  <2>4. ASSUME NEW i \in Voice, voice'[i].snd # None
        PROVE  Visible(batch.done, voice[i].snd)'
    <3>1. Visible(batch'.done, voice'[i].snd) /\ voice'[i].snd \in Handle
      BY <1>1, <1>2, <2>4, HandlesIn DEF Named
    <3> QED BY <2>2, <3>1 DEF Visible, RetireAfter, Is
  <2> QED BY <2>1, <2>3, <2>4 DEF Named
<1> QED BY <1>8, <1>9, <1>10, <1>11, <1>12, <1>13, <1>14, <1>15, <1>16, <1>17 DEF Running

-----------------------------------------------------------------------------
(* A slot is reserved, and its load adopted. *)

\* A slot is let: its handle is new, and what does not depend on how its sound comes stays true.
LEMMA ReserveKeeps ==
    ASSUME TypeOK, TypeOK', Running, CanReserve, NEW st \in {"pending", "live"}, NEW f \in File, NEW e \in {"loading", "ready", "failed"},
           entry[f].st = "none", \A g \in File \ {f} : entry'[g] = entry[g],
           entry'[f].snd = NextSound, entry'[f].st = e, e = "ready" <=> st = "live",
           ctl.pc = "body", ctl'.pc \in {"idle", "signal"},
           sfree' = Front(sfree), UNCHANGED <<park, held, cmd, ack, batch, voice, res>>,
           \A s \in Sound : /\ snd'[s].st = IF s = NextSound.idx THEN st ELSE snd[s].st
                            /\ snd'[s].gen = IF s = NextSound.idx THEN snd[s].gen + 1 ELSE snd[s].gen
    PROVE  /\ FreeList' /\ Entries' /\ Parks' /\ Retires' /\ Kept' /\ HeldUnsent' /\ Named'
           /\ NextSound \in Handle /\ ~Given(NextSound) /\ NextSound.idx \in Sound
           /\ \A g \in Handle :
                 /\ g.idx \in Sound /\ snd'[g.idx].gen = g.gen /\ snd'[g.idx].st = "pending" <=> Is(g, "pending") \/ (g = NextSound /\ st = "pending")
                 /\ g.idx \in Sound /\ snd'[g.idx].gen = g.gen /\ snd'[g.idx].st = "live" <=> Is(g, "live") \/ (g = NextSound /\ st = "live")
                 /\ g.idx \in Sound /\ snd'[g.idx].gen = g.gen /\ snd'[g.idx].st = "retiring" <=> Is(g, "retiring")
                 /\ Given(g) \/ g = NextSound => g.idx \in Sound /\ g.gen <= snd'[g.idx].gen
<1> DEFINE n == NextSound
           i == NextSound.idx
<1>1. /\ FreeList /\ Entries /\ Parks /\ Retires /\ Kept
      /\ Loads /\ Counted /\ Awaited /\ Buffers /\ HeldUnsent /\ Named
  BY DEF Running
<1>2. /\ n \in Handle /\ i \in Sound /\ n.idx = i /\ n.gen = snd[i].gen + 1 /\ snd[i].gen \in Nat
      /\ i = sfree[Len(sfree)] /\ Len(sfree) > 0 /\ Len(Front(sfree)) = Len(sfree) - 1
      /\ \A k \in 1 .. Len(sfree) - 1 : Front(sfree)[k] = sfree[k]
  BY NextIs
<1>3. /\ DOMAIN sfree = 1 .. Len(sfree) /\ Len(sfree) \in Nat /\ DOMAIN sfree' = 1 .. Len(sfree) - 1
      /\ \A s \in Sound : snd[s].gen \in Nat
      /\ sfree \in Seq(Sound)
  BY <1>2, SeqDomain, SeqDomainPrime, TypeParts DEF SlotsOK, SndRec
<1>4. /\ \A s \in Sound : /\ snd'[s].st = IF s = i THEN st ELSE snd[s].st
                          /\ snd'[s].gen = IF s = i THEN snd[s].gen + 1 ELSE snd[s].gen
      /\ entry'[f].snd = n
  OBVIOUS
<1> HIDE DEF n, i
<1>5. snd[i].st = "free" /\ \A k \in DOMAIN sfree' : k \in DOMAIN sfree /\ sfree'[k] = sfree[k] /\ sfree[k] # i /\ sfree[k] \in Sound
  <2>1. Len(sfree) \in DOMAIN sfree
    BY <1>2, <1>3
  <2>2. \A k \in DOMAIN sfree' : k \in DOMAIN sfree /\ k # Len(sfree) /\ sfree'[k] = sfree[k]
    BY <1>2, <1>3
  <2>3. \A k \in DOMAIN sfree : sfree[k] \in Sound
    BY <1>3
  <2> QED BY <1>1, <1>2, <2>1, <2>2, <2>3 DEF FreeList
<1>6. ASSUME NEW g \in Handle
      PROVE  /\ g.idx \in Sound /\ snd'[g.idx].gen = g.gen /\ snd'[g.idx].st = "pending" <=> Is(g, "pending") \/ (g = n /\ st = "pending")
             /\ g.idx \in Sound /\ snd'[g.idx].gen = g.gen /\ snd'[g.idx].st = "live" <=> Is(g, "live") \/ (g = n /\ st = "live")
             /\ g.idx \in Sound /\ snd'[g.idx].gen = g.gen /\ snd'[g.idx].st = "retiring" <=> Is(g, "retiring")
             /\ Given(g) \/ g = n => g.idx \in Sound /\ g.gen <= snd'[g.idx].gen
  <2>1. CASE g.idx # i
    BY <1>2, <1>4, <2>1 DEF Is, Given
  <2>2. CASE g.idx = i
    <3>1. g = n <=> g.gen = snd[i].gen + 1
      BY <1>2, <2>2, Handles
    <3>2. g.gen \in Nat
      BY Handles
    <3> QED BY <1>2, <1>4, <1>5, <2>2, <3>1, <3>2 DEF Is, Given
  <2> QED BY <2>1, <2>2
<1>7. ~Given(n)
  BY <1>2 DEF Given
<1>8. \A g \in Handle : Is(g, "pending") \/ Is(g, "live") \/ Is(g, "retiring") => Given(g)
  BY <1>3 DEF Is, Given
<1>9. FreeList'
  <2>1. \A k \in DOMAIN sfree' : snd'[sfree'[k]].st = "free"
    BY <1>1, <1>4, <1>5 DEF FreeList
  <2>2. \A j, k \in DOMAIN sfree' : sfree'[j] = sfree'[k] => j = k
    BY <1>1, <1>5 DEF FreeList
  <2> QED BY <2>1, <2>2 DEF FreeList
<1>10. \A g \in File : entry[g].st # "none" => entry[g].snd \in Handle /\ entry[g].snd # n /\ g # f
  <2>1. ASSUME NEW g \in File, entry[g].st # "none"
        PROVE  Is(entry[g].snd, "pending") \/ Is(entry[g].snd, "live")
    <3>1. entry[g].st \in {"loading", "ready", "failed"}
      BY <2>1, TypeParts DEF CacheOK, EntryRec
    <3> QED BY <1>1, <3>1 DEF Entries
  <2> QED BY <1>7, <1>8, <2>1, HandlesIn
<1>11. Entries'
  <2>1. \A g \in File : g # f => entry'[g] = entry[g]
    OBVIOUS
  <2>2. \A g \in File : g # f /\ entry'[g].st = "ready" => Is(entry'[g].snd, "live") /\ entry'[g].snd \in Handle
    BY <1>1, <1>10, <2>1 DEF Entries
  <2>3. \A g \in File : g # f /\ entry'[g].st \in {"loading", "failed"} => Is(entry'[g].snd, "pending") /\ entry'[g].snd \in Handle
    BY <1>1, <1>10, <2>1 DEF Entries
  <2>4. \A g \in File : entry'[g].st = "ready" => Is(entry[g].snd, "live")'
    BY <1>2, <1>4, <1>6, <2>2 DEF Is
  <2>5. \A g \in File : entry'[g].st \in {"loading", "failed"} => Is(entry[g].snd, "pending")'
    BY <1>2, <1>4, <1>6, <2>3 DEF Is
  <2>6. \A d, g \in File : entry'[d].st # "none" /\ entry'[g].st # "none" /\ entry'[d].snd = entry'[g].snd => d = g
    BY <1>1, <1>4, <1>10, <2>1 DEF Entries
  <2> QED BY <2>4, <2>5, <2>6 DEF Entries
<1>12. Parks'
  <2>1. \A g \in park : g \in Handle /\ Is(g, "live") /\ g # n
    BY <1>1, <1>7, <1>8, TypeParts DEF Parks, CacheOK
  <2>2. \A g \in park' : Is(g, "live")'
    BY <1>6, <2>1 DEF Is
  <2>3. \A g \in park' : \A d \in File : entry'[d].st # "none" => entry'[d].snd # g
    <3>1. \A d \in File : d # f => entry'[d] = entry[d]
      OBVIOUS
    <3> QED BY <1>1, <1>4, <2>1, <3>1 DEF Parks
  <2> QED BY <2>2, <2>3 DEF Parks
<1>13. Retires'
  <2>1. \A k \in Waiting' : cmd'[k].t = "RETIRE" => Is(cmd[k].s, "retiring")'
    BY <1>1, <1>6, HandlesIn DEF Retires, Waiting, Is
  <2>2. \A k \in DOMAIN ack' : Is(ack[k], "retiring")'
    BY <1>1, <1>6, HandlesIn DEF Retires, Is
  <2> QED BY <1>1, <2>1, <2>2 DEF Retires, Waiting
<1>14. Kept'
  <2>1. \A g \in Handle : Is(g, "pending") => \E d \in File : entry'[d].st \in {"loading", "failed"} /\ entry'[d].snd = g
    BY <1>1, <1>10 DEF Kept
  <2>2. \A g \in Handle : Is(g, "live") => g \in park' \/ \E d \in File : entry'[d].st = "ready" /\ entry'[d].snd = g
    BY <1>1, <1>10 DEF Kept
  <2>3. \A g \in Handle : Is(g, "retiring") => (\E k \in Waiting' : cmd'[k].t = "RETIRE" /\ cmd'[k].s = g) \/ \E k \in DOMAIN ack' : ack'[k] = g
    BY <1>1 DEF Kept, Waiting
  <2>4. st = "pending" => entry'[f].st \in {"loading", "failed"}
    OBVIOUS
  <2> QED BY <1>4, <1>6, <2>1, <2>2, <2>3, <2>4 DEF Kept, Is
<1>15. HeldUnsent'
  <2>1. \A p \in held : Is(p.snd, "pending") /\ p.snd \in Handle
    BY <1>1, HandlesIn DEF HeldUnsent
  <2> QED BY <1>6, <2>1 DEF HeldUnsent, Is
<1>16. Named'
  <2>1. \A k \in DOMAIN cmd' : cmd'[k].t \in {"PLAY", "RETIRE"} => Given(cmd[k].s)' /\ ~Is(cmd[k].s, "pending")'
    <3>1. \A k \in DOMAIN cmd : cmd[k].t \in {"PLAY", "RETIRE"} =>
                cmd[k].s \in Handle /\ Given(cmd[k].s) /\ ~Is(cmd[k].s, "pending") /\ cmd[k].s # n
      BY <1>1, <1>7, HandlesIn DEF Named
    <3> QED BY <1>6, <3>1 DEF Given, Is
  <2>2. ASSUME NEW k, NEW g \in Handle, Visible(k, g)
        PROVE  /\ g.idx \in Sound /\ snd'[g.idx].gen = g.gen
               /\ \/ snd'[g.idx].st = "live"
                  \/ snd'[g.idx].st = "retiring" /\ \E j \in Waiting' : j > k /\ cmd'[j].t = "RETIRE" /\ cmd'[j].s = g
    BY <1>6, <2>2 DEF Visible, RetireAfter, Waiting
  <2>3. ASSUME NEW k \in Waiting', cmd'[k].t = "PLAY"
        PROVE  Visible(k, cmd[k].s)'
    <3>1. k \in Waiting /\ Visible(k, cmd'[k].s) /\ cmd'[k].s \in Handle
      BY <1>1, <2>3, HandlesIn DEF Named, Waiting
    <3> QED BY <2>2, <3>1 DEF Visible, RetireAfter, Is
  <2>4. ASSUME NEW v \in Voice, voice'[v].snd # None
        PROVE  Visible(batch.done, voice[v].snd)'
    <3>1. Visible(batch'.done, voice'[v].snd) /\ voice'[v].snd \in Handle
      BY <1>1, <2>4, HandlesIn DEF Named
    <3> QED BY <2>2, <3>1 DEF Visible, RetireAfter, Is
  <2> QED BY <2>1, <2>3, <2>4 DEF Named
<1> QED BY <1>2, <1>6, <1>7, <1>9, <1>11, <1>12, <1>13, <1>14, <1>15, <1>16 DEF n, i

LEMMA AcquireAsyncKeeps ==
    ASSUME TypeOK, TypeOK', Running, NEW f \in File, AcquireAsync(f)
    PROVE  Running'
<1> DEFINE n == NextSound
           m == Len(jobs) + 1
<1>1. /\ FreeList /\ Entries /\ Parks /\ Retires /\ Kept
      /\ Loads /\ Counted /\ Awaited /\ Buffers /\ HeldUnsent /\ Named
  BY DEF Running
<1>2. /\ inflight < JobCap /\ inflight' = inflight + 1
      /\ UNCHANGED <<res, heap>>
      /\ entry[f].st = "none" /\ \A g \in File \ {f} : entry'[g] = entry[g]
      /\ entry'[f].snd = n /\ entry'[f].st = "loading"
      /\ Len(jobs') = Len(jobs) + 1 /\ jobs'[Len(jobs) + 1] = n
      /\ \A k \in 1 .. Len(jobs) : jobs'[k] = jobs[k]
      /\ ldr'.snd = ldr.snd /\ ldr'.ok = ldr.ok
      /\ ldr'.pc = IF ldr.pc = "none" THEN "top" ELSE ldr.pc
  BY AcquireAsyncDoes
<1>3. /\ FreeList' /\ Entries' /\ Parks' /\ Retires' /\ Kept' /\ HeldUnsent' /\ Named'
      /\ n \in Handle /\ ~Given(n) /\ n.idx \in Sound
      /\ \A g \in Handle :
             /\ g.idx \in Sound /\ snd'[g.idx].gen = g.gen /\ snd'[g.idx].st = "pending" <=> Is(g, "pending") \/ g = n
             /\ g.idx \in Sound /\ snd'[g.idx].gen = g.gen /\ snd'[g.idx].st = "live" <=> Is(g, "live")
             /\ g.idx \in Sound /\ snd'[g.idx].gen = g.gen /\ snd'[g.idx].st = "retiring" <=> Is(g, "retiring")
             /\ Given(g) \/ g = n => g.idx \in Sound /\ g.gen <= snd'[g.idx].gen
  <2>1. /\ CanReserve /\ sfree' = Front(sfree) /\ UNCHANGED <<park, held, cmd, ack, batch, voice, res>>
        /\ ctl.pc = "body" /\ ctl'.pc = "signal"
        /\ \A s \in Sound : /\ snd'[s].st = IF s = NextSound.idx THEN "pending" ELSE snd[s].st
                            /\ snd'[s].gen = IF s = NextSound.idx THEN snd[s].gen + 1 ELSE snd[s].gen
    BY AcquireAsyncDoes
  <2> QED BY <1>2, <2>1, ReserveKeeps
<1>4. /\ DOMAIN jobs = 1 .. Len(jobs) /\ Len(jobs) \in Nat /\ DOMAIN jobs' = 1 .. Len(jobs) + 1
      /\ Len(res) \in Nat /\ inflight \in Int
  BY <1>2, SeqDomain, SeqDomainPrime, TypeParts DEF CacheOK
<1>5. /\ \A k \in DOMAIN jobs : k \in DOMAIN jobs' /\ jobs'[k] = jobs[k]
      /\ m \in DOMAIN jobs' /\ jobs'[m] = n
      /\ \A k \in DOMAIN jobs' : (k \in DOMAIN jobs /\ jobs'[k] = jobs[k]) \/ (k = m /\ jobs'[k] = n)
  BY <1>2, <1>4
<1> HIDE DEF n, m
<1>6. /\ \A k \in DOMAIN jobs : jobs[k] \in Handle /\ Unborn(jobs[k]) /\ jobs[k] # n
      /\ \A k \in DOMAIN res : res[k].snd \in Handle /\ Unborn(res[k].snd) /\ res[k].snd # n
      /\ ldr.snd \in Handle
      /\ ldr.pc \in {"decode", "push"} => Unborn(ldr.snd) /\ ldr.snd # n
  BY <1>1, <1>3, HandlesIn DEF Loads, Unborn
<1>7. ldr'.pc \in {"decode", "push"} <=> ldr.pc \in {"decode", "push"}
  BY <1>2
<1>8. \A g \in Handle : Unborn(g) \/ g = n =>
            /\ g.idx \in Sound /\ g.gen <= snd'[g.idx].gen
            /\ ~(g.idx \in Sound /\ snd'[g.idx].gen = g.gen /\ snd'[g.idx].st = "live")
            /\ ~(g.idx \in Sound /\ snd'[g.idx].gen = g.gen /\ snd'[g.idx].st = "retiring")
  <2>1. ~Is(n, "live") /\ ~Is(n, "retiring")
    BY <1>3, TypeParts DEF Is, Given, SlotsOK, SndRec
  <2> QED BY <1>3, <2>1 DEF Unborn
<1>9. Loads'
  <2>1. \A k \in DOMAIN jobs' : Unborn(jobs[k])' /\ ~InLoader(jobs[k])'
    <3>1. \A k \in DOMAIN jobs' : jobs'[k] \in Handle /\ (Unborn(jobs'[k]) \/ jobs'[k] = n) /\ ~InLoader(jobs'[k])
      BY <1>1, <1>3, <1>5, <1>6 DEF Loads, InLoader
    <3> QED BY <1>2, <1>7, <1>8, <3>1 DEF Unborn, Given, Is, InLoader
  <2>2. \A k \in DOMAIN res' : Unborn(res[k].snd)' /\ ~InLoader(res[k].snd)'
    BY <1>1, <1>2, <1>6, <1>7, <1>8 DEF Loads, Unborn, Given, Is, InLoader
  <2>3. ldr'.pc \in {"decode", "push"} => Unborn(ldr.snd)'
    BY <1>2, <1>6, <1>7, <1>8 DEF Unborn, Given, Is
  <2>4. \A j, k \in DOMAIN jobs' : jobs'[j] = jobs'[k] => j = k
    BY <1>1, <1>5, <1>6 DEF Loads
  <2>5. \A j \in DOMAIN jobs', k \in DOMAIN res' : jobs'[j] # res'[k].snd
    BY <1>1, <1>2, <1>5, <1>6 DEF Loads
  <2>6. \A j, k \in DOMAIN res' : res'[j].snd = res'[k].snd => j = k
    BY <1>1, <1>2 DEF Loads
  <2> QED BY <2>1, <2>2, <2>3, <2>4, <2>5, <2>6 DEF Loads
<1>10. Counted'
  <2>1. LoaderBusy' = LoaderBusy /\ LoaderBusy \in Nat
    BY <1>7 DEF LoaderBusy
  <2>2. Len(jobs) + LoaderBusy + Len(res) = inflight /\ inflight <= JobCap
    BY <1>1 DEF Counted
  <2>3. /\ Len(jobs') = Len(jobs) + 1 /\ inflight' = inflight + 1 /\ res' = res /\ inflight < JobCap
        /\ Len(jobs) \in Nat /\ Len(res) \in Nat /\ inflight \in Int /\ JobCap \in Nat
    BY <1>2, <1>4, Sizes
  <2> QED BY <2>1, <2>2, <2>3 DEF Counted
<1>11. Awaited'
  <2>1. \A g \in File : entry'[g].st = "loading" => (g = f /\ entry'[g].snd = n) \/ (entry'[g] = entry[g] /\ entry[g].st = "loading")
    BY <1>2
  <2> QED BY <1>1, <1>2, <1>5, <1>7, <2>1 DEF Awaited, InLoader
<1>12. Buffers'
  <2>1. ldr'.pc = "push" <=> ldr.pc = "push"
    BY <1>2
  <2> QED BY <1>1, <1>2, <1>3, <2>1 DEF Buffers, Is
<1> QED BY <1>3, <1>9, <1>10, <1>11, <1>12 DEF Running

LEMMA AcquireNowKeeps ==
    ASSUME TypeOK, TypeOK', Running, NEW f \in File, AcquireNow(f)
    PROVE  Running'
<1> DEFINE n == NextSound
<1>1. /\ FreeList /\ Entries /\ Parks /\ Retires /\ Kept
      /\ Loads /\ Counted /\ Awaited /\ Buffers /\ HeldUnsent /\ Named
  BY DEF Running
<1>2. /\ UNCHANGED <<inflight, jobs, res, ldr>>
      /\ entry[f].st = "none" /\ \A g \in File \ {f} : entry'[g] = entry[g]
      /\ entry'[f].snd = n
  BY AcquireNowDoes
<1>3. PICK st \in {"pending", "live"} :
        /\ \A s \in Sound : /\ snd'[s].st = IF s = NextSound.idx THEN st ELSE snd[s].st
                            /\ snd'[s].gen = IF s = NextSound.idx THEN snd[s].gen + 1 ELSE snd[s].gen
        /\ heap' = IF st = "live" THEN heap \cup {n} ELSE heap
        /\ entry'[f].st = IF st = "live" THEN "ready" ELSE "failed"
  BY AcquireNowDoes
<1>4. /\ FreeList' /\ Entries' /\ Parks' /\ Retires' /\ Kept' /\ HeldUnsent' /\ Named'
      /\ n \in Handle /\ ~Given(n) /\ n.idx \in Sound
      /\ \A g \in Handle :
             /\ g.idx \in Sound /\ snd'[g.idx].gen = g.gen /\ snd'[g.idx].st = "pending" <=> Is(g, "pending") \/ (g = n /\ st = "pending")
             /\ g.idx \in Sound /\ snd'[g.idx].gen = g.gen /\ snd'[g.idx].st = "live" <=> Is(g, "live") \/ (g = n /\ st = "live")
             /\ g.idx \in Sound /\ snd'[g.idx].gen = g.gen /\ snd'[g.idx].st = "retiring" <=> Is(g, "retiring")
             /\ Given(g) \/ g = n => g.idx \in Sound /\ g.gen <= snd'[g.idx].gen
  <2>1. /\ CanReserve /\ sfree' = Front(sfree) /\ UNCHANGED <<park, held, cmd, ack, batch, voice, res>>
        /\ ctl.pc = "body" /\ ctl'.pc = "idle"
    BY AcquireNowDoes
  <2>2. PICK e \in {"ready", "failed"} : entry'[f].st = e /\ (e = "ready" <=> st = "live")
    BY <1>3
  <2> QED BY <1>2, <1>3, <2>1, <2>2, ReserveKeeps
<1> HIDE DEF n
<1>5. /\ \A k \in DOMAIN jobs : jobs[k] \in Handle /\ Unborn(jobs[k]) /\ jobs[k] # n
      /\ \A k \in DOMAIN res : res[k].snd \in Handle /\ Unborn(res[k].snd) /\ res[k].snd # n
      /\ ldr.snd \in Handle
      /\ ldr.pc \in {"decode", "push"} => Unborn(ldr.snd) /\ ldr.snd # n
  BY <1>1, <1>4, HandlesIn DEF Loads, Unborn
<1>6. \A g \in Handle : Unborn(g) /\ g # n =>
            /\ g.idx \in Sound /\ g.gen <= snd'[g.idx].gen
            /\ ~(g.idx \in Sound /\ snd'[g.idx].gen = g.gen /\ snd'[g.idx].st = "live")
            /\ ~(g.idx \in Sound /\ snd'[g.idx].gen = g.gen /\ snd'[g.idx].st = "retiring")
  BY <1>4 DEF Unborn
<1>7. Loads'
  <2>1. \A k \in DOMAIN jobs' : Unborn(jobs[k])' /\ ~InLoader(jobs[k])'
    BY <1>1, <1>2, <1>5, <1>6 DEF Loads, Unborn, Given, Is, InLoader
  <2>2. \A k \in DOMAIN res' : Unborn(res[k].snd)' /\ ~InLoader(res[k].snd)'
    BY <1>1, <1>2, <1>5, <1>6 DEF Loads, Unborn, Given, Is, InLoader
  <2>3. ldr'.pc \in {"decode", "push"} => Unborn(ldr.snd)'
    BY <1>2, <1>5, <1>6 DEF Unborn, Given, Is
  <2> QED BY <1>1, <1>2, <2>1, <2>2, <2>3 DEF Loads
<1>8. Counted'
  BY <1>1, <1>2, Alone
<1>9. Awaited'
  <2>1. \A g \in File : entry'[g].st = "loading" => entry'[g] = entry[g]
    BY <1>2, <1>3
  <2> QED BY <1>1, <1>2, <2>1 DEF Awaited, InLoader
<1>10. Buffers'
  <2>1. n \notin heap
    <3>1. ~Is(n, "live") /\ ~Is(n, "retiring")
      BY <1>4, TypeParts DEF Is, Given, SlotsOK, SndRec
    <3> QED BY <1>1, <1>4, <1>5, <3>1 DEF Buffers
  <2>2. ASSUME NEW g \in Handle
        PROVE  g \in heap' <=> \/ ldr'.pc = "push" /\ ldr'.ok /\ ldr'.snd = g
                               \/ \E k \in DOMAIN res' : res'[k].ok /\ res'[k].snd = g
                               \/ Is(g, "live") \/ (g = n /\ st = "live") \/ Is(g, "retiring")
    BY <1>1, <1>2, <1>3 DEF Buffers
  <2> QED BY <1>4, <2>2 DEF Buffers, Is
<1> QED BY <1>4, <1>7, <1>8, <1>9, <1>10 DEF Running

LEMMA PumpTakeKeeps ==
    ASSUME TypeOK, TypeOK', Running, PumpTake
    PROVE  Running'
<1> DEFINE h == res[1].snd
<1>1. /\ FreeList /\ Entries /\ Parks /\ Retires /\ Kept
      /\ Loads /\ Counted /\ Awaited /\ Buffers /\ HeldUnsent /\ Named
  BY DEF Running
<1>2. /\ ctl.pc = "pump" /\ inflight' = inflight - 1
      /\ UNCHANGED <<park, sfree, held, jobs, ldr, cmd, ack, batch, voice>>
      /\ Len(res) > 0 /\ Len(res') = Len(res) - 1
      /\ \A k \in 1 .. Len(res) - 1 : res'[k] = res[k + 1]
  BY <1>1, PumpTakeDoes
<1>3. /\ DOMAIN res = 1 .. Len(res) /\ Len(res) \in Nat /\ DOMAIN res' = 1 .. Len(res) - 1
      /\ Len(jobs) \in Nat /\ inflight \in Int
  BY <1>2, SeqDomain, SeqDomainPrime, TypeParts DEF CacheOK
<1>4. /\ 1 \in DOMAIN res
      /\ \A k \in DOMAIN res' : k + 1 \in DOMAIN res /\ k + 1 # 1 /\ res'[k] = res[k + 1]
      /\ \A j, k \in DOMAIN res' : j + 1 = k + 1 => j = k
      /\ \A k \in DOMAIN res : k = 1 \/ (k - 1 \in DOMAIN res' /\ res'[k - 1] = res[k])
  BY <1>2, <1>3
<1>5. /\ h \in Handle /\ Unborn(h) /\ ~InLoader(h)
      /\ \A k \in DOMAIN jobs : jobs[k] # h /\ jobs[k] \in Handle /\ Unborn(jobs[k]) /\ ~InLoader(jobs[k])
      /\ \A k \in DOMAIN res' : res'[k].snd # h /\ res'[k].snd \in Handle /\ Unborn(res'[k].snd) /\ ~InLoader(res'[k].snd)
      /\ ldr.pc \in {"decode", "push"} => Unborn(ldr.snd) /\ ldr.snd # h
      /\ ldr.snd \in Handle
  <2>1. h \in Handle /\ Unborn(h) /\ ~InLoader(h)
    BY <1>1, <1>4, HandlesIn DEF Loads
  <2>2. \A k \in DOMAIN jobs : jobs[k] # h /\ jobs[k] \in Handle /\ Unborn(jobs[k]) /\ ~InLoader(jobs[k])
    BY <1>1, <1>4, HandlesIn DEF Loads
  <2>3. \A k \in DOMAIN res : k # 1 => res[k].snd # h /\ res[k].snd \in Handle /\ Unborn(res[k].snd) /\ ~InLoader(res[k].snd)
    BY <1>1, <1>4, HandlesIn DEF Loads
  <2>4. \A k \in DOMAIN res' : res'[k].snd # h /\ res'[k].snd \in Handle /\ Unborn(res'[k].snd) /\ ~InLoader(res'[k].snd)
    BY <1>4, <2>3
  <2>5. ldr.pc \in {"decode", "push"} => Unborn(ldr.snd) /\ ldr.snd # h
    BY <1>1, <2>1 DEF Loads, InLoader
  <2> QED BY <2>1, <2>2, <2>4, <2>5, HandlesIn
<1>6. ~Is(h, "live") /\ ~Is(h, "retiring")
  BY <1>5 DEF Unborn
<1>7. /\ \A j, k \in DOMAIN res' : res'[j].snd = res'[k].snd => j = k
      /\ \A j \in DOMAIN jobs', k \in DOMAIN res' : jobs'[j] # res'[k].snd
      /\ \A j, k \in DOMAIN jobs' : jobs'[j] = jobs'[k] => j = k
  BY <1>1, <1>2, <1>4 DEF Loads
<1>8. \A g \in Handle : g # h =>
            ((\E k \in DOMAIN res : res[k].ok /\ res[k].snd = g) <=> (\E k \in DOMAIN res' : res'[k].ok /\ res'[k].snd = g))
  BY <1>4
<1>9. \A g \in Handle : g # h => ((\E k \in DOMAIN res : res[k].snd = g) => (\E k \in DOMAIN res' : res'[k].snd = g))
  BY <1>4
<1>10. Counted'
  <2>1. /\ LoaderBusy' = LoaderBusy /\ LoaderBusy \in Int /\ jobs' = jobs
        /\ Len(jobs) + LoaderBusy + Len(res) = inflight /\ inflight <= JobCap
    BY <1>1, <1>2 DEF Counted, LoaderBusy
  <2> QED BY <1>2, <1>3, <2>1, Sizes DEF Counted
<1>11. \A g \in File : entry[g].st = "loading" /\ entry[g].snd # h =>
            \/ \E k \in DOMAIN jobs' : jobs'[k] = entry[g].snd
            \/ InLoader(entry[g].snd)
            \/ \E k \in DOMAIN res' : res'[k].snd = entry[g].snd
  BY <1>1, <1>2, <1>9, HandlesIn DEF Awaited
<1>12. /\ \A g \in Handle : g # h => (g \in heap <=> \/ ldr'.pc = "push" /\ ldr'.ok /\ ldr'.snd = g
                                                     \/ \E k \in DOMAIN res' : res'[k].ok /\ res'[k].snd = g
                                                     \/ Is(g, "live") \/ Is(g, "retiring"))
       /\ ~(ldr'.pc = "push" /\ ldr'.ok /\ ldr'.snd = h)
       /\ ~\E k \in DOMAIN res' : res'[k].ok /\ res'[k].snd = h
  BY <1>1, <1>2, <1>5, <1>8 DEF Buffers
<1> HIDE DEF h
<1>13. ASSUME UNCHANGED snd, heap' = heap \ {h}
       PROVE  Loads' /\ Buffers' /\ Named' /\ FreeList'
  <2>1. \A k \in DOMAIN jobs' : Unborn(jobs[k])' /\ ~InLoader(jobs[k])'
    BY <1>2, <1>5, <1>13 DEF Unborn, Given, Is, InLoader
  <2>2. \A k \in DOMAIN res' : Unborn(res[k].snd)' /\ ~InLoader(res[k].snd)'
    BY <1>2, <1>5, <1>13 DEF Unborn, Given, Is, InLoader
  <2>3. ldr'.pc \in {"decode", "push"} => Unborn(ldr.snd)'
    BY <1>2, <1>5, <1>13 DEF Unborn, Given, Is
  <2>4. Loads'
    BY <1>7, <2>1, <2>2, <2>3 DEF Loads
  <2>5. ASSUME NEW g \in Handle
        PROVE  g \in heap' <=> \/ ldr'.pc = "push" /\ ldr'.ok /\ ldr'.snd = g
                               \/ \E k \in DOMAIN res' : res'[k].ok /\ res'[k].snd = g
                               \/ Is(g, "live") \/ Is(g, "retiring")
    <3>1. CASE g = h
      BY <1>6, <1>12, <1>13, <3>1
    <3>2. CASE g # h
      BY <1>12, <1>13, <3>2
    <3> QED BY <3>1, <3>2
  <2>6. Buffers'
    BY <1>13, <2>5 DEF Buffers, Is
  <2> QED BY <1>1, <1>2, <1>13, <2>4, <2>6, Alone
<1>14. CASE /\ UNCHANGED <<entry, snd, ctl>> /\ heap' = heap \ {h}
            /\ \A f \in File : entry[f].st = "loading" => entry[f].snd # h
  <2>1. Awaited'
    BY <1>2, <1>11, <1>14 DEF Awaited, InLoader
  <2> QED BY <1>1, <1>2, <1>10, <1>13, <1>14, <2>1, Alone DEF Running
<1>15. ASSUME NEW f \in File, entry[f].st = "loading", entry[f].snd = h,
              entry'[f].snd = entry[f].snd, \A g \in File \ {f} : entry'[g] = entry[g],
              \/ /\ entry'[f].st = "ready" /\ heap' = heap /\ res[1].ok
                 /\ \A s \in Sound : snd'[s].gen = snd[s].gen /\ snd'[s].st = IF s = h.idx THEN "live" ELSE snd[s].st
                 /\ ctl'.pc = "fire" /\ ctl'.h = h
              \/ entry'[f].st = "failed" /\ heap' = heap \ {h} /\ UNCHANGED <<snd, ctl>>
       PROVE  Running'
  <2>1. Is(h, "pending") /\ h.idx \in Sound /\ snd[h.idx].gen = h.gen /\ snd[h.idx].st = "pending"
    BY <1>1, <1>15 DEF Entries, Is
  <2>2. \A g \in File : g # f => entry'[g] = entry[g]
    BY <1>15
  <2>3. \A g \in File : g # f /\ entry[g].st # "none" => entry[g].snd # h
    BY <1>1, <1>15 DEF Entries
  <2>4. Awaited'
    <3>1. \A g \in File : entry'[g].st = "loading" => g # f /\ entry'[g] = entry[g] /\ entry[g].snd # h /\ entry[g].st = "loading"
      BY <1>15, <2>2, <2>3
    <3> QED BY <1>2, <1>11, <3>1 DEF Awaited, InLoader
  <2>5. CASE entry'[f].st = "failed" /\ heap' = heap \ {h} /\ UNCHANGED <<snd, ctl>>
    <3>1. Entries'
      BY <1>1, <1>15, <2>1, <2>2, <2>3, <2>5 DEF Entries, Is
    <3>2. Parks'
      BY <1>1, <1>2, <1>15, <2>2, <2>5 DEF Parks, Is
    <3>3. Kept'
      <4>1. \A g \in Handle : Is(g, "pending") => \E d \in File : entry'[d].st \in {"loading", "failed"} /\ entry'[d].snd = g
        BY <1>1, <1>15, <2>2, <2>5 DEF Kept
      <4>2. \A g \in Handle : Is(g, "live") => g \in park' \/ \E d \in File : entry'[d].st = "ready" /\ entry'[d].snd = g
        BY <1>1, <1>2, <1>15, <2>2 DEF Kept
      <4>3. \A g \in Handle : Is(g, "retiring") => (\E k \in Waiting' : cmd'[k].t = "RETIRE" /\ cmd'[k].s = g) \/ \E k \in DOMAIN ack' : ack'[k] = g
        BY <1>1, <1>2 DEF Kept, Waiting
      <4> QED BY <2>5, <4>1, <4>2, <4>3 DEF Kept, Is
    <3>4. Retires' /\ HeldUnsent'
      BY <1>1, <1>2, <2>5, Alone
    <3> QED BY <1>10, <1>13, <2>4, <2>5, <3>1, <3>2, <3>3, <3>4 DEF Running
  <2>6. CASE /\ entry'[f].st = "ready" /\ heap' = heap /\ res[1].ok
             /\ \A s \in Sound : snd'[s].gen = snd[s].gen /\ snd'[s].st = IF s = h.idx THEN "live" ELSE snd[s].st
             /\ ctl'.pc = "fire" /\ ctl'.h = h
    <3>1. ASSUME NEW g \in Handle
          PROVE  /\ g.idx \in Sound /\ snd'[g.idx].gen = g.gen /\ snd'[g.idx].st = "pending" <=> Is(g, "pending") /\ g # h
                 /\ g.idx \in Sound /\ snd'[g.idx].gen = g.gen /\ snd'[g.idx].st = "live" <=> Is(g, "live") \/ g = h
                 /\ g.idx \in Sound /\ snd'[g.idx].gen = g.gen /\ snd'[g.idx].st = "retiring" <=> Is(g, "retiring")
                 /\ g.idx \in Sound /\ g.gen <= snd'[g.idx].gen <=> Given(g)
      BY <1>5, <2>1, <2>6, Handles DEF Is, Given
    <3>2. FreeList'
      <4>1. \A k \in DOMAIN sfree : sfree[k] \in Sound
        BY TypeParts DEF SlotsOK
      <4> QED BY <1>1, <1>2, <2>1, <2>6, <4>1 DEF FreeList
    <3>3. Entries'
      <4>1. \A g \in File : entry'[g].st = "ready" => (g = f /\ entry'[g].snd = h) \/ (Is(entry'[g].snd, "live") /\ entry'[g].snd \in Handle)
        BY <1>1, <1>15, <2>2, HandlesIn DEF Entries
      <4>2. \A g \in File : entry'[g].st \in {"loading", "failed"} => Is(entry'[g].snd, "pending") /\ entry'[g].snd # h /\ entry'[g].snd \in Handle
        BY <1>1, <2>2, <2>3, <2>6, HandlesIn DEF Entries
      <4>3. \A g \in File : entry'[g].st = "ready" => Is(entry[g].snd, "live")'
        BY <1>5, <3>1, <4>1 DEF Is
      <4>4. \A g \in File : entry'[g].st \in {"loading", "failed"} => Is(entry[g].snd, "pending")'
        BY <3>1, <4>2 DEF Is
      <4>5. \A d, g \in File : entry'[d].st # "none" /\ entry'[g].st # "none" /\ entry'[d].snd = entry'[g].snd => d = g
        BY <1>1, <1>15, <2>2, <2>3 DEF Entries
      <4> QED BY <4>3, <4>4, <4>5 DEF Entries
    <3>4. Parks'
      <4>1. \A g \in park : g \in Handle /\ Is(g, "live")
        BY <1>1, TypeParts DEF Parks, CacheOK
      <4>2. \A g \in park' : Is(g, "live")'
        BY <1>2, <3>1, <4>1 DEF Is
      <4>3. \A g \in park' : \A d \in File : entry'[d].st # "none" => entry'[d].snd # g
        BY <1>1, <1>2, <1>15, <2>2 DEF Parks
      <4> QED BY <2>6, <4>2, <4>3 DEF Parks
    <3>5. Retires'
      <4>1. \A k \in Waiting' : cmd'[k].t = "RETIRE" => Is(cmd[k].s, "retiring")'
        BY <1>1, <1>2, <3>1, HandlesIn DEF Retires, Waiting, Is
      <4>2. \A k \in DOMAIN ack' : Is(ack[k], "retiring")'
        BY <1>1, <1>2, <3>1, HandlesIn DEF Retires, Is
      <4> QED BY <1>1, <1>2, <2>6, <4>1, <4>2 DEF Retires, Waiting
    <3>6. Kept'
      <4>1. \A g \in Handle : Is(g, "pending") /\ g # h => \E d \in File : entry'[d].st \in {"loading", "failed"} /\ entry'[d].snd = g
        BY <1>1, <1>15, <2>2 DEF Kept
      <4>2. \A g \in Handle : Is(g, "live") \/ g = h => g \in park' \/ \E d \in File : entry'[d].st = "ready" /\ entry'[d].snd = g
        BY <1>1, <1>2, <1>15, <2>2, <2>6 DEF Kept
      <4>3. \A g \in Handle : Is(g, "retiring") => (\E k \in Waiting' : cmd'[k].t = "RETIRE" /\ cmd'[k].s = g) \/ \E k \in DOMAIN ack' : ack'[k] = g
        BY <1>1, <1>2 DEF Kept, Waiting
      <4> QED BY <3>1, <4>1, <4>2, <4>3 DEF Kept, Is
    <3>7. Loads'
      <4>1. \A k \in DOMAIN jobs' : Unborn(jobs[k])' /\ ~InLoader(jobs[k])'
        BY <1>2, <1>5, <3>1 DEF Unborn, Given, Is, InLoader
      <4>2. \A k \in DOMAIN res' : Unborn(res[k].snd)' /\ ~InLoader(res[k].snd)'
        BY <1>2, <1>5, <3>1 DEF Unborn, Given, Is, InLoader
      <4>3. ldr'.pc \in {"decode", "push"} => Unborn(ldr.snd)'
        BY <1>2, <1>5, <3>1 DEF Unborn, Given, Is
      <4> QED BY <1>7, <4>1, <4>2, <4>3 DEF Loads
    <3>8. Buffers'
      <4>1. h \in heap
        BY <1>1, <1>4, <1>5, <2>6 DEF Buffers, h
      <4>2. ASSUME NEW g \in Handle
            PROVE  g \in heap' <=> \/ ldr'.pc = "push" /\ ldr'.ok /\ ldr'.snd = g
                                   \/ \E k \in DOMAIN res' : res'[k].ok /\ res'[k].snd = g
                                   \/ Is(g, "live") \/ g = h \/ Is(g, "retiring")
        <5>1. CASE g = h
          BY <2>6, <4>1, <5>1
        <5>2. CASE g # h
          BY <1>12, <2>6, <5>2
        <5> QED BY <5>1, <5>2
      <4> QED BY <3>1, <4>2 DEF Buffers, Is
    <3>9. HeldUnsent'
      <4>1. \A p \in held' : p.snd \in Handle /\ (p.snd = h \/ (Is(p.snd, "pending") /\ p.snd # h))
        BY <1>1, <1>2, HandlesIn DEF HeldUnsent
      <4> QED BY <1>5, <2>6, <3>1, <4>1 DEF HeldUnsent, Is
    <3>10. Named'
      <4>1. \A k \in DOMAIN cmd' : cmd'[k].t \in {"PLAY", "RETIRE"} => Given(cmd[k].s)' /\ ~Is(cmd[k].s, "pending")'
        BY <1>1, <1>2, <3>1, HandlesIn DEF Named, Given, Is
      <4>2. ASSUME NEW k, NEW g \in Handle, Visible(k, g)
            PROVE  /\ g.idx \in Sound /\ snd'[g.idx].gen = g.gen
                   /\ \/ snd'[g.idx].st = "live"
                      \/ snd'[g.idx].st = "retiring" /\ \E j \in Waiting' : j > k /\ cmd'[j].t = "RETIRE" /\ cmd'[j].s = g
        BY <1>2, <3>1, <4>2 DEF Visible, RetireAfter, Waiting
      <4>3. ASSUME NEW k \in Waiting', cmd'[k].t = "PLAY"
            PROVE  Visible(k, cmd[k].s)'
        <5>1. k \in Waiting /\ Visible(k, cmd'[k].s) /\ cmd'[k].s \in Handle
          BY <1>1, <1>2, <4>3, HandlesIn DEF Named, Waiting
        <5> QED BY <4>2, <5>1 DEF Visible, RetireAfter, Is
      <4>4. ASSUME NEW v \in Voice, voice'[v].snd # None
            PROVE  Visible(batch.done, voice[v].snd)'
        <5>1. Visible(batch'.done, voice'[v].snd) /\ voice'[v].snd \in Handle
          BY <1>1, <1>2, <4>4, HandlesIn DEF Named
        <5> QED BY <4>2, <5>1 DEF Visible, RetireAfter, Is
      <4> QED BY <4>1, <4>3, <4>4 DEF Named
    <3> QED BY <1>10, <2>4, <3>2, <3>3, <3>4, <3>5, <3>6, <3>7, <3>8, <3>9, <3>10 DEF Running
  <2> QED BY <1>15, <2>5, <2>6
<1>16. CASE \E f \in File :
                    /\ entry[f].st = "loading" /\ entry[f].snd = res[1].snd
                    /\ entry'[f].snd = entry[f].snd /\ \A g \in File \ {f} : entry'[g] = entry[g]
                    /\ \/ /\ res[1].ok /\ entry'[f].st = "ready" /\ heap' = heap
                          /\ \A s \in Sound : snd'[s].st = IF s = res[1].snd.idx THEN "live" ELSE snd[s].st
                          /\ ctl'.pc = "fire" /\ ctl'.h = res[1].snd
                       \/ /\ ~res[1].ok /\ entry'[f].st = "failed" /\ heap' = heap \ {res[1].snd}
                          /\ UNCHANGED <<snd, ctl>>
  <2>1. \A s \in Sound : snd'[s].gen = snd[s].gen
    BY <1>1, PumpTakeDoes
  <2> QED BY <1>15, <1>16, <2>1 DEF h
<1> QED BY <1>1, <1>14, <1>16, PumpTakeDoes DEF h

-----------------------------------------------------------------------------
(* Every step. *)

\* A control step other than the last one keeps the invariant.
LEMMA ControlKeeps ==
    ASSUME TypeOK, Running, ControlNext, ~ShutdownJoin
    PROVE  TypeOK' /\ Running'
<1>1. Entries /\ Parks /\ Retires
  BY DEF Running
<1>2. CASE BeginPump
  BY <1>1, <1>2, BeginPumpType, BeginPumpKeeps
<1>3. CASE PumpTake
  BY <1>1, <1>3, PumpTakeType, PumpTakeKeeps
<1>4. CASE FireSeek
  BY <1>1, <1>4, FireSeekType, FireSeekKeeps
<1>5. CASE FireEnd
  BY <1>1, <1>5, FireEndType, FireEndKeeps
<1>6. CASE PumpEnd
  BY <1>1, <1>6, PumpEndType, PumpEndKeeps
<1>7. CASE ParkEnd
  BY <1>1, <1>7, ParkEndType, ParkEndKeeps
<1>8. CASE Return
  BY <1>1, <1>8, ReturnType, ReturnKeeps
<1>9. CASE AcquireSignal
  BY <1>1, <1>9, AcquireSignalType, AcquireSignalKeeps
<1>10. CASE Commit
  BY <1>1, <1>10, CommitType, CommitKeeps
<1>11. CASE TakeAck
  BY <1>1, <1>11, TakeAckType, TakeAckKeeps
<1>12. CASE ShutdownSignal
  BY <1>1, <1>12, ShutdownSignalType, ShutdownSignalKeeps
<1>13. CASE StopAll
  BY <1>1, <1>13, StopAllType, StopAllKeeps
<1>14. CASE Shutdown
  BY <1>1, <1>14, ShutdownType, ShutdownKeeps
<1>15. ASSUME NEW p \in held, Fire(p) PROVE TypeOK' /\ Running'
  BY <1>1, <1>15, FireType, FireKeeps
<1>16. ASSUME NEW h \in ctl.try, RetryPark(h) PROVE TypeOK' /\ Running'
  BY <1>1, <1>16, RetryParkType, RetryParkKeeps
<1>17. ASSUME NEW f \in File, AcquireHit(f) PROVE TypeOK' /\ Running'
  BY <1>1, <1>17, AcquireHitType, AcquireHitKeeps
<1>18. ASSUME NEW f \in File, AcquireAsync(f) PROVE TypeOK' /\ Running'
  BY <1>1, <1>18, AcquireAsyncType, AcquireAsyncKeeps
<1>19. ASSUME NEW f \in File, AcquireNow(f) PROVE TypeOK' /\ Running'
  BY <1>1, <1>19, AcquireNowType, AcquireNowKeeps
<1>20. ASSUME NEW f \in File, Release(f) PROVE TypeOK' /\ Running'
  BY <1>1, <1>20, ReleaseType, ReleaseKeeps
<1>21. ASSUME NEW i \in Voice, CreateSource(i) PROVE TypeOK' /\ Running'
  BY <1>1, <1>21, CreateSourceType, CreateSourceKeeps
<1>22. ASSUME NEW h \in Sources, DestroySource(h) PROVE TypeOK' /\ Running'
  BY <1>1, <1>22, DestroySourceType, DestroySourceKeeps
<1>23. ASSUME NEW h \in Sources, Seek(h) PROVE TypeOK' /\ Running'
  BY <1>1, <1>23, SeekType, SeekKeeps
<1>24. ASSUME NEW h \in Sources, Stop(h) PROVE TypeOK' /\ Running'
  BY <1>1, <1>24, StopType, StopKeeps
<1>25. ASSUME NEW h \in Sources, StopAt(h) PROVE TypeOK' /\ Running'
  BY <1>1, <1>25, StopAtType, StopAtKeeps
<1>26. ASSUME NEW h \in Sources, NEW s \in Sounds, Play(h, s) PROVE TypeOK' /\ Running'
  BY <1>1, <1>26, PlayType, PlayKeeps
<1> QED BY <1>2, <1>3, <1>4, <1>5, <1>6, <1>7, <1>8, <1>9, <1>10, <1>11, <1>12, <1>13, <1>14, <1>15,
     <1>16, <1>17, <1>18, <1>19, <1>20, <1>21, <1>22, <1>23, <1>24, <1>25, <1>26 DEF ControlNext,
     ControlStep

\* So does a step of the loader thread, and one of the audio thread.
LEMMA ThreadsKeep ==
    ASSUME TypeOK, Running, LoaderNext \/ AudioNext
    PROVE  TypeOK' /\ Running'
<1>1. Counted
  BY DEF Running
<1>2. CASE LoaderTop
  BY <1>1, <1>2, LoaderTopType, LoaderTopKeeps
<1>3. CASE LoaderPop
  BY <1>1, <1>3, LoaderPopType, LoaderPopKeeps
<1>4. CASE LoaderWake
  BY <1>1, <1>4, LoaderWakeType, LoaderWakeKeeps
<1>5. CASE LoaderDecode
  BY <1>1, <1>5, LoaderDecodeType, LoaderDecodeKeeps
<1>6. CASE LoaderPush
  BY <1>1, <1>6, LoaderPushType, LoaderPushKeeps
<1>7. CASE DrainCommand
  BY <1>1, <1>7, DrainCommandType, DrainCommandKeeps
<1>8. CASE DrainEnd
  BY <1>1, <1>8, DrainEndType, DrainEndKeeps
<1> QED BY <1>2, <1>3, <1>4, <1>5, <1>6, <1>7, <1>8 DEF LoaderNext, AudioNext

\* Which steps lead into bwa_destroy.
LEMMA Elsewhere ==
    ASSUME TypeOK, Running, ControlNext, ~Shutdown, ~ShutdownSignal, ~ShutdownJoin
    PROVE  ctl'.pc \notin {"quit", "join", "gone"}
<1>1. Entries /\ Parks /\ Retires /\ ctl \in CtlRec
  BY TypeParts DEF Running, CtlOK
<1>2. CASE BeginPump
  BY <1>1, <1>2 DEF BeginPump, Idle
<1>3. CASE FireSeek
  BY <1>1, <1>3 DEF FireSeek, CtlRec
<1>4. CASE FireEnd
  BY <1>1, <1>4 DEF FireEnd, CtlRec
<1>5. CASE PumpEnd
  BY <1>1, <1>5 DEF PumpEnd, CtlRec
<1>6. CASE ParkEnd
  BY <1>1, <1>6 DEF ParkEnd, CtlRec
<1>7. CASE Return
  BY <1>1, <1>7 DEF Return, Idle
<1>8. CASE AcquireSignal
  BY <1>1, <1>8 DEF AcquireSignal, Idle
<1>9. CASE StopAll
  BY <1>1, <1>9 DEF StopAll, Call
<1>10. CASE Commit
  <2>1. ctl' = Idle \/ ctl' = [ctl EXCEPT !.pc = "events", !.left = Len(ack)]
    BY <1>10 DEF Commit
  <2>2. Idle.pc = "idle"
    BY DEF Idle
  <2>3. [ctl EXCEPT !.pc = "events", !.left = Len(ack)].pc = "events"
    BY <1>1 DEF CtlRec
  <2> QED BY <2>1, <2>2, <2>3
<1>11. CASE PumpTake
  BY <1>1, <1>11, PumpTakeDoes
<1>12. CASE TakeAck
  BY <1>1, <1>12, TakeAckDoes
<1>13. ASSUME NEW p \in held, Fire(p) PROVE ctl'.pc \notin {"quit", "join", "gone"}
  <2>1. ctl.pc = "fire" /\ (ctl' = ctl \/ ctl' = [ctl EXCEPT !.pc = "seek", !.try = {p.src}])
    BY <1>13, Zenon DEF Fire
  <2> QED BY <1>1, <2>1 DEF CtlRec
<1>14. ASSUME NEW h \in ctl.try, RetryPark(h) PROVE ctl'.pc \notin {"quit", "join", "gone"}
  BY <1>1, <1>14, RetryParkDoes
<1>15. ASSUME NEW f \in File, AcquireAsync(f) PROVE ctl'.pc \notin {"quit", "join", "gone"}
  BY <1>1, <1>15, AcquireAsyncDoes
<1>16. ASSUME NEW f \in File, AcquireNow(f) PROVE ctl'.pc \notin {"quit", "join", "gone"}
  BY <1>1, <1>16, AcquireNowDoes
<1>17. ASSUME NEW f \in File, Release(f) PROVE ctl'.pc \notin {"quit", "join", "gone"}
  BY <1>1, <1>17, ReleaseDoes
<1>18. ASSUME NEW f \in File, AcquireHit(f) PROVE ctl'.pc \notin {"quit", "join", "gone"}
  BY <1>18 DEF AcquireHit, Idle
<1>19. ASSUME NEW i \in Voice, CreateSource(i) PROVE ctl'.pc \notin {"quit", "join", "gone"}
  <2>1. ctl' = ctl /\ ctl.pc = "idle"
    BY <1>19, Zenon DEF CreateSource, Call
  <2> QED BY <2>1
<1>20. ASSUME NEW h \in Sources, DestroySource(h) PROVE ctl'.pc \notin {"quit", "join", "gone"}
  <2>1. ctl' = ctl /\ ctl.pc = "idle"
    BY <1>20, Zenon DEF DestroySource, Call
  <2> QED BY <2>1
<1>21. ASSUME NEW h \in Sources, Seek(h) PROVE ctl'.pc \notin {"quit", "join", "gone"}
  <2>1. ctl' = ctl /\ ctl.pc = "idle"
    BY <1>21, Zenon DEF Seek, Call
  <2> QED BY <2>1
<1>22. ASSUME NEW h \in Sources, Stop(h) PROVE ctl'.pc \notin {"quit", "join", "gone"}
  <2>1. ctl' = ctl /\ ctl.pc = "idle"
    BY <1>22, Zenon DEF Stop, Call
  <2> QED BY <2>1
<1>23. ASSUME NEW h \in Sources, StopAt(h) PROVE ctl'.pc \notin {"quit", "join", "gone"}
  <2>1. ctl' = ctl /\ ctl.pc = "idle"
    BY <1>23, Zenon DEF StopAt, Call
  <2> QED BY <2>1
<1>24. ASSUME NEW h \in Sources, NEW s \in Sounds, Play(h, s) PROVE ctl'.pc \notin {"quit", "join", "gone"}
  <2>1. ctl' = ctl /\ ctl.pc = "idle"
    BY <1>24, Zenon DEF Play, Call
  <2> QED BY <2>1
<1> QED BY <1>2, <1>3, <1>4, <1>5, <1>6, <1>7, <1>8, <1>9, <1>10, <1>11, <1>12, <1>13, <1>14, <1>15,
     <1>16, <1>17, <1>18, <1>19, <1>20, <1>21, <1>22, <1>23, <1>24 DEF ControlNext, ControlStep

\* The last step of bwa_destroy leaves nothing behind.
LEMMA ShutdownJoinKeeps ==
    ASSUME TypeOK, Running, ShutdownJoin
    PROVE  Emptied' /\ Over'
<1>1. Buffers
  BY DEF Running
<1>2. /\ ldr.pc \in {"none", "exit"} /\ ldr' = ldr /\ jobs' = <<>> /\ res' = <<>>
      /\ heap' = heap \ ({r.snd : r \in ToSet(res)} \cup Sounds)
      /\ snd' = [s \in Sound |-> [snd[s] EXCEPT !.st = "free"]]
      /\ ctl'.pc = "gone"
  BY DEF ShutdownJoin, Idle
<1>3. \A s \in Sound : snd'[s].st = "free"
  BY <1>2, TypeParts DEF SlotsOK, SndRec
<1>4. ASSUME NEW h \in heap, h \notin Sounds
      PROVE  h \in {r.snd : r \in ToSet(res)}
  <2>1. h \in Handle
    BY TypeParts DEF SlotsOK
  <2>2. ~Is(h, "live") /\ ~Is(h, "retiring")
    BY <1>4, <2>1, Handles DEF Is, Sounds
  <2>3. PICK k \in DOMAIN res : res[k].snd = h
    BY <1>1, <1>2, <2>1, <2>2 DEF Buffers
  <2>4. res[k] \in ToSet(res)
    BY DEF ToSet
  <2> QED BY <2>3, <2>4
<1>5. heap' = {}
  BY <1>2, <1>4
<1> QED BY <1>2, <1>3, <1>5 DEF Emptied, Over

\* After assets_create and rt_create every slot is on the free list and nothing is under way.
LEMMA InitHolds == Init => CacheIInv
<1> SUFFICES ASSUME Init PROVE CacheIInv
  OBVIOUS
<1>1. TypeOK
  <2>1. CacheOK
    BY Handles DEF Init, CacheOK, EntryRec, NoEntry
  <2>2. SlotsOK
    <3>1. snd \in [Sound -> SndRec] /\ slot \in [Voice -> SlotRec] /\ held \subseteq HeldRec /\ heap \subseteq Handle
      BY DEF Init, SndRec, SlotRec, SoundStates
    <3>2. sfree \in Seq(Sound)
      <4>1. SoundCap \in Nat /\ sfree = [k \in 1 .. SoundCap |-> SoundCap + 1 - k]
        BY Sizes DEF Init
      <4>2. \A k \in 1 .. SoundCap : SoundCap + 1 - k \in 1 .. SoundCap
        BY <4>1
      <4> QED BY <4>1, <4>2 DEF Sound
    <3> QED BY <3>1, <3>2 DEF SlotsOK
  <2>3. CtlOK
    BY Handles DEF Init, CtlOK, CtlRec, Idle, ControlStates
  <2>4. LoadOK
    <3>1. [pc |-> "none", snd |-> None, ok |-> FALSE] \in LdrRec
      BY Handles DEF LdrRec, LoaderStates
    <3>2. ldr \in LdrRec
      BY <3>1, Zenon DEF Init
    <3>3. jobEv \in BOOLEAN /\ stop \in BOOLEAN
      BY DEF Init
    <3>4. jobs \in Seq(Handle) /\ res \in Seq(ResRec)
      BY DEF Init
    <3> QED BY <3>2, <3>3, <3>4 DEF LoadOK
  <2>5. RingOK
    BY DEF Init, RingOK, NoBatch
  <2>6. VoiceOK
    BY Handles DEF Init, VoiceOK, VoiceRec
  <2>7. WantOK
    BY Handles DEF Init, WantOK, WantRec, Nothing
  <2> QED BY <2>1, <2>2, <2>3, <2>4, <2>5, <2>6, <2>7, TypeParts
<1>2. /\ \A f \in File : entry[f].st = "none"
      /\ \A s \in Sound : snd[s].st = "free"
      /\ park = {} /\ held = {} /\ heap = {} /\ jobs = <<>> /\ res = <<>> /\ cmd = <<>> /\ ack = <<>>
      /\ ctl.pc = "idle" /\ ldr.pc = "none" /\ batch = NoBatch /\ inflight = 0
      /\ \A i \in Voice : voice[i].snd = None
  BY DEF Init, NoEntry, Idle
<1>3. Waiting = {} /\ DOMAIN cmd = {} /\ DOMAIN ack = {} /\ DOMAIN jobs = {} /\ DOMAIN res = {}
  <2>1. Len(cmd) = 0 /\ batch.done = 0
    BY <1>2 DEF NoBatch
  <2> QED BY <1>2, <2>1 DEF Waiting
<1>4. FreeList
  <2>1. SoundCap \in Nat /\ sfree = [k \in 1 .. SoundCap |-> SoundCap + 1 - k]
    BY Sizes DEF Init
  <2>2. \A k \in 1 .. SoundCap : SoundCap + 1 - k \in 1 .. SoundCap
    BY <2>1
  <2>3. \A k \in DOMAIN sfree : sfree[k] \in Sound
    BY <2>1, <2>2 DEF Sound
  <2>4. \A j, k \in DOMAIN sfree : sfree[j] = sfree[k] => j = k
    BY <2>1
  <2> QED BY <1>2, <2>3, <2>4 DEF FreeList
<1>5. Entries /\ Parks /\ HeldUnsent
  BY <1>2 DEF Entries, Parks, HeldUnsent
<1>6. Retires /\ Loads
  BY <1>2, <1>3 DEF Retires, Loads
<1>7. Kept
  BY <1>2 DEF Kept, Is
<1>8. Counted
  BY <1>2, Sizes DEF Counted, LoaderBusy
<1>9. Awaited
  BY <1>2 DEF Awaited
<1>10. Buffers
  BY <1>2, <1>3 DEF Buffers, Is
<1>11. Named
  BY <1>2, <1>3 DEF Named
<1>12. Quitting /\ ~Over
  BY <1>2 DEF Quitting, Over
<1> QED BY <1>1, <1>4, <1>5, <1>6, <1>7, <1>8, <1>9, <1>10, <1>11, <1>12 DEF CacheIInv, Running

\* After bwa_destroy no step is left.
LEMMA NothingAfter == CacheIInv /\ Next => ~Over /\ Running
<1> SUFFICES ASSUME CacheIInv, Next, Over PROVE FALSE
  BY DEF CacheIInv
<1>1. ctl.pc = "gone" /\ ldr.pc \in {"none", "exit"} /\ batch = NoBatch
  BY DEF CacheIInv, Over, Emptied, Quitting
<1>2. ~ControlNext
  BY <1>1 DEF ControlNext, ControlStep, BeginPump, PumpTake, Fire, FireSeek, FireEnd, PumpEnd,
       RetryPark, ParkEnd, Return,
         AcquireSignal, Commit, TakeAck, ShutdownSignal, ShutdownJoin, AcquireHit, AcquireAsync, AcquireNow, Release,
         CreateSource, DestroySource, Seek, Stop, StopAt, Play, StopAll, Shutdown, Body, Call
<1>3. ~LoaderNext
  BY <1>1 DEF LoaderNext, LoaderTop, LoaderPop, LoaderWake, LoaderDecode, LoaderPush, Ldr
<1>4. ~AudioNext
  BY <1>1 DEF AudioNext, DrainCommand, DrainEnd, Playable, NoBatch
<1> QED BY <1>2, <1>3, <1>4 DEF Next

\* Every step keeps the invariant.
LEMMA StepHolds == CacheIInv /\ [Next]_vars => CacheIInv'
<1> SUFFICES ASSUME CacheIInv, [Next]_vars PROVE CacheIInv'
  OBVIOUS
<1>1. TypeOK /\ Quitting /\ (Over => Emptied) /\ (~Over => Running)
  BY DEF CacheIInv
<1>2. CASE UNCHANGED vars
  <2>1. TypeOK'
    BY <1>1, <1>2 DEF TypeOK, vars, cacheVars, sourceVars, loadVars, audioVars
  <2>2. Quitting' /\ (Over' <=> Over)
    BY <1>1, <1>2 DEF Quitting, Over, vars, audioVars
  <2>3. Over => Emptied'
    BY <1>1, <1>2 DEF Emptied, vars, loadVars
  <2>4. ~Over => Running'
    <3>1. UNCHANGED <<entry, inflight, park, snd, sfree, held, ctl, jobs, res, ldr, cmd, ack, batch, voice, heap>>
      BY <1>2 DEF vars, cacheVars, sourceVars, loadVars, audioVars
    <3> QED BY <1>1, <3>1, Alone DEF Running
  <2> QED BY <2>1, <2>2, <2>3, <2>4 DEF CacheIInv
<1>3. ASSUME Next PROVE ~Over
  BY <1>3, NothingAfter
<1>4. CASE ShutdownJoin
  <2>1. Running /\ batch' = NoBatch
    <3>1. ctl.pc = "join" /\ batch' = batch
      BY <1>4, Zenon DEF ShutdownJoin, audioVars
    <3> QED BY <1>1, <3>1 DEF Quitting, Over
  <2>2. TypeOK'
    BY <1>1, <1>4, ShutdownJoinType
  <2> QED BY <1>1, <1>4, <2>1, <2>2, ShutdownJoinKeeps DEF CacheIInv, Quitting
<1>5. CASE ControlNext /\ ~ShutdownJoin
  <2>1. Running
    BY <1>1, <1>3, <1>5 DEF Next
  <2>2. TypeOK' /\ Running'
    BY <1>1, <1>5, <2>1, ControlKeeps
  <2>3. CASE Shutdown
    BY <2>2, <2>3 DEF Shutdown, Quitting, CacheIInv, Over, audioVars, Idle
  <2>4. CASE ShutdownSignal
    BY <1>1, <2>2, <2>4 DEF ShutdownSignal, Quitting, CacheIInv, Over, audioVars, Idle
  <2>5. CASE ~Shutdown /\ ~ShutdownSignal
    <3>1. ctl'.pc \notin {"quit", "join", "gone"}
      BY <1>1, <1>5, <2>1, <2>5, Elsewhere
    <3> QED BY <2>2, <3>1 DEF CacheIInv, Quitting, Over
  <2> QED BY <2>3, <2>4, <2>5
<1>6. CASE LoaderNext
  <2>1. Running
    BY <1>1, <1>3, <1>6 DEF Next
  <2>2. TypeOK' /\ Running'
    BY <1>1, <1>6, <2>1, ThreadsKeep
  <2>3. UNCHANGED <<ctl, batch>>
    BY <1>6 DEF LoaderNext, LoaderTop, LoaderPop, LoaderWake, LoaderDecode, LoaderPush, audioVars
  <2> QED BY <1>1, <1>3, <1>6, <2>2, <2>3 DEF CacheIInv, Quitting, Over, Next
<1>7. CASE AudioNext
  <2>1. Running
    BY <1>1, <1>3, <1>7 DEF Next
  <2>2. TypeOK' /\ Running'
    BY <1>1, <1>7, <2>1, ThreadsKeep
  <2>3. UNCHANGED ctl /\ (batch' = NoBatch \/ ctl.pc \notin {"quit", "join", "gone"})
    BY <1>7 DEF AudioNext, DrainCommand, DrainEnd, Playable
  <2> QED BY <1>1, <1>3, <1>7, <2>2, <2>3 DEF CacheIInv, Quitting, Over, Next
<1> QED BY <1>2, <1>4, <1>5, <1>6, <1>7 DEF Next

\* CacheIInv holds in every reachable state: whatever the three threads interleave, each handle is
\* in the places its slot's state allows, once.
THEOREM CacheInvariant == Spec => []CacheIInv
<1> QED BY InitHolds, StepHolds, PTL DEF Spec

-----------------------------------------------------------------------------
(* The ownership properties. *)

\* A slot's occupant, by its state.
LEMMA OccupantIs ==
    ASSUME TypeOK, NEW h \in Handle
    PROVE  /\ h \in Sounds <=> SndLive(h)
           /\ SndLive(h) <=> Is(h, "pending") \/ Is(h, "live") \/ Is(h, "retiring")
           /\ \A a, b \in SoundStates : Is(h, a) /\ Is(h, b) => a = b
           /\ IsPending(h) <=> Is(h, "pending")
           /\ h \in InSlot <=> Is(h, "live") \/ Is(h, "retiring")
<1>1. \A s \in Sound : s \in Nat /\ snd[s].gen \in Nat /\ snd[s].st \in SoundStates
  BY Sizes, TypeParts DEF SlotsOK, SndRec, Sound
<1>2. h \in Sounds <=> SndLive(h)
  <2>1. ASSUME SndLive(h) PROVE h \in Sounds
    <3>1. h = H(h.idx, snd[h.idx].gen) /\ h.idx \in Sound /\ snd[h.idx].st # "free"
      BY <2>1, Handles DEF SndLive
    <3> QED BY <3>1 DEF Sounds
  <2> QED BY <2>1, SoundIs
<1>3. SndLive(h) <=> Is(h, "pending") \/ Is(h, "live") \/ Is(h, "retiring")
  BY <1>1 DEF SndLive, Is, SoundStates
<1>4. \A a, b \in SoundStates : Is(h, a) /\ Is(h, b) => a = b
  BY DEF Is
<1>5. IsPending(h) <=> Is(h, "pending")
  BY DEF IsPending, SndLive, Is
<1>6. h \in InSlot <=> Is(h, "live") \/ Is(h, "retiring")
  BY <1>2 DEF InSlot, SndLive, Is
<1> QED BY <1>2, <1>3, <1>4, <1>5, <1>6

\* The owners of EveryBufferOwned, handle by handle.
LEMMA ResultsIn ==
    ASSUME TypeOK
    PROVE  /\ InHand \subseteq Handle /\ OnRing \subseteq Handle /\ InSlot \subseteq Handle
           /\ \A h \in Handle : h \in InHand <=> ldr.pc = "push" /\ ldr.ok /\ ldr.snd = h
           /\ \A h \in Handle : h \in OnRing <=> \E k \in DOMAIN res : res[k].ok /\ res[k].snd = h
<1>1. ldr.snd \in Handle /\ res \in Seq(ResRec) /\ ldr.ok \in BOOLEAN
  BY TypeParts DEF LoadOK, LdrRec
<1>2. ToSet(res) = {res[k] : k \in DOMAIN res} /\ \A k \in DOMAIN res : res[k] \in ResRec
  BY <1>1 DEF ToSet
<1>3. InHand \subseteq Handle /\ \A h \in Handle : h \in InHand <=> ldr.pc = "push" /\ ldr.ok /\ ldr.snd = h
  <2>1. CASE ldr.pc = "push" /\ ldr.ok
    BY <1>1, <2>1 DEF InHand
  <2>2. CASE ~(ldr.pc = "push" /\ ldr.ok)
    <3>1. InHand = {}
      BY <2>2, Zenon DEF InHand
    <3> QED BY <2>2, <3>1, Zenon
  <2> QED BY <2>1, <2>2
<1>4. \A h : h \in OnRing <=> \E k \in DOMAIN res : res[k].ok /\ res[k].snd = h
  BY <1>2, Zenon DEF OnRing
<1>5. OnRing \subseteq Handle
  BY <1>2, <1>4 DEF ResRec
<1>6. InSlot \subseteq Handle
  BY SoundIs DEF InSlot
<1> QED BY <1>3, <1>4, <1>5, <1>6

\* An owner is the loader, a result or a slot, and never two of them: a load's handle is not in use yet.
LEMMA BuffersOwned == CacheIInv => EveryBufferOwned
<1> SUFFICES ASSUME CacheIInv PROVE EveryBufferOwned
  OBVIOUS
<1>1. TypeOK /\ heap \subseteq Handle
  BY TypeParts DEF CacheIInv, SlotsOK
<1>2. CASE Over
  <2>1. Emptied
    BY <1>2 DEF CacheIInv
  <2>2. heap = {} /\ InHand = {}
    BY <2>1 DEF Emptied, InHand
  <2>3. OnRing = {}
    BY <1>1, <2>1, ResultsIn DEF Emptied
  <2>4. InSlot = {}
    BY <2>1 DEF Emptied, InSlot, Sounds
  <2> QED BY <2>2, <2>3, <2>4 DEF EveryBufferOwned
<1>3. CASE ~Over
  <2>1. Buffers /\ Loads
    BY <1>3 DEF CacheIInv, Running
  <2>2. \A h \in Handle : h \in heap <=> h \in InHand \/ h \in OnRing \/ h \in InSlot
    BY <1>1, <2>1, ResultsIn, OccupantIs DEF Buffers
  <2>3. heap = InHand \cup OnRing \cup InSlot
    BY <1>1, <2>2, ResultsIn
  <2>4. ASSUME NEW h \in Handle, h \in InHand PROVE h \notin OnRing /\ h \notin InSlot
    <3>1. InLoader(h)
      BY <1>1, <2>4, ResultsIn DEF InLoader
    <3>2. Unborn(h)
      BY <2>1, <3>1 DEF Loads, InLoader
    <3> QED BY <1>1, <2>1, <3>1, <3>2, ResultsIn, OccupantIs DEF Loads, Unborn
  <2>5. ASSUME NEW h \in Handle, h \in OnRing PROVE h \notin InSlot
    BY <1>1, <2>1, <2>5, ResultsIn, OccupantIs DEF Loads, Unborn
  <2> QED BY <1>1, <2>3, <2>4, <2>5, ResultsIn DEF EveryBufferOwned
<1> QED BY <1>2, <1>3

\* A decoded buffer has exactly one owner - the loader, a result on its way or the slot it was
\* published in - and no owner's buffer was freed, whatever raced (assets_pump, assets_release,
\* rt_unload_sound, drain_events, bwa_destroy).
THEOREM EveryBufferOwnedCorrect == Spec => []EveryBufferOwned
BY CacheInvariant, BuffersOwned, PTL

\* What the audio thread is told of is loaded, and its retire is still to come.
LEMMA NothingUnseen == CacheIInv => ReservedUnseen
<1> SUFFICES ASSUME CacheIInv PROVE ReservedUnseen
  OBVIOUS
<1>1. TypeOK
  BY DEF CacheIInv
<1>2. /\ \A k \in DOMAIN cmd : cmd[k].s \in Handle
      /\ \A i \in Voice : voice[i].snd \in Handle
  <2>1. cmd \in Seq(Command) /\ voice \in [Voice -> VoiceRec]
    BY <1>1, TypeParts DEF RingOK, VoiceOK
  <2>2. (\A k \in DOMAIN cmd : cmd[k] \in Command) /\ \A i \in Voice : voice[i] \in VoiceRec
    BY <2>1
  <2> QED BY <2>2 DEF Command, VoiceRec
<1>3. CASE Over
  <2>1. \A h : ~IsPending(h)
    BY <1>3 DEF CacheIInv, Emptied, IsPending, SndLive
  <2> QED BY <1>3, <2>1 DEF ReservedUnseen, Over
<1>4. CASE ~Over
  <2>1. Named
    BY <1>4 DEF CacheIInv, Running
  <2>2. ASSUME NEW k \in DOMAIN cmd, cmd[k].t \in {"PLAY", "RETIRE"} PROVE ~IsPending(cmd[k].s)
    BY <1>1, <1>2, <2>1, <2>2, OccupantIs DEF Named
  <2>3. ASSUME NEW i \in Voice, voice[i].snd # None PROVE SndLive(voice[i].snd) /\ ~IsPending(voice[i].snd)
    <3>1. Is(voice[i].snd, "live") \/ Is(voice[i].snd, "retiring")
      BY <2>1, <2>3 DEF Named, Visible
    <3>2. voice[i].snd \in Handle
      BY <1>2
    <3> QED BY <1>1, <3>1, <3>2, OccupantIs DEF SoundStates
  <2> QED BY <2>2, <2>3 DEF ReservedUnseen
<1> QED BY <1>3, <1>4

\* No command and no voice names a sound that is still decoding, and no voice one whose buffer was
\* freed (play_at_kind, rt_sound_publish, drain_commands, drain_events).
THEOREM ReservedUnseenCorrect == Spec => []ReservedUnseen
BY CacheInvariant, NothingUnseen, PTL

\* Counting to one, and to none.
LEMMA OneOf ==
    ASSUME NEW S, NEW x \in S, \A y \in S : y = x
    PROVE  Cardinality(S) = 1
<1>1. S = {x}
  OBVIOUS
<1> QED BY <1>1, FS_Singleton

LEMMA NoneOf ==
    ASSUME NEW S, \A y \in S : FALSE
    PROVE  Cardinality(S) = 0
<1>1. S = {}
  OBVIOUS
<1> QED BY <1>1, FS_EmptySet

\* How many retires of a slot's occupant are under way: one once it is being retired, none before.
LEMMA UnderWayIs ==
    ASSUME TypeOK, Retires, Kept, NEW h \in Handle, SndLive(h)
    PROVE  UnderWay(h) = IF Is(h, "retiring") THEN 1 ELSE 0
<1> DEFINE A == {k \in Waiting : cmd[k].t = "RETIRE" /\ cmd[k].s = h}
<1> DEFINE B == {k \in DOMAIN ack : ack[k] = h}
<1>1. UnderWay(h) = Cardinality(A) + Cardinality(B)
  BY DEF UnderWay
<1>2. CASE ~Is(h, "retiring")
  <2>1. \A k \in A : FALSE
    BY <1>2 DEF Retires
  <2>2. \A k \in B : FALSE
    BY <1>2 DEF Retires
  <2>3. Cardinality(A) = 0 /\ Cardinality(B) = 0
    <3> HIDE DEF A, B
    <3> QED BY <2>1, <2>2, NoneOf
  <2> QED BY <1>1, <1>2, <2>3
<1>3. CASE Is(h, "retiring")
  <2>1. CASE \E k \in A : TRUE
    <3>1. PICK k \in A : TRUE
      BY <2>1
    <3>2. \A j \in A : j = k
      BY <3>1 DEF Retires
    <3>3. \A j \in B : FALSE
      BY <3>1 DEF Retires
    <3>4. Cardinality(A) = 1 /\ Cardinality(B) = 0
      <4> HIDE DEF A, B
      <4> QED BY <3>1, <3>2, <3>3, NoneOf, OneOf
    <3> QED BY <1>1, <1>3, <3>4
  <2>2. CASE ~(\E k \in A : TRUE)
    <3>1. PICK k \in B : TRUE
      BY <1>3, <2>2 DEF Kept
    <3>2. \A j \in B : j = k
      BY <3>1 DEF Retires
    <3>3. \A j \in A : FALSE
      BY <2>2
    <3>4. Cardinality(A) = 0 /\ Cardinality(B) = 1
      <4> HIDE DEF A, B
      <4> QED BY <3>1, <3>2, <3>3, NoneOf, OneOf
    <3> QED BY <1>1, <1>3, <3>4
  <2> QED BY <2>1, <2>2
<1> QED BY <1>2, <1>3

\* An occupied slot has one of: an entry, a place on the park list, a retire under way.
LEMMA SlotsOwned ==
    ASSUME TypeOK, Entries, Parks, Retires, Kept, NEW h \in Handle, SndLive(h)
    PROVE  Cardinality(Owners(h)) + Cardinality(park \cap {h}) + UnderWay(h) = 1
<1>1. Is(h, "pending") \/ Is(h, "live") \/ Is(h, "retiring")
  BY OccupantIs
<1>2. \A a, b \in SoundStates : Is(h, a) /\ Is(h, b) => a = b
  BY OccupantIs
<1>3. \A f \in Owners(h) : /\ f \in File /\ entry[f].st \in {"loading", "ready", "failed"} /\ entry[f].snd = h
  BY TypeParts DEF Owners, CacheOK, EntryRec
<1>4. \A f, g \in Owners(h) : f = g
  BY <1>3 DEF Owners, Entries
<1>5. h \in park => Owners(h) = {} /\ Is(h, "live")
  BY DEF Owners, Parks
<1>6. Cardinality(park \cap {h}) = IF h \in park THEN 1 ELSE 0
  <2>1. CASE h \in park
    <3>1. park \cap {h} = {h}
      BY <2>1
    <3> QED BY <2>1, <3>1, FS_Singleton
  <2>2. CASE h \notin park
    <3>1. park \cap {h} = {}
      BY <2>2
    <3> QED BY <2>2, <3>1, FS_EmptySet
  <2> QED BY <2>1, <2>2
<1>7. UnderWay(h) = IF Is(h, "retiring") THEN 1 ELSE 0
  BY UnderWayIs
<1>8. Cardinality(Owners(h)) = IF Is(h, "retiring") \/ h \in park THEN 0 ELSE 1
  <2>1. CASE h \in park
    BY <1>5, <2>1, FS_EmptySet
  <2>2. CASE Is(h, "retiring")
    <3>1. \A f \in Owners(h) : FALSE
      BY <1>2, <1>3, <2>2 DEF Entries, SoundStates
    <3> QED BY <2>2, <3>1, NoneOf
  <2>3. CASE h \notin park /\ ~Is(h, "retiring")
    <3>1. PICK f \in File : entry[f].st # "none" /\ entry[f].snd = h
      BY <1>1, <2>3 DEF Kept
    <3>2. f \in Owners(h)
      BY <3>1 DEF Owners
    <3>3. Cardinality(Owners(h)) = 1
      BY <1>4, <3>2, OneOf
    <3> QED BY <2>3, <3>3
  <2> QED BY <2>1, <2>2, <2>3
<1> QED BY <1>2, <1>5, <1>6, <1>7, <1>8 DEF SoundStates

\* What an entry is still waiting for is in the job ring, with the loader, or in the result ring.
LEMMA LoadsOnTheWay ==
    ASSUME TypeOK, Awaited, NEW f \in File, entry[f].st = "loading"
    PROVE  entry[f].snd \in OnTheWay
<1>1. ToSet(jobs) = {jobs[k] : k \in DOMAIN jobs} /\ ToSet(res) = {res[k] : k \in DOMAIN res}
  BY DEF ToSet
<1>2. CASE \E k \in DOMAIN jobs : jobs[k] = entry[f].snd
  BY <1>1, <1>2, Zenon DEF OnTheWay
<1>3. CASE InLoader(entry[f].snd)
  BY <1>3 DEF OnTheWay, InLoader, Decoding
<1>4. CASE \E k \in DOMAIN res : res[k].snd = entry[f].snd
  BY <1>1, <1>4, Zenon DEF OnTheWay
<1> QED BY <1>2, <1>3, <1>4 DEF Awaited

\* No slot is orphaned.
LEMMA OrphanNone == CacheIInv => EverySlotOwned
<1> SUFFICES ASSUME CacheIInv, ctl.pc # "gone" PROVE EverySlotOwned
  BY DEF EverySlotOwned
<1>1. TypeOK /\ Entries /\ Parks /\ Retires /\ Kept /\ Counted /\ Awaited
  BY DEF CacheIInv, Running, Over
<1>2. ASSUME NEW h \in Sounds
      PROVE  /\ Cardinality(Owners(h)) + Cardinality(park \cap {h}) + UnderWay(h) = 1
             /\ snd[h.idx].st = "retiring" <=> UnderWay(h) = 1
  <2>1. h \in Handle /\ SndLive(h)
    BY <1>1, SoundIs
  <2>2. snd[h.idx].st = "retiring" <=> Is(h, "retiring")
    BY <2>1 DEF Is, SndLive
  <2>3. UnderWay(h) = IF Is(h, "retiring") THEN 1 ELSE 0
    BY <1>1, <2>1, UnderWayIs
  <2> QED BY <1>1, <2>1, <2>2, <2>3, SlotsOwned
<1>3. \A f \in File : entry[f].st = "loading" => entry[f].snd \in OnTheWay
  BY <1>1, LoadsOnTheWay
<1>4. Cardinality(Decoding) = LoaderBusy
  BY FS_EmptySet, FS_Singleton DEF Decoding, LoaderBusy
<1> QED BY <1>1, <1>2, <1>3, <1>4 DEF EverySlotOwned, Counted

\* No sound slot is orphaned: it belongs to one cache entry, or is parked, or is being retired once;
\* what an entry waits for is on its way, among at most AJOB_CAP loads (acquire_common, assets_pump,
\* assets_release).
THEOREM EverySlotOwnedCorrect == Spec => []EverySlotOwned
BY CacheInvariant, OrphanNone, PTL

-----------------------------------------------------------------------------
(* The wake-up protocol. *)

\* The two locals are records (what their other fields hold does not matter here).
Records ==
    /\ ctl = [pc |-> ctl.pc, h |-> ctl.h, try |-> ctl.try, left |-> ctl.left]
    /\ ldr = [pc |-> ldr.pc, snd |-> ldr.snd, ok |-> ldr.ok]

\* The control thread raises the event after it queued a job, or after it raised the stop flag; the
\* loader looks at the stop flag before it looks at the queue, so a flag raised in between is still
\* announced when the loader goes to sleep.
Announced ==
    /\ ldr.pc = "wait" /\ jobs # <<>> => jobEv \/ ctl.pc = "signal"
    /\ ldr.pc \in {"pop", "wait"} /\ stop => jobEv \/ ctl.pc = "quit"

WakeInv == Records /\ Announced

\* The loader is not started yet.
LEMMA InitWake == Init => WakeInv
BY DEF Init, WakeInv, Records, Announced, Idle

\* Every step of the control thread that queues a job or stops the loader raises the event next.
LEMMA ControlWake ==
    ASSUME WakeInv, ControlNext PROVE WakeInv'
<1> USE DEF WakeInv, Records, Announced, cacheVars, sourceVars, loadVars
<1>1. CASE BeginPump
  BY <1>1 DEF BeginPump, Idle
<1>2. CASE PumpTake
  BY <1>2 DEF PumpTake
<1>3. CASE \E p \in held : Fire(p)
  <2>1. UNCHANGED loadVars /\ ctl.pc = "fire"
    BY <1>3, Zenon DEF Fire
  <2>2. \E try : ctl' = ctl \/ ctl' = [ctl EXCEPT !.pc = "seek", !.try = try]
    BY <1>3, Zenon DEF Fire
  <2> QED BY <2>1, <2>2
<1>4. CASE FireSeek
  BY <1>4 DEF FireSeek
<1>5. CASE FireEnd
  BY <1>5 DEF FireEnd
<1>6. CASE PumpEnd
  BY <1>6 DEF PumpEnd
<1>7. CASE \E h \in ctl.try : RetryPark(h)
  <2>1. UNCHANGED loadVars /\ ctl.pc = "park" /\ \E try : ctl' = [ctl EXCEPT !.try = try]
    BY <1>7, Zenon DEF RetryPark
  <2> QED BY <2>1
<1>8. CASE ParkEnd
  BY <1>8 DEF ParkEnd
<1>9. CASE Return
  BY <1>9 DEF Return, Idle
<1>10. CASE AcquireSignal
  BY <1>10 DEF AcquireSignal, Idle
<1>11. CASE Commit
  BY <1>11 DEF Commit, Idle
<1>12. CASE ShutdownSignal
  BY <1>12 DEF ShutdownSignal, Idle
<1>13. CASE ShutdownJoin
  BY <1>13 DEF ShutdownJoin, Idle
<1>14. CASE \E f \in File : AcquireHit(f)
  BY <1>14 DEF AcquireHit, Body, Idle
<1>15. CASE \E f \in File : AcquireAsync(f)
  <2>1. /\ jobEv' = jobEv /\ stop' = stop /\ ctl.pc = "body"
        /\ ctl' = [Idle EXCEPT !.pc = "signal"]
        /\ ldr' = IF ldr.pc = "none" THEN [ldr EXCEPT !.pc = "top"] ELSE ldr
    BY <1>15 DEF AcquireAsync, Body
  <2> QED BY <2>1 DEF Idle
<1>16. CASE \E f \in File : AcquireNow(f)
  BY <1>16 DEF AcquireNow, Body, Idle
<1>17. CASE \E f \in File : Release(f)
  BY <1>17 DEF Release, Body, Idle
<1>18. CASE \E i \in Voice : CreateSource(i)
  BY <1>18 DEF CreateSource, Call
<1>19. CASE \E h \in Sources : DestroySource(h)
  BY <1>19 DEF DestroySource, Call
<1>20. CASE \E h \in Sources : Seek(h)
  BY <1>20 DEF Seek, Call
<1>21. CASE \E h \in Sources : Stop(h)
  BY <1>21 DEF Stop, Call
<1>22. CASE \E h \in Sources : StopAt(h)
  BY <1>22 DEF StopAt, Call
<1>23. CASE \E h \in Sources : \E s \in Sounds : Play(h, s)
  BY <1>23 DEF Play, Call
<1>24. CASE StopAll
  BY <1>24 DEF StopAll, Call
<1>25. CASE Shutdown
  BY <1>25 DEF Shutdown, Idle, Call
<1>26. CASE TakeAck
  <2>1. UNCHANGED loadVars /\ ctl.pc = "events"
    BY <1>26, Zenon DEF TakeAck
  <2>2. ctl' = Idle \/ ctl' = [ctl EXCEPT !.left = @ - 1]
    BY <1>26, Zenon DEF TakeAck
  <2> QED BY <2>1, <2>2 DEF Idle
<1> QED BY <1>1, <1>2, <1>3, <1>4, <1>5, <1>6, <1>7, <1>8, <1>9, <1>10, <1>11, <1>12, <1>13, <1>26,
           <1>14, <1>15, <1>16, <1>17, <1>18, <1>19, <1>20, <1>21, <1>22, <1>23, <1>24, <1>25
        DEF ControlNext, ControlStep

\* The loader goes to sleep only with the queue empty and the flag seen down.
LEMMA LoaderStepWake ==
    ASSUME WakeInv, LoaderNext PROVE WakeInv'
<1> USE DEF WakeInv, Records, Announced, cacheVars, sourceVars, loadVars
<1>1. CASE LoaderTop
  BY <1>1 DEF LoaderTop, Ldr
<1>2. CASE LoaderPop
  BY <1>2 DEF LoaderPop, Ldr, EventAtWait
<1>3. CASE LoaderWake
  BY <1>3 DEF LoaderWake, Ldr
<1>4. CASE LoaderDecode
  BY <1>4 DEF LoaderDecode, Ldr
<1>5. CASE LoaderPush
  BY <1>5 DEF LoaderPush, Ldr
<1> QED BY <1>1, <1>2, <1>3, <1>4, <1>5
        DEF LoaderNext

\* The audio thread has no part in it.
LEMMA DrainWake ==
    ASSUME WakeInv, AudioNext PROVE WakeInv'
BY DEF WakeInv, Records, Announced, AudioNext, DrainCommand, DrainEnd, loadVars

\* The invariant of the wake-up protocol is inductive.
THEOREM WakeInvariant == Spec => []WakeInv
<1>1. ASSUME WakeInv, Next PROVE WakeInv'
  BY <1>1, ControlWake, LoaderStepWake, DrainWake DEF Next
<1>2. ASSUME WakeInv, UNCHANGED vars PROVE WakeInv'
  BY <1>2 DEF WakeInv, Records, Announced, vars, loadVars
<1> QED BY InitWake, <1>1, <1>2, PTL DEF Spec

\* The loader never sleeps through work or through bwa_destroy.
THEOREM NoLostWakeUpCorrect == Spec => []NoLostWakeUp
<1>1. WakeInv => NoLostWakeUp
  BY DEF WakeInv, Announced, NoLostWakeUp
<1> QED BY <1>1, WakeInvariant, PTL

-----------------------------------------------------------------------------
(* What a waiting command will make of a voice.                            *)

Voices == [Voice -> VoiceRec]

\* The occupants are the live handles.
LEMMA OccupantOf ==
    ASSUME TypeOK
    PROVE  \A h : h \in Occupants <=> h \in Handle /\ Live(h)
<1>1. slot \in [Voice -> SlotRec]
  BY TypeParts DEF SlotsOK
<1>2. \A i \in Voice : i \in Nat /\ slot[i].gen \in Nat
  BY <1>1, Sizes DEF Voice, SlotRec
<1>3. ASSUME NEW h \in Occupants PROVE h \in Handle /\ Live(h)
  <2>1. PICK i \in Voice : slot[i].inuse /\ h = H(i, slot[i].gen)
    BY <1>3 DEF Occupants
  <2> QED BY <1>2, <2>1, Handles DEF Live
<1>4. ASSUME NEW h \in Handle, Live(h) PROVE h \in Occupants
  <2>1. h.idx \in Voice /\ slot[h.idx].inuse /\ h = H(h.idx, slot[h.idx].gen)
    BY <1>4, Handles DEF Live
  <2> QED BY <2>1 DEF Occupants
<1> QED BY <1>3, <1>4

\* ... after a step, too.
LEMMA OccupantOfPrime ==
    ASSUME TypeOK'
    PROVE  \A h : h \in Occupants' <=> h \in Handle /\ Live(h)'
<1>1. slot' \in [Voice -> SlotRec]
  BY TypePartsPrime DEF SlotsOK
<1>2. \A i \in Voice : i \in Nat /\ slot'[i].gen \in Nat
  BY <1>1, Sizes DEF Voice, SlotRec
<1>3. ASSUME NEW h \in Occupants' PROVE h \in Handle /\ Live(h)'
  <2>1. PICK i \in Voice : slot'[i].inuse /\ h = H(i, slot'[i].gen)
    BY <1>3 DEF Occupants
  <2> QED BY <1>2, <2>1, Handles DEF Live
<1>4. ASSUME NEW h \in Handle, Live(h)' PROVE h \in Occupants'
  <2>1. h.idx \in Voice /\ slot'[h.idx].inuse /\ h = H(h.idx, slot'[h.idx].gen)
    BY <1>4, Handles DEF Live
  <2> QED BY <2>1 DEF Occupants
<1> QED BY <1>3, <1>4

\* What a command does to a voice.
LEMMA EffectIs ==
    ASSUME NEW vs \in Voices, NEW c \in Command
    PROVE  /\ Effect(vs, c) \in Voices
           /\ c.t = "CREATE" => \A i \in Voice :
                IF i = c.v.idx THEN /\ Effect(vs, c)[i].gen = c.v.gen /\ Effect(vs, c)[i].active /\ ~Effect(vs, c)[i].on
                                    /\ Effect(vs, c)[i].snd = None
                ELSE Effect(vs, c)[i] = vs[i]
           /\ c.t = "STOP_ALL" => \A i \in Voice :
                /\ Effect(vs, c)[i].gen = vs[i].gen /\ Effect(vs, c)[i].active = vs[i].active
                /\ ~Effect(vs, c)[i].on /\ Effect(vs, c)[i].snd = vs[i].snd
           /\ c.t = "RETIRE" => \A i \in Voice :
                IF vs[i].snd = c.s
                THEN /\ Effect(vs, c)[i].gen = vs[i].gen /\ Effect(vs, c)[i].active = vs[i].active
                     /\ ~Effect(vs, c)[i].on /\ Effect(vs, c)[i].snd = None
                ELSE Effect(vs, c)[i] = vs[i]
           /\ c.t \notin {"CREATE", "STOP_ALL", "RETIRE"} =>
                \A i \in Voice : i # c.v.idx \/ ~VoiceOf(vs, c.v) => Effect(vs, c)[i] = vs[i]
           /\ c.t = "DESTROY" /\ VoiceOf(vs, c.v) => Effect(vs, c)[c.v.idx].snd = None
           /\ c.t = "PLAY" /\ VoiceOf(vs, c.v) =>
                /\ VoiceOf(Effect(vs, c), c.v)
                /\ Effect(vs, c)[c.v.idx].on /\ Effect(vs, c)[c.v.idx].snd = c.s
                /\ ~Effect(vs, c)[c.v.idx].seek /\ ~Effect(vs, c)[c.v.idx].stopAt
           /\ c.t = "SEEK" /\ VoiceOf(vs, c.v) =>
                /\ VoiceOf(Effect(vs, c), c.v)
                /\ Effect(vs, c)[c.v.idx].on <=> vs[c.v.idx].on
                /\ Effect(vs, c)[c.v.idx].seek <=> vs[c.v.idx].on
                /\ Effect(vs, c)[c.v.idx].stopAt <=> vs[c.v.idx].stopAt
                /\ Effect(vs, c)[c.v.idx].snd = vs[c.v.idx].snd
           /\ c.t = "STOP" /\ VoiceOf(vs, c.v) =>
                /\ VoiceOf(Effect(vs, c), c.v)
                /\ ~Effect(vs, c)[c.v.idx].on /\ Effect(vs, c)[c.v.idx].snd = vs[c.v.idx].snd
           /\ c.t = "STOP_AT" /\ VoiceOf(vs, c.v) =>
                /\ VoiceOf(Effect(vs, c), c.v)
                /\ Effect(vs, c)[c.v.idx].on <=> vs[c.v.idx].on
                /\ Effect(vs, c)[c.v.idx].seek <=> vs[c.v.idx].seek
                /\ Effect(vs, c)[c.v.idx].stopAt <=> vs[c.v.idx].on
                /\ Effect(vs, c)[c.v.idx].snd = vs[c.v.idx].snd
<1>1. vs \in [Voice -> VoiceRec] /\ c.v \in Handle /\ c.s \in Handle /\ c.t \in CommandNames /\ c.v.gen \in Nat
  BY Handles DEF Voices, Command
<1>2. ASSUME NEW r \in VoiceRec
      PROVE  /\ Silent(r) \in VoiceRec /\ Silent(r).snd = r.snd /\ Silent(r).gen = r.gen /\ Silent(r).active = r.active
             /\ ~Silent(r).on /\ ~Silent(r).seek /\ ~Silent(r).stopAt
  BY DEF Silent, VoiceRec
<1>3. ASSUME NEW r \in VoiceRec
      PROVE  /\ [Silent(r) EXCEPT !.snd = None] \in VoiceRec /\ [Silent(r) EXCEPT !.snd = None].snd = None
             /\ [Silent(r) EXCEPT !.snd = None].gen = r.gen /\ [Silent(r) EXCEPT !.snd = None].active = r.active
             /\ ~[Silent(r) EXCEPT !.snd = None].on
  <2> DEFINE q == Silent(r)
  <2>1. q \in VoiceRec /\ q.gen = r.gen /\ q.active = r.active /\ ~q.on
    BY <1>2
  <2> HIDE DEF q
  <2>2. /\ [q EXCEPT !.snd = None] \in VoiceRec /\ [q EXCEPT !.snd = None].snd = None
        /\ [q EXCEPT !.snd = None].gen = q.gen /\ [q EXCEPT !.snd = None].active = q.active
        /\ [q EXCEPT !.snd = None].on = q.on
    BY <2>1, Handles DEF VoiceRec
  <2> QED BY <2>1, <2>2 DEF q
<1>4. CASE c.t = "CREATE"
  <2> DEFINE new == [gen |-> c.v.gen, active |-> TRUE, snd |-> None, on |-> FALSE, seek |-> FALSE, stopAt |-> FALSE]
  <2>1. new \in VoiceRec /\ new.gen = c.v.gen /\ new.active /\ ~new.on /\ new.snd = None
    BY <1>1, Handles DEF VoiceRec
  <2>2. Effect(vs, c) = [vs EXCEPT ![c.v.idx] = new]
    BY <1>4 DEF Effect
  <2> HIDE DEF new
  <2>3. Effect(vs, c) \in [Voice -> VoiceRec] /\ \A i \in Voice : Effect(vs, c)[i] = IF i = c.v.idx THEN new ELSE vs[i]
    BY <1>1, <2>1, <2>2
  <2> QED BY <1>4, <2>1, <2>3 DEF Voices
<1>5. CASE c.t = "PLAY" /\ VoiceOf(vs, c.v)
  <2> DEFINE new == [Silent(vs[c.v.idx]) EXCEPT !.snd = c.s, !.on = TRUE]
  <2>1. c.v.idx \in Voice /\ vs[c.v.idx] \in VoiceRec /\ vs[c.v.idx].active /\ vs[c.v.idx].gen = c.v.gen
    BY <1>1, <1>5 DEF VoiceOf
  <2>2. Silent(vs[c.v.idx]) \in VoiceRec /\ Silent(vs[c.v.idx]).gen = c.v.gen /\ Silent(vs[c.v.idx]).active
    BY <1>2, <2>1
  <2>3. new \in VoiceRec /\ new.gen = c.v.gen /\ new.active /\ new.on /\ new.snd = c.s /\ ~new.seek /\ ~new.stopAt
    <3>1. ~Silent(vs[c.v.idx]).seek /\ ~Silent(vs[c.v.idx]).stopAt
      BY <1>2, <2>1
    <3> QED BY <1>1, <2>2, <3>1 DEF VoiceRec
  <2>4. Effect(vs, c) = [vs EXCEPT ![c.v.idx] = new]
    BY <1>5 DEF Effect
  <2> HIDE DEF new
  <2>5. Effect(vs, c) \in [Voice -> VoiceRec] /\ \A i \in Voice : Effect(vs, c)[i] = IF i = c.v.idx THEN new ELSE vs[i]
    BY <1>1, <2>3, <2>4
  <2> QED BY <1>5, <2>1, <2>3, <2>5 DEF Voices, VoiceOf
<1>6. CASE c.t = "DESTROY" /\ VoiceOf(vs, c.v)
  <2> DEFINE new == [Silent(vs[c.v.idx]) EXCEPT !.active = FALSE, !.snd = None]
  <2>1. c.v.idx \in Voice /\ vs[c.v.idx] \in VoiceRec
    BY <1>1, <1>6 DEF VoiceOf
  <2>2. new \in VoiceRec /\ new.snd = None
    <3>1. Silent(vs[c.v.idx]) \in VoiceRec
      BY <1>2, <2>1
    <3> QED BY <3>1, Handles DEF VoiceRec
  <2>3. Effect(vs, c) = [vs EXCEPT ![c.v.idx] = new]
    BY <1>6 DEF Effect
  <2> HIDE DEF new
  <2>4. Effect(vs, c) \in [Voice -> VoiceRec] /\ \A i \in Voice : Effect(vs, c)[i] = IF i = c.v.idx THEN new ELSE vs[i]
    BY <1>1, <2>2, <2>3
  <2> QED BY <1>6, <2>1, <2>2, <2>4 DEF Voices
<1>7. CASE c.t \in {"SEEK", "STOP_AT"} /\ VoiceOf(vs, c.v)
  <2>1. c.v.idx \in Voice /\ vs[c.v.idx] \in VoiceRec /\ vs[c.v.idx].active /\ vs[c.v.idx].gen = c.v.gen
    BY <1>1, <1>7 DEF VoiceOf
  <2>2. CASE c.t = "SEEK"
    <3> DEFINE new == [vs[c.v.idx] EXCEPT !.seek = vs[c.v.idx].on]
    <3>1. /\ new \in VoiceRec /\ new.gen = c.v.gen /\ new.active /\ new.snd = vs[c.v.idx].snd
          /\ new.on <=> vs[c.v.idx].on
          /\ new.seek <=> vs[c.v.idx].on
          /\ new.stopAt <=> vs[c.v.idx].stopAt
      BY <2>1 DEF VoiceRec
    <3>2. Effect(vs, c) = [vs EXCEPT ![c.v.idx] = new]
      BY <1>7, <2>2 DEF Effect
    <3> HIDE DEF new
    <3>3. Effect(vs, c) \in [Voice -> VoiceRec] /\ \A i \in Voice : Effect(vs, c)[i] = IF i = c.v.idx THEN new ELSE vs[i]
      BY <1>1, <3>1, <3>2
    <3> QED BY <2>2, <2>1, <3>1, <3>3 DEF Voices, VoiceOf
  <2>3. CASE c.t = "STOP_AT"
    <3> DEFINE new == [vs[c.v.idx] EXCEPT !.stopAt = vs[c.v.idx].on]
    <3>1. /\ new \in VoiceRec /\ new.gen = c.v.gen /\ new.active /\ new.snd = vs[c.v.idx].snd
          /\ new.on <=> vs[c.v.idx].on
          /\ new.seek <=> vs[c.v.idx].seek
          /\ new.stopAt <=> vs[c.v.idx].on
      BY <2>1 DEF VoiceRec
    <3>2. Effect(vs, c) = [vs EXCEPT ![c.v.idx] = new]
      BY <1>7, <2>3 DEF Effect
    <3> HIDE DEF new
    <3>3. Effect(vs, c) \in [Voice -> VoiceRec] /\ \A i \in Voice : Effect(vs, c)[i] = IF i = c.v.idx THEN new ELSE vs[i]
      BY <1>1, <3>1, <3>2
    <3> QED BY <2>3, <2>1, <3>1, <3>3 DEF Voices, VoiceOf
  <2> QED BY <1>7, <2>2, <2>3
<1>8. CASE c.t = "STOP" /\ VoiceOf(vs, c.v)
  <2> DEFINE new == Silent(vs[c.v.idx])
  <2>1. c.v.idx \in Voice /\ vs[c.v.idx] \in VoiceRec /\ vs[c.v.idx].active /\ vs[c.v.idx].gen = c.v.gen
    BY <1>1, <1>8 DEF VoiceOf
  <2>2. new \in VoiceRec /\ new.gen = c.v.gen /\ new.active /\ new.snd = vs[c.v.idx].snd /\ ~new.on
    BY <1>2, <2>1
  <2>3. Effect(vs, c) = [vs EXCEPT ![c.v.idx] = new]
    BY <1>8 DEF Effect
  <2> HIDE DEF new
  <2>4. Effect(vs, c) \in [Voice -> VoiceRec] /\ \A i \in Voice : Effect(vs, c)[i] = IF i = c.v.idx THEN new ELSE vs[i]
    BY <1>1, <2>2, <2>3
  <2> QED BY <1>8, <2>1, <2>2, <2>4 DEF Voices, VoiceOf
<1>9. CASE c.t = "STOP_ALL"
  <2>1. Effect(vs, c) = [j \in Voice |-> Silent(vs[j])]
    BY <1>9 DEF Effect
  <2> QED BY <1>1, <1>2, <1>9, <2>1 DEF Voices
<1>10. CASE c.t = "RETIRE"
  <2>1. Effect(vs, c) = [j \in Voice |-> IF vs[j].snd = c.s THEN [Silent(vs[j]) EXCEPT !.snd = None] ELSE vs[j]]
    BY <1>10 DEF Effect
  <2>2. \A i \in Voice : vs[i] \in VoiceRec
    BY <1>1
  <2> DEFINE new(i) == [Silent(vs[i]) EXCEPT !.snd = None]
  <2>3. \A i \in Voice : /\ new(i) \in VoiceRec /\ new(i).snd = None /\ new(i).gen = vs[i].gen
                         /\ new(i).active = vs[i].active /\ ~new(i).on
    BY <1>3, <2>2
  <2>4. Effect(vs, c) = [j \in Voice |-> IF vs[j].snd = c.s THEN new(j) ELSE vs[j]]
    BY <2>1
  <2> HIDE DEF new
  <2>5. Effect(vs, c) \in Voices
    BY <2>2, <2>3, <2>4 DEF Voices
  <2> QED BY <1>10, <2>3, <2>4, <2>5
<1>11. CASE /\ c.t \notin {"CREATE", "STOP_ALL", "RETIRE"}
            /\ c.t \in {"PLAY", "DESTROY", "SEEK", "STOP", "STOP_AT"} => ~VoiceOf(vs, c.v)
  <2>1. Effect(vs, c) = vs
    BY <1>11 DEF Effect
  <2> QED BY <1>1, <1>11, <2>1 DEF Voices
<1> QED BY <1>4, <1>5, <1>6, <1>7, <1>8, <1>9, <1>10, <1>11

-----------------------------------------------------------------------------
(* The future of the voices: how a call, a command and a block change it.  *)

\* A step leaves alone what the client can expect of the source h, or leaves nothing to expect.
Undisturbed(h) ==
    WantOf(h)'.all /\ Unheld(h)' =>
        \/ WantOf(h)'.on /\ ~Is(WantOf(h).snd, "live")'
        \/ /\ WantOf(h)' = WantOf(h) /\ Unheld(h)
           /\ WantOf(h).on /\ Is(WantOf(h).snd, "live")' => Is(WantOf(h).snd, "live")
           /\ Seeking(h) => Seeking(h)'
\* The command c is what the client asked of h.
Answers(c, h) == \A vs \in Voices : (Live(h) => Outcome(vs, h)) => Outcome(Effect(vs, c), h)'
\* The command c is about another source, or ends a sound that is not to be heard any more.
Spares(c, h) == (c.t = "CREATE" => c.v.idx # h.idx) /\ (c.t = "RETIRE" => ~Is(c.s, "live")')

\* Undisturbed is what an outcome needs to stay.
LEMMA OutcomeStays ==
    ASSUME NEW h, NEW vs, Undisturbed(h), Outcome(vs, h)
    PROVE  Outcome(vs, h)'
BY DEF Undisturbed, Outcome

\* A command that does not touch a source leaves its voice alone.
LEMMA EffectSpares ==
    ASSUME TypeOK', NEW h \in Handle, NEW vs \in Voices, NEW c \in Command,
           ~Touches(c, h), Spares(c, h), Outcome(vs, h)'
    PROVE  Outcome(Effect(vs, c), h)'
<1>0. PICK e \in Voices : e = Effect(vs, c)
  BY EffectIs
<1>1. /\ h.idx \in Voice /\ vs[h.idx].active /\ vs[h.idx].gen = h.gen /\ c.t # "STOP_ALL"
      /\ c.v \in Handle /\ c.v # h
  BY DEF Outcome, VoiceOf, Touches, Command
<1>2. CASE c.t = "RETIRE"
  <2>1. IF vs[h.idx].snd = c.s
        THEN e[h.idx].gen = vs[h.idx].gen /\ e[h.idx].active = vs[h.idx].active /\ ~e[h.idx].on
        ELSE e[h.idx] = vs[h.idx]
    <3>1. \A i \in Voice :
                IF vs[i].snd = c.s
                THEN /\ e[i].gen = vs[i].gen /\ e[i].active = vs[i].active
                     /\ ~e[i].on /\ e[i].snd = None
                ELSE e[i] = vs[i]
      BY <1>0, <1>2, EffectIs
    <3> QED BY <1>1, <3>1
  <2>2. ~Is(c.s, "live")'
    BY <1>2 DEF Spares
  <2>3. Outcome(e, h)'
    <3>1. CASE vs[h.idx].snd = c.s
      <4>1. VoiceOf(e, h) /\ ~e[h.idx].on
        BY <1>1, <2>1, <3>1 DEF VoiceOf
      <4>2. WantOf(h)'.all /\ Unheld(h)' => ~(WantOf(h)'.on /\ Is(WantOf(h).snd, "live")')
        BY <2>2, <3>1 DEF Outcome
      <4> QED BY <4>1, <4>2 DEF Outcome, VoiceOf
    <3>2. CASE vs[h.idx].snd # c.s
      BY <1>1, <2>1, <3>2 DEF Outcome, VoiceOf
    <3> QED BY <3>1, <3>2
  <2> QED BY <1>0, <2>3
<1>3. CASE c.t # "RETIRE"
  <2>1. CASE c.v.idx # h.idx
    <3>1. e[h.idx] = vs[h.idx]
      BY <1>0, <1>1, <1>3, <2>1, EffectIs
    <3>2. Outcome(e, h)'
      BY <3>1 DEF Outcome, VoiceOf
    <3> QED BY <1>0, <3>2
  <2>2. CASE c.v.idx = h.idx
    <3>1. c.t # "CREATE"
      BY <2>2 DEF Spares
    <3>2. c.v.gen # h.gen
      BY <1>1, <2>2, Handles
    <3>3. ~VoiceOf(vs, c.v)
      BY <1>1, <2>2, <3>2 DEF VoiceOf
    <3>4. e[h.idx] = vs[h.idx]
      BY <1>0, <1>1, <1>3, <3>1, <3>3, EffectIs
    <3>5. Outcome(e, h)'
      BY <3>4 DEF Outcome, VoiceOf
    <3> QED BY <1>0, <3>5
  <2> QED BY <2>1, <2>2
<1> QED BY <1>2, <1>3

Futures == [Places -> Voices]

\* A future that is foreseen, as a function of the places in the ring.
LEMMA ForeseenIs == Foreseen <=> \E F \in Futures : IsFuture(F) /\ ForeseenBy(F)
BY DEF Foreseen, Futures, Voices, VoiceRec
LEMMA ForeseenIsPrime == Foreseen' <=> \E F \in Futures' : IsFuture(F)' /\ ForeseenBy(F)'
BY DEF Foreseen, Futures, Voices, VoiceRec

\* A step that sends nothing and disturbs no source.
LEMMA CalmForeseen ==
    ASSUME TypeOK, TypeOK', Foreseen, UNCHANGED <<cmd, batch, voice>>,
           \A h \in Handle : Live(h)' => Live(h) /\ Undisturbed(h)
    PROVE  Foreseen'
<1>1. PICK F \in Futures : IsFuture(F) /\ ForeseenBy(F)
  BY ForeseenIs
<1>2. Places' = Places /\ Waiting' = Waiting /\ Futures' = Futures
  BY DEF Places, Waiting, Futures
<1>3. IsFuture(F)'
  BY <1>1, <1>2 DEF IsFuture
<1>4. ASSUME NEW h \in Occupants', NEW k \in Places', Untouched(k, h)'
      PROVE  Outcome(F[k], h)'
  <2>1. h \in Handle /\ Live(h)'
    BY OccupantOfPrime
  <2>2. h \in Occupants /\ Undisturbed(h)
    BY <2>1, OccupantOf
  <2>3. Untouched(k, h)
    BY <1>2, <1>4 DEF Untouched
  <2>4. Outcome(F[k], h)
    BY <1>1, <1>2, <2>2, <2>3 DEF ForeseenBy
  <2> QED BY <2>2, <2>4, OutcomeStays
<1>5. ForeseenBy(F)'
  BY <1>4 DEF ForeseenBy
<1> QED BY <1>1, <1>2, <1>3, <1>5, ForeseenIsPrime

\* A step that sends a command: what the client asked of its source, and nothing about the others.
LEMMA PushForeseen ==
    ASSUME TypeOK, TypeOK', Foreseen, NEW c \in Command, Push(c), CmdRoom(1), UNCHANGED <<batch, voice>>,
           \A h \in Handle : Live(h)' =>
               IF Touches(c, h) THEN Answers(c, h) ELSE Live(h) /\ Undisturbed(h) /\ Spares(c, h)
    PROVE  Foreseen'
<1>0. PICK n \in Nat : n = Len(cmd)
  BY SeqDomain
<1>1. PICK F \in Futures : IsFuture(F) /\ ForeseenBy(F)
  BY ForeseenIs
<1>2. /\ n \in Nat /\ batch.done \in Nat /\ batch.done <= n
      /\ Len(cmd') = n + 1 /\ cmd'[n + 1] = c /\ \A k \in 1 .. n : cmd'[k] = cmd[k]
  BY <1>0, Pushed, TypeParts, SeqDomain DEF RingOK
<1>3. Places = batch.done .. n /\ Waiting = batch.done + 1 .. n
  BY <1>0 DEF Places, Waiting
<1>4. Places' = batch.done .. n + 1 /\ Waiting' = batch.done + 1 .. n + 1
  BY <1>2 DEF Places, Waiting
<1>5. n \in Places /\ F[n] \in Voices /\ Effect(F[n], c) \in Voices
  <2>1. n \in Places
    BY <1>2, <1>3
  <2>2. F[n] \in Voices
    BY <2>1 DEF Futures
  <2> QED BY <2>1, <2>2, EffectIs
<1>a. PICK G : G = [k \in batch.done .. n + 1 |-> IF k = n + 1 THEN Effect(F[n], c) ELSE F[k]]
  OBVIOUS
<1>6. G[n + 1] = Effect(F[n], c) /\ \A k \in Places : k # n + 1 /\ k \in batch.done .. n + 1 /\ G[k] = F[k]
  BY <1>2, <1>3, <1>a
<1>7. G \in Futures'
  <2>1. \A k \in batch.done .. n + 1 : k = n + 1 \/ k \in Places
    BY <1>2, <1>3
  <2>2. \A k \in Places : F[k] \in Voices
    BY DEF Futures
  <2>3. G \in [batch.done .. n + 1 -> Voices]
    BY <1>5, <1>a, <2>1, <2>2
  <2> QED BY <1>4, <2>3 DEF Futures, Voices
<1>8. IsFuture(G)'
  <2>1. G[batch.done] = F[batch.done]
    BY <1>2, <1>3, <1>6
  <2>2. ASSUME NEW k \in Waiting' PROVE G[k] = Effect(G[k - 1], cmd'[k])
    <3>1. CASE k = n + 1
      <4>1. n + 1 - 1 = n /\ G[n] = F[n]
        BY <1>2, <1>5, <1>6
      <4> QED BY <1>2, <1>6, <3>1, <4>1
    <3>2. CASE k # n + 1
      <4>1. k \in Waiting /\ k \in Places /\ k - 1 \in Places /\ k \in 1 .. n
        BY <1>2, <1>3, <1>4, <3>2
      <4>2. F[k] = Effect(F[k - 1], cmd[k])
        BY <1>1, <4>1 DEF IsFuture
      <4> QED BY <1>2, <1>6, <4>1, <4>2
    <3> QED BY <3>1, <3>2
  <2> QED BY <1>1, <2>1, <2>2 DEF IsFuture
<1>9. ASSUME NEW h \in Occupants', NEW k \in Places', Untouched(k, h)'
      PROVE  Outcome(G[k], h)'
  <2>1. h \in Handle /\ Live(h)'
    BY OccupantOfPrime
  <2>2. \A j \in Waiting : j \in Waiting' /\ cmd'[j] = cmd[j]
    BY <1>2, <1>3, <1>4
  <2>3. Untouched(n, h)
    BY <1>2, <1>3 DEF Untouched
  <2>4. Live(h) => Outcome(F[n], h)
    BY <1>1, <1>5, <2>1, <2>3, OccupantOf DEF ForeseenBy
  <2>5. CASE Touches(c, h)
    <3>1. k = n + 1
      <4>1. ~(n + 1 > k)
        BY <1>2, <1>4, <1>9, <2>5 DEF Untouched
      <4> QED BY <1>2, <1>4, <4>1
    <3>2. Answers(c, h)
      BY <2>1, <2>5
    <3> QED BY <1>5, <1>6, <2>4, <3>1, <3>2 DEF Answers
  <2>6. CASE ~Touches(c, h)
    <3>1. Live(h) /\ Undisturbed(h) /\ Spares(c, h) /\ h \in Occupants
      BY <2>1, <2>6, OccupantOf
    <3>2. CASE k = n + 1
      <4>1. Outcome(F[n], h)'
        BY <2>4, <3>1, OutcomeStays
      <4>2. Outcome(Effect(F[n], c), h)'
        BY <1>5, <2>1, <2>6, <3>1, <4>1, EffectSpares
      <4> QED BY <1>6, <3>2, <4>2
    <3>3. CASE k # n + 1
      <4>1. k \in Places
        BY <1>2, <1>3, <1>4, <3>3
      <4>2. Untouched(k, h)
        BY <1>9, <2>2 DEF Untouched
      <4>3. Outcome(F[k], h)
        BY <1>1, <3>1, <4>1, <4>2 DEF ForeseenBy
      <4>4. Outcome(F[k], h)'
        BY <3>1, <4>3, OutcomeStays
      <4> QED BY <1>6, <4>1, <4>4
    <3> QED BY <3>2, <3>3
  <2> QED BY <2>5, <2>6
<1>10. ForeseenBy(G)'
  BY <1>9 DEF ForeseenBy
<1> QED BY <1>7, <1>8, <1>10, ForeseenIsPrime

\* The next command is handled as foreseen.
LEMMA DrainCommandForeseen ==
    ASSUME TypeOK, TypeOK', Named, Foreseen, DrainCommand
    PROVE  Foreseen'
<1>1. PICK F \in Futures : IsFuture(F) /\ ForeseenBy(F)
  BY ForeseenIs
<1>0. PICK m \in Nat, n \in Nat : m = batch.done + 1 /\ n = Len(cmd)
  <2>1. batch.done + 1 \in Nat /\ Len(cmd) \in Nat
    BY SeqDomain
  <2> QED BY <2>1
<1>2. /\ m \in 1 .. n /\ cmd[m] \in Command /\ voice' = Handled(voice, cmd[m]) /\ batch'.done = m
      /\ UNCHANGED <<snd, slot, held, want, ctl, cmd>> /\ n \in Nat /\ batch.done \in Nat
  BY <1>0, DrainCommandDoes, SeqDomain
<1>3. Places = batch.done .. n /\ Waiting = m .. n
  BY <1>0 DEF Places, Waiting
<1>4. Places' = m .. n /\ Waiting' = m + 1 .. n
  BY <1>0, <1>2 DEF Places, Waiting
<1>5. batch.done + 1 = m
  BY <1>0
<1>6. /\ m \in Waiting /\ batch.done \in Places /\ \A k \in Places' : k \in Places
      /\ \A k \in Waiting' : k \in Waiting /\ k \in Places' /\ k - 1 \in Places'
      /\ \A j \in Waiting, k \in Places' : j > k => j \in Waiting'
  BY <1>2, <1>3, <1>4, <1>5
<1>7. F[m] = voice'
  <2>1. F[m] = Effect(F[m - 1], cmd[m]) /\ m - 1 = batch.done /\ F[batch.done] = voice
    BY <1>1, <1>2, <1>5, <1>6 DEF IsFuture
  <2>2. cmd[m].t = "PLAY" => SndLive(cmd[m].s)
    BY <1>6 DEF Named, Visible, Is, SndLive
  <2> QED BY <1>2, <2>1, <2>2 DEF Handled
<1>b. PICK G : G = [k \in Places' |-> F[k]]
  OBVIOUS
<1>8. \A k \in Places' : G[k] = F[k]
  BY <1>b
<1>9. G \in Futures'
  <2>1. \A k \in Places' : F[k] \in Voices
    BY <1>6 DEF Futures
  <2>2. G \in [Places' -> Voices]
    BY <1>b, <2>1
  <2> QED BY <2>2 DEF Futures, Voices
<1>10. IsFuture(G)'
  <2>1. G[batch'.done] = voice'
    BY <1>2, <1>4, <1>7, <1>8
  <2>2. \A k \in Waiting' : G[k] = Effect(G[k - 1], cmd'[k])
    BY <1>1, <1>2, <1>6, <1>8 DEF IsFuture
  <2> QED BY <2>1, <2>2 DEF IsFuture
<1>11. ASSUME NEW h \in Occupants', NEW k \in Places', Untouched(k, h)'
       PROVE  Outcome(G[k], h)'
  <2>1. h \in Occupants
    BY <1>2 DEF Occupants
  <2>2. Untouched(k, h)
    BY <1>2, <1>6, <1>11 DEF Untouched
  <2>3. Outcome(F[k], h)
    BY <1>1, <1>6, <2>1, <2>2 DEF ForeseenBy
  <2>4. Outcome(F[k], h)'
    BY <1>2, <2>3 DEF Outcome, WantOf, Unheld, Is, Seeking
  <2> QED BY <1>8, <2>4
<1>12. ForeseenBy(G)'
  BY <1>11 DEF ForeseenBy
<1> QED BY <1>9, <1>10, <1>12, ForeseenIsPrime

\* The rest of the ring moves up.
LEMMA DrainEndForeseen ==
    ASSUME TypeOK, TypeOK', Foreseen, DrainEnd
    PROVE  Foreseen'
<1>1. PICK F \in Futures : IsFuture(F) /\ ForeseenBy(F)
  BY ForeseenIs
<1>0. PICK d \in Nat, n \in Nat : d = batch.done /\ n = Len(cmd)
  BY SeqDomain
<1>2. /\ d \in 1 .. n /\ batch'.done = 0 /\ UNCHANGED <<snd, slot, held, want, ctl, voice>>
      /\ n \in Nat /\ Len(cmd') = n - d /\ \A k \in 1 .. n - d : cmd'[k] = cmd[k + d]
  <2>1. /\ batch.done \in 1 .. Len(cmd) /\ batch' = NoBatch /\ UNCHANGED <<snd, slot, held, want, ctl, voice>>
        /\ Len(cmd') = Len(cmd) - batch.done
        /\ \A k \in 1 .. Len(cmd) - batch.done : cmd'[k] = cmd[k + batch.done]
    BY DrainEndDoes
  <2> QED BY <1>0, <2>1 DEF NoBatch
<1>3. Places = d .. n /\ Waiting = d + 1 .. n
  BY <1>0 DEF Places, Waiting
<1>4. Places' = 0 .. n - d /\ Waiting' = 1 .. n - d
  BY <1>2 DEF Places, Waiting
<1>5. d = batch.done
  BY <1>0
<1>6. /\ d \in Places /\ \A k \in Places' : k \in 0 .. n - d /\ k + d \in Places
      /\ \A k \in Waiting' : /\ k + d \in Waiting /\ k \in Places' /\ k - 1 \in Places'
                             /\ (k - 1) + d = (k + d) - 1 /\ cmd'[k] = cmd[k + d]
  BY <1>2, <1>3, <1>4
<1>7. ASSUME NEW j \in Waiting, NEW k \in Places', j > k + d
      PROVE  j - d \in Waiting' /\ j - d > k /\ cmd'[j - d] = cmd[j]
  <2>1. j - d \in 1 .. n - d /\ (j - d) + d = j /\ j - d > k
    BY <1>2, <1>3, <1>4, <1>7
  <2> QED BY <1>2, <1>4, <2>1
<1>c. PICK G : G = [k \in 0 .. n - d |-> F[k + d]]
  OBVIOUS
<1>8. \A k \in Places' : G[k] = F[k + d]
  BY <1>6, <1>c
<1>9. G \in Futures'
  <2>1. \A k \in Places' : F[k + d] \in Voices
    BY <1>6 DEF Futures
  <2>2. G \in [Places' -> Voices]
    BY <1>4, <1>c, <2>1
  <2> QED BY <2>2 DEF Futures, Voices
<1>10. IsFuture(G)'
  <2>1. G[batch'.done] = voice'
    <3>1. 0 \in Places' /\ 0 + d = d
      BY <1>2, <1>4
    <3>2. F[d] = voice
      BY <1>1, <1>5 DEF IsFuture
    <3> QED BY <1>2, <1>8, <3>1, <3>2
  <2>2. ASSUME NEW k \in Waiting' PROVE G[k] = Effect(G[k - 1], cmd'[k])
    <3>1. F[k + d] = Effect(F[(k + d) - 1], cmd[k + d])
      BY <1>1, <1>6 DEF IsFuture
    <3>2. G[k] = F[k + d] /\ G[k - 1] = F[(k - 1) + d]
      BY <1>6, <1>8
    <3> QED BY <1>6, <3>1, <3>2
  <2> QED BY <2>1, <2>2 DEF IsFuture
<1>11. ASSUME NEW h \in Occupants', NEW k \in Places', Untouched(k, h)'
       PROVE  Outcome(G[k], h)'
  <2>1. h \in Occupants
    BY <1>2 DEF Occupants
  <2>2. Untouched(k + d, h)
    BY <1>7, <1>11 DEF Untouched
  <2>3. Outcome(F[k + d], h)
    BY <1>1, <1>6, <2>1, <2>2 DEF ForeseenBy
  <2>4. Outcome(F[k + d], h)'
    BY <1>2, <2>3 DEF Outcome, WantOf, Unheld, Is, Seeking
  <2> QED BY <1>8, <2>4
<1>12. ForeseenBy(G)'
  BY <1>11 DEF ForeseenBy
<1> QED BY <1>9, <1>10, <1>12, ForeseenIsPrime

-----------------------------------------------------------------------------
(* The steps that are about no source.                                     *)

\* Sounds only move on: what was given out stays so, and what sounds now was loaded or is decoded.
Forward ==
    \A g \in Handle : Given(g) =>
        /\ Given(g)' /\ (Is(g, "pending")' => Is(g, "pending"))
        /\ Is(g, "live")' => Is(g, "live") \/ Is(g, "pending")
SeekAside == ctl' = ctl \/ (ctl.pc # "seek" /\ ctl'.pc # "seek")

\* A slot that changes its state the way sounds do.
LEMMA SoundsForward ==
    ASSUME TypeOK, NEW s \in Sound, NEW st \in {"pending", "live", "retiring", "free"},
           \A j \in Sound : /\ snd'[j].gen = snd[j].gen
                            /\ snd'[j].st = IF j = s THEN st ELSE snd[j].st,
           st = "live" => snd[s].st = "pending", st = "pending" => snd[s].st = "pending"
    PROVE  Forward
BY DEF Forward, Given, Is

\* What was asked for has its type.
LEMMA WantIs ==
    ASSUME TypeOK
    PROVE  \A i \in Voice : want[i] \in WantRec /\ want[i].snd \in Handle
BY TypeParts DEF WantOK, WantRec

\* A step that is about no source.
LEMMA AsideKeeps ==
    ASSUME TypeOK, TypeOK', Asking, Forward, SeekAside,
           UNCHANGED <<slot, held, want, batch, voice>>,
           \/ cmd' = cmd
           \/ \E c \in Command : /\ Push(c) /\ c.v = None /\ c.t \in {"RETIRE", "COMMIT"}
                                 /\ c.t = "RETIRE" /\ CmdRoom(1) => ~Is(c.s, "live")'
    PROVE  Asking'
<1>1. HeldOnce /\ SeekPends /\ WantGiven /\ Foreseen
  BY DEF Asking
<1>2. HeldOnce'
  BY <1>1 DEF HeldOnce, Live, WantOf
<1>3. SeekPends'
  BY <1>1 DEF SeekPends, SeekAside, Live, WantOf, Unheld
<1>4. WantGiven'
  <2>1. ASSUME NEW i \in Voice, want'[i].on
        PROVE  /\ Given(want[i].snd)'
               /\ slot'[i].inuse /\ want'[i].all /\ Is(want[i].snd, "pending")' =>
                     \E p \in held' : p.src = H(i, slot'[i].gen)
    <3>1. want[i].snd \in Handle /\ Given(want[i].snd) /\ want' = want
      BY <1>1, <2>1, WantIs DEF WantGiven
    <3>2. PICK g \in Handle : g = want[i].snd /\ g = want'[i].snd
      BY <3>1
    <3>3. Given(g)' /\ (Is(g, "pending")' => Is(g, "pending"))
      BY <3>1, <3>2 DEF Forward
    <3> QED BY <1>1, <2>1, <3>1, <3>2, <3>3 DEF WantGiven, Given, Is
  <2> QED BY <2>1 DEF WantGiven
<1>5. ASSUME NEW h \in Handle, Live(h)'
      PROVE  Live(h) /\ Undisturbed(h) /\ h.idx \in Voice
  <2>1. Live(h) /\ h.idx \in Voice
    BY <1>5 DEF Live
  <2>2. WantOf(h)' = WantOf(h) /\ (Unheld(h)' <=> Unheld(h)) /\ (Seeking(h) => Seeking(h)')
    BY DEF WantOf, Unheld, Seeking, SeekAside
  <2>3. ASSUME WantOf(h).all, Unheld(h), WantOf(h).on, Is(WantOf(h).snd, "live")'
        PROVE  Is(WantOf(h).snd, "live")
    <3>1. PICK g \in Handle : g = WantOf(h).snd /\ g = WantOf(h)'.snd
      BY <2>1, <2>2, WantIs DEF WantOf
    <3>2. Given(g) /\ Is(g, "live")'
      BY <1>1, <2>1, <2>3, <3>1 DEF WantGiven, WantOf, Is
    <3>3. CASE Is(g, "pending")
      <4>1. slot[h.idx].inuse /\ H(h.idx, slot[h.idx].gen) = h
        BY <2>1, Handles DEF Live
      <4>2. \E p \in held : p.src = h
        BY <1>1, <2>1, <2>3, <3>1, <3>3, <4>1 DEF WantGiven, WantOf
      <4> QED BY <2>3, <4>2 DEF Unheld
    <3> QED BY <3>1, <3>2, <3>3 DEF Forward
  <2> QED BY <2>1, <2>2, <2>3 DEF Undisturbed
<1>6. Foreseen'
  <2>1. CASE cmd' = cmd
    BY <1>1, <1>5, <2>1, CalmForeseen
  <2>2. ASSUME NEW c \in Command, Push(c), c.v = None, c.t \in {"RETIRE", "COMMIT"},
               c.t = "RETIRE" /\ CmdRoom(1) => ~Is(c.s, "live")'
        PROVE  Foreseen'
    <3>1. CASE ~CmdRoom(1)
      BY <1>1, <1>5, <2>2, <3>1, CalmForeseen, Pushed
    <3>2. CASE CmdRoom(1)
      <4>1. ASSUME NEW h \in Handle, Live(h)' PROVE ~Touches(c, h) /\ Live(h) /\ Undisturbed(h) /\ Spares(c, h)
        <5>1. h.idx \in Voice /\ Live(h) /\ Undisturbed(h)
          BY <1>5, <4>1
        <5>2. c.v # h
          BY <2>2, <5>1, Sizes DEF None, Voice
        <5> QED BY <2>2, <3>2, <5>1, <5>2 DEF Touches, Spares
      <4> QED BY <1>1, <2>2, <3>2, <4>1, PushForeseen
    <3> QED BY <3>1, <3>2
  <2> QED BY <2>1, <2>2
<1> QED BY <1>2, <1>3, <1>4, <1>6 DEF Asking

\* Steps that neither send anything nor touch the sounds.
QuietStep == UNCHANGED <<slot, held, want, batch, voice, cmd, snd>> /\ SeekAside
\* They keep everything.
LEMMA QuietAsks == ASSUME TypeOK, TypeOK', Asking, QuietStep PROVE Asking'
<1>1. Forward
  BY DEF QuietStep, Forward, Given, Is
<1> QED BY <1>1, AsideKeeps DEF QuietStep

\* The control thread's quiet steps.
LEMMA QuietControl ==
    ASSUME TypeOK, \/ BeginPump \/ FireEnd \/ PumpEnd \/ ParkEnd \/ Return \/ AcquireSignal \/ Shutdown
                   \/ ShutdownSignal \/ \E f \in File : AcquireHit(f)
    PROVE  QuietStep
<1> USE DEF QuietStep, SeekAside, cacheVars, sourceVars, loadVars, audioVars
<1>0. ctl \in CtlRec
  BY TypeParts DEF CtlOK
<1>1. CASE BeginPump
  BY <1>0, <1>1 DEF BeginPump, Idle, CtlRec
<1>2. CASE FireEnd
  BY <1>0, <1>2 DEF FireEnd, CtlRec
<1>3. CASE PumpEnd
  <2>1. ctl.pc = "pump" /\ (ctl' = [ctl EXCEPT !.pc = "body"] \/ ctl' = [ctl EXCEPT !.pc = "park", !.try = park])
    BY <1>3, Zenon DEF PumpEnd
  <2>2. UNCHANGED <<slot, held, want, batch, voice, cmd, snd>>
    BY <1>3, Zenon DEF PumpEnd
  <2> QED BY <1>0, <2>1, <2>2 DEF CtlRec
<1>4. CASE ParkEnd
  BY <1>0, <1>4 DEF ParkEnd, CtlRec
<1>5. CASE Return
  BY <1>5 DEF Return, Idle
<1>6. CASE AcquireSignal
  BY <1>6 DEF AcquireSignal, Idle
<1>7. CASE Shutdown
  BY <1>7 DEF Shutdown, Call, Idle
<1>8. CASE ShutdownSignal
  BY <1>8 DEF ShutdownSignal, Idle
<1>9. CASE \E f \in File : AcquireHit(f)
  BY <1>9 DEF AcquireHit, Body, Idle
<1> QED BY <1>1, <1>2, <1>3, <1>4, <1>5, <1>6, <1>7, <1>8, <1>9

\* The loader takes no part in what sources were asked.
LEMMA QuietLoader ==
    ASSUME LoaderNext
    PROVE  QuietStep
<1> USE DEF QuietStep, SeekAside, cacheVars, sourceVars, loadVars, audioVars
<1>1. CASE LoaderTop
  BY <1>1, Zenon DEF LoaderTop
<1>2. CASE LoaderPop
  BY <1>2, Zenon DEF LoaderPop
<1>3. CASE LoaderWake
  BY <1>3, Zenon DEF LoaderWake
<1>4. CASE LoaderDecode
  BY <1>4, Zenon DEF LoaderDecode
<1>5. CASE LoaderPush
  BY <1>5, Zenon DEF LoaderPush
<1> QED BY <1>1, <1>2, <1>3, <1>4, <1>5 DEF LoaderNext

\* One lemma per step that is about no source: a commit is no command of a source,
LEMMA CommitAsks == ASSUME TypeOK, TypeOK', Asking, Commit PROVE Asking'
<1>1. /\ UNCHANGED <<snd, slot, held, want, batch, voice>> /\ Push(C("COMMIT", None, None)) /\ ctl.pc = "body"
      /\ ctl' = Idle \/ ctl' = [ctl EXCEPT !.pc = "events", !.left = Len(ack)]
  BY Zenon DEF Commit, cacheVars, sourceVars, loadVars, audioVars
<1>2. SeekAside
  <2>1. ctl \in CtlRec
    BY TypeParts DEF CtlOK
  <2>2. Idle.pc = "idle" /\ [ctl EXCEPT !.pc = "events", !.left = Len(ack)].pc = "events"
    BY <2>1 DEF Idle, CtlRec
  <2>3. ctl'.pc # "seek"
    BY <1>1, <2>2
  <2> QED BY <1>1, <2>3 DEF SeekAside
<1>3. Forward
  BY <1>1 DEF Forward, Given, Is
<1>4. C("COMMIT", None, None) \in Command /\ C("COMMIT", None, None).v = None /\ C("COMMIT", None, None).t = "COMMIT"
  BY CommandIs, Handles DEF CommandNames
<1> QED BY <1>1, <1>2, <1>3, <1>4, AsideKeeps

\* a result that is adopted makes its sound live, as whoever asked for it expects,
LEMMA PumpTakeAsks == ASSUME TypeOK, TypeOK', Entries, Asking, PumpTake PROVE Asking'
<1>1. ctl.pc = "pump" /\ UNCHANGED <<slot, held, want, cmd, batch, voice>>
  BY PumpTakeDoes
<1>2. ctl'.pc # "seek" /\ Forward
  <2>1. CASE UNCHANGED <<snd, ctl>>
    BY <1>1, <2>1 DEF Forward, Given, Is
  <2>2. CASE ~UNCHANGED <<snd, ctl>>
    <3>1. PICK f \in File : /\ entry[f].st = "loading" /\ entry[f].snd = res[1].snd
                            /\ \A s \in Sound : snd'[s].st = IF s = res[1].snd.idx THEN "live" ELSE snd[s].st
                            /\ ctl'.pc = "fire"
      BY <2>2, PumpTakeDoes
    <3>2. Is(res[1].snd, "pending")
      BY <3>1 DEF Entries
    <3>3. \A s \in Sound : snd'[s].gen = snd[s].gen
      BY PumpTakeDoes
    <3>4. PICK i \in Sound : i = res[1].snd.idx /\ snd[i].st = "pending"
      BY <3>2 DEF Is
    <3>5. \A j \in Sound : snd'[j].gen = snd[j].gen /\ snd'[j].st = IF j = i THEN "live" ELSE snd[j].st
      BY <3>1, <3>3, <3>4
    <3> QED BY <3>1, <3>4, <3>5, SoundsForward
  <2> QED BY <2>1, <2>2
<1> QED BY <1>1, <1>2, AsideKeeps DEF SeekAside

\* an acknowledgement frees a sound that was retired,
LEMMA TakeAckAsks == ASSUME TypeOK, TypeOK', Retires, Asking, TakeAck PROVE Asking'
<1>1. ctl.pc = "events" /\ ctl'.pc # "seek" /\ UNCHANGED <<slot, held, want, cmd, batch, voice>> /\ ack[1].idx \in Sound
  BY TakeAckDoes
<1>2. \A s \in Sound : snd'[s].gen = snd[s].gen /\ snd'[s].st = IF s = ack[1].idx THEN "free" ELSE snd[s].st
  BY TakeAckDoes
<1>3. Forward
  BY <1>1, <1>2, SoundsForward
<1> QED BY <1>1, <1>3, AsideKeeps DEF SeekAside

\* A slot let again is another sound than any that was asked for.
LEMMA ReserveForward ==
    ASSUME TypeOK, CanReserve, NEW st \in {"pending", "live"},
           \A s \in Sound : /\ snd'[s].st = IF s = NextSound.idx THEN st ELSE snd[s].st
                            /\ snd'[s].gen = IF s = NextSound.idx THEN snd[s].gen + 1 ELSE snd[s].gen
    PROVE  Forward
<1>1. \A s \in Sound : snd[s].gen \in Nat
  BY TypeParts DEF SlotsOK, SndRec
<1> QED BY <1>1, Handles DEF Forward, Given, Is

\* an acquire lets a slot again, for the loader,
LEMMA AcquireAsyncAsks == ASSUME TypeOK, TypeOK', Asking, NEW f \in File, AcquireAsync(f) PROVE Asking'
<1>1. /\ ctl.pc = "body" /\ ctl'.pc = "signal" /\ CanReserve /\ UNCHANGED <<slot, held, want, cmd, batch, voice>>
      /\ \A s \in Sound : /\ snd'[s].st = IF s = NextSound.idx THEN "pending" ELSE snd[s].st
                          /\ snd'[s].gen = IF s = NextSound.idx THEN snd[s].gen + 1 ELSE snd[s].gen
  BY AcquireAsyncDoes
<1>2. Forward
  BY <1>1, ReserveForward
<1> QED BY <1>1, <1>2, AsideKeeps DEF SeekAside

\* or loaded on the spot,
LEMMA AcquireNowAsks == ASSUME TypeOK, TypeOK', Asking, NEW f \in File, AcquireNow(f) PROVE Asking'
<1>1. /\ ctl.pc = "body" /\ ctl'.pc = "idle" /\ CanReserve /\ UNCHANGED <<slot, held, want, cmd, batch, voice>>
      /\ \A s \in Sound : snd'[s].gen = IF s = NextSound.idx THEN snd[s].gen + 1 ELSE snd[s].gen
  BY AcquireNowDoes
<1>2. PICK st \in {"pending", "live"} : \A s \in Sound : snd'[s].st = IF s = NextSound.idx THEN st ELSE snd[s].st
  BY AcquireNowDoes
<1>3. Forward
  BY <1>1, <1>2, ReserveForward
<1> QED BY <1>1, <1>3, AsideKeeps DEF SeekAside

\* bwa_destroy takes the rings and the sounds away,
LEMMA ShutdownJoinAsks == ASSUME TypeOK, TypeOK', Asking, ShutdownJoin PROVE Asking'
<1>1. /\ ctl.pc = "join" /\ ctl' = [Idle EXCEPT !.pc = "gone"] /\ UNCHANGED <<slot, held, want, cmd, batch, voice>>
      /\ snd' = [s \in Sound |-> [snd[s] EXCEPT !.st = "free"]]
  BY DEF ShutdownJoin, cacheVars, sourceVars, loadVars, audioVars
<1>2. \A s \in Sound : snd'[s].gen = snd[s].gen /\ snd'[s].st = "free"
  BY <1>1, TypeParts DEF SlotsOK, SndRec
<1>3. Forward
  BY <1>2 DEF Forward, Given, Is
<1>4. SeekAside
  BY <1>1 DEF SeekAside, Idle
<1> QED BY <1>1, <1>3, <1>4, AsideKeeps

\* No play is held for a sound that is loaded, but while it is being published.
LEMMA LoadedUnheld ==
    ASSUME TypeOK, HeldUnsent, NEW h \in Handle, Is(h, "live"), ctl.pc \notin {"fire", "seek"}
    PROVE  HeldButSnd(h) = held
BY DEF HeldUnsent, HeldButSnd, Is

\* and a parked unload retires a sound nobody can ask for any more.
LEMMA RetryParkAsks ==
    ASSUME TypeOK, TypeOK', Parks, HeldUnsent, Asking, NEW h \in ctl.try, RetryPark(h) PROVE Asking'
<1>1. /\ ctl.pc = "park" /\ ctl'.pc = "park" /\ h \in Handle /\ Is(h, "live") /\ h.idx \in Sound
      /\ UNCHANGED <<slot, want, batch, voice>> /\ held' = HeldButSnd(h) /\ Push(C("RETIRE", None, h))
      /\ \A s \in Sound : /\ snd'[s].gen = snd[s].gen
                          /\ snd'[s].st = IF s = h.idx /\ CmdRoom(1) THEN "retiring" ELSE snd[s].st
  BY RetryParkDoes
<1>2. held' = held
  BY <1>1, LoadedUnheld
<1>3. Forward
  BY <1>1 DEF Forward, Given, Is
<1>4. CmdRoom(1) => ~Is(h, "live")'
  BY <1>1 DEF Is
<1>5. "RETIRE" \in CommandNames
  BY DEF CommandNames
<1>6. PICK c \in Command : c = C("RETIRE", None, h) /\ c.s = h /\ c.t = "RETIRE" /\ c.v = None
  BY <1>1, <1>5, SoundCommand
<1>7. PICK g \in Handle : g = h
  BY <1>1
<1>8. CmdRoom(1) => ~Is(g, "live")'
  BY <1>4, <1>7
<1>9. CmdRoom(1) => ~Is(c.s, "live")'
  BY <1>6, <1>7, <1>8
<1> QED BY <1>1, <1>2, <1>3, <1>6, <1>9, AsideKeeps DEF SeekAside

-----------------------------------------------------------------------------
(* The calls that are about one source.                                    *)

\* What Asked leaves behind, per source.
LEMMA AskedIs ==
    ASSUME TypeOK, NEW h, NEW f, NEW d, want' = Asked(h, f, d)
    PROVE  /\ \A i \in Voice : ~(Live(h) /\ i = h.idx) => want'[i] = want[i]
           /\ Live(h) => h.idx \in Voice /\ IF f.all /\ d THEN want'[h.idx] = f
                                            ELSE want'[h.idx].all = FALSE /\ want'[h.idx].on = FALSE
<1>1. want \in [Voice -> WantRec] /\ Lost.all = FALSE /\ Lost.on = FALSE
  BY TypeParts DEF WantOK, Lost, Nothing
<1>2. CASE Live(h)
  <2>1. PICK e : e = IF f.all /\ d THEN f ELSE Lost
    OBVIOUS
  <2>2. want' = [want EXCEPT ![h.idx] = e] /\ h.idx \in Voice
    BY <1>2, <2>1 DEF Asked, Live
  <2>3. want'[h.idx] = e /\ \A i \in Voice : i # h.idx => want'[i] = want[i]
    BY <1>1, <2>2
  <2> QED BY <1>1, <1>2, <2>1, <2>2, <2>3
<1>3. CASE ~Live(h)
  BY <1>3 DEF Asked
<1> QED BY <1>2, <1>3

\* A voice index has one live source.
LEMMA LiveOne ==
    ASSUME NEW g \in Handle, NEW h \in Handle, Live(g), Live(h), g.idx = h.idx
    PROVE  g = h
BY Handles DEF Live

\* A call, or a released play, that is about the source h alone.
OwnCall(h) ==
    /\ UNCHANGED <<snd, slot, batch, voice>>
    /\ \A i \in Voice : ~(Live(h) /\ i = h.idx) => want'[i] = want[i]
    /\ \A p \in HeldRec : p.src # h => (p \in held <=> p \in held')
    /\ \A g \in Handle : g # h /\ Seeking(g) => Seeking(g)'
    /\ \A p, q \in held' : p.src = h /\ q.src = h => p = q
    /\ \A p \in held' : p.src = h =>
        /\ h.idx \in Voice /\ h.gen <= slot[h.idx].gen
        /\ Live(h) /\ want'[h.idx].all =>
             want'[h.idx].on /\ want'[h.idx].snd = p.snd /\ (want'[h.idx].seek <=> p.seek) /\ ~want'[h.idx].stopAt
    /\ Live(h) /\ want'[h.idx].on =>
        /\ Given(want'[h.idx].snd)
        /\ want'[h.idx].all /\ Is(want'[h.idx].snd, "pending") => \E p \in held' : p.src = h

\* The plays it holds,
LEMMA OwnHeld ==
    ASSUME TypeOK, TypeOK', HeldOnce, NEW h \in Handle, OwnCall(h)
    PROVE  HeldOnce'
<1>1. held \subseteq HeldRec /\ held' \subseteq HeldRec
  BY TypeParts, TypePartsPrime DEF SlotsOK
<1>2. \A p \in held' : p.src # h => p \in held
  BY <1>1 DEF OwnCall
<1>3. \A p, q \in held' : p.src = q.src => p = q
  BY <1>2 DEF OwnCall, HeldOnce
<1>4. \A p \in held' : p.src.idx \in Voice /\ p.src.gen <= slot'[p.src.idx].gen
  BY <1>2 DEF OwnCall, HeldOnce
<1>5. ASSUME NEW p \in held', Live(p.src)', want'[p.src.idx].all
      PROVE  /\ want'[p.src.idx].on /\ want'[p.src.idx].snd = p.snd
             /\ (want'[p.src.idx].seek <=> p.seek) /\ ~want'[p.src.idx].stopAt
  <2>1. Live(p.src) /\ p.src.idx \in Voice /\ p.src \in Handle
    BY <1>1, <1>5 DEF OwnCall, Live, HeldRec
  <2>2. CASE p.src = h
    BY <1>5, <2>1, <2>2 DEF OwnCall
  <2>3. CASE p.src # h
    <3>1. ~(Live(h) /\ p.src.idx = h.idx)
      BY <2>1, <2>3, LiveOne
    <3>2. want'[p.src.idx] = want[p.src.idx]
      BY <2>1, <3>1 DEF OwnCall
    <3> QED BY <1>2, <1>5, <2>1, <2>3, <3>2 DEF HeldOnce, WantOf
  <2> QED BY <2>2, <2>3
<1> QED BY <1>3, <1>4, <1>5 DEF HeldOnce, WantOf

\* the sounds it asks for,
LEMMA OwnGiven ==
    ASSUME TypeOK, TypeOK', WantGiven, NEW h \in Handle, OwnCall(h)
    PROVE  WantGiven'
<1>1. held \subseteq HeldRec /\ held' \subseteq HeldRec /\ slot \in [Voice -> SlotRec]
  BY TypeParts, TypePartsPrime DEF SlotsOK
<1>2. ASSUME NEW i \in Voice, want'[i].on
      PROVE  /\ Given(want'[i].snd)
             /\ slot[i].inuse /\ want'[i].all /\ Is(want'[i].snd, "pending") => \E p \in held' : p.src = H(i, slot[i].gen)
  <2>1. CASE Live(h) /\ i = h.idx
    <3>1. H(i, slot[i].gen) = h
      BY <2>1, Handles DEF Live
    <3> QED BY <1>2, <2>1, <3>1 DEF OwnCall
  <2>2. CASE ~(Live(h) /\ i = h.idx)
    <3>1. want'[i] = want[i]
      BY <2>2 DEF OwnCall
    <3>2. i \in Nat /\ slot[i].gen \in Nat
      BY <1>1, Sizes DEF SlotRec, Voice
    <3>3. slot[i].inuse => H(i, slot[i].gen) # h
      BY <2>2, <3>2, Handles DEF Live
    <3>4. \A p \in held : p.src # h => p \in held'
      BY <1>1 DEF OwnCall
    <3> QED BY <1>2, <3>1, <3>3, <3>4 DEF WantGiven
  <2> QED BY <2>1, <2>2
<1> QED BY <1>2 DEF WantGiven, OwnCall, Given, Is

\* the other sources, which it does not disturb,
LEMMA OwnOthers ==
    ASSUME TypeOK, TypeOK', NEW h \in Handle, OwnCall(h), NEW g \in Handle, g # h, Live(g)'
    PROVE  Live(g) /\ Undisturbed(g)
<1>1. Live(g) /\ g.idx \in Voice
  BY DEF OwnCall, Live
<1>2. ~(Live(h) /\ g.idx = h.idx)
  BY <1>1, LiveOne
<1>3. WantOf(g)' = WantOf(g)
  BY <1>1, <1>2 DEF OwnCall, WantOf
<1>4. held \subseteq HeldRec /\ held' \subseteq HeldRec
  BY TypeParts, TypePartsPrime DEF SlotsOK
<1>5. Unheld(g)' => Unheld(g)
  BY <1>4 DEF OwnCall, Unheld
<1>6. Is(WantOf(g).snd, "live")' => Is(WantOf(g).snd, "live")
  BY <1>3 DEF OwnCall, Is
<1>7. Seeking(g) => Seeking(g)'
  BY DEF OwnCall
<1> QED BY <1>1, <1>3, <1>5, <1>6, <1>7 DEF Undisturbed

\* and what the waiting commands make of the voices, with its own behind them.
LEMMA OwnForeseen ==
    ASSUME TypeOK, TypeOK', Foreseen, NEW h \in Handle, OwnCall(h),
           NEW c \in Command, c.v = h, c.t \in {"PLAY", "SEEK", "STOP", "STOP_AT"},
           \/ cmd' = cmd /\ (Live(h) => Undisturbed(h))
           \/ Push(c) /\ (Live(h) => IF CmdRoom(1) THEN Answers(c, h) ELSE Undisturbed(h))
    PROVE  Foreseen'
<1>1. UNCHANGED <<batch, voice>> /\ (Live(h)' => Live(h))
  BY DEF OwnCall, Live
<1>2. CASE cmd' = cmd /\ (Live(h) => Undisturbed(h))
  <2>1. \A g \in Handle : Live(g)' => Live(g) /\ Undisturbed(g)
    BY <1>1, <1>2, OwnOthers
  <2> QED BY <1>1, <1>2, <2>1, CalmForeseen
<1>3. CASE Push(c) /\ CmdRoom(1) /\ (Live(h) => Answers(c, h))
  <2>1. ASSUME NEW g \in Handle, Live(g)'
        PROVE  IF Touches(c, g) THEN Answers(c, g) ELSE Live(g) /\ Undisturbed(g) /\ Spares(c, g)
    <3>1. CASE g = h
      BY <1>1, <1>3, <2>1, <3>1 DEF Touches
    <3>2. CASE g # h
      BY <2>1, <3>2, OwnOthers DEF Touches, Spares
    <3> QED BY <3>1, <3>2
  <2> QED BY <1>1, <1>3, <2>1, PushForeseen
<1>4. CASE Push(c) /\ ~CmdRoom(1) /\ (Live(h) => Undisturbed(h))
  <2>1. \A g \in Handle : Live(g)' => Live(g) /\ Undisturbed(g)
    BY <1>1, <1>4, OwnOthers
  <2>2. cmd' = cmd
    BY <1>4, Pushed
  <2> QED BY <1>1, <2>1, <2>2, CalmForeseen
<1> QED BY <1>2, <1>3, <1>4

\* So a source call keeps everything once its command answers what the client asked, or there is none and it expects nothing new.
LEMMA OwnAsks ==
    ASSUME TypeOK, TypeOK', Asking, NEW h \in Handle, OwnCall(h), SeekPends',
           NEW c \in Command, c.v = h, c.t \in {"PLAY", "SEEK", "STOP", "STOP_AT"},
           \/ cmd' = cmd /\ (Live(h) => Undisturbed(h))
           \/ Push(c) /\ (Live(h) => IF CmdRoom(1) THEN Answers(c, h) ELSE Undisturbed(h))
    PROVE  Asking'
<1>1. HeldOnce' /\ WantGiven'
  BY OwnHeld, OwnGiven DEF Asking
<1>2. Foreseen'
  BY OwnForeseen DEF Asking
<1> QED BY <1>1, <1>2 DEF Asking

\* A request that was lost leaves nothing to expect.
LEMMA LostUndisturbed == ASSUME NEW h, want'[h.idx].all = FALSE PROVE Undisturbed(h)
BY DEF Undisturbed, WantOf
\* A held play waits for its sound.
LEMMA HeldUndisturbed == ASSUME NEW h, NEW p \in held', p.src = h PROVE Undisturbed(h)
BY DEF Undisturbed, Unheld

-----------------------------------------------------------------------------
(* Stopping and seeking.                                                   *)

\* What the answers to a source call come to, from the effect of its command.
LEMMA AnswersBy ==
    ASSUME NEW h \in Handle, NEW c \in Command, c.v = h, Live(h),
           \A vs \in Voices : Outcome(vs, h) /\ VoiceOf(vs, h) => Outcome(Effect(vs, c), h)'
    PROVE  Answers(c, h)
BY DEF Answers, Outcome

\* No released seek pends during a call.
LEMMA CallSeekPends ==
    ASSUME NEW name, Call(name), ctl' = ctl PROVE SeekPends' /\ \A g : ~Seeking(g)
BY DEF Call, SeekPends, Seeking

\* bwa_source_stop.
LEMMA StopAsks ==
    ASSUME TypeOK, TypeOK', Asking, NEW h \in Sources, Stop(h)
    PROVE  Asking'
<1> DEFINE f == [Nothing EXCEPT !.all = WantOf(h).all]
<1>1. /\ UNCHANGED <<snd, slot, batch, voice, ctl>> /\ held' = HeldButSrc(h)
      /\ Push(C("STOP", h, None)) /\ want' = Asked(h, f, CmdRoom(1))
  BY DEF Stop, cacheVars, sourceVars, loadVars, audioVars
<1>2. h \in Handle /\ h.idx \in Voice
  BY SourceIs
<1>3. PICK c \in Command : c = C("STOP", h, None) /\ c.t = "STOP" /\ c.v = h
  <2>1. "STOP" \in CommandNames
    BY DEF CommandNames
  <2> QED BY <1>2, <2>1, SourceCommand
<1>4. f.on = FALSE /\ f.all = WantOf(h).all
  BY DEF Nothing
<1> HIDE DEF f
<1>5. SeekPends' /\ \A g : ~Seeking(g)
  BY <1>1, CallSeekPends DEF Stop
<1>6. /\ \A i \in Voice : ~(Live(h) /\ i = h.idx) => want'[i] = want[i]
      /\ Live(h) => IF f.all /\ CmdRoom(1) THEN want'[h.idx] = f
                    ELSE want'[h.idx].all = FALSE /\ want'[h.idx].on = FALSE
  <2>1. PICK d \in BOOLEAN : want' = Asked(h, f, d) /\ d = CmdRoom(1)
    <3>1. CmdRoom(1) \in BOOLEAN
      BY DEF CmdRoom
    <3> QED BY <1>1, <3>1
  <2> QED BY <2>1, AskedIs
<1>7. \A p : p \in held' <=> p \in held /\ p.src # h
  BY <1>1 DEF HeldButSrc
<1>8. OwnCall(h)
  BY <1>1, <1>4, <1>5, <1>6, <1>7 DEF OwnCall
<1>9. ASSUME Live(h) PROVE IF CmdRoom(1) THEN Answers(c, h) ELSE Undisturbed(h)
  <2>1. CASE ~CmdRoom(1)
    BY <1>6, <1>9, <2>1, LostUndisturbed
  <2>2. CASE CmdRoom(1)
    <3>1. ASSUME NEW vs \in Voices, Outcome(vs, h), VoiceOf(vs, h)
          PROVE  Outcome(Effect(vs, c), h)'
      <4>1. PICK e : e = Effect(vs, c)
        OBVIOUS
      <4>2. VoiceOf(e, h) /\ ~e[h.idx].on
        BY <1>3, <3>1, <4>1, EffectIs
      <4>3. ~WantOf(h)'.on
        BY <1>4, <1>6, <1>9 DEF WantOf
      <4>4. Outcome(e, h)'
        BY <4>2, <4>3 DEF Outcome, VoiceOf
      <4> QED BY <4>1, <4>4
    <3>2. Answers(c, h)
      BY <1>2, <1>3, <1>9, <3>1, AnswersBy
    <3> QED BY <2>2, <3>2
  <2> QED BY <2>1, <2>2
<1> QED BY <1>1, <1>2, <1>3, <1>5, <1>8, <1>9, OwnAsks

\* bwa_source_stop at a time.
LEMMA StopAtAsks ==
    ASSUME TypeOK, TypeOK', Asking, NEW h \in Sources, StopAt(h)
    PROVE  Asking'
<1> DEFINE f == [WantOf(h) EXCEPT !.stopAt = WantOf(h).stopAt \/ (WantOf(h).on /\ HeldFor(h) = {})]
<1>1. /\ UNCHANGED <<snd, slot, batch, voice, ctl, held>>
      /\ Push(C("STOP_AT", h, None)) /\ want' = Asked(h, f, CmdRoom(1))
  BY DEF StopAt, cacheVars, sourceVars, loadVars, audioVars
<1>2. h \in Handle /\ h.idx \in Voice /\ WantOf(h) \in WantRec
  BY SourceIs, WantOfType
<1>3. PICK c \in Command : c = C("STOP_AT", h, None) /\ c.t = "STOP_AT" /\ c.v = h
  <2>1. "STOP_AT" \in CommandNames /\ None \in Handle /\ h \in Handle
    BY <1>2, Handles DEF CommandNames
  <2> QED BY <2>1, CommandIs
<1>4. /\ f.on = WantOf(h).on /\ f.all = WantOf(h).all /\ f.snd = WantOf(h).snd /\ f.seek = WantOf(h).seek
      /\ WantOf(h).on /\ HeldFor(h) = {} => f.stopAt
      /\ HeldFor(h) # {} => f.stopAt = WantOf(h).stopAt
  BY <1>2 DEF WantRec
<1> HIDE DEF f
<1>5. SeekPends' /\ \A g : ~Seeking(g)
  BY <1>1, CallSeekPends DEF StopAt
<1>6. /\ \A i \in Voice : ~(Live(h) /\ i = h.idx) => want'[i] = want[i]
      /\ Live(h) => IF f.all /\ CmdRoom(1) THEN want'[h.idx] = f
                    ELSE want'[h.idx].all = FALSE /\ want'[h.idx].on = FALSE
  <2>1. PICK d \in BOOLEAN : want' = Asked(h, f, d) /\ d = CmdRoom(1)
    <3>1. CmdRoom(1) \in BOOLEAN
      BY DEF CmdRoom
    <3> QED BY <1>1, <3>1
  <2> QED BY <2>1, AskedIs
<1>7. HeldOnce /\ WantGiven
  BY DEF Asking
<1>8. OwnCall(h)
  <2>1. \A p, q \in held' : p.src = h /\ q.src = h => p = q
    BY <1>1, <1>7 DEF HeldOnce
  <2>2. ASSUME NEW p \in held', p.src = h
        PROVE  /\ h.idx \in Voice /\ h.gen <= slot[h.idx].gen
               /\ Live(h) /\ want'[h.idx].all =>
                    /\ want'[h.idx].on /\ want'[h.idx].snd = p.snd
                    /\ (want'[h.idx].seek <=> p.seek) /\ ~want'[h.idx].stopAt
    <3>1. p \in held /\ HeldFor(h) # {}
      BY <1>1, <2>2 DEF HeldFor
    <3> QED BY <1>1, <1>4, <1>6, <1>7, <2>2, <3>1 DEF HeldOnce, WantOf
  <2>3. Live(h) /\ want'[h.idx].on =>
          /\ Given(want'[h.idx].snd)
          /\ want'[h.idx].all /\ Is(want'[h.idx].snd, "pending") => \E p \in held' : p.src = h
    <3>1. Live(h) => slot[h.idx].inuse /\ H(h.idx, slot[h.idx].gen) = h
      BY <1>2, Handles DEF Live
    <3> QED BY <1>1, <1>2, <1>4, <1>6, <1>7, <3>1 DEF WantGiven, WantOf
  <2> QED BY <1>1, <1>5, <1>6, <2>1, <2>2, <2>3 DEF OwnCall
<1>9. ASSUME Live(h) PROVE IF CmdRoom(1) THEN Answers(c, h) ELSE Undisturbed(h)
  <2>1. CASE ~CmdRoom(1)
    BY <1>6, <1>9, <2>1, LostUndisturbed
  <2>2. CASE CmdRoom(1)
    <3>1. ASSUME NEW vs \in Voices, Outcome(vs, h), VoiceOf(vs, h)
          PROVE  Outcome(Effect(vs, c), h)'
      <4>1. PICK e : e = Effect(vs, c)
        OBVIOUS
      <4>2. /\ VoiceOf(e, h) /\ e[h.idx].snd = vs[h.idx].snd
            /\ e[h.idx].on <=> vs[h.idx].on
            /\ e[h.idx].seek <=> vs[h.idx].seek
            /\ e[h.idx].stopAt <=> vs[h.idx].on
        BY <1>3, <3>1, <4>1, EffectIs
      <4>3. ASSUME WantOf(h)'.all, Unheld(h)'
            PROVE  /\ ~WantOf(h)'.on => ~e[h.idx].on
                   /\ WantOf(h)'.on /\ Is(WantOf(h).snd, "live")' =>
                        /\ e[h.idx].on /\ e[h.idx].snd = WantOf(h)'.snd /\ (e[h.idx].stopAt <=> WantOf(h)'.stopAt)
                        /\ Seeking(h)' \/ (e[h.idx].seek <=> WantOf(h)'.seek)
        <5>1. want'[h.idx] = f /\ WantOf(h).all /\ Unheld(h)
          BY <1>1, <1>4, <1>6, <1>9, <4>3 DEF WantOf, Unheld
        <5>2. /\ WantOf(h)'.on = WantOf(h).on /\ WantOf(h)'.snd = WantOf(h).snd /\ WantOf(h)'.seek = WantOf(h).seek
              /\ WantOf(h).on => WantOf(h)'.stopAt
          <6>1. HeldFor(h) = {}
            BY <5>1 DEF Unheld, HeldFor
          <6> QED BY <1>4, <5>1, <6>1 DEF WantOf
        <5>3. Is(WantOf(h).snd, "live")' <=> Is(WantOf(h).snd, "live")
          BY <1>1, <5>2 DEF Is
        <5>4. /\ ~WantOf(h).on => ~vs[h.idx].on
              /\ WantOf(h).on /\ Is(WantOf(h).snd, "live") =>
                   vs[h.idx].on /\ vs[h.idx].snd = WantOf(h).snd /\ (vs[h.idx].seek <=> WantOf(h).seek)
          BY <1>5, <3>1, <5>1 DEF Outcome
        <5> QED BY <4>2, <5>2, <5>3, <5>4
      <4>4. Outcome(e, h)'
        BY <4>2, <4>3 DEF Outcome, VoiceOf
      <4> QED BY <4>1, <4>4
    <3>2. Answers(c, h)
      BY <1>2, <1>3, <1>9, <3>1, AnswersBy
    <3> QED BY <2>2, <3>2
  <2> QED BY <2>1, <2>2
<1> QED BY <1>1, <1>2, <1>3, <1>5, <1>8, <1>9, OwnAsks

\* bwa_source_seek.
LEMMA SeekAsks ==
    ASSUME TypeOK, TypeOK', Asking, NEW h \in Sources, Seek(h)
    PROVE  Asking'
<1> DEFINE f == [WantOf(h) EXCEPT !.seek = WantOf(h).seek \/ WantOf(h).on]
<1>1. UNCHANGED <<snd, slot, batch, voice, ctl>>
  BY DEF Seek, cacheVars, sourceVars, loadVars, audioVars
<1>2. h \in Handle /\ h.idx \in Voice /\ WantOf(h) \in WantRec
  BY SourceIs, WantOfType
<1>3. PICK c \in Command : c = C("SEEK", h, None) /\ c.t = "SEEK" /\ c.v = h
  <2>1. "SEEK" \in CommandNames
    BY DEF CommandNames
  <2> QED BY <1>2, <2>1, SourceCommand
<1>4. /\ f.on = WantOf(h).on /\ f.all = WantOf(h).all /\ f.snd = WantOf(h).snd /\ f.stopAt = WantOf(h).stopAt
      /\ WantOf(h).on => f.seek
      /\ ~WantOf(h).on => f.seek = WantOf(h).seek
  BY <1>2 DEF WantRec
<1>5. SeekPends' /\ \A g : ~Seeking(g)
  BY <1>1, CallSeekPends DEF Seek
<1>6. HeldOnce /\ WantGiven /\ held \subseteq HeldRec
  BY TypeParts DEF Asking, SlotsOK
<1>7. \/ /\ HeldFor(h) # {} /\ held' = HeldButSrc(h) \cup {[p EXCEPT !.seek = TRUE] : p \in HeldFor(h)}
         /\ want' = Asked(h, f, TRUE) /\ cmd' = cmd
      \/ HeldFor(h) = {} /\ Push(c) /\ want' = Asked(h, f, CmdRoom(1)) /\ held' = held
  BY <1>3 DEF Seek
<1>8. PICK d \in BOOLEAN : want' = Asked(h, f, d) /\ (HeldFor(h) = {} => d = CmdRoom(1))
  <2>1. CmdRoom(1) \in BOOLEAN
    BY DEF CmdRoom
  <2> HIDE DEF f
  <2> QED BY <1>7, <2>1
<1> HIDE DEF f
<1>9. /\ \A i \in Voice : ~(Live(h) /\ i = h.idx) => want'[i] = want[i]
      /\ Live(h) => IF f.all /\ d THEN want'[h.idx] = f
                    ELSE want'[h.idx].all = FALSE /\ want'[h.idx].on = FALSE
  BY <1>8, AskedIs
<1>10. Live(h) => slot[h.idx].inuse /\ H(h.idx, slot[h.idx].gen) = h
  BY <1>2, Handles DEF Live
<1>11. CASE HeldFor(h) # {}
  <2>1. PICK q \in held : q.src = h
    BY <1>11 DEF HeldFor
  <2>2. HeldFor(h) = {q} /\ q \in HeldRec
    BY <1>6, <2>1 DEF HeldFor, HeldOnce
  <2>3. PICK r : r = [q EXCEPT !.seek = TRUE]
    OBVIOUS
  <2>4. r.src = h /\ r.snd = q.snd /\ r.seek = TRUE
    BY <2>1, <2>2, <2>3 DEF HeldRec
  <2>5. held' = HeldButSrc(h) \cup {r}
    BY <1>7, <1>11, <2>2, <2>3
  <2>6. \A p : p \in held' <=> (p \in held /\ p.src # h) \/ p = r
    BY <2>5 DEF HeldButSrc
  <2>7. OwnCall(h)
    <3>1. \A p \in HeldRec : p.src # h => (p \in held <=> p \in held')
      BY <2>4, <2>6
    <3>2. \A p \in held' : p.src = h => p = r
      BY <2>6
    <3>3. /\ h.idx \in Voice /\ h.gen <= slot[h.idx].gen
          /\ Live(h) /\ want'[h.idx].all =>
               want'[h.idx].on /\ want'[h.idx].snd = r.snd /\ (want'[h.idx].seek <=> r.seek) /\ ~want'[h.idx].stopAt
      <4>1. h.gen <= slot[h.idx].gen
        BY <1>6, <2>1 DEF HeldOnce
      <4>2. Live(h) /\ WantOf(h).all => WantOf(h).on /\ WantOf(h).snd = q.snd /\ ~WantOf(h).stopAt
        BY <1>6, <2>1 DEF HeldOnce
      <4> QED BY <1>2, <1>4, <1>9, <2>4, <4>1, <4>2
    <3>4. Live(h) /\ want'[h.idx].on => Given(want'[h.idx].snd)
      BY <1>2, <1>4, <1>6, <1>9 DEF WantGiven, WantOf
    <3>5. r \in held'
      BY <2>6
    <3> QED BY <1>1, <1>5, <1>9, <2>4, <3>1, <3>2, <3>3, <3>4, <3>5 DEF OwnCall
  <2>8. Undisturbed(h)
    BY <2>4, <2>6, HeldUndisturbed
  <2> QED BY <1>2, <1>3, <1>5, <1>7, <1>11, <2>7, <2>8, OwnAsks
<1>12. CASE HeldFor(h) = {}
  <2>1. held' = held /\ Push(c) /\ d = CmdRoom(1) /\ Unheld(h) /\ Unheld(h)'
    BY <1>7, <1>8, <1>12 DEF HeldFor, Unheld
  <2>2. OwnCall(h)
    <3>1. Live(h) /\ want'[h.idx].on =>
            /\ Given(want'[h.idx].snd)
            /\ want'[h.idx].all /\ Is(want'[h.idx].snd, "pending") => \E p \in held' : p.src = h
      BY <1>2, <1>4, <1>6, <1>9, <1>10, <2>1 DEF WantGiven, WantOf
    <3>2. \A p \in held' : p.src # h
      BY <2>1 DEF Unheld
    <3> QED BY <1>1, <1>5, <1>9, <2>1, <3>1, <3>2 DEF OwnCall
  <2>3. ASSUME Live(h) PROVE IF CmdRoom(1) THEN Answers(c, h) ELSE Undisturbed(h)
    <3>1. CASE ~CmdRoom(1)
      BY <1>9, <2>1, <2>3, <3>1, LostUndisturbed
    <3>2. CASE CmdRoom(1)
      <4>1. ASSUME NEW vs \in Voices, Outcome(vs, h), VoiceOf(vs, h)
            PROVE  Outcome(Effect(vs, c), h)'
        <5>1. PICK e : e = Effect(vs, c)
          OBVIOUS
        <5>2. /\ VoiceOf(e, h) /\ e[h.idx].snd = vs[h.idx].snd
              /\ e[h.idx].on <=> vs[h.idx].on
              /\ e[h.idx].seek <=> vs[h.idx].on
              /\ e[h.idx].stopAt <=> vs[h.idx].stopAt
          BY <1>3, <4>1, <5>1, EffectIs
        <5>3. ASSUME WantOf(h)'.all, Unheld(h)'
              PROVE  /\ ~WantOf(h)'.on => ~e[h.idx].on
                     /\ WantOf(h)'.on /\ Is(WantOf(h).snd, "live")' =>
                          /\ e[h.idx].on /\ e[h.idx].snd = WantOf(h)'.snd /\ (e[h.idx].stopAt <=> WantOf(h)'.stopAt)
                          /\ Seeking(h)' \/ (e[h.idx].seek <=> WantOf(h)'.seek)
          <6>1. want'[h.idx] = f /\ WantOf(h).all
            BY <1>4, <1>9, <2>3, <5>3 DEF WantOf
          <6>2. /\ WantOf(h)'.on = WantOf(h).on /\ WantOf(h)'.snd = WantOf(h).snd /\ WantOf(h)'.stopAt = WantOf(h).stopAt
                /\ WantOf(h).on => WantOf(h)'.seek
            BY <1>4, <6>1 DEF WantOf
          <6>3. Is(WantOf(h).snd, "live")' <=> Is(WantOf(h).snd, "live")
            BY <1>1, <6>2 DEF Is
          <6>4. /\ ~WantOf(h).on => ~vs[h.idx].on
                /\ WantOf(h).on /\ Is(WantOf(h).snd, "live") =>
                     vs[h.idx].on /\ vs[h.idx].snd = WantOf(h).snd /\ (vs[h.idx].stopAt <=> WantOf(h).stopAt)
            BY <2>1, <4>1, <6>1 DEF Outcome
          <6> QED BY <5>2, <6>2, <6>3, <6>4
        <5>4. Outcome(e, h)'
          BY <5>2, <5>3 DEF Outcome, VoiceOf
        <5> QED BY <5>1, <5>4
      <4>2. Answers(c, h)
        BY <1>2, <1>3, <2>3, <4>1, AnswersBy
      <4> QED BY <3>2, <4>2
    <3> QED BY <3>1, <3>2
  <2> QED BY <1>2, <1>3, <1>5, <2>1, <2>2, <2>3, OwnAsks
<1> QED BY <1>11, <1>12

-----------------------------------------------------------------------------
(* Playing, and the plays that were held.                                  *)

\* bwa_source_play: at once, or held while the sound decodes.
LEMMA PlayAsks ==
    ASSUME TypeOK, TypeOK', Asking, NEW h \in Sources, NEW s \in Sounds, Play(h, s)
    PROVE  Asking'
<1>1. UNCHANGED <<snd, slot, batch, voice, ctl>>
  BY DEF Play, cacheVars, sourceVars, loadVars, audioVars
<1>2. h \in Handle /\ h.idx \in Voice /\ s \in Handle /\ Given(s)
  <2>1. slot \in [Voice -> SlotRec] /\ snd \in [Sound -> SndRec]
    BY TypeParts DEF SlotsOK
  <2>2. s \in Handle /\ s.idx \in Sound /\ s.gen = snd[s.idx].gen
    BY SoundIs
  <2> QED BY <2>1, <2>2, SourceIs DEF Given, SndRec
<1>2a. h.gen <= slot[h.idx].gen
  BY DEF Sources
<1>3. PICK c \in Command : c = C("PLAY", h, s) /\ c.t = "PLAY" /\ c.v = h /\ c.s = s
  <2>1. "PLAY" \in CommandNames /\ h \in Handle /\ s \in Handle
    BY <1>2 DEF CommandNames
  <2> QED BY <2>1, CommandIs
<1>4. PICK f : f = [Nothing EXCEPT !.snd = s, !.on = TRUE]
  OBVIOUS
<1>4a. f.on /\ f.all /\ f.snd = s /\ ~f.seek /\ ~f.stopAt
  BY <1>4 DEF Nothing
<1>5. SeekPends' /\ \A g : ~Seeking(g)
  BY <1>1, CallSeekPends DEF Play
<1>6. PICK r : r = [src |-> h, snd |-> s, seek |-> FALSE]
  OBVIOUS
<1>6a. r.src = h /\ r.snd = s /\ ~r.seek
  BY <1>6
<1>7. PICK room \in BOOLEAN : room = (Cardinality(HeldButSrc(h)) < HoldCap)
  <2>1. (Cardinality(HeldButSrc(h)) < HoldCap) \in BOOLEAN
    OBVIOUS
  <2> QED BY <2>1
<1>8. \/ IsPending(s) /\ held' = HeldButSrc(h) \cup (IF room THEN {r} ELSE {}) /\ want' = Asked(h, f, room) /\ cmd' = cmd
      \/ ~IsPending(s) /\ held' = HeldButSrc(h) /\ Push(c) /\ want' = Asked(h, f, CmdRoom(1))
  BY <1>3, <1>4, <1>6, <1>7 DEF Play, Holds
<1>9. CASE IsPending(s)
  <2>1. held' = HeldButSrc(h) \cup (IF room THEN {r} ELSE {}) /\ want' = Asked(h, f, room) /\ cmd' = cmd
    BY <1>8, <1>9
  <2>2. /\ \A i \in Voice : ~(Live(h) /\ i = h.idx) => want'[i] = want[i]
        /\ Live(h) => IF f.all /\ room THEN want'[h.idx] = f
                      ELSE want'[h.idx].all = FALSE /\ want'[h.idx].on = FALSE
    BY <2>1, AskedIs
  <2>3. \A p : p \in held' <=> (p \in held /\ p.src # h) \/ (room /\ p = r)
    BY <2>1 DEF HeldButSrc
  <2>4. OwnCall(h)
    BY <1>1, <1>2, <1>2a, <1>4a, <1>5, <1>6a, <2>2, <2>3 DEF OwnCall
  <2>5. Live(h) => Undisturbed(h)
    <3>1. CASE room
      BY <1>6a, <2>3, <3>1, HeldUndisturbed
    <3>2. CASE ~room
      BY <2>2, <3>2, LostUndisturbed
    <3> QED BY <3>1, <3>2
  <2> QED BY <1>2, <1>3, <1>5, <2>1, <2>4, <2>5, OwnAsks
<1>10. CASE ~IsPending(s)
  <2>1. held' = HeldButSrc(h) /\ Push(c) /\ want' = Asked(h, f, CmdRoom(1))
    BY <1>8, <1>10
  <2>2. /\ \A i \in Voice : ~(Live(h) /\ i = h.idx) => want'[i] = want[i]
        /\ Live(h) => IF f.all /\ CmdRoom(1) THEN want'[h.idx] = f
                      ELSE want'[h.idx].all = FALSE /\ want'[h.idx].on = FALSE
    <3>1. PICK d \in BOOLEAN : want' = Asked(h, f, d) /\ d = CmdRoom(1)
      <4>1. CmdRoom(1) \in BOOLEAN
        BY DEF CmdRoom
      <4> QED BY <2>1, <4>1
    <3> QED BY <3>1, AskedIs
  <2>3. \A p : p \in held' <=> (p \in held /\ p.src # h)
    BY <2>1 DEF HeldButSrc
  <2>4. ~Is(s, "pending")
    BY <1>10 DEF IsPending, SndLive, Is
  <2>5. OwnCall(h)
    BY <1>1, <1>2, <1>4a, <1>5, <2>2, <2>3, <2>4 DEF OwnCall
  <2>6. ASSUME Live(h) PROVE IF CmdRoom(1) THEN Answers(c, h) ELSE Undisturbed(h)
    <3>1. CASE ~CmdRoom(1)
      BY <2>2, <2>6, <3>1, LostUndisturbed
    <3>2. CASE CmdRoom(1)
      <4>1. ASSUME NEW vs \in Voices, Outcome(vs, h), VoiceOf(vs, h)
            PROVE  Outcome(Effect(vs, c), h)'
        <5>1. PICK e : e = Effect(vs, c)
          OBVIOUS
        <5>2. VoiceOf(e, h) /\ e[h.idx].on /\ e[h.idx].snd = s /\ ~e[h.idx].seek /\ ~e[h.idx].stopAt
          BY <1>3, <4>1, <5>1, EffectIs
        <5>3. WantOf(h)'.on /\ WantOf(h)'.snd = s /\ ~WantOf(h)'.seek /\ ~WantOf(h)'.stopAt
          BY <1>4a, <2>2, <2>6, <3>2 DEF WantOf
        <5>4. Outcome(e, h)'
          BY <5>2, <5>3 DEF Outcome, VoiceOf
        <5> QED BY <5>1, <5>4
      <4>2. Answers(c, h)
        BY <1>2, <1>3, <2>6, <4>1, AnswersBy
      <4> QED BY <3>2, <4>2
    <3> QED BY <3>1, <3>2
  <2> QED BY <1>2, <1>3, <1>5, <2>1, <2>5, <2>6, OwnAsks
<1> QED BY <1>9, <1>10

\* The seek behind a released play.
LEMMA FireSeekAsks ==
    ASSUME TypeOK, TypeOK', Asking, FireSeek
    PROVE  Asking'
<1>1. ctl.pc = "seek" /\ UNCHANGED <<snd, slot, batch, voice, held>>
  BY DEF FireSeek, cacheVars, sourceVars, loadVars, audioVars
<1>2. PICK h \in ctl.try : Push(C("SEEK", h, None)) /\ want' = Asked(h, WantOf(h), CmdRoom(1))
  BY Zenon DEF FireSeek
<1>3. ctl'.pc = "fire"
  <2>1. ctl \in CtlRec
    BY TypeParts DEF CtlOK
  <2>2. ctl' = [ctl EXCEPT !.pc = "fire", !.try = {}]
    BY Zenon DEF FireSeek
  <2> QED BY <2>1, <2>2 DEF CtlRec
<1>4. HeldOnce /\ WantGiven /\ SeekPends
  BY DEF Asking
<1>5. /\ h \in Handle /\ Live(h) /\ Unheld(h) /\ h.idx \in Voice /\ \A g \in ctl.try : g = h
      /\ WantOf(h).all => WantOf(h).on /\ WantOf(h).seek
  BY <1>1, <1>4, TypeParts DEF SeekPends, CtlOK, CtlRec, Live
<1>6. PICK c \in Command : c = C("SEEK", h, None) /\ c.t = "SEEK" /\ c.v = h
  <2>1. "SEEK" \in CommandNames /\ None \in Handle
    BY Handles DEF CommandNames
  <2> QED BY <1>5, <2>1, CommandIs
<1>7. PICK f : f = WantOf(h)
  OBVIOUS
<1>8. /\ \A i \in Voice : ~(Live(h) /\ i = h.idx) => want'[i] = want[i]
      /\ Live(h) => IF f.all /\ CmdRoom(1) THEN want'[h.idx] = f
                    ELSE want'[h.idx].all = FALSE /\ want'[h.idx].on = FALSE
  <2>1. PICK d \in BOOLEAN : want' = Asked(h, f, d) /\ d = CmdRoom(1)
    <3>1. CmdRoom(1) \in BOOLEAN
      BY DEF CmdRoom
    <3> QED BY <1>2, <1>7, <3>1
  <2> QED BY <2>1, AskedIs
<1>9. SeekPends' /\ \A g : g # h => ~Seeking(g)
  BY <1>3, <1>5 DEF SeekPends, Seeking
<1>10. slot[h.idx].inuse /\ H(h.idx, slot[h.idx].gen) = h
  BY <1>5, Handles DEF Live
<1>11. OwnCall(h)
  <2>1. want'[h.idx].on =>
          /\ Given(want'[h.idx].snd)
          /\ want'[h.idx].all /\ Is(want'[h.idx].snd, "pending") => \E p \in held' : p.src = h
    BY <1>1, <1>4, <1>5, <1>7, <1>8, <1>10 DEF WantGiven, WantOf
  <2>2. \A p \in held' : p.src # h
    BY <1>1, <1>5 DEF Unheld
  <2> QED BY <1>1, <1>8, <1>9, <2>1, <2>2 DEF OwnCall
<1>12. IF CmdRoom(1) THEN Answers(c, h) ELSE Undisturbed(h)
  <2>1. CASE ~CmdRoom(1)
    BY <1>5, <1>8, <2>1, LostUndisturbed
  <2>2. CASE CmdRoom(1)
    <3>1. ASSUME NEW vs \in Voices, Outcome(vs, h), VoiceOf(vs, h)
          PROVE  Outcome(Effect(vs, c), h)'
      <4>1. PICK e : e = Effect(vs, c)
        OBVIOUS
      <4>2. /\ VoiceOf(e, h) /\ e[h.idx].snd = vs[h.idx].snd
            /\ e[h.idx].on <=> vs[h.idx].on
            /\ e[h.idx].seek <=> vs[h.idx].on
            /\ e[h.idx].stopAt <=> vs[h.idx].stopAt
        BY <1>6, <3>1, <4>1, EffectIs
      <4>3. ASSUME WantOf(h)'.all, Unheld(h)'
            PROVE  /\ WantOf(h)'.on
                   /\ Is(WantOf(h).snd, "live")' =>
                        /\ e[h.idx].on /\ e[h.idx].snd = WantOf(h)'.snd /\ (e[h.idx].stopAt <=> WantOf(h)'.stopAt)
                        /\ e[h.idx].seek <=> WantOf(h)'.seek
        <5>1. WantOf(h)' = WantOf(h) /\ WantOf(h).all
          BY <1>5, <1>7, <1>8, <4>3 DEF WantOf
        <5>2. Is(WantOf(h).snd, "live")' <=> Is(WantOf(h).snd, "live")
          BY <1>1, <5>1 DEF Is
        <5>3. Is(WantOf(h).snd, "live") =>
                vs[h.idx].on /\ vs[h.idx].snd = WantOf(h).snd /\ (vs[h.idx].stopAt <=> WantOf(h).stopAt)
          BY <1>5, <3>1, <5>1 DEF Outcome
        <5> QED BY <1>5, <4>2, <5>1, <5>2, <5>3
      <4>4. Outcome(e, h)'
        BY <4>2, <4>3 DEF Outcome, VoiceOf
      <4> QED BY <4>1, <4>4
    <3>2. Answers(c, h)
      BY <1>5, <1>6, <3>1, AnswersBy
    <3> QED BY <2>2, <3>2
  <2> QED BY <2>1, <2>2
<1> QED BY <1>2, <1>5, <1>6, <1>9, <1>11, <1>12, OwnAsks

\* A held play released: its sound is loaded.
LEMMA FireAsks ==
    ASSUME TypeOK, TypeOK', HeldUnsent, Asking, NEW p \in held, Fire(p)
    PROVE  Asking'
<1>1. /\ ctl.pc = "fire" /\ p.snd = ctl.h /\ UNCHANGED <<snd, slot, batch, voice>> /\ held' = held \ {p}
  BY DEF Fire, cacheVars, sourceVars, loadVars, audioVars
<1>2. PICK h \in Handle : h = p.src
  BY TypeParts DEF SlotsOK, HeldRec
<1>3. HeldOnce /\ WantGiven /\ SeekPends /\ Is(p.snd, "live") /\ p.snd \in Handle
  BY <1>1, TypeParts DEF Asking, HeldUnsent, SlotsOK, HeldRec
<1>4. Unheld(h)' /\ \A q : q \in held' <=> q \in held /\ q # p
  BY <1>1, <1>2, <1>3 DEF HeldOnce, Unheld
<1>5. PICK c \in Command : c = C("PLAY", h, p.snd) /\ c.t = "PLAY" /\ c.v = h /\ c.s = p.snd
  <2>1. "PLAY" \in CommandNames
    BY DEF CommandNames
  <2> QED BY <1>3, <2>1, CommandIs
<1>6. \A q \in held' : q.src # h
  BY <1>4 DEF Unheld
<1>7. \A g : ~Seeking(g)
  BY <1>1 DEF Seeking
<1>8. CASE ~Live(h)
  <2>1. UNCHANGED <<cmd, want, ctl>>
    BY <1>2, <1>8 DEF Fire
  <2>2. SeekPends'
    BY <1>1, <2>1 DEF SeekPends
  <2>3. OwnCall(h)
    BY <1>1, <1>2, <1>4, <1>6, <1>7, <1>8, <2>1 DEF OwnCall
  <2> QED BY <1>5, <1>8, <2>1, <2>2, <2>3, OwnAsks
<1>9. CASE Live(h)
  <2>1. /\ Push(c) /\ want' = Asked(h, WantOf(h), CmdRoom(1))
        /\ ctl' = IF p.seek THEN [ctl EXCEPT !.pc = "seek", !.try = {h}] ELSE ctl
    BY <1>2, <1>5, <1>9 DEF Fire
  <2>2. h.idx \in Voice /\ slot[h.idx].inuse /\ H(h.idx, slot[h.idx].gen) = h
    BY <1>9, Handles DEF Live
  <2>3. PICK f : f = WantOf(h)
    OBVIOUS
  <2>4. /\ \A i \in Voice : ~(Live(h) /\ i = h.idx) => want'[i] = want[i]
        /\ IF f.all /\ CmdRoom(1) THEN want'[h.idx] = f
           ELSE want'[h.idx].all = FALSE /\ want'[h.idx].on = FALSE
    <3>1. PICK d \in BOOLEAN : want' = Asked(h, f, d) /\ d = CmdRoom(1)
      <4>1. CmdRoom(1) \in BOOLEAN
        BY DEF CmdRoom
      <4> QED BY <2>1, <2>3, <4>1
    <3> QED BY <1>9, <3>1, AskedIs
  <2>5. WantOf(h).all => WantOf(h).on /\ WantOf(h).snd = p.snd /\ (WantOf(h).seek <=> p.seek) /\ ~WantOf(h).stopAt
    BY <1>2, <1>3, <1>9 DEF HeldOnce
  <2>6. OwnCall(h)
    <3>1. want'[h.idx].on =>
            /\ Given(want'[h.idx].snd)
            /\ want'[h.idx].all => ~Is(want'[h.idx].snd, "pending")
      BY <1>3, <2>2, <2>3, <2>4, <2>5 DEF WantGiven, WantOf, Is
    <3> QED BY <1>1, <1>2, <1>4, <1>6, <1>7, <2>4, <3>1 DEF OwnCall
  <2>7. p.seek => ctl'.pc = "seek" /\ ctl'.try = {h}
    BY <2>1, TypeParts DEF CtlOK, CtlRec
  <2>8. SeekPends'
    <3>1. CASE ~p.seek
      BY <1>1, <2>1, <3>1 DEF SeekPends
    <3>2. CASE p.seek
      <4>1. Live(h)'
        BY <1>1, <1>9 DEF Live
      <4>2. WantOf(h)'.all => WantOf(h)'.on /\ WantOf(h)'.seek
        BY <2>3, <2>4, <2>5, <3>2 DEF WantOf
      <4> QED BY <1>4, <2>7, <3>2, <4>1, <4>2 DEF SeekPends
    <3> QED BY <3>1, <3>2
  <2>9. IF CmdRoom(1) THEN Answers(c, h) ELSE Undisturbed(h)
    <3>1. CASE ~CmdRoom(1)
      BY <2>4, <3>1, LostUndisturbed
    <3>2. CASE CmdRoom(1)
      <4>1. ASSUME NEW vs \in Voices, Outcome(vs, h), VoiceOf(vs, h)
            PROVE  Outcome(Effect(vs, c), h)'
        <5>1. PICK e : e = Effect(vs, c)
          OBVIOUS
        <5>2. VoiceOf(e, h) /\ e[h.idx].on /\ e[h.idx].snd = p.snd /\ ~e[h.idx].seek /\ ~e[h.idx].stopAt
          BY <1>5, <4>1, <5>1, EffectIs
        <5>3. WantOf(h)'.all => /\ WantOf(h)'.on /\ WantOf(h)'.snd = p.snd /\ ~WantOf(h)'.stopAt
                                /\ Seeking(h)' \/ ~WantOf(h)'.seek
          <6>1. WantOf(h)'.all => WantOf(h)' = WantOf(h) /\ WantOf(h).all
            BY <2>3, <2>4 DEF WantOf
          <6>2. p.seek => Seeking(h)'
            BY <2>7 DEF Seeking
          <6> QED BY <2>5, <6>1, <6>2
        <5>4. Outcome(e, h)'
          BY <5>2, <5>3 DEF Outcome, VoiceOf
        <5> QED BY <5>1, <5>4
      <4>2. Answers(c, h)
        BY <1>5, <1>9, <4>1, AnswersBy
      <4> QED BY <3>2, <4>2
    <3> QED BY <3>1, <3>2
  <2> QED BY <1>5, <1>9, <2>1, <2>6, <2>8, <2>9, OwnAsks
<1> QED BY <1>8, <1>9

-----------------------------------------------------------------------------
(* Sources come and go; every step; the property.                          *)

\* A new source has nothing to expect, and its create makes its voice silent.
LEMMA CreateSourceAsks ==
    ASSUME TypeOK, TypeOK', Asking, NEW i \in Voice, CreateSource(i)
    PROVE  Asking'
<1>1. /\ UNCHANGED <<snd, batch, voice, ctl, held>> /\ ~slot[i].inuse
      /\ slot' = [slot EXCEPT ![i] = [gen |-> slot[i].gen + 1, inuse |-> CmdRoom(1)]]
      /\ Push(C("CREATE", H(i, slot[i].gen + 1), None)) /\ want' = [want EXCEPT ![i] = Nothing]
  BY DEF CreateSource, cacheVars, sourceVars, loadVars, audioVars
<1>2. slot \in [Voice -> SlotRec] /\ i \in Nat /\ slot[i].gen \in Nat /\ slot[i].gen + 1 \in Nat
  BY TypeParts, Sizes DEF SlotsOK, SlotRec, Voice
<1>3. PICK h \in Handle : h = H(i, slot[i].gen + 1) /\ h.idx = i /\ h.gen = slot[i].gen + 1
  BY <1>2, Handles
<1>4. PICK c \in Command : c = C("CREATE", h, None) /\ c.t = "CREATE" /\ c.v = h
  <2>1. "CREATE" \in CommandNames /\ None \in Handle
    BY Handles DEF CommandNames
  <2> QED BY <2>1, CommandIs
<1>5. /\ slot'[i].gen = slot[i].gen + 1 /\ (slot'[i].inuse <=> CmdRoom(1))
      /\ \A j \in Voice : j # i => slot'[j] = slot[j]
  BY <1>1, <1>2
<1>6. want'[i].on = FALSE /\ want'[i].all = TRUE /\ \A j \in Voice : j # i => want'[j] = want[j]
  <2>1. want \in [Voice -> WantRec] /\ Nothing.on = FALSE /\ Nothing.all = TRUE
    BY TypeParts DEF WantOK, Nothing
  <2> QED BY <1>1, <2>1
<1>7. HeldOnce /\ WantGiven /\ Foreseen /\ held \subseteq HeldRec
  BY TypeParts DEF Asking, SlotsOK
<1>8. SeekPends' /\ \A g : ~Seeking(g)
  BY <1>1, CallSeekPends DEF CreateSource
<1>9. ASSUME NEW g \in Handle, Live(g)', g.idx # i
      PROVE  Live(g) /\ WantOf(g)' = WantOf(g) /\ g.idx \in Voice
  BY <1>5, <1>6, <1>9 DEF Live, WantOf
<1>10. HeldOnce'
  <2>1. ASSUME NEW p \in held PROVE p.src.idx \in Voice /\ p.src.gen <= slot'[p.src.idx].gen /\ p.src \in Handle
                                    /\ (Live(p.src)' => p.src.idx # i)
    <3>1. p.src.idx \in Voice /\ p.src.gen <= slot[p.src.idx].gen /\ p.src \in Handle /\ p.src.gen \in Nat
      BY <1>7, Handles DEF HeldOnce, HeldRec
    <3>2. CASE p.src.idx = i
      BY <1>2, <1>5, <3>1, <3>2 DEF Live
    <3>3. CASE p.src.idx # i
      BY <1>5, <3>1, <3>3
    <3> QED BY <3>2, <3>3
  <2>2. ASSUME NEW p \in held, Live(p.src)', WantOf(p.src)'.all
        PROVE  /\ WantOf(p.src)'.on /\ WantOf(p.src)'.snd = p.snd
               /\ (WantOf(p.src)'.seek <=> p.seek) /\ ~WantOf(p.src)'.stopAt
    <3>1. PICK g \in Handle : g = p.src
      BY <2>1
    <3>2. Live(g)' /\ g.idx # i
      BY <2>1, <2>2, <3>1 DEF Live
    <3>3. Live(g) /\ WantOf(g)' = WantOf(g)
      BY <1>9, <3>2
    <3>4. WantOf(p.src)' = WantOf(g)'
      BY <1>1, <3>1 DEF WantOf
    <3> QED BY <1>7, <2>2, <3>1, <3>3, <3>4 DEF HeldOnce
  <2> QED BY <1>1, <1>7, <2>1, <2>2 DEF HeldOnce
<1>11. WantGiven'
  <2>1. ASSUME NEW j \in Voice, want'[j].on
        PROVE  /\ Given(want'[j].snd)
               /\ slot'[j].inuse /\ want'[j].all /\ Is(want'[j].snd, "pending") => \E p \in held : p.src = H(j, slot'[j].gen)
    BY <1>5, <1>6, <1>7, <2>1 DEF WantGiven
  <2> QED BY <1>1, <2>1 DEF WantGiven, Given, Is
<1>12. ASSUME NEW g \in Handle, Live(g)', g # h
       PROVE  Live(g) /\ Undisturbed(g) /\ g.idx # i
  <2>1. g.idx # i
    BY <1>3, <1>5, <1>12, Handles DEF Live
  <2>2. Live(g) /\ WantOf(g)' = WantOf(g)
    BY <1>9, <1>12, <2>1
  <2> QED BY <1>1, <1>8, <2>1, <2>2 DEF Undisturbed, Unheld, Is
<1>13. Foreseen'
  <2>1. CASE CmdRoom(1)
    <3>1. Answers(c, h)
      <4>1. ASSUME NEW vs \in Voices
            PROVE  Outcome(Effect(vs, c), h)'
        <5>1. PICK e : e = Effect(vs, c)
          OBVIOUS
        <5>2. e[h.idx].gen = c.v.gen /\ e[h.idx].active /\ ~e[h.idx].on
          <6>1. c.t = "CREATE" /\ c.v.idx = h.idx /\ h.idx \in Voice
            BY <1>3, <1>4
          <6> QED BY <4>1, <5>1, <6>1, EffectIs
        <5>3. VoiceOf(e, h) /\ ~e[h.idx].on
          BY <1>3, <1>4, <5>2 DEF VoiceOf
        <5>4. ~WantOf(h)'.on
          BY <1>3, <1>6 DEF WantOf
        <5>5. Outcome(e, h)'
          BY <5>3, <5>4 DEF Outcome, VoiceOf
        <5> QED BY <5>1, <5>5
      <4> QED BY <4>1 DEF Answers
    <3>2. ASSUME NEW g \in Handle, Live(g)'
          PROVE  IF Touches(c, g) THEN Answers(c, g) ELSE Live(g) /\ Undisturbed(g) /\ Spares(c, g)
      <4>1. CASE g = h
        BY <1>4, <3>1, <4>1 DEF Touches
      <4>2. CASE g # h
        <5>1. Live(g) /\ Undisturbed(g) /\ g.idx # i
          BY <1>12, <3>2, <4>2
        <5> QED BY <1>3, <1>4, <4>2, <5>1 DEF Touches, Spares
      <4> QED BY <4>1, <4>2
    <3>3. Push(c)
      BY <1>1, <1>3, <1>4
    <3> QED BY <1>1, <1>7, <2>1, <3>2, <3>3, PushForeseen
  <2>2. CASE ~CmdRoom(1)
    <3>1. \A g \in Handle : Live(g)' => Live(g) /\ Undisturbed(g)
      BY <1>3, <1>5, <1>12, <2>2 DEF Live
    <3>2. cmd' = cmd
      BY <1>1, <1>3, <1>4, <2>2, Pushed
    <3> QED BY <1>1, <1>7, <3>1, <3>2, CalmForeseen
  <2> QED BY <2>1, <2>2
<1> QED BY <1>8, <1>10, <1>11, <1>13 DEF Asking

\* Nothing is expected of a destroyed source.
LEMMA DestroySourceAsks ==
    ASSUME TypeOK, TypeOK', Asking, NEW h \in Sources, DestroySource(h)
    PROVE  Asking'
<1>1. /\ UNCHANGED <<snd, batch, voice, ctl, held, want>> /\ CmdRoom(1) /\ Push(C("DESTROY", h, None))
      /\ slot' = IF Live(h) THEN [slot EXCEPT ![h.idx].inuse = FALSE] ELSE slot
  BY DEF DestroySource, cacheVars, sourceVars, loadVars, audioVars
<1>2. h \in Handle /\ h.idx \in Voice /\ slot \in [Voice -> SlotRec]
  BY SourceIs, TypeParts DEF SlotsOK
<1>3. PICK c \in Command : c = C("DESTROY", h, None) /\ c.t = "DESTROY" /\ c.v = h
  <2>1. "DESTROY" \in CommandNames /\ None \in Handle
    BY Handles DEF CommandNames
  <2> QED BY <1>2, <2>1, CommandIs
<1>4. \A j \in Voice : slot'[j].gen = slot[j].gen /\ (slot'[j].inuse <=> slot[j].inuse /\ ~(Live(h) /\ j = h.idx))
  <2>1. CASE Live(h)
    BY <1>1, <1>2, <2>1 DEF SlotRec, Live
  <2>2. CASE ~Live(h)
    BY <1>1, <2>2
  <2> QED BY <2>1, <2>2
<1>5. \A g : Live(g)' => Live(g) /\ g # h
  BY <1>4 DEF Live
<1>6. HeldOnce /\ WantGiven /\ Foreseen
  BY DEF Asking
<1>7. SeekPends' /\ \A g : ~Seeking(g)
  BY <1>1, CallSeekPends DEF DestroySource
<1>8. HeldOnce'
  <2>1. \A p \in held : p.src.idx \in Voice /\ p.src.gen <= slot'[p.src.idx].gen
    BY <1>4, <1>6 DEF HeldOnce
  <2>2. ASSUME NEW p \in held, Live(p.src)' PROVE Live(p.src)
    BY <1>1, <1>4, <2>2 DEF Live
  <2> QED BY <1>1, <1>6, <2>1, <2>2 DEF HeldOnce, WantOf
<1>9. WantGiven'
  <2>1. ASSUME NEW j \in Voice, want[j].on
        PROVE  /\ Given(want[j].snd)
               /\ slot'[j].inuse /\ want[j].all /\ Is(want[j].snd, "pending") => \E p \in held : p.src = H(j, slot'[j].gen)
    BY <1>4, <1>6, <2>1 DEF WantGiven
  <2> QED BY <1>1, <2>1 DEF WantGiven, Given, Is
<1>10. ASSUME NEW g \in Handle, Live(g)'
       PROVE  ~Touches(c, g) /\ Live(g) /\ Undisturbed(g) /\ Spares(c, g)
  <2>1. Live(g) /\ g # h
    BY <1>5, <1>10
  <2> QED BY <1>1, <1>3, <1>7, <2>1 DEF Touches, Undisturbed, WantOf, Unheld, Is, Spares
<1>11. Foreseen'
  <2>1. Push(c)
    BY <1>1, <1>3
  <2> QED BY <1>1, <1>6, <1>10, <2>1, PushForeseen
<1> QED BY <1>7, <1>8, <1>9, <1>11 DEF Asking

\* bwa_stop_all is the last word for every source, if the ring took it.
LEMMA StopAllAsks ==
    ASSUME TypeOK, TypeOK', Asking, StopAll
    PROVE  Asking'
<1>1. /\ UNCHANGED <<snd, batch, voice, ctl, slot>> /\ Push(C("STOP_ALL", None, None)) /\ Swept
      /\ want' = IF CmdRoom(1) THEN [i \in Voice |-> IF want[i].all THEN Nothing ELSE Lost] ELSE want
  BY DEF StopAll, cacheVars, sourceVars, loadVars, audioVars
<1>2. PICK c \in Command : c = C("STOP_ALL", None, None) /\ c.t = "STOP_ALL"
  <2>1. "STOP_ALL" \in CommandNames /\ None \in Handle
    BY Handles DEF CommandNames
  <2> QED BY <2>1, CommandIs
<1>3. CASE ~CmdRoom(1)
  <2>1. held' = held /\ want' = want /\ cmd' = cmd
    BY <1>1, <1>2, <1>3, Pushed DEF Swept
  <2> QED BY <1>1, <2>1, QuietAsks DEF QuietStep, SeekAside
<1>4. CASE CmdRoom(1)
  <2>1. held' = {} /\ \A i \in Voice : want'[i].on = FALSE
    BY <1>1, <1>4 DEF Swept, Nothing, Lost
  <2>2. HeldOnce' /\ WantGiven'
    BY <2>1 DEF HeldOnce, WantGiven
  <2>3. SeekPends'
    BY <1>1, CallSeekPends DEF StopAll
  <2>4. ASSUME NEW h \in Handle, Live(h)'
        PROVE  Touches(c, h) /\ Answers(c, h)
    <3>1. Live(h) /\ h.idx \in Voice
      BY <1>1, <2>4 DEF Live
    <3>2. ASSUME NEW vs \in Voices, Outcome(vs, h)
          PROVE  Outcome(Effect(vs, c), h)'
      <4>1. PICK e : e = Effect(vs, c)
        OBVIOUS
      <4>2. e[h.idx].gen = vs[h.idx].gen /\ e[h.idx].active = vs[h.idx].active /\ ~e[h.idx].on
        BY <1>2, <3>1, <4>1, EffectIs
      <4>3. VoiceOf(e, h)
        BY <3>2, <4>2 DEF Outcome, VoiceOf
      <4>4. Outcome(e, h)'
        BY <2>1, <3>1, <4>2, <4>3 DEF Outcome, VoiceOf, WantOf
      <4> QED BY <4>1, <4>4
    <3> QED BY <1>2, <3>1, <3>2 DEF Touches, Answers
  <2>5. Foreseen'
    BY <1>1, <1>2, <1>4, <2>4, PushForeseen DEF Asking
  <2> QED BY <2>2, <2>3, <2>5 DEF Asking
<1> QED BY <1>3, <1>4

\* A release never retires a sound that somebody may still ask for.
LEMMA ReleaseAsks ==
    ASSUME TypeOK, TypeOK', Entries, HeldUnsent, Asking, NEW f \in File, Release(f)
    PROVE  Asking'
<1>1. /\ ctl.pc = "body" /\ ctl'.pc = "idle" /\ UNCHANGED <<slot, want, batch, voice>>
      /\ \A s \in Sound : snd'[s].gen = snd[s].gen
  BY ReleaseDoes
<1>2. PICK h \in Handle : h = entry[f].snd /\ h.idx \in Sound
  BY ReleaseDoes
<1>3. SeekAside
  BY <1>1 DEF SeekAside
<1>4. CASE UNCHANGED <<snd, held, cmd>>
  BY <1>1, <1>3, <1>4, QuietAsks DEF QuietStep
<1>5. CASE /\ entry[f].st \in {"loading", "failed"} /\ held' = HeldButSnd(h) /\ cmd' = cmd
           /\ \A s \in Sound : snd'[s].st = IF s = h.idx THEN "free" ELSE snd[s].st
  <2>1. HeldOnce /\ WantGiven /\ Foreseen /\ held \subseteq HeldRec
    BY TypeParts DEF Asking, SlotsOK
  <2>2. \A p : p \in held' <=> p \in held /\ p.snd # h
    BY <1>5 DEF HeldButSnd
  <2>3. HeldOnce'
    BY <1>1, <2>1, <2>2 DEF HeldOnce, Live, WantOf
  <2>4. SeekPends'
    BY <1>1 DEF SeekPends
  <2>5. Is(h, "pending")
    BY <1>2, <1>5 DEF Entries
  <2>6. \A g \in Handle : /\ Given(g) => Given(g)'
                          /\ Is(g, "pending")' => Is(g, "pending") /\ g # h
                          /\ Is(g, "live")' => Is(g, "live") /\ g # h
    BY <1>1, <1>2, <1>5 DEF Given, Is
  <2>7. WantGiven'
    <3>1. ASSUME NEW i \in Voice, want'[i].on
          PROVE  /\ Given(want[i].snd)'
                 /\ slot'[i].inuse /\ want'[i].all /\ Is(want[i].snd, "pending")' =>
                       \E p \in held' : p.src = H(i, slot'[i].gen)
      <4>1. PICK g \in Handle : g = want[i].snd /\ g = want'[i].snd
        BY <1>1, WantIs
      <4>2. Given(g)'
        BY <1>1, <2>1, <2>6, <3>1, <4>1 DEF WantGiven
      <4>3. ASSUME slot[i].inuse, want[i].all, Is(g, "pending")'
            PROVE  \E p \in held' : p.src = H(i, slot[i].gen)
        <5>1. Is(g, "pending") /\ g # h
          BY <2>6, <4>3
        <5>2. PICK p \in held : p.src = H(i, slot[i].gen)
          BY <1>1, <2>1, <3>1, <4>1, <4>3, <5>1 DEF WantGiven
        <5>3. Live(p.src) /\ p.src.idx = i
          BY <4>3, <5>2 DEF Live, H
        <5>4. p.snd = g
          BY <2>1, <4>1, <4>3, <5>3 DEF HeldOnce, WantOf
        <5> QED BY <2>2, <5>1, <5>2, <5>4
      <4> QED BY <1>1, <4>1, <4>2, <4>3 DEF Given, Is
    <3> QED BY <3>1 DEF WantGiven
  <2>8. ASSUME NEW g \in Handle, Live(g)'
        PROVE  Live(g) /\ Undisturbed(g)
    <3>1. Live(g) /\ g.idx \in Voice /\ WantOf(g)' = WantOf(g)
      BY <1>1, <2>8 DEF Live, WantOf
    <3>2. PICK s \in Handle : s = WantOf(g).snd /\ s = WantOf(g)'.snd
      BY <3>1, WantIs DEF WantOf
    <3>3. Is(s, "live")' => Is(s, "live") /\ s # h
      BY <2>6
    <3>4. Is(WantOf(g).snd, "live")' <=> Is(s, "live")'
      BY <3>2 DEF Is
    <3>5. CASE Unheld(g)
      BY <1>1, <3>1, <3>2, <3>3, <3>4, <3>5 DEF Undisturbed, Seeking
    <3>6. CASE ~Unheld(g)
      <4>1. PICK p \in held : p.src = g
        BY <3>6 DEF Unheld
      <4>2. Unheld(g)' => p.snd = h
        BY <2>2, <4>1 DEF Unheld
      <4>3. WantOf(g).all => WantOf(g).on /\ s = p.snd
        BY <2>1, <3>1, <3>2, <4>1 DEF HeldOnce
      <4> QED BY <3>1, <3>3, <3>4, <4>2, <4>3 DEF Undisturbed
    <3> QED BY <3>5, <3>6
  <2>9. Foreseen'
    BY <1>1, <1>5, <2>1, <2>8, CalmForeseen
  <2> QED BY <2>3, <2>4, <2>7, <2>9 DEF Asking
<1>6. CASE /\ entry[f].st = "ready" /\ held' = HeldButSnd(h) /\ Push(C("RETIRE", None, h))
           /\ \A s \in Sound : snd'[s].st = IF s = h.idx /\ CmdRoom(1) THEN "retiring" ELSE snd[s].st
  <2>1. Is(h, "live")
    BY <1>2, <1>6 DEF Entries
  <2>2. held' = held
    BY <1>1, <1>6, <2>1, LoadedUnheld
  <2>3. Forward
    BY <1>1, <1>6 DEF Forward, Given, Is
  <2>4. CmdRoom(1) => ~Is(h, "live")'
    BY <1>2, <1>6 DEF Is
  <2>5. PICK c \in Command : c = C("RETIRE", None, h) /\ c.s = h /\ c.t = "RETIRE" /\ c.v = None
    <3>1. "RETIRE" \in CommandNames /\ None \in Handle
      BY Handles DEF CommandNames
    <3> QED BY <3>1, CommandIs
  <2>6. CmdRoom(1) => ~Is(c.s, "live")'
    BY <2>4, <2>5
  <2> QED BY <1>1, <1>3, <1>6, <2>2, <2>3, <2>5, <2>6, AsideKeeps
<1> QED BY <1>2, <1>4, <1>5, <1>6, ReleaseDoes

\* The audio thread.
LEMMA DrainAsks ==
    ASSUME TypeOK, TypeOK', Named, Asking, AudioNext
    PROVE  Asking'
<1>1. UNCHANGED <<snd, slot, held, want, ctl>>
  BY DEF AudioNext, DrainCommand, DrainEnd, cacheVars, sourceVars
<1>2. HeldOnce' /\ SeekPends' /\ WantGiven'
  <2>1. HeldOnce'
    BY <1>1 DEF Asking, HeldOnce, Live, WantOf
  <2>2. SeekPends'
    BY <1>1 DEF Asking, SeekPends, Live, WantOf, Unheld
  <2>3. WantGiven'
    BY <1>1 DEF Asking, WantGiven, Given, Is
  <2> QED BY <2>1, <2>2, <2>3
<1>3. Foreseen'
  BY DrainCommandForeseen, DrainEndForeseen DEF Asking, AudioNext
<1> QED BY <1>2, <1>3 DEF Asking

\* There are no sources at first.
LEMMA InitAsks == Init => Asking
<1> SUFFICES ASSUME Init PROVE Asking
  OBVIOUS
<1>1. CacheIInv
  BY InitHolds
<1>2. TypeOK /\ cmd = <<>> /\ batch = NoBatch /\ held = {} /\ ctl.pc = "idle"
  BY <1>1 DEF CacheIInv, Init, Idle
<1>3. HeldOnce /\ SeekPends
  BY <1>2 DEF HeldOnce, SeekPends
<1>4. WantGiven
  BY DEF Init, WantGiven, Nothing
<1>5. Foreseen
  <2>1. Places = {0} /\ Waiting = {} /\ batch.done = 0
    BY <1>2 DEF Places, Waiting, NoBatch
  <2>2. PICK F : F = [k \in {0} |-> voice]
    OBVIOUS
  <2>3. voice \in Voices
    BY <1>2, TypeParts DEF VoiceOK, Voices
  <2>4. F \in Futures /\ IsFuture(F)
    BY <2>1, <2>2, <2>3 DEF Futures, IsFuture
  <2>5. ForeseenBy(F)
    BY DEF Init, ForeseenBy, Occupants
  <2> QED BY <2>4, <2>5, ForeseenIs
<1> QED BY <1>3, <1>4, <1>5 DEF Asking

\* Every step of the control thread.
LEMMA ControlAsks ==
    ASSUME TypeOK, TypeOK', Running, Asking, ControlNext
    PROVE  Asking'
<1>1. Entries /\ Parks /\ Retires /\ HeldUnsent
  BY DEF Running
<1>2. CASE \/ BeginPump \/ FireEnd \/ PumpEnd \/ ParkEnd \/ Return \/ AcquireSignal \/ Shutdown
           \/ ShutdownSignal \/ \E f \in File : AcquireHit(f)
  BY <1>2, QuietControl, QuietAsks
<1>3. CASE PumpTake
  BY <1>1, <1>3, PumpTakeAsks
<1>4. ASSUME NEW p \in held, Fire(p) PROVE Asking'
  BY <1>1, <1>4, FireAsks
<1>5. CASE FireSeek
  BY <1>5, FireSeekAsks
<1>6. ASSUME NEW h \in ctl.try, RetryPark(h) PROVE Asking'
  BY <1>1, <1>6, RetryParkAsks
<1>7. CASE Commit
  BY <1>7, CommitAsks
<1>8. CASE TakeAck
  BY <1>1, <1>8, TakeAckAsks
<1>9. CASE ShutdownJoin
  BY <1>9, ShutdownJoinAsks
<1>10. ASSUME NEW f \in File, AcquireAsync(f) PROVE Asking'
  BY <1>10, AcquireAsyncAsks
<1>11. ASSUME NEW f \in File, AcquireNow(f) PROVE Asking'
  BY <1>11, AcquireNowAsks
<1>12. ASSUME NEW f \in File, Release(f) PROVE Asking'
  BY <1>1, <1>12, ReleaseAsks
<1>13. ASSUME NEW i \in Voice, CreateSource(i) PROVE Asking'
  BY <1>13, CreateSourceAsks
<1>14. ASSUME NEW h \in Sources, DestroySource(h) PROVE Asking'
  BY <1>14, DestroySourceAsks
<1>15. ASSUME NEW h \in Sources, Seek(h) PROVE Asking'
  BY <1>15, SeekAsks
<1>16. ASSUME NEW h \in Sources, Stop(h) PROVE Asking'
  BY <1>16, StopAsks
<1>17. ASSUME NEW h \in Sources, StopAt(h) PROVE Asking'
  BY <1>17, StopAtAsks
<1>18. ASSUME NEW h \in Sources, NEW s \in Sounds, Play(h, s) PROVE Asking'
  BY <1>18, PlayAsks
<1>19. CASE StopAll
  BY <1>19, StopAllAsks
<1> QED BY <1>2, <1>3, <1>4, <1>5, <1>6, <1>7, <1>8, <1>9, <1>10, <1>11, <1>12, <1>13, <1>14, <1>15,
     <1>16, <1>17,
           <1>18, <1>19 DEF ControlNext, ControlStep

\* Every step keeps what the voices will be.
LEMMA StepAsks == CacheIInv /\ Asking /\ [Next]_vars => Asking'
<1> SUFFICES ASSUME CacheIInv, Asking, [Next]_vars PROVE Asking'
  OBVIOUS
<1>1. TypeOK /\ TypeOK'
  BY StepHolds DEF CacheIInv
<1>2. CASE UNCHANGED vars
  BY <1>1, <1>2, QuietAsks DEF QuietStep, SeekAside, vars, cacheVars, sourceVars, loadVars, audioVars
<1>3. CASE Next
  <2>1. Running /\ Named
    BY <1>3, NothingAfter DEF Running
  <2>2. CASE ControlNext
    BY <1>1, <2>1, <2>2, ControlAsks
  <2>3. CASE LoaderNext
    BY <1>1, <2>3, QuietLoader, QuietAsks
  <2>4. CASE AudioNext
    BY <1>1, <2>1, <2>4, DrainAsks
  <2> QED BY <1>3, <2>2, <2>3, <2>4 DEF Next
<1> QED BY <1>2, <1>3

\* AskedIInv holds in every reachable state: whatever calls, loads, releases and blocks interleave, a
\* source has at most one held play, and from the last waiting command that touches it on its voice does
\* what the client last asked (rt_source_play, rt_sound_loaded, drain_commands).
THEOREM AskedInvariant == Spec => []AskedIInv
<1>1. Init => AskedIInv
  BY InitHolds, InitAsks DEF AskedIInv
<1>2. AskedIInv /\ [Next]_vars => AskedIInv'
  BY StepHolds, StepAsks DEF AskedIInv
<1> QED BY <1>1, <1>2, PTL DEF Spec

\* A settled source has no command waiting, so its voice is as asked now.
LEMMA AsAskedHolds == AskedIInv => AsAsked
<1> SUFFICES ASSUME AskedIInv, NEW h \in Sources, Claims(h)
             PROVE  /\ ~WantOf(h).on => ~voice[h.idx].on
                    /\ Sounding(h) => /\ voice[h.idx].on /\ voice[h.idx].snd = WantOf(h).snd
                                      /\ voice[h.idx].seek = WantOf(h).seek
                                      /\ voice[h.idx].stopAt = WantOf(h).stopAt
  BY DEF AsAsked
<1>1. TypeOK /\ Foreseen
  BY DEF AskedIInv, CacheIInv, Asking
<1>2. h \in Occupants /\ Live(h) /\ WantOf(h).all /\ h.idx \in Voice
  BY <1>1, SourceIs, OccupantOf DEF Claims
<1>3. PICK F \in Futures : IsFuture(F) /\ ForeseenBy(F)
  BY <1>1, ForeseenIs
<1>4. batch.done \in Places
  BY <1>1, TypeParts, SeqDomain DEF Places, RingOK
<1>5. Unheld(h) /\ ~Seeking(h) /\ Untouched(batch.done, h)
  BY DEF Claims, Settled, Unheld, Seeking, Untouched, Touches
<1>6. Outcome(voice, h)
  BY <1>2, <1>3, <1>4, <1>5 DEF ForeseenBy, IsFuture
<1>7. Sounding(h) => WantOf(h).on /\ Is(WantOf(h).snd, "live")
  BY DEF Sounding, SndLive, Is
<1>8. /\ voice[h.idx].seek \in BOOLEAN /\ WantOf(h).seek \in BOOLEAN
      /\ voice[h.idx].stopAt \in BOOLEAN /\ WantOf(h).stopAt \in BOOLEAN
  BY <1>1, <1>2, WantOfType, TypeParts DEF VoiceOK, VoiceRec, WantRec
<1> QED BY <1>2, <1>5, <1>6, <1>7, <1>8 DEF Outcome

\* A source with nothing held and no command waiting plays what the client last asked, or is silent if that
\* was a stop, however plays held for a decode raced with stops, newer plays, seeks, destroys and a full ring.
THEOREM AsAskedCorrect == Spec => []AsAsked
BY AskedInvariant, AsAskedHolds, PTL
=============================================================================
