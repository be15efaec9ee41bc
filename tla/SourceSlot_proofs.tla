-------------------------- MODULE SourceSlot_proofs -------------------------
(***************************************************************************)
(* One source slot of cave-audio, for any number of lets, plays and frames *)
(* and any size of the rings: the mixer never sees half a frame,           *)
(* is_playing is exact, a completion is the end of the latest play, and,   *)
(* with one publisher of occlusion, a voice never mixes with the occlusion *)
(* of an earlier occupant.  All of them are read off what the commands     *)
(* waiting in the ring will make of the voice (SourceSlotInv).  A step     *)
(* does one of five things to the ring (Kept, Grew, Took, EndDrain, or     *)
(* nothing of interest), and each part of the invariant is proved against  *)
(* those.                                                                  *)
(***************************************************************************)
EXTENDS SourceSlotInv, FiniteSetTheorems, TLAPS

-----------------------------------------------------------------------------
(* Types. *)

LEMMA InitTyped ==
    ASSUME Init PROVE TypeOK
<1>1. ClientTyped
  BY DEF Init, ClientTyped
<1>2. RingTyped
  BY DEF Init, RingTyped
<1>3. VoiceTyped
  BY DEF Init, VoiceTyped
<1>4. NoticesTyped
  BY SlotAssumption DEF Init, NoticesTyped, SlotAssumption
<1>5. OccTyped
  BY DEF Init, OccTyped, Clear, Quiet, Unread
<1> QED
  BY <1>1, <1>2, <1>3, <1>4, <1>5 DEF TypeOK

LEMMA CmdTyped ==
    ASSUME NEW t \in CmdNames, NEW g \in Nat, NEW n \in Nat
    PROVE  Cmd(t, g, n) \in Command /\ Cmd(t, g, n).t = t /\ Cmd(t, g, n).gen = g /\ Cmd(t, g, n).n = n
BY DEF Cmd, Command

\* What a step does to the ring: nothing, one command more at its end, one command less at its
\* head, or the room of the drained ones given back.
Kept == cmd' = cmd /\ aud'.n = aud.n
Grew(c) == cmd' = Append(cmd, c) /\ aud' = aud
Took == aud.pc = "drain" /\ aud.n < aud.todo /\ aud' = [aud EXCEPT !.n = @ + 1] /\ cmd' = cmd
LEMMA ControlRing ==
    ASSUME TypeOK, Control
    PROVE  aud' = aud /\ (cmd' = cmd \/ \E c \in Command : cmd' = Append(cmd, c))
<1>0. slot.gen \in Nat /\ slot.gen + 1 \in Nat /\ slot.seq + 1 \in Nat /\ app.frame \in Nat
  BY DEF TypeOK, ClientTyped
<1> USE DEF CmdNames
<1>1. CASE CreateSource
  BY <1>0, <1>1, CmdTyped DEF CreateSource, audVars
<1>2. CASE DestroySource
  BY <1>0, <1>2, CmdTyped DEF DestroySource, audVars
<1>3. CASE SetPos
  BY <1>0, <1>3, CmdTyped DEF SetPos, Push, audVars
<1>4. CASE SetListener
  BY <1>0, <1>4, CmdTyped DEF SetListener, Push, audVars
<1>5. CASE Play
  BY <1>0, <1>5, CmdTyped DEF Play, Push, audVars
<1>6. CASE Stop
  BY <1>0, <1>6, CmdTyped DEF Stop, audVars
<1>7. CASE Commit
  BY <1>0, <1>7, CmdTyped DEF Commit, Push, audVars
<1>8. CASE Poll
  BY <1>8 DEF Poll, audVars
<1> QED
  BY <1>1, <1>2, <1>3, <1>4, <1>5, <1>6, <1>7, <1>8 DEF Control

LEMMA ControlElse ==
    ASSUME Control
    PROVE  UNCHANGED <<calls, voice, lis, pub, occ, setter, mix>>
BY DEF Control, CreateSource, DestroySource, SetPos, SetListener, Play, Stop, Commit, Poll, audVars

LEMMA DrainElse ==
    ASSUME Drain
    PROVE  UNCHANGED <<calls, slot, app, frames, ended, pub, evt, setter, mix>>
BY DEF Drain, DrainCreate, DrainDestroy, DrainSetPos, DrainSetListener, DrainCommit, DrainPlay,
       DrainStop, EndDrain, Drained, ctlVars

LEMMA DrainRing ==
    ASSUME Drain
    PROVE  EndDrain \/ Took
BY DEF Drain, DrainCreate, DrainDestroy, DrainSetPos, DrainSetListener, DrainCommit, DrainPlay,
       DrainStop, Drained, At, Took

LEMMA MixElse ==
    ASSUME Mix
    PROVE  UNCHANGED <<calls, slot, app, frames, ended, cmd, lis, occ, setter>>
BY DEF Mix, MixLook, MixRead, MixOn, MixStopped, MixEnd, Publish, ctlVars

LEMMA SetElse ==
    ASSUME Set
    PROVE  UNCHANGED <<calls, slot, frames, ended, cmd, aud, voice, lis, pub, evt, mix>>
BY DEF Set, SetDirect, StoreWord, StoreHandle, ctlVars, audVars

LEMMA CompletionsTyped ==
    ASSUME TypeOK PROVE Completions \in Seq(Notice)
<1> DEFINE D == {k \in DOMAIN evt : Latest(evt[k])}
<1>1. DOMAIN evt = 1 .. Len(evt) /\ Len(evt) \in Nat
  BY DEF TypeOK, NoticesTyped
<1>2. IsFiniteSet(1 .. Len(evt))
  BY <1>1, FS_Interval
<1>3. IsFiniteSet(D)
  BY <1>1, <1>2, FS_Subset
<1>4. Cardinality(D) \in Nat
  BY <1>3, FS_CardinalityType
<1>5. [gen |-> slot.gen, seq |-> slot.seq] \in Notice
  BY DEF TypeOK, ClientTyped, Notice
<1> DEFINE r == [gen |-> slot.gen, seq |-> slot.seq]
<1>6. [i \in 1 .. Cardinality(D) |-> r] \in Seq(Notice)
  <2> HIDE DEF D, r
  <2>1. r \in Notice
    BY <1>5 DEF r
  <2> QED
    BY <1>4, <2>1
<1> QED
  BY <1>6 DEF Completions

LEMMA NewestTyped ==
    ASSUME NEW s \in Seq(Notice) PROVE Newest(s) \in Seq(Notice) /\ Len(Newest(s)) <= EndedCap
<1>1. EndedCap \in Nat \ {0} /\ Len(s) \in Nat
  BY SlotAssumption DEF SlotAssumption
<1>2. CASE Len(s) <= EndedCap
  BY <1>2 DEF Newest
<1>3. CASE ~(Len(s) <= EndedCap)
  <2>1. Newest(s) = SubSeq(s, Len(s) - EndedCap + 1, Len(s))
    BY <1>3 DEF Newest
  <2>2. Len(s) - EndedCap + 1 \in 1 .. Len(s) + 1
    BY <1>1, <1>3
  <2> QED
    BY <1>1, <2>1, <2>2
<1> QED
  BY <1>2, <1>3

LEMMA ClientStep ==
    ASSUME TypeOK, Next PROVE ClientTyped'
<1>0. ClientTyped
  BY DEF TypeOK
<1> USE <1>0 DEF ClientTyped
<1>1. CASE CreateSource
  <2>1. slot' = [gen |-> slot.gen + 1, inuse |-> TRUE, seq |-> 0]
        /\ app' = [app EXCEPT !.pos = 0, !.set = FALSE]
        /\ calls' = calls /\ frames' = frames
    BY <1>1 DEF CreateSource
  <2>2. slot' \in [gen : Nat, inuse : BOOLEAN, seq : Nat]
    BY <2>1
  <2>3. app' \in [frame : Nat, pos : Nat, lis : Nat, lost : BOOLEAN, set : BOOLEAN]
    BY <2>1
  <2> QED
    BY <2>1, <2>2, <2>3
<1>2. CASE DestroySource
  BY <1>2 DEF DestroySource
<1>3. CASE SetPos
  BY <1>3 DEF SetPos
<1>4. CASE SetListener
  BY <1>4 DEF SetListener
<1>5. CASE Play
  BY <1>5 DEF Play, Rolled
<1>6. CASE Stop \/ Poll \/ BeginBlock
  BY <1>6 DEF Stop, Poll, BeginBlock, ctlVars
<1>7. CASE Commit
  <2>1. <<slot.gen, app.pos, app.lis>> \in Nat \X Nat \X Nat
    OBVIOUS
  <2>2. frames' \subseteq Nat \X Nat \X Nat
    BY <1>7, <2>1 DEF Commit
  <2>3. app' = [app EXCEPT !.frame = @ + 1] \/ app' = [app EXCEPT !.frame = @]
    BY <1>7 DEF Commit
  <2>4. app' \in [frame : Nat, pos : Nat, lis : Nat, lost : BOOLEAN, set : BOOLEAN]
    BY <2>3
  <2>5. slot' = slot /\ calls' = calls
    BY <1>7 DEF Commit
  <2> QED
    BY <2>2, <2>4, <2>5
<1>8. CASE Set
  <2>1. PICK p \in Publisher : SetDirect(p) \/ StoreWord(p) \/ StoreHandle(p)
    BY <1>8 DEF Set
  <2>2. calls' = calls /\ slot' = slot /\ frames' = frames
    BY <1>8, SetElse
  <2>3. app' = app \/ app' = [app EXCEPT !.set = @ \/ p = "manual"]
    BY <2>1 DEF SetDirect, StoreWord, StoreHandle, ctlVars
  <2>4. app' \in [frame : Nat, pos : Nat, lis : Nat, lost : BOOLEAN, set : BOOLEAN]
    BY <2>3
  <2> QED
    BY <2>2, <2>4
<1>9. CASE Drain \/ Mix
  BY <1>9, DrainElse, MixElse
<1> QED
  BY <1>1, <1>2, <1>3, <1>4, <1>5, <1>6, <1>7, <1>8, <1>9 DEF Next, Control

LEMMA RingStep ==
    ASSUME TypeOK, Next PROVE RingTyped'
<1>0. RingTyped
  BY DEF TypeOK
<1>1. CASE Control
  <2>1. aud' = aud /\ (cmd' = cmd \/ \E c \in Command : cmd' = Append(cmd, c))
    BY <1>1, ControlRing
  <2>2. CASE cmd' = cmd
    BY <1>0, <2>1, <2>2 DEF RingTyped
  <2>3. CASE \E c \in Command : cmd' = Append(cmd, c)
    <3>1. PICK c \in Command : cmd' = Append(cmd, c)
      BY <2>3
    <3>2. cmd' \in Seq(Command) /\ Len(cmd') = Len(cmd) + 1 /\ Len(cmd) \in Nat
      BY <1>0, <3>1 DEF RingTyped
    <3> QED
      BY <1>0, <2>1, <3>2 DEF RingTyped
  <2> QED
    BY <2>1, <2>2, <2>3
<1>2. CASE Set
  BY <1>0, <1>2, SetElse DEF RingTyped
<1>3. CASE BeginBlock
  BY <1>0, <1>3 DEF BeginBlock, RingTyped
<1>4. CASE Drain
  <2>1. CASE Took
    BY <1>0, <2>1 DEF Took, RingTyped
  <2>2. CASE EndDrain
    <3>1. Len(cmd) \in Nat /\ aud.todo \in Nat /\ aud.todo <= Len(cmd)
      BY <1>0 DEF RingTyped
    <3>2. cmd' \in Seq(Command)
      <4>1. cmd' = SubSeq(cmd, aud.todo + 1, Len(cmd)) /\ cmd \in Seq(Command)
        BY <1>0, <2>2 DEF EndDrain, RingTyped
      <4> QED
        BY <3>1, <4>1
    <3>3. aud' = [pc |-> "mix", todo |-> 0, n |-> 0] \/ aud' = [pc |-> "publish", todo |-> 0, n |-> 0]
      BY <2>2 DEF EndDrain
    <3>4. Len(cmd') \in Nat
      BY <3>2
    <3> QED
      BY <3>2, <3>3, <3>4 DEF RingTyped
  <2> QED
    BY <1>4, <2>1, <2>2, DrainRing
<1>5. CASE Mix
  <2>1. cmd' = cmd
    BY <1>5, MixElse
  <2>2. \E q \in {"read", "mixing", "publish", "idle"} : aud' = [aud EXCEPT !.pc = q] /\ aud.pc # "drain"
    BY <1>5 DEF Mix, MixLook, MixRead, MixOn, MixStopped, MixEnd, Publish
  <2> QED
    BY <1>0, <2>1, <2>2 DEF RingTyped
<1> QED
  BY <1>1, <1>2, <1>3, <1>4, <1>5 DEF Next

LEMMA FirstTyped ==
    ASSUME RingTyped, aud.pc = "drain", aud.n < aud.todo
    PROVE  /\ Next1 \in Command /\ Next1.gen \in Nat /\ Next1.n \in Nat
           /\ aud.n + 1 \in Waiting
<1>1. aud.n \in Nat /\ aud.todo \in Nat /\ Len(cmd) \in Nat /\ cmd \in Seq(Command) /\ aud.todo <= Len(cmd)
  BY DEF RingTyped
<1>2. aud.n + 1 \in 1 .. Len(cmd) /\ aud.n + 1 \in aud.n + 1 .. Len(cmd)
  BY <1>1
<1>3. cmd[aud.n + 1] \in Command
  BY <1>1, <1>2
<1> QED
  BY <1>2, <1>3 DEF Next1, Command, Waiting

LEMMA VoiceStep ==
    ASSUME TypeOK, Next PROVE VoiceTyped'
<1>0. VoiceTyped /\ RingTyped
  BY DEF TypeOK
<1>11. aud.pc = "drain" /\ aud.n < aud.todo => Next1.gen \in Nat /\ Next1.n \in Nat
  BY <1>0, FirstTyped
<1>1. CASE Control \/ Set \/ BeginBlock \/ MixLook \/ MixRead \/ MixOn
  BY <1>0, <1>1, ControlElse, SetElse DEF VoiceTyped, BeginBlock, MixLook, MixRead, MixOn
<1>2. CASE DrainCreate
  BY <1>0, <1>2, <1>11 DEF DrainCreate, At, Drained, VoiceTyped
<1>3. CASE DrainDestroy
  BY <1>0, <1>3 DEF DrainDestroy, Drained, VoiceTyped
<1>4. CASE DrainSetPos
  BY <1>0, <1>4, <1>11 DEF DrainSetPos, At, Moved, Drained, VoiceTyped
<1>5. CASE DrainSetListener
  BY <1>0, <1>5, <1>11 DEF DrainSetListener, At, Drained, VoiceTyped
<1>6. CASE DrainCommit
  BY <1>0, <1>6 DEF DrainCommit, Drained, VoiceTyped
<1>7. CASE DrainPlay
  BY <1>0, <1>7, <1>11 DEF DrainPlay, At, Drained, VoiceTyped
<1>8. CASE DrainStop
  BY <1>0, <1>8 DEF DrainStop, Drained, VoiceTyped
<1>9. CASE EndDrain \/ MixStopped \/ MixEnd
  BY <1>0, <1>9 DEF EndDrain, MixStopped, MixEnd, VoiceTyped
<1>10. CASE Publish
  BY <1>0, <1>10 DEF Publish, VoiceTyped
<1> QED
  BY <1>1, <1>2, <1>3, <1>4, <1>5, <1>6, <1>7, <1>8, <1>9, <1>10 DEF Next, Drain, Mix

LEMMA NoticesStep ==
    ASSUME TypeOK, Next PROVE NoticesTyped'
<1>0. NoticesTyped
  BY DEF TypeOK
<1>1. CASE Commit
  <2>1. ended \o Completions \in Seq(Notice)
    BY <1>0, CompletionsTyped DEF NoticesTyped
  <2>2. ended' = Newest(ended \o Completions) /\ evt' = <<>>
    BY <1>1 DEF Commit
  <2>3. ended' \in Seq(Notice) /\ Len(ended') <= EndedCap
    BY <2>1, <2>2, NewestTyped
  <2>4. evt' \in Seq(Notice)
    BY <2>2
  <2> QED
    BY <2>3, <2>4 DEF NoticesTyped
<1>2. CASE Poll
  BY <1>0, <1>2, SlotAssumption DEF Poll, NoticesTyped, SlotAssumption
<1>3. CASE MixEnd
  <2>1. [gen |-> voice.gen, seq |-> voice.seq] \in Notice
    BY DEF TypeOK, VoiceTyped, Notice
  <2>2. evt' = evt \/ evt' = Append(evt, [gen |-> voice.gen, seq |-> voice.seq])
    BY <1>3 DEF MixEnd
  <2>3. evt' \in Seq(Notice)
    BY <1>0, <2>1, <2>2 DEF NoticesTyped
  <2> QED
    BY <1>0, <1>3, <2>3 DEF MixEnd, NoticesTyped, ctlVars
<1>4. CASE UNCHANGED <<evt, ended>>
  BY <1>0, <1>4 DEF NoticesTyped
<1>5. Next => Commit \/ Poll \/ MixEnd \/ UNCHANGED <<evt, ended>>
  BY SetElse, DrainElse DEF Next, Control, CreateSource, DestroySource, SetPos, SetListener, Play, Stop,
     BeginBlock, Mix, MixLook, MixRead, MixOn, MixStopped, Publish, ctlVars
<1> QED
  BY <1>1, <1>2, <1>3, <1>4, <1>5

LEMMA OccStep ==
    ASSUME TypeOK, Next PROVE OccTyped'
<1>0. OccTyped
  BY DEF TypeOK
<1>1. CASE Control
  BY <1>0, <1>1, ControlElse DEF OccTyped
<1>2. CASE Set
  <2>1. PICK p \in Publisher : SetDirect(p) \/ StoreWord(p) \/ StoreHandle(p)
    BY <1>2 DEF Set
  <2>2. setter[p].gen \in Nat /\ slot.gen \in Nat /\ mix' = mix
    BY <1>0, <1>2, SetElse DEF OccTyped, TypeOK, ClientTyped
  <2>3. CASE SetDirect(p)
    BY <1>0, <2>2, <2>3 DEF SetDirect, OccTyped
  <2>4. CASE StoreWord(p)
    BY <1>0, <2>2, <2>4 DEF StoreWord, Stores, OccTyped
  <2>5. CASE StoreHandle(p)
    BY <1>0, <2>2, <2>5 DEF StoreHandle, Stores, Quiet, OccTyped
  <2> QED
    BY <2>1, <2>3, <2>4, <2>5
<1>3. CASE BeginBlock
  BY <1>0, <1>3 DEF BeginBlock, OccTyped
<1>4. CASE Drain
  <2>1. occ' = occ \/ occ' = Clear
    BY <1>4 DEF Drain, DrainCreate, DrainDestroy, DrainSetPos, DrainSetListener, DrainCommit, DrainPlay,
                DrainStop, EndDrain
  <2> QED
    BY <1>0, <1>4, <2>1, DrainElse DEF OccTyped, Clear
<1>5. CASE Mix
  <2>1. occ' = occ /\ setter' = setter
    BY <1>5, MixElse
  <2>2. CASE MixLook
    <3>1. PICK b \in BOOLEAN : b = (occ.h = voice.gen)
      OBVIOUS
    <3>2. mix' = [mix EXCEPT !.mine = b]
      BY <2>2, <3>1 DEF MixLook
    <3> QED
      BY <1>0, <2>1, <3>2 DEF OccTyped
  <2>3. CASE MixRead
    BY <1>0, <2>1, <2>3 DEF MixRead, OccTyped
  <2>4. CASE MixOn \/ MixStopped \/ MixEnd \/ Publish
    <3>1. mix' = mix \/ mix' = Unread
      BY <2>4 DEF MixOn, MixStopped, MixEnd, Publish
    <3>0. mix \in [mine : BOOLEAN, w : Nat]
      BY <1>0 DEF OccTyped
    <3>3. Unread \in [mine : BOOLEAN, w : Nat]
      BY DEF Unread
    <3>2. mix' \in [mine : BOOLEAN, w : Nat]
      BY <3>0, <3>3, <3>1
    <3> QED
      BY <1>0, <2>1, <3>2 DEF OccTyped
  <2> QED
    BY <1>5, <2>2, <2>3, <2>4 DEF Mix
<1> QED
  BY <1>1, <1>2, <1>3, <1>4, <1>5 DEF Next

LEMMA StepTyped ==
    ASSUME TypeOK, [Next]_vars PROVE TypeOK'
<1>1. CASE Next
  BY <1>1, ClientStep, RingStep, VoiceStep, NoticesStep, OccStep DEF TypeOK
<1>2. CASE UNCHANGED vars
  <2>1. UNCHANGED <<calls, slot, app, frames, ended, cmd, aud, voice, lis, pub, evt, occ, setter, mix>>
    BY <1>2 DEF vars, ctlVars, audVars
  <2>2. ClientTyped' /\ RingTyped'
    BY <2>1 DEF TypeOK, ClientTyped, RingTyped
  <2>3. VoiceTyped' /\ NoticesTyped' /\ OccTyped'
    BY <2>1 DEF TypeOK, VoiceTyped, NoticesTyped, OccTyped
  <2> QED
    BY <2>2, <2>3 DEF TypeOK
<1> QED
  BY <1>1, <1>2

-----------------------------------------------------------------------------
(* The ring: what a step leaves waiting in it, and that the voice follows the slot. *)

LEMMA WaitingTyped ==
    ASSUME RingTyped
    PROVE  /\ Len(cmd) \in Nat /\ aud.n \in Nat
           /\ \A k \in Waiting : k \in Nat /\ k >= aud.n + 1 /\ k <= Len(cmd)
           /\ \A k \in Waiting : /\ cmd[k] \in Command /\ cmd[k].t \in CmdNames
                                  /\ cmd[k].gen \in Nat /\ cmd[k].n \in Nat
<1>1. Len(cmd) \in Nat /\ aud.n \in Nat /\ cmd \in Seq(Command)
  BY DEF RingTyped
<1>2. ASSUME NEW k \in Waiting PROVE k \in Nat /\ k >= aud.n + 1 /\ k <= Len(cmd) /\ cmd[k] \in Command
  <2>1. k \in aud.n + 1 .. Len(cmd)
    BY DEF Waiting
  <2>2. k \in 1 .. Len(cmd)
    BY <1>1, <2>1
  <2> QED
    BY <1>1, <2>1, <2>2
<1> QED
  BY <1>1, <1>2 DEF Command

LEMMA RingStays ==
    ASSUME Kept
    PROVE  Waiting' = Waiting /\ cmd' = cmd
BY DEF Waiting, Kept

LEMMA RingGrows ==
    ASSUME RingTyped, NEW c \in Command, Grew(c)
    PROVE  /\ Len(cmd') = Len(cmd) + 1 /\ Len(cmd) \in Nat
           /\ Waiting' = Waiting \cup {Len(cmd) + 1} /\ Len(cmd) + 1 \notin Waiting
           /\ cmd'[Len(cmd) + 1] = c
           /\ \A k \in Waiting : cmd'[k] = cmd[k] /\ k \in Nat /\ k < Len(cmd) + 1
<1>1. Len(cmd) \in Nat /\ aud.n \in Nat /\ cmd \in Seq(Command) /\ aud.n <= Len(cmd)
  BY DEF RingTyped
<1>2. Len(cmd') = Len(cmd) + 1 /\ cmd'[Len(cmd) + 1] = c /\ \A k \in 1 .. Len(cmd) : cmd'[k] = cmd[k]
  BY <1>1 DEF Grew
<1>3. Waiting' = Waiting \cup {Len(cmd) + 1}
  <2>1. aud'.n = aud.n
    BY DEF Grew
  <2> QED
    BY <1>1, <1>2, <2>1 DEF Waiting
<1>4. \A k \in Waiting : k \in 1 .. Len(cmd)
  BY <1>1 DEF Waiting
<1> QED
  BY <1>1, <1>2, <1>3, <1>4

LEMMA RingTakes ==
    ASSUME RingTyped, Took
    PROVE  /\ Waiting' = Waiting \ {aud.n + 1} /\ aud.n + 1 \in Waiting
           /\ \A k \in Waiting : k \in Nat /\ k >= aud.n + 1
           /\ aud.n + 1 \in Nat /\ cmd' = cmd
<1>1. Len(cmd) \in Nat /\ aud.n \in Nat /\ aud.n < Len(cmd)
  BY DEF RingTyped, Took
<1>2. aud'.n = aud.n + 1 /\ cmd' = cmd
  BY DEF RingTyped, Took
<1> QED
  BY <1>1, <1>2 DEF Waiting

LEMMA RingMoves ==
    ASSUME RingTyped, EndDrain
    PROVE  /\ aud.n \in Nat /\ Len(cmd) \in Nat /\ Len(cmd') = Len(cmd) - aud.n
           /\ \A k \in Waiting' : k \in Nat /\ k + aud.n \in Waiting /\ cmd'[k] = cmd[k + aud.n]
           /\ \A k \in Waiting : k \in Nat /\ k - aud.n \in Waiting' /\ cmd'[k - aud.n] = cmd[k]
<1>1. Len(cmd) \in Nat /\ aud.n \in Nat /\ aud.n <= Len(cmd) /\ cmd \in Seq(Command)
  BY DEF RingTyped
<1>2. cmd' = SubSeq(cmd, aud.n + 1, Len(cmd)) /\ aud'.n = 0
  BY DEF EndDrain
<1>3. /\ Len(cmd') = Len(cmd) - aud.n
      /\ \A k \in 1 .. Len(cmd) - aud.n : cmd'[k] = cmd[k + aud.n]
  <2>1. SubSeq(cmd, aud.n + 1, Len(cmd)) = [i \in 1 .. Len(cmd) - aud.n |-> cmd[i + aud.n]]
    BY <1>1
  <2>2. cmd' \in Seq(Command)
    BY <1>1, <1>2
  <2> QED
    BY <1>1, <1>2, <2>1, <2>2
<1>4. Waiting' = 1 .. Len(cmd) - aud.n
  BY <1>1, <1>2, <1>3 DEF Waiting
<1>5. Waiting = aud.n + 1 .. Len(cmd)
  BY DEF Waiting
<1>6. \A k \in Waiting' : k \in Nat /\ k + aud.n \in Waiting /\ cmd'[k] = cmd[k + aud.n]
  BY <1>1, <1>3, <1>4, <1>5
<1>7. ASSUME NEW k \in Waiting
      PROVE  k \in Nat /\ k - aud.n \in Waiting' /\ cmd'[k - aud.n] = cmd[k]
  <2>1. k \in Nat /\ k - aud.n \in 1 .. Len(cmd) - aud.n /\ (k - aud.n) + aud.n = k
    BY <1>1, <1>5
  <2> QED
    BY <1>3, <1>4, <2>1
<1> QED
  BY <1>1, <1>3, <1>6, <1>7

\* A step that lets no slot and gives no voice away.
LetsFields ==
    /\ slot'.gen = slot.gen /\ (slot'.inuse => slot.inuse)
    /\ voice'.gen = voice.gen /\ pub'.gen \in {pub.gen, voice.gen}

LEMMA LetsTypes ==
    ASSUME TypeOK PROVE slot.gen \in Nat /\ voice.gen \in Nat /\ pub.gen \in Nat
BY DEF TypeOK, ClientTyped, VoiceTyped

LEMMA LetsStay ==
    ASSUME TypeOK, Lets, Kept, LetsFields, voice'.active = voice.active
    PROVE  Lets'
BY LetsTypes, RingStays DEF Lets, LetsFields, IsA

LEMMA LetsGrow ==
    ASSUME TypeOK, Lets, LetsFields, NEW c \in Command, Grew(c),
           voice'.active = voice.active, c.t # "CREATE", c.t # "DESTROY" \/ ~slot'.inuse,
           c.gen = slot.gen \/ (c.gen = 0 /\ c.t \notin OfVoice)
    PROVE  Lets'
<1> DEFINE e == Len(cmd) + 1
<1>1. /\ Waiting' = Waiting \cup {e} /\ e \notin Waiting /\ cmd'[e] = c
      /\ \A k \in Waiting : cmd'[k] = cmd[k] /\ k \in Nat /\ k < e
      /\ e \in Nat
  <2>1. RingTyped
    BY DEF TypeOK
  <2> QED
    BY <2>1, RingGrows
<1>2. slot.gen \in Nat /\ voice.gen \in Nat /\ pub.gen \in Nat
  BY LetsTypes
<1>0. c.gen \in Nat /\ c.gen <= slot.gen
  BY <1>2
<1> HIDE DEF e
<1>3. ASSUME NEW k \in Waiting' PROVE cmd'[k].gen <= slot'.gen
  <2>1. CASE k = e
    BY <1>1, <1>0, <2>1 DEF LetsFields
  <2>2. CASE k \in Waiting
    BY <1>1, <2>2 DEF Lets, LetsFields
  <2> QED
    BY <1>1, <2>1, <2>2
<1>4. \A k \in Waiting' : cmd'[k].t = "CREATE" => cmd'[k].gen > voice'.gen
  BY <1>1, <1>2 DEF Lets, LetsFields
<1>5. ASSUME NEW j \in Waiting', NEW k \in Waiting', j < k, cmd'[j].t = "CREATE", cmd'[k].t = "CREATE"
      PROVE  cmd'[j].gen < cmd'[k].gen
  <2>1. j \in Waiting /\ k \in Waiting
    BY <1>1, <1>5
  <2> QED
    BY <1>1, <1>5, <2>1 DEF Lets
<1>6. voice'.gen = slot'.gen \/ \E k \in Waiting' : cmd'[k].t = "CREATE" /\ cmd'[k].gen = slot'.gen
  BY <1>1, <1>2 DEF Lets, LetsFields, IsA
<1>7. ASSUME NEW k \in Waiting', cmd'[k].t \in OfVoice
      PROVE  cmd'[k].gen <= voice'.gen \/ \E j \in Waiting' : j < k /\ IsA(j, "CREATE", cmd[k].gen)'
  <2>1. CASE k = e
    <3>1. c.gen = slot.gen
      BY <1>1, <1>7, <2>1
    <3>2. CASE voice.gen = slot.gen
      <4>1. cmd'[k].gen = voice'.gen
        BY <1>1, <2>1, <3>1, <3>2 DEF LetsFields
      <4> QED
        BY <1>2, <3>1, <4>1, <1>1, <2>1
    <3>3. CASE \E j \in Waiting : IsA(j, "CREATE", slot.gen)
      BY <1>1, <2>1, <3>1, <3>3 DEF IsA
    <3> QED
      BY <3>2, <3>3 DEF Lets
  <2>2. CASE k \in Waiting
    <3>1. cmd'[k] = cmd[k]
      BY <1>1, <2>2
    <3>2. CASE cmd[k].gen <= voice.gen
      BY <3>1, <3>2 DEF LetsFields
    <3>3. CASE \E j \in Waiting : j < k /\ IsA(j, "CREATE", cmd[k].gen)
      BY <1>1, <3>1, <3>3 DEF IsA
    <3> QED
      BY <1>7, <2>2, <3>1, <3>2, <3>3 DEF Lets
  <2> QED
    BY <1>1, <2>1, <2>2
<1>8. ASSUME slot'.inuse
      PROVE  /\ \A k \in Waiting' : ~IsA(k, "DESTROY", slot.gen)'
             /\ voice'.gen = slot'.gen => voice'.active
  <2>1. slot.inuse /\ c.t # "DESTROY"
    BY <1>8 DEF LetsFields
  <2>2. voice.gen = slot.gen => voice.active
    BY <2>1 DEF Lets
  <2>3. ASSUME NEW k \in Waiting' PROVE ~(cmd'[k].t = "DESTROY" /\ cmd'[k].gen = slot'.gen)
    <3>1. CASE k = e
      BY <1>1, <2>1, <3>1
    <3>2. CASE k \in Waiting
      BY <1>1, <2>1, <3>2 DEF Lets, LetsFields, IsA
    <3> QED
      BY <1>1, <3>1, <3>2
  <2> QED
    BY <2>2, <2>3 DEF LetsFields, IsA
<1>9. voice'.gen <= slot'.gen /\ pub'.gen <= voice'.gen
  BY <1>2 DEF Lets, LetsFields
<1> QED
  BY <1>3, <1>4, <1>5, <1>6, <1>7, <1>8, <1>9 DEF Lets, IsA

LEMMA LetsTake ==
    ASSUME TypeOK, Lets, LetsFields, Took, Next1.t # "CREATE",
           voice'.active = voice.active \/ IsA(aud.n + 1, "DESTROY", voice.gen)
    PROVE  Lets'
<1> DEFINE e == aud.n + 1
<1>1. /\ Waiting' = Waiting \ {e} /\ e \in Waiting /\ cmd' = cmd
      /\ \A k \in Waiting : k \in Nat /\ k >= e
      /\ e \in Nat /\ cmd[e].t # "CREATE"
  BY RingTakes DEF TypeOK, Next1
<1>2. slot.gen \in Nat /\ voice.gen \in Nat /\ pub.gen \in Nat
  BY LetsTypes
<1>3. voice'.active = voice.active \/ (cmd[e].t = "DESTROY" /\ cmd[e].gen = voice.gen)
  BY DEF IsA
<1> HIDE DEF e
<1>4. slot'.inuse /\ voice'.gen = slot'.gen => voice'.active
  BY <1>1, <1>2, <1>3 DEF Lets, LetsFields, IsA
<1>5. voice'.gen = slot'.gen \/ \E k \in Waiting' : cmd'[k].t = "CREATE" /\ cmd'[k].gen = slot'.gen
  BY <1>1, <1>2 DEF Lets, LetsFields, IsA
<1>6. \A k \in Waiting' : cmd'[k].t \in OfVoice =>
        \/ cmd'[k].gen <= voice'.gen
        \/ \E j \in Waiting' : j < k /\ cmd'[j].t = "CREATE" /\ cmd'[j].gen = cmd'[k].gen
  BY <1>1, <1>2 DEF Lets, LetsFields, IsA
<1> QED
  BY <1>1, <1>2, <1>4, <1>5, <1>6 DEF Lets, LetsFields, IsA

LEMMA LetsMove ==
    ASSUME TypeOK, Lets, LetsFields, EndDrain, voice' = voice
    PROVE  Lets'
<1> DEFINE d == aud.n
<1>1. /\ d \in Nat
      /\ \A k \in Waiting' : k \in Nat /\ k + d \in Waiting /\ cmd'[k] = cmd[k + d]
      /\ \A k \in Waiting : k \in Nat /\ k - d \in Waiting' /\ cmd'[k - d] = cmd[k]
  BY RingMoves DEF TypeOK
<1>2. slot.gen \in Nat /\ voice.gen \in Nat /\ pub.gen \in Nat
  BY LetsTypes
<1> HIDE DEF d
<1>3. \A k \in Waiting' : cmd'[k].gen <= slot'.gen
  BY <1>1, <1>2 DEF Lets, LetsFields
<1>4. \A k \in Waiting' : cmd'[k].t = "CREATE" => cmd'[k].gen > voice'.gen
  BY <1>1, <1>2 DEF Lets, LetsFields
<1>5. ASSUME NEW j \in Waiting', NEW k \in Waiting', j < k, cmd'[j].t = "CREATE", cmd'[k].t = "CREATE"
      PROVE  cmd'[j].gen < cmd'[k].gen
  <2>1. j + d \in Waiting /\ k + d \in Waiting /\ j + d < k + d /\ cmd'[j] = cmd[j + d] /\ cmd'[k] = cmd[k + d]
    BY <1>1, <1>5
  <2> QED
    BY <1>5, <2>1 DEF Lets
<1>6. voice'.gen = slot'.gen \/ \E k \in Waiting' : IsA(k, "CREATE", slot.gen)'
  <2>1. CASE voice.gen = slot.gen
    BY <2>1 DEF LetsFields
  <2>2. CASE \E k \in Waiting : IsA(k, "CREATE", slot.gen)
    <3>1. PICK k \in Waiting : IsA(k, "CREATE", slot.gen)
      BY <2>2
    <3>2. k - d \in Waiting' /\ cmd'[k - d] = cmd[k]
      BY <1>1
    <3> QED
      BY <3>1, <3>2 DEF IsA, LetsFields
  <2> QED
    BY <2>1, <2>2 DEF Lets
<1>7. ASSUME NEW k \in Waiting', cmd'[k].t \in OfVoice
      PROVE  cmd'[k].gen <= voice'.gen \/ \E j \in Waiting' : j < k /\ IsA(j, "CREATE", cmd[k].gen)'
  <2>1. k \in Nat /\ k + d \in Waiting /\ cmd'[k] = cmd[k + d]
    BY <1>1
  <2>2. CASE cmd[k + d].gen <= voice.gen
    BY <2>1, <2>2 DEF LetsFields
  <2>3. CASE \E j \in Waiting : j < k + d /\ IsA(j, "CREATE", cmd[k + d].gen)
    <3>1. PICK j \in Waiting : j < k + d /\ IsA(j, "CREATE", cmd[k + d].gen)
      BY <2>3
    <3>2. j \in Nat /\ j - d \in Waiting' /\ cmd'[j - d] = cmd[j]
      BY <1>1
    <3>3. j - d < k
      BY <1>1, <2>1, <3>1, <3>2
    <3> QED
      BY <2>1, <3>1, <3>2, <3>3 DEF IsA
  <2> QED
    BY <1>7, <2>1, <2>2, <2>3 DEF Lets
<1>8. slot'.inuse => /\ \A k \in Waiting' : ~(cmd'[k].t = "DESTROY" /\ cmd'[k].gen = slot'.gen)
                     /\ voice'.gen = slot'.gen => voice'.active
  BY <1>1, <1>2 DEF Lets, LetsFields, IsA
<1>9. voice'.gen <= slot'.gen /\ pub'.gen <= voice'.gen
  BY <1>2 DEF Lets, LetsFields
<1> QED
  BY <1>3, <1>4, <1>5, <1>6, <1>7, <1>8, <1>9 DEF Lets, IsA

-----------------------------------------------------------------------------
(* What a step does, by its kind: to the ring, the client's side and the voice. *)

LEMMA CmdFields ==
    ASSUME NEW t, NEW g, NEW n
    PROVE  Cmd(t, g, n).t = t /\ Cmd(t, g, n).gen = g /\ Cmd(t, g, n).n = n
BY DEF Cmd

\* What each call does, in the terms of the proof.
LEMMA PushEffect ==
    ASSUME NEW c, Push(c), aud' = aud
    PROVE  IF Room THEN Grew(c) ELSE Kept
BY DEF Push, Grew, Kept

LEMMA CreateEffect ==
    ASSUME TypeOK, CreateSource
    PROVE  \E c \in Command : /\ c.t = "CREATE" /\ c.gen = slot.gen + 1 /\ Grew(c)
                              /\ slot'.gen = slot.gen + 1 /\ slot'.inuse = TRUE /\ slot'.seq = 0
                              /\ app'.pos = 0 /\ app'.lis = app.lis /\ app'.lost = app.lost
                              /\ frames' = frames /\ UNCHANGED <<ended, audVars, evt, mix>>
<1> DEFINE c == Cmd("CREATE", slot.gen + 1, 0)
<1>1. slot.gen + 1 \in Nat
  BY DEF TypeOK, ClientTyped
<1>2. c \in Command /\ c.t = "CREATE" /\ c.gen = slot.gen + 1
  BY <1>1, CmdTyped DEF CmdNames
<1>3. Grew(c)
  BY DEF CreateSource, Grew, audVars
<1>4. app'.pos = 0 /\ app'.lis = app.lis /\ app'.lost = app.lost
  BY DEF CreateSource, TypeOK, ClientTyped
<1>5. slot'.gen = slot.gen + 1 /\ slot'.inuse = TRUE /\ slot'.seq = 0 /\ frames' = frames
      /\ UNCHANGED <<ended, audVars, evt, mix>>
  BY DEF CreateSource
<1> HIDE DEF c
<1> QED
  BY <1>2, <1>3, <1>4, <1>5

\* Every other call appends one command of the current let, or of none, or leaves the ring alone.
Calls1(c) ==
    \/ /\ c.t = "DESTROY" /\ c.gen = slot.gen /\ ~slot'.inuse /\ slot'.seq = slot.seq
       /\ app' = app /\ frames' = frames
    \/ /\ c.t = "SET_POS" /\ c.gen = slot.gen /\ c.n = app.frame /\ slot' = slot /\ frames' = frames
       /\ app' = [app EXCEPT !.pos = app.frame, !.lost = @ \/ ~Room]
    \/ /\ c.t = "SET_LISTENER" /\ c.gen = 0 /\ c.n = app.frame /\ slot' = slot /\ frames' = frames
       /\ app' = [app EXCEPT !.lis = app.frame, !.lost = @ \/ ~Room]
    \/ /\ c.t = "PLAY" /\ c.gen = slot.gen /\ c.n = slot.seq + 1 /\ app' = app /\ frames' = frames
       /\ slot' = [slot EXCEPT !.seq = IF Room THEN @ + 1 ELSE @]
    \/ c.t = "STOP" /\ c.gen = slot.gen /\ slot' = slot /\ app' = app /\ frames' = frames
    \/ /\ c.t = "COMMIT" /\ c.gen = 0 /\ slot' = slot
       /\ frames' = (IF Room THEN frames \cup {<<slot.gen, app.pos, app.lis>>} ELSE frames)
       /\ app'.pos = app.pos /\ app'.lis = app.lis /\ app'.lost = app.lost

LEMMA CallEffect ==
    ASSUME TypeOK, Control, ~CreateSource, ~Poll
    PROVE  \E c \in Command : /\ Calls1(c) /\ (IF Room THEN Grew(c) ELSE Kept)
                              /\ UNCHANGED <<audVars, mix>>
<1> DEFINE Goal == \E c \in Command : /\ Calls1(c) /\ (IF Room THEN Grew(c) ELSE Kept)
                                      /\ UNCHANGED <<audVars, mix>>
<1>0. slot.gen \in Nat /\ slot.seq + 1 \in Nat /\ app.frame \in Nat
  BY DEF TypeOK, ClientTyped
<1>7. UNCHANGED <<audVars, mix>> /\ aud' = aud
  BY DEF Control, CreateSource, DestroySource, SetPos, SetListener, Play, Stop, Commit, Poll, audVars
<1> USE DEF CmdNames
<1>1. CASE DestroySource
  <2> DEFINE c == Cmd("DESTROY", slot.gen, 0)
  <2>1. c \in Command /\ c.t = "DESTROY" /\ c.gen = slot.gen
    BY <1>0, CmdTyped
  <2>2. ~slot'.inuse /\ slot'.seq = slot.seq /\ app' = app /\ frames' = frames
    BY <1>1 DEF DestroySource, TypeOK, ClientTyped
  <2>3. Room /\ Grew(c)
    BY <1>1, <1>7 DEF DestroySource, Grew
  <2> HIDE DEF c
  <2> QED
    BY <2>1, <2>2, <2>3, <1>7 DEF Calls1
<1>2. CASE SetPos
  <2> DEFINE c == Cmd("SET_POS", slot.gen, app.frame)
  <2>1. c \in Command /\ c.t = "SET_POS" /\ c.gen = slot.gen /\ c.n = app.frame
    BY <1>0, CmdTyped
  <2>2. /\ slot' = slot /\ frames' = frames
        /\ app' = [app EXCEPT !.pos = app.frame, !.lost = @ \/ ~Room] /\ Push(c)
    BY <1>2 DEF SetPos
  <2> HIDE DEF c
  <2>3. IF Room THEN Grew(c) ELSE Kept
    BY <1>7, <2>2, PushEffect
  <2> QED
    BY <2>1, <2>2, <2>3, <1>7 DEF Calls1
<1>3. CASE SetListener
  <2> DEFINE c == Cmd("SET_LISTENER", 0, app.frame)
  <2>1. c \in Command /\ c.t = "SET_LISTENER" /\ c.gen = 0 /\ c.n = app.frame
    BY <1>0, CmdTyped
  <2>2. /\ slot' = slot /\ frames' = frames
        /\ app' = [app EXCEPT !.lis = app.frame, !.lost = @ \/ ~Room] /\ Push(c)
    BY <1>3 DEF SetListener
  <2> HIDE DEF c
  <2>3. IF Room THEN Grew(c) ELSE Kept
    BY <1>7, <2>2, PushEffect
  <2> QED
    BY <2>1, <2>2, <2>3, <1>7 DEF Calls1
<1>4. CASE Play
  <2> DEFINE c == Cmd("PLAY", slot.gen, slot.seq + 1)
  <2>1. c \in Command /\ c.t = "PLAY" /\ c.gen = slot.gen /\ c.n = slot.seq + 1
    BY <1>0, CmdTyped
  <2>2. app' = app /\ frames' = frames /\ slot' = [slot EXCEPT !.seq = IF Room THEN @ + 1 ELSE @] /\ Push(c)
    BY <1>4 DEF Play, Rolled
  <2> HIDE DEF c
  <2>3. IF Room THEN Grew(c) ELSE Kept
    BY <1>7, <2>2, PushEffect
  <2> QED
    BY <2>1, <2>2, <2>3, <1>7 DEF Calls1
<1>5. CASE Stop
  <2> DEFINE c == Cmd("STOP", slot.gen, 0)
  <2>1. c \in Command /\ c.t = "STOP" /\ c.gen = slot.gen
    BY <1>0, CmdTyped
  <2>2. slot' = slot /\ app' = app /\ frames' = frames
    BY <1>5 DEF Stop, ctlVars
  <2>3. Room /\ Grew(c)
    BY <1>5, <1>7 DEF Stop, Grew
  <2> HIDE DEF c
  <2> QED
    BY <2>1, <2>2, <2>3, <1>7 DEF Calls1
<1>6. CASE Commit
  <2> DEFINE c == Cmd("COMMIT", 0, 0)
  <2>1. c \in Command /\ c.t = "COMMIT" /\ c.gen = 0
    BY <1>0, CmdTyped
  <2>2. slot' = slot /\ Push(c)
        /\ frames' = (IF Room THEN frames \cup {<<slot.gen, app.pos, app.lis>>} ELSE frames)
    BY <1>6 DEF Commit
  <2>3. app'.pos = app.pos /\ app'.lis = app.lis /\ app'.lost = app.lost
    BY <1>6 DEF Commit, TypeOK, ClientTyped
  <2> HIDE DEF c
  <2>4. IF Room THEN Grew(c) ELSE Kept
    BY <1>7, <2>2, PushEffect
  <2> QED
    BY <2>1, <2>2, <2>3, <2>4, <1>7 DEF Calls1
<1> QED
  BY <1>1, <1>2, <1>3, <1>4, <1>5, <1>6 DEF Control

\* What a drained command does to the voice.
TookCreate ==
    /\ Next1.t = "CREATE" /\ voice'.gen = Next1.gen /\ voice'.active /\ ~voice'.playing
    /\ voice'.seq = 0 /\ voice'.pend = 0 /\ voice'.pos = 0 /\ lis' = lis
TookDestroy ==
    /\ Next1.t = "DESTROY" /\ lis' = lis
    /\ voice' = (IF Mine THEN [voice EXCEPT !.active = FALSE, !.playing = FALSE] ELSE voice)
TookSetPos ==
    /\ Next1.t = "SET_POS" /\ lis' = lis
    /\ voice' = (IF Mine THEN [voice EXCEPT !.pend = Next1.n] ELSE voice)
TookSetListener ==
    Next1.t = "SET_LISTENER" /\ voice' = voice /\ lis' = [lis EXCEPT !.pend = Next1.n]
TookCommit ==
    /\ Next1.t = "COMMIT" /\ lis' = [lis EXCEPT !.pos = lis.pend]
    /\ voice' = (IF voice.active THEN [voice EXCEPT !.pos = voice.pend] ELSE voice)
TookPlay ==
    /\ Next1.t = "PLAY" /\ lis' = lis
    /\ voice' = (IF Mine THEN [voice EXCEPT !.playing = TRUE, !.stopping = FALSE, !.seq = Next1.n] ELSE voice)
TookStop ==
    /\ Next1.t = "STOP" /\ lis' = lis
    /\ voice' = (IF Mine THEN [voice EXCEPT !.stopping = voice.playing] ELSE voice)
DrainsTo ==
    TookCreate \/ TookDestroy \/ TookSetPos \/ TookSetListener \/ TookCommit \/ TookPlay \/ TookStop

LEMMA DrainEffect ==
    ASSUME TypeOK, Drain, ~EndDrain
    PROVE  DrainsTo /\ Took /\ UNCHANGED <<calls, slot, app, frames, ended, pub, evt, setter, mix>>
<1>1. Took /\ UNCHANGED <<calls, slot, app, frames, ended, pub, evt, setter, mix>>
  BY DrainRing, DrainElse
<1>2. CASE DrainCreate
  <2>1. TookCreate
    BY <1>2 DEF DrainCreate, At, TookCreate, Next1
  <2> QED
    BY <1>1, <2>1 DEF DrainsTo
<1>3. CASE DrainDestroy
  <2>1. TookDestroy
    BY <1>3 DEF DrainDestroy, At, TookDestroy, Next1
  <2> QED
    BY <1>1, <2>1 DEF DrainsTo
<1>4. CASE DrainSetPos
  <2>1. TookSetPos
    BY <1>4 DEF DrainSetPos, Moved, At, TookSetPos, Next1
  <2> QED
    BY <1>1, <2>1 DEF DrainsTo
<1>5. CASE DrainSetListener
  <2>1. TookSetListener
    BY <1>5 DEF DrainSetListener, At, TookSetListener, Next1
  <2> QED
    BY <1>1, <2>1 DEF DrainsTo
<1>6. CASE DrainCommit
  <2>1. TookCommit
    BY <1>6 DEF DrainCommit, At, TookCommit, Next1
  <2> QED
    BY <1>1, <2>1 DEF DrainsTo
<1>7. CASE DrainPlay
  <2>1. TookPlay
    BY <1>7 DEF DrainPlay, At, TookPlay, Next1
  <2> QED
    BY <1>1, <2>1 DEF DrainsTo
<1>8. CASE DrainStop
  <2>1. TookStop
    BY <1>8 DEF DrainStop, At, TookStop, Next1
  <2> QED
    BY <1>1, <2>1 DEF DrainsTo
<1> QED
  BY <1>1, <1>2, <1>3, <1>4, <1>5, <1>6, <1>7, <1>8 DEF Drain

LEMMA MixEffect ==
    ASSUME TypeOK, Mix
    PROVE  /\ Kept /\ UNCHANGED <<calls, slot, app, frames, ended, lis, occ, setter>>
           /\ voice'.gen = voice.gen /\ voice'.active = voice.active /\ voice'.seq = voice.seq
           /\ voice'.pend = voice.pend /\ voice'.pos = voice.pos /\ (voice'.playing => voice.playing)
           /\ pub'.gen \in {pub.gen, voice.gen} /\ aud'.pc # "drain"
<1>1. Kept
  BY DEF Mix, MixLook, MixRead, MixOn, MixStopped, MixEnd, Publish, Kept, TypeOK, RingTyped
<1>2. UNCHANGED <<calls, slot, app, frames, ended, lis, occ, setter>>
  BY MixElse
<1>3. voice' = voice \/ voice' = [voice EXCEPT !.playing = FALSE, !.stopping = FALSE]
      \/ voice' = [voice EXCEPT !.playing = FALSE]
  BY DEF Mix, MixLook, MixRead, MixOn, MixStopped, MixEnd, Publish
<1>4. pub'.gen \in {pub.gen, voice.gen}
  BY DEF Mix, MixLook, MixRead, MixOn, MixStopped, MixEnd, Publish
<1>5. aud'.pc # "drain"
  BY DEF Mix, MixLook, MixRead, MixOn, MixStopped, MixEnd, Publish, TypeOK, RingTyped
<1>6. /\ voice'.gen = voice.gen /\ voice'.active = voice.active /\ voice'.seq = voice.seq
      /\ voice'.pend = voice.pend /\ voice'.pos = voice.pos /\ (voice'.playing => voice.playing)
  BY <1>3 DEF TypeOK, VoiceTyped
<1> QED
  BY <1>1, <1>2, <1>4, <1>5, <1>6

\* The steps that leave the ring, the slot and the voice alone.
Aside == Set \/ BeginBlock \/ Poll \/ UNCHANGED vars
LEMMA AsideEffect ==
    ASSUME TypeOK, Aside
    PROVE  /\ Kept /\ UNCHANGED <<calls, slot, frames, voice, lis, pub, mix, evt>>
           /\ app'.pos = app.pos /\ app'.lis = app.lis /\ app'.lost = app.lost
<1>1. CASE Set
  <2>1. UNCHANGED <<calls, slot, frames, cmd, aud, voice, lis, pub, evt, mix>>
    BY <1>1, SetElse
  <2>2. PICK p \in Publisher : SetDirect(p) \/ StoreWord(p) \/ StoreHandle(p)
    BY <1>1 DEF Set
  <2>3. app' = app \/ app' = [app EXCEPT !.set = @ \/ p = "manual"]
    BY <2>2 DEF SetDirect, StoreWord, StoreHandle, ctlVars
  <2>4. app'.pos = app.pos /\ app'.lis = app.lis /\ app'.lost = app.lost
    BY <2>3 DEF TypeOK, ClientTyped
  <2> QED
    BY <2>1, <2>4 DEF Kept
<1>2. CASE BeginBlock
  <2>1. aud'.n = aud.n
    BY <1>2 DEF BeginBlock, TypeOK, RingTyped
  <2> QED
    BY <1>2, <2>1 DEF BeginBlock, Kept, ctlVars
<1>3. CASE Poll
  BY <1>3 DEF Poll, Kept, audVars
<1>4. CASE UNCHANGED vars
  BY <1>4 DEF vars, ctlVars, audVars, Kept
<1> QED
  BY <1>1, <1>2, <1>3, <1>4 DEF Aside

LEMMA NextKinds ==
    ASSUME [Next]_vars
    PROVE  \/ Aside \/ CreateSource \/ (Control /\ ~CreateSource /\ ~Poll) \/ (Drain /\ ~EndDrain)
           \/ EndDrain \/ Mix
BY DEF Next, Control, Drain, Aside

LEMMA EndEffect ==
    ASSUME EndDrain
    PROVE  UNCHANGED <<calls, slot, app, frames, ended, voice, lis, pub, evt, occ, setter, mix>>
BY DEF EndDrain, ctlVars

-----------------------------------------------------------------------------
(* Lets, action by action. *)

LEMMA LetsCreate ==
    ASSUME TypeOK, Lets, NEW c \in Command, Grew(c), c.t = "CREATE", c.gen = slot.gen + 1,
           slot'.gen = slot.gen + 1, voice' = voice, pub' = pub
    PROVE  Lets'
<1> DEFINE e == Len(cmd) + 1
<1>1. /\ Waiting' = Waiting \cup {e} /\ e \notin Waiting /\ cmd'[e] = c
      /\ \A k \in Waiting : cmd'[k] = cmd[k] /\ k \in Nat /\ k < e
      /\ e \in Nat
  <2>1. RingTyped
    BY DEF TypeOK
  <2> QED
    BY <2>1, RingGrows
<1>2. slot.gen \in Nat /\ voice.gen \in Nat /\ pub.gen \in Nat /\ \A k \in Waiting : cmd[k].gen \in Nat
  BY LetsTypes, WaitingTyped DEF TypeOK
<1> HIDE DEF e
<1>3. ASSUME NEW k \in Waiting' PROVE cmd'[k].gen <= slot'.gen /\ (cmd'[k].t = "CREATE" => cmd'[k].gen > voice'.gen)
  <2>1. CASE k = e
    BY <1>1, <1>2, <2>1 DEF Lets
  <2>2. CASE k \in Waiting
    BY <1>1, <1>2, <2>2 DEF Lets
  <2> QED
    BY <1>1, <2>1, <2>2
<1>4. ASSUME NEW j \in Waiting', NEW k \in Waiting', j < k, cmd'[j].t = "CREATE", cmd'[k].t = "CREATE"
      PROVE  cmd'[j].gen < cmd'[k].gen
  <2>1. j \in Waiting
    BY <1>1, <1>4
  <2>2. CASE k = e
    BY <1>1, <1>2, <2>1, <2>2 DEF Lets
  <2>3. CASE k \in Waiting
    BY <1>1, <1>4, <2>1, <2>3 DEF Lets
  <2> QED
    BY <1>1, <2>2, <2>3
<1>5. \E k \in Waiting' : IsA(k, "CREATE", slot.gen)'
  BY <1>1 DEF IsA
<1>6. ASSUME NEW k \in Waiting', cmd'[k].t \in OfVoice
      PROVE  cmd'[k].gen <= voice'.gen \/ \E j \in Waiting' : j < k /\ IsA(j, "CREATE", cmd[k].gen)'
  <2>1. k \in Waiting /\ cmd'[k] = cmd[k]
    BY <1>1, <1>6 DEF OfVoice
  <2>2. CASE \E j \in Waiting : j < k /\ IsA(j, "CREATE", cmd[k].gen)
    BY <1>1, <2>1, <2>2 DEF IsA
  <2> QED
    BY <1>6, <2>1, <2>2 DEF Lets
<1>7. ASSUME NEW k \in Waiting' PROVE ~(cmd'[k].t = "DESTROY" /\ cmd'[k].gen = slot'.gen)
  <2>1. CASE k = e
    BY <1>1, <2>1
  <2>2. CASE k \in Waiting
    <3>1. cmd'[k].gen <= slot.gen /\ cmd'[k].gen \in Nat
      BY <1>1, <1>2, <2>2 DEF Lets
    <3> QED
      BY <1>2, <3>1
  <2> QED
    BY <1>1, <2>1, <2>2
<1>8. voice'.gen < slot'.gen /\ pub'.gen <= voice'.gen /\ voice'.gen <= slot'.gen
  BY <1>2 DEF Lets
<1>9. voice'.gen # slot'.gen
  BY <1>2, <1>8
<1> QED
  BY <1>3, <1>4, <1>5, <1>6, <1>7, <1>8, <1>9 DEF Lets, IsA

LEMMA LetsTakeCreate ==
    ASSUME TypeOK, Lets, Took, slot' = slot, pub' = pub, Next1.t = "CREATE", voice'.gen = Next1.gen, voice'.active
    PROVE  Lets'
<1> DEFINE e == aud.n + 1
<1>1. /\ Waiting' = Waiting \ {e} /\ e \in Waiting /\ cmd' = cmd
      /\ \A k \in Waiting : k \in Nat /\ k >= e
      /\ e \in Nat /\ cmd[e].t = "CREATE" /\ voice'.gen = cmd[e].gen
  BY RingTakes DEF TypeOK, Next1
<1>2. slot.gen \in Nat /\ voice.gen \in Nat /\ pub.gen \in Nat /\ \A k \in Waiting : cmd[k].gen \in Nat
  BY LetsTypes, WaitingTyped DEF TypeOK
<1> HIDE DEF e
<1>3. voice'.gen > voice.gen /\ voice'.gen <= slot.gen /\ voice'.gen \in Nat
  BY <1>1, <1>2 DEF Lets
<1>4. \A k \in Waiting' : cmd'[k].gen <= slot'.gen
  BY <1>1 DEF Lets
<1>5. ASSUME NEW k \in Waiting', cmd'[k].t = "CREATE" PROVE cmd'[k].gen > voice'.gen
  BY <1>1, <1>2, <1>5 DEF Lets
<1>6. \A j, k \in Waiting' : j < k /\ cmd'[j].t = "CREATE" /\ cmd'[k].t = "CREATE" => cmd'[j].gen < cmd'[k].gen
  BY <1>1 DEF Lets
<1>7. voice'.gen = slot'.gen \/ \E k \in Waiting' : IsA(k, "CREATE", slot.gen)'
  <2>1. voice.gen # slot.gen
    BY <1>2, <1>3
  <2>2. PICK k \in Waiting : IsA(k, "CREATE", slot.gen)
    BY <2>1 DEF Lets
  <2> QED
    BY <1>1, <2>2 DEF IsA
<1>8. ASSUME NEW k \in Waiting', cmd'[k].t \in OfVoice
      PROVE  cmd'[k].gen <= voice'.gen \/ \E j \in Waiting' : j < k /\ IsA(j, "CREATE", cmd[k].gen)'
  <2>1. k \in Waiting /\ cmd'[k] = cmd[k]
    BY <1>1
  <2>2. CASE cmd[k].gen <= voice.gen
    BY <1>2, <1>3, <2>1, <2>2
  <2>3. CASE \E j \in Waiting : j < k /\ IsA(j, "CREATE", cmd[k].gen)
    <3>1. PICK j \in Waiting : j < k /\ IsA(j, "CREATE", cmd[k].gen)
      BY <2>3
    <3>2. CASE j = e
      BY <1>1, <1>2, <2>1, <3>1, <3>2 DEF IsA
    <3>3. CASE j # e
      BY <1>1, <2>1, <3>1, <3>3 DEF IsA
    <3> QED
      BY <3>2, <3>3
  <2> QED
    BY <1>8, <2>1, <2>2, <2>3 DEF Lets
<1>9. slot'.inuse => \A k \in Waiting' : ~(cmd'[k].t = "DESTROY" /\ cmd'[k].gen = slot'.gen)
  BY <1>1 DEF Lets, IsA
<1>10. pub'.gen <= voice'.gen
  BY <1>2, <1>3 DEF Lets
<1> QED
  BY <1>3, <1>4, <1>5, <1>6, <1>7, <1>8, <1>9, <1>10 DEF Lets, IsA

LEMMA CallSlot ==
    ASSUME TypeOK, Control, ~CreateSource
    PROVE  slot'.gen = slot.gen /\ (slot'.inuse => slot.inuse)
<1>1. slot' = slot \/ slot' = [slot EXCEPT !.seq = IF Room THEN @ + 1 ELSE @] \/ DestroySource
  BY DEF Control, SetPos, SetListener, Play, Rolled, Stop, Commit, Poll, ctlVars
<1> QED
  BY <1>1 DEF TypeOK, ClientTyped, DestroySource

LEMMA LetsStep ==
    ASSUME TypeOK, Lets, [Next]_vars PROVE Lets'
<1>1. CASE Aside
  BY <1>1, AsideEffect, LetsStay DEF LetsFields
<1>2. CASE CreateSource
  <2>1. PICK c \in Command : /\ c.t = "CREATE" /\ c.gen = slot.gen + 1 /\ Grew(c)
                             /\ slot'.gen = slot.gen + 1 /\ UNCHANGED audVars
    BY <1>2, CreateEffect
  <2>2. voice' = voice /\ pub' = pub
    BY <2>1 DEF audVars
  <2> QED
    BY <2>1, <2>2, LetsCreate
<1>3. CASE Control /\ ~CreateSource /\ ~Poll
  <2>1. PICK c \in Command : /\ Calls1(c) /\ (IF Room THEN Grew(c) ELSE Kept) /\ UNCHANGED audVars
    BY <1>3, CallEffect
  <2>2. voice' = voice /\ pub' = pub
    BY <2>1 DEF audVars
  <2>3. slot'.gen = slot.gen /\ (slot'.inuse => slot.inuse)
    BY <1>3, CallSlot
  <2>4. LetsFields
    BY <2>2, <2>3 DEF LetsFields
  <2>5. CASE Room
    <3>1. c.t # "CREATE" /\ (c.t # "DESTROY" \/ ~slot'.inuse)
      BY <2>1 DEF Calls1
    <3>2. c.gen = slot.gen \/ (c.gen = 0 /\ c.t \notin OfVoice)
      BY <2>1 DEF Calls1, OfVoice
    <3> QED
      BY <2>1, <2>2, <2>4, <2>5, <3>1, <3>2, LetsGrow
  <2>6. CASE ~Room
    BY <2>1, <2>2, <2>4, <2>6, LetsStay
  <2> QED
    BY <2>5, <2>6
<1>4. CASE Drain /\ ~EndDrain
  <2>1. DrainsTo /\ Took /\ slot' = slot /\ pub' = pub
    BY <1>4, DrainEffect
  <2>2. CASE TookCreate
    BY <2>1, <2>2, LetsTakeCreate DEF TookCreate
  <2>3. CASE TookDestroy
    <3>1. voice'.gen = voice.gen /\ Next1.t # "CREATE"
      BY <2>3 DEF TookDestroy, TypeOK, VoiceTyped
    <3>2. voice'.active = voice.active \/ IsA(aud.n + 1, "DESTROY", voice.gen)
      BY <2>3 DEF TookDestroy, Mine, IsA, Next1
    <3>3. LetsFields
      BY <2>1, <3>1 DEF LetsFields
    <3> QED
      BY <2>1, <3>1, <3>2, <3>3, LetsTake
  <2>4. CASE TookSetPos \/ TookSetListener \/ TookCommit \/ TookPlay \/ TookStop
    <3>1. voice'.gen = voice.gen /\ voice'.active = voice.active /\ Next1.t # "CREATE"
      BY <2>4 DEF TookSetPos, TookSetListener, TookCommit, TookPlay, TookStop, TypeOK, VoiceTyped
    <3>2. LetsFields
      BY <2>1, <3>1 DEF LetsFields
    <3> QED
      BY <2>1, <3>1, <3>2, LetsTake
  <2> QED
    BY <2>1, <2>2, <2>3, <2>4 DEF DrainsTo
<1>5. CASE EndDrain
  BY <1>5, EndEffect, LetsMove DEF LetsFields
<1>6. CASE Mix
  BY <1>6, MixEffect, LetsStay DEF LetsFields
<1> QED
  BY <1>1, <1>2, <1>3, <1>4, <1>5, <1>6, NextKinds

LEMMA InitLets == ASSUME Init PROVE Lets
<1>1. Waiting = {} /\ slot.gen = 0 /\ voice.gen = 0 /\ pub.gen = 0 /\ slot.inuse = FALSE
  BY DEF Init, Waiting
<1> QED
  BY <1>1 DEF Lets

-----------------------------------------------------------------------------
(* Plays. *)

LEMMA PlaysTypes ==
    ASSUME TypeOK
    PROVE  /\ slot.gen \in Nat /\ slot.seq \in Nat /\ voice.gen \in Nat /\ voice.seq \in Nat
           /\ pub.gen \in Nat /\ pub.seq \in Nat
           /\ \A k \in Waiting : cmd[k].gen \in Nat /\ cmd[k].n \in Nat /\ k \in Nat
BY WaitingTyped DEF TypeOK, ClientTyped, VoiceTyped

\* The voice as the plays see it stays as it was, or only goes silent.
VoiceQuiets ==
    /\ voice'.gen = voice.gen /\ voice'.seq = voice.seq /\ voice'.active = voice.active
    /\ voice'.playing => voice.playing

LEMMA PlaysStay ==
    ASSUME TypeOK, Plays, Kept, slot' = slot, VoiceQuiets
    PROVE  Plays'
BY PlaysTypes, RingStays DEF Plays, VoiceQuiets

LEMMA PlaysCreate ==
    ASSUME TypeOK, Lets, Plays, NEW c \in Command, Grew(c), c.t = "CREATE",
           slot'.gen = slot.gen + 1, slot'.seq = 0, voice' = voice
    PROVE  Plays'
<1> DEFINE e == Len(cmd) + 1
<1>1. /\ Waiting' = Waiting \cup {e} /\ e \notin Waiting /\ cmd'[e] = c
      /\ \A k \in Waiting : cmd'[k] = cmd[k] /\ k \in Nat /\ k < e
      /\ e \in Nat
  <2>1. RingTyped
    BY DEF TypeOK
  <2> QED
    BY <2>1, RingGrows
<1>2. /\ slot.gen \in Nat /\ voice.gen \in Nat /\ voice.gen <= slot.gen
      /\ \A k \in Waiting : cmd[k].gen \in Nat /\ cmd[k].gen <= slot.gen
  BY PlaysTypes DEF Lets
<1> HIDE DEF e
<1>3. ASSUME NEW k \in Waiting', cmd'[k].t = "PLAY"
      PROVE  /\ cmd'[k].n >= 1 /\ cmd'[k].gen # slot'.gen
             /\ cmd'[k].gen = voice'.gen => cmd'[k].n > voice'.seq
  <2>1. k \in Waiting /\ cmd'[k] = cmd[k]
    BY <1>1, <1>3
  <2> QED
    BY <1>2, <1>3, <2>1 DEF Plays
<1>4. ASSUME NEW j \in Waiting', NEW k \in Waiting', j < k, cmd'[j].t = "PLAY", cmd'[k].t = "PLAY",
             cmd'[j].gen = cmd'[k].gen
      PROVE  cmd'[j].n < cmd'[k].n
  <2>1. j \in Waiting /\ k \in Waiting /\ cmd'[j] = cmd[j] /\ cmd'[k] = cmd[k]
    BY <1>1, <1>4
  <2> QED
    BY <1>4, <2>1 DEF Plays
<1>5. voice'.gen # slot'.gen
  BY <1>2
<1> QED
  BY <1>3, <1>4, <1>5 DEF Plays

\* A command other than a play.
LEMMA PlaysGrow ==
    ASSUME TypeOK, Plays, NEW c \in Command, Grew(c), c.t # "PLAY",
           slot'.gen = slot.gen, slot'.seq = slot.seq, voice' = voice
    PROVE  Plays'
<1> DEFINE e == Len(cmd) + 1
<1>1. /\ Waiting' = Waiting \cup {e} /\ e \notin Waiting /\ cmd'[e] = c
      /\ \A k \in Waiting : cmd'[k] = cmd[k] /\ k \in Nat /\ k < e
      /\ e \in Nat
  <2>1. RingTyped
    BY DEF TypeOK
  <2> QED
    BY <2>1, RingGrows
<1> HIDE DEF e
<1>2. \A k \in Waiting' : cmd'[k].t = "PLAY" => k \in Waiting /\ cmd'[k] = cmd[k]
  BY <1>1
<1> QED
  BY <1>2 DEF Plays

LEMMA PlaysPlay ==
    ASSUME TypeOK, Plays, NEW c \in Command, Grew(c), c.t = "PLAY", c.gen = slot.gen, c.n = slot.seq + 1,
           slot'.gen = slot.gen, slot'.seq = slot.seq + 1, voice' = voice
    PROVE  Plays'
<1> DEFINE e == Len(cmd) + 1
<1>1. /\ Waiting' = Waiting \cup {e} /\ e \notin Waiting /\ cmd'[e] = c
      /\ \A k \in Waiting : cmd'[k] = cmd[k] /\ k \in Nat /\ k < e
      /\ e \in Nat
  <2>1. RingTyped
    BY DEF TypeOK
  <2> QED
    BY <2>1, RingGrows
<1>2. /\ slot.seq \in Nat /\ voice.seq \in Nat
      /\ \A k \in Waiting : cmd[k].gen \in Nat /\ cmd[k].n \in Nat
  BY PlaysTypes
<1> HIDE DEF e
<1>3. ASSUME NEW k \in Waiting', cmd'[k].t = "PLAY"
      PROVE  /\ cmd'[k].n >= 1
             /\ cmd'[k].gen = slot'.gen => cmd'[k].n <= slot'.seq
             /\ cmd'[k].gen = voice'.gen => cmd'[k].n > voice'.seq
  <2>1. CASE k = e
    BY <1>1, <1>2, <2>1 DEF Plays
  <2>2. CASE k \in Waiting
    BY <1>1, <1>2, <1>3, <2>2 DEF Plays
  <2> QED
    BY <1>1, <2>1, <2>2
<1>4. ASSUME NEW j \in Waiting', NEW k \in Waiting', j < k, cmd'[j].t = "PLAY", cmd'[k].t = "PLAY",
             cmd'[j].gen = cmd'[k].gen
      PROVE  cmd'[j].n < cmd'[k].n
  <2>1. j \in Waiting /\ cmd'[j] = cmd[j]
    BY <1>1, <1>4
  <2>2. CASE k = e
    BY <1>1, <1>2, <1>4, <2>1, <2>2 DEF Plays
  <2>3. CASE k \in Waiting
    BY <1>1, <1>4, <2>1, <2>3 DEF Plays
  <2> QED
    BY <1>1, <2>2, <2>3
<1>5. voice'.gen = slot'.gen => voice'.seq <= slot'.seq
  BY <1>2 DEF Plays
<1>6. voice'.playing => voice'.active /\ voice'.seq >= 1
  BY DEF Plays
<1> QED
  BY <1>3, <1>4, <1>5, <1>6 DEF Plays

LEMMA PlaysMove ==
    ASSUME TypeOK, Plays, EndDrain, slot' = slot, voice' = voice
    PROVE  Plays'
<1> DEFINE d == aud.n
<1>1. /\ d \in Nat
      /\ \A k \in Waiting' : k \in Nat /\ k + d \in Waiting /\ cmd'[k] = cmd[k + d]
  BY RingMoves DEF TypeOK
<1> HIDE DEF d
<1>2. ASSUME NEW k \in Waiting', cmd'[k].t = "PLAY"
      PROVE  /\ cmd'[k].n >= 1
             /\ cmd'[k].gen = slot'.gen => cmd'[k].n <= slot'.seq
             /\ cmd'[k].gen = voice'.gen => cmd'[k].n > voice'.seq
  BY <1>1, <1>2 DEF Plays
<1>3. ASSUME NEW j \in Waiting', NEW k \in Waiting', j < k, cmd'[j].t = "PLAY", cmd'[k].t = "PLAY",
             cmd'[j].gen = cmd'[k].gen
      PROVE  cmd'[j].n < cmd'[k].n
  <2>1. j + d \in Waiting /\ k + d \in Waiting /\ j + d < k + d /\ cmd'[j] = cmd[j + d] /\ cmd'[k] = cmd[k + d]
    BY <1>1, <1>3
  <2> QED
    BY <1>3, <2>1 DEF Plays
<1> QED
  BY <1>2, <1>3 DEF Plays

\* A command is drained: the plays that remain are those the voice has still to hear of.
LEMMA PlaysTake ==
    ASSUME TypeOK, Plays, Took, slot' = slot,
           \A k \in Waiting' : cmd[k].t = "PLAY" /\ cmd[k].gen = voice'.gen => cmd[k].n > voice'.seq,
           voice'.gen = slot.gen => voice'.seq <= slot.seq,
           voice'.playing => voice'.active /\ voice'.seq >= 1
    PROVE  Plays'
<1>1. cmd' = cmd /\ \A k \in Waiting' : k \in Waiting
  BY RingTakes DEF TypeOK
<1> QED
  BY <1>1 DEF Plays

\* The first command and those behind it.
LEMMA FirstWaits ==
    ASSUME TypeOK, Took
    PROVE  /\ aud.n + 1 \in Waiting /\ Next1 = cmd[aud.n + 1] /\ aud.n + 1 \in Nat
           /\ \A k \in Waiting' : k \in Waiting /\ k > aud.n + 1 /\ k \in Nat
           /\ \A k \in Waiting : k >= aud.n + 1
           /\ \A k \in Waiting : k # aud.n + 1 => k \in Waiting'
           /\ cmd' = cmd /\ aud'.pc = "drain"
<1>1. RingTyped
  BY DEF TypeOK
<1>2. /\ Waiting' = Waiting \ {aud.n + 1} /\ aud.n + 1 \in Waiting
      /\ \A k \in Waiting : k \in Nat /\ k >= aud.n + 1
      /\ aud.n + 1 \in Nat /\ cmd' = cmd
  BY <1>1, RingTakes
<1>3. \A k \in Waiting' : k \in Waiting /\ k > aud.n + 1 /\ k \in Nat
  BY <1>2
<1>4. aud'.pc = "drain"
  BY <1>1 DEF Took, RingTyped
<1> QED
  BY <1>2, <1>3, <1>4 DEF Next1

LEMMA PlaysDrain ==
    ASSUME TypeOK, Lets, Plays, Took, DrainsTo, slot' = slot
    PROVE  Plays'
<1> DEFINE e == aud.n + 1
<1>1. /\ e \in Waiting /\ Next1 = cmd[e] /\ e \in Nat /\ cmd' = cmd
      /\ \A k \in Waiting' : k \in Waiting /\ k > e /\ k \in Nat
  BY FirstWaits
<1>2. /\ slot.gen \in Nat /\ slot.seq \in Nat /\ voice.gen \in Nat /\ voice.seq \in Nat
      /\ \A k \in Waiting : cmd[k].gen \in Nat /\ cmd[k].n \in Nat
  BY PlaysTypes
<1> HIDE DEF e
<1>3. CASE TookCreate
  <2>1. voice'.gen = cmd[e].gen /\ voice'.seq = 0 /\ ~voice'.playing
    BY <1>1, <1>3 DEF TookCreate
  <2>2. \A k \in Waiting' : cmd[k].t = "PLAY" /\ cmd[k].gen = voice'.gen => cmd[k].n > voice'.seq
    BY <1>1, <1>2, <2>1 DEF Plays
  <2> QED
    BY <1>2, <2>1, <2>2, PlaysTake
<1>4. CASE TookPlay /\ Mine
  <2>1. voice'.gen = voice.gen /\ voice'.seq = cmd[e].n /\ voice'.active = voice.active /\ cmd[e].t = "PLAY"
        /\ cmd[e].gen = voice.gen /\ voice.active
    BY <1>1, <1>4 DEF TookPlay, Mine, TypeOK, VoiceTyped
  <2>2. ASSUME NEW k \in Waiting', cmd[k].t = "PLAY", cmd[k].gen = voice'.gen PROVE cmd[k].n > voice'.seq
    <3>1. cmd[e].n < cmd[k].n
      BY <1>1, <2>1, <2>2 DEF Plays
    <3> QED
      BY <1>1, <1>2, <2>1, <3>1
  <2>3. voice'.gen = slot.gen => voice'.seq <= slot.seq
    BY <1>1, <2>1 DEF Plays
  <2>4. voice'.seq >= 1
    BY <1>1, <2>1 DEF Plays
  <2> QED
    BY <2>1, <2>2, <2>3, <2>4, PlaysTake
<1>5. CASE voice'.gen = voice.gen /\ voice'.seq = voice.seq /\ (voice'.playing => voice.playing /\ voice'.active = voice.active)
  <2>1. \A k \in Waiting' : cmd[k].t = "PLAY" /\ cmd[k].gen = voice'.gen => cmd[k].n > voice'.seq
    BY <1>1, <1>5 DEF Plays
  <2>2. voice'.gen = slot.gen => voice'.seq <= slot.seq
    BY <1>5 DEF Plays
  <2>3. voice'.playing => voice'.active /\ voice'.seq >= 1
    BY <1>5 DEF Plays
  <2> QED
    BY <2>1, <2>2, <2>3, PlaysTake
<1>6. DrainsTo => \/ TookCreate \/ (TookPlay /\ Mine)
                  \/ voice'.gen = voice.gen /\ voice'.seq = voice.seq /\ (voice'.playing => voice.playing /\ voice'.active = voice.active)
  BY DEF DrainsTo, TookDestroy, TookSetPos, TookSetListener, TookCommit, TookPlay, TookStop, TypeOK,
       VoiceTyped
<1> QED
  BY <1>3, <1>4, <1>5, <1>6

\* The four kinds of steps that leave the client's calls aside.
LEMMA MixQuiets ==
    ASSUME TypeOK, Mix PROVE VoiceQuiets
BY MixEffect DEF VoiceQuiets

LEMMA PlaysStep ==
    ASSUME TypeOK, Lets, Plays, [Next]_vars PROVE Plays'
<1>1. CASE Aside
  BY <1>1, AsideEffect, PlaysStay DEF VoiceQuiets
<1>2. CASE CreateSource
  <2>1. PICK c \in Command : /\ c.t = "CREATE" /\ c.gen = slot.gen + 1 /\ Grew(c)
                             /\ slot'.gen = slot.gen + 1 /\ slot'.seq = 0 /\ UNCHANGED audVars
    BY <1>2, CreateEffect
  <2>2. voice' = voice
    BY <2>1 DEF audVars
  <2> QED
    BY <2>1, <2>2, PlaysCreate
<1>3. CASE Control /\ ~CreateSource /\ ~Poll
  <2>1. PICK c \in Command : /\ Calls1(c) /\ (IF Room THEN Grew(c) ELSE Kept) /\ UNCHANGED audVars
    BY <1>3, CallEffect
  <2>2. voice' = voice
    BY <2>1 DEF audVars
  <2>3. slot'.gen = slot.gen
    BY <1>3, CallSlot
  <2>4. CASE Room /\ c.t = "PLAY"
    <3>1. c.gen = slot.gen /\ c.n = slot.seq + 1 /\ slot'.seq = slot.seq + 1
      BY <2>1, <2>4 DEF Calls1, TypeOK, ClientTyped
    <3> QED
      BY <2>1, <2>2, <2>3, <2>4, <3>1, PlaysPlay
  <2>5. CASE Room /\ c.t # "PLAY"
    <3>1. slot'.seq = slot.seq
      BY <2>1, <2>5 DEF Calls1
    <3> QED
      BY <2>1, <2>2, <2>3, <2>5, <3>1, PlaysGrow
  <2>6. CASE ~Room
    <3>1. slot'.seq = slot.seq
      BY <2>1, <2>6 DEF Calls1, TypeOK, ClientTyped
    <3> QED
      BY <2>1, <2>2, <2>3, <2>6, <3>1, RingStays DEF Plays
  <2> QED
    BY <2>4, <2>5, <2>6
<1>4. CASE Drain /\ ~EndDrain
  BY <1>4, DrainEffect, PlaysDrain
<1>5. CASE EndDrain
  BY <1>5, EndEffect, PlaysMove
<1>6. CASE Mix
  BY <1>6, MixEffect, MixQuiets, PlaysStay
<1> QED
  BY <1>1, <1>2, <1>3, <1>4, <1>5, <1>6, NextKinds

LEMMA InitPlays == ASSUME Init PROVE Plays
<1>1. Waiting = {} /\ slot.seq = 0 /\ voice.seq = 0 /\ voice.playing = FALSE
  BY DEF Init, Waiting
<1> QED
  BY <1>1 DEF Plays

-----------------------------------------------------------------------------
(* What is published, the latest play, and the notices. *)

LEMMA AsideAud ==
    ASSUME Aside, aud'.pc = "idle"
    PROVE  aud.pc = "idle"
BY SetElse DEF Aside, BeginBlock, Poll, vars, audVars

LEMMA PubStep ==
    ASSUME TypeOK, Lets, Plays, PubFollows, [Next]_vars PROVE PubFollows'
<1>0. /\ voice.gen \in Nat /\ voice.seq \in Nat /\ pub.gen \in Nat /\ pub.seq \in Nat /\ slot.gen \in Nat
      /\ pub.gen <= voice.gen
  BY PlaysTypes DEF Lets
<1>1. CASE Aside
  BY <1>1, AsideEffect, AsideAud DEF PubFollows
<1>2. CASE Control
  <2>1. UNCHANGED audVars
    BY <1>2 DEF Control, CreateSource, DestroySource, SetPos, SetListener, Play, Stop, Commit, Poll
  <2> QED
    BY <2>1 DEF audVars, PubFollows
<1>3. CASE Drain /\ ~EndDrain
  <2>1. DrainsTo /\ Took /\ pub' = pub
    BY <1>3, DrainEffect
  <2>2. aud'.pc = "drain" /\ aud.n + 1 \in Waiting /\ Next1 = cmd[aud.n + 1]
    BY <2>1, FirstWaits
  <2>3. CASE TookCreate
    <3>1. voice'.gen > voice.gen /\ voice'.gen \in Nat /\ ~voice'.playing
      BY <1>0, <2>2, <2>3, PlaysTypes DEF TookCreate, Lets
    <3>2. pub.gen # voice'.gen
      BY <1>0, <3>1
    <3> QED
      BY <2>1, <2>2, <3>1, <3>2 DEF PubFollows
  <2>4. CASE TookPlay /\ Mine
    <3>1. voice'.gen = voice.gen /\ voice'.seq = Next1.n /\ Next1.t = "PLAY" /\ Next1.gen = voice.gen
      BY <2>4 DEF TookPlay, Mine, TypeOK, VoiceTyped
    <3>2. voice'.seq > voice.seq /\ voice'.seq \in Nat
      BY <2>2, <3>1, PlaysTypes DEF Plays
    <3>3. pub.gen = voice.gen => pub.seq < voice'.seq
      BY <1>0, <3>2 DEF PubFollows
    <3>4. pub.gen = voice.gen => pub.seq # voice'.seq /\ pub.seq <= voice'.seq
      BY <1>0, <3>2, <3>3
    <3> QED
      BY <2>1, <2>2, <3>1, <3>4 DEF PubFollows
  <2>5. CASE voice'.gen = voice.gen /\ voice'.seq = voice.seq /\ (voice'.playing => voice.playing)
    BY <2>1, <2>2, <2>5 DEF PubFollows
  <2>6. DrainsTo => \/ TookCreate \/ (TookPlay /\ Mine)
                    \/ voice'.gen = voice.gen /\ voice'.seq = voice.seq /\ (voice'.playing => voice.playing)
    BY DEF DrainsTo, TookDestroy, TookSetPos, TookSetListener, TookCommit, TookPlay, TookStop, TypeOK,
         VoiceTyped
  <2> QED
    BY <2>1, <2>3, <2>4, <2>5, <2>6
<1>4. CASE EndDrain
  <2>1. aud'.pc # "idle" /\ voice' = voice /\ pub' = pub
    BY <1>4 DEF EndDrain
  <2> QED
    BY <2>1 DEF PubFollows
<1>5. CASE Publish
  <2>1. pub' = [gen |-> voice.gen, seq |-> voice.seq, on |-> voice.active /\ voice.playing] /\ voice' = voice
    BY <1>5 DEF Publish
  <2>2. voice.playing => voice.active
    BY DEF Plays
  <2>3. pub'.gen = voice.gen /\ pub'.seq = voice.seq
    BY <2>1
  <2>4. voice.playing => pub'.on
    BY <2>1, <2>2
  <2>5. pub' = [gen |-> voice'.gen, seq |-> voice'.seq, on |-> voice'.active /\ voice'.playing]
    BY <2>1
  <2>6. voice'.gen = voice.gen /\ voice'.seq = voice.seq /\ (voice'.playing => voice.playing)
    BY <2>1
  <2> QED
    BY <1>0, <2>3, <2>4, <2>5, <2>6 DEF PubFollows
<1>6. CASE Mix /\ ~Publish
  <2>1. pub' = pub /\ aud'.pc # "idle"
    BY <1>6 DEF Mix, MixLook, MixRead, MixOn, MixStopped, MixEnd, TypeOK, RingTyped
  <2>2. voice'.gen = voice.gen /\ voice'.seq = voice.seq /\ (voice'.playing => voice.playing)
    BY <1>6, MixEffect
  <2> QED
    BY <2>1, <2>2 DEF PubFollows
<1> QED
  BY <1>1, <1>2, <1>3, <1>4, <1>5, <1>6, NextKinds DEF Control

LEMMA InitPub == ASSUME Init PROVE PubFollows
<1>1. pub.gen = 0 /\ pub.seq = 0 /\ voice.seq = 0 /\ voice.gen = 0 /\ voice.playing = FALSE
  BY DEF Init
<1>2. pub = [gen |-> voice.gen, seq |-> voice.seq, on |-> voice.active /\ voice.playing]
  <2>1. pub = [gen |-> 0, seq |-> 0, on |-> FALSE] /\ voice.active = FALSE
    BY DEF Init
  <2>2. (voice.active /\ voice.playing) = FALSE
    BY <1>1
  <2> QED
    BY <1>1, <2>1, <2>2
<1> QED
  BY <1>1, <1>2 DEF PubFollows

LastSent == \E k \in Waiting : cmd[k].t = "PLAY" /\ cmd[k].gen = slot.gen /\ cmd[k].n = slot.seq
LastTaken == voice.gen = slot.gen /\ voice.seq = slot.seq

LEMMA LatestStep ==
    ASSUME TypeOK, Lets, Plays, LatestPlay, [Next]_vars PROVE LatestPlay'
<1>0. /\ voice.gen \in Nat /\ voice.seq \in Nat /\ slot.gen \in Nat /\ slot.seq \in Nat
      /\ \A k \in Waiting : cmd[k].gen \in Nat /\ cmd[k].n \in Nat /\ k \in Nat
  BY PlaysTypes
<1>6. LatestPlay <=> (slot.inuse /\ slot.seq # 0 => LastSent \/ LastTaken)
  BY DEF LatestPlay, LastSent, LastTaken, IsA
<1>7. LatestPlay' <=> (slot'.inuse /\ slot'.seq # 0 => LastSent' \/ LastTaken')
  BY DEF LatestPlay, LastSent, LastTaken, IsA
<1>1. CASE Aside \/ Mix
  <2>1. Kept /\ slot' = slot /\ voice'.gen = voice.gen /\ voice'.seq = voice.seq
    BY <1>1, AsideEffect, MixEffect
  <2> QED
    BY <1>6, <1>7, <2>1, RingStays DEF LastSent, LastTaken
<1>2. CASE CreateSource
  <2>1. slot'.seq = 0
    BY <1>2, CreateEffect
  <2> QED
    BY <1>7, <2>1
<1>3. CASE Control /\ ~CreateSource /\ ~Poll
  <2>1. PICK c \in Command : /\ Calls1(c) /\ (IF Room THEN Grew(c) ELSE Kept) /\ UNCHANGED audVars
    BY <1>3, CallEffect
  <2>2. voice' = voice
    BY <2>1 DEF audVars
  <2>3. slot'.gen = slot.gen /\ (slot'.inuse => slot.inuse)
    BY <1>3, CallSlot
  <2>4. CASE Room
    <3> DEFINE e == Len(cmd) + 1
    <3>1. /\ Waiting' = Waiting \cup {e} /\ cmd'[e] = c
          /\ \A k \in Waiting : cmd'[k] = cmd[k]
      <4>1. RingTyped
        BY DEF TypeOK
      <4> QED
        BY <2>1, <2>4, <4>1, RingGrows
    <3> HIDE DEF e
    <3>2. CASE c.t = "PLAY"
      <4>1. c.gen = slot.gen /\ c.n = slot'.seq
        BY <2>1, <2>4, <3>2 DEF Calls1, TypeOK, ClientTyped
      <4>2. LastSent'
        BY <2>3, <3>1, <3>2, <4>1 DEF LastSent
      <4> QED
        BY <1>7, <4>2
    <3>3. CASE c.t # "PLAY"
      <4>1. slot'.seq = slot.seq
        BY <2>1, <3>3 DEF Calls1
      <4>2. LastSent => LastSent'
        BY <2>3, <3>1, <4>1 DEF LastSent
      <4>3. LastTaken => LastTaken'
        BY <2>2, <2>3, <4>1 DEF LastTaken
      <4> QED
        BY <1>6, <1>7, <2>3, <4>1, <4>2, <4>3
    <3> QED
      BY <3>2, <3>3
  <2>5. CASE ~Room
    <3>1. slot'.seq = slot.seq
      BY <2>1, <2>5 DEF Calls1, TypeOK, ClientTyped
    <3>2. Waiting' = Waiting /\ cmd' = cmd
      BY <2>1, <2>5, RingStays
    <3> QED
      BY <1>6, <1>7, <2>2, <2>3, <3>1, <3>2 DEF LastSent, LastTaken
  <2> QED
    BY <2>4, <2>5
<1>4. CASE Drain /\ ~EndDrain
  <2> DEFINE e == aud.n + 1
  <2>1. DrainsTo /\ Took /\ slot' = slot
    BY <1>4, DrainEffect
  <2>2. /\ e \in Waiting /\ Next1 = cmd[e] /\ cmd' = cmd
        /\ \A k \in Waiting : k >= e /\ (k # e => k \in Waiting')
    BY <2>1, FirstWaits
  <2> HIDE DEF e
  <2>3. LastSent /\ Next1.t # "PLAY" => LastSent'
    BY <2>1, <2>2 DEF LastSent
  <2>4. CASE TookCreate
    <3>1. ~LastTaken
      BY <1>0, <2>2, <2>4 DEF LastTaken, TookCreate, Lets
    <3>2. Next1.t # "PLAY"
      BY <2>4 DEF TookCreate
    <3> QED
      BY <1>6, <1>7, <2>1, <2>3, <3>1, <3>2
  <2>5. CASE TookPlay
    <3>1. Next1.t = "PLAY"
      BY <2>5 DEF TookPlay
    <3>2. CASE Mine
      <4>1. voice'.gen = voice.gen /\ voice'.seq = Next1.n /\ Next1.gen = voice.gen
        BY <2>5, <3>2 DEF TookPlay, Mine, TypeOK, VoiceTyped
      <4>2. ~LastTaken
        <5>1. Next1.n > voice.seq
          BY <2>2, <3>1, <4>1 DEF Plays
        <5>2. Next1.gen = slot.gen => Next1.n <= slot.seq
          BY <2>2, <3>1 DEF Plays
        <5> QED
          BY <1>0, <2>2, <4>1, <5>1, <5>2 DEF LastTaken
      <4>3. LastSent => LastSent' \/ LastTaken'
        BY <2>1, <2>2, <4>1 DEF LastSent, LastTaken
      <4> QED
        BY <1>6, <1>7, <2>1, <4>2, <4>3
    <3>3. CASE ~Mine
      <4>1. voice' = voice
        BY <2>5, <3>3 DEF TookPlay
      <4>2. ASSUME slot.inuse, LastSent PROVE LastSent'
        <5>1. PICK k \in Waiting : cmd[k].t = "PLAY" /\ cmd[k].gen = slot.gen /\ cmd[k].n = slot.seq
          BY <4>2 DEF LastSent
        <5>2. ASSUME k = e PROVE FALSE
          <6>1. cmd[e].gen <= voice.gen \/ \E j \in Waiting : j < e /\ IsA(j, "CREATE", cmd[e].gen)
            BY <2>2, <3>1 DEF Lets, OfVoice
          <6>2. cmd[e].gen <= voice.gen
            BY <1>0, <2>2, <6>1
          <6>3. voice.gen = slot.gen
            BY <1>0, <2>2, <5>1, <5>2, <6>2 DEF Lets
          <6>4. voice.active
            BY <4>2, <6>3 DEF Lets
          <6> QED
            BY <2>2, <3>3, <5>1, <5>2, <6>3, <6>4 DEF Mine
        <5> QED
          BY <2>1, <2>2, <5>1, <5>2 DEF LastSent
      <4>3. LastTaken => LastTaken'
        BY <2>1, <4>1 DEF LastTaken
      <4> QED
        BY <1>6, <1>7, <2>1, <4>2, <4>3
    <3> QED
      BY <3>2, <3>3
  <2>6. CASE TookDestroy \/ TookSetPos \/ TookSetListener \/ TookCommit \/ TookStop
    <3>1. voice'.gen = voice.gen /\ voice'.seq = voice.seq /\ Next1.t # "PLAY"
      BY <2>6 DEF TookDestroy, TookSetPos, TookSetListener, TookCommit, TookStop, TypeOK, VoiceTyped
    <3>2. LastTaken => LastTaken'
      BY <2>1, <3>1 DEF LastTaken
    <3> QED
      BY <1>6, <1>7, <2>1, <2>3, <3>1, <3>2
  <2> QED
    BY <2>1, <2>4, <2>5, <2>6 DEF DrainsTo
<1>5. CASE EndDrain
  <2>1. slot' = slot /\ voice' = voice
    BY <1>5, EndEffect
  <2>2. \A k \in Waiting : k - aud.n \in Waiting' /\ cmd'[k - aud.n] = cmd[k]
    BY <1>5, RingMoves DEF TypeOK
  <2>3. LastSent => LastSent'
    BY <2>1, <2>2 DEF LastSent
  <2>4. LastTaken => LastTaken'
    BY <2>1 DEF LastTaken
  <2> QED
    BY <1>6, <1>7, <2>1, <2>3, <2>4
<1> QED
  BY <1>1, <1>2, <1>3, <1>4, <1>5, NextKinds

LEMMA InitLatest == ASSUME Init PROVE LatestPlay
BY DEF Init, LatestPlay

LEMMA NoticedStep ==
    ASSUME TypeOK, Lets, Plays, Noticed, [Next]_vars PROVE Noticed'
<1>0. /\ voice.gen \in Nat /\ voice.seq \in Nat
      /\ Len(evt) \in Nat /\ DOMAIN evt = 1 .. Len(evt)
      /\ \A k \in DOMAIN evt : evt[k].gen \in Nat /\ evt[k].seq \in Nat
  <2>1. voice.gen \in Nat /\ voice.seq \in Nat
    BY PlaysTypes
  <2>2. evt \in Seq(Notice)
    BY DEF TypeOK, NoticesTyped
  <2>3. Len(evt) \in Nat /\ DOMAIN evt = 1 .. Len(evt) /\ \A k \in DOMAIN evt : evt[k] \in Notice
    BY <2>2
  <2> QED
    BY <2>1, <2>3 DEF Notice
<1>1. CASE evt' = evt /\ voice'.gen = voice.gen /\ voice'.seq = voice.seq /\ (voice'.playing => voice.playing)
  BY <1>1 DEF Noticed
<1>2. CASE evt' = <<>>
  BY <1>2 DEF Noticed
<1>3. CASE Drain /\ ~EndDrain
  <2>1. DrainsTo /\ Took /\ evt' = evt
    BY <1>3, DrainEffect
  <2>2. aud.n + 1 \in Waiting /\ Next1 = cmd[aud.n + 1]
    BY <2>1, FirstWaits
  <2>3. CASE TookCreate
    <3>1. voice'.gen > voice.gen /\ voice'.gen \in Nat
      BY <2>2, <2>3, PlaysTypes DEF TookCreate, Lets
    <3>2. \A k \in DOMAIN evt : evt[k].gen < voice'.gen
      BY <1>0, <3>1 DEF Noticed
    <3>3. \A k \in DOMAIN evt : evt[k].gen <= voice'.gen /\ evt[k].gen # voice'.gen
      BY <1>0, <3>1, <3>2
    <3> QED
      BY <2>1, <3>3 DEF Noticed
  <2>4. CASE TookPlay /\ Mine
    <3>1. voice'.gen = voice.gen /\ voice'.seq = Next1.n /\ Next1.t = "PLAY" /\ Next1.gen = voice.gen
      BY <2>4 DEF TookPlay, Mine, TypeOK, VoiceTyped
    <3>2. voice'.seq > voice.seq /\ voice'.seq \in Nat
      BY <2>2, <3>1, PlaysTypes DEF Plays
    <3>3. \A k \in DOMAIN evt : evt[k].gen = voice.gen => evt[k].seq <= voice'.seq /\ evt[k].seq # voice'.seq
      BY <1>0, <3>2 DEF Noticed
    <3> QED
      BY <2>1, <3>1, <3>3 DEF Noticed
  <2>5. DrainsTo => \/ TookCreate \/ (TookPlay /\ Mine)
                    \/ voice'.gen = voice.gen /\ voice'.seq = voice.seq /\ (voice'.playing => voice.playing)
    BY DEF DrainsTo, TookDestroy, TookSetPos, TookSetListener, TookCommit, TookPlay, TookStop, TypeOK,
         VoiceTyped
  <2> QED
    BY <1>1, <2>1, <2>3, <2>4, <2>5
<1>4. CASE MixEnd
  <2>1. voice'.gen = voice.gen /\ voice'.seq = voice.seq /\ voice'.playing = FALSE
    BY <1>4 DEF MixEnd, TypeOK, VoiceTyped
  <2>2. evt' = evt \/ evt' = Append(evt, [gen |-> voice.gen, seq |-> voice.seq])
    BY <1>4 DEF MixEnd
  <2>3. CASE evt' = evt
    BY <1>1, <2>1, <2>3
  <2>4. CASE evt' = Append(evt, [gen |-> voice.gen, seq |-> voice.seq])
    <3>1. evt \in Seq(Notice)
      BY DEF TypeOK, NoticesTyped
    <3>2. [gen |-> voice.gen, seq |-> voice.seq] \in Notice
      BY <1>0 DEF Notice
    <3>3. DOMAIN evt' = 1 .. Len(evt) + 1 /\ (\A k \in 1 .. Len(evt) : evt'[k] = evt[k])
          /\ evt'[Len(evt) + 1] = [gen |-> voice.gen, seq |-> voice.seq]
      BY <2>4, <3>1, <3>2
    <3>4. ASSUME NEW k \in DOMAIN evt'
          PROVE  /\ evt'[k].gen <= voice'.gen
                 /\ evt'[k].gen = voice'.gen => evt'[k].seq <= voice'.seq
      <4>1. CASE k = Len(evt) + 1
        BY <1>0, <2>1, <3>3, <4>1
      <4>2. CASE k \in 1 .. Len(evt)
        BY <1>0, <2>1, <3>3, <4>2 DEF Noticed
      <4> QED
        BY <1>0, <3>3, <4>1, <4>2
    <3> QED
      BY <2>1, <3>4 DEF Noticed
  <2> QED
    BY <2>2, <2>3, <2>4
<1>5. CASE Aside \/ EndDrain
  BY <1>1, <1>5, AsideEffect, EndEffect
<1>6. CASE Mix /\ ~MixEnd
  <2>1. evt' = evt
    BY <1>6 DEF Mix, MixLook, MixRead, MixOn, MixStopped, Publish
  <2> QED
    BY <1>1, <1>6, <2>1, MixEffect
<1>7. CASE Control
  <2>1. voice' = voice
    BY <1>7 DEF Control, CreateSource, DestroySource, SetPos, SetListener, Play, Stop, Commit, Poll, audVars
  <2>2. evt' = evt \/ evt' = <<>>
    BY <1>7 DEF Control, CreateSource, DestroySource, SetPos, SetListener, Play, Stop, Commit, Poll
  <2> QED
    BY <1>1, <1>2, <2>1, <2>2
<1> QED
  BY <1>3, <1>4, <1>5, <1>6, <1>7, NextKinds DEF Control

LEMMA InitNoticed == ASSUME Init PROVE Noticed
BY DEF Init, Noticed

-----------------------------------------------------------------------------
(* Plays and completions: the theorems. *)

\* The invariant of plays and completions.
PlayIInv == TypeOK /\ Lets /\ Plays /\ PubFollows /\ LatestPlay /\ Noticed

\* It is inductive: the types, the order of the lets and of the plays in the ring, what has been
\* published, and the notices on their way.
THEOREM PlaysInvariant == Spec => []PlayIInv
<1>1. Init => PlayIInv
  BY InitTyped, InitLets, InitPlays, InitPub, InitLatest, InitNoticed DEF PlayIInv
<1>2. PlayIInv /\ [Next]_vars => PlayIInv'
  BY StepTyped, LetsStep, PlaysStep, PubStep, LatestStep, NoticedStep DEF PlayIInv
<1> QED
  BY <1>1, <1>2, PTL DEF Spec

LEMMA IsPlayingKnown ==
    ASSUME PlayIInv, Sounding PROVE IsPlaying
<1>0. /\ voice.gen \in Nat /\ voice.seq \in Nat /\ pub.gen \in Nat /\ pub.seq \in Nat /\ slot.gen \in Nat
      /\ slot.seq \in Nat /\ pub.gen <= voice.gen /\ voice.gen <= slot.gen /\ slot.inuse
  BY PlaysTypes DEF PlayIInv, Lets, Sounding
<1>1. CASE \E k \in Waiting : cmd[k] = Cmd("PLAY", slot.gen, slot.seq)
  <2>1. PICK k \in Waiting : cmd[k] = Cmd("PLAY", slot.gen, slot.seq)
    BY <1>1
  <2>2. cmd[k].t = "PLAY" /\ cmd[k].gen = slot.gen /\ cmd[k].n = slot.seq
    BY <2>1, CmdFields
  <2>3. slot.seq >= 1 /\ (slot.gen = voice.gen => slot.seq > voice.seq)
    BY <2>2 DEF PlayIInv, Plays
  <2>4. pub.gen = slot.gen => voice.gen = slot.gen /\ pub.seq <= voice.seq
    BY <1>0 DEF PlayIInv, PubFollows
  <2> QED
    BY <1>0, <2>3, <2>4 DEF IsPlaying
<1>2. CASE voice.active /\ voice.gen = slot.gen /\ voice.playing /\ voice.seq = slot.seq
  <2>1. slot.seq >= 1
    BY <1>2 DEF PlayIInv, Plays
  <2>2. pub.gen = slot.gen /\ pub.seq = slot.seq => pub.on
    BY <1>2 DEF PlayIInv, PubFollows
  <2> QED
    BY <1>0, <2>1, <2>2 DEF IsPlaying
<1> QED
  BY <1>1, <1>2 DEF Sounding, Waiting

LEMMA PlayingIsSounding ==
    ASSUME PlayIInv, aud.pc = "idle", IsPlaying PROVE Sounding
<1>0. /\ voice.gen \in Nat /\ voice.seq \in Nat /\ slot.gen \in Nat /\ slot.seq \in Nat
      /\ voice.gen <= slot.gen /\ slot.inuse
  BY PlaysTypes DEF PlayIInv, Lets, IsPlaying
<1>1. pub = [gen |-> voice.gen, seq |-> voice.seq, on |-> voice.active /\ voice.playing]
  BY DEF PlayIInv, PubFollows
<1>2. pub.gen = voice.gen /\ pub.seq = voice.seq /\ (pub.on => voice.active /\ voice.playing)
  BY <1>1
<1>3. CASE pub.gen = slot.gen /\ pub.seq = slot.seq
  <2>1. voice.active /\ voice.playing
    BY <1>2, <1>3 DEF IsPlaying
  <2> QED
    BY <1>0, <1>2, <1>3, <2>1 DEF Sounding
<1>4. CASE ~(pub.gen = slot.gen /\ pub.seq = slot.seq)
  <2>1. slot.seq # 0
    BY <1>0, <1>2, <1>4 DEF IsPlaying, PlayIInv, Plays
  <2>2. PICK k \in Waiting : IsA(k, "PLAY", slot.gen) /\ cmd[k].n = slot.seq
    BY <1>0, <1>2, <1>4, <2>1 DEF PlayIInv, LatestPlay
  <2>3. cmd[k] = Cmd("PLAY", slot.gen, slot.seq)
    <3>1. cmd[k] \in Command
      BY WaitingTyped DEF PlayIInv, TypeOK
    <3> QED
      BY <2>2, <3>1 DEF IsA, Cmd, Command
  <2> QED
    BY <1>0, <2>3 DEF Sounding, Waiting
<1> QED
  BY <1>3, <1>4

\* rt_source_is_playing never denies a play that was accepted and has not ended, and between two
\* blocks claims none that has.
THEOREM PlayingIsExactAlways == Spec => []PlayingIsExact
<1>1. PlayIInv => PlayingIsExact
  BY IsPlayingKnown, PlayingIsSounding DEF PlayingIsExact
<1> QED
  BY <1>1, PlaysInvariant, PTL

\* A commit that finds no matching notice notes nothing.
LEMMA NothingNoted ==
    ASSUME PlayIInv, \A k \in DOMAIN evt : ~Latest(evt[k])
    PROVE  Newest(ended \o Completions) = ended
<1>1. {k \in DOMAIN evt : Latest(evt[k])} = {}
  OBVIOUS
<1>2. Cardinality({k \in DOMAIN evt : Latest(evt[k])}) = 0
  BY <1>1, FS_EmptySet
<1>3. Completions = <<>>
  <2> DEFINE n == Cardinality({k \in DOMAIN evt : Latest(evt[k])})
             r == [gen |-> slot.gen, seq |-> slot.seq]
  <2>1. Completions = [i \in 1 .. n |-> r]
    BY DEF Completions
  <2>2. n = 0
    BY <1>2
  <2> HIDE DEF n, r
  <2>3. [i \in 1 .. 0 |-> r] = <<>>
    OBVIOUS
  <2> QED
    BY <2>1, <2>2, <2>3
<1>4. ended \in Seq(Notice) /\ Len(ended) <= EndedCap
  BY DEF PlayIInv, TypeOK, NoticesTyped
<1>5. ended \o Completions = ended
  BY <1>3, <1>4
<1> QED
  BY <1>4, <1>5 DEF Newest

\* A matching notice is of the source's latest play, and that play is over.
LEMMA LatestIsOver ==
    ASSUME PlayIInv, NEW k \in DOMAIN evt, Latest(evt[k])
    PROVE  ~Sounding
<1>0. /\ voice.gen \in Nat /\ voice.seq \in Nat /\ slot.gen \in Nat /\ slot.seq \in Nat /\ voice.gen <= slot.gen
  BY PlaysTypes DEF PlayIInv, Lets
<1>1. evt[k].gen = slot.gen /\ evt[k].seq = slot.seq
  BY DEF Latest
<1>2. voice.gen = slot.gen
  BY <1>0, <1>1 DEF PlayIInv, Noticed
<1>3. slot.seq <= voice.seq /\ (slot.seq = voice.seq => ~voice.playing)
  BY <1>1, <1>2 DEF PlayIInv, Noticed
<1>4. ASSUME NEW j \in Waiting, cmd[j] = Cmd("PLAY", slot.gen, slot.seq) PROVE FALSE
  <2>1. cmd[j].t = "PLAY" /\ cmd[j].gen = voice.gen /\ cmd[j].n = slot.seq
    BY <1>2, <1>4, CmdFields
  <2>2. slot.seq > voice.seq
    BY <2>1 DEF PlayIInv, Plays
  <2> QED
    BY <1>0, <1>3, <2>2
<1> QED
  BY <1>3, <1>4 DEF Sounding, Waiting

\* A completion that rt_commit's drain_events notes for rt_poll_ended is of a play that is over, and
\* no newer play of that source waits or sounds.
THEOREM EndedIsOverAlways == Spec => EndedIsOver
<1>1. PlayIInv /\ [Next]_vars => [ended' \notin {ended, <<>>} => ~Sounding]_vars
  <2> SUFFICES ASSUME PlayIInv, Next, ended' \notin {ended, <<>>} PROVE ~Sounding
    OBVIOUS
  <2>1. Commit
    BY SetElse, DrainElse, MixElse DEF Next, Control, CreateSource, DestroySource, SetPos, SetListener,
         Play, Stop,
       Poll, BeginBlock, ctlVars
  <2>2. ended' = Newest(ended \o Completions)
    BY <2>1 DEF Commit
  <2>3. PICK k \in DOMAIN evt : Latest(evt[k])
    BY <2>2, NothingNoted
  <2> QED
    BY <2>3, LatestIsOver
<1> QED
  BY <1>1, PlaysInvariant, PTL DEF Spec, EndedIsOver

-----------------------------------------------------------------------------
(* Frames: what a waiting command will find. *)

\* A step that touches neither the ring nor what is pending.
PendStays ==
    voice'.gen = voice.gen /\ voice'.active = voice.active /\ voice'.pend = voice.pend /\ lis'.pend = lis.pend

LEMMA ReachStay ==
    ASSUME Kept, PendStays, NEW k, NEW f, Reaches(k, f)
    PROVE  Reaches(k, f)'
<1>1. Waiting' = Waiting /\ cmd' = cmd
  BY RingStays
<1>2. GenAt(k, f[1])'
  BY <1>1 DEF Reaches, GenAt, PendStays, IsA
<1>3. PosAt(k, f[1], f[2])'
  BY <1>1 DEF Reaches, PosAt, PosNow, PendStays, IsA
<1>4. LisAt(k, f[3])'
  BY <1>1 DEF Reaches, LisAt, PendStays
<1> QED
  BY <1>2, <1>3, <1>4 DEF Reaches

\* A command more at the end of the ring changes nothing for those before it.
LEMMA ReachBefore ==
    ASSUME RingTyped, NEW c \in Command, Grew(c), PendStays,
           NEW k \in Nat, k <= Len(cmd) + 1, NEW f, Reaches(k, f)
    PROVE  Reaches(k, f)'
<1> DEFINE e == Len(cmd) + 1
<1>1. /\ Waiting' = Waiting \cup {e} /\ e \in Nat /\ k <= e
      /\ \A i \in Waiting : cmd'[i] = cmd[i] /\ i \in Nat
  BY RingGrows
<1> HIDE DEF e
<1>2. \A i \in Waiting' : i < k => i \in Waiting
  BY <1>1
<1>3. GenAt(k, f[1])'
  BY <1>1, <1>2 DEF Reaches, GenAt, PendStays, IsA
<1>4. PosAt(k, f[1], f[2])'
  BY <1>1, <1>2 DEF Reaches, PosAt, PosNow, PendStays, IsA
<1>5. LisAt(k, f[3])'
  BY <1>1, <1>2 DEF Reaches, LisAt, PendStays
<1> QED
  BY <1>3, <1>4, <1>5 DEF Reaches

\* What the one after it will find.
LEMMA GenAfter ==
    ASSUME RingTyped, NEW c \in Command, Grew(c), PendStays, NEW g, GenAt(Len(cmd) + 1, g), c.t # "CREATE"
    PROVE  GenAt(Len(cmd) + 1, g)'
<1> DEFINE e == Len(cmd) + 1
<1>1. /\ Waiting' = Waiting \cup {e} /\ e \in Nat /\ Len(cmd') + 1 = e + 1 /\ cmd'[e] = c
      /\ \A i \in Waiting : cmd'[i] = cmd[i] /\ i \in Nat /\ i < e
  BY RingGrows
<1> HIDE DEF e
<1>2. GenAt(e, g)
  BY DEF e
<1>3. \A i \in Waiting' : i < e + 1
  BY <1>1
<1>4. CASE \E j \in Waiting : /\ j < e /\ IsA(j, "CREATE", g)
                              /\ \A i \in Waiting : j < i /\ i < e => cmd[i].t # "CREATE"
  BY <1>1, <1>3, <1>4 DEF GenAt, IsA
<1>5. CASE voice.gen = g /\ \A i \in Waiting : i < e => cmd[i].t # "CREATE"
  BY <1>1, <1>3, <1>5 DEF GenAt, PendStays
<1> QED
  BY <1>2, <1>4, <1>5 DEF GenAt

LEMMA PosAfter ==
    ASSUME RingTyped, NEW c \in Command, Grew(c), PendStays, NEW g, NEW p, PosAt(Len(cmd) + 1, g, p),
           ~(c.t = "SET_POS" /\ c.gen = g)
    PROVE  PosAt(Len(cmd) + 1, g, p)'
<1> DEFINE e == Len(cmd) + 1
<1>1. /\ Waiting' = Waiting \cup {e} /\ e \in Nat /\ Len(cmd') + 1 = e + 1 /\ cmd'[e] = c
      /\ \A i \in Waiting : cmd'[i] = cmd[i] /\ i \in Nat /\ i < e
  BY RingGrows
<1> HIDE DEF e
<1>2. PosAt(e, g, p)
  BY DEF e
<1>3. \A i \in Waiting' : i < e + 1
  BY <1>1
<1>4. CASE \E j \in Waiting : /\ j < e /\ IsA(j, "SET_POS", g) /\ cmd[j].n = p
                              /\ \A i \in Waiting : j < i /\ i < e => ~IsA(i, "SET_POS", g)
  BY <1>1, <1>3, <1>4 DEF PosAt, IsA
<1>5. CASE PosNow(g, p) /\ \A i \in Waiting : i < e => ~IsA(i, "SET_POS", g)
  BY <1>1, <1>3, <1>5 DEF PosAt, PendStays, PosNow, IsA
<1> QED
  BY <1>2, <1>4, <1>5 DEF PosAt

LEMMA LisAfter ==
    ASSUME RingTyped, NEW c \in Command, Grew(c), PendStays, NEW l, LisAt(Len(cmd) + 1, l),
           c.t # "SET_LISTENER"
    PROVE  LisAt(Len(cmd) + 1, l)'
<1> DEFINE e == Len(cmd) + 1
<1>1. /\ Waiting' = Waiting \cup {e} /\ e \in Nat /\ Len(cmd') + 1 = e + 1 /\ cmd'[e] = c
      /\ \A i \in Waiting : cmd'[i] = cmd[i] /\ i \in Nat /\ i < e
  BY RingGrows
<1> HIDE DEF e
<1>2. LisAt(e, l)
  BY DEF e
<1>3. \A i \in Waiting' : i < e + 1
  BY <1>1
<1>4. CASE \E j \in Waiting : /\ j < e /\ cmd[j].t = "SET_LISTENER" /\ cmd[j].n = l
                              /\ \A i \in Waiting : j < i /\ i < e => cmd[i].t # "SET_LISTENER"
  BY <1>1, <1>3, <1>4 DEF LisAt
<1>5. CASE lis.pend = l /\ \A i \in Waiting : i < e => cmd[i].t # "SET_LISTENER"
  BY <1>1, <1>3, <1>5 DEF LisAt, PendStays
<1> QED
  BY <1>2, <1>4, <1>5 DEF LisAt

\* The three setters of what it will find.
LEMMA SetsAfter ==
    ASSUME RingTyped, NEW c \in Command, Grew(c)
    PROVE  /\ c.t = "CREATE" => GenAt(Len(cmd) + 1, c.gen)'
           /\ c.t = "SET_POS" => PosAt(Len(cmd) + 1, c.gen, c.n)'
           /\ c.t = "SET_LISTENER" => LisAt(Len(cmd) + 1, c.n)'
<1> DEFINE e == Len(cmd) + 1
<1>1. /\ Waiting' = Waiting \cup {e} /\ e \in Nat /\ Len(cmd') + 1 = e + 1 /\ cmd'[e] = c
      /\ \A i \in Waiting : i \in Nat /\ i < e
  BY RingGrows
<1> HIDE DEF e
<1>2. e \in Waiting' /\ e < e + 1 /\ \A i \in Waiting' : ~(e < i /\ i < e + 1)
  BY <1>1
<1>3. c.t = "CREATE" => GenAt(Len(cmd) + 1, c.gen)'
  BY <1>1, <1>2 DEF GenAt, IsA
<1>4. c.t = "SET_POS" => PosAt(Len(cmd) + 1, c.gen, c.n)'
  BY <1>1, <1>2 DEF PosAt, IsA
<1>5. c.t = "SET_LISTENER" => LisAt(Len(cmd) + 1, c.n)'
  BY <1>1, <1>2 DEF LisAt
<1> QED
  BY <1>3, <1>4, <1>5

\* The room of the drained commands is given back: every place moves up.
LEMMA ReachMove ==
    ASSUME TypeOK, EndDrain, PendStays, NEW k \in Nat, NEW f, Reaches(k, f)
    PROVE  \A h \in Int : h = k - aud.n => Reaches(h, f)'
<1> SUFFICES ASSUME NEW h \in Int, h = k - aud.n PROVE Reaches(h, f)'
  OBVIOUS
<1> DEFINE d == aud.n
<1>1. /\ d \in Nat /\ k = h + d
      /\ \A i \in Waiting' : i \in Nat /\ i + d \in Waiting /\ cmd'[i] = cmd[i + d]
      /\ \A i \in Waiting : i \in Nat /\ i - d \in Waiting' /\ cmd'[i - d] = cmd[i]
  BY RingMoves DEF TypeOK
<1> HIDE DEF d
<1>0. \A i \in Waiting' : i < h <=> i + d < k
  BY <1>1
<1>5. \A i \in Waiting : i < k <=> i - d < h
  BY <1>1
<1>6. \A j \in Waiting, i \in Waiting' : j - d < i <=> j < i + d
  BY <1>1
<1>2. GenAt(h, f[1])'
  <2>1. CASE \E j \in Waiting : /\ j < k /\ IsA(j, "CREATE", f[1])
                                /\ \A i \in Waiting : j < i /\ i < k => cmd[i].t # "CREATE"
    <3>1. PICK j \in Waiting : /\ j < k /\ IsA(j, "CREATE", f[1])
                               /\ \A i \in Waiting : j < i /\ i < k => cmd[i].t # "CREATE"
      BY <2>1
    <3>2. j - d \in Waiting' /\ j - d < h /\ cmd'[j - d] = cmd[j]
      BY <1>1, <1>5, <3>1
    <3>3. \A i \in Waiting' : j - d < i /\ i < h => cmd'[i].t # "CREATE"
      BY <1>1, <1>0, <1>6, <3>1
    <3> QED
      BY <3>1, <3>2, <3>3 DEF GenAt, IsA
  <2>2. CASE voice.gen = f[1] /\ \A i \in Waiting : i < k => cmd[i].t # "CREATE"
    <3>1. \A i \in Waiting' : i < h => cmd'[i].t # "CREATE"
      BY <1>1, <1>0, <2>2
    <3> QED
      BY <2>2, <3>1 DEF GenAt, PendStays
  <2> QED
    BY <2>1, <2>2 DEF Reaches, GenAt
<1>3. PosAt(h, f[1], f[2])'
  <2>1. CASE \E j \in Waiting : /\ j < k /\ IsA(j, "SET_POS", f[1]) /\ cmd[j].n = f[2]
                                /\ \A i \in Waiting : j < i /\ i < k => ~IsA(i, "SET_POS", f[1])
    <3>1. PICK j \in Waiting : /\ j < k /\ IsA(j, "SET_POS", f[1]) /\ cmd[j].n = f[2]
                               /\ \A i \in Waiting : j < i /\ i < k => ~IsA(i, "SET_POS", f[1])
      BY <2>1
    <3>2. j - d \in Waiting' /\ j - d < h /\ cmd'[j - d] = cmd[j]
      BY <1>1, <1>5, <3>1
    <3>3. \A i \in Waiting' : j - d < i /\ i < h => ~(cmd'[i].t = "SET_POS" /\ cmd'[i].gen = f[1])
      BY <1>1, <1>0, <1>6, <3>1 DEF IsA
    <3> QED
      BY <3>1, <3>2, <3>3 DEF PosAt, IsA
  <2>2. CASE PosNow(f[1], f[2]) /\ \A i \in Waiting : i < k => ~IsA(i, "SET_POS", f[1])
    <3>1. \A i \in Waiting' : i < h => ~(cmd'[i].t = "SET_POS" /\ cmd'[i].gen = f[1])
      BY <1>1, <1>0, <2>2 DEF IsA
    <3> QED
      BY <2>2, <3>1 DEF PosAt, PosNow, PendStays, IsA
  <2> QED
    BY <2>1, <2>2 DEF Reaches, PosAt
<1>4. LisAt(h, f[3])'
  <2>1. CASE \E j \in Waiting : /\ j < k /\ cmd[j].t = "SET_LISTENER" /\ cmd[j].n = f[3]
                                /\ \A i \in Waiting : j < i /\ i < k => cmd[i].t # "SET_LISTENER"
    <3>1. PICK j \in Waiting : /\ j < k /\ cmd[j].t = "SET_LISTENER" /\ cmd[j].n = f[3]
                               /\ \A i \in Waiting : j < i /\ i < k => cmd[i].t # "SET_LISTENER"
      BY <2>1
    <3>2. j - d \in Waiting' /\ j - d < h /\ cmd'[j - d] = cmd[j]
      BY <1>1, <1>5, <3>1
    <3>3. \A i \in Waiting' : j - d < i /\ i < h => cmd'[i].t # "SET_LISTENER"
      BY <1>1, <1>0, <1>6, <3>1
    <3> QED
      BY <3>1, <3>2, <3>3 DEF LisAt
  <2>2. CASE lis.pend = f[3] /\ \A i \in Waiting : i < k => cmd[i].t # "SET_LISTENER"
    <3>1. \A i \in Waiting' : i < h => cmd'[i].t # "SET_LISTENER"
      BY <1>1, <1>0, <2>2
    <3> QED
      BY <2>2, <3>1 DEF LisAt, PendStays
  <2> QED
    BY <2>1, <2>2 DEF Reaches, LisAt
<1> QED
  BY <1>2, <1>3, <1>4 DEF Reaches

-----------------------------------------------------------------------------
(* Frames: what the first command finds. *)

\* What the voice is when the first command is reached.
LEMMA GenFirst ==
    ASSUME TypeOK, Lets, Took, NEW k \in Nat, k > aud.n + 1, NEW g, GenAt(k, g), Next1.t # "CREATE"
    PROVE  voice.gen = g \/ \E j \in Waiting : IsA(j, "CREATE", g) /\ j > aud.n + 1
<1>1. /\ aud.n + 1 \in Waiting /\ Next1 = cmd[aud.n + 1] /\ aud.n + 1 \in Nat
      /\ \A i \in Waiting : i \in Nat /\ i >= aud.n + 1
  BY FirstWaits, WaitingTyped DEF TypeOK
<1>2. CASE \E j \in Waiting : /\ j < k /\ IsA(j, "CREATE", g)
                              /\ \A i \in Waiting : j < i /\ i < k => cmd[i].t # "CREATE"
  <2>1. PICK j \in Waiting : IsA(j, "CREATE", g)
    BY <1>2
  <2>2. j # aud.n + 1
    BY <1>1, <2>1 DEF IsA
  <2>3. j > aud.n + 1
    BY <1>1, <2>2
  <2> QED
    BY <2>1, <2>3
<1> QED
  BY <1>2 DEF GenAt

LEMMA GenTake ==
    ASSUME TypeOK, Lets, Took, DrainsTo, NEW k \in Nat, k > aud.n + 1, NEW g, GenAt(k, g)
    PROVE  GenAt(k, g)'
<1> DEFINE e == aud.n + 1
<1>1. /\ e \in Waiting /\ Next1 = cmd[e] /\ e \in Nat /\ cmd' = cmd /\ e < k
      /\ \A i \in Waiting' : i \in Waiting /\ i > e
      /\ \A i \in Waiting : i \in Nat /\ i >= e /\ (i # e => i \in Waiting')
  BY FirstWaits, WaitingTyped DEF TypeOK
<1> HIDE DEF e
<1>2. cmd[e].t = "CREATE" => voice'.gen = cmd[e].gen
  BY <1>1 DEF DrainsTo, TookCreate, TookDestroy, TookSetPos, TookSetListener, TookCommit, TookPlay, TookStop
<1>3. cmd[e].t # "CREATE" => voice'.gen = voice.gen
  BY <1>1 DEF DrainsTo, TookCreate, TookDestroy, TookSetPos, TookSetListener, TookCommit, TookPlay, TookStop,
              TypeOK, VoiceTyped
<1>4. CASE \E j \in Waiting : /\ j < k /\ IsA(j, "CREATE", g)
                              /\ \A i \in Waiting : j < i /\ i < k => cmd[i].t # "CREATE"
  <2>1. PICK j \in Waiting : /\ j < k /\ IsA(j, "CREATE", g)
                             /\ \A i \in Waiting : j < i /\ i < k => cmd[i].t # "CREATE"
    BY <1>4
  <2>2. CASE j = e
    BY <1>1, <1>2, <2>1, <2>2 DEF GenAt, IsA
  <2>3. CASE j # e
    BY <1>1, <2>1, <2>3 DEF GenAt, IsA
  <2> QED
    BY <2>2, <2>3
<1>5. CASE voice.gen = g /\ \A i \in Waiting : i < k => cmd[i].t # "CREATE"
  BY <1>1, <1>3, <1>5 DEF GenAt
<1> QED
  BY <1>4, <1>5 DEF GenAt

LEMMA PosTake ==
    ASSUME TypeOK, Lets, Took, DrainsTo, NEW k \in Nat, k > aud.n + 1, NEW g, NEW p, GenAt(k, g), PosAt(k, g, p)
    PROVE  PosAt(k, g, p)'
<1> DEFINE e == aud.n + 1
<1>1. /\ e \in Waiting /\ Next1 = cmd[e] /\ e \in Nat /\ cmd' = cmd /\ e < k
      /\ \A i \in Waiting' : i \in Waiting /\ i > e
      /\ \A i \in Waiting : i \in Nat /\ i >= e /\ (i # e => i \in Waiting')
      /\ \A i \in Waiting : cmd[i].gen \in Nat
  BY FirstWaits, WaitingTyped DEF TypeOK
<1>2. cmd[e].t # "CREATE" => voice.gen = g \/ \E j \in Waiting : IsA(j, "CREATE", g) /\ j > e
  BY <1>1, GenFirst
<1> HIDE DEF e
<1>3. voice.gen \in Nat
  BY PlaysTypes
<1>4. ASSUME cmd[e].t = "SET_POS", cmd[e].gen = g PROVE voice.gen = g
  <2>1. cmd[e].gen <= voice.gen \/ \E j \in Waiting : j < e /\ IsA(j, "CREATE", cmd[e].gen)
    BY <1>1, <1>4 DEF Lets, OfVoice
  <2>2. \A j \in Waiting : ~(j < e)
    BY <1>1
  <2>3. cmd[e].gen <= voice.gen
    BY <2>1, <2>2
  <2>4. g <= voice.gen /\ g \in Nat
    BY <1>1, <1>4, <2>3
  <2>5. ASSUME NEW j \in Waiting, IsA(j, "CREATE", g) PROVE FALSE
    <3>1. cmd[j].gen > voice.gen /\ cmd[j].gen = g
      BY <2>5 DEF Lets, IsA
    <3> QED
      BY <1>3, <2>4, <3>1
  <2> QED
    BY <1>2, <1>4, <2>5
\* where the pending value stands once the first command is handled
<1>5. ASSUME ~IsA(e, "SET_POS", g), PosNow(g, p) PROVE PosNow(g, p)'
  <2>1. CASE TookCreate
    <3>1. voice'.gen = cmd[e].gen /\ voice'.pend = 0 /\ cmd[e].t = "CREATE" /\ cmd[e].gen > voice.gen
      BY <1>1, <2>1 DEF TookCreate, Lets
    <3>2. voice.gen # g
      <4>1. CASE \E j \in Waiting : IsA(j, "CREATE", g)
        BY <1>1, <1>3, <4>1 DEF Lets, IsA
      <4>2. CASE voice.gen = g /\ \A i \in Waiting : i < k => cmd[i].t # "CREATE"
        BY <1>1, <3>1, <4>2
      <4> QED
        BY <4>1, <4>2 DEF GenAt
    <3> QED
      BY <1>5, <3>1, <3>2 DEF PosNow
  <2>2. CASE TookSetPos
    <3>1. cmd[e].gen # g
      BY <1>1, <1>5, <2>2 DEF TookSetPos, IsA
    <3>2. voice'.gen = voice.gen /\ voice'.active = voice.active
      BY <2>2 DEF TookSetPos, TypeOK, VoiceTyped
    <3>3. voice.gen = g => voice'.pend = voice.pend
      BY <1>1, <2>2, <3>1 DEF TookSetPos, Mine
    <3> QED
      BY <1>5, <3>2, <3>3 DEF PosNow
  <2>3. CASE TookDestroy \/ TookSetListener \/ TookCommit \/ TookPlay \/ TookStop
    <3>1. voice'.gen = voice.gen /\ voice'.pend = voice.pend /\ (voice'.active => voice.active)
      BY <2>3 DEF TookDestroy, TookSetListener, TookCommit, TookPlay, TookStop, TypeOK, VoiceTyped
    <3> QED
      BY <1>5, <3>1 DEF PosNow
  <2> QED
    BY <2>1, <2>2, <2>3 DEF DrainsTo
<1>6. CASE \E j \in Waiting : /\ j < k /\ IsA(j, "SET_POS", g) /\ cmd[j].n = p
                              /\ \A i \in Waiting : j < i /\ i < k => ~IsA(i, "SET_POS", g)
  <2>1. PICK j \in Waiting : /\ j < k /\ IsA(j, "SET_POS", g) /\ cmd[j].n = p
                             /\ \A i \in Waiting : j < i /\ i < k => ~IsA(i, "SET_POS", g)
    BY <1>6
  <2>2. CASE j = e
    <3>1. cmd[e].t = "SET_POS" /\ cmd[e].gen = g /\ voice.gen = g
      BY <1>4, <2>1, <2>2 DEF IsA
    <3>2. TookSetPos
      BY <1>1, <3>1 DEF DrainsTo, TookCreate, TookDestroy, TookSetListener, TookCommit, TookPlay, TookStop
    <3>3. voice'.gen = g /\ (voice'.active => voice'.pend = p)
      BY <1>1, <2>1, <2>2, <3>1, <3>2 DEF TookSetPos, Mine, TypeOK, VoiceTyped
    <3>4. \A i \in Waiting' : i < k => ~(cmd'[i].t = "SET_POS" /\ cmd'[i].gen = g)
      BY <1>1, <2>1, <2>2 DEF IsA
    <3> QED
      BY <3>3, <3>4 DEF PosAt, PosNow, IsA
  <2>3. CASE j # e
    BY <1>1, <2>1, <2>3 DEF PosAt, IsA
  <2> QED
    BY <2>2, <2>3
<1>7. CASE PosNow(g, p) /\ \A i \in Waiting : i < k => ~IsA(i, "SET_POS", g)
  <2>1. ~IsA(e, "SET_POS", g)
    BY <1>1, <1>7
  <2>2. PosNow(g, p)'
    BY <1>5, <1>7, <2>1
  <2>3. \A i \in Waiting' : i < k => ~(cmd'[i].t = "SET_POS" /\ cmd'[i].gen = g)
    BY <1>1, <1>7 DEF IsA
  <2> QED
    BY <2>2, <2>3 DEF PosAt, IsA
<1> QED
  BY <1>6, <1>7 DEF PosAt

LEMMA LisTake ==
    ASSUME TypeOK, Took, DrainsTo, NEW k \in Nat, k > aud.n + 1, NEW l, LisAt(k, l)
    PROVE  LisAt(k, l)'
<1> DEFINE e == aud.n + 1
<1>1. /\ e \in Waiting /\ Next1 = cmd[e] /\ e \in Nat /\ cmd' = cmd /\ e < k
      /\ \A i \in Waiting' : i \in Waiting /\ i > e
      /\ \A i \in Waiting : i \in Nat /\ i >= e /\ (i # e => i \in Waiting')
  BY FirstWaits, WaitingTyped DEF TypeOK
<1> HIDE DEF e
<1>2. cmd[e].t = "SET_LISTENER" => lis'.pend = cmd[e].n
  BY <1>1 DEF DrainsTo, TookCreate, TookDestroy, TookSetPos, TookSetListener, TookCommit, TookPlay, TookStop,
              TypeOK, VoiceTyped
<1>3. cmd[e].t # "SET_LISTENER" => lis'.pend = lis.pend
  BY <1>1 DEF DrainsTo, TookCreate, TookDestroy, TookSetPos, TookSetListener, TookCommit, TookPlay, TookStop,
              TypeOK, VoiceTyped
<1>4. CASE \E j \in Waiting : /\ j < k /\ cmd[j].t = "SET_LISTENER" /\ cmd[j].n = l
                              /\ \A i \in Waiting : j < i /\ i < k => cmd[i].t # "SET_LISTENER"
  <2>1. PICK j \in Waiting : /\ j < k /\ cmd[j].t = "SET_LISTENER" /\ cmd[j].n = l
                             /\ \A i \in Waiting : j < i /\ i < k => cmd[i].t # "SET_LISTENER"
    BY <1>4
  <2>2. CASE j = e
    BY <1>1, <1>2, <2>1, <2>2 DEF LisAt
  <2>3. CASE j # e
    BY <1>1, <2>1, <2>3 DEF LisAt
  <2> QED
    BY <2>2, <2>3
<1>5. CASE lis.pend = l /\ \A i \in Waiting : i < k => cmd[i].t # "SET_LISTENER"
  BY <1>1, <1>3, <1>5 DEF LisAt
<1> QED
  BY <1>4, <1>5 DEF LisAt

\* A commit that is reached finds the frame it was given.
LEMMA ReachNow ==
    ASSUME TypeOK, aud.n + 1 \in Waiting, NEW f \in Nat \X Nat \X Nat, Reaches(aud.n + 1, f), voice.active
    PROVE  f = <<voice.gen, voice.pend, lis.pend>>
<1>1. \A j \in Waiting : ~(j < aud.n + 1)
  BY WaitingTyped DEF TypeOK
<1>2. voice.gen = f[1] /\ PosNow(f[1], f[2]) /\ lis.pend = f[3]
  BY <1>1 DEF Reaches, GenAt, PosAt, LisAt
<1>3. voice.pend = f[2]
  BY <1>2 DEF PosNow
<1> QED
  BY <1>2, <1>3

-----------------------------------------------------------------------------
(* Frames, action by action. *)

\* The frame under way, the commits that wait, and the last one promoted.
NextFrame == \E f \in Nat \X Nat \X Nat :
    f = <<slot.gen, app.pos, app.lis>> /\ Reaches(Len(cmd) + 1, f)
CommitsReach == \A k \in Waiting : cmd[k].t = "COMMIT" => \E f \in frames : Reaches(k, f)
Promoted == voice.active /\ voice.pos # 0 => <<voice.gen, voice.pos, lis.pos>> \in frames

LEMMA FramesParts ==
    ASSUME TypeOK
    PROVE  FramesKept <=> (~app.lost => NextFrame /\ CommitsReach /\ Promoted)
<1>1. <<slot.gen, app.pos, app.lis>> \in Nat \X Nat \X Nat
  BY DEF TypeOK, ClientTyped
<1> QED
  BY <1>1 DEF FramesKept, NextFrame, CommitsReach, Promoted

LEMMA FramesAfter ==
    ASSUME ~app'.lost => NextFrame' /\ CommitsReach' /\ Promoted'
    PROVE  FramesKept'
BY DEF FramesKept, NextFrame, CommitsReach, Promoted

\* What is promoted changes with a commit, or with the voice.
LEMMA PromotedStays ==
    ASSUME Promoted, frames \subseteq frames', voice'.gen = voice.gen, voice'.pos = voice.pos, lis'.pos = lis.pos,
           voice'.active => voice.active
    PROVE  Promoted'
BY DEF Promoted

LEMMA CommitsStay ==
    ASSUME TypeOK, CommitsReach, Kept, PendStays, frames \subseteq frames'
    PROVE  CommitsReach'
<1>1. Waiting' = Waiting /\ cmd' = cmd
  BY RingStays
<1> SUFFICES ASSUME NEW k \in Waiting', cmd'[k].t = "COMMIT"
             PROVE  \E f \in frames' : Reaches(k, f)'
  BY DEF CommitsReach
<1>2. PICK f \in frames : Reaches(k, f)
  BY <1>1 DEF CommitsReach
<1> QED
  BY <1>2, ReachStay

LEMMA CommitsGrow ==
    ASSUME TypeOK, CommitsReach, NEW c \in Command, Grew(c), PendStays, frames \subseteq frames',
           c.t = "COMMIT" => \E f \in frames' : Reaches(Len(cmd) + 1, f)
    PROVE  CommitsReach'
<1>0. RingTyped
  BY DEF TypeOK
<1>1. /\ Waiting' = Waiting \cup {Len(cmd) + 1} /\ cmd'[Len(cmd) + 1] = c /\ Len(cmd) \in Nat
      /\ \A k \in Waiting : cmd'[k] = cmd[k] /\ k \in Nat /\ k < Len(cmd) + 1
  BY <1>0, RingGrows
<1> SUFFICES ASSUME NEW k \in Waiting', cmd'[k].t = "COMMIT"
             PROVE  \E f \in frames' : Reaches(k, f)'
  BY DEF CommitsReach
<1>2. k \in Nat /\ k <= Len(cmd) + 1
  BY <1>1
<1>3. PICK f \in frames' : Reaches(k, f)
  <2>1. CASE k = Len(cmd) + 1
    BY <1>1, <2>1
  <2>2. CASE k \in Waiting
    BY <1>1, <2>2 DEF CommitsReach
  <2> QED
    BY <1>1, <2>1, <2>2
<1>4. Reaches(k, f)'
  BY <1>0, <1>2, <1>3, ReachBefore
<1> QED
  BY <1>4

LEMMA NextFrameStays ==
    ASSUME TypeOK, NextFrame, Kept, PendStays, slot'.gen = slot.gen, app'.pos = app.pos, app'.lis = app.lis
    PROVE  NextFrame'
<1>1. PICK f \in Nat \X Nat \X Nat : f = <<slot.gen, app.pos, app.lis>> /\ Reaches(Len(cmd) + 1, f)
  BY DEF NextFrame
<1>2. PICK k : k = Len(cmd) + 1
  OBVIOUS
<1>3. Reaches(k, f)'
  BY <1>1, <1>2, ReachStay
<1>4. k = Len(cmd') + 1
  BY <1>2, RingStays
<1>5. Reaches(Len(cmd) + 1, f)'
  BY <1>3, <1>4 DEF Reaches, GenAt, PosAt, LisAt
<1> QED
  BY <1>1, <1>5 DEF NextFrame

LEMMA FramesAside ==
    ASSUME TypeOK, TypeOK', FramesKept, Kept, PendStays, slot'.gen = slot.gen, app'.pos = app.pos,
           app'.lis = app.lis, app'.lost = app.lost, frames' = frames, voice'.pos = voice.pos, lis'.pos = lis.pos
    PROVE  FramesKept'
<1> SUFFICES ASSUME ~app'.lost PROVE NextFrame' /\ CommitsReach' /\ Promoted'
  BY FramesAfter
<1>1. NextFrame /\ CommitsReach /\ Promoted
  BY FramesParts
<1> QED
  BY <1>1, NextFrameStays, CommitsStay, PromotedStays DEF PendStays

LEMMA FramesCreate ==
    ASSUME TypeOK, TypeOK', Lets, FramesKept, CreateSource
    PROVE  FramesKept'
<1> SUFFICES ASSUME ~app'.lost PROVE NextFrame' /\ CommitsReach' /\ Promoted'
  BY FramesAfter
<1>1. PICK c \in Command : /\ c.t = "CREATE" /\ c.gen = slot.gen + 1 /\ Grew(c)
                           /\ slot'.gen = slot.gen + 1 /\ app'.pos = 0 /\ app'.lis = app.lis /\ app'.lost = app.lost
                           /\ frames' = frames /\ UNCHANGED audVars
  BY CreateEffect
<1>2. NextFrame /\ CommitsReach /\ Promoted
  BY <1>1, FramesParts
<1>3. voice' = voice /\ lis' = lis
  BY <1>1 DEF audVars
<1>4. PendStays
  BY <1>3 DEF PendStays
<1>5. RingTyped
  BY DEF TypeOK
<1>6. CommitsReach' /\ Promoted'
  BY <1>1, <1>2, <1>3, <1>4, CommitsGrow, PromotedStays
<1>7. PICK f \in Nat \X Nat \X Nat : f = <<slot.gen, app.pos, app.lis>> /\ Reaches(Len(cmd) + 1, f)
  BY <1>2 DEF NextFrame
<1>8. PICK g \in Nat : g = slot.gen + 1
  BY DEF TypeOK, ClientTyped
<1>9. GenAt(Len(cmd) + 1, g)'
  <2>1. GenAt(Len(cmd) + 1, c.gen)'
    BY <1>1, <1>5, SetsAfter
  <2> QED
    BY <1>1, <1>8, <2>1
<1>10. PosAt(Len(cmd) + 1, g, 0)'
  <2>1. voice.gen # g /\ \A k \in Waiting : cmd[k].gen # g
    BY <1>8, PlaysTypes DEF Lets
  <2>2. PosAt(Len(cmd) + 1, g, 0)
    BY <2>1 DEF PosAt, PosNow, IsA
  <2>3. ~(c.t = "SET_POS" /\ c.gen = g)
    BY <1>1
  <2> QED
    BY <1>1, <1>4, <1>5, <2>2, <2>3, PosAfter
<1>11. LisAt(Len(cmd) + 1, f[3])'
  BY <1>1, <1>4, <1>5, <1>7, LisAfter DEF Reaches
<1>12. PICK h \in Nat \X Nat \X Nat : h = <<g, 0, f[3]>>
  OBVIOUS
<1>13. Reaches(Len(cmd) + 1, h)'
  BY <1>9, <1>10, <1>11, <1>12 DEF Reaches
<1>14. h = <<slot'.gen, app'.pos, app'.lis>>
  BY <1>1, <1>7, <1>8, <1>12
<1> QED
  BY <1>6, <1>13, <1>14 DEF NextFrame

\* The frame under way after a call: one of its parts is new, or none.
LEMMA FramesCall ==
    ASSUME TypeOK, TypeOK', FramesKept, Control, ~CreateSource, ~Poll
    PROVE  FramesKept'
<1> SUFFICES ASSUME ~app'.lost PROVE NextFrame' /\ CommitsReach' /\ Promoted'
  BY FramesAfter
<1>1. PICK c \in Command : /\ Calls1(c) /\ (IF Room THEN Grew(c) ELSE Kept) /\ UNCHANGED audVars
  BY CallEffect
<1>2. voice' = voice /\ lis' = lis
  BY <1>1 DEF audVars
<1>3. PendStays
  BY <1>2 DEF PendStays
<1>4. slot'.gen = slot.gen
  BY CallSlot
<1>5. ~app.lost /\ (c.t \in {"SET_POS", "SET_LISTENER"} => Room)
  BY <1>1 DEF Calls1, TypeOK, ClientTyped
<1>6. NextFrame /\ CommitsReach /\ Promoted /\ RingTyped
  BY <1>5, FramesParts DEF TypeOK
<1>7. frames \subseteq frames'
  BY <1>1 DEF Calls1
<1>8. Promoted'
  BY <1>2, <1>6, <1>7, PromotedStays
<1>9. PICK f \in Nat \X Nat \X Nat : f = <<slot.gen, app.pos, app.lis>> /\ Reaches(Len(cmd) + 1, f)
  BY <1>6 DEF NextFrame
<1>10. CASE ~Room
  <2>1. app'.pos = app.pos /\ app'.lis = app.lis
    BY <1>1, <1>5, <1>10 DEF Calls1
  <2>2. CommitsReach' /\ NextFrame'
    BY <1>1, <1>3, <1>4, <1>6, <1>7, <1>10, <2>1, CommitsStay, NextFrameStays
  <2> QED
    BY <1>8, <2>2
<1>11. CASE Room
  <2>1. Grew(c)
    BY <1>1, <1>11
  <2>2. c.t = "COMMIT" => f \in frames'
    BY <1>1, <1>9, <1>11 DEF Calls1
  <2>3. CommitsReach'
    BY <1>3, <1>6, <1>7, <1>9, <2>1, <2>2, CommitsGrow
  <2>4. c.t # "CREATE" /\ (c.t = "SET_POS" => c.gen = f[1])
    BY <1>1, <1>9 DEF Calls1
  <2>5. GenAt(Len(cmd) + 1, f[1])'
    BY <1>3, <1>6, <1>9, <2>1, <2>4, GenAfter DEF Reaches
  <2>6. CASE c.t = "SET_POS"
    <3>1. PosAt(Len(cmd) + 1, c.gen, c.n)'
      BY <1>6, <2>1, <2>6, SetsAfter
    <3>2. LisAt(Len(cmd) + 1, f[3])'
      BY <1>3, <1>6, <1>9, <2>1, <2>6, LisAfter DEF Reaches
    <3>3. app'.pos = c.n /\ app'.lis = app.lis /\ c.n \in Nat
      BY <1>1, <2>6 DEF Calls1, TypeOK, ClientTyped, Command
    <3>4. PICK h \in Nat \X Nat \X Nat : h = <<f[1], c.n, f[3]>>
      BY <3>3
    <3>5. Reaches(Len(cmd) + 1, h)'
      BY <2>4, <2>5, <2>6, <3>1, <3>2, <3>4 DEF Reaches
    <3>6. h = <<slot'.gen, app'.pos, app'.lis>>
      BY <1>4, <1>9, <3>3, <3>4
    <3> QED
      BY <1>8, <2>3, <3>5, <3>6 DEF NextFrame
  <2>7. CASE c.t = "SET_LISTENER"
    <3>1. LisAt(Len(cmd) + 1, c.n)'
      BY <1>6, <2>1, <2>7, SetsAfter
    <3>2. PosAt(Len(cmd) + 1, f[1], f[2])'
      BY <1>3, <1>6, <1>9, <2>1, <2>7, PosAfter DEF Reaches
    <3>3. app'.lis = c.n /\ app'.pos = app.pos /\ c.n \in Nat
      BY <1>1, <2>7 DEF Calls1, TypeOK, ClientTyped, Command
    <3>4. PICK h \in Nat \X Nat \X Nat : h = <<f[1], f[2], c.n>>
      BY <3>3
    <3>5. Reaches(Len(cmd) + 1, h)'
      BY <2>5, <3>1, <3>2, <3>4 DEF Reaches
    <3>6. h = <<slot'.gen, app'.pos, app'.lis>>
      BY <1>4, <1>9, <3>3, <3>4
    <3> QED
      BY <1>8, <2>3, <3>5, <3>6 DEF NextFrame
  <2>8. CASE c.t \notin {"SET_POS", "SET_LISTENER"}
    <3>1. PosAt(Len(cmd) + 1, f[1], f[2])' /\ LisAt(Len(cmd) + 1, f[3])'
      BY <1>3, <1>6, <1>9, <2>1, <2>8, PosAfter, LisAfter DEF Reaches
    <3>2. Reaches(Len(cmd) + 1, f)'
      BY <2>5, <3>1 DEF Reaches
    <3>3. app'.pos = app.pos /\ app'.lis = app.lis
      BY <1>1, <2>8 DEF Calls1
    <3>4. f = <<slot'.gen, app'.pos, app'.lis>>
      BY <1>4, <1>9, <3>3
    <3> QED
      BY <1>8, <2>3, <3>2, <3>4 DEF NextFrame
  <2> QED
    BY <2>6, <2>7, <2>8
<1> QED
  BY <1>10, <1>11

LEMMA FramesDrain ==
    ASSUME TypeOK, TypeOK', Lets, FramesKept, Drain, ~EndDrain
    PROVE  FramesKept'
<1> SUFFICES ASSUME ~app'.lost PROVE NextFrame' /\ CommitsReach' /\ Promoted'
  BY FramesAfter
<1>1. DrainsTo /\ Took /\ slot' = slot /\ app' = app /\ frames' = frames
  BY DrainEffect
<1>2. NextFrame /\ CommitsReach /\ Promoted /\ RingTyped
  BY <1>1, FramesParts DEF TypeOK
<1>3. /\ aud.n + 1 \in Waiting /\ Next1 = cmd[aud.n + 1] /\ aud.n + 1 \in Nat /\ cmd' = cmd
      /\ \A i \in Waiting' : i \in Waiting /\ i > aud.n + 1 /\ i \in Nat
  BY <1>1, FirstWaits
<1>4. ASSUME NEW k \in Nat, k > aud.n + 1, NEW f, Reaches(k, f)
      PROVE  Reaches(k, f)'
  BY <1>1, <1>4, GenTake, PosTake, LisTake DEF Reaches
<1>5. CommitsReach'
  <2> SUFFICES ASSUME NEW k \in Waiting', cmd'[k].t = "COMMIT"
               PROVE  \E f \in frames' : Reaches(k, f)'
    BY DEF CommitsReach
  <2>1. k \in Nat /\ k > aud.n + 1 /\ k \in Waiting /\ cmd[k].t = "COMMIT"
    BY <1>3
  <2>2. PICK f \in frames : Reaches(k, f)
    BY <1>2, <2>1 DEF CommitsReach
  <2>3. Reaches(k, f)'
    BY <1>4, <2>1, <2>2
  <2> QED
    BY <1>1, <2>3
<1>6. NextFrame'
  <2>1. PICK f \in Nat \X Nat \X Nat : f = <<slot.gen, app.pos, app.lis>> /\ Reaches(Len(cmd) + 1, f)
    BY <1>2 DEF NextFrame
  <2>2. PICK k \in Nat : k = Len(cmd) + 1
    BY WaitingTyped DEF TypeOK
  <2>3. k > aud.n + 1
    BY <1>3, <2>2, WaitingTyped DEF TypeOK
  <2>4. Reaches(k, f)'
    BY <1>4, <2>1, <2>2, <2>3
  <2>5. Reaches(Len(cmd) + 1, f)'
    BY <1>3, <2>2, <2>4 DEF Reaches, GenAt, PosAt, LisAt
  <2> QED
    BY <1>1, <2>1, <2>5 DEF NextFrame
<1>7. Promoted'
  <2>1. CASE TookCreate
    BY <2>1 DEF TookCreate, Promoted
  <2>2. CASE TookCommit
    <3>1. CASE voice.active
      <4>1. PICK f \in frames : Reaches(aud.n + 1, f)
        BY <1>2, <1>3, <2>2 DEF CommitsReach, TookCommit
      <4>2. f \in Nat \X Nat \X Nat
        BY <4>1 DEF TypeOK, ClientTyped
      <4>3. f = <<voice.gen, voice.pend, lis.pend>>
        BY <1>3, <3>1, <4>1, <4>2, ReachNow
      <4>4. voice'.gen = voice.gen /\ voice'.pos = voice.pend /\ lis'.pos = lis.pend
        BY <2>2, <3>1 DEF TookCommit, TypeOK, VoiceTyped
      <4> QED
        BY <1>1, <4>1, <4>3, <4>4 DEF Promoted
    <3>2. CASE ~voice.active
      BY <2>2, <3>2 DEF TookCommit, Promoted
    <3> QED
      BY <3>1, <3>2
  <2>3. CASE TookDestroy \/ TookSetPos \/ TookSetListener \/ TookPlay \/ TookStop
    <3>1. /\ voice'.gen = voice.gen /\ voice'.pos = voice.pos /\ lis'.pos = lis.pos
          /\ voice'.active => voice.active
      <4>1. CASE TookDestroy \/ TookSetPos
        BY <4>1 DEF TookDestroy, TookSetPos, TypeOK, VoiceTyped
      <4>2. CASE TookSetListener \/ TookPlay \/ TookStop
        BY <4>2 DEF TookSetListener, TookPlay, TookStop, TypeOK, VoiceTyped
      <4> QED
        BY <2>3, <4>1, <4>2
    <3> QED
      BY <1>1, <1>2, <3>1, PromotedStays
  <2> QED
    BY <1>1, <2>1, <2>2, <2>3 DEF DrainsTo
<1> QED
  BY <1>5, <1>6, <1>7

LEMMA FramesEnd ==
    ASSUME TypeOK, TypeOK', FramesKept, EndDrain
    PROVE  FramesKept'
<1> SUFFICES ASSUME ~app'.lost PROVE NextFrame' /\ CommitsReach' /\ Promoted'
  BY FramesAfter
<1>1. UNCHANGED <<slot, app, frames, voice, lis>>
  BY EndEffect
<1>2. NextFrame /\ CommitsReach /\ Promoted /\ RingTyped
  BY <1>1, FramesParts DEF TypeOK
<1>3. PendStays
  BY <1>1 DEF PendStays
<1>4. /\ aud.n \in Nat /\ Len(cmd) \in Nat /\ Len(cmd') = Len(cmd) - aud.n
      /\ \A k \in Waiting' : k \in Nat /\ k + aud.n \in Waiting /\ cmd'[k] = cmd[k + aud.n]
  BY <1>2, RingMoves
<1>5. CommitsReach'
  <2> SUFFICES ASSUME NEW k \in Waiting', cmd'[k].t = "COMMIT"
               PROVE  \E f \in frames' : Reaches(k, f)'
    BY DEF CommitsReach
  <2>1. PICK h \in Nat : h = k + aud.n
    BY <1>4
  <2>2. h \in Waiting /\ cmd[h].t = "COMMIT"
    BY <1>4, <2>1
  <2>3. PICK f \in frames : Reaches(h, f)
    BY <1>2, <2>2 DEF CommitsReach
  <2>4. k \in Int /\ k = h - aud.n
    BY <1>4, <2>1
  <2>5. Reaches(k, f)'
    BY <1>3, <2>3, <2>4, ReachMove
  <2> QED
    BY <1>1, <2>3, <2>5
<1>6. NextFrame'
  <2>1. PICK f \in Nat \X Nat \X Nat : f = <<slot.gen, app.pos, app.lis>> /\ Reaches(Len(cmd) + 1, f)
    BY <1>2 DEF NextFrame
  <2>2. PICK h \in Nat : h = Len(cmd) + 1
    BY <1>4
  <2>3. PICK k \in Int : k = h - aud.n
    BY <1>4
  <2>4. Reaches(k, f)'
    BY <1>3, <2>1, <2>2, <2>3, ReachMove
  <2>5. k = Len(cmd') + 1
    BY <1>4, <2>2, <2>3
  <2>6. Reaches(Len(cmd) + 1, f)'
    BY <2>4, <2>5 DEF Reaches, GenAt, PosAt, LisAt
  <2> QED
    BY <1>1, <2>1, <2>6 DEF NextFrame
<1> QED
  BY <1>1, <1>2, <1>5, <1>6, PromotedStays

LEMMA FramesStep ==
    ASSUME TypeOK, Lets, FramesKept, [Next]_vars PROVE FramesKept'
<1>0. TypeOK'
  BY StepTyped
<1>1. CASE Aside
  BY <1>0, <1>1, AsideEffect, FramesAside DEF PendStays
<1>2. CASE Mix
  BY <1>0, <1>2, MixEffect, FramesAside DEF PendStays
<1> QED
  BY <1>0, <1>1, <1>2, FramesCreate, FramesCall, FramesDrain, FramesEnd, NextKinds

LEMMA InitFrames == ASSUME Init PROVE FramesKept
<1>1. Waiting = {} /\ slot.gen = 0 /\ voice.gen = 0 /\ voice.active = FALSE /\ app.pos = 0 /\ app.lis = 0
      /\ lis.pend = 0
  BY DEF Init, Waiting
<1>2. PICK f : f = <<slot.gen, app.pos, app.lis>>
  OBVIOUS
<1>3. Reaches(Len(cmd) + 1, f)
  BY <1>1, <1>2 DEF Reaches, GenAt, PosAt, PosNow, LisAt
<1> QED
  BY <1>1, <1>2, <1>3 DEF FramesKept

\* A voice that is mixed is in use.
LEMMA AliveStep ==
    ASSUME TypeOK, Plays, MixesAlive, [Next]_vars PROVE MixesAlive'
<1>1. CASE EndDrain
  <2>1. voice' = voice /\ (aud'.pc = "mix" => voice.active) /\ aud'.pc \in {"mix", "publish"}
    BY <1>1 DEF EndDrain
  <2> QED
    BY <2>1 DEF MixesAlive
<1>2. CASE Drain /\ ~EndDrain
  BY <1>2, DrainEffect, FirstWaits DEF MixesAlive
<1>3. CASE Mix
  <2>1. aud.pc \notin {"mix", "read", "mixing"} => aud'.pc \notin {"mix", "read", "mixing"}
    BY <1>3 DEF Mix, MixLook, MixRead, MixOn, MixStopped, MixEnd, Publish, TypeOK, RingTyped
  <2> QED
    BY <1>3, <2>1, MixEffect DEF MixesAlive
<1>4. CASE Control \/ Set \/ UNCHANGED vars
  <2>1. aud' = aud /\ voice' = voice
    BY <1>4, SetElse DEF Control, CreateSource, DestroySource, SetPos, SetListener, Play, Stop, Commit, Poll,
       audVars, vars
  <2> QED
    BY <2>1 DEF MixesAlive
<1>5. CASE BeginBlock
  BY <1>5 DEF BeginBlock, MixesAlive
<1> QED
  BY <1>1, <1>2, <1>3, <1>4, <1>5, NextKinds DEF Aside, Control

\* The invariant of frames.
FrameIInv == TypeOK /\ Lets /\ Plays /\ FramesKept /\ MixesAlive

\* The mixer never sees half a frame: position and listener of a voice that is mixed are those of one
\* commit, unless the ring has refused a setter.
THEOREM FrameWholeAlways == Spec => []FrameWhole
<1>1. Init => FrameIInv
  BY InitTyped, InitLets, InitPlays, InitFrames DEF FrameIInv, MixesAlive, Init
<1>2. FrameIInv /\ [Next]_vars => FrameIInv'
  BY StepTyped, LetsStep, PlaysStep, FramesStep, AliveStep DEF FrameIInv
<1>3. FrameIInv => FrameWhole
  BY DEF FrameIInv, FramesKept, MixesAlive, FrameWhole
<1> QED
  BY <1>1, <1>2, <1>3, PTL DEF Spec

-----------------------------------------------------------------------------
(* Occlusion. *)

\* At most one setter is under way.
LEMMA OneSetter ==
    ASSUME OnePublisher, TypeOK, Occlusion, NEW p \in Publisher, p \in calls, NEW q \in Publisher, q # p
    PROVE  setter[q] = Quiet
<1>1. Publisher = {p, q}
  BY DEF Publisher
<1>2. calls \in Uses
  BY DEF TypeOK, ClientTyped
<1>3. q \notin calls
  BY <1>1, <1>2 DEF OnePublisher
<1> QED
  BY <1>3 DEF Occlusion

LEMMA OccTypes ==
    ASSUME TypeOK
    PROVE  /\ occ.h \in Nat /\ occ.w \in Nat /\ slot.gen \in Nat /\ voice.gen \in Nat /\ mix.w \in Nat
           /\ occ = [h |-> occ.h, w |-> occ.w] /\ DOMAIN setter = Publisher
           /\ \A p \in Publisher : setter[p].gen \in Nat /\ setter[p] = [pc |-> setter[p].pc, gen |-> setter[p].gen]
<1>1. occ \in [h : Nat, w : Nat] /\ mix \in [mine : BOOLEAN, w : Nat]
  BY DEF TypeOK, OccTyped
<1>2. ASSUME NEW p \in Publisher
      PROVE  setter[p].gen \in Nat /\ setter[p] = [pc |-> setter[p].pc, gen |-> setter[p].gen]
  <2>1. setter[p] \in [pc : {"idle", "word", "handle"}, gen : Nat]
    BY DEF TypeOK, OccTyped
  <2> QED
    BY <2>1
<1>3. DOMAIN setter = Publisher
  BY DEF TypeOK, OccTyped
<1> QED
  BY <1>1, <1>2, <1>3 DEF TypeOK, ClientTyped, VoiceTyped

\* The parts of Occlusion: the words, the setters, the mixer's read.
Words == occ.h <= slot.gen /\ occ.w <= slot.gen /\ (occ.h # 0 => occ.w = 0 \/ occ.w >= occ.h)
SetterKnows(p) ==
    setter[p] # Quiet =>
        /\ p \in calls
        /\ setter[p].gen <= slot.gen /\ setter[p].gen >= occ.h /\ setter[p].gen >= occ.w
        /\ setter[p].pc = "handle" => occ.w \in {0, setter[p].gen}
ReadsOwn ==
    /\ aud.pc = "read" => mix.mine /\ occ.h >= voice.gen
    /\ aud.pc = "mixing" /\ mix.mine => mix.w = 0 \/ mix.w >= voice.gen

LEMMA OcclusionParts == Occlusion <=> Words /\ (\A p \in Publisher : SetterKnows(p)) /\ ReadsOwn
BY DEF Occlusion, Words, SetterKnows, ReadsOwn

LEMMA OcclusionAfter ==
    ASSUME Words', \A p \in Publisher : SetterKnows(p)', ReadsOwn'
    PROVE  Occlusion'
BY DEF Occlusion, Words, SetterKnows, ReadsOwn

LEMMA OccControl ==
    ASSUME TypeOK, TypeOK', Occlusion, Control PROVE Occlusion'
<1>1. UNCHANGED <<calls, voice, lis, pub, occ, setter, mix>>
  BY ControlElse
<1>2. aud' = aud
  BY ControlRing
<1>3. slot'.gen \in Nat /\ slot'.gen >= slot.gen
  BY DEF Control, CreateSource, DestroySource, SetPos, SetListener, Play, Stop, Commit, Poll, ctlVars,
         TypeOK, ClientTyped
<1>4. slot.gen \in Nat /\ occ.h \in Nat /\ occ.w \in Nat /\ \A p \in Publisher : setter[p].gen \in Nat
  BY OccTypes
<1>5. Words'
  BY <1>1, <1>3, <1>4 DEF Occlusion, Words
<1>6. ASSUME NEW p \in Publisher PROVE SetterKnows(p)'
  BY <1>1, <1>3, <1>4 DEF Occlusion, SetterKnows
<1>7. ReadsOwn'
  BY <1>1, <1>2 DEF Occlusion, ReadsOwn
<1> QED
  BY <1>5, <1>6, <1>7, OcclusionAfter

LEMMA OccSet ==
    ASSUME OnePublisher, TypeOK, TypeOK', Occlusion, Set PROVE Occlusion'
<1>1. UNCHANGED <<calls, slot, aud, voice, mix>>
  BY SetElse
<1>2. PICK p \in Publisher : SetDirect(p) \/ StoreWord(p) \/ StoreHandle(p)
  BY DEF Set
<1>3. /\ occ.h \in Nat /\ occ.w \in Nat /\ slot.gen \in Nat /\ voice.gen \in Nat /\ setter[p].gen \in Nat
      /\ DOMAIN setter = Publisher
  BY OccTypes
<1>4. Words /\ SetterKnows(p) /\ ReadsOwn
  BY OcclusionParts
<1>5. p \in calls
  BY <1>2, <1>4 DEF SetDirect, StoreWord, StoreHandle, SetterKnows, Quiet
<1>6. \A q \in Publisher : q # p => setter[q] = Quiet
  BY <1>5, OneSetter
<1>7. \A q \in Publisher : q # p => setter'[q] = setter[q]
  BY <1>2, <1>3 DEF SetDirect, StoreWord, StoreHandle
<1>8. \A q \in Publisher : q # p => SetterKnows(q)'
  BY <1>6, <1>7 DEF SetterKnows
<1>9. CASE SetDirect(p)
  <2>1. occ' = occ /\ setter'[p] = [pc |-> "word", gen |-> slot.gen]
    BY <1>3, <1>9 DEF SetDirect
  <2>2. SetterKnows(p)'
    BY <1>1, <1>3, <1>4, <1>5, <2>1 DEF SetterKnows, Words
  <2>3. Words' /\ ReadsOwn'
    BY <1>1, <1>4, <2>1 DEF Words, ReadsOwn
  <2> QED
    BY <1>8, <2>2, <2>3, OcclusionAfter
<1>10. CASE StoreWord(p)
  <2>1. occ'.h = occ.h /\ occ'.w = setter[p].gen
    BY <1>10, OccTypes DEF StoreWord, Stores
  <2>2. setter'[p].pc = "handle" /\ setter'[p].gen = setter[p].gen
    BY <1>3, <1>10 DEF StoreWord, TypeOK, OccTyped
  <2>3. setter[p] # Quiet
    BY <1>10 DEF StoreWord, Quiet
  <2>4. setter[p].gen <= slot.gen /\ setter[p].gen >= occ.h
    BY <1>4, <2>3 DEF SetterKnows
  <2>5. SetterKnows(p)'
    BY <1>1, <1>3, <1>5, <2>1, <2>2, <2>4 DEF SetterKnows
  <2>6. Words' /\ ReadsOwn'
    BY <1>1, <1>3, <1>4, <2>1, <2>4 DEF Words, ReadsOwn
  <2> QED
    BY <1>8, <2>5, <2>6, OcclusionAfter
<1>11. CASE StoreHandle(p)
  <2>1. occ'.h = setter[p].gen /\ occ'.w = occ.w
    BY <1>11, OccTypes DEF StoreHandle, Stores
  <2>2. setter'[p] = Quiet
    BY <1>3, <1>11 DEF StoreHandle
  <2>3. setter[p] # Quiet /\ setter[p].pc = "handle"
    BY <1>11 DEF StoreHandle, Quiet
  <2>4. setter[p].gen <= slot.gen /\ setter[p].gen >= occ.h /\ occ.w \in {0, setter[p].gen}
    BY <1>4, <2>3 DEF SetterKnows
  <2>5. SetterKnows(p)'
    BY <2>2 DEF SetterKnows
  <2>6. Words' /\ ReadsOwn'
    BY <1>1, <1>3, <1>4, <2>1, <2>4 DEF Words, ReadsOwn
  <2> QED
    BY <1>8, <2>5, <2>6, OcclusionAfter
<1> QED
  BY <1>2, <1>9, <1>10, <1>11

LEMMA OccMix ==
    ASSUME TypeOK, TypeOK', Occlusion, Mix PROVE Occlusion'
<1>1. UNCHANGED <<calls, slot, occ, setter>> /\ voice'.gen = voice.gen
  BY MixEffect
<1>2. Words' /\ \A p \in Publisher : SetterKnows(p)'
  BY <1>1, OcclusionParts DEF Words, SetterKnows
<1>3. occ.h \in Nat /\ occ.w \in Nat /\ voice.gen \in Nat
  BY OccTypes
<1>4. Words /\ ReadsOwn
  BY OcclusionParts
<1>5. ReadsOwn'
  <2>1. CASE MixLook
    <3>1. CASE occ.h = voice.gen
      <4>1. mix'.mine /\ aud'.pc = "read"
        BY <2>1, <3>1 DEF MixLook, TypeOK, OccTyped, RingTyped
      <4> QED
        BY <1>1, <1>3, <3>1, <4>1 DEF ReadsOwn
    <3>2. CASE occ.h # voice.gen
      <4>1. ~mix'.mine /\ aud'.pc = "mixing"
        BY <2>1, <3>2 DEF MixLook, TypeOK, OccTyped, RingTyped
      <4> QED
        BY <3>2, <4>1 DEF ReadsOwn
    <3> QED
      BY <3>1, <3>2
  <2>2. CASE MixRead
    <3>1. aud.pc = "read" /\ aud'.pc = "mixing" /\ mix'.w = occ.w
      BY <2>2 DEF MixRead, TypeOK, OccTyped, RingTyped
    <3>2. occ.w = 0 \/ occ.w >= voice.gen
      BY <1>3, <1>4, <3>1 DEF Words, ReadsOwn
    <3> QED
      BY <1>1, <3>1, <3>2 DEF ReadsOwn
  <2>3. CASE MixOn \/ MixStopped \/ MixEnd \/ Publish
    <3>1. aud'.pc \in {"publish", "idle"}
      BY <2>3 DEF MixOn, MixStopped, MixEnd, Publish, TypeOK, RingTyped
    <3> QED
      BY <3>1 DEF ReadsOwn
  <2> QED
    BY <2>1, <2>2, <2>3 DEF Mix
<1> QED
  BY <1>2, <1>5, OcclusionAfter

LEMMA OccDrain ==
    ASSUME TypeOK, TypeOK', Occlusion, Drain PROVE Occlusion'
<1>1. UNCHANGED <<calls, slot, setter, mix>>
  BY DrainElse
<1>2. aud'.pc \notin {"read", "mixing"}
  BY DrainRing DEF EndDrain, Took, TypeOK, RingTyped
<1>3. occ' = occ \/ occ' = Clear
  BY DEF Drain, DrainCreate, DrainDestroy, DrainSetPos, DrainSetListener, DrainCommit, DrainPlay,
         DrainStop, EndDrain
<1>4. Words /\ \A p \in Publisher : SetterKnows(p)
  BY OcclusionParts
<1>5. occ'.h \in {0, occ.h} /\ occ'.w \in {0, occ.w} /\ (occ'.h # 0 => occ' = occ)
  BY <1>3 DEF Clear
<1>6. slot.gen \in Nat /\ occ.h \in Nat /\ occ.w \in Nat /\ \A p \in Publisher : setter[p].gen \in Nat
  BY OccTypes
<1>7. Words'
  BY <1>1, <1>4, <1>5, <1>6 DEF Words
<1>8. ASSUME NEW p \in Publisher PROVE SetterKnows(p)'
  BY <1>1, <1>4, <1>5, <1>6 DEF SetterKnows
<1>9. ReadsOwn'
  BY <1>2 DEF ReadsOwn
<1> QED
  BY <1>7, <1>8, <1>9, OcclusionAfter

LEMMA OcclusionStep ==
    ASSUME OnePublisher, TypeOK, Occlusion, [Next]_vars PROVE Occlusion'
<1>0. TypeOK'
  BY StepTyped
<1>1. CASE BeginBlock
  <2>1. UNCHANGED <<calls, slot, occ, setter, voice, mix>> /\ aud'.pc = "drain"
    BY <1>1 DEF BeginBlock, ctlVars
  <2> QED
    BY <2>1 DEF Occlusion
<1>2. CASE UNCHANGED vars
  BY <1>2 DEF vars, ctlVars, audVars, Occlusion
<1> QED
  BY <1>0, <1>1, <1>2, OccControl, OccSet, OccDrain, OccMix DEF Next

LEMMA InitOcclusion == ASSUME Init PROVE Occlusion
BY DEF Init, Occlusion, Clear

\* The invariant of occlusion.
OccIInv == TypeOK /\ Occlusion

\* With one publisher of occlusion, the client or the simulation, what a voice reads behind a matching
\* handle is its own, clear, or already its successor's, however the stores of rt_set_direct and the
\* mixer's loads fall.
THEOREM OccNotInheritedAlways ==
    ASSUME OnePublisher PROVE Spec => []OccNotInherited
<1>1. Init => OccIInv
  BY InitTyped, InitOcclusion DEF OccIInv
<1>2. OccIInv /\ [Next]_vars => OccIInv'
  BY StepTyped, OcclusionStep DEF OccIInv
<1>3. OccIInv => OccNotInherited
  <2>1. Occlusion => OccNotInherited
    BY DEF Occlusion, OccNotInherited
  <2> QED
    BY <2>1 DEF OccIInv
<1> QED
  BY <1>1, <1>2, <1>3, PTL DEF Spec
=============================================================================
