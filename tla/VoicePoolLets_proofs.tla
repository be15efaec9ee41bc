------------------------ MODULE VoicePoolLets_proofs ------------------------
(***************************************************************************)
(* A slot of VoicePool is let to one source at a time on both threads:     *)
(* rt_source_create, its steal and its hard cut never make the audio       *)
(* thread create a let over one that still sounds, and a let ends with at  *)
(* most one ended event.                                                   *)
(*                                                                         *)
(* A stream has one consumer: rt_source_queue chains none, CMD_PLAY        *)
(* detaches whoever had the stream it binds, and no command in flight can  *)
(* bring a voice to a sound that was loaded after it was sent.  The hidden *)
(* sound of a push source is never lost: its source owns it and plays it,  *)
(* or whoever ended the source retires it or parks it.                     *)
(*                                                                         *)
(* The event ring has room for every ownership ack, as long as a slot that *)
(* comes back with an ended event is not let again on the audio thread     *)
(* before drain_events has handled that event.                             *)
(***************************************************************************)
EXTENDS VoicePool_proofs, FiniteSetTheorems

-----------------------------------------------------------------------------
(* The steps of the control thread keep the lets in order. *)

LEMMA SameHandle == \A g, h \in Handle : g.idx = h.idx /\ g.gen = h.gen => g = h
<1>1. \A h \in Handle : h = [idx |-> h.idx, gen |-> h.gen]
  BY DEF Handle
<1> QED BY <1>1

LEMMA LiveOne == \A g, h : Live(g) /\ Live(h) /\ g.idx = h.idx => g.gen = h.gen
BY DEF Live

LEMMA VoiceHandles ==
    ASSUME Shape, NEW i \in Voice
    PROVE  /\ VoiceHandle(i) \in Handle /\ VoiceHandle(i).idx = i /\ VoiceHandle(i).gen = voice[i].gen
           /\ voice[i].gen \in Nat /\ slot[i].gen \in Nat /\ voice[i].active \in BOOLEAN
<1>1. i \in Nat /\ slot[i].gen \in Nat
  BY SlotFields, ShapeParts
<1>2. voice[i].gen \in Nat /\ voice[i].active \in BOOLEAN
  BY DEF Shape, TypeOK, VoiceRec
<1> QED BY <1>1, <1>2, HandleType DEF VoiceHandle, H

LEMMA VoiceHandlesPrime ==
    ASSUME Shape', NEW i \in Voice
    PROVE  /\ VoiceHandle(i)' \in Handle /\ VoiceHandle(i)'.idx = i /\ VoiceHandle(i)'.gen = voice'[i].gen
           /\ voice'[i].gen \in Nat /\ slot'[i].gen \in Nat /\ voice'[i].active \in BOOLEAN
<1>1. i \in Nat /\ slot'[i].gen \in Nat
  <2>1. slot' \in [Voice -> Slot]
    BY DEF Shape, TypeOK
  <2>2. slot'[i].gen \in Nat
    BY <2>1 DEF Slot
  <2> QED BY <2>2, Constants DEF Voice
<1>2. voice'[i].gen \in Nat /\ voice'[i].active \in BOOLEAN
  BY DEF Shape, TypeOK, VoiceRec
<1> QED BY <1>1, <1>2, HandleType DEF VoiceHandle, H

\* A let that ends by this step: by an ended event, the undo of a create, or a destroy.
Ended(d, h) == d = 1 /\ evt[1].t = "ENDED" /\ evt[1].h = h
Undone(h) == ctl.pc = "push" /\ ctl.h = h
NewCmdAt(k) == k \in 1 .. Len(cmd') /\ k \notin 1 .. Len(cmd)
LetsEnd(d) == \A h \in Handle : Live(h) /\ ~Live(h)' =>
    Ended(d, h) \/ Undone(h) \/ \E k : NewCmdAt(k) /\ cmd'[k].t = "DESTROY" /\ cmd'[k].v = h
\* A let that begins by this step, or is about to be announced to the audio thread.
FreshLet(h) ==
    /\ h.idx \in Voice
    /\ \/ Undone(h) /\ Live(h)
       \/ ~slot[h.idx].inuse /\ slot[h.idx].gen < h.gen
LetsBegin ==
    /\ \A k, h : NewCmdAt(k) /\ cmd'[k].t = "CREATE" /\ cmd'[k].v = h => FreshLet(h) /\ Live(h)'
    /\ \A j, k : NewCmdAt(j) /\ NewCmdAt(k) /\ cmd'[j].t = "CREATE" /\ cmd'[k].t = "CREATE" => j = k
    /\ ctl'.pc = "push" =>
        /\ ctl'.h.idx \in Voice /\ slot[ctl'.h.idx].gen < ctl'.h.gen
        /\ \A k : NewCmdAt(k) => cmd'[k].t # "CREATE"
GensUp == \A i \in Voice : slot[i].gen <= slot'[i].gen

LEMMA LetsControl ==
    ASSUME Shape, Shape', LetInv, voice' = voice, CmdGrown, NEW d \in 0 .. 1, EvtShift(d),
           LetsEnd(d), LetsBegin, GensUp
    PROVE  LetInv'
<1> DEFINE N == Len(cmd)
           N1 == Len(cmd')
           E == Len(evt)
           E1 == Len(evt')
           Dest(n, h) == \E j \in 1 .. N : cmd[j].t = "DESTROY" /\ j > n /\ cmd[j].v = h
           Dest1(n, h) == \E j \in 1 .. N1 : cmd'[j].t = "DESTROY" /\ j > n /\ cmd'[j].v = h
<1>1. N \in Nat /\ N1 \in Nat /\ N <= N1 /\ E \in Nat /\ E1 \in Nat /\ E1 = E - d
  BY RingTypes, RingTypesPrime DEF CmdGrown, EvtShift
<1>2. /\ \A k \in 1 .. N : k \in 1 .. N1 /\ cmd'[k] = cmd[k] /\ cmd[k].v \in Handle
      /\ \A k \in 1 .. N1 : cmd'[k].v \in Handle
      /\ \A k : NewCmdAt(k) <=> k \in 1 .. N1 /\ k \notin 1 .. N
      /\ \A k : NewCmdAt(k) => \A j \in 1 .. N : j < k
  <2>1. /\ \A k \in 1 .. N : k \in 1 .. N1
        /\ \A k \in 1 .. N1 : k \notin 1 .. N => \A j \in 1 .. N : j < k
    BY <1>1
  <2> QED BY <2>1, RingTypes, RingTypesPrime DEF CmdGrown, NewCmdAt
<1>3. /\ \A k \in 1 .. E1 : evt'[k] = evt[k + d] /\ k + d \in 1 .. E
      /\ \A k \in 1 .. E : evt[k].h \in Handle
  BY <1>1, RingTypes DEF EvtShift
<1>4. /\ \A i \in Voice : /\ VoiceHandle(i) \in Handle /\ VoiceHandle(i).idx = i
                          /\ VoiceHandle(i).gen = voice[i].gen /\ VoiceHandle(i)' = VoiceHandle(i)
                          /\ voice[i].gen \in Nat /\ slot[i].gen \in Nat /\ slot'[i].gen \in Nat
      /\ \A h \in Handle : h.gen \in Nat
      /\ ctl.h \in Handle /\ (ctl.pc = "push" => ctl.h.idx \in Voice)
      /\ ctl'.h \in Handle
  <2>1. ctl.h \in Handle /\ (ctl.pc = "push" => ctl.h.idx \in Voice) /\ ctl'.h \in Handle
    BY DEF Shape, TypeOK, Ctl, ThreadsOK
  <2>2. \A i \in Voice : VoiceHandle(i)' = VoiceHandle(i)
    BY DEF VoiceHandle
  <2> QED BY <2>1, <2>2, VoiceHandles, VoiceHandlesPrime, HandleFields
<1>6. /\ \A i \in Voice : voice[i].gen <= slot[i].gen
      /\ \A k \in 1 .. N : cmd[k].t = "CREATE" =>
            /\ cmd[k].v.idx \in Voice
            /\ voice[cmd[k].v.idx].gen < cmd[k].v.gen /\ cmd[k].v.gen <= slot[cmd[k].v.idx].gen
      /\ \A j, k \in 1 .. N : cmd[j].t = "CREATE" /\ cmd[k].t = "CREATE" /\ j < k /\ cmd[j].v.idx = cmd[k].v.idx
            => cmd[j].v.gen < cmd[k].v.gen
      /\ ctl.pc = "push" =>
            /\ voice[ctl.h.idx].gen < ctl.h.gen
            /\ \A k \in 1 .. N : cmd[k].t = "CREATE" /\ cmd[k].v.idx = ctl.h.idx => cmd[k].v.gen < ctl.h.gen
      /\ \A k \in 1 .. E : evt[k].t = "ENDED" =>
            evt[k].h.idx \in Voice /\ evt[k].h.gen <= voice[evt[k].h.idx].gen
  BY DEF LetInv, LetOrder, Commands
<1>7. /\ \A i \in Voice : voice[i].active /\ ~Live(VoiceHandle(i)) => Dest(0, VoiceHandle(i))
      /\ \A k \in 1 .. N : cmd[k].t = "CREATE" /\ ~Live(cmd[k].v) => Dest(k, cmd[k].v)
      /\ \A k \in 1 .. N : cmd[k].t = "CREATE" /\ voice[cmd[k].v.idx].active =>
            \E j \in 1 .. N : cmd[j].t = "DESTROY" /\ j < k /\ cmd[j].v = VoiceHandle(cmd[k].v.idx)
      /\ \A j, k \in 1 .. N : cmd[j].t = "CREATE" /\ cmd[k].t = "CREATE" /\ j < k /\ cmd[j].v.idx = cmd[k].v.idx =>
            \E n \in 1 .. N : cmd[n].t = "DESTROY" /\ j < n /\ n < k /\ cmd[n].v = cmd[j].v
  BY DEF LetInv, LetGo, Commands, DestroyAfter
<1>8. /\ \A k \in 1 .. E : evt[k].t = "ENDED" =>
            ~(voice[evt[k].h.idx].active /\ VoiceHandle(evt[k].h.idx) = evt[k].h)
      /\ \A j, k \in 1 .. E : evt[j].t = "ENDED" /\ evt[k].t = "ENDED" /\ evt[j].h = evt[k].h => j = k
  BY DEF LetInv, EndedOnce, OneEndedPerLet
<1> HIDE DEF N, N1, E, E1
\* The handle of a voice, or of a create on its way, is no longer live after the step only if its
\* destroy is on its way.
<1>9. ASSUME NEW h \in Handle, h.idx \in Voice, Live(h), ~Live(h)',
             \/ voice[h.idx].active /\ VoiceHandle(h.idx) = h
             \/ \E k \in 1 .. N : cmd[k].t = "CREATE" /\ cmd[k].v = h
      PROVE  \E j : NewCmdAt(j) /\ cmd'[j].t = "DESTROY" /\ cmd'[j].v = h
  <2>1. ~Ended(d, h)
    <3>1. ASSUME Ended(d, h) PROVE 1 \in 1 .. E /\ evt[1].t = "ENDED" /\ evt[1].h = h
      BY <1>1, <3>1 DEF Ended
    <3> QED BY <1>4, <1>6, <1>8, <1>9, <3>1
  <2>2. ~Undone(h)
    BY <1>4, <1>6, <1>9 DEF Undone
  <2> QED BY <1>9, <2>1, <2>2 DEF LetsEnd
\* What was let before a fresh let is over.
<1>10. ASSUME NEW h, FreshLet(h), NEW g \in Handle, g.idx = h.idx, g.gen < h.gen PROVE ~Live(g)
  <2>1. CASE Live(h)
    BY <1>10, <1>4, <2>1, LiveOne
  <2>2. CASE ~slot[h.idx].inuse
    BY <1>10, <2>2 DEF Live
  <2> QED BY <1>10, <2>1, <2>2 DEF FreshLet
<1>11. ASSUME NEW h \in Handle, FreshLet(h)
       PROVE  /\ h.idx \in Voice /\ voice[h.idx].gen < h.gen
              /\ \A k \in 1 .. N : cmd[k].t = "CREATE" /\ cmd[k].v.idx = h.idx => cmd[k].v.gen < h.gen
  BY <1>11, <1>2, <1>4, <1>6 DEF FreshLet, Undone
<1>12. \A h \in Handle : Live(h)' => h.idx \in Voice /\ h.gen = slot'[h.idx].gen
  BY DEF Live
<1>13. \A k \in 1 .. N1 : cmd'[k].t = "CREATE" =>
        \/ k \in 1 .. N /\ cmd'[k] = cmd[k]
        \/ NewCmdAt(k) /\ FreshLet(cmd'[k].v)
  BY <1>2 DEF LetsBegin
<1>14. LetOrder'
  <2>1. \A i \in Voice : voice'[i].gen <= slot'[i].gen
    BY <1>4, <1>6 DEF GensUp
  <2>2. ASSUME NEW k \in 1 .. N1, cmd'[k].t = "CREATE"
        PROVE  /\ cmd'[k].v.idx \in Voice
               /\ voice[cmd'[k].v.idx].gen < cmd'[k].v.gen /\ cmd'[k].v.gen <= slot'[cmd'[k].v.idx].gen
    <3>1. CASE k \in 1 .. N
      BY <2>2, <3>1, <1>2, <1>4, <1>6 DEF GensUp
    <3>2. CASE NewCmdAt(k) /\ FreshLet(cmd'[k].v)
      <4>1. PICK h \in Handle : h = cmd'[k].v
        BY <1>2
      <4>2. Live(h)'
        BY <2>2, <3>2, <4>1 DEF LetsBegin
      <4> QED BY <3>2, <4>1, <4>2, <1>4, <1>11, <1>12
    <3> QED BY <2>2, <3>1, <3>2, <1>13
  <2>3. ASSUME NEW j \in 1 .. N1, NEW k \in 1 .. N1, cmd'[j].t = "CREATE", cmd'[k].t = "CREATE", j < k,
               cmd'[j].v.idx = cmd'[k].v.idx
        PROVE  cmd'[j].v.gen < cmd'[k].v.gen
    <3>1. j \in 1 .. N
      <4>1. ASSUME NewCmdAt(j) PROVE NewCmdAt(k)
        BY <4>1, <2>3, <1>1, <1>2
      <4> QED BY <4>1, <2>3, <1>1, <1>2 DEF LetsBegin
    <3>2. CASE k \in 1 .. N
      BY <2>3, <3>1, <3>2, <1>2, <1>6
    <3>3. CASE NewCmdAt(k) /\ FreshLet(cmd'[k].v)
      BY <2>3, <3>1, <3>3, <1>2, <1>11
    <3> QED BY <2>3, <3>2, <3>3, <1>13
  <2>4. ASSUME ctl'.pc = "push"
        PROVE  /\ voice[ctl'.h.idx].gen < ctl'.h.gen
               /\ \A k \in 1 .. N1 : cmd'[k].t = "CREATE" /\ cmd'[k].v.idx = ctl'.h.idx => cmd'[k].v.gen < ctl'.h.gen
    <3>1. ctl'.h.idx \in Voice /\ slot[ctl'.h.idx].gen < ctl'.h.gen
      BY <2>4 DEF LetsBegin
    <3>2. \A k \in 1 .. N1 : cmd'[k].t = "CREATE" => k \in 1 .. N /\ cmd'[k] = cmd[k]
      BY <2>4, <1>2 DEF LetsBegin
    <3>3. voice[ctl'.h.idx].gen < ctl'.h.gen
      BY <3>1, <1>4, <1>6
    <3>4. \A k \in 1 .. N : cmd[k].t = "CREATE" /\ cmd[k].v.idx = ctl'.h.idx => cmd[k].v.gen < ctl'.h.gen
      BY <3>1, <1>2, <1>4, <1>6
    <3> QED BY <3>2, <3>3, <3>4
  <2>5. \A k \in 1 .. E1 : evt'[k].t = "ENDED" =>
            evt'[k].h.idx \in Voice /\ evt'[k].h.gen <= voice[evt'[k].h.idx].gen
    BY <1>3, <1>6
  <2> QED BY <2>1, <2>2, <2>3, <2>4, <2>5 DEF LetOrder, Commands, N1, E1
<1>15. LetGo'
  <2>1. ASSUME NEW i \in Voice, voice[i].active, ~Live(VoiceHandle(i))'
        PROVE  Dest1(0, VoiceHandle(i))
    <3>1. PICK h \in Handle : h = VoiceHandle(i) /\ h.idx = i
      BY <1>4
    <3>2. ~Live(h)'
      BY <2>1, <3>1, <1>4
    <3>3. CASE ~Live(h)
      <4>1. PICK j \in 1 .. N : cmd[j].t = "DESTROY" /\ j > 0 /\ cmd[j].v = h
        BY <2>1, <3>1, <3>3, <1>7
      <4> QED BY <3>1, <4>1, <1>2
    <3>4. CASE Live(h)
      <4>1. PICK j : NewCmdAt(j) /\ cmd'[j].t = "DESTROY" /\ cmd'[j].v = h
        BY <2>1, <3>1, <3>2, <3>4, <1>9
      <4>2. j \in 1 .. N1 /\ j > 0
        BY <4>1, <1>1, <1>2
      <4> QED BY <3>1, <4>1, <4>2
    <3> QED BY <3>3, <3>4
  <2>2. ASSUME NEW k \in 1 .. N1, cmd'[k].t = "CREATE", NEW h \in Handle, h = cmd'[k].v, ~Live(h)'
        PROVE  Dest1(k, h)
    <3>0. k \in 1 .. N /\ cmd'[k] = cmd[k]
      BY <2>2, <1>2 DEF LetsBegin
    <3>1. h.idx \in Voice
      BY <2>2, <3>0, <1>6
    <3>3. CASE ~Live(h)
      <4>1. PICK j \in 1 .. N : cmd[j].t = "DESTROY" /\ j > k /\ cmd[j].v = h
        BY <2>2, <3>0, <3>3, <1>7
      <4> QED BY <4>1, <1>2
    <3>4. CASE Live(h)
      <4>1. PICK j : NewCmdAt(j) /\ cmd'[j].t = "DESTROY" /\ cmd'[j].v = h
        BY <2>2, <3>0, <3>1, <3>4, <1>9
      <4>2. j \in 1 .. N1 /\ j > k
        BY <3>0, <4>1, <1>1, <1>2
      <4> QED BY <4>1, <4>2
    <3> QED BY <3>3, <3>4
  <2>3. ASSUME NEW k \in 1 .. N1, cmd'[k].t = "CREATE", voice[cmd'[k].v.idx].active
        PROVE  \E j \in 1 .. N1 : cmd'[j].t = "DESTROY" /\ j < k /\ cmd'[j].v = VoiceHandle(cmd'[k].v.idx)
    <3>1. CASE k \in 1 .. N /\ cmd'[k] = cmd[k]
      <4>1. PICK j \in 1 .. N : cmd[j].t = "DESTROY" /\ j < k /\ cmd[j].v = VoiceHandle(cmd[k].v.idx)
        BY <2>3, <3>1, <1>7
      <4> QED BY <3>1, <4>1, <1>2
    <3>2. CASE NewCmdAt(k) /\ FreshLet(cmd'[k].v)
      <4>1. PICK h \in Handle : h = cmd'[k].v
        BY <1>2
      <4>2. h.idx \in Voice /\ voice[h.idx].gen < h.gen
        BY <3>2, <4>1, <1>11
      <4>3. ~Live(VoiceHandle(h.idx))
        BY <3>2, <4>1, <4>2, <1>4, <1>10
      <4>4. PICK j \in 1 .. N : cmd[j].t = "DESTROY" /\ cmd[j].v = VoiceHandle(h.idx)
        BY <2>3, <4>1, <4>2, <4>3, <1>7
      <4> QED BY <3>2, <4>1, <4>4, <1>2
    <3> QED BY <2>3, <3>1, <3>2, <1>13
  <2>4. ASSUME NEW j \in 1 .. N1, NEW k \in 1 .. N1, cmd'[j].t = "CREATE", cmd'[k].t = "CREATE", j < k,
               cmd'[j].v.idx = cmd'[k].v.idx
        PROVE  \E n \in 1 .. N1 : cmd'[n].t = "DESTROY" /\ j < n /\ n < k /\ cmd'[n].v = cmd'[j].v
    <3>1. j \in 1 .. N /\ cmd'[j] = cmd[j]
      <4>1. ASSUME NewCmdAt(j) PROVE NewCmdAt(k)
        BY <4>1, <2>4, <1>1, <1>2
      <4> QED BY <4>1, <2>4, <1>1, <1>2 DEF LetsBegin
    <3>2. CASE k \in 1 .. N /\ cmd'[k] = cmd[k]
      <4>1. PICK n \in 1 .. N : cmd[n].t = "DESTROY" /\ j < n /\ n < k /\ cmd[n].v = cmd[j].v
        BY <2>4, <3>1, <3>2, <1>7
      <4> QED BY <3>1, <4>1, <1>2
    <3>3. CASE NewCmdAt(k) /\ FreshLet(cmd'[k].v)
      <4>1. PICK g \in Handle, h \in Handle : g = cmd[j].v /\ h = cmd'[k].v
        BY <3>1, <1>2
      <4>2. g.idx = h.idx /\ g.gen < h.gen
        BY <2>4, <3>1, <3>3, <4>1, <1>11
      <4>3. ~Live(g)
        BY <3>3, <4>1, <4>2, <1>10
      <4>4. PICK n \in 1 .. N : cmd[n].t = "DESTROY" /\ n > j /\ cmd[n].v = g
        BY <2>4, <3>1, <4>1, <4>3, <1>7
      <4>5. n \in 1 .. N1 /\ cmd'[n] = cmd[n] /\ n < k /\ j < n
        BY <3>1, <3>3, <4>4, <1>1, <1>2
      <4> QED BY <3>1, <4>1, <4>4, <4>5
    <3> QED BY <2>4, <3>2, <3>3, <1>13
  <2>5. \A i \in Voice : voice'[i].active /\ ~Live(VoiceHandle(i))' => DestroyAfter(0, VoiceHandle(i))'
    BY <2>1, <1>4 DEF DestroyAfter, Commands, N1
  <2>6. ASSUME NEW k \in Commands("CREATE")', ~Live(cmd[k].v)' PROVE DestroyAfter(k, cmd[k].v)'
    <3>1. k \in 1 .. N1 /\ cmd'[k].t = "CREATE" /\ cmd'[k].v \in Handle
      BY <1>2 DEF Commands, N1
    <3>2. PICK h \in Handle : h = cmd'[k].v
      BY <3>1
    <3>3. ~Live(h)'
      BY <2>6, <3>2 DEF Live
    <3> QED BY <2>2, <3>1, <3>2, <3>3 DEF DestroyAfter, Commands, N1
  <2>7. \A k \in Commands("CREATE")' : voice'[cmd'[k].v.idx].active =>
            \E j \in Commands("DESTROY")' : j < k /\ cmd'[j].v = VoiceHandle(cmd[k].v.idx)'
    <3>1. \A k : VoiceHandle(cmd[k].v.idx)' = VoiceHandle(cmd'[k].v.idx)
      BY DEF VoiceHandle
    <3> QED BY <2>3, <3>1 DEF Commands, N1
  <2>8. \A j, k \in Commands("CREATE")' : j < k /\ cmd'[j].v.idx = cmd'[k].v.idx =>
            \E n \in Commands("DESTROY")' : j < n /\ n < k /\ cmd'[n].v = cmd'[j].v
    BY <2>4 DEF Commands, N1
  <2> QED BY <2>5, <2>6, <2>7, <2>8 DEF LetGo
<1>16. EndedOnce'
  <2>1. \A k \in 1 .. E1 : evt'[k].t = "ENDED" =>
            ~(voice[evt'[k].h.idx].active /\ VoiceHandle(evt'[k].h.idx) = evt'[k].h)
    BY <1>3, <1>8
  <2>2. ASSUME NEW j \in 1 .. E1, NEW k \in 1 .. E1, evt'[j].t = "ENDED", evt'[k].t = "ENDED",
               evt'[j].h = evt'[k].h
        PROVE  j = k
    <3>1. j + d = k + d
      BY <2>2, <1>3, <1>8
    <3> QED BY <3>1, <1>1
  <2>3. \A k : VoiceHandle(evt[k].h.idx)' = VoiceHandle(evt'[k].h.idx)
    BY DEF VoiceHandle
  <2> QED BY <2>1, <2>2, <2>3 DEF EndedOnce, OneEndedPerLet, E1
<1> QED BY <1>14, <1>15, <1>16 DEF LetInv

-----------------------------------------------------------------------------
(* The steps of the audio thread. *)

\* The voices keep their lets, but may be given back.
VoicesKept == \A i \in Voice : voice'[i].gen = voice[i].gen /\ (voice'[i].active => voice[i].active)
\* What the step adds to the events: an ended event for a voice it gives back, or none.
EndedAdded == evt' = evt \/ \E e \in Evt : evt' = Append(evt, e) /\
    (e.t = "ENDED" => \E i \in Voice : e.h = VoiceHandle(i) /\ voice[i].active /\ ~voice'[i].active)

\* No voice that is still active is created again.
NoOverwrite == \A i \in Voice : voice'[i].gen # voice[i].gen => ~voice[i].active

LEMMA LetsAudio ==
    ASSUME Shape, Shape', LetInv, slot' = slot, ctl' = ctl, NEW d \in 0 .. 1, CmdShift(d),
           d = 1 => cmd[1].t # "CREATE", VoicesKept, EndedAdded,
           \A i \in Voice : d = 1 /\ cmd[1].t = "DESTROY" /\ cmd[1].v = VoiceHandle(i) => ~voice'[i].active
    PROVE  LetInv' /\ NoOverwrite
<1> DEFINE N == Len(cmd)
           N1 == Len(cmd')
           E == Len(evt)
           E1 == Len(evt')
<1>1. N \in Nat /\ N1 \in Nat /\ N1 = N - d /\ E \in Nat /\ E1 \in Nat
  BY RingTypes, RingTypesPrime DEF CmdShift
<1>2. /\ \A k \in 1 .. N1 : k + d \in 1 .. N /\ cmd'[k] = cmd[k + d] /\ cmd'[k].v \in Handle
      /\ \A k \in 1 .. N : k - d \in 1 .. N1 \/ (k = 1 /\ d = 1)
      /\ \A k \in 1 .. N : k - d \in 1 .. N1 => cmd'[k - d] = cmd[k]
  <2>1. /\ \A k \in 1 .. N1 : k + d \in 1 .. N
        /\ \A k \in 1 .. N : k - d \in 1 .. N1 \/ (k = 1 /\ d = 1)
        /\ \A k \in 1 .. N : k - d + d = k
    BY <1>1
  <2> QED BY <2>1, RingTypesPrime DEF CmdShift
<1>3. PICK e : /\ E <= E1 /\ \A k \in 1 .. E : evt'[k] = evt[k]
               /\ \A k \in 1 .. E1 : k \notin 1 .. E => k = E1 /\ evt'[k] = e
               /\ e.t = "ENDED" => \E i \in Voice : e.h = VoiceHandle(i) /\ voice[i].active /\ ~voice'[i].active
  <2>1. CASE evt' = evt
    <3>1. PICK f : f.t # "ENDED"
      <4>1. [t |-> "NOTICE"].t # "ENDED"
        OBVIOUS
      <4> QED BY <4>1
    <3>2. E1 = E /\ E \in Nat
      BY <1>1, <2>1
    <3> QED BY <2>1, <3>1, <3>2
  <2>2. CASE evt' # evt
    <3>1. PICK e \in Evt : /\ evt' = Append(evt, e)
                           /\ e.t = "ENDED" => \E i \in Voice : e.h = VoiceHandle(i) /\ voice[i].active /\ ~voice'[i].active
      BY <2>2 DEF EndedAdded
    <3> QED BY <3>1, AddedEvt
  <2> QED BY <2>1, <2>2
<1>4. /\ \A i \in Voice : /\ VoiceHandle(i) \in Handle /\ VoiceHandle(i).idx = i
                          /\ VoiceHandle(i).gen = voice[i].gen /\ VoiceHandle(i)' = VoiceHandle(i)
                          /\ voice[i].gen \in Nat /\ slot[i].gen \in Nat
  <2>1. \A i \in Voice : VoiceHandle(i)' = VoiceHandle(i)
    BY DEF VoiceHandle, VoicesKept
  <2> QED BY <2>1, VoiceHandles
<1>5. \A h : Live(h)' <=> Live(h)
  BY DEF Live
<1>6. /\ \A i \in Voice : voice[i].gen <= slot[i].gen
      /\ \A k \in 1 .. N : cmd[k].t = "CREATE" =>
            /\ cmd[k].v.idx \in Voice
            /\ voice[cmd[k].v.idx].gen < cmd[k].v.gen /\ cmd[k].v.gen <= slot[cmd[k].v.idx].gen
      /\ \A j, k \in 1 .. N : cmd[j].t = "CREATE" /\ cmd[k].t = "CREATE" /\ j < k /\ cmd[j].v.idx = cmd[k].v.idx
            => cmd[j].v.gen < cmd[k].v.gen
      /\ ctl.pc = "push" =>
            /\ voice[ctl.h.idx].gen < ctl.h.gen
            /\ \A k \in 1 .. N : cmd[k].t = "CREATE" /\ cmd[k].v.idx = ctl.h.idx => cmd[k].v.gen < ctl.h.gen
      /\ \A k \in 1 .. E : evt[k].t = "ENDED" =>
            evt[k].h.idx \in Voice /\ evt[k].h.gen <= voice[evt[k].h.idx].gen
  BY DEF LetInv, LetOrder, Commands
<1>7. /\ \A i \in Voice : voice[i].active /\ ~Live(VoiceHandle(i)) =>
            \E j \in 1 .. N : cmd[j].t = "DESTROY" /\ j > 0 /\ cmd[j].v = VoiceHandle(i)
      /\ \A k \in 1 .. N : cmd[k].t = "CREATE" /\ ~Live(cmd[k].v) =>
            \E j \in 1 .. N : cmd[j].t = "DESTROY" /\ j > k /\ cmd[j].v = cmd[k].v
      /\ \A k \in 1 .. N : cmd[k].t = "CREATE" /\ voice[cmd[k].v.idx].active =>
            \E j \in 1 .. N : cmd[j].t = "DESTROY" /\ j < k /\ cmd[j].v = VoiceHandle(cmd[k].v.idx)
      /\ \A j, k \in 1 .. N : cmd[j].t = "CREATE" /\ cmd[k].t = "CREATE" /\ j < k /\ cmd[j].v.idx = cmd[k].v.idx =>
            \E n \in 1 .. N : cmd[n].t = "DESTROY" /\ j < n /\ n < k /\ cmd[n].v = cmd[j].v
  BY DEF LetInv, LetGo, Commands, DestroyAfter
<1>8. /\ \A k \in 1 .. E : evt[k].t = "ENDED" =>
            ~(voice[evt[k].h.idx].active /\ VoiceHandle(evt[k].h.idx) = evt[k].h)
      /\ \A j, k \in 1 .. E : evt[j].t = "ENDED" /\ evt[k].t = "ENDED" /\ evt[j].h = evt[k].h => j = k
  BY DEF LetInv, EndedOnce, OneEndedPerLet
<1>9. /\ \A i \in Voice : voice'[i].gen = voice[i].gen /\ (voice'[i].active => voice[i].active)
      /\ ctl.pc = "push" => ctl.h.idx \in Voice
      /\ d \in 0 .. 1
  BY DEF VoicesKept, Shape, TypeOK, ThreadsOK
<1> HIDE DEF N, N1, E, E1
\* A destroy that a voice still sounding waits for, or one behind another command, is not the one
\* that this step handles.
<1>10. ASSUME NEW j \in 1 .. N, cmd[j].t = "DESTROY",
              (\E i \in Voice : voice'[i].active /\ cmd[j].v = VoiceHandle(i)) \/ \E k \in 1 .. N1 : k + d < j
       PROVE  j - d \in 1 .. N1 /\ cmd'[j - d] = cmd[j]
  BY <1>10, <1>1, <1>2, <1>9
<1>11. LetOrder'
  <2>1. \A i \in Voice : voice'[i].gen <= slot'[i].gen
    BY <1>6, <1>9
  <2>2. \A k \in 1 .. N1 : cmd'[k].t = "CREATE" =>
            /\ cmd'[k].v.idx \in Voice
            /\ voice'[cmd'[k].v.idx].gen < cmd'[k].v.gen /\ cmd'[k].v.gen <= slot'[cmd'[k].v.idx].gen
    BY <1>2, <1>6, <1>9
  <2>3. \A j, k \in 1 .. N1 : cmd'[j].t = "CREATE" /\ cmd'[k].t = "CREATE" /\ j < k
            /\ cmd'[j].v.idx = cmd'[k].v.idx => cmd'[j].v.gen < cmd'[k].v.gen
    BY <1>1, <1>2, <1>6
  <2>4. ctl'.pc = "push" =>
            /\ voice'[ctl'.h.idx].gen < ctl'.h.gen
            /\ \A k \in 1 .. N1 : cmd'[k].t = "CREATE" /\ cmd'[k].v.idx = ctl'.h.idx => cmd'[k].v.gen < ctl'.h.gen
    BY <1>2, <1>6, <1>9
  <2>5. ASSUME NEW k \in 1 .. E1, evt'[k].t = "ENDED"
        PROVE  evt'[k].h.idx \in Voice /\ evt'[k].h.gen <= voice'[evt'[k].h.idx].gen
    <3>1. CASE k \in 1 .. E
      BY <2>5, <3>1, <1>3, <1>6, <1>9
    <3>2. CASE k \notin 1 .. E
      BY <2>5, <3>2, <1>3, <1>4, <1>9
    <3> QED BY <3>1, <3>2
  <2> QED BY <2>1, <2>2, <2>3, <2>4, <2>5 DEF LetOrder, Commands, N1, E1
<1>12. LetGo'
  <2>1. ASSUME NEW i \in Voice, voice'[i].active, ~Live(VoiceHandle(i))
        PROVE  \E j \in 1 .. N1 : cmd'[j].t = "DESTROY" /\ j > 0 /\ cmd'[j].v = VoiceHandle(i)
    <3>1. PICK j \in 1 .. N : cmd[j].t = "DESTROY" /\ cmd[j].v = VoiceHandle(i)
      BY <2>1, <1>7, <1>9
    <3>2. j - d \in 1 .. N1 /\ cmd'[j - d] = cmd[j]
      BY <2>1, <3>1, <1>10
    <3> QED BY <3>1, <3>2
  <2>2. ASSUME NEW k \in 1 .. N1, cmd'[k].t = "CREATE", ~Live(cmd'[k].v)
        PROVE  \E j \in 1 .. N1 : cmd'[j].t = "DESTROY" /\ j > k /\ cmd'[j].v = cmd'[k].v
    <3>1. PICK j \in 1 .. N : cmd[j].t = "DESTROY" /\ j > k + d /\ cmd[j].v = cmd[k + d].v
      BY <2>2, <1>2, <1>7
    <3>2. j - d \in 1 .. N1 /\ cmd'[j - d] = cmd[j] /\ j - d > k
      BY <3>1, <1>1, <1>10
    <3> QED BY <3>1, <3>2, <1>2
  <2>3. ASSUME NEW k \in 1 .. N1, cmd'[k].t = "CREATE", voice'[cmd'[k].v.idx].active
        PROVE  \E j \in 1 .. N1 : cmd'[j].t = "DESTROY" /\ j < k /\ cmd'[j].v = VoiceHandle(cmd'[k].v.idx)
    <3>1. cmd'[k].v.idx \in Voice /\ k + d \in 1 .. N /\ cmd'[k] = cmd[k + d]
      BY <2>3, <1>2, <1>6
    <3>2. PICK j \in 1 .. N : cmd[j].t = "DESTROY" /\ j < k + d /\ cmd[j].v = VoiceHandle(cmd'[k].v.idx)
      BY <2>3, <3>1, <1>7, <1>9
    <3>3. j - d \in 1 .. N1 /\ cmd'[j - d] = cmd[j]
      BY <2>3, <3>1, <3>2, <1>10
    <3>4. j - d < k
      BY <3>2, <1>1
    <3> QED BY <3>2, <3>3, <3>4
  <2>4. ASSUME NEW j \in 1 .. N1, NEW k \in 1 .. N1, cmd'[j].t = "CREATE", cmd'[k].t = "CREATE", j < k,
               cmd'[j].v.idx = cmd'[k].v.idx
        PROVE  \E n \in 1 .. N1 : cmd'[n].t = "DESTROY" /\ j < n /\ n < k /\ cmd'[n].v = cmd'[j].v
    <3>1. j + d \in 1 .. N /\ k + d \in 1 .. N /\ j + d < k + d /\ cmd'[j] = cmd[j + d] /\ cmd'[k] = cmd[k + d]
      BY <2>4, <1>1, <1>2
    <3>2. PICK n \in 1 .. N : cmd[n].t = "DESTROY" /\ j + d < n /\ n < k + d /\ cmd[n].v = cmd[j + d].v
      BY <2>4, <3>1, <1>7
    <3>3. n - d \in 1 .. N1 /\ cmd'[n - d] = cmd[n]
      BY <3>2, <1>10
    <3>4. j < n - d /\ n - d < k
      BY <3>2, <1>1
    <3> QED BY <3>1, <3>2, <3>3, <3>4
  <2>5. \A i \in Voice : voice'[i].active /\ ~Live(VoiceHandle(i))' => DestroyAfter(0, VoiceHandle(i))'
    <3>1. \A i \in Voice : Live(VoiceHandle(i))' <=> Live(VoiceHandle(i))
      BY <1>4 DEF Live
    <3> QED BY <2>1, <3>1, <1>4 DEF DestroyAfter, Commands, N1
  <2>6. ASSUME NEW k \in Commands("CREATE")', ~Live(cmd[k].v)' PROVE DestroyAfter(k, cmd[k].v)'
    <3>1. k \in 1 .. N1 /\ cmd'[k].t = "CREATE" /\ ~Live(cmd'[k].v)
      BY <2>6 DEF Commands, N1, Live
    <3> QED BY <2>2, <3>1 DEF DestroyAfter, Commands, N1
  <2>7. \A k \in Commands("CREATE")' : voice'[cmd'[k].v.idx].active =>
            \E j \in Commands("DESTROY")' : j < k /\ cmd'[j].v = VoiceHandle(cmd[k].v.idx)'
    <3>1. \A k \in Commands("CREATE")' : VoiceHandle(cmd[k].v.idx)' = VoiceHandle(cmd'[k].v.idx)
      BY <1>2, <1>6, <1>9 DEF VoiceHandle, Commands, N1
    <3> QED BY <2>3, <3>1 DEF Commands, N1
  <2>8. \A j, k \in Commands("CREATE")' : j < k /\ cmd'[j].v.idx = cmd'[k].v.idx =>
            \E n \in Commands("DESTROY")' : j < n /\ n < k /\ cmd'[n].v = cmd'[j].v
    BY <2>4 DEF Commands, N1
  <2> QED BY <2>5, <2>6, <2>7, <2>8 DEF LetGo
<1>13. EndedOnce'
  <2>1. ASSUME NEW k \in 1 .. E1, evt'[k].t = "ENDED"
        PROVE  ~(voice'[evt'[k].h.idx].active /\ VoiceHandle(evt'[k].h.idx) = evt'[k].h)
    <3>1. CASE k \in 1 .. E
      BY <2>1, <3>1, <1>3, <1>6, <1>8, <1>9
    <3>2. CASE k \notin 1 .. E
      BY <2>1, <3>2, <1>3, <1>4
    <3> QED BY <3>1, <3>2
  <2>2. ASSUME NEW j \in 1 .. E1, NEW k \in 1 .. E1, evt'[j].t = "ENDED", evt'[k].t = "ENDED",
               evt'[j].h = evt'[k].h
        PROVE  j = k
    <3>1. CASE j \in 1 .. E /\ k \in 1 .. E
      BY <2>2, <3>1, <1>3, <1>8
    <3>2. CASE j \notin 1 .. E /\ k \notin 1 .. E
      BY <3>2, <1>3
    <3>3. ASSUME NEW m \in 1 .. E, evt[m].t = "ENDED", evt[m].h = e.h, e.t = "ENDED" PROVE FALSE
      BY <3>3, <1>3, <1>4, <1>8
    <3>4. CASE j \in 1 .. E /\ k \notin 1 .. E
      BY <2>2, <3>3, <3>4, <1>3
    <3>5. CASE j \notin 1 .. E /\ k \in 1 .. E
      BY <2>2, <3>3, <3>5, <1>3
    <3> QED BY <3>1, <3>2, <3>4, <3>5
  <2>3. \A k \in 1 .. E1 : evt'[k].t = "ENDED" => VoiceHandle(evt[k].h.idx)' = VoiceHandle(evt'[k].h.idx)
    <3>1. \A k \in 1 .. E1 : evt'[k].t = "ENDED" => evt'[k].h.idx \in Voice
      BY <1>11 DEF LetOrder, E1
    <3> QED BY <3>1, <1>9 DEF VoiceHandle
  <2> QED BY <2>1, <2>2, <2>3 DEF EndedOnce, OneEndedPerLet, E1
<1> QED BY <1>9, <1>11, <1>12, <1>13 DEF LetInv, NoOverwrite

LEMMA LetsCreated ==
    ASSUME Shape, Shape', LetInv, slot' = slot, ctl' = ctl, evt' = evt, CmdShift(1), 1 \in 1 .. Len(cmd),
           cmd[1].t = "CREATE", voice'[cmd[1].v.idx].gen = cmd[1].v.gen,
           \A i \in Voice : i # cmd[1].v.idx => voice'[i] = voice[i]
    PROVE  LetInv' /\ NoOverwrite
<1> DEFINE N == Len(cmd)
           N1 == Len(cmd')
           E == Len(evt)
           New(i) == H(i, voice'[i].gen)
<1>0. PICK h \in Handle : h = cmd[1].v
  BY RingTypes
<1>1. N \in Nat /\ N1 \in Nat /\ N1 = N - 1 /\ E \in Nat /\ h \in Handle /\ h.gen \in Nat
  BY RingTypes, RingTypesPrime, HandleFields DEF CmdShift
<1>2. /\ \A k \in 1 .. N1 : k + 1 \in 1 .. N /\ cmd'[k] = cmd[k + 1] /\ cmd'[k].v \in Handle
      /\ \A k \in 1 .. N : k > 1 => k - 1 \in 1 .. N1 /\ cmd'[k - 1] = cmd[k]
      /\ 1 \in 1 .. N
  <2>1. /\ \A k \in 1 .. N1 : k + 1 \in 1 .. N
        /\ \A k \in 1 .. N : k > 1 => k - 1 \in 1 .. N1 /\ k - 1 + 1 = k
    BY <1>1
  <2> QED BY <2>1, RingTypesPrime DEF CmdShift
<1>4. \A i \in Voice : /\ VoiceHandle(i) \in Handle /\ VoiceHandle(i).idx = i
                       /\ VoiceHandle(i).gen = voice[i].gen
                       /\ New(i) \in Handle /\ New(i).idx = i /\ New(i).gen = voice'[i].gen
                       /\ voice[i].gen \in Nat /\ slot[i].gen \in Nat
  <2>1. \A i \in Voice : VoiceHandle(i)' = New(i)
    BY DEF VoiceHandle
  <2> QED BY <2>1, VoiceHandles, VoiceHandlesPrime
<1>5. \A g : Live(g)' <=> Live(g)
  BY DEF Live
<1>6. /\ \A i \in Voice : voice[i].gen <= slot[i].gen
      /\ \A k \in 1 .. N : cmd[k].t = "CREATE" =>
            /\ cmd[k].v.idx \in Voice
            /\ voice[cmd[k].v.idx].gen < cmd[k].v.gen /\ cmd[k].v.gen <= slot[cmd[k].v.idx].gen
      /\ \A j, k \in 1 .. N : cmd[j].t = "CREATE" /\ cmd[k].t = "CREATE" /\ j < k /\ cmd[j].v.idx = cmd[k].v.idx
            => cmd[j].v.gen < cmd[k].v.gen
      /\ ctl.pc = "push" =>
            /\ voice[ctl.h.idx].gen < ctl.h.gen
            /\ \A k \in 1 .. N : cmd[k].t = "CREATE" /\ cmd[k].v.idx = ctl.h.idx => cmd[k].v.gen < ctl.h.gen
      /\ \A k \in 1 .. E : evt[k].t = "ENDED" =>
            evt[k].h.idx \in Voice /\ evt[k].h.gen <= voice[evt[k].h.idx].gen
  BY DEF LetInv, LetOrder, Commands
<1>7. /\ \A i \in Voice : voice[i].active /\ ~Live(VoiceHandle(i)) =>
            \E j \in 1 .. N : cmd[j].t = "DESTROY" /\ j > 0 /\ cmd[j].v = VoiceHandle(i)
      /\ \A k \in 1 .. N : cmd[k].t = "CREATE" /\ ~Live(cmd[k].v) =>
            \E j \in 1 .. N : cmd[j].t = "DESTROY" /\ j > k /\ cmd[j].v = cmd[k].v
      /\ \A k \in 1 .. N : cmd[k].t = "CREATE" /\ voice[cmd[k].v.idx].active =>
            \E j \in 1 .. N : cmd[j].t = "DESTROY" /\ j < k /\ cmd[j].v = VoiceHandle(cmd[k].v.idx)
      /\ \A j, k \in 1 .. N : cmd[j].t = "CREATE" /\ cmd[k].t = "CREATE" /\ j < k /\ cmd[j].v.idx = cmd[k].v.idx =>
            \E n \in 1 .. N : cmd[n].t = "DESTROY" /\ j < n /\ n < k /\ cmd[n].v = cmd[j].v
  BY DEF LetInv, LetGo, Commands, DestroyAfter
<1>8. /\ \A k \in 1 .. E : evt[k].t = "ENDED" =>
            ~(voice[evt[k].h.idx].active /\ VoiceHandle(evt[k].h.idx) = evt[k].h)
      /\ \A j, k \in 1 .. E : evt[j].t = "ENDED" /\ evt[k].t = "ENDED" /\ evt[j].h = evt[k].h => j = k
      /\ \A k \in 1 .. E : evt[k].h \in Handle /\ evt[k].h.gen \in Nat
  BY RingTypes, HandleFields DEF LetInv, EndedOnce, OneEndedPerLet
<1>9. /\ h.idx \in Voice /\ cmd[1].t = "CREATE" /\ cmd[1].v = h
      /\ voice'[h.idx].gen = h.gen /\ voice[h.idx].gen < h.gen /\ h.gen <= slot[h.idx].gen
      /\ \A i \in Voice : i # h.idx => voice'[i] = voice[i] /\ New(i) = VoiceHandle(i)
      /\ New(h.idx) = h
      /\ ctl.pc = "push" => ctl.h.idx \in Voice
  <2>1. h.idx \in Voice /\ voice[h.idx].gen < h.gen /\ h.gen <= slot[h.idx].gen
    BY <1>0, <1>2, <1>6
  <2>2. New(h.idx) = h
    BY <2>1, <1>0, <1>1, <1>4, SameHandle
  <2>3. \A i \in Voice : i # h.idx => voice'[i] = voice[i] /\ New(i) = VoiceHandle(i)
    BY <1>0 DEF VoiceHandle
  <2>4. ctl.pc = "push" => ctl.h.idx \in Voice
    BY DEF Shape, ThreadsOK
  <2> QED BY <2>1, <2>2, <2>3, <2>4, <1>0
<1> HIDE DEF N, N1, E, New
<1>10. ~voice[h.idx].active
  <2>1. voice[cmd[1].v.idx].active => \E j \in 1 .. N : j < 1
    BY <1>2, <1>7, <1>9
  <2> QED BY <2>1, <1>1, <1>9
<1>11. LetOrder'
  <2>1. \A i \in Voice : voice'[i].gen <= slot'[i].gen
    BY <1>6, <1>9
  <2>2. ASSUME NEW k \in 1 .. N1, cmd'[k].t = "CREATE"
        PROVE  /\ cmd'[k].v.idx \in Voice
               /\ voice'[cmd'[k].v.idx].gen < cmd'[k].v.gen /\ cmd'[k].v.gen <= slot'[cmd'[k].v.idx].gen
    <3>1. k + 1 \in 1 .. N /\ cmd'[k] = cmd[k + 1] /\ 1 < k + 1
      BY <1>1, <1>2
    <3> QED BY <2>2, <3>1, <1>2, <1>6, <1>9
  <2>3. ASSUME NEW j \in 1 .. N1, NEW k \in 1 .. N1, cmd'[j].t = "CREATE", cmd'[k].t = "CREATE", j < k,
               cmd'[j].v.idx = cmd'[k].v.idx
        PROVE  cmd'[j].v.gen < cmd'[k].v.gen
    <3>1. j + 1 \in 1 .. N /\ k + 1 \in 1 .. N /\ cmd'[j] = cmd[j + 1] /\ cmd'[k] = cmd[k + 1]
      BY <1>2
    <3>2. j + 1 < k + 1
      BY <2>3, <1>1
    <3> QED BY <2>3, <3>1, <3>2, <1>6
  <2>4. ctl'.pc = "push" =>
            /\ voice'[ctl'.h.idx].gen < ctl'.h.gen
            /\ \A k \in 1 .. N1 : cmd'[k].t = "CREATE" /\ cmd'[k].v.idx = ctl'.h.idx => cmd'[k].v.gen < ctl'.h.gen
    BY <1>2, <1>6, <1>9
  <2>5. ASSUME NEW k \in 1 .. E, evt[k].t = "ENDED"
        PROVE  evt[k].h.idx \in Voice /\ evt[k].h.gen <= voice'[evt[k].h.idx].gen
    <3>1. evt[k].h.idx \in Voice /\ evt[k].h.gen <= voice[evt[k].h.idx].gen /\ evt[k].h.gen \in Nat
      BY <2>5, <1>6, <1>8
    <3>2. CASE evt[k].h.idx = h.idx
      BY <3>1, <3>2, <1>1, <1>4, <1>9
    <3>3. CASE evt[k].h.idx # h.idx
      BY <3>1, <3>3, <1>9
    <3> QED BY <3>1, <3>2, <3>3
  <2> QED BY <2>1, <2>2, <2>3, <2>4, <2>5 DEF LetOrder, Commands, N1, E
<1>12. LetGo'
  <2>1. ASSUME NEW i \in Voice, voice'[i].active, NEW g \in Handle, g = New(i), ~Live(g)
        PROVE  \E j \in 1 .. N1 : cmd'[j].t = "DESTROY" /\ j > 0 /\ cmd'[j].v = g
    <3>1. PICK j \in 1 .. N : cmd[j].t = "DESTROY" /\ cmd[j].v = g
      <4>1. CASE i = h.idx
        BY <2>1, <4>1, <1>2, <1>7, <1>9
      <4>2. CASE i # h.idx
        BY <2>1, <4>2, <1>7, <1>9
      <4> QED BY <4>1, <4>2
    <3>2. j > 1
      BY <3>1, <1>1, <1>9
    <3>3. j - 1 \in 1 .. N1 /\ cmd'[j - 1] = cmd[j]
      BY <3>2, <1>2
    <3> QED BY <3>1, <3>3
  <2>2. ASSUME NEW k \in 1 .. N1, cmd'[k].t = "CREATE", ~Live(cmd'[k].v)
        PROVE  \E j \in 1 .. N1 : cmd'[j].t = "DESTROY" /\ j > k /\ cmd'[j].v = cmd'[k].v
    <3>1. PICK j \in 1 .. N : cmd[j].t = "DESTROY" /\ j > k + 1 /\ cmd[j].v = cmd[k + 1].v
      BY <2>2, <1>2, <1>7
    <3>2. j - 1 \in 1 .. N1 /\ cmd'[j - 1] = cmd[j] /\ j - 1 > k
      BY <3>1, <1>1, <1>2
    <3> QED BY <3>1, <3>2, <1>2
  <2>3. ASSUME NEW k \in 1 .. N1, cmd'[k].t = "CREATE", voice'[cmd'[k].v.idx].active
        PROVE  \E j \in 1 .. N1 : cmd'[j].t = "DESTROY" /\ j < k /\ cmd'[j].v = New(cmd'[k].v.idx)
    <3>1. cmd'[k].v.idx \in Voice /\ k + 1 \in 1 .. N /\ cmd'[k] = cmd[k + 1] /\ 1 < k + 1
      BY <2>3, <1>1, <1>2, <1>6
    <3>2. PICK j \in 1 .. N : cmd[j].t = "DESTROY" /\ j < k + 1 /\ cmd[j].v = New(cmd'[k].v.idx)
      <4>1. CASE cmd'[k].v.idx = h.idx
        <5>1. PICK m \in 1 .. N : m = k + 1
          BY <3>1
        <5>2. cmd[m].t = "CREATE" /\ cmd[m].v.idx = h.idx /\ 1 < m /\ 1 \in 1 .. N
          BY <2>3, <3>1, <4>1, <5>1, <1>2
        <5>3. PICK j \in 1 .. N : cmd[j].t = "DESTROY" /\ 1 < j /\ j < m /\ cmd[j].v = h
          BY <5>2, <1>7, <1>9
        <5> QED BY <4>1, <5>1, <5>3, <1>9
      <4>2. CASE cmd'[k].v.idx # h.idx
        BY <2>3, <3>1, <4>2, <1>7, <1>9
      <4> QED BY <4>1, <4>2
    <3>3. j > 1
      BY <3>2, <1>1, <1>9
    <3>4. j - 1 \in 1 .. N1 /\ cmd'[j - 1] = cmd[j]
      BY <3>2, <3>3, <1>2
    <3>5. j - 1 < k
      BY <3>2, <1>1
    <3> QED BY <3>2, <3>4, <3>5
  <2>4. ASSUME NEW j \in 1 .. N1, NEW k \in 1 .. N1, cmd'[j].t = "CREATE", cmd'[k].t = "CREATE", j < k,
               cmd'[j].v.idx = cmd'[k].v.idx
        PROVE  \E n \in 1 .. N1 : cmd'[n].t = "DESTROY" /\ j < n /\ n < k /\ cmd'[n].v = cmd'[j].v
    <3>1. j + 1 \in 1 .. N /\ k + 1 \in 1 .. N /\ j + 1 < k + 1 /\ cmd'[j] = cmd[j + 1] /\ cmd'[k] = cmd[k + 1]
      BY <2>4, <1>1, <1>2
    <3>2. PICK n \in 1 .. N : cmd[n].t = "DESTROY" /\ j + 1 < n /\ n < k + 1 /\ cmd[n].v = cmd[j + 1].v
      BY <2>4, <3>1, <1>7
    <3>3. n - 1 \in 1 .. N1 /\ cmd'[n - 1] = cmd[n]
      BY <3>2, <1>1, <1>2
    <3>4. j < n - 1 /\ n - 1 < k
      BY <3>2, <1>1
    <3> QED BY <3>1, <3>2, <3>3, <3>4
  <2>5. \A i \in Voice : voice'[i].active /\ ~Live(VoiceHandle(i))' => DestroyAfter(0, VoiceHandle(i))'
    <3>1. \A i : VoiceHandle(i)' = New(i)
      BY DEF VoiceHandle, New
    <3>2. \A i \in Voice : Live(VoiceHandle(i))' <=> Live(New(i))
      BY <3>1 DEF Live
    <3> QED BY <2>1, <3>1, <3>2, <1>4 DEF DestroyAfter, Commands, N1
  <2>6. ASSUME NEW k \in Commands("CREATE")', ~Live(cmd[k].v)' PROVE DestroyAfter(k, cmd[k].v)'
    <3>1. k \in 1 .. N1 /\ cmd'[k].t = "CREATE" /\ ~Live(cmd'[k].v)
      BY <2>6 DEF Commands, N1, Live
    <3> QED BY <2>2, <3>1 DEF DestroyAfter, Commands, N1
  <2>7. \A k \in Commands("CREATE")' : voice'[cmd'[k].v.idx].active =>
            \E j \in Commands("DESTROY")' : j < k /\ cmd'[j].v = VoiceHandle(cmd[k].v.idx)'
    <3>1. \A k : VoiceHandle(cmd[k].v.idx)' = New(cmd'[k].v.idx)
      BY DEF VoiceHandle, New
    <3> QED BY <2>3, <3>1 DEF Commands, N1
  <2>8. \A j, k \in Commands("CREATE")' : j < k /\ cmd'[j].v.idx = cmd'[k].v.idx =>
            \E n \in Commands("DESTROY")' : j < n /\ n < k /\ cmd'[n].v = cmd'[j].v
    BY <2>4 DEF Commands, N1
  <2> QED BY <2>5, <2>6, <2>7, <2>8 DEF LetGo
<1>13. EndedOnce'
  <2>1. ASSUME NEW k \in 1 .. E, evt[k].t = "ENDED"
        PROVE  ~(voice'[evt[k].h.idx].active /\ New(evt[k].h.idx) = evt[k].h)
    <3>1. CASE evt[k].h.idx = h.idx
      <4>1. evt[k].h.gen <= voice[h.idx].gen /\ voice[h.idx].gen < h.gen
        BY <2>1, <3>1, <1>6, <1>9
      <4>2. evt[k].h # h
        BY <4>1, <1>1, <1>4, <1>8, <1>9
      <4> QED BY <3>1, <4>2, <1>9
    <3>2. CASE evt[k].h.idx # h.idx
      BY <2>1, <3>2, <1>6, <1>8, <1>9
    <3> QED BY <3>1, <3>2
  <2>2. \A k : VoiceHandle(evt[k].h.idx)' = New(evt'[k].h.idx)
    BY DEF VoiceHandle, New
  <2> QED BY <2>1, <2>2, <1>8 DEF EndedOnce, OneEndedPerLet, E
<1>14. NoOverwrite
  BY <1>0, <1>9, <1>10 DEF NoOverwrite
<1> QED BY <1>11, <1>12, <1>13, <1>14 DEF LetInv

-----------------------------------------------------------------------------
(* The actions of the audio thread. *)

\* A step that neither gives a voice back nor adds an ended event.
LEMMA LetsQuietAudio ==
    ASSUME Shape, Shape', LetInv, slot' = slot, ctl' = ctl, NEW d \in 0 .. 1, CmdShift(d),
           d = 1 => cmd[1].t \notin {"CREATE", "DESTROY"},
           \A i \in Voice : voice'[i].gen = voice[i].gen /\ voice'[i].active = voice[i].active,
           evt' = evt \/ \E e \in Evt : evt' = Append(evt, e) /\ e.t # "ENDED"
    PROVE  LetInv' /\ NoOverwrite
<1>1. VoicesKept /\ EndedAdded
  BY DEF VoicesKept, EndedAdded
<1> QED BY <1>1, LetsAudio

LEMMA MkEvents ==
    \A t \in EvtTypes, h \in Handle : MkEvt(t, h) \in Evt /\ MkEvt(t, h).t = t /\ MkEvt(t, h).h = h
BY DEF MkEvt, Evt

LEMMA DrainCreateLets == ASSUME Shape, Shape', LetInv, DrainCreate PROVE LetInv' /\ NoOverwrite
<1>1. "CREATE" \in CmdTypes /\ TakeCmd("CREATE")
  BY DEF CmdTypes, DrainCreate
<1>2. /\ CmdShift(1) /\ 1 \in 1 .. Len(cmd) /\ cmd[1] = Head(cmd) /\ cmd[1].t = "CREATE"
  BY <1>1, TakenCmd
<1>3. cmd[1].v.idx \in Voice
  BY <1>2 DEF LetInv, LetOrder, Commands
<1>4. PICK r : /\ r.gen = cmd[1].v.gen /\ voice' = [voice EXCEPT ![cmd[1].v.idx] = r]
  <2>1. PICK r : r = [gen |-> Head(cmd).v.gen, active |-> TRUE, playing |-> FALSE, snd |-> None,
                      stopping |-> 0, oneshot |-> FALSE, open |-> TRUE, queue |-> <<>>]
    OBVIOUS
  <2> QED BY <1>2, <2>1 DEF DrainCreate
<1>5. voice \in [Voice -> VoiceRec]
  BY DEF Shape, TypeOK
<1>6. /\ voice'[cmd[1].v.idx].gen = cmd[1].v.gen
      /\ \A i \in Voice : i # cmd[1].v.idx => voice'[i] = voice[i]
  BY <1>3, <1>4, <1>5
<1>7. evt' = evt /\ slot' = slot /\ ctl' = ctl
  BY <1>1 DEF DrainCreate, TakeCmd, ctlVars
<1> QED BY <1>2, <1>6, <1>7, LetsCreated

LEMMA DrainDestroyLets == ASSUME Shape, Shape', LetInv, DrainDestroy PROVE LetInv' /\ NoOverwrite
<1>1. "DESTROY" \in CmdTypes /\ TakeCmd("DESTROY")
  BY DEF CmdTypes, DrainDestroy
<1>2. /\ CmdShift(1) /\ 1 \in 0 .. 1 /\ cmd[1] = Head(cmd) /\ cmd[1].t = "DESTROY" /\ cmd[1].v \in Handle
  BY <1>1, TakenCmd
<1>3. PICK h \in Handle : h = cmd[1].v
  BY <1>2
<1>4. voice \in [Voice -> VoiceRec]
  BY DEF Shape, TypeOK
<1>5. \A r \in VoiceRec : LET q == [r EXCEPT !.active = FALSE, !.playing = FALSE, !.snd = None]
                          IN  q.gen = r.gen /\ q.active = FALSE
  BY DEF VoiceRec
<1>6. VoicesKept /\ \A i \in Voice : h = VoiceHandle(i) => ~voice'[i].active
  <2>1. CASE VoiceFor(h)
    <3>1. voice' = [voice EXCEPT ![h.idx].active = FALSE, ![h.idx].playing = FALSE, ![h.idx].snd = None]
      BY <1>2, <1>3, <2>1 DEF DrainDestroy
    <3>2. h.idx \in Voice
      BY <2>1 DEF VoiceFor
    <3>3. voice'[h.idx].gen = voice[h.idx].gen /\ ~voice'[h.idx].active
      BY <1>4, <1>5, <3>1, <3>2
    <3>4. \A i \in Voice : i # h.idx => voice'[i] = voice[i]
      BY <1>4, <3>1
    <3> QED BY <3>3, <3>4, VoiceHandles DEF VoicesKept
  <2>2. CASE ~VoiceFor(h)
    <3>1. voice' = voice
      BY <1>2, <1>3, <2>2 DEF DrainDestroy
    <3>2. \A i \in Voice : h = VoiceHandle(i) => ~voice[i].active
      BY <2>2, VoiceHandles DEF VoiceFor
    <3> QED BY <3>1, <3>2 DEF VoicesKept
  <2> QED BY <2>1, <2>2
<1>7. EndedAdded /\ slot' = slot /\ ctl' = ctl
  BY <1>1 DEF DrainDestroy, TakeCmd, ctlVars, EndedAdded
<1> QED BY <1>2, <1>3, <1>6, <1>7, LetsAudio

LEMMA DrainStealLets == ASSUME Shape, Shape', LetInv, DrainSteal PROVE LetInv' /\ NoOverwrite
<1>1. "STEAL" \in CmdTypes /\ TakeCmd("STEAL")
  BY DEF CmdTypes, DrainSteal
<1>2. /\ CmdShift(1) /\ 1 \in 0 .. 1 /\ cmd[1] = Head(cmd) /\ cmd[1].t = "STEAL" /\ cmd[1].v \in Handle
  BY <1>1, TakenCmd
<1>3. PICK h \in Handle : h = Head(cmd).v
  BY <1>2
<1>4. voice \in [Voice -> VoiceRec]
  BY DEF Shape, TypeOK
<1>5. /\ \A r \in VoiceRec : LET q == [r EXCEPT !.stopping = 2] IN q.gen = r.gen /\ q.active = r.active
      /\ \A r \in VoiceRec : LET q == [r EXCEPT !.stopping = 0, !.active = FALSE, !.snd = None]
                             IN  q.gen = r.gen /\ q.active = FALSE
  BY DEF VoiceRec
<1>6. slot' = slot /\ ctl' = ctl
  BY <1>1 DEF TakeCmd, ctlVars
<1>7. CASE voice' = voice /\ evt' = evt
  BY <1>2, <1>6, <1>7, LetsQuietAudio
<1>8. CASE h.idx \in Voice /\ voice' = [voice EXCEPT ![h.idx].stopping = 2] /\ evt' = evt
  <2>1. \A i \in Voice : voice'[i].gen = voice[i].gen /\ voice'[i].active = voice[i].active
    BY <1>4, <1>5, <1>8
  <2> QED BY <1>2, <1>6, <1>8, <2>1, LetsQuietAudio
<1>9. CASE /\ VoiceFor(h) /\ PushAck(MkEvt("ENDED", h))
           /\ voice' = [voice EXCEPT ![h.idx].stopping = 0, ![h.idx].active = FALSE, ![h.idx].snd = None]
  <2>0. h.idx \in Voice /\ voice[h.idx].active /\ voice[h.idx].gen = h.gen
    BY <1>9 DEF VoiceFor
  <2>1. voice'[h.idx].gen = voice[h.idx].gen /\ ~voice'[h.idx].active
    BY <1>4, <1>5, <1>9, <2>0
  <2>2. \A i \in Voice : i # h.idx => voice'[i] = voice[i]
    BY <1>4, <1>9
  <2>3. h = VoiceHandle(h.idx)
    BY <2>0, VoiceHandles, SameHandle
  <2>4. VoicesKept
    BY <2>1, <2>2 DEF VoicesKept
  <2>5. EndedAdded
    <3>1. "ENDED" \in EvtTypes
      BY DEF EvtTypes
    <3>2. PICK e \in Evt : e = MkEvt("ENDED", h) /\ e.h = h
      BY <3>1, MkEvents
    <3>3. evt' = evt \/ evt' = Append(evt, e)
      BY <1>9, <3>2 DEF PushAck
    <3> QED BY <2>0, <2>1, <2>3, <3>2, <3>3 DEF EndedAdded
  <2> QED BY <1>2, <1>6, <2>4, <2>5, LetsAudio
<1> QED BY <1>3, <1>7, <1>8, <1>9 DEF DrainSteal, VoiceFor

LEMMA DrainPlayLets == ASSUME Shape, Shape', LetInv, DrainPlay PROVE LetInv' /\ NoOverwrite
<1>1. "PLAY" \in CmdTypes /\ TakeCmd("PLAY") /\ evt' = evt
  BY DEF CmdTypes, DrainPlay
<1>2. CmdShift(1) /\ 1 \in 0 .. 1 /\ cmd[1].t = "PLAY"
  BY <1>1, TakenCmd
<1>3. voice \in [Voice -> VoiceRec]
  BY DEF Shape, TypeOK
<1>4. PICK c : c = Head(cmd)
  OBVIOUS
<1>5. \A r \in VoiceRec : /\ Bound(r, c).gen = r.gen /\ Bound(r, c).active = r.active
                          /\ Detached(r).gen = r.gen /\ Detached(r).active = r.active
  BY DEF VoiceRec, Bound, Detached
<1>6. \A i \in Voice : voice'[i].gen = voice[i].gen /\ voice'[i].active = voice[i].active
  <2>1. \A i \in Voice : voice'[i] \in {voice[i], Bound(voice[i], c), Detached(voice[i])}
    BY <1>3, <1>4 DEF DrainPlay
  <2> QED BY <1>3, <1>5, <2>1
<1>7. slot' = slot /\ ctl' = ctl
  BY <1>1 DEF TakeCmd, ctlVars
<1> QED BY <1>1, <1>2, <1>6, <1>7, LetsQuietAudio

LEMMA DrainStopLets == ASSUME Shape, Shape', LetInv, DrainStop PROVE LetInv' /\ NoOverwrite
<1>1. "STOP" \in CmdTypes /\ TakeCmd("STOP") /\ evt' = evt
  BY DEF CmdTypes, DrainStop
<1>2. CmdShift(1) /\ 1 \in 0 .. 1 /\ cmd[1].t = "STOP"
  BY <1>1, TakenCmd
<1>3. voice \in [Voice -> VoiceRec]
  BY DEF Shape, TypeOK
<1>4. \A r \in VoiceRec : LET q == [r EXCEPT !.stopping = 1] IN q.gen = r.gen /\ q.active = r.active
  BY DEF VoiceRec
<1>5. PICK j : voice' = voice \/ voice' = [voice EXCEPT ![j].stopping = 1]
  BY DEF DrainStop
<1>6. \A i \in Voice : voice'[i].gen = voice[i].gen /\ voice'[i].active = voice[i].active
  BY <1>3, <1>4, <1>5
<1>7. slot' = slot /\ ctl' = ctl
  BY <1>1 DEF TakeCmd, ctlVars
<1> QED BY <1>1, <1>2, <1>6, <1>7, LetsQuietAudio

LEMMA DrainStopAllLets == ASSUME Shape, Shape', LetInv, DrainStopAll PROVE LetInv' /\ NoOverwrite
<1>1. "STOP_ALL" \in CmdTypes /\ TakeCmd("STOP_ALL") /\ evt' = evt
  BY DEF CmdTypes, DrainStopAll
<1>2. CmdShift(1) /\ 1 \in 0 .. 1 /\ cmd[1].t = "STOP_ALL"
  BY <1>1, TakenCmd
<1>3. voice \in [Voice -> VoiceRec]
  BY DEF Shape, TypeOK
<1>4. \A r \in VoiceRec : LET q == [r EXCEPT !.stopping = 1, !.queue = <<>>]
                          IN  q.gen = r.gen /\ q.active = r.active
  BY DEF VoiceRec
<1>5. \A i \in Voice : voice'[i] \in {voice[i], [voice[i] EXCEPT !.stopping = 1, !.queue = <<>>]}
  BY DEF DrainStopAll
<1>6. \A i \in Voice : voice'[i].gen = voice[i].gen /\ voice'[i].active = voice[i].active
  BY <1>3, <1>4, <1>5
<1>7. slot' = slot /\ ctl' = ctl
  BY <1>1 DEF TakeCmd, ctlVars
<1> QED BY <1>1, <1>2, <1>6, <1>7, LetsQuietAudio

LEMMA DrainQueueLets == ASSUME Shape, Shape', LetInv, DrainQueue PROVE LetInv' /\ NoOverwrite
<1>1. "QUEUE" \in CmdTypes /\ TakeCmd("QUEUE") /\ evt' = evt
  BY DEF CmdTypes, DrainQueue
<1>2. CmdShift(1) /\ 1 \in 0 .. 1 /\ cmd[1].t = "QUEUE"
  BY <1>1, TakenCmd
<1>3. voice \in [Voice -> VoiceRec]
  BY DEF Shape, TypeOK
<1>4. PICK c : c = Head(cmd)
  OBVIOUS
<1>5. \A r \in VoiceRec : LET q == [r EXCEPT !.queue = Append(@, c.s)]
                          IN  q.gen = r.gen /\ q.active = r.active
  BY DEF VoiceRec
<1>6. voice' = voice \/ voice' = [voice EXCEPT ![c.v.idx].queue = Append(@, c.s)]
  BY <1>4 DEF DrainQueue
<1>7. \A i \in Voice : voice'[i].gen = voice[i].gen /\ voice'[i].active = voice[i].active
  BY <1>3, <1>5, <1>6
<1>8. slot' = slot /\ ctl' = ctl
  BY <1>1 DEF TakeCmd, ctlVars
<1> QED BY <1>1, <1>2, <1>7, <1>8, LetsQuietAudio

LEMMA DrainRetireLets == ASSUME Shape, Shape', LetInv, DrainRetire PROVE LetInv' /\ NoOverwrite
<1>1. "RETIRE" \in CmdTypes /\ TakeCmd("RETIRE")
  BY DEF CmdTypes, DrainRetire
<1>2. CmdShift(1) /\ 1 \in 0 .. 1 /\ cmd[1] = Head(cmd) /\ cmd[1].t = "RETIRE" /\ cmd[1].s \in Handle
  BY <1>1, TakenCmd
<1>3. PICK h \in Handle : h = Head(cmd).s
  BY <1>2
<1>4. voice \in [Voice -> VoiceRec]
  BY DEF Shape, TypeOK
<1>5. \A j : \A r \in VoiceRec : Released(r, j).gen = r.gen /\ Released(r, j).active = r.active
  BY DEF VoiceRec, Released
<1>6. \A i \in Voice : voice'[i].gen = voice[i].gen /\ voice'[i].active = voice[i].active
  <2>1. voice' = voice \/ voice' = [i \in Voice |-> Released(voice[i], h.idx)]
    BY <1>3 DEF DrainRetire
  <2> QED BY <1>4, <1>5, <2>1
<1>7. PICK e \in Evt : e = MkEvt("RETIRED", h) /\ e.t = "RETIRED"
  <2>1. "RETIRED" \in EvtTypes
    BY DEF EvtTypes
  <2> QED BY <2>1, MkEvents
<1>8. evt' = evt \/ evt' = Append(evt, e)
  BY <1>3, <1>7 DEF DrainRetire, PushAck
<1>9. slot' = slot /\ ctl' = ctl
  BY <1>1 DEF TakeCmd, ctlVars
<1> QED BY <1>2, <1>6, <1>7, <1>8, <1>9, LetsQuietAudio

LEMMA BlockLets ==
    ASSUME Shape, Shape', LetInv, DrainParam \/ EndDrainCommands \/ BeginBlock \/ EndBlock
    PROVE  LetInv' /\ NoOverwrite
<1>1. voice' = voice /\ evt' = evt /\ slot' = slot /\ ctl' = ctl
  BY DEF DrainParam, EndDrainCommands, BeginBlock, EndBlock, TakeCmd, ctlVars, ringVars
<1>2. CASE DrainParam
  <2>1. PICK t \in {"PARAM", "COMMIT"} : TakeCmd(t)
    BY <1>2 DEF DrainParam
  <2>2. t \in CmdTypes
    BY DEF CmdTypes
  <2>3. CmdShift(1) /\ 1 \in 0 .. 1 /\ cmd[1].t = t
    BY <2>1, <2>2, TakenCmd
  <2> QED BY <1>1, <2>3, LetsQuietAudio
<1>3. CASE EndDrainCommands \/ BeginBlock \/ EndBlock
  <2>1. CmdShift(0) /\ 0 \in 0 .. 1 /\ 0 # 1
    BY <1>3, SameCmd DEF EndDrainCommands, BeginBlock, EndBlock, ringVars
  <2> QED BY <1>1, <2>1, LetsQuietAudio
<1> QED BY <1>2, <1>3

LEMMA MixLets ==
    ASSUME Shape, Shape', LetInv, NEW i \in Voice, MixFinalize(i) \/ MixOn(i) \/ MixChain(i) \/ MixEnd(i)
    PROVE  LetInv' /\ NoOverwrite
<1>0. voice \in [Voice -> VoiceRec] /\ VoiceHandle(i) \in Handle /\ VoiceHandle(i) = H(i, voice[i].gen)
  BY VoiceHandles DEF Shape, TypeOK, VoiceHandle
<1>1. slot' = slot /\ ctl' = ctl /\ cmd' = cmd
  BY DEF MixFinalize, MixOn, MixChain, MixEnd, Mixed, ctlVars
<1>2. CmdShift(0) /\ 0 \in 0 .. 1 /\ 0 # 1
  BY <1>1, SameCmd
<1>3. voice[i].active
  BY DEF MixFinalize, MixOn, MixChain, MixEnd, MixAt, ToMix, Renderable
<1>4. PICK e \in Evt, n \in Evt : /\ e = MkEvt("ENDED", H(i, voice[i].gen)) /\ e.h = VoiceHandle(i)
                                  /\ n = MkEvt("NOTICE", H(i, voice[i].gen)) /\ n.t # "ENDED"
  <2>1. "ENDED" \in EvtTypes /\ "NOTICE" \in EvtTypes
    BY DEF EvtTypes
  <2> QED BY <1>0, <2>1, MkEvents
<1>5. CASE MixOn(i) \/ MixChain(i)
  <2>1. \A j \in Voice : voice'[j].gen = voice[j].gen /\ voice'[j].active = voice[j].active
    <3>1. CASE MixOn(i)
      <4>1. PICK o : voice' = [voice EXCEPT ![i].open = o]
        BY <3>1 DEF MixOn
      <4>2. \A r \in VoiceRec : LET q == [r EXCEPT !.open = o] IN q.gen = r.gen /\ q.active = r.active
        BY DEF VoiceRec
      <4> QED BY <1>0, <4>1, <4>2
    <3>2. CASE MixChain(i)
      <4>1. PICK s, q, o : voice' = [voice EXCEPT ![i].snd = s, ![i].queue = q, ![i].open = o]
        BY <3>2 DEF MixChain
      <4>2. \A r \in VoiceRec : LET c == [r EXCEPT !.snd = s, !.queue = q, !.open = o]
                                IN  c.gen = r.gen /\ c.active = r.active
        BY DEF VoiceRec
      <4>3. voice'[i].gen = voice[i].gen /\ voice'[i].active = voice[i].active
        BY <1>0, <4>1, <4>2
      <4>4. \A j \in Voice : j # i => voice'[j] = voice[j]
        BY <1>0, <4>1
      <4> QED BY <4>3, <4>4
    <3> QED BY <1>5, <3>1, <3>2
  <2>2. evt' = evt
    BY <1>5 DEF MixOn, MixChain
  <2> QED BY <1>1, <1>2, <2>1, <2>2, LetsQuietAudio
<1>6. CASE MixFinalize(i) \/ MixEnd(i)
  <2>1. PICK b \in BOOLEAN : /\ voice'[i].gen = voice[i].gen /\ voice'[i].active = b
                             /\ \A j \in Voice : j # i => voice'[j] = voice[j]
                             /\ \/ ~b /\ PushAck(e)
                                \/ evt' = evt
                                \/ PushNotice(n)
    <3>1. CASE MixFinalize(i)
      <4>1. PICK b \in BOOLEAN : b = ~GivesBack(i)
        OBVIOUS
      <4>2. voice' = [voice EXCEPT ![i].stopping = 0, ![i].playing = FALSE, ![i].active = b]
        BY <3>1, <4>1 DEF MixFinalize
      <4>3. \A r \in VoiceRec : LET q == [r EXCEPT !.stopping = 0, !.playing = FALSE, !.active = b]
                                IN  q.gen = r.gen /\ q.active = b
        BY DEF VoiceRec
      <4>4. voice'[i].gen = voice[i].gen /\ voice'[i].active = b
        BY <1>0, <4>2, <4>3
      <4>5. \A j \in Voice : j # i => voice'[j] = voice[j]
        BY <1>0, <4>2
      <4>6. IF GivesBack(i) THEN PushAck(e) ELSE evt' = evt
        BY <3>1, <1>4 DEF MixFinalize
      <4> QED BY <4>1, <4>4, <4>5, <4>6
    <3>2. CASE MixEnd(i)
      <4>1. voice[i].oneshot \in BOOLEAN
        BY <1>0 DEF VoiceRec
      <4>2. PICK b \in BOOLEAN : b = ~voice[i].oneshot
        OBVIOUS
      <4>3. PICK o, q : voice' = [voice EXCEPT ![i].playing = FALSE, ![i].open = o, ![i].active = b, ![i].queue = q]
        BY <3>2, <4>2 DEF MixEnd
      <4>4. \A r \in VoiceRec : LET c == [r EXCEPT !.playing = FALSE, !.open = o, !.active = b, !.queue = q]
                                IN  c.gen = r.gen /\ c.active = b
        BY DEF VoiceRec
      <4>5. voice'[i].gen = voice[i].gen /\ voice'[i].active = b
        BY <1>0, <4>3, <4>4
      <4>6. \A j \in Voice : j # i => voice'[j] = voice[j]
        BY <1>0, <4>3
      <4>7. IF voice[i].oneshot THEN PushAck(e) ELSE PushNotice(n)
        BY <3>2, <1>4 DEF MixEnd
      <4> QED BY <4>1, <4>2, <4>5, <4>6, <4>7
    <3> QED BY <1>6, <3>1, <3>2
  <2>2. VoicesKept
    BY <1>3, <2>1 DEF VoicesKept
  <2>3. EndedAdded
    <3>1. CASE ~b /\ PushAck(e)
      BY <1>3, <1>4, <2>1, <3>1 DEF EndedAdded, PushAck
    <3>2. CASE evt' = evt \/ PushNotice(n)
      BY <1>4, <3>2 DEF EndedAdded, PushNotice
    <3> QED BY <2>1, <3>1, <3>2
  <2> QED BY <1>1, <1>2, <2>2, <2>3, LetsAudio
<1> QED BY <1>5, <1>6

LEMMA AudioLets == ASSUME Shape, Shape', LetInv, AudioNext PROVE LetInv' /\ NoOverwrite
BY DrainCreateLets, DrainDestroyLets, DrainPlayLets, DrainStopLets, DrainStopAllLets, DrainQueueLets,
   DrainStealLets, DrainRetireLets, BlockLets, MixLets DEF AudioNext

-----------------------------------------------------------------------------
(* What a call of the control thread shows. *)

\* What a step of the control thread must show.
LetsStep(d) == CmdGrown /\ LetsEnd(d) /\ LetsBegin /\ GensUp

\* A list of commands is added.
LEMMA AddedCmds ==
    ASSUME Shape, NEW w \in Seq(Cmd), cmd' = cmd \o w
    PROVE  /\ CmdGrown
           /\ \A k : NewCmdAt(k) => \E m \in 1 .. Len(w) : k = Len(cmd) + m /\ cmd'[k] = w[m]
           /\ \A m \in 1 .. Len(w) : NewCmdAt(Len(cmd) + m) /\ cmd'[Len(cmd) + m] = w[m]
<1>1. cmd \in Seq(Cmd) /\ Len(cmd) \in Nat /\ Len(w) \in Nat
  BY DEF Shape, TypeOK
<1>2. /\ Len(cmd') = Len(cmd) + Len(w)
      /\ \A k \in 1 .. Len(cmd) : cmd'[k] = cmd[k]
      /\ \A k \in Len(cmd) + 1 .. Len(cmd) + Len(w) : cmd'[k] = w[k - Len(cmd)]
  BY <1>1
<1>3. CmdGrown
  BY <1>1, <1>2 DEF CmdGrown
<1>4. ASSUME NEW k, NewCmdAt(k) PROVE \E m \in 1 .. Len(w) : k = Len(cmd) + m /\ cmd'[k] = w[m]
  <2>1. k \in Len(cmd) + 1 .. Len(cmd) + Len(w)
    BY <1>1, <1>2, <1>4 DEF NewCmdAt
  <2>2. k - Len(cmd) \in 1 .. Len(w) /\ k = Len(cmd) + (k - Len(cmd))
    BY <1>1, <2>1
  <2> QED BY <1>2, <2>1, <2>2
<1>5. ASSUME NEW m \in 1 .. Len(w) PROVE NewCmdAt(Len(cmd) + m) /\ cmd'[Len(cmd) + m] = w[m]
  <2>1. Len(cmd) + m \in Len(cmd) + 1 .. Len(cmd) + Len(w) /\ Len(cmd) + m - Len(cmd) = m
    BY <1>1
  <2>2. Len(cmd) + m \in 1 .. Len(cmd') /\ Len(cmd) + m \notin 1 .. Len(cmd)
    BY <1>1, <1>2
  <2> QED BY <1>2, <2>1, <2>2 DEF NewCmdAt
<1> QED BY <1>3, <1>4, <1>5

\* One command is added.
LEMMA AddedOne ==
    ASSUME Shape, NEW c \in Cmd, cmd' = Append(cmd, c)
    PROVE  /\ CmdGrown /\ \A k : NewCmdAt(k) => cmd'[k] = c /\ k = Len(cmd) + 1
           /\ \E k : NewCmdAt(k) /\ cmd'[k] = c
<1>1. PICK w \in Seq(Cmd) : w = <<c>> /\ cmd' = cmd \o w
  BY Lists DEF Shape, TypeOK
<1>2. Len(w) = 1 /\ w[1] = c /\ \A m \in 1 .. Len(w) : w[m] = c /\ m = 1
  BY <1>1
<1>3. 1 \in 1 .. Len(w)
  BY <1>2
<1>4. CmdGrown /\ NewCmdAt(Len(cmd) + 1) /\ cmd'[Len(cmd) + 1] = w[1]
  BY <1>1, <1>3, AddedCmds
<1>5. \A k : NewCmdAt(k) => \E m \in 1 .. Len(w) : k = Len(cmd) + m /\ cmd'[k] = w[m]
  BY <1>1, AddedCmds
<1>6. ASSUME NEW k, NewCmdAt(k) PROVE cmd'[k] = c /\ k = Len(cmd) + 1
  BY <1>2, <1>5, <1>6
<1> QED BY <1>2, <1>4, <1>6

\* Two commands are added.
LEMMA AddedTwo ==
    ASSUME Shape, NEW a \in Cmd, NEW b \in Cmd, cmd' = Append(Append(cmd, a), b)
    PROVE  /\ CmdGrown
           /\ \A k : NewCmdAt(k) => (cmd'[k] = a /\ k = Len(cmd) + 1) \/ (cmd'[k] = b /\ k = Len(cmd) + 2)
           /\ \E k : NewCmdAt(k) /\ cmd'[k] = a
<1>0. cmd \in Seq(Cmd)
  BY DEF Shape, TypeOK
<1>1. PICK w \in Seq(Cmd) : w = <<a, b>> /\ cmd' = cmd \o w
  <2>1. <<a, b>> \in Seq(Cmd) /\ cmd' = cmd \o <<a, b>>
    BY <1>0, Lists
  <2> QED BY <2>1
<1>2. Len(w) = 2 /\ w[1] = a /\ \A m \in 1 .. Len(w) : (w[m] = a /\ m = 1) \/ (w[m] = b /\ m = 2)
  BY <1>1
<1>3. 1 \in 1 .. Len(w)
  BY <1>2
<1>4. CmdGrown /\ NewCmdAt(Len(cmd) + 1) /\ cmd'[Len(cmd) + 1] = w[1]
  BY <1>1, <1>3, AddedCmds
<1>5. \A k : NewCmdAt(k) => \E m \in 1 .. Len(w) : k = Len(cmd) + m /\ cmd'[k] = w[m]
  BY <1>1, AddedCmds
<1>6. ASSUME NEW k, NewCmdAt(k)
      PROVE  (cmd'[k] = a /\ k = Len(cmd) + 1) \/ (cmd'[k] = b /\ k = Len(cmd) + 2)
  BY <1>2, <1>5, <1>6
<1> QED BY <1>2, <1>4, <1>6

LEMMA SameCmds ==
    ASSUME Shape, cmd' = cmd
    PROVE  CmdGrown /\ \A k : ~NewCmdAt(k)
BY RingTypes DEF CmdGrown, NewCmdAt

\* No let ends when every slot keeps its let, or was not let.
LEMMA NoLetEnds ==
    ASSUME Shape, Shape', NEW d,
           \A j \in Voice : \/ slot'[j].gen = slot[j].gen /\ slot'[j].inuse = slot[j].inuse
                            \/ ~slot[j].inuse /\ slot[j].gen <= slot'[j].gen
    PROVE  LetsEnd(d) /\ GensUp
<1>1. \A j \in Voice : slot[j].gen \in Nat
  BY VoiceHandles
<1>2. GensUp
  BY <1>1 DEF GensUp
<1>3. \A h \in Handle : Live(h) => Live(h)'
  BY DEF Live
<1> QED BY <1>2, <1>3 DEF LetsEnd

\* A step that begins and ends no let.
LEMMA LetsQuiet ==
    ASSUME Shape, Shape', LetInv, voice' = voice, NEW d \in 0 .. 1, EvtShift(d), CmdGrown,
           \A k : NewCmdAt(k) => cmd'[k].t # "CREATE",
           \A j \in Voice : slot'[j].gen = slot[j].gen /\ slot'[j].inuse = slot[j].inuse,
           ctl'.pc # "push"
    PROVE  LetInv'
<1>1. LetsEnd(d) /\ GensUp
  BY NoLetEnds
<1>2. LetsBegin
  BY DEF LetsBegin
<1> QED BY <1>1, <1>2, LetsControl

LEMMA SameEvts == ASSUME Shape, evt' = evt PROVE EvtShift(0) /\ 0 \in 0 .. 1
BY RingTypes DEF EvtShift

\* The slot on top of the free list, before and after it is let.
LEMMA TopLet ==
    ASSUME ControlShape, VoicesExact, Len(free) > 0
    PROVE  /\ Last(free) \in Voice /\ ~slot[Last(free)].inuse /\ slot[Last(free)].gen \in Nat
           /\ Let(Last(free)).gen = slot[Last(free)].gen + 1 /\ Let(Last(free)).inuse
           /\ Unlet(Let(Last(free))).gen = slot[Last(free)].gen + 1 /\ ~Unlet(Let(Last(free))).inuse
           /\ H(Last(free), slot[Last(free)].gen + 1) \in Handle
           /\ H(Last(free), slot[Last(free)].gen + 1).idx = Last(free)
           /\ H(Last(free), slot[Last(free)].gen + 1).gen = slot[Last(free)].gen + 1
<1>1. PICK i \in Voice : i = Last(free)
  BY PopFree
<1>2. slot[i].gen \in Nat /\ H(i, slot[i].gen + 1) \in Handle
  BY SlotFields
<1>3. ~slot[i].inuse
  BY <1>1 DEF VoicesExact, On, Last, ControlShape
<1>4. Let(i).gen = slot[i].gen + 1 /\ Let(i).inuse /\ Let(i) \in Slot
  BY LetFields, LetType
<1>5. \A r \in Slot : Unlet(r).gen = r.gen /\ ~Unlet(r).inuse
  BY DEF Slot, Unlet
<1>6. H(i, slot[i].gen + 1).idx = i /\ H(i, slot[i].gen + 1).gen = slot[i].gen + 1
  BY DEF H
<1> QED BY <1>1, <1>2, <1>3, <1>4, <1>5, <1>6

LEMMA FromPoolLets ==
    ASSUME SlotsInv, Shape', NEW s \in Handle, CreateFromPool(s) PROVE LetsStep(0)
<1>0. Shape /\ ControlShape /\ VoicesExact /\ slot \in [Voice -> Slot]
  BY SlotsUse DEF ControlShape
<1>1. Len(free) > 0
  BY <1>0, Constants DEF CreateFromPool, ControlShape
<1>2. PICK i \in Voice : i = Last(free)
  BY <1>0, <1>1, TopLet
<1>3. /\ ~slot[i].inuse /\ slot[i].gen \in Nat /\ Let(i).gen = slot[i].gen + 1
      /\ H(i, slot[i].gen + 1).idx = i /\ H(i, slot[i].gen + 1).gen = slot[i].gen + 1
  BY <1>0, <1>1, <1>2, TopLet
<1>4. /\ slot' = [slot EXCEPT ![i] = Let(i)] /\ cmd' = cmd
      /\ ctl' = [Idle EXCEPT !.pc = "push", !.h = H(i, slot[i].gen + 1), !.s = s]
  BY <1>2 DEF CreateFromPool
<1>5. slot'[i] = Let(i) /\ \A j \in Voice : j # i => slot'[j] = slot[j]
  BY <1>0, <1>4
<1>6. LetsEnd(0) /\ GensUp
  <2>1. slot[i].gen <= slot'[i].gen
    BY <1>3, <1>5
  <2> QED BY <1>0, <1>3, <1>5, <2>1, NoLetEnds
<1>7. ctl'.h = H(i, slot[i].gen + 1)
  BY <1>4 DEF Idle
<1>8. LetsBegin
  BY <1>0, <1>3, <1>4, <1>7, SameCmds DEF LetsBegin
<1> QED BY <1>0, <1>4, <1>6, <1>8, SameCmds DEF LetsStep

LEMMA StealLets ==
    ASSUME SlotsInv, Shape', NEW s \in Handle, CreateBySteal(s) PROVE LetsStep(0)
<1>0. Shape /\ ControlShape /\ VoicesExact /\ slot \in [Voice -> Slot]
  BY SlotsUse DEF ControlShape
<1>1. PICK v \in Voice : CreateBySteal(s)!2!(v)
  BY DEF CreateBySteal
<1>2. PICK vh \in Handle : vh = H(v, slot[v].gen)
  BY <1>0, SlotFields
<1>3. CASE free = <<>>
  <2>1. slot' = slot /\ cmd' = cmd /\ ctl' = [Idle EXCEPT !.pc = "cut", !.vic = vh, !.s = s]
    BY <1>1, <1>2, <1>3
  <2>2. ctl'.pc = "cut"
    BY <2>1 DEF Idle
  <2>3. LetsEnd(0) /\ GensUp
    BY <1>0, <2>1, NoLetEnds
  <2> QED BY <1>0, <2>1, <2>2, <2>3, SameCmds DEF LetsStep, LetsBegin
<1>4. CASE free # <<>>
  <2>0. Len(free) > 0
    BY <1>0, <1>4 DEF ControlShape
  <2>1. PICK i \in Voice : i = Last(free)
    BY <1>0, <2>0, TopLet
  <2>2. /\ ~slot[i].inuse /\ slot[i].gen \in Nat
        /\ Let(i).gen = slot[i].gen + 1 /\ Unlet(Let(i)).gen = slot[i].gen + 1
        /\ H(i, slot[i].gen + 1).idx = i /\ H(i, slot[i].gen + 1).gen = slot[i].gen + 1
    BY <1>0, <2>0, <2>1, TopLet
  <2>3. v # i
    BY <1>1, <2>2 DEF IsVictim, Stealable
  <2>4. CASE CmdRoom(1)
    <3>1. /\ slot' = [slot EXCEPT ![i] = Let(i), ![v].stealing = TRUE]
          /\ ctl' = [Idle EXCEPT !.pc = "push", !.h = H(i, slot[i].gen + 1), !.s = s]
          /\ cmd' = Append(cmd, VCmd("STEAL", vh))
      BY <1>1, <1>2, <1>4, <2>1, <2>4
    <3>2. /\ \A r \in Slot : LET q == [r EXCEPT !.stealing = TRUE] IN q.gen = r.gen /\ q.inuse = r.inuse
          /\ slot[v] \in Slot
      BY <1>0 DEF Slot
    <3>3. /\ slot'[i] = Let(i) /\ slot'[v].gen = slot[v].gen /\ slot'[v].inuse = slot[v].inuse
          /\ \A j \in Voice : j # i /\ j # v => slot'[j] = slot[j]
      <4>1. slot'[v] = [slot[v] EXCEPT !.stealing = TRUE]
        BY <1>0, <2>3, <3>1
      <4>2. slot'[i] = Let(i) /\ \A j \in Voice : j # i /\ j # v => slot'[j] = slot[j]
        BY <1>0, <2>3, <3>1
      <4> QED BY <3>2, <4>1, <4>2
    <3>4. LetsEnd(0) /\ GensUp
      <4>1. slot[i].gen <= slot'[i].gen
        BY <2>2, <3>3
      <4> QED BY <1>0, <2>2, <3>3, <4>1, NoLetEnds
    <3>5. PICK c : c = VCmd("STEAL", vh)
      OBVIOUS
    <3>6. c \in Cmd /\ c.t = "STEAL"
      <4>1. "STEAL" \in CmdTypes
        BY DEF CmdTypes
      <4> QED BY <3>5, <4>1, CmdType, Constants, NeutralCmds
    <3>8. CmdGrown /\ \A k : NewCmdAt(k) => cmd'[k].t = "STEAL"
      BY <1>0, <3>1, <3>5, <3>6, AddedOne
    <3>9. ctl'.h = H(i, slot[i].gen + 1)
      BY <3>1 DEF Idle
    <3>10. LetsBegin
      BY <2>2, <3>8, <3>9 DEF LetsBegin
    <3> QED BY <3>4, <3>8, <3>10 DEF LetsStep
  <2>5. CASE ~CmdRoom(1)
    <3>1. /\ slot' = [slot EXCEPT ![i] = Unlet(Let(i))] /\ cmd' = cmd
          /\ ctl' = [Idle EXCEPT !.pc = "cut", !.vic = vh, !.s = s]
      BY <1>1, <1>2, <1>4, <2>1, <2>5
    <3>2. slot'[i] = Unlet(Let(i)) /\ \A j \in Voice : j # i => slot'[j] = slot[j]
      BY <1>0, <3>1
    <3>3. LetsEnd(0) /\ GensUp
      <4>1. slot[i].gen <= slot'[i].gen
        BY <2>2, <3>2
      <4> QED BY <1>0, <2>2, <3>2, <4>1, NoLetEnds
    <3>4. ctl'.pc = "cut"
      BY <3>1 DEF Idle
    <3> QED BY <1>0, <3>1, <3>3, <3>4, SameCmds DEF LetsStep, LetsBegin
  <2> QED BY <2>4, <2>5
<1> QED BY <1>3, <1>4

LEMMA CreateSourceLets == ASSUME SlotsInv, Shape', LetInv, CreateSource PROVE LetInv'
<1>1. LetsStep(0)
  BY FromPoolLets, StealLets, Constants DEF CreateSource
<1>2. voice' = voice /\ EvtShift(0) /\ 0 \in 0 .. 1
  BY SlotsUse, SameEvts DEF CreateSource
<1> QED BY <1>1, <1>2, SlotsUse, LetsControl DEF LetsStep

LEMMA CreateStreamLets == ASSUME SlotsInv, Shape', LetInv, CreateStream PROVE LetInv'
<1>0. Shape /\ ControlShape
  BY SlotsUse
<1>1. voice' = voice /\ EvtShift(0) /\ 0 \in 0 .. 1
  BY <1>0, SameEvts DEF CreateStream
<1>2. PICK sh : sh = H(Last(sfree), snd[Last(sfree)].gen + 1)
  OBVIOUS
<1>3. sh \in Handle
  <2>1. Len(sfree) > 0
    BY <1>0 DEF CreateStream, ControlShape
  <2> QED BY <1>0, <1>2, <2>1, PopSfree, SoundFields
<1>4. CASE CreateFromPool(sh) \/ CreateBySteal(sh)
  <2>1. LetsStep(0)
    BY <1>3, <1>4, FromPoolLets, StealLets
  <2> QED BY <1>0, <1>1, <2>1, LetsControl DEF LetsStep
<1>5. CASE UNCHANGED <<slot, ctl>> /\ cmd' = Append(cmd, MkCmd("RETIRE", None, sh, FALSE))
  <2>1. PICK c : c = MkCmd("RETIRE", None, sh, FALSE)
    OBVIOUS
  <2>2. c \in Cmd /\ c.t = "RETIRE"
    <3>1. "RETIRE" \in CmdTypes /\ None \in Handle /\ FALSE \in BOOLEAN
      BY Constants DEF CmdTypes
    <3>2. MkCmd("RETIRE", None, sh, FALSE) \in Cmd
      BY <1>3, <3>1, CmdType
    <3>3. MkCmd("RETIRE", None, sh, FALSE).t = "RETIRE"
      BY DEF MkCmd
    <3> QED BY <2>1, <3>2, <3>3
  <2>4. CmdGrown /\ \A k : NewCmdAt(k) => cmd'[k].t # "CREATE"
    BY <1>0, <1>5, <2>1, <2>2, AddedOne
  <2>5. ctl'.pc # "push"
    BY <1>5 DEF CreateStream, Call
  <2> QED BY <1>0, <1>1, <1>5, <2>4, <2>5, LetsQuiet
<1>6. \/ CreateFromPool(sh) \/ CreateBySteal(sh)
      \/ UNCHANGED <<slot, ctl>> /\ cmd' = Append(cmd, MkCmd("RETIRE", None, sh, FALSE))
  BY <1>2 DEF CreateStream
<1> QED BY <1>4, <1>5, <1>6

-----------------------------------------------------------------------------
(* Calls that end a let. *)

\* One let ends.
LEMMA OneLetEnds ==
    ASSUME Shape, NEW d, NEW g \in Handle, Live(g), slot[g.idx].gen <= slot'[g.idx].gen,
           \A j \in Voice : j # g.idx => slot'[j].gen = slot[j].gen /\ slot'[j].inuse = slot[j].inuse,
           Ended(d, g) \/ Undone(g) \/ \E k : NewCmdAt(k) /\ cmd'[k].t = "DESTROY" /\ cmd'[k].v = g
    PROVE  LetsEnd(d) /\ GensUp
<1>1. \A h \in Handle : Live(h) /\ ~Live(h)' => h = g
  <2>1. ASSUME NEW h \in Handle, Live(h), ~Live(h)' PROVE h.idx = g.idx
    BY <2>1 DEF Live
  <2> QED BY <2>1, LiveOne, SameHandle
<1>2. GensUp
  BY VoiceHandles DEF GensUp
<1> QED BY <1>1, <1>2 DEF LetsEnd

\* push_sound_release, behind the caller's destroy or alone.
LEMMA ReleaseLets ==
    ASSUME Shape, NEW h \in Handle, NEW a \in Cmd, a.t = "DESTROY", ReleasePush(h, Append(cmd, a))
    PROVE  /\ CmdGrown /\ \A k : NewCmdAt(k) => cmd'[k].t # "CREATE"
           /\ \E k : NewCmdAt(k) /\ cmd'[k] = a
<1>1. CASE cmd' = Append(cmd, a)
  BY <1>1, AddedOne
<1>2. CASE IsPush(h) /\ cmd' = Append(Append(cmd, a), MkCmd("RETIRE", None, slot[h.idx].push, FALSE))
  <2>1. slot[h.idx].push \in Handle
    BY <1>2, ShapeParts, SlotFields DEF IsPush, Live
  <2>2. PICK b : b = MkCmd("RETIRE", None, slot[h.idx].push, FALSE)
    OBVIOUS
  <2>3. b \in Cmd /\ b.t = "RETIRE"
    <3>1. "RETIRE" \in CmdTypes /\ None \in Handle /\ FALSE \in BOOLEAN
      BY Constants DEF CmdTypes
    <3>2. b \in Cmd
      BY <2>1, <2>2, <3>1, CmdType
    <3> QED BY <2>2, <3>2 DEF MkCmd
  <2>4. cmd' = Append(Append(cmd, a), b)
    BY <1>2, <2>2
  <2>5. /\ CmdGrown /\ \A k : NewCmdAt(k) => cmd'[k] = a \/ cmd'[k] = b
        /\ \E k : NewCmdAt(k) /\ cmd'[k] = a
    BY <2>3, <2>4, AddedTwo
  <2> QED BY <2>3, <2>5
<1> QED BY <1>1, <1>2 DEF ReleasePush

LEMMA ReleaseAloneLets ==
    ASSUME Shape, NEW h \in Handle, ReleasePush(h, cmd)
    PROVE  CmdGrown /\ \A k : NewCmdAt(k) => cmd'[k].t # "CREATE"
<1>1. CASE cmd' = cmd
  BY <1>1, SameCmds
<1>2. CASE IsPush(h) /\ cmd' = Append(cmd, MkCmd("RETIRE", None, slot[h.idx].push, FALSE))
  <2>1. slot[h.idx].push \in Handle
    BY <1>2, ShapeParts, SlotFields DEF IsPush, Live
  <2>2. PICK b : b = MkCmd("RETIRE", None, slot[h.idx].push, FALSE)
    OBVIOUS
  <2>3. b \in Cmd /\ b.t = "RETIRE"
    <3>1. "RETIRE" \in CmdTypes /\ None \in Handle /\ FALSE \in BOOLEAN
      BY Constants DEF CmdTypes
    <3>2. b \in Cmd
      BY <2>1, <2>2, <3>1, CmdType
    <3> QED BY <2>2, <3>2 DEF MkCmd
  <2> QED BY <1>2, <2>2, <2>3, AddedOne
<1> QED BY <1>1, <1>2 DEF ReleasePush

\* The destroy of h, with what push_sound_release adds.
LEMMA DestroyLets ==
    ASSUME Shape, NEW h \in Handle, ReleasePush(h, DestroyCmd(h))
    PROVE  /\ CmdGrown /\ \A k : NewCmdAt(k) => cmd'[k].t # "CREATE"
           /\ \E k : NewCmdAt(k) /\ cmd'[k].t = "DESTROY" /\ cmd'[k].v = h
<1>1. PICK a : a = VCmd("DESTROY", h)
  OBVIOUS
<1>2. a \in Cmd /\ a.t = "DESTROY" /\ a.v = h
  BY <1>1, NeutralDestroy DEF VCmd, MkCmd
<1>3. ReleasePush(h, Append(cmd, a))
  BY <1>1 DEF DestroyCmd
<1> QED BY <1>2, <1>3, ReleaseLets

\* The fields of a slot that a recycle or a let of a push source leaves alone.
LEMMA SlotKept ==
    ASSUME NEW v \in Voice, slot \in [Voice -> Slot],
           \/ slot' = [slot EXCEPT ![v].inuse = FALSE, ![v].push = None]
           \/ slot' = [slot EXCEPT ![v].inuse = FALSE, ![v].stealing = FALSE, ![v].push = None]
    PROVE  slot'[v].gen = slot[v].gen /\ \A j \in Voice : j # v => slot'[j] = slot[j]
BY DEF Slot

LEMMA SlotFlags ==
    ASSUME NEW v, slot \in [Voice -> Slot],
           \/ \E p : slot' = [slot EXCEPT ![v].prio = p] \/ slot' = [slot EXCEPT ![v].push = p]
           \/ slot' = [slot EXCEPT ![v].stealing = FALSE]
    PROVE  \A j \in Voice : slot'[j].gen = slot[j].gen /\ slot'[j].inuse = slot[j].inuse
BY DEF Slot

LEMMA DestroySourceLets ==
    ASSUME SlotsInv, Shape', LetInv, NEW h \in app, DestroySource(h) PROVE LetInv'
<1>0. Shape /\ slot \in [Voice -> Slot] /\ h \in Handle
  BY SlotsUse DEF ControlShape, Shape, TypeOK
<1>1. /\ CmdGrown /\ \A k : NewCmdAt(k) => cmd'[k].t # "CREATE"
      /\ \E k : NewCmdAt(k) /\ cmd'[k].t = "DESTROY" /\ cmd'[k].v = h
  BY <1>0, DestroyLets DEF DestroySource
<1>2. voice' = voice /\ EvtShift(0) /\ 0 \in 0 .. 1 /\ ctl'.pc # "push"
  BY <1>0, SameEvts DEF DestroySource, Call
<1>3. LetsEnd(0) /\ GensUp
  <2>1. CASE Live(h)
    <3>1. h.idx \in Voice /\ slot' = [slot EXCEPT ![h.idx].inuse = FALSE, ![h.idx].push = None]
      BY <2>1 DEF DestroySource, Live
    <3>2. slot'[h.idx].gen = slot[h.idx].gen /\ \A j \in Voice : j # h.idx => slot'[j] = slot[j]
      BY <1>0, <3>1, SlotKept
    <3>3. slot[h.idx].gen <= slot'[h.idx].gen
      BY <1>0, <3>1, <3>2, VoiceHandles
    <3> QED BY <1>0, <1>1, <2>1, <3>2, <3>3, OneLetEnds
  <2>2. CASE ~Live(h)
    BY <1>0, <2>2, NoLetEnds DEF DestroySource
  <2> QED BY <2>1, <2>2
<1>4. LetsBegin
  BY <1>1, <1>2 DEF LetsBegin
<1> QED BY <1>0, <1>1, <1>2, <1>3, <1>4, LetsControl

LEMMA CreateCutLets == ASSUME SlotsInv, Shape', LetInv, CreateCut PROVE LetInv'
<1>0. /\ Shape /\ ControlShape /\ VoicesExact /\ slot \in [Voice -> Slot]
      /\ ctl \in Ctl /\ ctl.vic \in Handle /\ Live(ctl.vic)
  BY SlotsUse DEF ControlShape, Ctl, CallHoldsSlots, CreateCut
<1>1. voice' = voice /\ EvtShift(0) /\ 0 \in 0 .. 1
  BY <1>0, SameEvts DEF CreateCut
<1>2. PICK v \in Voice : v = ctl.vic.idx
  BY <1>0 DEF Live
<1>3. \A h : LET c == [ctl EXCEPT !.pc = "push", !.h = h] IN c.pc = "push" /\ c.h = h
  BY <1>0 DEF Ctl
<1>4. CASE /\ ReleasePush(ctl.vic, DestroyCmd(ctl.vic))
           /\ slot' = [slot EXCEPT ![v] = Let(v)]
           /\ ctl' = [ctl EXCEPT !.pc = "push", !.h = H(v, slot[v].gen + 1)]
  <2>1. /\ CmdGrown /\ \A k : NewCmdAt(k) => cmd'[k].t # "CREATE"
        /\ \E k : NewCmdAt(k) /\ cmd'[k].t = "DESTROY" /\ cmd'[k].v = ctl.vic
    BY <1>0, <1>4, DestroyLets
  <2>2. slot'[v] = Let(v) /\ (\A j \in Voice : j # v => slot'[j] = slot[j])
    BY <1>0, <1>4
  <2>3. Let(v).gen = slot[v].gen + 1 /\ slot[v].gen \in Nat
    BY <1>0, LetFields, VoiceHandles
  <2>4. LetsEnd(0) /\ GensUp
    <3>1. slot[v].gen <= slot'[v].gen
      BY <2>2, <2>3
    <3> QED BY <1>0, <1>2, <2>1, <2>2, <3>1, OneLetEnds
  <2>5. LetsBegin
    <3>1. ctl'.h.idx = v /\ ctl'.h.gen = slot[v].gen + 1
      BY <1>3, <1>4 DEF H
    <3> QED BY <2>1, <2>3, <3>1 DEF LetsBegin
  <2> QED BY <1>0, <1>1, <2>1, <2>4, <2>5, LetsControl
<1>5. CASE /\ free # <<>> /\ cmd' = cmd
           /\ slot' = [slot EXCEPT ![Last(free)] = Let(Last(free))]
           /\ ctl' = [ctl EXCEPT !.pc = "push", !.h = H(Last(free), slot[Last(free)].gen + 1)]
  <2>1. Len(free) > 0
    BY <1>0, <1>5 DEF ControlShape
  <2>2. PICK i \in Voice : i = Last(free)
    BY <1>0, <2>1, TopLet
  <2>3. /\ ~slot[i].inuse /\ slot[i].gen \in Nat /\ Let(i).gen = slot[i].gen + 1
        /\ H(i, slot[i].gen + 1).idx = i /\ H(i, slot[i].gen + 1).gen = slot[i].gen + 1
    BY <1>0, <2>1, <2>2, TopLet
  <2>4. slot'[i] = Let(i) /\ \A j \in Voice : j # i => slot'[j] = slot[j]
    BY <1>0, <1>5, <2>2
  <2>5. LetsEnd(0) /\ GensUp
    <3>1. slot[i].gen <= slot'[i].gen
      BY <2>3, <2>4
    <3> QED BY <1>0, <2>3, <2>4, <3>1, NoLetEnds
  <2>6. ctl'.h = H(i, slot[i].gen + 1)
    BY <1>3, <1>5, <2>2
  <2>7. LetsBegin
    BY <1>0, <1>5, <2>3, <2>6, SameCmds DEF LetsBegin
  <2> QED BY <1>0, <1>1, <1>5, <2>5, <2>7, SameCmds, LetsControl
<1>6. CASE ctl' = Idle /\ UNCHANGED <<slot, cmd>>
  <2>1. ctl'.pc # "push"
    BY <1>6 DEF Idle
  <2> QED BY <1>0, <1>1, <1>6, <2>1, SameCmds, LetsQuiet
<1> QED BY <1>2, <1>4, <1>5, <1>6 DEF CreateCut

LEMMA CreatePushLets == ASSUME SlotsInv, Shape', LetInv, CreatePush PROVE LetInv'
<1>0. /\ Shape /\ slot \in [Voice -> Slot]
      /\ ctl.h \in Handle /\ ctl.s \in Handle /\ Live(ctl.h) /\ ctl.pc = "push"
  BY SlotsUse DEF ControlShape, Ctl, CallHoldsSlots, CreatePush
<1>1. /\ voice' = voice /\ EvtShift(0) /\ 0 \in 0 .. 1 /\ ctl'.pc # "push"
  BY <1>0, SameEvts DEF CreatePush, Idle
<1>2. PICK i \in Voice : i = ctl.h.idx
  BY <1>0 DEF Live
<1>3. CASE /\ cmd' = IF ctl.s # None /\ CmdRoom(2)
                     THEN Append(Append(cmd, VCmd("CREATE", ctl.h)), MkCmd("PLAY", ctl.h, ctl.s, FALSE))
                     ELSE Append(cmd, VCmd("CREATE", ctl.h))
           /\ slot' = [slot EXCEPT ![i].push = ctl.s]
  <2>1. PICK a, b : a = VCmd("CREATE", ctl.h) /\ b = MkCmd("PLAY", ctl.h, ctl.s, FALSE)
    OBVIOUS
  <2>2. a \in Cmd /\ a.t = "CREATE" /\ a.v = ctl.h /\ b \in Cmd /\ b.t = "PLAY"
    <3>1. "CREATE" \in CmdTypes /\ "PLAY" \in CmdTypes /\ FALSE \in BOOLEAN
      BY DEF CmdTypes
    <3>2. a \in Cmd /\ b \in Cmd
      BY <1>0, <2>1, <3>1, CmdType
    <3> QED BY <2>1, <3>2 DEF VCmd, MkCmd
  <2>3. cmd' = Append(cmd, a) \/ cmd' = Append(Append(cmd, a), b)
    BY <1>3, <2>1
  <2>4. CmdGrown /\ \A k : NewCmdAt(k) => (cmd'[k] = a /\ k = Len(cmd) + 1) \/ cmd'[k] = b
    <3>1. CASE cmd' = Append(cmd, a)
      BY <1>0, <2>2, <3>1, AddedOne
    <3>2. CASE cmd' = Append(Append(cmd, a), b)
      BY <1>0, <2>2, <3>2, AddedTwo
    <3> QED BY <2>3, <3>1, <3>2
  <2>5. \A j \in Voice : slot'[j].gen = slot[j].gen /\ slot'[j].inuse = slot[j].inuse
    BY <1>0, <1>3, SlotFlags
  <2>6. LetsEnd(0) /\ GensUp
    BY <1>0, <2>5, NoLetEnds
  <2>7. PICK g : g = ctl.h
    OBVIOUS
  <2>8. FreshLet(g) /\ Live(g)'
    <3>1. Live(g) /\ g.idx \in Voice /\ Undone(g)
      BY <1>0, <1>2, <2>7 DEF Undone
    <3>2. Live(g)'
      BY <2>5, <3>1 DEF Live
    <3> QED BY <3>1, <3>2 DEF FreshLet
  <2>9. LetsBegin
    BY <1>1, <2>2, <2>4, <2>7, <2>8 DEF LetsBegin
  <2> QED BY <1>0, <1>1, <2>4, <2>6, <2>9, LetsControl
<1>4. CASE cmd' = cmd /\ slot' = [slot EXCEPT ![i] = Unlet(slot[i])]
  <2>1. slot'[i].gen = slot[i].gen /\ \A j \in Voice : j # i => slot'[j] = slot[j]
    <3>1. \A r \in Slot : Unlet(r).gen = r.gen
      BY DEF Unlet, Slot
    <3> QED BY <1>0, <1>4, <3>1
  <2>2. LetsEnd(0) /\ GensUp
    <3>1. slot[i].gen <= slot'[i].gen /\ Undone(ctl.h)
      BY <1>0, <2>1, VoiceHandles DEF Undone
    <3> QED BY <1>0, <1>2, <2>1, <3>1, OneLetEnds
  <2>3. LetsBegin
    BY <1>0, <1>1, <1>4, SameCmds DEF LetsBegin
  <2> QED BY <1>0, <1>1, <1>4, <2>2, <2>3, SameCmds, LetsControl
<1> QED BY <1>2, <1>3, <1>4 DEF CreatePush

-----------------------------------------------------------------------------
(* The other calls, and drain_events. *)

LEMMA PlayOneshotLets ==
    ASSUME SlotsInv, Shape', LetInv, NEW s \in AppSounds, PlayOneshot(s) PROVE LetInv'
<1>0. /\ Shape /\ ControlShape /\ VoicesExact /\ slot \in [Voice -> Slot] /\ cmd \in Seq(Cmd)
  BY SlotsUse DEF ControlShape, Shape, TypeOK
<1>1. Len(free) > 0
  BY <1>0, Constants DEF PlayOneshot, ControlShape
<1>2. PICK i \in Voice : i = Last(free)
  BY <1>0, <1>1, TopLet
<1>3. PICK h \in Handle : h = H(i, slot[i].gen + 1)
  BY <1>0, <1>1, <1>2, TopLet
<1>4. /\ ~slot[i].inuse /\ slot[i].gen \in Nat /\ Let(i).gen = slot[i].gen + 1 /\ Let(i).inuse
      /\ h.idx = i /\ h.gen = slot[i].gen + 1
  BY <1>0, <1>1, <1>2, <1>3, TopLet
<1>5. slot' = [slot EXCEPT ![i] = Let(i)]
  BY <1>2 DEF PlayOneshot
<1>6. slot'[i] = Let(i) /\ \A j \in Voice : j # i => slot'[j] = slot[j]
  BY <1>0, <1>5
<1>7. PICK a, b, c : a = VCmd("CREATE", h) /\ b = VCmd("PARAM", h) /\ c = MkCmd("PLAY", h, s, TRUE)
  OBVIOUS
<1>8. a \in Cmd /\ b \in Cmd /\ c \in Cmd
  <2>1. "CREATE" \in CmdTypes /\ "PARAM" \in CmdTypes /\ "PLAY" \in CmdTypes
    BY DEF CmdTypes
  <2>2. s \in Handle
    <3>1. PICK n \in Sound : s = H(n, snd[n].gen)
      BY DEF AppSounds
    <3> QED BY <1>0, <3>1, SoundFields
  <2> QED BY <1>7, <2>1, <2>2, CmdType, Constants
<1>9. a.t = "CREATE" /\ a.v = h /\ b.t = "PARAM" /\ c.t = "PLAY"
  BY <1>7 DEF VCmd, MkCmd
<1>10. PICK w \in Seq(Cmd) : w = <<a, b, b, c>>
  <2>1. <<a, b, b, c>> \in Seq(Cmd)
    BY <1>8
  <2> QED BY <2>1
<1>11. cmd' = cmd \o w
  BY <1>2, <1>3, <1>7, <1>10 DEF PlayOneshot
<1>12. \A m \in 1 .. Len(w) : w[m].t = "CREATE" => m = 1 /\ w[m] = a
  BY <1>9, <1>10
<1>13. /\ CmdGrown
       /\ \A k : NewCmdAt(k) => \E m \in 1 .. Len(w) : k = Len(cmd) + m /\ cmd'[k] = w[m]
  BY <1>0, <1>11, AddedCmds
<1>14. \A k : NewCmdAt(k) /\ cmd'[k].t = "CREATE" => k = Len(cmd) + 1 /\ cmd'[k] = a
  BY <1>12, <1>13
<1>15. LetsEnd(0) /\ GensUp
  <2>1. slot[i].gen <= slot'[i].gen
    BY <1>4, <1>6
  <2> QED BY <1>0, <1>4, <1>6, <2>1, NoLetEnds
<1>16. FreshLet(h) /\ Live(h)'
  <2>1. slot[i].gen < h.gen
    BY <1>4
  <2>2. FreshLet(h)
    BY <1>4, <2>1 DEF FreshLet
  <2> QED BY <1>4, <1>6, <2>2 DEF Live
<1>17. voice' = voice /\ EvtShift(0) /\ 0 \in 0 .. 1 /\ ctl'.pc # "push"
  BY <1>0, SameEvts DEF PlayOneshot, Call
<1>18. LetsBegin
  BY <1>9, <1>14, <1>16, <1>17 DEF LetsBegin
<1> QED BY <1>0, <1>13, <1>15, <1>17, <1>18, LetsControl

LEMMA DrainEndedLets == ASSUME SlotsInv, Shape', LetInv, DrainEnded PROVE LetInv'
<1>0. Shape /\ slot \in [Voice -> Slot] /\ "ENDED" \in EvtTypes
  BY SlotsUse DEF ControlShape, EvtTypes
<1>1. TakeEvt("ENDED")
  BY DEF DrainEnded
<1>2. /\ EvtShift(1) /\ 1 \in 0 .. 1 /\ evt[1] = Head(evt) /\ evt[1].t = "ENDED"
      /\ evt[1].h \in Handle /\ ctl'.pc # "push"
  BY <1>0, <1>1, TakenEvt
<1>3. PICK h \in Handle : h = Head(evt).h
  BY <1>2
<1>4. CmdGrown /\ \A k : NewCmdAt(k) => cmd'[k].t # "CREATE"
  BY <1>0, <1>3, ReleaseAloneLets DEF DrainEnded
<1>5. voice' = voice
  BY DEF DrainEnded, audVars
<1>6. LetsEnd(1) /\ GensUp
  <2>1. CASE Live(h)
    <3>1. /\ h.idx \in Voice
          /\ slot' = [slot EXCEPT ![h.idx].inuse = FALSE, ![h.idx].stealing = FALSE, ![h.idx].push = None]
      BY <1>3, <2>1 DEF DrainEnded, Live
    <3>2. slot'[h.idx].gen = slot[h.idx].gen /\ \A j \in Voice : j # h.idx => slot'[j] = slot[j]
      BY <1>0, <3>1, SlotKept
    <3>3. slot[h.idx].gen <= slot'[h.idx].gen
      BY <1>0, <3>1, <3>2, VoiceHandles
    <3>4. Ended(1, h)
      BY <1>2, <1>3 DEF Ended
    <3> QED BY <1>0, <2>1, <3>2, <3>3, <3>4, OneLetEnds
  <2>2. CASE ~Live(h)
    <3>1. slot' = [slot EXCEPT ![h.idx].stealing = FALSE]
      BY <1>3, <2>2 DEF DrainEnded
    <3>2. \A j \in Voice : slot'[j].gen = slot[j].gen /\ slot'[j].inuse = slot[j].inuse
      BY <1>0, <3>1, SlotFlags
    <3> QED BY <1>0, <3>2, NoLetEnds
  <2> QED BY <2>1, <2>2
<1>7. LetsBegin
  BY <1>2, <1>4 DEF LetsBegin
<1> QED BY <1>0, <1>2, <1>4, <1>5, <1>6, <1>7, LetsControl

\* A call that adds at most one command, and not a create.
LEMMA CallLets ==
    ASSUME SlotsInv, Shape', LetInv, NEW c \in Cmd, c.t # "CREATE",
           cmd' = cmd \/ cmd' = Append(cmd, c), voice' = voice, evt' = evt, ctl'.pc # "push",
           \A j \in Voice : slot'[j].gen = slot[j].gen /\ slot'[j].inuse = slot[j].inuse
    PROVE  LetInv'
<1>0. Shape /\ EvtShift(0) /\ 0 \in 0 .. 1
  BY SlotsUse, SameEvts
<1>1. CmdGrown /\ \A k : NewCmdAt(k) => cmd'[k].t # "CREATE"
  <2>1. CASE cmd' = cmd
    BY <1>0, <2>1, SameCmds
  <2>2. CASE cmd' = Append(cmd, c)
    BY <1>0, <2>2, AddedOne
  <2> QED BY <2>1, <2>2
<1> QED BY <1>0, <1>1, LetsQuiet

LEMMA BindCallLets ==
    ASSUME SlotsInv, Shape', LetInv, NEW h \in app, NEW s \in AppSounds, Play(h, s) \/ Queue(h, s)
    PROVE  LetInv'
<1>0. ControlShape /\ h \in Handle
  BY SlotsUse DEF ControlShape
<1>1. s \in Handle
  <2>1. PICK n \in Sound : s = H(n, snd[n].gen)
    BY DEF AppSounds
  <2> QED BY <1>0, <2>1, SoundFields
<1>2. PICK c : /\ c = MkCmd("PLAY", h, s, FALSE) \/ c = MkCmd("QUEUE", h, s, FALSE)
               /\ Push1(c)
  BY DEF Play, Queue
<1>3. c \in Cmd /\ c.t # "CREATE"
  <2>1. "PLAY" \in CmdTypes /\ "QUEUE" \in CmdTypes /\ FALSE \in BOOLEAN
    BY DEF CmdTypes
  <2>2. c \in Cmd
    BY <1>0, <1>1, <1>2, <2>1, CmdType
  <2> QED BY <1>2, <2>2 DEF MkCmd
<1>4. cmd' = cmd \/ cmd' = Append(cmd, c)
  BY <1>2 DEF Push1
<1>5. voice' = voice /\ evt' = evt /\ ctl'.pc # "push" /\ slot' = slot
  BY DEF Play, Queue, Call, ctlVars, audVars
<1> QED BY <1>3, <1>4, <1>5, CallLets

LEMMA PlainCallLets ==
    ASSUME SlotsInv, Shape', LetInv, (\E h \in app : Stop(h)) \/ StopAll \/ Commit
    PROVE  LetInv'
<1>0. ControlShape
  BY SlotsUse
<1>1. PICK t \in {"STOP", "STOP_ALL", "COMMIT"}, h \in Handle : Push1(VCmd(t, h))
  BY <1>0, Constants DEF Stop, StopAll, Commit, ControlShape
<1>2. PICK c : c = VCmd(t, h)
  OBVIOUS
<1>3. c \in Cmd /\ c.t # "CREATE"
  <2>1. t \in CmdTypes
    BY DEF CmdTypes
  <2>2. c \in Cmd
    BY <1>2, <2>1, CmdType, Constants
  <2> QED BY <1>2, <2>2 DEF MkCmd, VCmd
<1>4. cmd' = cmd \/ cmd' = Append(cmd, c)
  BY <1>1, <1>2 DEF Push1
<1>5. voice' = voice /\ evt' = evt /\ ctl'.pc # "push" /\ slot' = slot
  BY DEF Stop, StopAll, Commit, Call, Idle, ctlVars, audVars
<1> QED BY <1>3, <1>4, <1>5, CallLets

LEMMA RetireCallLets ==
    ASSUME SlotsInv, Shape', LetInv, (\E s \in AppSounds : Unload(s)) \/ (\E s \in ctl.try : RetryParked(s))
    PROVE  LetInv'
<1>0. ControlShape /\ ctl \in Ctl
  BY SlotsUse DEF ControlShape
<1>1. PICK s \in Handle : Unload(s) \/ RetryParked(s)
  <2>1. \A s \in AppSounds : s \in Handle
    BY <1>0, SoundFields DEF AppSounds
  <2>2. \A s \in ctl.try : s \in Handle
    BY <1>0 DEF Ctl
  <2> QED BY <2>1, <2>2
<1>2. PICK c : c = MkCmd("RETIRE", None, s, FALSE)
  OBVIOUS
<1>3. c \in Cmd /\ c.t # "CREATE"
  <2>1. "RETIRE" \in CmdTypes /\ None \in Handle /\ FALSE \in BOOLEAN
    BY Constants DEF CmdTypes
  <2>2. c \in Cmd
    BY <1>2, <2>1, CmdType
  <2> QED BY <1>2, <2>2 DEF MkCmd
<1>4. cmd' = cmd \/ cmd' = Append(cmd, c)
  BY <1>1, <1>2 DEF Unload, RetryParked
<1>5. ctl'.pc # "push"
  <2>1. \A T : [ctl EXCEPT !.try = T].pc = ctl.pc
    BY <1>0 DEF Ctl
  <2> QED BY <1>1, <2>1 DEF Unload, RetryParked, Call
<1>6. voice' = voice /\ evt' = evt /\ slot' = slot
  BY <1>1 DEF Unload, RetryParked, audVars
<1> QED BY <1>3, <1>4, <1>5, <1>6, CallLets

LEMMA OtherControlLets ==
    ASSUME SlotsInv, Shape', LetInv,
           \/ \E h \in app, p \in Priorities : SetPriority(h, p)
           \/ \E stream \in BOOLEAN : LoadSound(stream)
           \/ BeginDrainEvents \/ EndDrainEvents
    PROVE  LetInv'
<1>0. Shape /\ slot \in [Voice -> Slot] /\ ctl \in Ctl
  BY SlotsUse DEF ControlShape
<1>1. voice' = voice /\ evt' = evt /\ cmd' = cmd
  BY DEF SetPriority, LoadSound, BeginDrainEvents, EndDrainEvents, ringVars, audVars
<1>2. ctl'.pc # "push"
  <2>1. \A n : [ctl EXCEPT !.pc = "drain", !.todo = n].pc = "drain"
    BY <1>0 DEF Ctl
  <2>2. CASE (\E h \in app, p \in Priorities : SetPriority(h, p)) \/ \E stream \in BOOLEAN : LoadSound(stream)
    BY <2>2 DEF SetPriority, LoadSound, Call
  <2>3. CASE BeginDrainEvents
    <3>1. ctl'.pc = "drain"
      BY <2>1, <2>3 DEF BeginDrainEvents
    <3> QED BY <3>1
  <2>4. CASE EndDrainEvents
    BY <2>4 DEF EndDrainEvents, Idle
  <2> QED BY <2>2, <2>3, <2>4
<1>3. \A j \in Voice : slot'[j].gen = slot[j].gen /\ slot'[j].inuse = slot[j].inuse
  <2>1. slot' = slot \/ \E v, p : slot' = [slot EXCEPT ![v].prio = p]
    BY DEF SetPriority, LoadSound, BeginDrainEvents, EndDrainEvents
  <2> QED BY <1>0, <2>1, SlotFlags
<1> QED BY <1>0, <1>1, <1>2, <1>3, SameCmds, SameEvts, LetsQuiet

LEMMA DrainOtherLets == ASSUME SlotsInv, Shape', LetInv, DrainRetired \/ DrainNotice PROVE LetInv'
<1>0. Shape
  BY SlotsUse
<1>1. PICK t \in {"RETIRED", "NOTICE"} : TakeEvt(t)
  BY DEF DrainRetired, DrainNotice
<1>2. t \in EvtTypes
  BY DEF EvtTypes
<1>3. EvtShift(1) /\ 1 \in 0 .. 1 /\ ctl'.pc # "push"
  BY <1>0, <1>1, <1>2, TakenEvt
<1>4. voice' = voice /\ cmd' = cmd /\ slot' = slot
  BY DEF DrainRetired, DrainNotice, audVars
<1> QED BY <1>0, <1>3, <1>4, SameCmds, LetsQuiet

LEMMA ControlLets == ASSUME SlotsInv, Shape', LetInv, ControlNext PROVE LetInv'
BY CreateSourceLets, CreateStreamLets, CreateCutLets, CreatePushLets, PlayOneshotLets, DestroySourceLets,
   BindCallLets, PlainCallLets, RetireCallLets, OtherControlLets, DrainEndedLets, DrainOtherLets
DEF ControlNext

LEMMA InitLets == Init => LetInv
<1> SUFFICES ASSUME Init PROVE LetInv
  OBVIOUS
<1>1. Commands("CREATE") = {} /\ Len(evt) = 0 /\ ctl.pc = "idle"
  BY DEF Init, Commands, Idle
<1>2. \A i \in Voice : voice[i].gen = 0 /\ slot[i].gen = 0 /\ ~voice[i].active
  BY DEF Init
<1>3. LetOrder
  BY <1>1, <1>2 DEF LetOrder
<1>4. LetGo
  BY <1>1, <1>2 DEF LetGo
<1>5. EndedOnce
  BY <1>1 DEF EndedOnce, OneEndedPerLet
<1> QED BY <1>3, <1>4, <1>5 DEF LetInv

-----------------------------------------------------------------------------
(* The theorems. *)

\* The lets of a slot reach the audio thread one after the other, in order: a let that is over on the
\* control side is over, or its destroy is on its way in front of the next create, and its ended event
\* is its last word.
THEOREM LetInvariant == Spec => []LetInv
<1>1. ASSUME SlotsInv, LetInv, [Next]_vars, SlotsInv' PROVE LetInv'
  <2>0. Shape'
    BY <1>1, SlotsPartsPrime
  <2>1. CASE ControlNext
    BY <1>1, <2>0, <2>1, ControlLets
  <2>2. CASE AudioNext
    BY <1>1, <2>0, <2>2, AudioLets, SlotsUse
  <2>3. CASE UNCHANGED vars
    BY <1>1, <2>3 DEF vars, LetInv, LetOrder, LetGo, EndedOnce, OneEndedPerLet, Commands, DestroyAfter,
       VoiceHandle, Live
  <2> QED BY <1>1, <2>1, <2>2, <2>3 DEF Next
<1> QED BY <1>1, InitLets, SlotsInvariant, PTL DEF Spec

\* drain_commands and the mixer post at most one EVT_VOICE_ENDED for a let, so drain_events never gives the
\* same handle back twice.
THEOREM OneEndedPerLetCorrect == Spec => []OneEndedPerLet
BY LetInvariant, PTL DEF LetInv, EndedOnce

LEMMA ControlVoices == ControlNext => voice' = voice
<1> SUFFICES ASSUME ControlNext PROVE voice' = voice
  OBVIOUS
<1>1. CASE CreateSource \/ CreateStream \/ CreateCut \/ CreatePush
  BY <1>1 DEF CreateSource, CreateStream, CreateCut, CreatePush
<1>2. CASE \E s \in AppSounds : PlayOneshot(s) \/ Unload(s)
  BY <1>2 DEF PlayOneshot, Unload, audVars
<1>3. CASE \E h \in app, s \in AppSounds : Play(h, s) \/ Queue(h, s)
  BY <1>3 DEF Play, Queue, audVars
<1>4. CASE StopAll \/ \E h \in app : Stop(h) \/ DestroySource(h)
  BY <1>4 DEF StopAll, Stop, DestroySource, audVars
<1>5. CASE \E h \in app, p \in Priorities : SetPriority(h, p)
  BY <1>5 DEF SetPriority, audVars
<1>6. CASE \E stream \in BOOLEAN : LoadSound(stream)
  BY <1>6 DEF LoadSound, audVars
<1>7. CASE Commit \/ (\E s \in ctl.try : RetryParked(s)) \/ BeginDrainEvents
  BY <1>7 DEF Commit, RetryParked, BeginDrainEvents, audVars
<1>8. CASE DrainEnded \/ DrainRetired \/ DrainNotice \/ EndDrainEvents
  BY <1>8 DEF DrainEnded, DrainRetired, DrainNotice, EndDrainEvents, audVars
<1> QED BY <1>1, <1>2, <1>3, <1>4, <1>5, <1>6, <1>7, <1>8 DEF ControlNext

\* CMD_SRC_CREATE never takes a voice that still sounds away from its let: what rt_source_create
\* steals or cuts is over on the audio side before the new let is created there.
THEOREM NoLiveOverwriteCorrect == Spec => NoLiveOverwrite
<1>1. ASSUME SlotsInv, LetInv, [Next]_vars, SlotsInv' PROVE NoOverwrite
  <2>0. Shape /\ Shape'
    BY <1>1, SlotsUse, SlotsPartsPrime
  <2>1. CASE ControlNext \/ UNCHANGED vars
    BY <2>1, ControlVoices DEF vars, NoOverwrite
  <2>2. CASE AudioNext
    BY <1>1, <2>0, <2>2, AudioLets
  <2> QED BY <1>1, <2>1, <2>2 DEF Next
<1>2. ASSUME SlotsInv, LetInv, [Next]_vars, SlotsInv' PROVE [\A i \in Voice : voice'[i].gen # voice[i].gen => ~voice[i].active]_vars
  BY <1>1, <1>2 DEF NoOverwrite
<1> QED BY <1>2, LetInvariant, SlotsInvariant, PTL DEF Spec, NoLiveOverwrite

-----------------------------------------------------------------------------
(* What a step of the control thread puts on the ring. *)

\* k is a command the step adds, and it binds a sound.
NewBind(k) == NewCmdAt(k) /\ cmd'[k].t \in Binds
\* The step adds commands, but none that binds a sound.
QuietCmds == CmdGrown /\ \A k : ~NewBind(k)

LEMMA OneQuiet ==
    ASSUME Shape, cmd' = cmd \/ \E c \in Cmd : cmd' = Append(cmd, c) /\ c.t \notin Binds
    PROVE  QuietCmds
<1>1. CASE cmd' = cmd
  BY <1>1, SameCmds DEF QuietCmds, NewBind
<1>2. ASSUME NEW c \in Cmd, cmd' = Append(cmd, c), c.t \notin Binds PROVE QuietCmds
  BY <1>2, AddedOne DEF QuietCmds, NewBind
<1> QED BY <1>1, <1>2

LEMMA PlainCmd ==
    ASSUME NEW t \in CmdTypes, t \notin Binds, NEW h \in Handle
    PROVE  VCmd(t, h) \in Cmd /\ VCmd(t, h).t \notin Binds
<1>1. VCmd(t, h) \in Cmd
  BY CmdType, Constants
<1> QED BY <1>1 DEF VCmd, MkCmd

LEMMA RetireCmd ==
    ASSUME NEW s \in Handle
    PROVE  /\ MkCmd("RETIRE", None, s, FALSE) \in Cmd
           /\ MkCmd("RETIRE", None, s, FALSE).t \notin Binds
<1>1. "RETIRE" \in CmdTypes /\ None \in Handle /\ FALSE \in BOOLEAN
  BY Constants DEF CmdTypes
<1>2. MkCmd("RETIRE", None, s, FALSE) \in Cmd
  BY <1>1, CmdType
<1> QED BY <1>2 DEF MkCmd, Binds

LEMMA QuietTypes ==
    /\ {"CREATE", "DESTROY", "STOP", "STOP_ALL", "STEAL", "COMMIT"} \subseteq CmdTypes
    /\ \A t \in {"CREATE", "DESTROY", "STOP", "STOP_ALL", "STEAL", "COMMIT"} : t \notin Binds
BY DEF CmdTypes, Binds

LEMMA ReleaseQuiet ==
    ASSUME Shape, NEW h \in Handle, ReleasePush(h, cmd) \/ ReleasePush(h, DestroyCmd(h))
    PROVE  QuietCmds
<1>1. PICK a : a = VCmd("DESTROY", h)
  OBVIOUS
<1>2. a \in Cmd /\ a.t \notin Binds
  BY <1>1, PlainCmd, QuietTypes
<1>3. PICK b : b = MkCmd("RETIRE", None, slot[h.idx].push, FALSE)
  OBVIOUS
<1>4. IsPush(h) => b \in Cmd /\ b.t \notin Binds
  <2>1. IsPush(h) => slot[h.idx].push \in Handle
    BY ShapeParts, SlotFields DEF IsPush, Live
  <2> QED BY <1>3, <2>1, RetireCmd
<1>5. \/ cmd' = cmd \/ cmd' = Append(cmd, a)
      \/ IsPush(h) /\ cmd' = Append(cmd, b)
      \/ IsPush(h) /\ cmd' = Append(Append(cmd, a), b)
  BY <1>1, <1>3 DEF ReleasePush, DestroyCmd
<1>6. CASE IsPush(h) /\ cmd' = Append(Append(cmd, a), b)
  BY <1>2, <1>4, <1>6, AddedTwo DEF QuietCmds, NewBind
<1> QED BY <1>2, <1>4, <1>5, <1>6, OneQuiet

\* What the calls that bind no sound add.
Quiet ==
    \/ CreateSource \/ CreateStream \/ CreateCut
    \/ \E s \in AppSounds : Unload(s)
    \/ StopAll \/ \E h \in app : Stop(h) \/ DestroySource(h)
    \/ \E h \in app, p \in Priorities : SetPriority(h, p)
    \/ \E stream \in BOOLEAN : LoadSound(stream)
    \/ Commit \/ (\E s \in ctl.try : RetryParked(s)) \/ BeginDrainEvents
    \/ DrainEnded \/ DrainRetired \/ DrainNotice \/ EndDrainEvents

LEMMA CreatesQuiet ==
    ASSUME SlotsInv, NEW s \in Handle, CreateFromPool(s) \/ CreateBySteal(s) PROVE QuietCmds
<1>0. Shape
  BY SlotsUse
<1>1. CASE cmd' = cmd
  BY <1>0, <1>1, OneQuiet
<1>2. CASE \E v \in Voice : cmd' = Append(cmd, VCmd("STEAL", H(v, slot[v].gen)))
  <2>1. PICK v \in Voice : cmd' = Append(cmd, VCmd("STEAL", H(v, slot[v].gen)))
    BY <1>2
  <2>2. H(v, slot[v].gen) \in Handle
    BY SlotsUse, SlotFields
  <2>3. VCmd("STEAL", H(v, slot[v].gen)) \in Cmd /\ VCmd("STEAL", H(v, slot[v].gen)).t \notin Binds
    BY <2>2, PlainCmd, QuietTypes
  <2> QED BY <1>0, <2>1, <2>3, OneQuiet
<1> QED BY <1>1, <1>2 DEF CreateFromPool, CreateBySteal

LEMMA QuietCalls == ASSUME SlotsInv, Quiet PROVE QuietCmds
<1>0. Shape /\ ControlShape
  BY SlotsUse
<1>1. CASE CreateSource
  BY <1>1, CreatesQuiet, Constants DEF CreateSource
<1>2. CASE CreateStream
  <2>1. PICK sh : /\ sh = H(Last(sfree), snd[Last(sfree)].gen + 1)
                  /\ \/ CreateFromPool(sh) \/ CreateBySteal(sh)
                     \/ cmd' = Append(cmd, MkCmd("RETIRE", None, sh, FALSE))
    BY <1>2 DEF CreateStream
  <2>2. sh \in Handle
    <3>1. Len(sfree) > 0
      BY <1>0, <1>2 DEF CreateStream, ControlShape
    <3>2. Last(sfree) \in Sound
      BY <3>1, TopSoundFree
    <3> QED BY <1>0, <2>1, <3>2, SoundFields
  <2> QED BY <1>0, <2>1, <2>2, CreatesQuiet, RetireCmd, OneQuiet
<1>3. CASE CreateCut \/ \E h \in app : DestroySource(h)
  <2>1. ctl.vic \in Handle /\ \A h \in app : h \in Handle
    BY <1>0 DEF ControlShape, Ctl
  <2>2. \/ cmd' = cmd
        \/ \E h \in Handle : ReleasePush(h, DestroyCmd(h))
    BY <1>3, <2>1 DEF CreateCut, DestroySource
  <2> QED BY <1>0, <2>2, ReleaseQuiet, OneQuiet
<1>4. CASE (\E s \in AppSounds : Unload(s)) \/ \E s \in ctl.try : RetryParked(s)
  <2>1. \A s \in AppSounds : s \in Handle
    BY <1>0, SoundFields DEF AppSounds
  <2>2. \A s \in ctl.try : s \in Handle
    BY <1>0 DEF ControlShape, Ctl
  <2>3. cmd' = cmd \/ \E s \in Handle : cmd' = Append(cmd, MkCmd("RETIRE", None, s, FALSE))
    BY <1>4, <2>1, <2>2 DEF Unload, RetryParked
  <2> QED BY <1>0, <2>3, RetireCmd, OneQuiet
<1>5. CASE StopAll \/ Commit \/ \E h \in app : Stop(h)
  <2>1. \E t \in {"STOP", "STOP_ALL", "COMMIT"}, h \in Handle : cmd' = cmd \/ cmd' = Append(cmd, VCmd(t, h))
    BY <1>0, <1>5, Constants DEF StopAll, Commit, Stop, Push1, ControlShape
  <2> QED BY <1>0, <2>1, PlainCmd, QuietTypes, OneQuiet
<1>6. CASE DrainEnded
  <2>1. Head(evt).h \in Handle
    BY <1>0, <1>6, TakenEvt DEF DrainEnded, EvtTypes
  <2> QED BY <1>0, <1>6, <2>1, ReleaseQuiet DEF DrainEnded
<1>7. CASE \/ \E h \in app, p \in Priorities : SetPriority(h, p)
           \/ \E stream \in BOOLEAN : LoadSound(stream)
           \/ BeginDrainEvents \/ DrainRetired \/ DrainNotice \/ EndDrainEvents
  BY <1>0, <1>7, OneQuiet DEF SetPriority, LoadSound, BeginDrainEvents, DrainRetired, DrainNotice,
     EndDrainEvents, ringVars
<1> QED BY <1>1, <1>2, <1>3, <1>4, <1>5, <1>6, <1>7 DEF Quiet

-----------------------------------------------------------------------------
(* A step of the control thread keeps the chains. *)

\* A sound keeps what it is, and if it is free, stays so; or a free slot gets its next occupant.
SoundsKept ==
    \A s \in Sound :
        \/ /\ snd'[s].gen = snd[s].gen /\ snd'[s].stream = snd[s].stream
           /\ snd'[s].internal = snd[s].internal /\ (snd'[s].inuse => snd[s].inuse)
        \/ ~snd[s].inuse /\ snd[s].gen < snd'[s].gen

LEMMA SoundsUntouched == snd' = snd => SoundsKept
BY DEF SoundsKept

LEMMA SoundsRetired ==
    ASSUME Shape, NEW h \in Handle, CanRetire(h), snd' = Retiring(snd, h) PROVE SoundsKept
<1>1. h.idx \in Sound /\ snd \in [Sound -> SoundSlot]
  BY DEF CanRetire, SndLive, Shape, TypeOK
<1>2. \A r \in SoundSlot : LET q == [r EXCEPT !.retiring = TRUE]
                           IN  q.inuse = r.inuse /\ q.gen = r.gen /\ q.stream = r.stream /\ q.internal = r.internal
  BY DEF SoundSlot
<1>3. \A s \in Sound : snd'[s] = snd[s] \/ snd'[s] = [snd[s] EXCEPT !.retiring = TRUE]
  BY <1>1 DEF Retiring
<1> QED BY <1>1, <1>2, <1>3 DEF SoundsKept

LEMMA SoundsAllocated ==
    ASSUME SlotsInv, Len(sfree) > 0, NEW r, r.gen = snd[Last(sfree)].gen + 1, snd' = [snd EXCEPT ![Last(sfree)] = r]
    PROVE  SoundsKept
<1>1. PICK i \in Sound : i = Last(sfree) /\ ~snd[i].inuse
  BY TopSoundFree
<1>2. snd[i].gen \in Nat /\ snd \in [Sound -> SoundSlot]
  BY <1>1, SlotsUse, SoundFields DEF ControlShape
<1>3. snd[i].gen < snd[i].gen + 1
  BY <1>2
<1>4. snd'[i].gen = snd[i].gen + 1 /\ \A s \in Sound : s # i => snd'[s] = snd[s]
  BY <1>1, <1>2
<1> QED BY <1>1, <1>3, <1>4 DEF SoundsKept

LEMMA SoundsFreed ==
    ASSUME Shape, NEW i \in Sound, snd' = [snd EXCEPT ![i].inuse = FALSE, ![i].retiring = FALSE]
    PROVE  SoundsKept
<1>1. snd \in [Sound -> SoundSlot]
  BY DEF Shape, TypeOK
<1>2. \A r \in SoundSlot : LET q == [r EXCEPT !.inuse = FALSE, !.retiring = FALSE]
                           IN  ~q.inuse /\ q.gen = r.gen /\ q.stream = r.stream /\ q.internal = r.internal
  BY DEF SoundSlot
<1>3. \A s \in Sound : snd'[s] = snd[s] \/ snd'[s] = [snd[s] EXCEPT !.inuse = FALSE, !.retiring = FALSE]
  BY <1>1
<1> QED BY <1>1, <1>2, <1>3 DEF SoundsKept

LEMMA ReleaseSounds ==
    ASSUME Shape, NEW h \in Handle, NEW c, ReleasePush(h, c) PROVE SoundsKept
<1>1. IsPush(h) => slot[h.idx].push \in Handle
  BY ShapeParts, SlotFields DEF IsPush, Live
<1> QED BY <1>1, SoundsUntouched, SoundsRetired DEF ReleasePush

LEMMA ControlSounds == ASSUME SlotsInv, ControlNext PROVE SoundsKept
<1>0. Shape /\ ControlShape
  BY SlotsUse
<1>1. CASE CreateStream
  <2>1. Len(sfree) > 0
    BY <1>0, <1>1 DEF CreateStream, ControlShape
  <2>2. \E r : r.gen = snd[Last(sfree)].gen + 1 /\ snd' = [snd EXCEPT ![Last(sfree)] = r]
    <3>1. CASE AllocSound(TRUE, TRUE)
      BY <3>1 DEF AllocSound
    <3>2. CASE snd' = [snd EXCEPT ![Last(sfree)] = [gen |-> H(Last(sfree), snd[Last(sfree)].gen + 1).gen,
                          inuse |-> TRUE, retiring |-> TRUE, stream |-> TRUE, internal |-> TRUE]]
      BY <3>2 DEF H
    <3> QED BY <1>1, <3>1, <3>2 DEF CreateStream
  <2> QED BY <2>1, <2>2, SoundsAllocated
<1>2. CASE \E stream \in BOOLEAN : LoadSound(stream)
  <2>1. Len(sfree) > 0
    BY <1>0, <1>2 DEF LoadSound, AllocSound, ControlShape
  <2>2. \E r : r.gen = snd[Last(sfree)].gen + 1 /\ snd' = [snd EXCEPT ![Last(sfree)] = r]
    BY <1>2 DEF LoadSound, AllocSound
  <2> QED BY <2>1, <2>2, SoundsAllocated
<1>3. CASE CreateCut \/ \E h \in app : DestroySource(h)
  <2>1. ctl.vic \in Handle /\ \A h \in app : h \in Handle
    BY <1>0 DEF ControlShape, Ctl
  <2> QED BY <1>0, <1>3, <2>1, ReleaseSounds, SoundsUntouched DEF CreateCut, DestroySource
<1>4. CASE (\E s \in AppSounds : Unload(s)) \/ \E s \in ctl.try : RetryParked(s)
  <2>1. \A s \in AppSounds : s \in Handle
    BY <1>0, SoundFields DEF AppSounds
  <2>2. \A s \in ctl.try : s \in Handle
    BY <1>0 DEF ControlShape, Ctl
  <2> QED BY <1>0, <1>4, <2>1, <2>2, SoundsRetired, SoundsUntouched DEF Unload, RetryParked
<1>5. CASE DrainEnded
  <2>1. Head(evt).h \in Handle
    BY <1>0, <1>5, TakenEvt DEF DrainEnded, EvtTypes
  <2> QED BY <1>0, <1>5, <2>1, ReleaseSounds DEF DrainEnded
<1>6. CASE DrainRetired
  BY <1>0, <1>6, SoundsFreed, SoundsUntouched DEF DrainRetired, SndLive
<1>7. CASE \/ CreateSource \/ CreatePush \/ StopAll
           \/ \E s \in AppSounds : PlayOneshot(s)
           \/ \E h \in app, s \in AppSounds : Play(h, s) \/ Queue(h, s)
           \/ \E h \in app : Stop(h)
           \/ \E h \in app, p \in Priorities : SetPriority(h, p)
           \/ Commit \/ BeginDrainEvents \/ DrainNotice \/ EndDrainEvents
  <2>1. snd' = snd
    BY <1>7 DEF CreateSource, CreatePush, StopAll, PlayOneshot, Play, Queue, Stop, SetPriority,
       Commit, BeginDrainEvents, DrainNotice, EndDrainEvents, ctlVars
  <2> QED BY <2>1, SoundsUntouched
<1> QED BY <1>1, <1>2, <1>3, <1>4, <1>5, <1>6, <1>7 DEF ControlNext

\* A step of the control thread keeps ChainInv if what it binds may be bound.
LEMMA ChainControl ==
    ASSUME Shape, Shape', ChainInv, NoDanglingSound, voice' = voice, CmdGrown, SoundsKept,
           \A k : NewBind(k) => /\ CanRetire(cmd'[k].s)
                                /\ cmd'[k].t = "QUEUE" => ~snd[cmd'[k].s.idx].stream
    PROVE  ChainInv'
<1>1. /\ Len(cmd) \in Nat /\ Len(cmd') \in Nat /\ Len(cmd) <= Len(cmd')
      /\ \A k \in 1 .. Len(cmd) : cmd'[k] = cmd[k] /\ k \in 1 .. Len(cmd') /\ cmd[k].s \in Handle
  BY RingTypes, RingTypesPrime DEF CmdGrown
<1>2. \A s \in Sound : snd[s].gen \in Nat /\ snd'[s].gen \in Nat
  <2>1. \A s \in Sound : snd[s] \in SoundSlot /\ snd'[s] \in SoundSlot
    BY DEF Shape, TypeOK
  <2> QED BY <2>1 DEF SoundSlot
<1>3. \A s \in Sound : snd[s].inuse => snd'[s].stream = snd[s].stream /\ snd'[s].gen = snd[s].gen
  BY DEF SoundsKept
<1>4. \A s \in Sound : snd[s].gen <= snd'[s].gen
  BY <1>2 DEF SoundsKept
<1>5. \A h : SndLive(h) => h.idx \in Sound /\ snd[h.idx].inuse /\ snd[h.idx].gen = h.gen
  BY DEF SndLive
<1>6. OneConsumer'
  <2>1. \A i \in Voice : voice[i].snd # None => snd'[voice[i].snd.idx].stream = snd[voice[i].snd.idx].stream
    BY <1>3, <1>5 DEF NoDanglingSound
  <2> QED BY <2>1 DEF OneConsumer, ChainInv
<1>7. ASSUME NEW k \in 1 .. Len(cmd'), cmd'[k].t \in Binds
      PROVE  cmd'[k].s.idx \in Sound /\ cmd'[k].s.gen <= snd'[cmd'[k].s.idx].gen
  <2>1. CASE k \in 1 .. Len(cmd)
    <3>1. PICK h \in Handle : h = cmd[k].s
      BY <1>1, <2>1
    <3>2. h.idx \in Sound /\ h.gen <= snd[h.idx].gen /\ h.gen \in Nat
      BY <1>1, <1>7, <2>1, <3>1 DEF ChainInv, Handle
    <3>3. h.gen <= snd'[h.idx].gen
      BY <1>2, <1>4, <3>2
    <3> QED BY <1>1, <2>1, <3>1, <3>2, <3>3
  <2>2. CASE k \notin 1 .. Len(cmd)
    <3>1. PICK h : h = cmd'[k].s
      OBVIOUS
    <3>2. CanRetire(h)
      BY <1>7, <2>2, <3>1 DEF NewBind, NewCmdAt
    <3>3. h.idx \in Sound /\ snd[h.idx].inuse /\ snd[h.idx].gen = h.gen
      BY <3>2, <1>5 DEF CanRetire
    <3>4. snd'[h.idx].gen = h.gen /\ h.gen \in Nat
      BY <1>2, <1>3, <3>3
    <3> QED BY <3>1, <3>3, <3>4
  <2> QED BY <2>1, <2>2
<1>8. ASSUME NEW k \in 1 .. Len(cmd'), cmd'[k].t = "QUEUE", NEW h, h = cmd'[k].s, SndLive(h)'
      PROVE  ~snd'[h.idx].stream
  <2>0. "QUEUE" \in Binds
    BY DEF Binds
  <2>1. h.idx \in Sound /\ snd'[h.idx].inuse /\ snd'[h.idx].gen = h.gen
    BY <1>8 DEF SndLive
  <2>2. CASE k \in 1 .. Len(cmd)
    <3>1. cmd[k].t = "QUEUE" /\ cmd[k].s = h /\ h \in Handle
      BY <1>1, <1>8, <2>2
    <3>2. h.gen <= snd[h.idx].gen /\ h.gen \in Nat
      BY <2>0, <2>2, <3>1 DEF ChainInv, Handle
    <3>3. snd'[h.idx].gen = snd[h.idx].gen /\ snd[h.idx].inuse /\ snd'[h.idx].stream = snd[h.idx].stream
      <4>1. ~(snd[h.idx].gen < snd'[h.idx].gen)
        BY <1>2, <2>1, <3>2
      <4> QED BY <2>1, <4>1 DEF SoundsKept
    <3>4. SndLive(h)
      BY <2>1, <3>3 DEF SndLive
    <3>5. ~snd[h.idx].stream
      BY <2>2, <3>1, <3>4 DEF ChainInv, Commands
    <3> QED BY <3>3, <3>5
  <2>3. CASE k \notin 1 .. Len(cmd)
    <3>1. CanRetire(h) /\ ~snd[h.idx].stream
      BY <1>8, <2>0, <2>3 DEF NewBind, NewCmdAt
    <3>2. h.idx \in Sound /\ snd[h.idx].inuse
      BY <3>1, <1>5 DEF CanRetire
    <3> QED BY <1>3, <3>1, <3>2
  <2> QED BY <2>2, <2>3
<1>9. ASSUME NEW i \in Voice, NEW k \in 1 .. Len(voice[i].queue), voice[i].queue[k] # None
      PROVE  ~snd'[voice[i].queue[k].idx].stream
  <2>1. SndLive(voice[i].queue[k]) /\ ~snd[voice[i].queue[k].idx].stream
    BY <1>9 DEF NoDanglingSound, ChainInv
  <2> QED BY <1>3, <1>5, <2>1
<1>10. (\A k \in Commands("QUEUE") : SndLive(cmd[k].s) => ~snd[cmd[k].s.idx].stream)'
  BY <1>8 DEF Commands, SndLive
<1> QED BY <1>6, <1>7, <1>9, <1>10 DEF ChainInv

-----------------------------------------------------------------------------
(* What a step of the control thread binds. *)

\* What a step binds may be bound.
MayBind(c) == CanRetire(c.s) /\ (c.t = "QUEUE" => ~snd[c.s.idx].stream)
BindsChecked == CmdGrown /\ \A k : NewBind(k) => MayBind(cmd'[k])

LEMMA BindCallBinds ==
    ASSUME Shape, NEW h \in app, NEW s \in AppSounds, Play(h, s) \/ Queue(h, s)
    PROVE  BindsChecked
<1>0. ControlShape /\ h \in Handle
  BY ShapeParts DEF ControlShape
<1>1. s \in Handle
  BY <1>0, SoundFields DEF AppSounds
<1>2. PICK t \in Binds : /\ cmd' = cmd \/ cmd' = Append(cmd, MkCmd(t, h, s, FALSE))
                         /\ CanRetire(s) /\ (t = "QUEUE" => ~snd[s.idx].stream)
  BY DEF Play, Queue, Push1, Binds
<1>3. PICK c : c = MkCmd(t, h, s, FALSE)
  OBVIOUS
<1>4. c \in Cmd /\ c.t = t /\ c.s = s
  <2>1. t \in CmdTypes
    BY DEF CmdTypes, Binds
  <2>2. c \in Cmd
    BY <1>0, <1>1, <1>3, <2>1, CmdType
  <2> QED BY <1>3, <2>2 DEF MkCmd
<1>5. MayBind(c)
  BY <1>2, <1>4 DEF MayBind
<1>6. CASE cmd' = cmd
  BY <1>6, SameCmds DEF BindsChecked, NewBind
<1>7. CASE cmd' = Append(cmd, c)
  BY <1>4, <1>5, <1>7, AddedOne DEF BindsChecked, NewBind
<1> QED BY <1>2, <1>3, <1>6, <1>7

LEMMA PlayOneshotBinds ==
    ASSUME SlotsInv, NEW s \in AppSounds, PlayOneshot(s) PROVE BindsChecked
<1>0. Shape /\ ControlShape /\ VoicesExact
  BY SlotsUse
<1>1. Len(free) > 0
  BY <1>0, Constants DEF PlayOneshot, ControlShape
<1>2. PICK h \in Handle : h = H(Last(free), slot[Last(free)].gen + 1)
  BY <1>0, <1>1, TopLet
<1>3. s \in Handle /\ CanRetire(s)
  BY <1>0, SoundFields DEF AppSounds, PlayOneshot
<1>4. PICK a, b, c : a = VCmd("CREATE", h) /\ b = VCmd("PARAM", h) /\ c = MkCmd("PLAY", h, s, TRUE)
  OBVIOUS
<1>5. a \in Cmd /\ b \in Cmd /\ c \in Cmd
  <2>1. "CREATE" \in CmdTypes /\ "PARAM" \in CmdTypes /\ "PLAY" \in CmdTypes
    BY DEF CmdTypes
  <2> QED BY <1>3, <1>4, <2>1, CmdType, Constants
<1>6. a.t \notin Binds /\ b.t \notin Binds /\ c.t = "PLAY" /\ c.s = s
  BY <1>4 DEF VCmd, MkCmd, Binds
<1>7. PICK w \in Seq(Cmd) : w = <<a, b, b, c>>
  <2>1. <<a, b, b, c>> \in Seq(Cmd)
    BY <1>5
  <2> QED BY <2>1
<1>8. cmd' = cmd \o w
  BY <1>2, <1>4, <1>7 DEF PlayOneshot
<1>9. CmdGrown /\ \A k : NewCmdAt(k) => \E m \in 1 .. Len(w) : k = Len(cmd) + m /\ cmd'[k] = w[m]
  BY <1>0, <1>8, AddedCmds
<1>10. \A m \in 1 .. Len(w) : w[m].t \in Binds => w[m] = c
  BY <1>6, <1>7
<1>11. MayBind(c)
  BY <1>3, <1>6 DEF MayBind
<1> QED BY <1>9, <1>10, <1>11 DEF BindsChecked, NewBind

\* What rt_source_create_stream adds at the end.
LEMMA CreatePushCmds ==
    ASSUME Shape, CreatePush
    PROVE  LET a == VCmd("CREATE", ctl.h)
               b == MkCmd("PLAY", ctl.h, ctl.s, FALSE)
           IN  /\ a \in Cmd /\ b \in Cmd /\ a.t = "CREATE" /\ a.v = ctl.h
               /\ b.t = "PLAY" /\ b.v = ctl.h /\ b.s = ctl.s
               /\ \/ ~CmdRoom(1) /\ cmd' = cmd
                  \/ CmdRoom(1) /\ ~(ctl.s # None /\ CmdRoom(2)) /\ cmd' = Append(cmd, a)
                  \/ CmdRoom(1) /\ ctl.s # None /\ CmdRoom(2) /\ cmd' = Append(Append(cmd, a), b)
<1>1. PICK a, b : a = VCmd("CREATE", ctl.h) /\ b = MkCmd("PLAY", ctl.h, ctl.s, FALSE)
  OBVIOUS
<1>2. a \in Cmd /\ b \in Cmd
  <2>1. "CREATE" \in CmdTypes /\ "PLAY" \in CmdTypes /\ FALSE \in BOOLEAN
    BY DEF CmdTypes
  <2>2. ctl.h \in Handle /\ ctl.s \in Handle
    BY ShapeParts DEF ControlShape, Ctl
  <2> QED BY <1>1, <2>1, <2>2, CmdType
<1>3. a.t = "CREATE" /\ a.v = ctl.h /\ b.t = "PLAY" /\ b.v = ctl.h /\ b.s = ctl.s
  BY <1>1 DEF VCmd, MkCmd
<1>4. \/ ~CmdRoom(1) /\ cmd' = cmd
      \/ CmdRoom(1) /\ ~(ctl.s # None /\ CmdRoom(2)) /\ cmd' = Append(cmd, a)
      \/ CmdRoom(1) /\ ctl.s # None /\ CmdRoom(2) /\ cmd' = Append(Append(cmd, a), b)
  BY <1>1 DEF CreatePush
<1> QED BY <1>1, <1>2, <1>3, <1>4

LEMMA CreatePushBinds == ASSUME Shape, FreshBind, CreatePush PROVE BindsChecked
<1>1. PICK a, b : a = VCmd("CREATE", ctl.h) /\ b = MkCmd("PLAY", ctl.h, ctl.s, FALSE)
  OBVIOUS
<1>2. /\ a \in Cmd /\ b \in Cmd /\ a.t = "CREATE" /\ b.t = "PLAY" /\ b.s = ctl.s
      /\ \/ cmd' = cmd \/ cmd' = Append(cmd, a)
         \/ ctl.s # None /\ cmd' = Append(Append(cmd, a), b)
  BY <1>1, CreatePushCmds
<1>3. a.t \notin Binds
  BY <1>2 DEF Binds
<1>4. CASE ctl.s # None /\ cmd' = Append(Append(cmd, a), b)
  <2>1. MayBind(b)
    BY <1>2, <1>4 DEF MayBind, FreshBind
  <2> QED BY <1>2, <1>3, <1>4, <2>1, AddedTwo DEF BindsChecked, NewBind
<1>5. CASE cmd' = cmd
  BY <1>5, SameCmds DEF BindsChecked, NewBind
<1>6. CASE cmd' = Append(cmd, a)
  BY <1>2, <1>3, <1>6, AddedOne DEF BindsChecked, NewBind
<1> QED BY <1>2, <1>4, <1>5, <1>6

LEMMA ControlParts ==
    ControlNext <=>
        \/ Quiet \/ CreatePush
        \/ \E s \in AppSounds : PlayOneshot(s)
        \/ \E h \in app, s \in AppSounds : Play(h, s) \/ Queue(h, s)
BY DEF ControlNext, Quiet

LEMMA ControlBinds == ASSUME SlotsInv, FreshBind, ControlNext PROVE BindsChecked
<1>1. CASE Quiet
  BY <1>1, QuietCalls DEF QuietCmds, BindsChecked
<1> QED BY <1>1, SlotsUse, ControlParts, CreatePushBinds, PlayOneshotBinds, BindCallBinds

LEMMA ControlChain ==
    ASSUME SlotsInv, Shape', FreshBind, NoDanglingSound, ChainInv, ControlNext PROVE ChainInv'
BY SlotsUse, ControlBinds, ControlSounds, ControlVoices, ChainControl DEF BindsChecked, MayBind

-----------------------------------------------------------------------------
(* The steps of the audio thread. *)

\* A step moves no voice to a stream, and chains none.
SoundsDwindle ==
    \A i \in Voice : voice'[i].snd # None /\ snd[voice'[i].snd.idx].stream => voice'[i].snd = voice[i].snd
ChainedDwindle ==
    \A i \in Voice : \A k \in 1 .. Len(voice'[i].queue) :
        voice'[i].queue[k] # None => ~snd[voice'[i].queue[k].idx].stream
\* A step that starts no voice: each keeps its let, and its sound as long as it is active.
VoicesCalm ==
    \A i \in Voice :
        /\ voice'[i].snd \in {None, voice[i].snd} /\ voice'[i].queue \in {<<>>, voice[i].queue}
        /\ voice'[i].gen = voice[i].gen
        /\ voice'[i].active => voice[i].active /\ voice'[i].snd = voice[i].snd
Calm ==
    \/ DrainDestroy \/ DrainStop \/ DrainStopAll \/ DrainSteal \/ DrainParam
    \/ BeginBlock \/ EndDrainCommands \/ EndBlock
    \/ \E i \in Voice : MixFinalize(i) \/ MixOn(i) \/ MixEnd(i)

\* One voice changes.
LEMMA OneCalm ==
    ASSUME NEW j \in Voice, \A i \in Voice : i # j => voice'[i] = voice[i],
           voice'[j].snd \in {None, voice[j].snd}, voice'[j].queue \in {<<>>, voice[j].queue},
           voice'[j].gen = voice[j].gen,
           voice'[j].active => voice[j].active /\ voice'[j].snd = voice[j].snd
    PROVE  VoicesCalm
BY DEF VoicesCalm

LEMMA SameCalm == voice' = voice => VoicesCalm
BY DEF VoicesCalm

LEMMA DrainCalm ==
    ASSUME Shape, DrainDestroy \/ DrainStop \/ DrainStopAll \/ DrainSteal PROVE VoicesCalm
<1>1. voice \in [Voice -> VoiceRec]
  BY DEF Shape, TypeOK
<1>2. PICK h : h = Head(cmd).v
  OBVIOUS
<1>3. CASE DrainDestroy
  <2>1. \A r \in VoiceRec : LET q == [r EXCEPT !.active = FALSE, !.playing = FALSE, !.snd = None]
                            IN  q.snd = None /\ q.queue = r.queue /\ q.gen = r.gen /\ ~q.active
    BY DEF VoiceRec
  <2>2. CASE /\ h.idx \in Voice
             /\ voice' = [voice EXCEPT ![h.idx].active = FALSE, ![h.idx].playing = FALSE, ![h.idx].snd = None]
    <3>1. /\ voice'[h.idx].snd = None /\ voice'[h.idx].queue = voice[h.idx].queue
          /\ voice'[h.idx].gen = voice[h.idx].gen /\ ~voice'[h.idx].active
      BY <1>1, <2>1, <2>2
    <3>2. \A i \in Voice : i # h.idx => voice'[i] = voice[i]
      BY <1>1, <2>2
    <3> QED BY <2>2, <3>1, <3>2, OneCalm
  <2> QED BY <1>2, <1>3, <2>2, SameCalm DEF DrainDestroy, VoiceFor
<1>4. CASE DrainStop \/ DrainSteal
  <2>1. \A r \in VoiceRec, n \in {1, 2} :
            LET q == [r EXCEPT !.stopping = n]
            IN  q.snd = r.snd /\ q.queue = r.queue /\ q.gen = r.gen /\ q.active = r.active
    BY DEF VoiceRec
  <2>2. \A r \in VoiceRec : LET q == [r EXCEPT !.stopping = 0, !.active = FALSE, !.snd = None]
                            IN  q.snd = None /\ q.queue = r.queue /\ q.gen = r.gen /\ ~q.active
    BY DEF VoiceRec
  <2>3. ASSUME NEW n \in {1, 2}, h.idx \in Voice, voice' = [voice EXCEPT ![h.idx].stopping = n]
        PROVE  VoicesCalm
    <3>1. \A i \in Voice : i # h.idx => voice'[i] = voice[i]
      BY <1>1, <2>3
    <3>2. voice'[h.idx] = [voice[h.idx] EXCEPT !.stopping = n] /\ voice[h.idx] \in VoiceRec
      BY <1>1, <2>3
    <3> QED BY <2>1, <2>3, <3>1, <3>2, OneCalm
  <2>4. CASE /\ h.idx \in Voice
             /\ voice' = [voice EXCEPT ![h.idx].stopping = 0, ![h.idx].active = FALSE, ![h.idx].snd = None]
    <3>1. /\ voice'[h.idx].snd = None /\ voice'[h.idx].queue = voice[h.idx].queue
          /\ voice'[h.idx].gen = voice[h.idx].gen /\ ~voice'[h.idx].active
      BY <1>1, <2>2, <2>4
    <3>2. \A i \in Voice : i # h.idx => voice'[i] = voice[i]
      BY <1>1, <2>4
    <3> QED BY <2>4, <3>1, <3>2, OneCalm
  <2> QED BY <1>2, <1>4, <2>3, <2>4, SameCalm DEF DrainStop, DrainSteal, VoiceFor
<1>5. CASE DrainStopAll
  <2>1. \A r \in VoiceRec : LET q == [r EXCEPT !.stopping = 1, !.queue = <<>>]
                            IN  q.snd = r.snd /\ q.queue = <<>> /\ q.gen = r.gen /\ q.active = r.active
    BY DEF VoiceRec
  <2>2. voice' = [i \in Voice |-> IF voice[i].active /\ voice[i].playing /\ voice[i].stopping # 2
                                  THEN [voice[i] EXCEPT !.stopping = 1, !.queue = <<>>] ELSE voice[i]]
    BY <1>5 DEF DrainStopAll
  <2> QED BY <1>1, <2>1, <2>2 DEF VoicesCalm
<1> QED BY <1>3, <1>4, <1>5

LEMMA MixCalm ==
    ASSUME Shape, NEW i \in Voice, MixFinalize(i) \/ MixOn(i) \/ MixEnd(i) PROVE VoicesCalm
<1>0. voice \in [Voice -> VoiceRec]
  BY DEF Shape, TypeOK
<1>1. CASE MixFinalize(i)
  <2>1. PICK b : /\ voice' = [voice EXCEPT ![i].stopping = 0, ![i].playing = FALSE, ![i].active = b]
                 /\ voice[i].active
    BY <1>1 DEF MixFinalize, MixAt, ToMix, Renderable
  <2>2. \A r \in VoiceRec : LET q == [r EXCEPT !.stopping = 0, !.playing = FALSE, !.active = b]
                            IN  q.snd = r.snd /\ q.queue = r.queue /\ q.gen = r.gen
    BY DEF VoiceRec
  <2>3. /\ voice'[i].snd = voice[i].snd /\ voice'[i].queue = voice[i].queue
        /\ voice'[i].gen = voice[i].gen /\ \A j \in Voice : j # i => voice'[j] = voice[j]
    BY <1>0, <2>1, <2>2
  <2> QED BY <2>1, <2>3, OneCalm
<1>2. CASE MixOn(i)
  <2>1. PICK o : voice' = [voice EXCEPT ![i].open = o]
    BY <1>2 DEF MixOn
  <2>2. \A r \in VoiceRec : LET q == [r EXCEPT !.open = o]
                            IN  q.snd = r.snd /\ q.queue = r.queue /\ q.gen = r.gen /\ q.active = r.active
    BY DEF VoiceRec
  <2>3. /\ voice'[i].snd = voice[i].snd /\ voice'[i].queue = voice[i].queue
        /\ voice'[i].gen = voice[i].gen /\ voice'[i].active = voice[i].active
        /\ \A j \in Voice : j # i => voice'[j] = voice[j]
    BY <1>0, <2>1, <2>2
  <2> QED BY <2>3, OneCalm
<1>3. CASE MixEnd(i)
  <2>0. voice[i].active
    BY <1>3 DEF MixEnd, MixAt, ToMix, Renderable
  <2>1. PICK b, o, q : /\ q \in {<<>>, voice[i].queue}
                       /\ voice' = [voice EXCEPT ![i].playing = FALSE, ![i].open = o, ![i].active = b,
                                                 ![i].queue = q]
    BY <1>3 DEF MixEnd
  <2>2. \A r \in VoiceRec : LET c == [r EXCEPT !.playing = FALSE, !.open = o, !.active = b, !.queue = q]
                            IN  c.snd = r.snd /\ c.queue = q /\ c.gen = r.gen
    BY DEF VoiceRec
  <2>3. /\ voice'[i].snd = voice[i].snd /\ voice'[i].queue = q /\ voice'[i].gen = voice[i].gen
        /\ \A j \in Voice : j # i => voice'[j] = voice[j]
    BY <1>0, <2>1, <2>2
  <2> QED BY <2>0, <2>1, <2>3, OneCalm
<1> QED BY <1>1, <1>2, <1>3

LEMMA CalmVoices == ASSUME Shape, Calm PROVE VoicesCalm
<1>1. CASE DrainParam \/ BeginBlock \/ EndDrainCommands \/ EndBlock
  BY <1>1, SameCalm DEF DrainParam, BeginBlock, EndDrainCommands, EndBlock
<1> QED BY <1>1, DrainCalm, MixCalm DEF Calm

\* What a calm step takes from the ring.
Starts == {"CREATE", "PLAY", "QUEUE", "RETIRE"}
LEMMA CalmCmds ==
    ASSUME Shape, Calm
    PROVE  snd' = snd /\ \E d \in 0 .. 1 : CmdShift(d) /\ (d = 1 => cmd[1].t \notin Starts)
<1>1. CASE \E t \in CmdTypes \ Starts : TakeCmd(t)
  <2>1. PICK t \in CmdTypes \ Starts : TakeCmd(t)
    BY <1>1
  <2>2. CmdShift(1) /\ 1 \in 0 .. 1 /\ cmd[1].t = t /\ snd' = snd
    BY <2>1, TakenCmd
  <2> QED BY <2>1, <2>2
<1>2. CASE cmd' = cmd /\ snd' = snd
  BY <1>2, SameCmd
<1>3. {"DESTROY", "STOP", "STOP_ALL", "STEAL", "PARAM", "COMMIT"} \subseteq CmdTypes \ Starts
  BY DEF CmdTypes, Starts
<1>4. CASE DrainDestroy \/ DrainStop \/ DrainStopAll \/ DrainSteal \/ DrainParam
  BY <1>1, <1>3, <1>4 DEF DrainDestroy, DrainStop, DrainStopAll, DrainSteal, DrainParam
<1>5. CASE \/ BeginBlock \/ EndDrainCommands \/ EndBlock
           \/ \E i \in Voice : MixFinalize(i) \/ MixOn(i) \/ MixEnd(i)
  <2>1. cmd' = cmd /\ snd' = snd
    BY <1>5 DEF BeginBlock, EndDrainCommands, EndBlock, MixFinalize, MixOn, MixEnd, Mixed, ctlVars, ringVars
  <2> QED BY <1>2, <2>1
<1> QED BY <1>4, <1>5 DEF Calm

LEMMA ChainAudio ==
    ASSUME Shape, ChainInv, snd' = snd, OneConsumer', ChainedDwindle, NEW d \in 0 .. 1, CmdShift(d)
    PROVE  ChainInv'
<1>1. /\ Len(cmd) \in Nat /\ Len(cmd') = Len(cmd) - d
      /\ \A k \in 1 .. Len(cmd') : cmd'[k] = cmd[k + d]
  BY RingTypes DEF CmdShift
<1>2. \A k \in 1 .. Len(cmd') : k + d \in 1 .. Len(cmd)
  BY <1>1
<1>3. ASSUME NEW k \in 1 .. Len(cmd'), cmd'[k].t \in Binds
      PROVE  cmd'[k].s.idx \in Sound /\ cmd'[k].s.gen <= snd'[cmd'[k].s.idx].gen
  BY <1>1, <1>2, <1>3 DEF ChainInv
<1>4. (\A k \in Commands("QUEUE") : SndLive(cmd[k].s) => ~snd[cmd[k].s.idx].stream)'
  <2> SUFFICES ASSUME NEW k \in 1 .. Len(cmd'), cmd'[k].t = "QUEUE", SndLive(cmd[k].s)'
               PROVE  ~snd'[cmd'[k].s.idx].stream
    BY DEF Commands
  <2>1. PICK n \in 1 .. Len(cmd) : cmd'[k] = cmd[n]
    BY <1>1, <1>2
  <2>2. n \in Commands("QUEUE") /\ SndLive(cmd[n].s)
    BY <2>1 DEF Commands, SndLive
  <2> QED BY <2>1, <2>2 DEF ChainInv
<1>5. (\A i \in Voice : \A k \in 1 .. Len(voice[i].queue) :
        voice[i].queue[k] # None => ~snd[voice[i].queue[k].idx].stream)'
  BY DEF ChainedDwindle
<1> QED BY <1>3, <1>4, <1>5 DEF ChainInv

LEMMA DwindledOne == OneConsumer /\ snd' = snd /\ SoundsDwindle => OneConsumer'
<1> SUFFICES ASSUME OneConsumer, snd' = snd, SoundsDwindle, NEW i \in Voice, NEW j \in Voice, i # j,
                    voice'[i].snd # None, voice'[j].snd # None, snd[voice'[i].snd.idx].stream,
                    voice'[i].snd = voice'[j].snd
             PROVE  FALSE
  BY DEF OneConsumer
<1>1. voice'[i].snd = voice[i].snd /\ voice'[j].snd = voice[j].snd
  BY DEF SoundsDwindle
<1> QED BY <1>1 DEF OneConsumer

LEMMA QuietDwindle ==
    ASSUME ChainInv,
           \A i \in Voice : voice'[i].snd \in {None, voice[i].snd} /\ voice'[i].queue \in {<<>>, voice[i].queue}
    PROVE  SoundsDwindle /\ ChainedDwindle
<1>1. SoundsDwindle
  BY DEF SoundsDwindle
<1> SUFFICES ASSUME NEW i \in Voice, NEW k \in 1 .. Len(voice'[i].queue), voice'[i].queue[k] # None
             PROVE  ~snd[voice'[i].queue[k].idx].stream
  BY <1>1 DEF ChainedDwindle
<1>2. voice'[i].queue = voice[i].queue
  OBVIOUS
<1> QED BY <1>2 DEF ChainInv

LEMMA KeptChain ==
    ASSUME Shape, ChainInv, snd' = snd, VoicesCalm, NEW d \in 0 .. 1, CmdShift(d) PROVE ChainInv'
<1>1. SoundsDwindle /\ ChainedDwindle
  BY QuietDwindle DEF VoicesCalm
<1> QED BY <1>1, DwindledOne, ChainAudio DEF ChainInv

LEMMA DrainKeptChain ==
    ASSUME Shape, ChainInv, voice' = voice, NEW t \in CmdTypes, TakeCmd(t) PROVE ChainInv'
BY SameCalm, TakenCmd, KeptChain

LEMMA CalmChain == ASSUME Shape, ChainInv, Calm PROVE ChainInv'
BY CalmVoices, CalmCmds, KeptChain

LEMMA DrainCreateChain == ASSUME Shape, ChainInv, DrainCreate PROVE ChainInv'
<1>1. PICK r, j : r.snd = None /\ r.queue = <<>> /\ voice' = [voice EXCEPT ![j] = r]
  <2>1. PICK r : r = [gen |-> Head(cmd).v.gen, active |-> TRUE, playing |-> FALSE, snd |-> None,
                      stopping |-> 0, oneshot |-> FALSE, open |-> TRUE, queue |-> <<>>]
    OBVIOUS
  <2> QED BY <2>1 DEF DrainCreate
<1>2. voice \in [Voice -> VoiceRec]
  BY DEF Shape, TypeOK
<1>3. \A i \in Voice : voice'[i].snd \in {None, voice[i].snd} /\ voice'[i].queue \in {<<>>, voice[i].queue}
  BY <1>1, <1>2
<1>4. "CREATE" \in CmdTypes /\ TakeCmd("CREATE")
  BY DEF CmdTypes, DrainCreate
<1>5. SoundsDwindle /\ ChainedDwindle
  BY <1>3, QuietDwindle
<1> QED BY <1>4, <1>5, TakenCmd, DwindledOne, ChainAudio DEF ChainInv

\* A retire leaves a voice the sound it had, or none, and the chain its entries, or tombstones.
LEMMA DrainRetireChain == ASSUME Shape, ChainInv, DrainRetire PROVE ChainInv'
<1>1. voice \in [Voice -> VoiceRec]
  BY DEF Shape, TypeOK
<1>2. "RETIRE" \in CmdTypes /\ TakeCmd("RETIRE")
  BY DEF CmdTypes, DrainRetire
<1>3. CASE voice' = voice
  BY <1>2, <1>3, DrainKeptChain
<1>4. ASSUME NEW n, voice' = [i \in Voice |-> Released(voice[i], n)] PROVE ChainInv'
  <2>1. \A r \in VoiceRec : LET q == Released(r, n) IN
            /\ q.snd = (IF r.snd.idx = n THEN None ELSE r.snd)
            /\ q.queue = [k \in DOMAIN r.queue |-> IF r.queue[k].idx = n THEN None ELSE r.queue[k]]
    BY DEF VoiceRec, Released
  <2>2. SoundsDwindle
    BY <1>1, <1>4, <2>1 DEF SoundsDwindle
  <2>3. ASSUME NEW i \in Voice
        PROVE  \A k \in 1 .. Len(voice'[i].queue) :
                 voice'[i].queue[k] # None => ~snd[voice'[i].queue[k].idx].stream
    <3>1. PICK q \in Seq(Handle) : q = voice[i].queue
      BY VoiceTypes
    <3>2. voice'[i].queue = [k \in 1 .. Len(q) |-> IF q[k].idx = n THEN None ELSE q[k]]
      BY <1>1, <1>4, <2>1, <3>1
    <3>3. \A k \in 1 .. Len(q) : (IF q[k].idx = n THEN None ELSE q[k]) \in Handle
      BY <3>1, Constants
    <3>4. Len(voice'[i].queue) = Len(q)
      BY <3>1, <3>2, <3>3
    <3>5. \A k \in 1 .. Len(q) : q[k] # None => ~snd[q[k].idx].stream
      BY <3>1 DEF ChainInv
    <3>6. \A k \in 1 .. Len(q) : voice'[i].queue[k] \in {None, q[k]}
      BY <3>2
    <3> QED BY <3>4, <3>5, <3>6
  <2>4. ChainedDwindle
    BY <2>3 DEF ChainedDwindle
  <2> QED BY <1>2, <2>2, <2>4, TakenCmd, DwindledOne, ChainAudio DEF ChainInv
<1> QED BY <1>3, <1>4 DEF DrainRetire

\* rt_source_queue refused streams, so what it chained is none.
LEMMA DrainQueueChain == ASSUME Shape, ChainInv, DrainQueue PROVE ChainInv'
<1>1. voice \in [Voice -> VoiceRec]
  BY DEF Shape, TypeOK
<1>2. "QUEUE" \in CmdTypes /\ TakeCmd("QUEUE")
  BY DEF CmdTypes, DrainQueue
<1>3. CASE voice' = voice
  BY <1>2, <1>3, DrainKeptChain
<1>4. PICK c : c = Head(cmd)
  OBVIOUS
<1>5. CASE /\ SoundFor(c.s) /\ c.v.idx \in Voice
           /\ voice' = [voice EXCEPT ![c.v.idx].queue = Append(@, c.s)]
  <2>1. c = cmd[1] /\ 1 \in Commands("QUEUE") /\ c.s \in Handle
    BY <1>2, <1>4, TakenCmd DEF Commands
  <2>2. ~snd[c.s.idx].stream
    BY <1>5, <2>1 DEF ChainInv, SoundFor
  <2>3. \A r \in VoiceRec : LET q == [r EXCEPT !.queue = Append(@, c.s)]
                            IN  q.snd = r.snd /\ q.queue = Append(r.queue, c.s)
    BY DEF VoiceRec
  <2>4. /\ voice'[c.v.idx].snd = voice[c.v.idx].snd
        /\ voice'[c.v.idx].queue = Append(voice[c.v.idx].queue, c.s)
        /\ \A i \in Voice : i # c.v.idx => voice'[i] = voice[i]
    BY <1>1, <1>5, <2>3
  <2>5. SoundsDwindle
    BY <2>4 DEF SoundsDwindle
  <2>6. ASSUME NEW i \in Voice
        PROVE  \A k \in 1 .. Len(voice'[i].queue) :
                 voice'[i].queue[k] # None => ~snd[voice'[i].queue[k].idx].stream
    <3>1. PICK q \in Seq(Handle) : q = voice[i].queue
      BY VoiceTypes
    <3>2. \A k \in 1 .. Len(q) : q[k] # None => ~snd[q[k].idx].stream
      BY <3>1 DEF ChainInv
    <3>3. voice'[i].queue = q \/ voice'[i].queue = Append(q, c.s)
      BY <2>4, <3>1
    <3>4. \A k \in 1 .. Len(Append(q, c.s)) :
            (k \in 1 .. Len(q) /\ Append(q, c.s)[k] = q[k]) \/ Append(q, c.s)[k] = c.s
      BY <2>1, <3>1
    <3> QED BY <2>2, <3>2, <3>3, <3>4
  <2>7. ChainedDwindle
    BY <2>6 DEF ChainedDwindle
  <2> QED BY <1>2, <2>5, <2>7, TakenCmd, DwindledOne, ChainAudio DEF ChainInv
<1> QED BY <1>3, <1>4, <1>5 DEF DrainQueue, VoiceFor

\* CMD_PLAY detaches every other voice from the stream it binds: two live handles of one slot
\* are the same.
LEMMA DrainPlayChain == ASSUME Shape, NoDanglingSound, ChainInv, DrainPlay PROVE ChainInv'
<1>1. voice \in [Voice -> VoiceRec]
  BY DEF Shape, TypeOK
<1>2. "PLAY" \in CmdTypes /\ TakeCmd("PLAY")
  BY DEF CmdTypes, DrainPlay
<1>3. CASE voice' = voice
  BY <1>2, <1>3, DrainKeptChain
<1>4. PICK c : c = Head(cmd)
  OBVIOUS
<1>5. CASE /\ SoundFor(c.s) /\ c.v.idx \in Voice
           /\ voice' = [i \in Voice |->
                            IF i = c.v.idx THEN Bound(voice[i], c)
                            ELSE IF snd[c.s.idx].stream /\ voice[i].snd.idx = c.s.idx THEN Detached(voice[i])
                            ELSE voice[i]]
  <2>1. \A r \in VoiceRec : /\ Bound(r, c).snd = c.s /\ Bound(r, c).queue = <<>>
                            /\ Detached(r).snd = None /\ Detached(r).queue = r.queue
    BY DEF VoiceRec, Bound, Detached
  <2>2. voice'[c.v.idx].snd = c.s /\ voice'[c.v.idx].queue = <<>>
    BY <1>1, <1>5, <2>1
  <2>3. ASSUME NEW i \in Voice, i # c.v.idx
        PROVE  /\ voice'[i].snd = IF snd[c.s.idx].stream /\ voice[i].snd.idx = c.s.idx
                                  THEN None ELSE voice[i].snd
               /\ voice'[i].queue = voice[i].queue
    BY <1>1, <1>5, <2>1, <2>3
  <2>4. snd' = snd
    BY <1>2, TakenCmd
  <2>5. ASSUME NEW i \in Voice, NEW j \in Voice, i # j, voice'[i].snd # None, voice'[j].snd # None,
               snd[voice'[i].snd.idx].stream, voice'[i].snd = voice'[j].snd
        PROVE  FALSE
    <3>1. CASE i # c.v.idx /\ j # c.v.idx
      <4>1. voice'[i].snd = voice[i].snd /\ voice'[j].snd = voice[j].snd
        BY <2>3, <2>5, <3>1
      <4> QED BY <2>5, <4>1 DEF ChainInv, OneConsumer
    <3>2. CASE i = c.v.idx
      BY <2>2, <2>3, <2>5, <3>2
    <3>3. CASE j = c.v.idx
      BY <2>2, <2>3, <2>5, <3>3
    <3> QED BY <3>1, <3>2, <3>3
  <2>6. OneConsumer'
    BY <2>4, <2>5 DEF OneConsumer
  <2>7. ChainedDwindle
    <3> SUFFICES ASSUME NEW i \in Voice, NEW k \in 1 .. Len(voice'[i].queue), voice'[i].queue[k] # None
                 PROVE  ~snd[voice'[i].queue[k].idx].stream
      BY DEF ChainedDwindle
    <3>1. voice'[i].queue = <<>> \/ voice'[i].queue = voice[i].queue
      BY <2>2, <2>3
    <3> QED BY <3>1 DEF ChainInv
  <2> QED BY <1>2, <2>6, <2>7, TakenCmd, ChainAudio
<1> QED BY <1>3, <1>4, <1>5 DEF DrainPlay, VoiceFor

\* The chain takes over: what plays next came out of the queue, so it is no stream.
LEMMA MixChainChain == ASSUME Shape, ChainInv, NEW i \in Voice, MixChain(i) PROVE ChainInv'
<1>0. voice \in [Voice -> VoiceRec]
  BY DEF Shape, TypeOK
<1>1. snd' = snd /\ cmd' = cmd
  BY DEF MixChain, Mixed, ctlVars
<1>2. PICK q, k, o : /\ q = voice[i].queue /\ k \in 1 .. Len(q) /\ q[k] # None
                     /\ voice' = [voice EXCEPT ![i].snd = q[k], ![i].queue = SubSeq(q, k + 1, Len(q)),
                                               ![i].open = o]
  BY DEF MixChain, Valid
<1>3. PICK tail : tail = SubSeq(q, k + 1, Len(q))
  OBVIOUS
<1>4. \A r \in VoiceRec : LET c == [r EXCEPT !.snd = q[k], !.queue = tail, !.open = o]
                          IN  c.snd = q[k] /\ c.queue = tail
  BY DEF VoiceRec
<1>5. /\ voice'[i].snd = q[k] /\ voice'[i].queue = tail
      /\ \A j \in Voice : j # i => voice'[j] = voice[j]
  BY <1>0, <1>2, <1>3, <1>4
<1>6. q \in Seq(Handle) /\ Len(q) \in Nat
  BY <1>2, VoiceTypes
<1>7. \A n \in 1 .. Len(q) : q[n] # None => ~snd[q[n].idx].stream
  BY <1>2 DEF ChainInv
<1>8. SoundsDwindle
  <2>1. voice'[i].snd # None /\ ~snd[voice'[i].snd.idx].stream
    BY <1>2, <1>5, <1>7
  <2> QED BY <1>5, <2>1 DEF SoundsDwindle
<1>9. \A m \in 1 .. Len(tail) : \E n \in 1 .. Len(q) : tail[m] = q[n]
  <2>1. /\ Len(tail) = IF k + 1 <= Len(q) THEN Len(q) - (k + 1) + 1 ELSE 0
        /\ \A m \in 1 .. Len(q) - (k + 1) + 1 : tail[m] = q[k + 1 + m - 1]
    <3>1. q \in Seq(Handle) /\ k + 1 \in 1 .. Len(q) + 1 /\ Len(q) \in 0 .. Len(q)
      BY <1>2, <1>6
    <3> QED BY <1>3, <3>1, SubSeqProperties
  <2>2. ASSUME NEW m \in 1 .. Len(tail) PROVE k + 1 + m - 1 \in 1 .. Len(q) /\ tail[m] = q[k + 1 + m - 1]
    <3>1. k \in Nat /\ k + 1 <= Len(q)
      BY <1>2, <1>6, <2>1
    <3>2. Len(tail) = Len(q) - (k + 1) + 1
      BY <2>1, <3>1
    <3> QED BY <1>6, <2>1, <3>1, <3>2
  <2> QED BY <2>2
<1>10. ChainedDwindle
  <2> SUFFICES ASSUME NEW j \in Voice, NEW m \in 1 .. Len(voice'[j].queue), voice'[j].queue[m] # None
               PROVE  ~snd[voice'[j].queue[m].idx].stream
    BY DEF ChainedDwindle
  <2>1. CASE j = i
    <3>1. PICK n \in 1 .. Len(q) : tail[m] = q[n]
      BY <1>5, <1>9, <2>1
    <3> QED BY <1>5, <1>7, <2>1, <3>1
  <2>2. CASE j # i
    BY <1>5, <2>2 DEF ChainInv
  <2> QED BY <2>1, <2>2
<1> QED BY <1>1, <1>8, <1>10, SameCmd, DwindledOne, ChainAudio DEF ChainInv

LEMMA AudioChain == ASSUME Shape, NoDanglingSound, ChainInv, AudioNext PROVE ChainInv'
BY CalmChain, DrainCreateChain, DrainPlayChain, DrainQueueChain, DrainRetireChain, MixChainChain
   DEF AudioNext, Calm

LEMMA InitChain == Init => ChainInv
<1> SUFFICES ASSUME Init PROVE ChainInv
  OBVIOUS
<1>1. Len(cmd) = 0 /\ Commands("QUEUE") = {}
  BY DEF Init, Commands
<1>2. \A i \in Voice : voice[i].snd = None /\ Len(voice[i].queue) = 0
  BY DEF Init
<1> QED BY <1>1, <1>2 DEF ChainInv, OneConsumer

-----------------------------------------------------------------------------
(* The theorems: one consumer per stream. *)

\* What the commands in flight and the chains may name, so that no chain can bring a voice to a
\* stream another voice has, holds in every reachable state of every instance.
THEOREM ChainInvariant == Spec => []ChainInv
<1>1. Init => ChainInv
  BY InitChain
<1>2. SlotsInv /\ SlotsInv' /\ RetireInv /\ ChainInv /\ [Next]_vars => ChainInv'
  <2>1. ASSUME SlotsInv, SlotsInv', RetireInv, ChainInv, Next PROVE ChainInv'
    <3>1. Shape /\ Shape' /\ FreshBind /\ NoDanglingSound
      BY <2>1, SlotsUse, SlotsPartsPrime DEF RetireInv
    <3> QED BY <2>1, <3>1, ControlChain, AudioChain DEF Next
  <2>2. ASSUME ChainInv, UNCHANGED vars PROVE ChainInv'
    BY <2>2 DEF ChainInv, OneConsumer, Commands, SndLive, vars
  <2> QED BY <2>1, <2>2
<1> QED BY <1>1, <1>2, SlotsInvariant, RetireInvariant, PTL DEF Spec

\* The ring of a streamed sound is read by one voice at a time, whatever is played, chained, unloaded
\* and loaded again in between: CMD_PLAY's detach loop and rt_source_queue's refusal are enough.
THEOREM OneConsumerCorrect == Spec => []OneConsumer
<1>1. ChainInv => OneConsumer
  BY DEF ChainInv
<1> QED BY <1>1, ChainInvariant, PTL

-----------------------------------------------------------------------------
(* Push sources: what a step of the control thread does to their slots. *)

\* What a step of the control thread does to the slots: each keeps its let and its push sound, but
\* for one that has no push sound afterwards.
CoreKept(j) == slot'[j].inuse = slot[j].inuse /\ slot'[j].gen = slot[j].gen /\ slot'[j].push = slot[j].push
OnlySlot(i) == \A j \in Voice : CoreKept(j) \/ (j = i /\ slot'[j].push = None /\ slot[j].gen <= slot'[j].gen)
GivenUp(i, h) == i \in Voice /\ Pushing(i) /\ ~Pushing(i)' /\ slot[i].push = h

\* ... to the sounds: a hidden one stays hidden unless its source is given up, and then it is
\* parked or retires.
PassedOn(i) ==
    /\ \A h \in Handle : Hidden(h) => Hidden(h)' \/ GivenUp(i, h)
    /\ \A h \in park' : h \in park \/ SndLive(h)
    /\ \A s \in Sound : \A g : g = H(s, snd'[s].gen) =>
        (snd'[s].inuse /\ snd'[s].internal /\ ~snd'[s].retiring =>
            \/ ctl'.s = g
            \/ /\ snd[s].inuse /\ snd[s].internal /\ ~snd[s].retiring /\ snd'[s].gen = snd[s].gen
               /\ g \in park \/ GivenUp(i, g) => g \in park')

\* ... to the call in progress: it keeps its sound or starts with a new one, and holds a new let.
NewSound(h) == h.idx \in Sound /\ snd[h.idx].gen < h.gen /\ Hidden(h)'
CallOn ==
    /\ ctl.s # None => ctl'.s = ctl.s
    /\ \A h : h = ctl'.s /\ h # None => QuietCmds /\ (h = ctl.s \/ NewSound(h))
    /\ \A h : h = ctl'.h /\ ctl'.pc = "push" =>
        /\ QuietCmds /\ app' = app
        /\ h.idx \in Voice /\ slot'[h.idx].push = None /\ slot[h.idx].gen < h.gen

\* ... and to what the client and the ring may name: nothing it binds is of a push source.
ForeignBinds ==
    /\ \A h \in app' : h \in app \/ SourceKnown(h)'
    /\ \A k : NewBind(k) => \A c : c = cmd'[k] =>
        /\ SourceKnown(c.v)'
        /\ \A i \in Voice : Pushing(i)' => c.v # SlotHandle(i)' /\ c.s # slot'[i].push

PushStep(i) == OnlySlot(i) /\ PassedOn(i) /\ CallOn /\ ForeignBinds

LEMMA SlotTypes ==
    ASSUME Shape, NEW i \in Voice
    PROVE  i \in Nat /\ slot[i].gen \in Nat /\ slot[i].push \in Handle /\ SlotHandle(i) \in Handle
BY ShapeParts, SlotFields DEF SlotHandle

LEMMA SlotTypesPrime ==
    ASSUME Shape', NEW i \in Voice
    PROVE  slot'[i].gen \in Nat /\ slot'[i].push \in Handle
<1>1. slot'[i] \in Slot
  BY DEF Shape, TypeOK
<1> QED BY <1>1 DEF Slot

LEMMA PushingOn ==
    ASSUME NEW i, OnlySlot(i), NEW j \in Voice, Pushing(j)'
    PROVE  Pushing(j) /\ CoreKept(j) /\ ~\E h : GivenUp(j, h)
<1>1. slot'[j].push # None
  BY DEF Pushing
<1>2. CoreKept(j)
  BY <1>1 DEF OnlySlot
<1> QED BY <1>2 DEF Pushing, CoreKept, GivenUp

\* A hidden sound is loaded at the generation of its slot.
LEMMA HiddenNow == \A h : Hidden(h) => h.idx \in Sound /\ snd[h.idx].inuse /\ snd[h.idx].gen = h.gen
BY DEF Hidden, CanRetire, SndLive

LEMMA OwnedControl ==
    ASSUME Shape, Shape', PushOwned, SoundsKept, NEW i, PushStep(i)
    PROVE  PushOwned'
<1>1. ASSUME NEW j \in Voice, Pushing(j)'
      PROVE  /\ Pushing(j) /\ CoreKept(j) /\ ~\E h : GivenUp(j, h)
             /\ \A h : h = slot[j].push => h \in Handle /\ Hidden(h) /\ Hidden(h)'
  <2>1. Pushing(j) /\ CoreKept(j) /\ ~\E h : GivenUp(j, h)
    BY <1>1, PushingOn DEF PushStep
  <2>2. PICK h \in Handle : h = slot[j].push /\ Hidden(h)
    BY <2>1, SlotTypes DEF PushOwned
  <2>3. Hidden(h)' \/ GivenUp(i, h)
    BY <2>2 DEF PushStep, PassedOn
  <2>4. GivenUp(i, h) => i = j
    BY <2>1, <2>2 DEF GivenUp, PushOwned
  <2> QED BY <2>1, <2>2, <2>3, <2>4
<1>2. PICK s \in Handle : s = ctl'.s
  BY DEF Shape, TypeOK, Ctl
<1>3. ASSUME s # None
      PROVE  Hidden(s)' /\ \A j \in Voice : Pushing(j)' => slot[j].push # s
  <2>1. CASE s = ctl.s
    <3>1. Hidden(s)
      BY <1>3, <2>1 DEF PushOwned
    <3>2. ~GivenUp(i, s)
      BY <1>3, <2>1 DEF GivenUp, PushOwned
    <3> QED BY <1>1, <2>1, <3>1, <3>2 DEF PushStep, PassedOn, PushOwned
  <2>2. CASE NewSound(s)
    <3>1. \A j \in Voice : Pushing(j)' => slot[j].push # s
      <4>1. snd[s.idx].gen < s.gen /\ s.idx \in Sound /\ snd[s.idx].gen \in Nat
        BY <2>2, ShapeParts, SoundFields DEF NewSound
      <4>2. \A j \in Voice : Pushing(j)' => Hidden(slot[j].push)
        BY <1>1
      <4> QED BY <4>1, <4>2, HiddenNow
    <3> QED BY <2>2, <3>1 DEF NewSound
  <2> QED BY <1>2, <1>3, <2>1, <2>2 DEF PushStep, CallOn
<1>4. (\A j \in Voice : Pushing(j) => Hidden(slot[j].push))'
  BY <1>1 DEF CoreKept, Hidden, CanRetire, SndLive
<1>5. (ctl.s # None => Hidden(ctl.s))'
  BY <1>2, <1>3 DEF Hidden, CanRetire, SndLive
<1>6. (\A j, k \in Voice : Pushing(j) /\ Pushing(k) /\ slot[j].push = slot[k].push => j = k)'
  BY <1>1 DEF CoreKept, PushOwned
<1>7. (\A j \in Voice : Pushing(j) => slot[j].push # ctl.s)'
  <2>1. CASE s # None
    BY <1>1, <1>2, <1>3, <2>1 DEF CoreKept
  <2>2. CASE s = None
    BY <1>2, <2>2 DEF Pushing
  <2> QED BY <2>1, <2>2
<1>8. (ctl.pc = "push" => slot[ctl.h.idx].push = None)'
  BY DEF PushStep, CallOn
<1>9. ASSUME NEW h \in park' PROVE h.idx \in Sound /\ h.gen <= snd'[h.idx].gen
  <2>1. h.idx \in Sound /\ h.gen <= snd[h.idx].gen /\ h \in Handle
    <3>1. h \in Handle
      BY DEF Shape, TypeOK
    <3>2. CASE h \in park
      BY <3>1, <3>2 DEF PushOwned
    <3>3. CASE SndLive(h)
      <4>1. h.idx \in Sound /\ snd[h.idx].gen = h.gen /\ h.gen \in Nat
        BY <3>1, <3>3 DEF SndLive, Handle
      <4> QED BY <3>1, <4>1
    <3> QED BY <3>2, <3>3 DEF PushStep, PassedOn
  <2>2. snd[h.idx].gen \in Nat /\ snd'[h.idx].gen \in Nat /\ h.gen \in Nat
    <3>1. snd[h.idx] \in SoundSlot /\ snd'[h.idx] \in SoundSlot
      BY <2>1 DEF Shape, TypeOK
    <3> QED BY <2>1, <3>1 DEF SoundSlot, Handle
  <2>3. snd[h.idx].gen <= snd'[h.idx].gen
    BY <2>1, <2>2 DEF SoundsKept
  <2> QED BY <2>1, <2>2, <2>3
<1> QED BY <1>4, <1>5, <1>6, <1>7, <1>8, <1>9 DEF PushOwned

LEMMA NamedControl ==
    ASSUME Shape, Shape', ChainInv, PushNamed, CmdGrown, voice' = voice, NEW i, PushStep(i)
    PROVE  PushNamed'
<1>0. \A j \in Voice : slot[j].gen \in Nat /\ slot'[j].gen \in Nat
  BY SlotTypes, SlotTypesPrime
<1>1. /\ Len(cmd) \in Nat /\ Len(cmd') \in Nat /\ Len(cmd) <= Len(cmd')
      /\ \A k \in 1 .. Len(cmd) : cmd'[k] = cmd[k] /\ k \in 1 .. Len(cmd') /\ cmd[k].s \in Handle /\ cmd[k].v \in Handle
  BY RingTypes, RingTypesPrime DEF CmdGrown
<1>2. ASSUME NEW h \in Handle, SourceKnown(h) PROVE SourceKnown(h)'
  <2>1. h.idx \in Voice /\ h.gen <= slot[h.idx].gen /\ h.gen \in Nat
    BY <1>2 DEF SourceKnown, Handle
  <2>2. slot[h.idx].gen <= slot'[h.idx].gen
    BY <1>0, <2>1 DEF PushStep, OnlySlot, CoreKept
  <2>3. h.gen <= slot'[h.idx].gen
    BY <1>0, <2>1, <2>2
  <2> QED BY <2>1, <2>3 DEF SourceKnown
<1>3. (\A h \in app : SourceKnown(h))'
  <2>1. \A h \in app : h \in Handle
    BY DEF Shape, TypeOK
  <2> QED BY <1>2, <2>1 DEF PushStep, ForeignBinds, PushNamed
<1>4. ASSUME NEW k \in 1 .. Len(cmd'), cmd'[k].t \in Binds, NEW v, v = cmd'[k].v PROVE SourceKnown(v)'
  <2>1. CASE k \in 1 .. Len(cmd)
    <3>1. v \in Handle /\ SourceKnown(v)
      BY <1>1, <1>4, <2>1 DEF PushNamed, Bind
    <3> QED BY <1>2, <3>1
  <2>2. CASE k \notin 1 .. Len(cmd)
    <3>1. PICK c : c = cmd'[k]
      OBVIOUS
    <3>2. NewBind(k) /\ c.v = v
      BY <1>4, <2>2, <3>1 DEF NewBind, NewCmdAt
    <3> QED BY <3>1, <3>2 DEF PushStep, ForeignBinds
  <2> QED BY <2>1, <2>2
<1>5. (\A k \in 1 .. Len(cmd) : Bind(k) => SourceKnown(cmd[k].v))'
  BY <1>4 DEF Bind, SourceKnown
<1>6. (ctl.pc = "push" => ctl.h \notin app /\ \A k \in 1 .. Len(cmd) : Bind(k) => cmd[k].v # ctl.h)'
  <2> SUFFICES ASSUME ctl'.pc = "push", NEW h, h = ctl'.h
               PROVE  h \notin app' /\ \A k \in 1 .. Len(cmd') : cmd'[k].t \in Binds => cmd'[k].v # h
    BY DEF Bind
  <2>1. QuietCmds /\ app' = app /\ h.idx \in Voice /\ slot[h.idx].gen < h.gen
    BY DEF PushStep, CallOn
  <2>2. h \in Handle
    BY DEF Shape, TypeOK, Ctl
  <2>3. ~SourceKnown(h)
    <3>1. h.gen \in Nat
      BY <2>2 DEF Handle
    <3> QED BY <1>0, <2>1, <3>1 DEF SourceKnown
  <2>4. h \notin app'
    BY <2>1, <2>3 DEF PushNamed
  <2>5. ASSUME NEW k \in 1 .. Len(cmd'), cmd'[k].t \in Binds PROVE cmd'[k].v # h
    <3>1. k \in 1 .. Len(cmd)
      BY <2>1, <2>5 DEF QuietCmds, NewBind, NewCmdAt
    <3> QED BY <1>1, <2>3, <2>5, <3>1 DEF PushNamed, Bind
  <2> QED BY <2>4, <2>5
<1>7. (ctl.s # None => \A k \in 1 .. Len(cmd) : Bind(k) => cmd[k].s # ctl.s)'
  <2> SUFFICES ASSUME NEW s, s = ctl'.s, s # None, NEW k \in 1 .. Len(cmd'), cmd'[k].t \in Binds
               PROVE  cmd'[k].s # s
    BY DEF Bind
  <2>1. QuietCmds /\ (s = ctl.s \/ NewSound(s))
    BY DEF PushStep, CallOn
  <2>2. k \in 1 .. Len(cmd)
    BY <2>1 DEF QuietCmds, NewBind, NewCmdAt
  <2>3. cmd'[k] = cmd[k] /\ cmd[k].t \in Binds
    BY <1>1, <2>2
  <2>4. CASE s = ctl.s
    BY <2>2, <2>3, <2>4 DEF PushNamed, Bind
  <2>5. CASE NewSound(s)
    <3>1. s.idx \in Sound /\ snd[s.idx].gen < s.gen /\ snd[s.idx].gen \in Nat
      BY <2>5, ShapeParts, SoundFields DEF NewSound
    <3>2. s \in Handle
      BY DEF Shape, TypeOK, Ctl
    <3>3. cmd[k].s = s => s.gen <= snd[s.idx].gen
      BY <2>2, <2>3 DEF ChainInv
    <3> QED BY <2>3, <3>1, <3>2, <3>3 DEF Handle
  <2> QED BY <2>1, <2>4, <2>5
<1>8. ASSUME NEW j \in Voice, NEW k \in 1 .. Len(cmd'), Pushing(j)', cmd'[k].t \in Binds,
             NEW h, h = H(j, slot'[j].gen), cmd'[k].v = h \/ cmd'[k].s = slot'[j].push
      PROVE  /\ cmd'[k].t = "PLAY" /\ cmd'[k].v = h /\ cmd'[k].s = slot'[j].push
             /\ voice'[j].gen = slot'[j].gen \/ \E n \in 1 .. Len(cmd') : n < k /\ cmd'[n].t = "CREATE" /\ cmd'[n].v = h
  <2>1. Pushing(j) /\ CoreKept(j)
    BY <1>8, PushingOn DEF PushStep
  <2>2. k \in 1 .. Len(cmd)
    <3> SUFFICES ASSUME k \notin 1 .. Len(cmd) PROVE FALSE
      OBVIOUS
    <3>1. PICK c : c = cmd'[k]
      OBVIOUS
    <3>2. NewBind(k)
      BY <1>8 DEF NewBind, NewCmdAt
    <3>3. c.v # H(j, slot'[j].gen) /\ c.s # slot'[j].push
      BY <1>8, <3>1, <3>2 DEF PushStep, ForeignBinds, SlotHandle
    <3> QED BY <1>8, <3>1, <3>3
  <2>3. /\ cmd'[k] = cmd[k] /\ h = SlotHandle(j) /\ slot'[j].push = slot[j].push /\ slot'[j].gen = slot[j].gen
    BY <1>1, <1>8, <2>1, <2>2 DEF CoreKept, SlotHandle
  <2>4. /\ cmd[k].t = "PLAY" /\ cmd[k].v = SlotHandle(j) /\ cmd[k].s = slot[j].push
        /\ voice[j].gen = slot[j].gen \/ \E n \in Commands("CREATE") : n < k /\ cmd[n].v = SlotHandle(j)
    BY <1>8, <2>1, <2>2, <2>3 DEF PushNamed, Bind
  <2>5. (\E n \in Commands("CREATE") : n < k /\ cmd[n].v = SlotHandle(j))
            => \E n \in 1 .. Len(cmd') : n < k /\ cmd'[n].t = "CREATE" /\ cmd'[n].v = h
    BY <1>1, <2>3 DEF Commands
  <2> QED BY <2>3, <2>4, <2>5
<1>9. (\A j \in Voice, k \in 1 .. Len(cmd) :
        Pushing(j) /\ Bind(k) /\ (cmd[k].v = SlotHandle(j) \/ cmd[k].s = slot[j].push) =>
            /\ cmd[k].t = "PLAY" /\ cmd[k].v = SlotHandle(j) /\ cmd[k].s = slot[j].push
            /\ voice[j].gen = slot[j].gen \/ \E n \in Commands("CREATE") : n < k /\ cmd[n].v = SlotHandle(j))'
  BY <1>8 DEF Bind, SlotHandle, Commands
<1> QED BY <1>3, <1>5, <1>6, <1>7, <1>9 DEF PushNamed

LEMMA SoundOwnedControl ==
    ASSUME Shape, Shape', PushInv, CmdGrown, voice' = voice, NEW i, PushStep(i)
    PROVE  InternalSoundOwned'
<1>1. ASSUME NEW s \in Sound, snd'[s].inuse, snd'[s].internal, NEW g, g = H(s, snd'[s].gen)
      PROVE  \/ \E j \in Voice : slot'[j].inuse /\ slot'[j].push = g
             \/ ctl'.s = g \/ g \in park' \/ snd'[s].retiring
  <2> SUFFICES ASSUME ~snd'[s].retiring, ctl'.s # g, g \notin park'
               PROVE  \E j \in Voice : slot'[j].inuse /\ slot'[j].push = g
    OBVIOUS
  <2>1. /\ snd[s].inuse /\ snd[s].internal /\ ~snd[s].retiring /\ snd'[s].gen = snd[s].gen
        /\ g \notin park /\ ~GivenUp(i, g)
    BY <1>1 DEF PushStep, PassedOn
  <2>2. g = H(s, snd[s].gen) /\ g # None
    <3>1. s # 0
      BY Constants DEF Sound
    <3> QED BY <1>1, <2>1, <3>1 DEF H, None
  <2>3. ctl.s # g
    BY <2>2 DEF PushStep, CallOn
  <2>4. PICK j \in Voice : slot[j].inuse /\ slot[j].push = g
    BY <2>1, <2>2, <2>3 DEF PushInv, InternalSoundOwned
  <2>5. CASE CoreKept(j)
    BY <2>4, <2>5 DEF CoreKept
  <2>6. CASE j = i /\ slot'[j].push = None
    BY <2>1, <2>2, <2>4, <2>6 DEF GivenUp, Pushing
  <2> QED BY <2>5, <2>6 DEF PushStep, OnlySlot
<1>2. ASSUME NEW j \in Voice, slot'[j].inuse, slot'[j].push # None, NEW h, h = H(j, slot'[j].gen)
      PROVE  \/ \E k \in 1 .. Len(cmd') : cmd'[k].t = "PLAY" /\ cmd'[k].v = h /\ cmd'[k].s = slot'[j].push
             \/ voice'[j].gen = slot'[j].gen /\ (voice'[j].active => voice'[j].snd = slot'[j].push)
  <2>1. Pushing(j) /\ CoreKept(j)
    BY <1>2, PushingOn DEF PushStep, Pushing
  <2>2. h = H(j, slot[j].gen) /\ slot[j].inuse /\ slot[j].push # None
    BY <1>2, <2>1 DEF CoreKept, Pushing
  <2>3. \/ \E k \in 1 .. Len(cmd) : cmd[k].t = "PLAY" /\ cmd[k].v = h /\ cmd[k].s = slot[j].push
        \/ voice[j].gen = slot[j].gen /\ (voice[j].active => voice[j].snd = slot[j].push)
    BY <2>2 DEF PushInv, InternalSoundOwned
  <2>4. \A k \in 1 .. Len(cmd) : cmd'[k] = cmd[k] /\ k \in 1 .. Len(cmd')
    BY RingTypes, RingTypesPrime DEF CmdGrown
  <2> QED BY <2>1, <2>3, <2>4 DEF CoreKept
<1> QED BY <1>1, <1>2 DEF InternalSoundOwned

LEMMA PushControl ==
    ASSUME Shape, Shape', ChainInv, PushInv, RoomKept', CmdGrown, SoundsKept, voice' = voice,
           NEW i, PushStep(i)
    PROVE  PushInv'
BY OwnedControl, NamedControl, SoundOwnedControl DEF PushInv

-----------------------------------------------------------------------------
(* What becomes of a sound. *)

LEMMA GivenUpLive ==
    \A i, h : GivenUp(i, h) => /\ i \in Voice /\ slot[i].inuse /\ slot[i].push = h
                               /\ ~(slot'[i].inuse /\ slot'[i].push # None)
BY DEF GivenUp, Pushing

LEMMA ParkTypes == ASSUME Shape PROVE park \subseteq Handle
BY DEF Shape, TypeOK

LEMMA PassedSame ==
    ASSUME NEW i, snd' = snd, park' = park, \A h : ~GivenUp(i, h)
    PROVE  PassedOn(i)
<1>1. \A h \in Handle : Hidden(h) => Hidden(h)'
  BY DEF Hidden, CanRetire, SndLive
<1> QED BY <1>1 DEF PassedOn

\* A free sound slot gets its next occupant.
LEMMA PassedAlloc ==
    ASSUME Shape, NEW i, NEW n \in Sound, ~snd[n].inuse, NEW r, snd' = [snd EXCEPT ![n] = r],
           park' = park, \A h : ~GivenUp(i, h),
           r.inuse /\ r.internal /\ ~r.retiring => ctl'.s = H(n, r.gen)
    PROVE  PassedOn(i)
<1>1. snd'[n] = r /\ \A s \in Sound : s # n => snd'[s] = snd[s]
  BY DEF Shape, TypeOK
<1>2. \A h \in Handle : Hidden(h) => Hidden(h)'
  BY <1>1 DEF Hidden, CanRetire, SndLive
<1> QED BY <1>1, <1>2 DEF PassedOn

\* A sound retires.
LEMMA PassedRetire ==
    ASSUME Shape, NEW i, NEW h \in Handle, CanRetire(h), snd' = Retiring(snd, h),
           park' \subseteq park, park \subseteq park' \cup {h},
           Hidden(h) => GivenUp(i, h), \A g : GivenUp(i, g) => g = h
    PROVE  PassedOn(i)
<1>1. h.idx \in Sound /\ h.idx \in Nat /\ h.gen \in Nat
  BY HandleFields DEF CanRetire, SndLive
<1>2. snd'[h.idx].retiring /\ \A s \in Sound : s # h.idx => snd'[s] = snd[s]
  BY <1>1 DEF Shape, TypeOK, SoundSlot, Retiring
<1>3. \A g \in Handle : Hidden(g) => g = h \/ g.idx # h.idx
  BY SameHandle DEF Hidden, CanRetire, SndLive
<1>4. \A g \in Handle : Hidden(g) => Hidden(g)' \/ GivenUp(i, g)
  <2>1. ASSUME NEW g \in Handle, Hidden(g), g.idx # h.idx PROVE Hidden(g)'
    BY <1>2, <2>1 DEF Hidden, CanRetire, SndLive
  <2> QED BY <1>3, <2>1
<1>5. ASSUME NEW s \in Sound, NEW g, g = H(s, snd'[s].gen), snd'[s].inuse, snd'[s].internal, ~snd'[s].retiring
      PROVE  /\ snd[s].inuse /\ snd[s].internal /\ ~snd[s].retiring /\ snd'[s].gen = snd[s].gen
             /\ g \in park \/ GivenUp(i, g) => g \in park'
  <2>1. s # h.idx /\ snd'[s] = snd[s]
    BY <1>2, <1>5
  <2>2. g # h
    BY <1>5, <2>1 DEF H
  <2> QED BY <1>5, <2>1, <2>2
<1> QED BY <1>4, <1>5 DEF PassedOn

\* A sound is parked.
LEMMA PassedPark ==
    ASSUME Shape, NEW i, NEW h \in Handle, SndLive(h), snd' = snd, park' = park \cup {h},
           Hidden(h) => GivenUp(i, h), \A g : GivenUp(i, g) => g = h
    PROVE  PassedOn(i)
<1>1. \A g \in Handle : Hidden(g) /\ g # h => Hidden(g)'
  BY DEF Hidden, CanRetire, SndLive
<1> QED BY <1>1 DEF PassedOn

\* push_sound_release, together with what its caller does to the slot.
LEMMA PassedRelease ==
    ASSUME Shape, PushOwned, NEW h \in Handle, NEW c, ReleasePush(h, c),
           Live(h) => slot'[h.idx].push = None,
           ~Live(h) => \A g : ~GivenUp(h.idx, g)
    PROVE  PassedOn(h.idx)
<1>1. CASE ~IsPush(h)
  <2>1. \A g : ~GivenUp(h.idx, g)
    BY <1>1 DEF IsPush, GivenUp, Pushing
  <2> QED BY <1>1, <2>1, PassedSame DEF ReleasePush
<1>2. CASE IsPush(h)
  <2>1. PICK ps : ps = slot[h.idx].push
    OBVIOUS
  <2>2. ps \in Handle /\ Pushing(h.idx) /\ Live(h) /\ h.idx \in Voice
    BY <1>2, <2>1, SlotTypes DEF IsPush, Live, Pushing
  <2>3. CanRetire(ps) /\ SndLive(ps)
    BY <2>1, <2>2 DEF PushOwned, Hidden, CanRetire
  <2>4. GivenUp(h.idx, ps) /\ \A g : GivenUp(h.idx, g) => g = ps
    BY <2>1, <2>2 DEF GivenUp, Pushing
  <2>5. \/ snd' = Retiring(snd, ps) /\ park' = park
        \/ snd' = snd /\ park' = park \cup {ps}
    BY <1>2, <2>1, <2>3 DEF ReleasePush, Parked
  <2> QED BY <2>2, <2>3, <2>4, <2>5, PassedRetire, PassedPark
<1> QED BY <1>1, <1>2

\* No slot is touched but for its flags.
LEMMA SlotsAlike ==
    ASSUME \A j \in Voice : CoreKept(j) PROVE OnlySlot(0) /\ \A i, h : ~GivenUp(i, h)
BY DEF OnlySlot, CoreKept, GivenUp, Pushing

LEMMA FlagsOnly ==
    ASSUME Shape, NEW v,
           \/ slot' = slot
           \/ \E p : slot' = [slot EXCEPT ![v].prio = p]
           \/ slot' = [slot EXCEPT ![v].stealing = FALSE]
    PROVE  \A j \in Voice : CoreKept(j)
<1>1. slot \in [Voice -> Slot]
  BY DEF Shape, TypeOK
<1> QED BY <1>1 DEF CoreKept, Slot

\* A call that neither holds a sound nor a slot.
LEMMA NothingHeld ==
    ASSUME ctl.s = None, ctl'.s = None, ctl'.pc # "push" PROVE CallOn
BY DEF CallOn

LEMMA NothingBound == ASSUME QuietCmds, app' = app PROVE ForeignBinds
BY DEF ForeignBinds, QuietCmds

-----------------------------------------------------------------------------
(* Calls that create nothing. *)

PushStepped == RoomKept' /\ \E i : PushStep(i)

LEMMA Unheld == ASSUME Shape, ctl.pc \notin {"push", "cut"} PROVE ctl.s = None
BY DEF Shape, ThreadsOK

LEMMA Roomy ==
    ASSUME ctl'.s = None, ctl'.pc # "retry" \/ ctl'.try \subseteq park' PROVE RoomKept'
BY DEF RoomKept

\* A step with nothing in hand that binds nothing.
LEMMA PlainStepped ==
    ASSUME Shape, ctl.pc \notin {"push", "cut"}, ctl'.s = None, ctl'.pc # "push",
           ctl'.pc # "retry" \/ ctl'.try \subseteq park', QuietCmds, app' = app,
           NEW i, OnlySlot(i), PassedOn(i)
    PROVE  PushStepped
BY Unheld, Roomy, NothingHeld, NothingBound DEF PushStepped, PushStep

LEMMA PlainPush ==
    ASSUME SlotsInv,
           \/ StopAll \/ \E h \in app : Stop(h)
           \/ \E h \in app, p \in Priorities : SetPriority(h, p)
           \/ Commit \/ BeginDrainEvents \/ DrainNotice \/ EndDrainEvents
    PROVE  PushStepped
<1>0. Shape /\ ctl \in Ctl
  BY SlotsUse DEF ControlShape
<1>1. QuietCmds
  BY QuietCalls DEF Quiet
<1>2. snd' = snd /\ park' = park /\ app' = app /\ ctl.pc \notin {"push", "cut"}
  BY DEF StopAll, Stop, SetPriority, Commit, BeginDrainEvents, DrainNotice, EndDrainEvents, TakeEvt, Call,
     ctlVars
<1>3. slot' = slot \/ \E v, p : slot' = [slot EXCEPT ![v].prio = p]
  BY DEF StopAll, Stop, SetPriority, Commit, BeginDrainEvents, DrainNotice, EndDrainEvents, ctlVars
<1>4. OnlySlot(0) /\ \A h : ~GivenUp(0, h)
  BY <1>0, <1>3, FlagsOnly, SlotsAlike
<1>5. PassedOn(0)
  BY <1>2, <1>4, PassedSame
<1>6. ctl.s = None
  BY <1>0, <1>2, Unheld
<1>7. ctl'.s = None /\ ctl'.pc # "push" /\ (ctl'.pc # "retry" \/ ctl'.try \subseteq park')
  <2>1. CASE StopAll \/ (\E h \in app : Stop(h)) \/ \E h \in app, p \in Priorities : SetPriority(h, p)
    BY <1>6, <2>1 DEF StopAll, Stop, SetPriority, Call, ctlVars
  <2>2. CASE Commit
    BY <1>2, <2>2 DEF Commit, Idle
  <2>3. CASE BeginDrainEvents
    BY <1>0, <1>6, <2>3 DEF BeginDrainEvents, Ctl
  <2>4. CASE DrainNotice
    BY <1>0, <1>6, <2>4 DEF DrainNotice, TakeEvt, Ctl
  <2>5. CASE EndDrainEvents
    BY <2>5 DEF EndDrainEvents, Idle
  <2> QED BY <2>1, <2>2, <2>3, <2>4, <2>5
<1> QED BY <1>0, <1>1, <1>2, <1>4, <1>5, <1>7, PlainStepped

LEMMA SlotsPut ==
    ASSUME Shape, slot' = slot PROVE OnlySlot(0) /\ \A h : ~GivenUp(0, h)
BY FlagsOnly, SlotsAlike

LEMMA LoadPush == ASSUME SlotsInv, NEW stream \in BOOLEAN, LoadSound(stream) PROVE PushStepped
<1>0. Shape /\ ControlShape
  BY SlotsUse
<1>1. QuietCmds
  BY QuietCalls DEF Quiet
<1>2. /\ park' = park /\ app' = app /\ ctl' = ctl /\ slot' = slot
      /\ ctl.pc = "idle"
  BY DEF LoadSound, Call
<1>3. ctl.s = None /\ OnlySlot(0) /\ \A h : ~GivenUp(0, h)
  BY <1>0, <1>2, Unheld, SlotsPut
<1>4. PassedOn(0)
  <2>1. Len(sfree) > 0
    BY <1>0 DEF LoadSound, AllocSound, ControlShape
  <2>2. PICK n \in Sound : n = Last(sfree) /\ ~snd[n].inuse
    BY <2>1, TopSoundFree
  <2>3. PICK r : /\ r = [gen |-> snd[n].gen + 1, inuse |-> TRUE, retiring |-> FALSE,
                         stream |-> stream, internal |-> FALSE]
                 /\ snd' = [snd EXCEPT ![n] = r]
    BY <2>2 DEF LoadSound, AllocSound
  <2> QED BY <1>0, <1>2, <1>3, <2>2, <2>3, PassedAlloc
<1> QED BY <1>0, <1>1, <1>2, <1>3, <1>4, PlainStepped

LEMMA UnloadPush == ASSUME SlotsInv, NEW s \in AppSounds, Unload(s) PROVE PushStepped
<1>0. Shape /\ ControlShape
  BY SlotsUse
<1>1. QuietCmds
  BY QuietCalls DEF Quiet
<1>2. /\ park' = park /\ app' = app /\ ctl' = ctl /\ slot' = slot /\ ctl.pc = "idle"
      /\ CanRetire(s) /\ snd' = Retiring(snd, s)
  BY DEF Unload, Call
<1>3. ctl.s = None /\ OnlySlot(0) /\ \A h : ~GivenUp(0, h)
  BY <1>0, <1>2, Unheld, SlotsPut
<1>4. s \in Handle /\ ~Hidden(s)
  <2>1. PICK n \in Sound : s = H(n, snd[n].gen) /\ ~snd[n].internal
    BY DEF AppSounds
  <2> QED BY <1>0, <2>1, SoundFields DEF Hidden, H
<1>5. PassedOn(0)
  BY <1>0, <1>2, <1>3, <1>4, PassedRetire
<1> QED BY <1>0, <1>1, <1>2, <1>3, <1>5, PlainStepped

LEMMA RetryPush == ASSUME SlotsInv, PushInv, NEW s \in ctl.try, RetryParked(s) PROVE PushStepped
<1>0. Shape /\ ControlShape /\ ctl \in Ctl
  BY SlotsUse DEF ControlShape
<1>1. QuietCmds
  BY QuietCalls DEF Quiet
<1>2. /\ app' = app /\ slot' = slot /\ ctl.pc = "retry" /\ ctl' = [ctl EXCEPT !.try = @ \ {s}]
  BY DEF RetryParked
<1>3. ctl.s = None /\ OnlySlot(0) /\ \A h : ~GivenUp(0, h)
  BY <1>0, <1>2, Unheld, SlotsPut
<1>4. s \in park /\ s \in Handle /\ ~Hidden(s) /\ ctl.try \subseteq park
  BY <1>0, <1>2, ParkTypes DEF PushInv, RoomKept, Hidden
<1>5. ctl'.s = None /\ ctl'.pc = "retry" /\ ctl'.try = ctl.try \ {s}
  BY <1>0, <1>2, <1>3 DEF Ctl
<1>6. \/ ~CanRetire(s) /\ park' = park \ {s} /\ snd' = snd
      \/ CanRetire(s) /\ park' = park \ {s} /\ snd' = Retiring(snd, s)
      \/ park' = park /\ snd' = snd
  BY DEF RetryParked
<1>7. PassedOn(0)
  <2>1. CASE ~CanRetire(s) /\ park' = park \ {s} /\ snd' = snd
    <3>1. \A h \in Handle : Hidden(h) => Hidden(h)'
      BY <2>1 DEF Hidden, CanRetire, SndLive
    <3>2. ASSUME NEW n \in Sound, NEW g, g = H(n, snd[n].gen), snd[n].inuse, ~snd[n].retiring
          PROVE  g # s
      BY <2>1, <3>2 DEF CanRetire, SndLive, H
    <3> QED BY <1>3, <2>1, <3>1, <3>2 DEF PassedOn
  <2>2. CASE CanRetire(s) /\ park' = park \ {s} /\ snd' = Retiring(snd, s)
    BY <1>0, <1>3, <1>4, <2>2, PassedRetire
  <2>3. CASE park' = park /\ snd' = snd
    BY <1>3, <2>3, PassedSame
  <2> QED BY <1>6, <2>1, <2>2, <2>3
<1>8. ctl'.try \subseteq park'
  BY <1>4, <1>5, <1>6
<1> QED BY <1>0, <1>1, <1>2, <1>3, <1>5, <1>7, <1>8, PlainStepped

LEMMA DrainRetiredPush == ASSUME SlotsInv, AckFindsItsSound, DrainRetired PROVE PushStepped
<1>0. Shape /\ ControlShape /\ ctl \in Ctl /\ "RETIRED" \in EvtTypes
  BY SlotsUse DEF ControlShape, EvtTypes
<1>1. QuietCmds
  BY QuietCalls DEF Quiet
<1>2. park' = park /\ app' = app /\ slot' = slot /\ TakeEvt("RETIRED") /\ ctl.pc = "drain"
  BY DEF DrainRetired, TakeEvt
<1>3. ctl.s = None /\ OnlySlot(0) /\ \A h : ~GivenUp(0, h)
  BY <1>0, <1>2, Unheld, SlotsPut
<1>4. ctl'.s = None /\ ctl'.pc = "drain"
  BY <1>0, <1>2, <1>3 DEF TakeEvt, Ctl
<1>5. PICK h \in Handle : h = Head(evt).h
  BY <1>0, <1>2, TakenEvt
<1>6. SndLive(h) /\ snd[h.idx].retiring /\ h.idx \in Sound
  <2>1. evt[1] = Head(evt) /\ evt[1].t = "RETIRED" /\ 1 \in 1 .. Len(evt)
    BY <1>0, <1>2, TakenEvt, RingTypes DEF EvtShift
  <2> QED BY <1>5, <2>1 DEF AckFindsItsSound, SndLive
<1>7. snd' = [snd EXCEPT ![h.idx].inuse = FALSE, ![h.idx].retiring = FALSE]
  BY <1>5, <1>6 DEF DrainRetired
<1>8. ~snd'[h.idx].inuse /\ \A s \in Sound : s # h.idx => snd'[s] = snd[s]
  BY <1>0, <1>6, <1>7 DEF ControlShape, SoundSlot
<1>9. PassedOn(0)
  <2>1. ASSUME NEW g \in Handle, Hidden(g) PROVE Hidden(g)'
    <3>1. g.idx \in Sound /\ g.idx # h.idx
      BY <1>6, <2>1 DEF Hidden, CanRetire, SndLive
    <3> QED BY <1>2, <1>8, <2>1, <3>1 DEF Hidden, CanRetire, SndLive
  <2> QED BY <1>2, <1>3, <1>8, <2>1 DEF PassedOn
<1> QED BY <1>0, <1>1, <1>2, <1>3, <1>4, <1>9, PlainStepped

\* The slot a live handle names is given back.
LEMMA GivenBack ==
    ASSUME Shape, NEW h \in Handle, Live(h),
           \/ slot' = [slot EXCEPT ![h.idx].inuse = FALSE, ![h.idx].push = None]
           \/ slot' = [slot EXCEPT ![h.idx].inuse = FALSE, ![h.idx].stealing = FALSE, ![h.idx].push = None]
    PROVE  OnlySlot(h.idx) /\ slot'[h.idx].push = None
<1>1. h.idx \in Voice /\ slot \in [Voice -> Slot]
  BY DEF Live, Shape, TypeOK
<1>2. slot'[h.idx].gen = slot[h.idx].gen /\ \A j \in Voice : j # h.idx => slot'[j] = slot[j]
  BY <1>1, SlotKept
<1>3. slot'[h.idx].push = None
  BY <1>1 DEF Slot
<1>4. slot[h.idx].gen <= slot'[h.idx].gen
  BY <1>1, <1>2, SlotTypes
<1> QED BY <1>2, <1>3, <1>4 DEF OnlySlot, CoreKept

LEMMA DestroyPush == ASSUME SlotsInv, PushInv, NEW h \in app, DestroySource(h) PROVE PushStepped
<1>0. Shape /\ h \in Handle
  BY SlotsUse DEF ControlShape
<1>1. QuietCmds
  BY QuietCalls DEF Quiet
<1>2. app' = app /\ ctl' = ctl /\ ctl.pc = "idle" /\ ReleasePush(h, DestroyCmd(h))
  BY DEF DestroySource, Call
<1>3. OnlySlot(h.idx) /\ (Live(h) => slot'[h.idx].push = None) /\ (~Live(h) => \A g : ~GivenUp(h.idx, g))
  <2>1. CASE Live(h)
    BY <1>0, <2>1, GivenBack DEF DestroySource
  <2>2. CASE ~Live(h)
    <3>1. slot' = slot
      BY <2>2 DEF DestroySource
    <3>2. \A j \in Voice : CoreKept(j)
      BY <3>1 DEF CoreKept
    <3> QED BY <2>2, <3>2, SlotsAlike DEF OnlySlot
  <2> QED BY <2>1, <2>2
<1>4. PassedOn(h.idx)
  BY <1>0, <1>2, <1>3, PassedRelease DEF PushInv
<1>5. ctl'.s = None /\ ctl'.pc = "idle" /\ ctl.pc \notin {"push", "cut"}
  BY <1>0, <1>2, Unheld
<1> QED BY <1>0, <1>1, <1>2, <1>3, <1>4, <1>5, PlainStepped

LEMMA DrainEndedPush == ASSUME SlotsInv, PushInv, DrainEnded PROVE PushStepped
<1>0. Shape /\ ctl \in Ctl /\ "ENDED" \in EvtTypes
  BY SlotsUse DEF ControlShape, EvtTypes
<1>1. QuietCmds
  BY QuietCalls DEF Quiet
<1>2. app' = app /\ ctl.pc = "drain" /\ TakeEvt("ENDED")
  BY DEF DrainEnded, TakeEvt
<1>3. PICK h \in Handle : h = Head(evt).h
  BY <1>0, <1>2, TakenEvt
<1>4. ReleasePush(h, cmd)
  BY <1>3 DEF DrainEnded
<1>5. OnlySlot(h.idx) /\ (Live(h) => slot'[h.idx].push = None) /\ (~Live(h) => \A g : ~GivenUp(h.idx, g))
  <2>1. CASE Live(h)
    <3>1. slot' = [slot EXCEPT ![h.idx].inuse = FALSE, ![h.idx].stealing = FALSE, ![h.idx].push = None]
      BY <1>3, <2>1 DEF DrainEnded
    <3> QED BY <1>0, <2>1, <3>1, GivenBack
  <2>2. CASE ~Live(h)
    <3>1. slot' = [slot EXCEPT ![h.idx].stealing = FALSE]
      BY <1>3, <2>2 DEF DrainEnded
    <3>2. \A j \in Voice : CoreKept(j)
      BY <1>0, <3>1, FlagsOnly
    <3> QED BY <2>2, <3>2, SlotsAlike DEF OnlySlot
  <2> QED BY <2>1, <2>2
<1>6. PassedOn(h.idx)
  BY <1>4, <1>5, <1>0, PassedRelease DEF PushInv
<1>7. ctl'.s = None /\ ctl'.pc = "drain"
  <2>1. ctl.s = None
    BY <1>0, <1>2, Unheld
  <2> QED BY <1>0, <1>2, <2>1 DEF TakeEvt, Ctl
<1> QED BY <1>0, <1>1, <1>2, <1>5, <1>6, <1>7, PlainStepped

-----------------------------------------------------------------------------
(* Creating a source. *)

\* What rt_source_create does up to the command it pushes: one free slot may be let or its
\* generation used up, the call goes on with the sound s, and little room is used.
Created(s) ==
    /\ \E i : OnlySlot(i) /\ \A h : ~GivenUp(i, h)
    /\ ctl'.s = s
    /\ \/ ctl'.pc = "cut"
       \/ /\ ctl'.pc = "push" /\ ctl'.h.idx \in Voice
          /\ slot'[ctl'.h.idx].push = None /\ slot[ctl'.h.idx].gen < ctl'.h.gen
    /\ Len(cmd') <= Len(cmd) + 1 /\ (ctl'.pc = "cut" => cmd' = cmd)

\* A free slot is let, and perhaps its let is undone at once.
LEMMA LetSlot ==
    ASSUME Shape, NEW i \in Voice, ~slot[i].inuse, slot'[i].push = None, slot[i].gen <= slot'[i].gen,
           \A j \in Voice : j # i => CoreKept(j)
    PROVE  OnlySlot(i) /\ \A h : ~GivenUp(i, h)
BY DEF OnlySlot, GivenUp, Pushing

LEMMA FromPoolCreated ==
    ASSUME SlotsInv, NEW s \in Handle, CreateFromPool(s) PROVE Created(s)
<1>0. Shape /\ ControlShape /\ VoicesExact /\ slot \in [Voice -> Slot]
  BY SlotsUse DEF ControlShape
<1>1. Len(free) > 0
  BY <1>0, Constants DEF CreateFromPool, ControlShape
<1>2. PICK i \in Voice : i = Last(free)
  BY <1>0, <1>1, TopLet
<1>3. /\ ~slot[i].inuse /\ slot[i].gen \in Nat /\ Let(i).gen = slot[i].gen + 1 /\ Let(i).push = None
      /\ H(i, slot[i].gen + 1).idx = i /\ H(i, slot[i].gen + 1).gen = slot[i].gen + 1
  BY <1>0, <1>1, <1>2, TopLet, PushFields
<1>4. /\ slot' = [slot EXCEPT ![i] = Let(i)] /\ cmd' = cmd
      /\ ctl' = [Idle EXCEPT !.pc = "push", !.h = H(i, slot[i].gen + 1), !.s = s]
  BY <1>2 DEF CreateFromPool
<1>5. slot'[i] = Let(i) /\ \A j \in Voice : j # i => slot'[j] = slot[j]
  BY <1>0, <1>4
<1>6. slot[i].gen < slot[i].gen + 1 /\ slot[i].gen <= slot'[i].gen
  BY <1>3, <1>5
<1>7. OnlySlot(i) /\ \A h : ~GivenUp(i, h)
  BY <1>0, <1>3, <1>5, <1>6, LetSlot DEF CoreKept
<1>8. ctl'.h = H(i, slot[i].gen + 1) /\ ctl'.pc = "push" /\ ctl'.s = s
  BY <1>4 DEF Idle
<1>9. Len(cmd') <= Len(cmd) + 1
  BY <1>0, <1>4, RingTypes
<1> QED BY <1>3, <1>4, <1>5, <1>6, <1>7, <1>8, <1>9 DEF Created

LEMMA StealCreated ==
    ASSUME SlotsInv, NEW s \in Handle, CreateBySteal(s) PROVE Created(s)
<1>0. Shape /\ ControlShape /\ VoicesExact /\ slot \in [Voice -> Slot] /\ Len(cmd) \in Nat
  BY SlotsUse, RingTypes DEF ControlShape
<1>1. PICK v \in Voice : CreateBySteal(s)!2!(v)
  BY DEF CreateBySteal
<1>2. PICK vh : vh = H(v, slot[v].gen)
  OBVIOUS
<1>3. CASE free = <<>>
  <2>1. slot' = slot /\ cmd' = cmd /\ ctl' = [Idle EXCEPT !.pc = "cut", !.vic = vh, !.s = s]
    BY <1>1, <1>2, <1>3
  <2>2. ctl'.pc = "cut" /\ ctl'.s = s
    BY <2>1 DEF Idle
  <2>3. Len(cmd') <= Len(cmd) + 1
    BY <1>0, <2>1
  <2>4. \E i : OnlySlot(i) /\ \A h : ~GivenUp(i, h)
    BY <1>0, <2>1, SlotsPut
  <2> QED BY <2>1, <2>2, <2>3, <2>4 DEF Created
<1>4. CASE free # <<>>
  <2>0. Len(free) > 0
    BY <1>0, <1>4 DEF ControlShape
  <2>1. PICK i \in Voice : i = Last(free)
    BY <1>0, <2>0, TopLet
  <2>2. /\ ~slot[i].inuse /\ slot[i].gen \in Nat
        /\ Let(i).gen = slot[i].gen + 1 /\ Unlet(Let(i)).gen = slot[i].gen + 1
        /\ Let(i).push = None /\ Unlet(Let(i)).push = None
        /\ H(i, slot[i].gen + 1).idx = i /\ H(i, slot[i].gen + 1).gen = slot[i].gen + 1
    BY <1>0, <2>0, <2>1, TopLet, PushFields
  <2>3. v # i
    BY <1>1, <2>2 DEF IsVictim, Stealable
  <2>4. CASE CmdRoom(1)
    <3>1. /\ slot' = [slot EXCEPT ![i] = Let(i), ![v].stealing = TRUE]
          /\ ctl' = [Idle EXCEPT !.pc = "push", !.h = H(i, slot[i].gen + 1), !.s = s]
          /\ cmd' = Append(cmd, VCmd("STEAL", vh))
      BY <1>1, <1>2, <1>4, <2>1, <2>4
    <3>2. /\ \A r \in Slot : LET q == [r EXCEPT !.stealing = TRUE] IN q.gen = r.gen /\ q.inuse = r.inuse /\ q.push = r.push
          /\ slot[v] \in Slot
      BY <1>0 DEF Slot
    <3>3. slot'[i] = Let(i) /\ \A j \in Voice : j # i => CoreKept(j)
      <4>1. slot'[v] = [slot[v] EXCEPT !.stealing = TRUE]
        BY <1>0, <2>3, <3>1
      <4>2. slot'[i] = Let(i) /\ \A j \in Voice : j # i /\ j # v => slot'[j] = slot[j]
        BY <1>0, <2>3, <3>1
      <4>3. CoreKept(v)
        BY <3>2, <4>1 DEF CoreKept
      <4> QED BY <4>2, <4>3 DEF CoreKept
    <3>4. slot[i].gen < slot[i].gen + 1 /\ slot[i].gen <= slot'[i].gen
      BY <2>2, <3>3
    <3>5. OnlySlot(i) /\ \A h : ~GivenUp(i, h)
      BY <1>0, <2>2, <3>3, <3>4, LetSlot
    <3>6. ctl'.h = H(i, slot[i].gen + 1) /\ ctl'.pc = "push" /\ ctl'.s = s
      BY <3>1 DEF Idle
    <3>7. Len(cmd') = Len(cmd) + 1
      <4>1. cmd \in Seq(Cmd)
        BY <1>0 DEF Shape, TypeOK
      <4> QED BY <3>1, <4>1
    <3>8. Len(cmd') <= Len(cmd) + 1
      BY <1>0, <3>7
    <3> QED BY <2>2, <3>3, <3>4, <3>5, <3>6, <3>8 DEF Created
  <2>5. CASE ~CmdRoom(1)
    <3>1. /\ slot' = [slot EXCEPT ![i] = Unlet(Let(i))] /\ cmd' = cmd
          /\ ctl' = [Idle EXCEPT !.pc = "cut", !.vic = vh, !.s = s]
      BY <1>1, <1>2, <1>4, <2>1, <2>5
    <3>2. slot'[i] = Unlet(Let(i)) /\ \A j \in Voice : j # i => slot'[j] = slot[j]
      BY <1>0, <3>1
    <3>3. slot[i].gen <= slot'[i].gen
      BY <2>2, <3>2
    <3>4. OnlySlot(i) /\ \A h : ~GivenUp(i, h)
      BY <1>0, <2>2, <3>2, <3>3, LetSlot DEF CoreKept
    <3>5. ctl'.pc = "cut" /\ ctl'.s = s
      BY <3>1 DEF Idle
    <3>6. Len(cmd') <= Len(cmd) + 1
      BY <1>0, <3>1
    <3> QED BY <3>1, <3>4, <3>5, <3>6 DEF Created
  <2> QED BY <2>4, <2>5
<1> QED BY <1>3, <1>4

LEMMA CreateSourcePush == ASSUME SlotsInv, CreateSource PROVE PushStepped
<1>0. Shape
  BY SlotsUse
<1>1. QuietCmds
  BY QuietCalls DEF Quiet
<1>2. snd' = snd /\ park' = park /\ app' = app /\ ctl.pc = "idle"
  BY DEF CreateSource, Call
<1>3. Created(None)
  BY FromPoolCreated, StealCreated, Constants DEF CreateSource
<1>4. PICK i : OnlySlot(i) /\ \A h : ~GivenUp(i, h)
  BY <1>3 DEF Created
<1>5. PassedOn(i)
  BY <1>2, <1>4, PassedSame
<1>6. ctl.s = None
  BY <1>0, <1>2, Unheld
<1>7. CallOn
  BY <1>1, <1>2, <1>3, <1>6 DEF CallOn, Created
<1>8. RoomKept'
  BY <1>3, Roomy DEF Created
<1> QED BY <1>1, <1>2, <1>4, <1>5, <1>7, <1>8, NothingBound DEF PushStepped, PushStep

LEMMA CreateStreamPush == ASSUME SlotsInv, PushInv, CreateStream PROVE PushStepped
<1>0. Shape /\ ControlShape /\ Len(cmd) \in Nat /\ cdone \in Nat /\ CmdCap \in Nat
  BY SlotsUse, ShapeParts, RingTypes, LenCmd, Constants
<1>1. QuietCmds
  BY QuietCalls DEF Quiet
<1>2. park' = park /\ app' = app /\ ctl.pc = "idle" /\ cdone' = cdone /\ CmdRoom(4)
  BY DEF CreateStream, Call, StreamCmds
<1>3. ctl.s = None
  BY <1>0, <1>2, Unheld
<1>4. Len(sfree) > 0
  BY <1>0 DEF CreateStream, ControlShape
<1>5. PICK n \in Sound : n = Last(sfree) /\ ~snd[n].inuse
  BY <1>4, TopSoundFree
<1>6. PICK sh \in Handle : sh = H(n, snd[n].gen + 1)
  BY <1>0, SoundFields
<1>7. sh.idx = n /\ sh.gen = snd[n].gen + 1 /\ snd[n].gen \in Nat /\ snd[n].gen < sh.gen
  <2>1. sh.idx = n /\ sh.gen = snd[n].gen + 1 /\ snd[n].gen \in Nat
    BY <1>0, <1>6, SoundFields DEF H
  <2> QED BY <2>1
<1>8. \/ AllocSound(TRUE, TRUE) /\ (CreateFromPool(sh) \/ CreateBySteal(sh))
      \/ /\ snd' = [snd EXCEPT ![n] = [gen |-> sh.gen, inuse |-> TRUE, retiring |-> TRUE,
                                       stream |-> TRUE, internal |-> TRUE]]
         /\ UNCHANGED <<slot, ctl>>
  BY <1>5, <1>6 DEF CreateStream
<1>9. CASE AllocSound(TRUE, TRUE) /\ (CreateFromPool(sh) \/ CreateBySteal(sh))
  <2>1. Created(sh)
    BY <1>6, <1>9, FromPoolCreated, StealCreated
  <2>2. PICK i : OnlySlot(i) /\ \A h : ~GivenUp(i, h)
    BY <2>1 DEF Created
  <2>3. PICK r : /\ r = [gen |-> snd[n].gen + 1, inuse |-> TRUE, retiring |-> FALSE,
                         stream |-> TRUE, internal |-> TRUE]
                 /\ snd' = [snd EXCEPT ![n] = r]
    BY <1>5, <1>9 DEF AllocSound
  <2>4. ctl'.s = H(n, r.gen)
    BY <1>6, <2>1, <2>3 DEF Created
  <2>5. PassedOn(i)
    BY <1>0, <1>2, <1>5, <2>2, <2>3, <2>4, PassedAlloc
  <2>6. NewSound(sh)
    <3>1. snd'[n] = r
      BY <1>0, <2>3 DEF ControlShape
    <3>2. sh \notin park
      <4>1. sh \in park => sh.gen <= snd[sh.idx].gen
        BY DEF PushInv, PushOwned
      <4> QED BY <1>7, <4>1
    <3>3. Hidden(sh)'
      BY <1>2, <1>7, <2>3, <3>1, <3>2 DEF Hidden, CanRetire, SndLive
    <3> QED BY <1>7, <3>3 DEF NewSound
  <2>7. CallOn
    BY <1>1, <1>2, <1>3, <2>1, <2>6 DEF CallOn, Created
  <2>8. RoomKept'
    <3>1. ctl'.pc = "cut" => CmdRoom(4)'
      BY <1>2, <2>1 DEF Created, CmdRoom
    <3>2. CmdRoom(2)'
      <4>1. PICK m : m = Len(cmd')
        OBVIOUS
      <4>2. m \in Nat /\ m <= Len(cmd) + 1
        BY <1>1, <2>1, <4>1 DEF Created, QuietCmds, CmdGrown
      <4>3. m + cdone + 2 <= CmdCap
        BY <1>0, <1>2, <4>2 DEF CmdRoom
      <4> QED BY <1>2, <4>1, <4>3 DEF CmdRoom
    <3> QED BY <2>1, <3>1, <3>2 DEF RoomKept, Created
  <2> QED BY <1>1, <1>2, <2>2, <2>5, <2>7, <2>8, NothingBound DEF PushStepped, PushStep
<1>10. CASE /\ snd' = [snd EXCEPT ![n] = [gen |-> sh.gen, inuse |-> TRUE, retiring |-> TRUE,
                                          stream |-> TRUE, internal |-> TRUE]]
            /\ UNCHANGED <<slot, ctl>>
  <2>1. OnlySlot(0) /\ \A h : ~GivenUp(0, h)
    BY <1>0, <1>10, SlotsPut
  <2>2. PICK r : /\ r = [gen |-> sh.gen, inuse |-> TRUE, retiring |-> TRUE, stream |-> TRUE, internal |-> TRUE]
                 /\ snd' = [snd EXCEPT ![n] = r]
    BY <1>10
  <2>3. PassedOn(0)
    BY <1>0, <1>2, <1>5, <2>1, <2>2, PassedAlloc
  <2> QED BY <1>0, <1>1, <1>2, <1>3, <1>10, <2>1, <2>3, PlainStepped
<1> QED BY <1>8, <1>9, <1>10

-----------------------------------------------------------------------------
(* The hard cut, and the calls that bind a sound. *)

LEMMA ReleaseLength ==
    ASSUME Shape, NEW h \in Handle, ReleasePush(h, DestroyCmd(h)) PROVE Len(cmd') <= Len(cmd) + 2
<1>1. PICK a : a = VCmd("DESTROY", h)
  OBVIOUS
<1>2. a \in Cmd
  BY <1>1, PlainCmd, QuietTypes
<1>3. PICK b : b = MkCmd("RETIRE", None, slot[h.idx].push, FALSE)
  OBVIOUS
<1>4. IsPush(h) => b \in Cmd
  <2>1. IsPush(h) => slot[h.idx].push \in Handle
    BY SlotTypes DEF IsPush, Live
  <2> QED BY <1>3, <2>1, RetireCmd
<1>5. cmd' = Append(cmd, a) \/ (IsPush(h) /\ cmd' = Append(Append(cmd, a), b))
  BY <1>1, <1>3 DEF ReleasePush, DestroyCmd
<1>6. cmd \in Seq(Cmd) /\ Len(cmd) \in Nat
  BY DEF Shape, TypeOK
<1>7. CASE cmd' = Append(cmd, a)
  BY <1>2, <1>6, <1>7
<1>8. CASE IsPush(h) /\ cmd' = Append(Append(cmd, a), b)
  <2>1. Append(cmd, a) \in Seq(Cmd) /\ Len(Append(cmd, a)) = Len(cmd) + 1
    BY <1>2, <1>6
  <2>2. PICK q \in Seq(Cmd) : q = Append(cmd, a) /\ Len(q) = Len(cmd) + 1
    BY <2>1
  <2>3. Len(Append(q, b)) = Len(q) + 1
    BY <1>4, <1>8, <2>2
  <2> QED BY <1>6, <1>8, <2>2, <2>3
<1> QED BY <1>5, <1>7, <1>8

LEMMA CutRoom ==
    ASSUME Shape, RoomKept, ctl.pc = "cut", ctl.s # None
    PROVE  CmdRoom(4) /\ CmdRoom(1)
<1>1. Len(cmd) \in Nat /\ cdone \in Nat /\ CmdCap \in Nat
  BY ShapeParts, RingTypes, LenCmd, Constants
<1> QED BY <1>1 DEF RoomKept, CmdRoom

LEMMA CreateCutPush == ASSUME SlotsInv, PushInv, CreateCut PROVE PushStepped
<1>0. /\ Shape /\ ControlShape /\ VoicesExact /\ slot \in [Voice -> Slot]
      /\ ctl \in Ctl /\ ctl.vic \in Handle /\ ctl.s \in Handle /\ ctl.pc = "cut" /\ Live(ctl.vic)
      /\ Len(cmd) \in Nat /\ cdone \in Nat /\ CmdCap \in Nat
  BY SlotsUse, ShapeParts, RingTypes, LenCmd, Constants DEF ControlShape, Ctl, CallHoldsSlots, CreateCut
<1>1. QuietCmds
  BY QuietCalls DEF Quiet
<1>2. app' = app /\ cdone' = cdone
  BY DEF CreateCut
<1>3. PICK v \in Voice : v = ctl.vic.idx
  BY <1>0 DEF Live
<1>4. \A h : LET c == [ctl EXCEPT !.pc = "push", !.h = h] IN c.pc = "push" /\ c.h = h /\ c.s = ctl.s
  BY <1>0 DEF Ctl
<1>5. CASE /\ ReleasePush(ctl.vic, DestroyCmd(ctl.vic))
           /\ slot' = [slot EXCEPT ![v] = Let(v)]
           /\ ctl' = [ctl EXCEPT !.pc = "push", !.h = H(v, slot[v].gen + 1)]
  <2>1. slot'[v] = Let(v) /\ (\A j \in Voice : j # v => slot'[j] = slot[j])
    BY <1>0, <1>5
  <2>2. Let(v).gen = slot[v].gen + 1 /\ slot[v].gen \in Nat /\ Let(v).push = None
    BY <1>0, LetFields, SlotTypes, PushFields
  <2>3. slot[v].gen <= slot'[v].gen /\ slot[v].gen < slot[v].gen + 1
    BY <2>1, <2>2
  <2>4. OnlySlot(v)
    BY <2>1, <2>2, <2>3 DEF OnlySlot, CoreKept
  <2>5. PassedOn(v)
    BY <1>0, <1>3, <1>5, <2>1, <2>2, PassedRelease DEF PushInv
  <2>6. ctl'.pc = "push" /\ ctl'.s = ctl.s /\ ctl'.h.idx = v /\ ctl'.h.gen = slot[v].gen + 1
    BY <1>4, <1>5 DEF H
  <2>7. CallOn
    BY <1>1, <1>2, <2>1, <2>2, <2>3, <2>6 DEF CallOn
  <2>8. RoomKept'
    <3>1. PICK m : m = Len(cmd')
      OBVIOUS
    <3>2. m <= Len(cmd) + 2
      BY <1>0, <1>5, <3>1, ReleaseLength
    <3>3. m \in Nat
      BY <1>1, <1>5, <3>1, <1>0, ReleaseQuiet, AddedTwo DEF QuietCmds, CmdGrown
    <3>4. ctl.s # None => m + cdone + 2 <= CmdCap
      BY <1>0, <3>2, <3>3, CutRoom DEF CmdRoom, PushInv
    <3> QED BY <1>2, <2>6, <3>1, <3>4 DEF RoomKept, CmdRoom
  <2> QED BY <1>1, <1>2, <2>4, <2>5, <2>7, <2>8, NothingBound DEF PushStepped, PushStep
<1>6. CASE /\ ~CmdRoom(1) /\ free # <<>> /\ UNCHANGED <<snd, park>>
           /\ slot' = [slot EXCEPT ![Last(free)] = Let(Last(free))]
           /\ ctl' = [ctl EXCEPT !.pc = "push", !.h = H(Last(free), slot[Last(free)].gen + 1)]
  <2>0. ctl.s = None
    BY <1>0, <1>6, CutRoom DEF PushInv
  <2>1. Len(free) > 0
    BY <1>0, <1>6 DEF ControlShape
  <2>2. PICK i \in Voice : i = Last(free)
    BY <1>0, <2>1, TopLet
  <2>3. /\ ~slot[i].inuse /\ slot[i].gen \in Nat /\ Let(i).gen = slot[i].gen + 1 /\ Let(i).push = None
        /\ H(i, slot[i].gen + 1).idx = i /\ H(i, slot[i].gen + 1).gen = slot[i].gen + 1
    BY <1>0, <2>1, <2>2, TopLet, PushFields
  <2>4. slot'[i] = Let(i) /\ \A j \in Voice : j # i => slot'[j] = slot[j]
    BY <1>0, <1>6, <2>2
  <2>5. slot[i].gen < slot[i].gen + 1 /\ slot[i].gen <= slot'[i].gen
    BY <2>3, <2>4
  <2>6. OnlySlot(i) /\ \A h : ~GivenUp(i, h)
    BY <1>0, <2>3, <2>4, <2>5, LetSlot DEF CoreKept
  <2>7. PassedOn(i)
    BY <1>6, <2>6, PassedSame
  <2>8. ctl'.pc = "push" /\ ctl'.s = None /\ ctl'.h = H(i, slot[i].gen + 1)
    BY <1>4, <1>6, <2>0, <2>2
  <2>9. CallOn
    BY <1>1, <1>2, <2>0, <2>3, <2>4, <2>5, <2>8 DEF CallOn
  <2>10. RoomKept'
    BY <2>8, Roomy
  <2> QED BY <1>1, <1>2, <2>6, <2>7, <2>9, <2>10, NothingBound DEF PushStepped, PushStep
<1>7. CASE ~CmdRoom(1) /\ ctl' = Idle /\ UNCHANGED <<slot, snd, park>>
  <2>0. ctl.s = None
    BY <1>0, <1>7, CutRoom DEF PushInv
  <2>1. ctl'.pc = "idle" /\ ctl'.s = None
    BY <1>7 DEF Idle
  <2>2. OnlySlot(0) /\ \A h : ~GivenUp(0, h)
    BY <1>0, <1>7, SlotsPut
  <2>3. PassedOn(0)
    BY <1>7, <2>2, PassedSame
  <2>4. RoomKept' /\ CallOn
    BY <2>0, <2>1, Roomy, NothingHeld
  <2> QED BY <1>1, <1>2, <2>2, <2>3, <2>4, NothingBound DEF PushStepped, PushStep
<1>8. \/ /\ ReleasePush(ctl.vic, DestroyCmd(ctl.vic))
         /\ slot' = [slot EXCEPT ![v] = Let(v)]
         /\ ctl' = [ctl EXCEPT !.pc = "push", !.h = H(v, slot[v].gen + 1)]
      \/ /\ ~CmdRoom(1) /\ free # <<>> /\ UNCHANGED <<snd, park>>
         /\ slot' = [slot EXCEPT ![Last(free)] = Let(Last(free))]
         /\ ctl' = [ctl EXCEPT !.pc = "push", !.h = H(Last(free), slot[Last(free)].gen + 1)]
      \/ ~CmdRoom(1) /\ ctl' = Idle /\ UNCHANGED <<slot, snd, park>>
  BY <1>3 DEF CreateCut
<1> QED BY <1>5, <1>6, <1>7, <1>8

\* What the commands of a call name is known to the client, and no push source or its sound.
Foreign(c) == SourceKnown(c.v)' /\ \A i \in Voice : Pushing(i)' => c.v # SlotHandle(i)' /\ c.s # slot'[i].push

LEMMA AppSoundHeard ==
    ASSUME Shape, PushOwned, NEW s \in AppSounds, NEW i \in Voice, Pushing(i)
    PROVE  s # slot[i].push
<1>1. PICK n \in Sound : s = H(n, snd[n].gen) /\ ~snd[n].internal
  BY DEF AppSounds
<1>2. s.idx = n
  BY <1>1 DEF H
<1> QED BY <1>1, <1>2 DEF PushOwned, Hidden

LEMMA BindCallPush ==
    ASSUME SlotsInv, PushInv, NEW h \in app, NEW s \in AppSounds, Play(h, s) \/ Queue(h, s)
    PROVE  PushStepped
<1>0. Shape /\ ControlShape /\ h \in Handle
  BY SlotsUse DEF ControlShape
<1>1. s \in Handle
  BY <1>0, SoundFields DEF AppSounds
<1>2. PICK t \in Binds : /\ cmd' = cmd \/ cmd' = Append(cmd, MkCmd(t, h, s, FALSE))
                         /\ ~IsPush(h)
  BY DEF Play, Queue, Push1, Binds
<1>3. UNCHANGED <<slot, snd, park, app, ctl>> /\ ctl.pc = "idle"
  BY DEF Play, Queue, Call, ctlVars
<1>4. PICK c : c = MkCmd(t, h, s, FALSE)
  OBVIOUS
<1>5. c \in Cmd /\ c.v = h /\ c.s = s
  <2>1. t \in CmdTypes
    BY DEF CmdTypes, Binds
  <2>2. c \in Cmd
    BY <1>0, <1>1, <1>4, <2>1, CmdType
  <2> QED BY <1>4, <2>2 DEF MkCmd
<1>6. Foreign(c)
  <2>1. SourceKnown(c.v)'
    BY <1>3, <1>5 DEF PushInv, PushNamed, SourceKnown
  <2>2. ASSUME NEW i \in Voice, Pushing(i)' PROVE h # H(i, slot'[i].gen) /\ s # slot'[i].push
    <3>1. Pushing(i)
      BY <1>3, <2>2 DEF Pushing
    <3>2. h # H(i, slot[i].gen)
      BY <1>2, <3>1 DEF IsPush, Live, Pushing, H
    <3> QED BY <1>0, <1>3, <3>1, <3>2, AppSoundHeard DEF PushInv
  <2> QED BY <1>5, <2>1, <2>2 DEF Foreign, SlotHandle
<1>7. ForeignBinds
  <2>1. CASE cmd' = cmd
    BY <1>0, <1>3, <2>1, SameCmds DEF ForeignBinds, NewBind
  <2>2. CASE cmd' = Append(cmd, c)
    BY <1>0, <1>3, <1>5, <1>6, <2>2, AddedOne DEF ForeignBinds, NewBind, Foreign
  <2> QED BY <1>2, <1>4, <2>1, <2>2
<1>8. OnlySlot(0) /\ \A g : ~GivenUp(0, g)
  BY <1>0, <1>3, SlotsPut
<1>9. PassedOn(0)
  BY <1>3, <1>8, PassedSame
<1>10. RoomKept' /\ CallOn
  BY <1>0, <1>3, Unheld, Roomy, NothingHeld
<1> QED BY <1>7, <1>8, <1>9, <1>10 DEF PushStepped, PushStep

LEMMA PlayOneshotPush ==
    ASSUME SlotsInv, PushInv, NEW s \in AppSounds, PlayOneshot(s) PROVE PushStepped
<1>0. Shape /\ ControlShape /\ VoicesExact /\ slot \in [Voice -> Slot]
  BY SlotsUse DEF ControlShape
<1>1. Len(free) > 0
  BY <1>0, Constants DEF PlayOneshot, ControlShape
<1>2. PICK i \in Voice : i = Last(free)
  BY <1>0, <1>1, TopLet
<1>3. /\ ~slot[i].inuse /\ slot[i].gen \in Nat /\ Let(i).gen = slot[i].gen + 1 /\ Let(i).push = None
      /\ H(i, slot[i].gen + 1) \in Handle
      /\ H(i, slot[i].gen + 1).idx = i /\ H(i, slot[i].gen + 1).gen = slot[i].gen + 1
  BY <1>0, <1>1, <1>2, TopLet, PushFields
<1>4. PICK h \in Handle : h = H(i, slot[i].gen + 1)
  BY <1>3
<1>5. slot' = [slot EXCEPT ![i] = Let(i)] /\ UNCHANGED <<snd, park, app, ctl>> /\ ctl.pc = "idle"
  BY <1>2 DEF PlayOneshot, Call
<1>6. slot'[i] = Let(i) /\ \A j \in Voice : j # i => slot'[j] = slot[j]
  BY <1>0, <1>5
<1>7. slot[i].gen <= slot'[i].gen
  BY <1>3, <1>6
<1>8. OnlySlot(i) /\ \A g : ~GivenUp(i, g)
  BY <1>0, <1>3, <1>6, <1>7, LetSlot DEF CoreKept
<1>9. PassedOn(i)
  BY <1>5, <1>8, PassedSame
<1>10. RoomKept' /\ CallOn
  BY <1>0, <1>5, Unheld, Roomy, NothingHeld
<1>11. s \in Handle
  BY <1>0, SoundFields DEF AppSounds
<1>12. PICK a, b, c : a = VCmd("CREATE", h) /\ b = VCmd("PARAM", h) /\ c = MkCmd("PLAY", h, s, TRUE)
  OBVIOUS
<1>13. a \in Cmd /\ b \in Cmd /\ c \in Cmd
  <2>1. "CREATE" \in CmdTypes /\ "PARAM" \in CmdTypes /\ "PLAY" \in CmdTypes
    BY DEF CmdTypes
  <2> QED BY <1>11, <1>12, <2>1, CmdType, Constants
<1>14. a.t \notin Binds /\ b.t \notin Binds /\ c.v = h /\ c.s = s
  BY <1>12 DEF VCmd, MkCmd, Binds
<1>15. PICK w \in Seq(Cmd) : w = <<a, b, b, c>>
  <2>1. <<a, b, b, c>> \in Seq(Cmd)
    BY <1>13
  <2> QED BY <2>1
<1>16. cmd' = cmd \o w
  BY <1>2, <1>4, <1>12, <1>15 DEF PlayOneshot
<1>17. \A k : NewCmdAt(k) => \E m \in 1 .. Len(w) : k = Len(cmd) + m /\ cmd'[k] = w[m]
  BY <1>0, <1>16, AddedCmds
<1>18. \A m \in 1 .. Len(w) : w[m].t \in Binds => w[m] = c
  BY <1>14, <1>15
<1>19. Foreign(c)
  <2>1. SourceKnown(c.v)'
    BY <1>3, <1>4, <1>6, <1>14 DEF SourceKnown
  <2>2. ASSUME NEW j \in Voice, Pushing(j)' PROVE h # H(j, slot'[j].gen) /\ s # slot'[j].push
    <3>1. j # i /\ Pushing(j)
      BY <1>3, <1>6, <2>2 DEF Pushing
    <3>2. h # H(j, slot[j].gen)
      BY <1>3, <1>4, <3>1 DEF H
    <3>3. s # slot[j].push
      BY <1>0, <3>1, AppSoundHeard DEF PushInv
    <3> QED BY <1>6, <3>1, <3>2, <3>3
  <2> QED BY <1>14, <2>1, <2>2 DEF Foreign, SlotHandle
<1>20. ForeignBinds
  <2>1. \A k : NewBind(k) => cmd'[k] = c
    BY <1>17, <1>18 DEF NewBind
  <2> QED BY <1>5, <1>19, <2>1 DEF ForeignBinds, Foreign
<1> QED BY <1>8, <1>9, <1>10, <1>20 DEF PushStepped, PushStep

-----------------------------------------------------------------------------
(* CMD_SRC_CREATE and the play behind it. *)

LEMMA PushRoom ==
    ASSUME Shape, RoomKept, ctl.pc = "push", ctl.s # None PROVE CmdRoom(1) /\ CmdRoom(2)
<1>1. Len(cmd) \in Nat /\ cdone \in Nat /\ CmdCap \in Nat
  BY ShapeParts, RingTypes, LenCmd, Constants
<1> QED BY <1>1 DEF RoomKept, CmdRoom

\* Where a create is about to push its command, the slot is let and has no push sound yet.
LEMMA PushingSlot ==
    ASSUME SlotsInv, PushOwned, CreatePush
    PROVE  /\ ctl.h.idx \in Voice /\ slot[ctl.h.idx].inuse /\ slot[ctl.h.idx].push = None
           /\ ctl.h = SlotHandle(ctl.h.idx) /\ ctl.pc = "push" /\ slot \in [Voice -> Slot]
<1>1. /\ ctl.pc = "push" /\ Live(ctl.h) /\ slot \in [Voice -> Slot] /\ ctl.h \in Handle
      /\ Shape
  BY SlotsUse DEF CreatePush, CallHoldsSlots, ControlShape, Ctl
<1>2. ctl.h.idx \in Voice /\ slot[ctl.h.idx].inuse /\ slot[ctl.h.idx].gen = ctl.h.gen
  BY <1>1 DEF Live
<1>3. ctl.h = SlotHandle(ctl.h.idx)
  <2>1. SlotHandle(ctl.h.idx) \in Handle /\ SlotHandle(ctl.h.idx).idx = ctl.h.idx /\ SlotHandle(ctl.h.idx).gen = ctl.h.gen
    BY <1>1, <1>2, SlotTypes DEF SlotHandle, H
  <2> QED BY <1>1, <2>1, SameHandle
<1> QED BY <1>1, <1>2, <1>3 DEF PushOwned

LEMMA CreatePushPlain ==
    ASSUME SlotsInv, PushInv, CreatePush, ctl.s = None PROVE PushStepped
<1>0. Shape /\ PushOwned
  BY SlotsUse DEF PushInv
<1>1. PICK i \in Voice : i = ctl.h.idx
  BY <1>0, PushingSlot
<1>2. /\ slot[i].inuse /\ slot[i].push = None /\ ctl.h = SlotHandle(i) /\ slot \in [Voice -> Slot]
      /\ slot[i].gen \in Nat /\ slot[i] \in Slot
  BY <1>0, <1>1, PushingSlot, SlotTypes
<1>3. \/ slot' = [slot EXCEPT ![i].push = None] /\ app' = app \cup {ctl.h}
      \/ slot' = [slot EXCEPT ![i] = Unlet(slot[i])] /\ app' = app
  BY <1>1 DEF CreatePush
<1>4. /\ slot'[i].push = None /\ slot'[i].gen = slot[i].gen
      /\ \A j \in Voice : j # i => slot'[j] = slot[j]
  <2>1. CASE slot' = [slot EXCEPT ![i].push = None]
    BY <1>2, <2>1 DEF Slot
  <2>2. CASE slot' = [slot EXCEPT ![i] = Unlet(slot[i])]
    <3>1. slot'[i] = Unlet(slot[i]) /\ \A j \in Voice : j # i => slot'[j] = slot[j]
      BY <1>2, <2>2
    <3>2. \A r \in Slot : Unlet(r).gen = r.gen /\ Unlet(r).push = r.push
      BY DEF Slot, Unlet
    <3> QED BY <1>2, <3>1, <3>2
  <2> QED BY <1>3, <2>1, <2>2
<1>5. OnlySlot(i) /\ \A h : ~GivenUp(i, h)
  <2>1. slot[i].gen <= slot'[i].gen
    BY <1>2, <1>4
  <2> QED BY <1>2, <1>4, <2>1 DEF OnlySlot, CoreKept, GivenUp, Pushing
<1>6. snd' = snd /\ park' = park /\ ctl'.pc = "idle" /\ ctl'.s = None
  BY DEF CreatePush, Idle
<1>7. PassedOn(i)
  BY <1>5, <1>6, PassedSame
<1>8. RoomKept' /\ CallOn
  BY <1>6, Roomy, NothingHeld
<1>9. QuietCmds
  <2>1. PICK a \in Cmd : a.t = "CREATE" /\ (cmd' = cmd \/ cmd' = Append(cmd, a))
    BY <1>0, CreatePushCmds
  <2> QED BY <1>0, <2>1, OneQuiet DEF Binds
<1>10. ForeignBinds
  <2>1. \A h \in app' : h \in app \/ SourceKnown(h)'
    <3>1. PICK g : g = ctl.h
      OBVIOUS
    <3>2. SourceKnown(g)'
      BY <1>2, <1>4, <3>1 DEF SourceKnown, SlotHandle, H
    <3> QED BY <1>3, <3>1, <3>2
  <2> QED BY <1>9, <2>1 DEF ForeignBinds, QuietCmds
<1> QED BY <1>5, <1>7, <1>8, <1>10 DEF PushStepped, PushStep

\* rt_source_create_stream lands whole.
LEMMA CreatePushWhole ==
    ASSUME SlotsInv, Shape', PushInv, CreatePush, ctl.s # None PROVE PushInv'
<1>0. Shape /\ PushOwned /\ PushNamed /\ InternalSoundOwned
  BY SlotsUse DEF PushInv
<1>1. PICK i \in Voice : i = ctl.h.idx
  BY <1>0, PushingSlot
<1>2. /\ slot[i].inuse /\ slot[i].push = None /\ ctl.h = SlotHandle(i) /\ ctl.pc = "push"
      /\ slot \in [Voice -> Slot] /\ slot[i].gen \in Nat /\ slot[i] \in Slot
  BY <1>0, <1>1, PushingSlot, SlotTypes
<1>3. CmdRoom(1) /\ CmdRoom(2)
  BY <1>0, <1>2, PushRoom DEF PushInv
<1>4. PICK s \in Handle : s = ctl.s
  BY SlotsUse DEF ControlShape, Ctl
<1>5. PICK h \in Handle : h = ctl.h
  BY SlotsUse DEF ControlShape, Ctl
<1>6. PICK a \in Cmd, b \in Cmd : /\ a.t = "CREATE" /\ a.v = h /\ b.t = "PLAY" /\ b.v = h /\ b.s = s
                                  /\ cmd' = Append(Append(cmd, a), b)
  BY <1>0, <1>3, <1>4, <1>5, CreatePushCmds
<1>7. /\ slot' = [slot EXCEPT ![i].push = s] /\ app' = app \cup {h} /\ park' = park /\ snd' = snd
      /\ voice' = voice /\ ctl'.pc = "idle" /\ ctl'.s = None
  BY <1>1, <1>3, <1>4, <1>5 DEF CreatePush, Idle
<1>8. /\ slot'[i].push = s /\ slot'[i].gen = slot[i].gen /\ slot'[i].inuse
      /\ \A j \in Voice : j # i => slot'[j] = slot[j]
  BY <1>2, <1>7 DEF Slot
<1>9. \A j \in Voice : slot'[j].gen = slot[j].gen
  BY <1>8
<1>10. ASSUME NEW j \in Voice, slot'[j].inuse, slot'[j].push # None
       PROVE  \/ j = i /\ slot'[j].push = s
              \/ j # i /\ slot'[j].push = slot[j].push /\ slot'[j] = slot[j] /\ Pushing(j) /\ slot[j].push # s
  BY <1>4, <1>8, <1>10, <1>0 DEF Pushing, PushOwned
<1>11. Hidden(s) /\ s # None
  BY <1>0, <1>4 DEF PushOwned
<1>12. /\ Len(cmd) \in Nat /\ Len(cmd') = Len(cmd) + 2 /\ cmd'[Len(cmd) + 1] = a /\ cmd'[Len(cmd) + 2] = b
       /\ \A k \in 1 .. Len(cmd) : cmd'[k] = cmd[k]
       /\ \A k \in 1 .. Len(cmd') : k \in 1 .. Len(cmd) \/ k = Len(cmd) + 1 \/ k = Len(cmd) + 2
  <2>1. PICK q \in Seq(Cmd) : q = cmd
    BY <1>0 DEF Shape, TypeOK
  <2>2. PICK r \in Seq(Cmd) : r = Append(q, a)
    <3>1. Append(q, a) \in Seq(Cmd)
      BY <1>6, <2>1
    <3> QED BY <3>1
  <2>3. Len(q) \in Nat /\ Len(r) = Len(q) + 1 /\ r[Len(q) + 1] = a /\ \A k \in 1 .. Len(q) : r[k] = q[k]
    BY <2>1, <2>2
  <2>4. cmd' = Append(r, b) /\ Len(cmd') = Len(r) + 1 /\ cmd'[Len(r) + 1] = b /\ \A k \in 1 .. Len(r) : cmd'[k] = r[k]
    BY <1>6, <2>1, <2>2
  <2> QED BY <2>1, <2>3, <2>4
<1>13. RoomKept'
  BY <1>7, Roomy
<1>14. PushOwned'
  <2>1. \A j \in Voice : slot'[j].inuse /\ slot'[j].push # None => Hidden(slot'[j].push)
    BY <1>0, <1>10, <1>11 DEF PushOwned
  <2>2. (\A j \in Voice : Pushing(j) => Hidden(slot[j].push))'
    BY <1>7, <2>1 DEF Pushing, Hidden, CanRetire, SndLive
  <2>3. (\A j, k \in Voice : Pushing(j) /\ Pushing(k) /\ slot[j].push = slot[k].push => j = k)'
    BY <1>0, <1>10 DEF Pushing, PushOwned
  <2>4. (\A j \in Voice : Pushing(j) => slot[j].push # ctl.s)'
    BY <1>7 DEF Pushing
  <2> QED BY <1>0, <1>7, <2>2, <2>3, <2>4 DEF PushOwned
<1>15. PushNamed'
  <2>0. SourceKnown(h)
    <3>1. slot[i].gen <= slot[i].gen
      BY <1>2
    <3> QED BY <1>2, <1>5, <3>1 DEF SourceKnown, SlotHandle, H
  <2>1. \A g : SourceKnown(g) => SourceKnown(g)'
    BY <1>9 DEF SourceKnown
  <2>2. (\A g \in app : SourceKnown(g))'
    BY <1>0, <1>7, <2>0, <2>1 DEF PushNamed
  <2>3. ASSUME NEW k \in 1 .. Len(cmd'), cmd'[k].t \in Binds
        PROVE  (k \in 1 .. Len(cmd) /\ cmd'[k] = cmd[k]) \/ (k = Len(cmd) + 2 /\ cmd'[k] = b)
    BY <1>6, <1>12, <2>3 DEF Binds
  <2>4. ASSUME NEW k \in 1 .. Len(cmd'), cmd'[k].t \in Binds, NEW g, g = cmd'[k].v PROVE SourceKnown(g)'
    <3>1. CASE k \in 1 .. Len(cmd) /\ cmd'[k] = cmd[k]
      BY <1>0, <2>1, <2>4, <3>1 DEF PushNamed, Bind
    <3>2. CASE k = Len(cmd) + 2 /\ cmd'[k] = b
      BY <1>6, <2>0, <2>1, <2>4, <3>2
    <3> QED BY <2>3, <2>4, <3>1, <3>2
  <2>5. (\A k \in 1 .. Len(cmd) : Bind(k) => SourceKnown(cmd[k].v))'
    BY <2>4 DEF Bind, SourceKnown
  <2>6. ASSUME NEW j \in Voice, NEW k \in 1 .. Len(cmd'), slot'[j].inuse, slot'[j].push # None,
               cmd'[k].t \in Binds, NEW g, g = H(j, slot'[j].gen), cmd'[k].v = g \/ cmd'[k].s = slot'[j].push
        PROVE  /\ cmd'[k].t = "PLAY" /\ cmd'[k].v = g /\ cmd'[k].s = slot'[j].push
               /\ voice'[j].gen = slot'[j].gen \/ \E n \in 1 .. Len(cmd') : n < k /\ cmd'[n].t = "CREATE" /\ cmd'[n].v = g
    <3>1. g = SlotHandle(j)
      BY <1>9, <2>6 DEF SlotHandle
    <3>2. CASE j = i /\ slot'[j].push = s
      <4>1. g = h
        BY <1>2, <1>5, <3>1, <3>2
      <4>2. ~(k \in 1 .. Len(cmd) /\ cmd'[k] = cmd[k])
        BY <1>0, <1>2, <1>4, <1>5, <1>11, <2>6, <3>2, <4>1 DEF PushNamed, Bind
      <4>3. k = Len(cmd) + 2 /\ cmd'[k] = b
        BY <2>3, <2>6, <4>2
      <4>4. Len(cmd) + 1 \in 1 .. Len(cmd') /\ Len(cmd) + 1 < k
        BY <1>12, <4>3
      <4>5. \E n \in 1 .. Len(cmd') : n < k /\ cmd'[n].t = "CREATE" /\ cmd'[n].v = g
        BY <1>6, <1>12, <4>1, <4>4
      <4> QED BY <1>6, <3>2, <4>1, <4>3, <4>5
    <3>3. CASE j # i /\ slot'[j].push = slot[j].push /\ slot'[j] = slot[j] /\ Pushing(j) /\ slot[j].push # s
      <4>1. ~(k = Len(cmd) + 2 /\ cmd'[k] = b)
        <5>1. h # g
          BY <1>2, <1>5, <2>6, <3>3 DEF SlotHandle, H
        <5> QED BY <1>6, <2>6, <3>3, <5>1
      <4>2. k \in 1 .. Len(cmd) /\ cmd'[k] = cmd[k]
        BY <2>3, <2>6, <4>1
      <4>3. /\ cmd[k].t = "PLAY" /\ cmd[k].v = SlotHandle(j) /\ cmd[k].s = slot[j].push
            /\ voice[j].gen = slot[j].gen \/ \E n \in Commands("CREATE") : n < k /\ cmd[n].v = SlotHandle(j)
        BY <1>0, <2>6, <3>1, <3>3, <4>2 DEF PushNamed, Bind
      <4>4. \A n \in Commands("CREATE") : n \in 1 .. Len(cmd') /\ cmd'[n] = cmd[n] /\ cmd[n].t = "CREATE"
        BY <1>12 DEF Commands
      <4> QED BY <1>7, <3>1, <3>3, <4>2, <4>3, <4>4
    <3> QED BY <1>10, <2>6, <3>2, <3>3
  <2>7. (\A j \in Voice, k \in 1 .. Len(cmd) :
          Pushing(j) /\ Bind(k) /\ (cmd[k].v = SlotHandle(j) \/ cmd[k].s = slot[j].push) =>
            /\ cmd[k].t = "PLAY" /\ cmd[k].v = SlotHandle(j) /\ cmd[k].s = slot[j].push
            /\ voice[j].gen = slot[j].gen \/ \E n \in Commands("CREATE") : n < k /\ cmd[n].v = SlotHandle(j))'
    BY <2>6 DEF Pushing, Bind, SlotHandle, Commands
  <2> QED BY <1>7, <2>2, <2>5, <2>7 DEF PushNamed
<1>16. InternalSoundOwned'
  <2>1. ASSUME NEW n \in Sound, snd'[n].inuse, snd'[n].internal, NEW g, g = H(n, snd'[n].gen)
        PROVE  \/ \E j \in Voice : slot'[j].inuse /\ slot'[j].push = g
               \/ ctl'.s = g \/ g \in park' \/ snd'[n].retiring
    <3>1. \/ \E j \in Voice : slot[j].inuse /\ slot[j].push = g
          \/ s = g \/ g \in park \/ snd[n].retiring
      BY <1>0, <1>4, <1>7, <2>1 DEF InternalSoundOwned
    <3>2. g # None
      <4>1. n # 0
        BY Constants DEF Sound
      <4> QED BY <2>1, <4>1 DEF H, None
    <3>3. ASSUME NEW j \in Voice, slot[j].inuse, slot[j].push = g PROVE slot'[j].inuse /\ slot'[j].push = g
      BY <1>2, <1>8, <3>2, <3>3
    <3> QED BY <1>7, <1>8, <3>1, <3>3
  <2>2. ASSUME NEW j \in Voice, slot'[j].inuse, slot'[j].push # None, NEW g, g = H(j, slot'[j].gen)
        PROVE  \/ \E k \in 1 .. Len(cmd') : cmd'[k].t = "PLAY" /\ cmd'[k].v = g /\ cmd'[k].s = slot'[j].push
               \/ voice'[j].gen = slot'[j].gen /\ (voice'[j].active => voice'[j].snd = slot'[j].push)
    <3>1. CASE j = i /\ slot'[j].push = s
      <4>1. g = h
        BY <1>2, <1>5, <1>8, <2>2, <3>1 DEF SlotHandle
      <4>2. Len(cmd) + 2 \in 1 .. Len(cmd')
        BY <1>12
      <4> QED BY <1>6, <1>12, <3>1, <4>1, <4>2
    <3>2. CASE j # i /\ slot'[j] = slot[j] /\ Pushing(j)
      <4>1. \/ \E k \in 1 .. Len(cmd) : cmd[k].t = "PLAY" /\ cmd[k].v = g /\ cmd[k].s = slot[j].push
            \/ voice[j].gen = slot[j].gen /\ (voice[j].active => voice[j].snd = slot[j].push)
        BY <1>0, <2>2, <3>2 DEF InternalSoundOwned, Pushing
      <4>2. \A k \in 1 .. Len(cmd) : k \in 1 .. Len(cmd') /\ cmd'[k] = cmd[k]
        BY <1>12
      <4> QED BY <1>7, <3>2, <4>1, <4>2
    <3> QED BY <1>10, <2>2, <3>1, <3>2
  <2> QED BY <2>1, <2>2 DEF InternalSoundOwned
<1> QED BY <1>13, <1>14, <1>15, <1>16 DEF PushInv

-----------------------------------------------------------------------------
(* The control thread keeps the push sources. *)

LEMMA ControlPush ==
    ASSUME SlotsInv, Shape', FreshBind, AckFindsItsSound, ChainInv, PushInv, ControlNext
    PROVE  PushInv'
<1>0. Shape /\ CmdGrown /\ SoundsKept /\ voice' = voice
  BY SlotsUse, ControlBinds, ControlSounds, ControlVoices DEF BindsChecked
<1>1. CASE PushStepped
  BY <1>0, <1>1, PushControl DEF PushStepped
<1>2. CASE CreatePush
  BY <1>1, <1>2, CreatePushPlain, CreatePushWhole
<1>3. CASE CreateSource \/ CreateStream \/ CreateCut
  BY <1>1, <1>3, CreateSourcePush, CreateStreamPush, CreateCutPush
<1>4. CASE \E s \in AppSounds : PlayOneshot(s) \/ Unload(s)
  BY <1>1, <1>4, PlayOneshotPush, UnloadPush
<1>5. CASE \E h \in app, s \in AppSounds : Play(h, s) \/ Queue(h, s)
  BY <1>1, <1>5, BindCallPush
<1>6. CASE \/ StopAll \/ \E h \in app : Stop(h)
           \/ \E h \in app, p \in Priorities : SetPriority(h, p)
           \/ Commit \/ BeginDrainEvents \/ DrainNotice \/ EndDrainEvents
  BY <1>1, <1>6, PlainPush
<1>7. CASE \E h \in app : DestroySource(h)
  BY <1>1, <1>7, DestroyPush
<1>8. CASE \E stream \in BOOLEAN : LoadSound(stream)
  BY <1>1, <1>8, LoadPush
<1>9. CASE \E s \in ctl.try : RetryParked(s)
  BY <1>1, <1>9, RetryPush
<1>10. CASE DrainEnded \/ DrainRetired
  BY <1>1, <1>10, DrainEndedPush, DrainRetiredPush
<1> QED BY <1>2, <1>3, <1>4, <1>5, <1>6, <1>7, <1>8, <1>9, <1>10 DEF ControlNext

-----------------------------------------------------------------------------
(* The audio thread keeps the push sources. *)

\* The voice of a push source was created, and as long as it is active has the source's sound.
Landed(i) == voice[i].gen = slot[i].gen /\ (voice[i].active => voice[i].snd = slot[i].push)

\* A step of the audio thread leaves the control thread's tables alone and takes at most the first
\* command; it keeps what has landed, and what it takes lands.
OwnersSame == UNCHANGED <<slot, snd, park, app, ctl>> /\ Len(cmd') + cdone' <= Len(cmd) + cdone
LandedKept == \A i \in Voice : Pushing(i) =>
    /\ voice[i].gen = slot[i].gen => voice'[i].gen = slot[i].gen
    /\ Landed(i) => Landed(i)'
TakenLands(d) == d = 1 => \A i \in Voice : Pushing(i) /\ cmd[1].v = SlotHandle(i) =>
    /\ cmd[1].t = "CREATE" => voice'[i].gen = slot[i].gen
    /\ cmd[1].t = "PLAY" /\ cmd[1].s = slot[i].push => Landed(i)'

LEMMA PushAudio ==
    ASSUME Shape, Shape', PushInv, OwnersSame, NEW d \in 0 .. 1, CmdShift(d), LandedKept, TakenLands(d)
    PROVE  PushInv'
<1>0. PushOwned /\ PushNamed /\ InternalSoundOwned /\ RoomKept
  BY DEF PushInv
<1>1. /\ Len(cmd) \in Nat /\ Len(cmd') = Len(cmd) - d /\ Len(cmd') \in Nat
      /\ \A k \in 1 .. Len(cmd') : cmd'[k] = cmd[k + d]
  BY RingTypes, RingTypesPrime DEF CmdShift
<1>2. \A k \in 1 .. Len(cmd') : k + d \in 1 .. Len(cmd)
  BY <1>1
<1>3. \A k \in 1 .. Len(cmd) : (d = 1 /\ k = 1) \/ (k - d \in 1 .. Len(cmd') /\ cmd'[k - d] = cmd[k])
  BY <1>1
<1>4. UNCHANGED <<slot, snd, park, app, ctl>>
  BY DEF OwnersSame
<1>5. RoomKept'
  <2>1. PICK m, n, b, c : m = Len(cmd') /\ n = Len(cmd) /\ b = cdone' /\ c = cdone
    OBVIOUS
  <2>2. m \in Nat /\ n \in Nat /\ b \in Nat /\ c \in Nat /\ CmdCap \in Nat
    BY <1>1, <2>1, ShapeParts, ShapePartsPrime, Constants DEF RingShape
  <2>3. m + b <= n + c
    BY <2>1 DEF OwnersSame
  <2>4. (n + c + 4 <= CmdCap => m + b + 4 <= CmdCap) /\ (n + c + 2 <= CmdCap => m + b + 2 <= CmdCap)
    BY <2>2, <2>3
  <2>5. CmdRoom(4) => CmdRoom(4)'
    BY <2>1, <2>4 DEF CmdRoom
  <2>6. CmdRoom(2) => CmdRoom(2)'
    BY <2>1, <2>4 DEF CmdRoom
  <2> QED BY <1>0, <1>4, <2>5, <2>6 DEF RoomKept
<1>6. PushOwned'
  BY <1>0, <1>4 DEF PushOwned, Pushing, Hidden, CanRetire, SndLive
<1>7. PushNamed'
  <2>1. ASSUME NEW k \in 1 .. Len(cmd'), cmd'[k].t \in Binds
        PROVE  k + d \in 1 .. Len(cmd) /\ cmd'[k] = cmd[k + d] /\ Bind(k + d)
    BY <1>1, <1>2, <2>1 DEF Bind
  <2>2. (\A h \in app : SourceKnown(h))'
    BY <1>0, <1>4 DEF PushNamed, SourceKnown
  <2>3. \A k \in 1 .. Len(cmd') : cmd'[k].t \in Binds =>
            /\ SourceKnown(cmd'[k].v)
            /\ ctl.pc = "push" => cmd'[k].v # ctl.h
            /\ ctl.s # None => cmd'[k].s # ctl.s
    BY <1>0, <2>1 DEF PushNamed
  <2>4. /\ (\A k \in 1 .. Len(cmd) : Bind(k) => SourceKnown(cmd[k].v))'
        /\ (ctl.pc = "push" => ctl.h \notin app /\ \A k \in 1 .. Len(cmd) : Bind(k) => cmd[k].v # ctl.h)'
        /\ (ctl.s # None => \A k \in 1 .. Len(cmd) : Bind(k) => cmd[k].s # ctl.s)'
    BY <1>0, <1>4, <2>3 DEF PushNamed, Bind, SourceKnown
  <2>5. ASSUME NEW i \in Voice, NEW k \in 1 .. Len(cmd'), Pushing(i), cmd'[k].t \in Binds,
               NEW h, h = SlotHandle(i), cmd'[k].v = h \/ cmd'[k].s = slot[i].push
        PROVE  /\ cmd'[k].t = "PLAY" /\ cmd'[k].v = h /\ cmd'[k].s = slot[i].push
               /\ voice'[i].gen = slot[i].gen \/ \E n \in 1 .. Len(cmd') : n < k /\ cmd'[n].t = "CREATE" /\ cmd'[n].v = h
    <3>1. /\ cmd'[k].t = "PLAY" /\ cmd'[k].v = h /\ cmd'[k].s = slot[i].push
          /\ voice[i].gen = slot[i].gen \/ \E n \in Commands("CREATE") : n < k + d /\ cmd[n].v = h
      BY <1>0, <2>1, <2>5 DEF PushNamed
    <3>2. CASE voice[i].gen = slot[i].gen
      BY <2>5, <3>1, <3>2 DEF LandedKept
    <3>3. CASE \E n \in Commands("CREATE") : n < k + d /\ cmd[n].v = h
      <4>1. PICK n \in 1 .. Len(cmd) : n < k + d /\ cmd[n].t = "CREATE" /\ cmd[n].v = h
        BY <3>3 DEF Commands
      <4>2. CASE d = 1 /\ n = 1
        BY <2>5, <3>1, <4>1, <4>2 DEF TakenLands
      <4>3. CASE n - d \in 1 .. Len(cmd') /\ cmd'[n - d] = cmd[n]
        <5>1. n - d < k
          BY <1>1, <4>1
        <5> QED BY <3>1, <4>1, <4>3, <5>1
      <4> QED BY <1>3, <4>1, <4>2, <4>3
    <3> QED BY <3>1, <3>2, <3>3
  <2>6. (\A i \in Voice, k \in 1 .. Len(cmd) :
          Pushing(i) /\ Bind(k) /\ (cmd[k].v = SlotHandle(i) \/ cmd[k].s = slot[i].push) =>
            /\ cmd[k].t = "PLAY" /\ cmd[k].v = SlotHandle(i) /\ cmd[k].s = slot[i].push
            /\ voice[i].gen = slot[i].gen \/ \E n \in Commands("CREATE") : n < k /\ cmd[n].v = SlotHandle(i))'
    BY <1>4, <2>5 DEF Pushing, Bind, SlotHandle, Commands
  <2> QED BY <2>2, <2>4, <2>6 DEF PushNamed
<1>8. InternalSoundOwned'
  <2>1. \A s \in Sound : LET g == H(s, snd[s].gen) IN
            snd[s].inuse /\ snd[s].internal =>
                \/ \E i \in Voice : slot[i].inuse /\ slot[i].push = g
                \/ ctl.s = g \/ g \in park \/ snd[s].retiring
    BY <1>0 DEF InternalSoundOwned
  <2>2. ASSUME NEW i \in Voice, slot[i].inuse, slot[i].push # None, NEW h, h = H(i, slot[i].gen)
        PROVE  \/ \E k \in 1 .. Len(cmd') : cmd'[k].t = "PLAY" /\ cmd'[k].v = h /\ cmd'[k].s = slot[i].push
               \/ voice'[i].gen = slot[i].gen /\ (voice'[i].active => voice'[i].snd = slot[i].push)
    <3>1. Pushing(i) /\ h = SlotHandle(i)
      BY <2>2 DEF Pushing, SlotHandle
    <3>2. \/ \E k \in 1 .. Len(cmd) : cmd[k].t = "PLAY" /\ cmd[k].v = h /\ cmd[k].s = slot[i].push
          \/ Landed(i)
      BY <1>0, <2>2 DEF InternalSoundOwned, Landed
    <3>3. Landed(i)' => voice'[i].gen = slot[i].gen /\ (voice'[i].active => voice'[i].snd = slot[i].push)
      BY <1>4 DEF Landed
    <3>4. CASE Landed(i)
      BY <3>1, <3>3, <3>4 DEF LandedKept
    <3>5. ASSUME NEW k \in 1 .. Len(cmd), cmd[k].t = "PLAY", cmd[k].v = h, cmd[k].s = slot[i].push
          PROVE  Landed(i)' \/ \E n \in 1 .. Len(cmd') : cmd'[n].t = "PLAY" /\ cmd'[n].v = h /\ cmd'[n].s = slot[i].push
      <4>1. CASE d = 1 /\ k = 1
        BY <3>1, <3>5, <4>1 DEF TakenLands
      <4>2. CASE k - d \in 1 .. Len(cmd') /\ cmd'[k - d] = cmd[k]
        BY <3>5, <4>2
      <4> QED BY <1>3, <4>1, <4>2
    <3> QED BY <3>2, <3>3, <3>4, <3>5
  <2> QED BY <1>4, <2>1, <2>2 DEF InternalSoundOwned
<1> QED BY <1>5, <1>6, <1>7, <1>8 DEF PushInv

LEMMA AudioOwners == ASSUME Shape, AudioNext PROVE OwnersSame
<1>0. /\ Len(cmd) \in Nat /\ cdone \in Nat
  BY ShapeParts, RingTypes DEF RingShape
<1>1. UNCHANGED <<slot, snd, park, app, ctl>>
  BY DEF AudioNext, BeginBlock, EndDrainCommands, EndBlock, DrainCreate, DrainDestroy, DrainPlay, DrainStop,
     DrainStopAll, DrainQueue, DrainSteal, DrainRetire, DrainParam, MixFinalize, MixOn, MixChain, MixEnd,
     TakeCmd, Mixed, ctlVars
<1>2. CASE \E t \in CmdTypes : TakeCmd(t)
  <2>1. PICK t \in CmdTypes : TakeCmd(t)
    BY <1>2
  <2>2. Len(cmd') = Len(cmd) - 1 /\ cdone' = cdone + 1
    BY <2>1, TakenCmd DEF CmdShift, TakeCmd
  <2>3. Len(cmd') + cdone' <= Len(cmd) + cdone
    BY <1>0, <2>2
  <2> QED BY <1>1, <2>3 DEF OwnersSame
<1>3. CASE cmd' = cmd /\ (cdone' = cdone \/ cdone' = 0)
  BY <1>0, <1>1, <1>3 DEF OwnersSame
<1>4. {"CREATE", "DESTROY", "PARAM", "PLAY", "STOP", "STOP_ALL", "QUEUE", "STEAL", "COMMIT", "RETIRE"} \subseteq CmdTypes
  BY DEF CmdTypes
<1>5. CASE \/ DrainCreate \/ DrainDestroy \/ DrainPlay \/ DrainStop \/ DrainStopAll \/ DrainQueue
           \/ DrainSteal \/ DrainRetire \/ DrainParam
  BY <1>2, <1>4, <1>5 DEF DrainCreate, DrainDestroy, DrainPlay, DrainStop, DrainStopAll, DrainQueue,
       DrainSteal,
     DrainRetire, DrainParam
<1>6. CASE \/ BeginBlock \/ EndDrainCommands \/ EndBlock
           \/ \E i \in Voice : MixFinalize(i) \/ MixOn(i) \/ MixChain(i) \/ MixEnd(i)
  BY <1>3, <1>6 DEF BeginBlock, EndDrainCommands, EndBlock, MixFinalize, MixOn, MixChain, MixEnd, Mixed,
       ringVars
<1> QED BY <1>5, <1>6 DEF AudioNext

LEMMA CalmPush == ASSUME Shape, Shape', PushInv, Calm PROVE PushInv'
<1>1. PICK d \in 0 .. 1 : CmdShift(d) /\ (d = 1 => cmd[1].t \notin Starts)
  BY CalmCmds
<1>2. OwnersSame
  BY AudioOwners DEF Calm, AudioNext
<1>3. VoicesCalm /\ slot' = slot
  BY <1>2, CalmVoices DEF OwnersSame
<1>4. LandedKept
  BY <1>3 DEF LandedKept, VoicesCalm, Landed
<1>5. TakenLands(d)
  BY <1>1 DEF TakenLands, Starts
<1> QED BY <1>1, <1>2, <1>4, <1>5, PushAudio

LEMMA DrainCreatePush == ASSUME Shape, Shape', LetOrder, PushInv, DrainCreate PROVE PushInv'
<1>1. "CREATE" \in CmdTypes /\ TakeCmd("CREATE") /\ OwnersSame
  BY AudioOwners DEF CmdTypes, DrainCreate, AudioNext
<1>2. CmdShift(1) /\ 1 \in 0 .. 1 /\ cmd[1] = Head(cmd) /\ cmd[1].t = "CREATE" /\ 1 \in Commands("CREATE")
  BY <1>1, TakenCmd DEF Commands
<1>3. PICK h : h = cmd[1].v
  OBVIOUS
<1>4. h.idx \in Voice /\ voice[h.idx].gen < h.gen /\ h.gen <= slot[h.idx].gen /\ h \in Handle
  BY <1>1, <1>2, <1>3, TakenCmd DEF LetOrder
<1>5. PICK r : r.gen = h.gen /\ voice' = [voice EXCEPT ![h.idx] = r]
  <2>1. PICK r : r = [gen |-> h.gen, active |-> TRUE, playing |-> FALSE, snd |-> None,
                      stopping |-> 0, oneshot |-> FALSE, open |-> TRUE, queue |-> <<>>]
    OBVIOUS
  <2> QED BY <1>2, <1>3, <2>1 DEF DrainCreate
<1>6. voice'[h.idx].gen = h.gen /\ \A i \in Voice : i # h.idx => voice'[i] = voice[i]
  BY <1>4, <1>5 DEF Shape, TypeOK
<1>7. \A i \in Voice : voice[i].gen = slot[i].gen => i # h.idx
  BY <1>4, VoiceHandles, HandleFields
<1>8. LandedKept
  BY <1>1, <1>6, <1>7 DEF LandedKept, Landed, OwnersSame
<1>9. TakenLands(1)
  BY <1>2, <1>3, <1>6 DEF TakenLands, SlotHandle, H
<1> QED BY <1>1, <1>2, <1>8, <1>9, PushAudio

\* A step after which every voice is still of its let, active as it was, and has the sound of the
\* push source it has landed for.
LEMMA SoundHeld ==
    ASSUME OwnersSame,
           \A i \in Voice : voice'[i].gen = voice[i].gen /\ (voice'[i].active => voice[i].active),
           \A i \in Voice : Pushing(i) /\ voice[i].snd = slot[i].push => voice'[i].snd = voice[i].snd
    PROVE  LandedKept
BY DEF LandedKept, Landed, OwnersSame

LEMMA DrainQueuePush == ASSUME Shape, Shape', PushInv, DrainQueue PROVE PushInv'
<1>1. "QUEUE" \in CmdTypes /\ TakeCmd("QUEUE") /\ OwnersSame
  BY AudioOwners DEF CmdTypes, DrainQueue, AudioNext
<1>2. CmdShift(1) /\ 1 \in 0 .. 1 /\ cmd[1].t = "QUEUE"
  BY <1>1, TakenCmd
<1>3. voice \in [Voice -> VoiceRec]
  BY DEF Shape, TypeOK
<1>4. PICK c : c = Head(cmd)
  OBVIOUS
<1>5. \A r \in VoiceRec : LET q == [r EXCEPT !.queue = Append(@, c.s)]
                          IN  q.snd = r.snd /\ q.gen = r.gen /\ q.active = r.active
  BY DEF VoiceRec
<1>6. ASSUME c.v.idx \in Voice, voice' = [voice EXCEPT ![c.v.idx].queue = Append(@, c.s)]
      PROVE  \A i \in Voice : /\ voice'[i].snd = voice[i].snd /\ voice'[i].gen = voice[i].gen
                              /\ voice'[i].active = voice[i].active
  <2>1. PICK n \in Voice : n = c.v.idx
    BY <1>6
  <2>2. voice' = [voice EXCEPT ![n].queue = Append(@, c.s)]
    BY <1>6, <2>1
  <2>3. PICK r \in VoiceRec : r = voice[n]
    BY <1>3
  <2>4. voice'[n] = [r EXCEPT !.queue = Append(@, c.s)] /\ \A i \in Voice : i # n => voice'[i] = voice[i]
    BY <1>3, <2>2, <2>3
  <2>5. voice'[n].snd = r.snd /\ voice'[n].gen = r.gen /\ voice'[n].active = r.active
    BY <1>5, <2>4
  <2> QED BY <2>3, <2>4, <2>5
<1>7. \A i \in Voice : voice'[i].snd = voice[i].snd /\ voice'[i].gen = voice[i].gen /\ voice'[i].active = voice[i].active
  <2>1. voice' = voice \/ (c.v.idx \in Voice /\ voice' = [voice EXCEPT ![c.v.idx].queue = Append(@, c.s)])
    BY <1>4 DEF DrainQueue, VoiceFor
  <2> QED BY <1>6, <2>1
<1>8. LandedKept
  BY <1>1, <1>7, SoundHeld
<1>9. TakenLands(1)
  BY <1>2 DEF TakenLands
<1> QED BY <1>1, <1>2, <1>8, <1>9, PushAudio

LEMMA DrainRetirePush == ASSUME Shape, Shape', RetireFindsItsSound, PushInv, DrainRetire PROVE PushInv'
<1>1. "RETIRE" \in CmdTypes /\ TakeCmd("RETIRE") /\ OwnersSame
  BY AudioOwners DEF CmdTypes, DrainRetire, AudioNext
<1>2. /\ CmdShift(1) /\ 1 \in 0 .. 1 /\ cmd[1] = Head(cmd) /\ cmd[1].t = "RETIRE" /\ 1 \in 1 .. Len(cmd)
  BY <1>1, TakenCmd
<1>3. voice \in [Voice -> VoiceRec]
  BY DEF Shape, TypeOK
<1>4. PICK n : n = cmd[1].s.idx /\ snd[n].retiring
  BY <1>2 DEF RetireFindsItsSound
<1>5. \A r \in VoiceRec : LET q == Released(r, n) IN
          /\ q.snd = (IF r.snd.idx = n THEN None ELSE r.snd)
          /\ q.gen = r.gen /\ q.active = r.active
  BY DEF VoiceRec, Released
<1>6. voice' = voice \/ voice' = [i \in Voice |-> Released(voice[i], n)]
  BY <1>2, <1>4 DEF DrainRetire
<1>7. \A i \in Voice : /\ voice'[i].gen = voice[i].gen /\ voice'[i].active = voice[i].active
                       /\ voice[i].snd.idx # n => voice'[i].snd = voice[i].snd
  BY <1>3, <1>5, <1>6
<1>8. \A i \in Voice : Pushing(i) => slot[i].push.idx # n
  BY <1>4 DEF PushInv, PushOwned, Hidden, CanRetire
<1>9. LandedKept
  BY <1>1, <1>7, <1>8, SoundHeld
<1>10. TakenLands(1)
  BY <1>2 DEF TakenLands
<1> QED BY <1>1, <1>2, <1>9, <1>10, PushAudio

\* A stream is never replaced by its chain.
LEMMA MixChainPush == ASSUME Shape, Shape', PushInv, NEW i \in Voice, MixChain(i) PROVE PushInv'
<1>1. OwnersSame /\ cmd' = cmd
  BY AudioOwners DEF AudioNext, MixChain, Mixed
<1>2. CmdShift(0) /\ 0 \in 0 .. 1
  BY <1>1, SameCmd
<1>3. voice \in [Voice -> VoiceRec]
  BY DEF Shape, TypeOK
<1>4. PICK s, q, o : /\ voice' = [voice EXCEPT ![i].snd = s, ![i].queue = q, ![i].open = o]
                     /\ ~snd[voice[i].snd.idx].stream
  BY DEF MixChain
<1>5. \A r \in VoiceRec : LET c == [r EXCEPT !.snd = s, !.queue = q, !.open = o]
                          IN  c.gen = r.gen /\ c.active = r.active
  BY DEF VoiceRec
<1>6. /\ voice'[i].gen = voice[i].gen /\ voice'[i].active = voice[i].active
      /\ \A j \in Voice : j # i => voice'[j] = voice[j]
  BY <1>3, <1>4, <1>5
<1>7. \A j \in Voice : Pushing(j) /\ voice[j].snd = slot[j].push => j # i
  BY <1>4 DEF PushInv, PushOwned, Hidden
<1>8. LandedKept
  BY <1>1, <1>6, <1>7, SoundHeld
<1>9. TakenLands(0)
  BY DEF TakenLands
<1> QED BY <1>1, <1>2, <1>8, <1>9, PushAudio

\* CMD_PLAY takes the stream of a push source from no other voice but for that source's own.
LEMMA DrainPlayPush == ASSUME Shape, Shape', PushInv, DrainPlay PROVE PushInv'
<1>1. "PLAY" \in CmdTypes /\ TakeCmd("PLAY") /\ OwnersSame
  BY AudioOwners DEF CmdTypes, DrainPlay, AudioNext
<1>2. /\ CmdShift(1) /\ 1 \in 0 .. 1 /\ cmd[1] = Head(cmd) /\ cmd[1].t = "PLAY" /\ 1 \in 1 .. Len(cmd)
      /\ cmd[1].v \in Handle /\ cmd[1].s \in Handle /\ Len(cmd) \in Nat
  BY <1>1, TakenCmd, RingTypes
<1>3. voice \in [Voice -> VoiceRec] /\ slot' = slot
  BY <1>1 DEF Shape, TypeOK, OwnersSame
<1>4. PICK c : c = cmd[1]
  OBVIOUS
<1>5. ASSUME NEW i \in Voice, Pushing(i), c.v = SlotHandle(i) \/ c.s = slot[i].push
      PROVE  c.v = SlotHandle(i) /\ c.s = slot[i].push /\ voice[i].gen = slot[i].gen
  <2>1. /\ c.v = SlotHandle(i) /\ c.s = slot[i].push
        /\ voice[i].gen = slot[i].gen \/ \E n \in Commands("CREATE") : n < 1 /\ cmd[n].v = SlotHandle(i)
    BY <1>2, <1>4, <1>5 DEF PushInv, PushNamed, Bind, Binds
  <2>2. \A n \in Commands("CREATE") : ~(n < 1)
    BY <1>2 DEF Commands
  <2> QED BY <2>1, <2>2
<1>6. \A r \in VoiceRec : /\ Bound(r, c).snd = c.s /\ Bound(r, c).gen = r.gen /\ Bound(r, c).active = r.active
                          /\ Detached(r).gen = r.gen /\ Detached(r).active = r.active
  BY DEF VoiceRec, Bound, Detached
<1>7. CASE voice' = voice /\ ~(VoiceFor(c.v) /\ SoundFor(c.s))
  <2>1. LandedKept
    BY <1>1, <1>7, SoundHeld
  <2>2. ASSUME NEW i \in Voice, Pushing(i), c.v = SlotHandle(i) PROVE Landed(i)'
    <3>1. SoundFor(c.s) /\ voice[i].gen = slot[i].gen /\ c.v.idx = i /\ c.v.gen = slot[i].gen
      BY <1>5, <2>2 DEF PushInv, PushOwned, Hidden, CanRetire, SoundFor, SlotHandle, H
    <3>2. ~voice[i].active
      BY <1>7, <2>2, <3>1 DEF VoiceFor
    <3> QED BY <1>3, <1>7, <3>1, <3>2 DEF Landed
  <2>3. TakenLands(1)
    BY <1>2, <1>4, <2>2 DEF TakenLands
  <2> QED BY <1>1, <1>2, <2>1, <2>3, PushAudio
<1>8. CASE /\ VoiceFor(c.v) /\ SoundFor(c.s)
           /\ voice' = [i \in Voice |->
                            IF i = c.v.idx THEN Bound(voice[i], c)
                            ELSE IF snd[c.s.idx].stream /\ voice[i].snd.idx = c.s.idx THEN Detached(voice[i])
                            ELSE voice[i]]
  <2>0. c.v.idx \in Voice /\ voice[c.v.idx].gen = c.v.gen /\ voice[c.v.idx].active
    BY <1>8 DEF VoiceFor
  <2>1. \A i \in Voice : voice'[i].gen = voice[i].gen /\ voice'[i].active = voice[i].active
    BY <1>3, <1>6, <1>8
  <2>2. voice'[c.v.idx].snd = c.s
    BY <1>3, <1>6, <1>8, <2>0
  <2>3. \A i \in Voice : i # c.v.idx /\ voice[i].snd.idx # c.s.idx => voice'[i] = voice[i]
    BY <1>3, <1>8
  <2>4. ASSUME NEW i \in Voice, Pushing(i), Landed(i) PROVE Landed(i)'
    <3>1. PICK ps \in Handle : ps = slot[i].push /\ SndLive(ps)
      BY <2>4, SlotTypes DEF PushInv, PushOwned, Hidden, CanRetire
    <3>2. CASE i = c.v.idx
      <4>1. c.v = SlotHandle(i)
        <5>1. SlotHandle(i) \in Handle /\ SlotHandle(i).idx = i /\ SlotHandle(i).gen = slot[i].gen
          BY SlotTypes DEF SlotHandle, H
        <5>2. c.v.gen = slot[i].gen
          BY <2>0, <2>4, <3>2 DEF Landed
        <5> QED BY <1>2, <1>4, <3>2, <5>1, <5>2, SameHandle
      <4>2. c.s = slot[i].push
        BY <1>5, <2>4, <4>1
      <4> QED BY <1>3, <2>1, <2>2, <2>4, <3>2, <4>2 DEF Landed
    <3>3. CASE i # c.v.idx /\ voice[i].snd = ps
      <4>1. ps.idx # c.s.idx
        <5> SUFFICES ASSUME ps.idx = c.s.idx PROVE FALSE
          OBVIOUS
        <5>1. c.s = ps
          BY <1>2, <1>4, <1>8, <3>1, SameHandle DEF SoundFor, SndLive
        <5>2. c.v = SlotHandle(i)
          BY <1>5, <2>4, <3>1, <5>1
        <5> QED BY <3>3, <5>2 DEF SlotHandle, H
      <4>2. voice'[i] = voice[i]
        BY <2>3, <3>3, <4>1
      <4> QED BY <1>3, <2>4, <4>2 DEF Landed
    <3>4. CASE ~voice[i].active
      BY <1>3, <2>1, <2>4, <3>4 DEF Landed
    <3> QED BY <2>4, <3>1, <3>2, <3>3, <3>4 DEF Landed
  <2>5. LandedKept
    BY <2>1, <2>4 DEF LandedKept
  <2>6. ASSUME NEW i \in Voice, Pushing(i), c.v = SlotHandle(i) PROVE Landed(i)'
    <3>1. c.s = slot[i].push /\ voice[i].gen = slot[i].gen /\ c.v.idx = i
      BY <1>5, <2>6 DEF SlotHandle, H
    <3> QED BY <1>3, <2>1, <2>2, <3>1 DEF Landed
  <2>7. TakenLands(1)
    BY <1>2, <1>4, <2>6 DEF TakenLands
  <2> QED BY <1>1, <1>2, <2>5, <2>7, PushAudio
<1>9. \/ voice' = voice /\ ~(VoiceFor(c.v) /\ SoundFor(c.s))
      \/ /\ VoiceFor(c.v) /\ SoundFor(c.s)
         /\ voice' = [i \in Voice |->
                          IF i = c.v.idx THEN Bound(voice[i], c)
                          ELSE IF snd[c.s.idx].stream /\ voice[i].snd.idx = c.s.idx THEN Detached(voice[i])
                          ELSE voice[i]]
  <2>1. c = Head(cmd)
    BY <1>2, <1>4
  <2> QED BY <2>1 DEF DrainPlay
<1> QED BY <1>7, <1>8, <1>9

LEMMA AudioPush ==
    ASSUME Shape, Shape', LetOrder, RetireFindsItsSound, PushInv, AudioNext PROVE PushInv'
BY CalmPush, DrainCreatePush, DrainPlayPush, DrainQueuePush, DrainRetirePush, MixChainPush DEF AudioNext, Calm

LEMMA InitPush == Init => PushInv
<1> SUFFICES ASSUME Init PROVE PushInv
  OBVIOUS
<1>1. Len(cmd) = 0 /\ Commands("CREATE") = {} /\ app = {} /\ park = {}
  BY DEF Init, Commands
<1>2. ctl.pc = "idle" /\ ctl.s = None
  BY DEF Init, Idle
<1>3. (\A i \in Voice : ~slot[i].inuse) /\ \A s \in Sound : ~snd[s].inuse
  BY DEF Init
<1> QED BY <1>1, <1>2, <1>3 DEF PushInv, RoomKept, PushOwned, PushNamed, InternalSoundOwned, Pushing

-----------------------------------------------------------------------------
(* The theorems: push sources. *)

\* What a push source's sound, its slot and the commands in flight say of each other, from the call
\* that creates the source to the retire of its sound, holds in every reachable state of every instance.
THEOREM PushInvariant == Spec => []PushInv
<1>1. Init => PushInv
  BY InitPush
<1>2. SlotsInv /\ SlotsInv' /\ RetireInv /\ LetInv /\ ChainInv /\ PushInv /\ [Next]_vars => PushInv'
  <2>1. ASSUME SlotsInv, SlotsInv', RetireInv, LetInv, ChainInv, PushInv, Next PROVE PushInv'
    <3>1. /\ Shape /\ Shape' /\ FreshBind /\ AckFindsItsSound /\ RetireFindsItsSound /\ LetOrder
      BY <2>1, SlotsUse, SlotsPartsPrime DEF RetireInv, LetInv
    <3> QED BY <2>1, <3>1, ControlPush, AudioPush DEF Next
  <2>2. ASSUME PushInv, UNCHANGED vars PROVE PushInv'
    <3>1. RoomKept' /\ PushOwned'
      BY <2>2 DEF PushInv, RoomKept, PushOwned, CmdRoom, Pushing, Hidden, CanRetire, SndLive, vars
    <3>2. PushNamed'
      BY <2>2 DEF PushInv, PushNamed, Pushing, Bind, SourceKnown, SlotHandle, Commands, vars
    <3>3. InternalSoundOwned'
      BY <2>2 DEF PushInv, InternalSoundOwned, vars
    <3> QED BY <3>1, <3>2, <3>3 DEF PushInv
  <2> QED BY <2>1, <2>2
<1> QED BY <1>1, <1>2, SlotsInvariant, RetireInvariant, LetInvariant, ChainInvariant, PTL DEF Spec

\* The sound of a push source is never lost, and the source never created and then silent forever:
\* rt_source_create_stream lands whole, and whoever ends the source retires or parks its sound.
THEOREM InternalSoundOwnedCorrect == Spec => []InternalSoundOwned
<1>1. PushInv => InternalSoundOwned
  BY DEF PushInv
<1> QED BY <1>1, PushInvariant, PTL

-----------------------------------------------------------------------------
(* Room for every ownership ack. *)

LEMMA SlotCounts ==
    /\ \A S \in SUBSET Voice : IsFiniteSet(S) /\ Cardinality(S) \in Nat /\ Cardinality(S) <= VoiceCap
    /\ \A S \in SUBSET Sound : IsFiniteSet(S) /\ Cardinality(S) \in Nat /\ Cardinality(S) <= SoundCap
<1>1. IsFiniteSet(Voice) /\ Cardinality(Voice) = VoiceCap
  BY FS_Interval, Constants DEF Voice
<1>2. IsFiniteSet(Sound) /\ Cardinality(Sound) = SoundCap
  BY FS_Interval, Constants DEF Sound
<1> QED BY <1>1, <1>2, FS_Subset, FS_CardinalityType

\* The ring is sized so that what the notices leave holds an ack of every slot.
LEMMA RingSize ==
    /\ NoticeCap \in Nat /\ EvtCap = NoticeCap + VoiceCap + SoundCap
    /\ VoiceCap \in Nat /\ SoundCap \in Nat
BY PoolAssumption DEF NoticeCap, VoiceCap

\* The slots that the event e gives back.
VoiceOf(e) == IF e.t = "ENDED" THEN {e.h.idx} ELSE {}
SoundOf(e) == IF e.t = "RETIRED" THEN {e.h.idx} ELSE {}

\* An event added gives back its slots after all that wait.
LEMMA GivenBackMore ==
    ASSUME Shape, NEW e \in Evt, evt' = Append(evt, e), VoiceOf(e) \subseteq Voice, SoundOf(e) \subseteq Sound
    PROVE  /\ Len(evt') = Len(evt) + 1
           /\ \A m \in 0 .. Len(evt) : /\ VoicesBack(m)' = VoicesBack(m) \cup VoiceOf(e)
                                       /\ SoundsBack(m)' = SoundsBack(m) \cup SoundOf(e)
<1>1. evt \in Seq(Evt) /\ Len(evt) \in Nat
  BY DEF Shape, TypeOK
<1>2. /\ Len(evt') = Len(evt) + 1 /\ evt'[Len(evt) + 1] = e
      /\ \A k \in 1 .. Len(evt) : evt'[k] = evt[k]
  BY <1>1
<1>3. ASSUME NEW m \in 0 .. Len(evt)
      PROVE  /\ Len(evt) + 1 \in m + 1 .. Len(evt')
             /\ m + 1 .. Len(evt) \subseteq m + 1 .. Len(evt')
             /\ \A k \in m + 1 .. Len(evt) : evt'[k] = evt[k]
             /\ \A k \in m + 1 .. Len(evt') : k \in m + 1 .. Len(evt) \/ k = Len(evt) + 1
  BY <1>1, <1>2, <1>3
<1>4. ASSUME NEW m \in 0 .. Len(evt) PROVE VoicesBack(m)' = VoicesBack(m) \cup VoiceOf(e)
  BY <1>2, <1>3, <1>4 DEF VoicesBack, VoiceOf
<1>5. ASSUME NEW m \in 0 .. Len(evt) PROVE SoundsBack(m)' = SoundsBack(m) \cup SoundOf(e)
  BY <1>2, <1>3, <1>5 DEF SoundsBack, SoundOf
<1> QED BY <1>2, <1>4, <1>5

\* The later the stretch begins, the fewer slots it gives back.
LEMMA LaterFewer ==
    ASSUME Shape, NEW m \in 0 .. Len(evt)
    PROVE  /\ VoicesBack(m) \subseteq VoicesBack(0) /\ SoundsBack(m) \subseteq SoundsBack(0)
           /\ VoicesBack(m) \in SUBSET Voice /\ SoundsBack(m) \in SUBSET Sound
<1>1. m + 1 .. Len(evt) \subseteq 0 + 1 .. Len(evt)
  BY RingTypes
<1> QED BY <1>1 DEF VoicesBack, SoundsBack

LEMMA BackTypes == \A m : VoicesBack(m)' \in SUBSET Voice /\ SoundsBack(m)' \in SUBSET Sound
BY DEF VoicesBack, SoundsBack

\* What an ack adds to the count of the slots given back: one.
LEMMA OneMore ==
    ASSUME NEW V \in SUBSET Voice, NEW S \in SUBSET Sound, NEW e, e.t \in {"ENDED", "RETIRED"},
           VoiceOf(e) \subseteq Voice \ V, SoundOf(e) \subseteq Sound \ S
    PROVE  /\ V \cup VoiceOf(e) \in SUBSET Voice /\ S \cup SoundOf(e) \in SUBSET Sound
           /\ Cardinality(V \cup VoiceOf(e)) + Cardinality(S \cup SoundOf(e)) = Cardinality(V) + Cardinality(S) + 1
<1>1. IsFiniteSet(V) /\ IsFiniteSet(S) /\ Cardinality(V) \in Nat /\ Cardinality(S) \in Nat
  BY SlotCounts
<1>2. CASE e.t = "ENDED"
  <2>1. VoiceOf(e) = {e.h.idx} /\ SoundOf(e) = {} /\ e.h.idx \notin V
    BY <1>2 DEF VoiceOf, SoundOf
  <2>2. Cardinality(V \cup {e.h.idx}) = Cardinality(V) + 1
    BY <1>1, <2>1, FS_AddElement
  <2>3. S \cup {} = S
    OBVIOUS
  <2> QED BY <1>1, <2>1, <2>2, <2>3
<1>3. CASE e.t = "RETIRED"
  <2>1. VoiceOf(e) = {} /\ SoundOf(e) = {e.h.idx} /\ e.h.idx \notin S
    BY <1>3 DEF VoiceOf, SoundOf
  <2>2. Cardinality(S \cup {e.h.idx}) = Cardinality(S) + 1
    BY <1>1, <2>1, FS_AddElement
  <2>3. V \cup {} = V
    OBVIOUS
  <2> QED BY <1>1, <2>1, <2>2, <2>3
<1> QED BY <1>2, <1>3

\* The voices whose end waits to be handled or released stay as they are, and none is active unlet.
VoicesAside(vs) ==
    /\ \A i \in Voice : voice'[i].active => voice'[i].gen # 0
    /\ \A i \in vs : ~voice'[i].active /\ voice'[i].gen # 0

\* A step that posts an ack for a slot none waits for finds room for it.
LEMMA AckFits ==
    ASSUME Shape, Shape', NoAckLost, StretchesFit,
           NEW vs \in SUBSET Voice, NEW ss \in SUBSET Sound, RingFits(vs, ss), VoicesAside(vs),
           UNCHANGED <<snd, edone>>,
           NEW e \in Evt, PushAck(e), e.t \in {"ENDED", "RETIRED"},
           VoiceOf(e) \subseteq Voice \ vs, SoundOf(e) \subseteq Sound \ ss,
           \A i \in VoiceOf(e) : ~voice'[i].active /\ voice'[i].gen # 0
    PROVE  NoAckLost' /\ StretchesFit' /\ RingFits(vs \cup VoiceOf(e), ss \cup SoundOf(e))'
<1>0. /\ NoticeCap \in Nat /\ EvtCap = NoticeCap + VoiceCap + SoundCap
      /\ VoiceCap \in Nat /\ SoundCap \in Nat /\ Len(evt) \in Nat /\ edone \in Nat
  BY RingSize, RingTypes DEF Shape, TypeOK
<1>1. PICK vs1 \in SUBSET Voice, ss1 \in SUBSET Sound :
        /\ vs1 = vs \cup VoiceOf(e) /\ ss1 = ss \cup SoundOf(e)
        /\ Cardinality(vs1) + Cardinality(ss1) = Cardinality(vs) + Cardinality(ss) + 1
  <2>1. /\ vs \cup VoiceOf(e) \in SUBSET Voice /\ ss \cup SoundOf(e) \in SUBSET Sound
        /\ Cardinality(vs \cup VoiceOf(e)) + Cardinality(ss \cup SoundOf(e)) = Cardinality(vs) + Cardinality(ss) + 1
    BY OneMore
  <2> QED BY <2>1, Zenon
<1>2. Len(evt) + edone <= NoticeCap + Cardinality(vs) + Cardinality(ss)
  BY DEF RingFits
<1>3. /\ Cardinality(vs) \in Nat /\ Cardinality(ss) \in Nat
      /\ Cardinality(vs1) \in Nat /\ Cardinality(ss1) \in Nat
      /\ Cardinality(vs1) <= VoiceCap /\ Cardinality(ss1) <= SoundCap
  BY SlotCounts
<1>4. Len(evt) + edone + 1 <= NoticeCap + Cardinality(vs1) + Cardinality(ss1)
  <2>1. PICK q \in Nat, n \in Nat, m \in Nat : q = NoticeCap /\ n = Len(evt) /\ m = edone
    BY <1>0
  <2>2. PICK a \in Nat, b \in Nat : a = Cardinality(vs) /\ b = Cardinality(ss)
    BY <1>3
  <2>3. PICK a1 \in Nat, b1 \in Nat : a1 = Cardinality(vs1) /\ b1 = Cardinality(ss1)
    BY <1>3
  <2>4. n + m <= q + a + b /\ a1 + b1 = a + b + 1
    BY <1>1, <1>2, <2>1, <2>2, <2>3
  <2>5. n + m + 1 <= q + a1 + b1
    BY <2>4
  <2> QED BY <2>1, <2>3, <2>5
<1>5. AckRoom
  <2>1. PICK n \in Nat, d \in Nat : n = Len(evt) + edone /\ d = Cardinality(vs1) + Cardinality(ss1)
    BY <1>0, <1>3
  <2>2. n + 1 <= NoticeCap + d
    BY <1>0, <1>3, <1>4, <2>1
  <2>3. d <= VoiceCap + SoundCap
    BY <1>0, <1>3, <2>1
  <2>4. n < EvtCap
    BY <1>0, <2>2, <2>3
  <2> QED BY <2>1, <2>4 DEF AckRoom
<1>6. evt' = Append(evt, e) /\ lost' = lost
  BY <1>5 DEF PushAck
<1>7. /\ Len(evt') = Len(evt) + 1
      /\ \A m \in 0 .. Len(evt) : /\ VoicesBack(m)' = VoicesBack(m) \cup VoiceOf(e)
                                  /\ SoundsBack(m)' = SoundsBack(m) \cup SoundOf(e)
  <2>1. VoiceOf(e) \subseteq Voice /\ SoundOf(e) \subseteq Sound
    OBVIOUS
  <2> QED BY <1>6, <2>1, GivenBackMore
<1>8. StretchesFit'
  <2>1. ASSUME NEW m \in 0 .. Len(evt)
        PROVE  Len(evt') - m <= NoticeCap + Cardinality(VoicesBack(m)') + Cardinality(SoundsBack(m)')
    <3>1. PICK V \in SUBSET Voice, S \in SUBSET Sound : V = VoicesBack(m) /\ S = SoundsBack(m)
      BY LaterFewer
    <3>2. V \subseteq vs /\ S \subseteq ss
      BY <3>1, LaterFewer DEF RingFits
    <3>3. /\ Cardinality(V \cup VoiceOf(e)) + Cardinality(S \cup SoundOf(e)) = Cardinality(V) + Cardinality(S) + 1
          /\ V \cup VoiceOf(e) \in SUBSET Voice /\ S \cup SoundOf(e) \in SUBSET Sound
      <4>1. VoiceOf(e) \subseteq Voice \ V /\ SoundOf(e) \subseteq Sound \ S
        BY <3>2
      <4> QED BY <4>1, OneMore
    <3>4. Len(evt) - m <= NoticeCap + Cardinality(V) + Cardinality(S)
      BY <3>1 DEF StretchesFit
    <3>5. /\ Cardinality(V) \in Nat /\ Cardinality(S) \in Nat /\ m \in Nat
          /\ Cardinality(V \cup VoiceOf(e)) \in Nat /\ Cardinality(S \cup SoundOf(e)) \in Nat
      BY <3>3, SlotCounts
    <3>6. Len(evt') - m <= NoticeCap + Cardinality(V \cup VoiceOf(e)) + Cardinality(S \cup SoundOf(e))
      <4>1. PICK n \in Nat, c \in Nat, d \in Nat : /\ n = Len(evt) /\ c = Cardinality(V) + Cardinality(S)
                                                  /\ d = Cardinality(V \cup VoiceOf(e)) + Cardinality(S \cup SoundOf(e))
        BY <1>0, <3>5
      <4>2. n - m <= NoticeCap + c /\ d = c + 1 /\ Len(evt') = n + 1
        <5>1. d = c + 1
          BY <3>3, <4>1
        <5>2. n - m <= NoticeCap + c
          BY <1>0, <3>4, <3>5, <4>1
        <5>3. Len(evt') = n + 1
          BY <1>7, <4>1
        <5> QED BY <5>1, <5>2, <5>3
      <4>3. Len(evt') - m <= NoticeCap + d
        <5>1. NoticeCap \in Nat /\ m \in Nat
          BY <1>0, <3>5
        <5>2. n + 1 - m <= NoticeCap + (c + 1)
          BY <4>2, <5>1
        <5> QED BY <4>2, <5>2
      <4>4. NoticeCap + d = NoticeCap + Cardinality(V \cup VoiceOf(e)) + Cardinality(S \cup SoundOf(e))
        BY <1>0, <3>5, <4>1
      <4> QED BY <4>3, <4>4
    <3> QED BY <1>7, <3>1, <3>6
  <2>2. ASSUME NEW m \in 0 .. Len(evt'), m = Len(evt')
        PROVE  Len(evt') - m <= NoticeCap + Cardinality(VoicesBack(m)') + Cardinality(SoundsBack(m)')
    <3>1. Cardinality(VoicesBack(m)') \in Nat /\ Cardinality(SoundsBack(m)') \in Nat
      BY BackTypes, SlotCounts
    <3> QED BY <1>0, <1>7, <2>2, <3>1
  <2>3. \A m \in 0 .. Len(evt') : m \in 0 .. Len(evt) \/ m = Len(evt')
    BY <1>0, <1>7
  <2> QED BY <2>1, <2>2, <2>3 DEF StretchesFit, NoticeCap
<1>9. RingFits(vs1, ss1)'
  <2>1. VoicesBack(0)' = VoicesBack(0) \cup VoiceOf(e) /\ SoundsBack(0)' = SoundsBack(0) \cup SoundOf(e)
    BY <1>0, <1>7
  <2>2. Len(evt') + edone' <= NoticeCap + Cardinality(vs1) + Cardinality(ss1)
    BY <1>0, <1>3, <1>4, <1>7
  <2>3. VoicesBack(0)' \subseteq vs1 /\ SoundsBack(0)' \subseteq ss1
    BY <1>1, <2>1 DEF RingFits
  <2>4. edone' = 0 => vs1 = VoicesBack(0)' /\ ss1 = SoundsBack(0)'
    BY <1>1, <2>1 DEF RingFits
  <2>5. \A i \in vs1 : ~voice'[i].active /\ voice'[i].gen # 0
    BY <1>1 DEF VoicesAside
  <2>6. \A s \in ss1 \ SoundsBack(0)' : ~snd'[s].inuse
    BY <1>1, <2>1 DEF RingFits
  <2> QED BY <2>2, <2>3, <2>4, <2>5, <2>6 DEF RingFits, NoticeCap
<1> QED BY <1>1, <1>6, <1>8, <1>9 DEF NoAckLost

\* A step that posts a notice, if the notices have room.
LEMMA NoticeFits ==
    ASSUME Shape, Shape', NoAckLost, StretchesFit,
           NEW vs \in SUBSET Voice, NEW ss \in SUBSET Sound, RingFits(vs, ss), VoicesAside(vs),
           UNCHANGED <<snd, edone, lost>>,
           NEW e \in Evt, evt' = Append(evt, e), NoticeRoom, e.t = "NOTICE"
    PROVE  NoAckLost' /\ StretchesFit' /\ RingFits(vs, ss)'
<1>0. /\ NoticeCap \in Nat /\ Len(evt) \in Nat /\ edone \in Nat
  BY RingSize, RingTypes DEF Shape, TypeOK
<1>1. Len(evt) + edone < NoticeCap
  BY DEF NoticeRoom, NoticeCap
<1>2. /\ Len(evt') = Len(evt) + 1
      /\ \A m \in 0 .. Len(evt) : VoicesBack(m)' = VoicesBack(m) /\ SoundsBack(m)' = SoundsBack(m)
  <2>1. VoiceOf(e) = {} /\ SoundOf(e) = {}
    BY DEF VoiceOf, SoundOf
  <2> QED BY <2>1, GivenBackMore
<1>3. StretchesFit'
  <2>1. ASSUME NEW m \in 0 .. Len(evt')
        PROVE  Len(evt') - m <= NoticeCap + Cardinality(VoicesBack(m)') + Cardinality(SoundsBack(m)')
    <3>1. Cardinality(VoicesBack(m)') \in Nat /\ Cardinality(SoundsBack(m)') \in Nat
      BY BackTypes, SlotCounts
    <3> QED BY <1>0, <1>1, <1>2, <3>1
  <2> QED BY <2>1 DEF StretchesFit, NoticeCap
<1>4. RingFits(vs, ss)'
  <2>1. VoicesBack(0)' = VoicesBack(0) /\ SoundsBack(0)' = SoundsBack(0)
    BY <1>0, <1>2
  <2>2. Cardinality(vs) \in Nat /\ Cardinality(ss) \in Nat
    BY SlotCounts
  <2>3. Len(evt') + edone' <= NoticeCap + Cardinality(vs) + Cardinality(ss)
    BY <1>0, <1>1, <1>2, <2>2
  <2> QED BY <2>1, <2>3 DEF RingFits, NoticeCap, VoicesAside
<1> QED BY <1>3, <1>4 DEF NoAckLost

\* A step that leaves the events alone.
LEMMA QuietFits ==
    ASSUME NoAckLost, StretchesFit,
           NEW vs \in SUBSET Voice, NEW ss \in SUBSET Sound, RingFits(vs, ss), VoicesAside(vs),
           UNCHANGED <<evt, edone, lost>>, \A s \in ss \ SoundsBack(0) : ~snd'[s].inuse
    PROVE  NoAckLost' /\ StretchesFit' /\ RingFits(vs, ss)'
<1>1. \A m : VoicesBack(m)' = VoicesBack(m) /\ SoundsBack(m)' = SoundsBack(m)
  BY DEF VoicesBack, SoundsBack
<1>2. StretchesFit'
  BY <1>1 DEF StretchesFit, NoticeCap
<1>3. RingFits(vs, ss)'
  BY <1>1 DEF RingFits, NoticeCap, VoicesAside
<1> QED BY <1>2, <1>3 DEF NoAckLost

\* What a step of the control thread does to the events: outside drain_events nothing; inside, it
\* handles one - the sound of a retire it handles is free - or releases those it handled.
EvtHandled ==
    /\ EvtShift(1) /\ 1 \in 1 .. Len(evt) /\ edone' = edone + 1 /\ ctl'.pc = "drain"
    /\ evt[1].t = "RETIRED" => ~snd'[evt[1].h.idx].inuse
    /\ \A s \in Sound : snd'[s].inuse => snd[s].inuse
EvtsReleased == evt' = evt /\ edone' = 0 /\ snd' = snd
OutsideDrain == ctl.pc # "drain" /\ evt' = evt /\ edone' = edone

LEMMA HandledEvt ==
    ASSUME SlotsInv, AckFindsItsSound, DrainEnded \/ DrainRetired \/ DrainNotice PROVE EvtHandled
<1>0. Shape /\ ControlShape
  BY SlotsUse
<1>1. PICK t \in EvtTypes : TakeEvt(t) /\ (t = "RETIRED" => DrainRetired)
  BY DEF DrainEnded, DrainRetired, DrainNotice, EvtTypes
<1>2. /\ EvtShift(1) /\ evt[1] = Head(evt) /\ evt[1].t = t /\ evt[1].h \in Handle
      /\ 1 \in 1 .. Len(evt) /\ ctl'.pc = "drain"
  BY <1>0, <1>1, TakenEvt
<1>3. edone' = edone + 1
  BY <1>1 DEF TakeEvt
<1>4. CASE t # "RETIRED"
  <2>1. \A s \in Sound : snd'[s].inuse => snd[s].inuse
    <3>1. CASE DrainEnded
      <4>1. PICK h \in Handle : h = Head(evt).h
        BY <1>2
      <4>2. ReleasePush(h, cmd)
        BY <3>1, <4>1 DEF DrainEnded
      <4>3. snd' = snd \/ \E p \in Handle : snd' = Retiring(snd, p)
        BY <1>0, <4>2, SlotFields DEF ReleasePush, IsPush, Live
      <4> QED BY <1>0, <4>3, RetiringInuse
    <3>2. CASE DrainNotice
      BY <3>2 DEF DrainNotice
    <3>3. ~DrainRetired
      BY <1>1, <1>2, <1>4 DEF DrainRetired, TakeEvt
    <3> QED BY <3>1, <3>2, <3>3
  <2> QED BY <1>2, <1>3, <1>4, <2>1 DEF EvtHandled
<1>5. CASE t = "RETIRED"
  <2>1. PICK h \in Handle : h = evt[1].h /\ SndLive(h) /\ h.idx \in Sound
    BY <1>2, <1>5 DEF AckFindsItsSound, SndLive
  <2>2. snd' = [snd EXCEPT ![h.idx].inuse = FALSE, ![h.idx].retiring = FALSE]
    BY <1>1, <1>2, <1>5, <2>1 DEF DrainRetired
  <2>3. snd \in [Sound -> SoundSlot]
    BY <1>0 DEF ControlShape
  <2>4. \A r \in SoundSlot : ~[r EXCEPT !.inuse = FALSE, !.retiring = FALSE].inuse
    BY DEF SoundSlot
  <2>5. ~snd'[h.idx].inuse /\ \A s \in Sound : s # h.idx => snd'[s] = snd[s]
    BY <2>1, <2>2, <2>3, <2>4
  <2> QED BY <1>2, <1>3, <2>1, <2>5 DEF EvtHandled
<1> QED BY <1>4, <1>5

LEMMA ControlAcks ==
    ASSUME SlotsInv, AckFindsItsSound, ControlNext
    PROVE  lost' = lost /\ (OutsideDrain \/ EvtHandled \/ EvtsReleased)
<1>1. CASE DrainEnded \/ DrainRetired \/ DrainNotice
  <2>1. lost' = lost
    BY <1>1 DEF DrainEnded, DrainRetired, DrainNotice, audVars
  <2> QED BY <1>1, <2>1, HandledEvt
<1>2. CASE EndDrainEvents
  BY <1>2 DEF EndDrainEvents, EvtsReleased, audVars
<1>3. CASE CreateSource \/ CreateStream \/ CreateCut \/ CreatePush
  BY <1>3 DEF CreateSource, CreateStream, CreateCut, CreatePush, Call, OutsideDrain
<1>4. CASE \E s \in AppSounds : PlayOneshot(s) \/ Unload(s)
  BY <1>4 DEF PlayOneshot, Unload, Call, OutsideDrain, audVars
<1>5. CASE \E h \in app, s \in AppSounds : Play(h, s) \/ Queue(h, s)
  BY <1>5 DEF Play, Queue, Call, OutsideDrain, audVars
<1>6. CASE StopAll \/ \E h \in app : Stop(h) \/ DestroySource(h)
  BY <1>6 DEF StopAll, Stop, DestroySource, Call, OutsideDrain, audVars
<1>7. CASE \/ \E h \in app, p \in Priorities : SetPriority(h, p)
           \/ \E stream \in BOOLEAN : LoadSound(stream)
  BY <1>7 DEF SetPriority, LoadSound, Call, OutsideDrain, ringVars, audVars
<1>8. CASE Commit \/ (\E s \in ctl.try : RetryParked(s)) \/ BeginDrainEvents
  BY <1>8 DEF Commit, RetryParked, BeginDrainEvents, OutsideDrain, ringVars, audVars
<1> QED BY <1>1, <1>2, <1>3, <1>4, <1>5, <1>6, <1>7, <1>8 DEF ControlNext

\* An event handled: the stretch after it is shorter, and its slot stays accounted for.
LEMMA HandledFits ==
    ASSUME Shape, Shape', NoAckLost, StretchesFit,
           NEW vs \in SUBSET Voice, NEW ss \in SUBSET Sound, RingFits(vs, ss), VoicesAside(vs),
           EvtHandled, lost' = lost
    PROVE  NoAckLost' /\ StretchesFit' /\ RingFits(vs, ss)'
<1>1. /\ Len(evt') = Len(evt) - 1 /\ Len(evt) \in Nat /\ Len(evt') \in Nat /\ edone \in Nat
      /\ \A k \in 1 .. Len(evt') : evt'[k] = evt[k + 1]
      /\ 1 \in 1 .. Len(evt) /\ edone' = edone + 1
  BY RingTypes, RingTypesPrime DEF EvtHandled, EvtShift, Shape, TypeOK
<1>2. ASSUME NEW m \in 0 .. Len(evt')
      PROVE  VoicesBack(m)' = VoicesBack(m + 1) /\ SoundsBack(m)' = SoundsBack(m + 1)
  <2>1. \A k \in m + 1 .. Len(evt') : k + 1 \in m + 1 + 1 .. Len(evt) /\ evt'[k] = evt[k + 1]
    BY <1>1
  <2>2. \A k \in m + 1 + 1 .. Len(evt) : k - 1 \in m + 1 .. Len(evt') /\ evt'[k - 1] = evt[k]
    <3>1. \A k \in m + 1 + 1 .. Len(evt) : k - 1 \in m + 1 .. Len(evt') /\ k - 1 \in 1 .. Len(evt') /\ k - 1 + 1 = k
      BY <1>1
    <3> QED BY <1>1, <3>1
  <2>3. VoicesBack(m)' = VoicesBack(m + 1)
    BY <2>1, <2>2 DEF VoicesBack
  <2>4. SoundsBack(m)' = SoundsBack(m + 1)
    BY <2>1, <2>2 DEF SoundsBack
  <2> QED BY <2>3, <2>4
<1>3. StretchesFit'
  <2>1. ASSUME NEW m \in 0 .. Len(evt')
        PROVE  Len(evt') - m <= NoticeCap + Cardinality(VoicesBack(m)') + Cardinality(SoundsBack(m)')
    <3>1. m + 1 \in 0 .. Len(evt) /\ Len(evt') - m = Len(evt) - (m + 1)
      BY <1>1
    <3>2. Len(evt) - (m + 1) <= NoticeCap + Cardinality(VoicesBack(m + 1)) + Cardinality(SoundsBack(m + 1))
      BY <3>1 DEF StretchesFit
    <3> QED BY <1>2, <3>1, <3>2
  <2> QED BY <2>1 DEF StretchesFit, NoticeCap
<1>4. RingFits(vs, ss)'
  <2>1. VoicesBack(0)' = VoicesBack(1) /\ SoundsBack(0)' = SoundsBack(1)
    <3>1. 0 \in 0 .. Len(evt') /\ 0 + 1 = 1
      BY <1>1
    <3> QED BY <1>2, <3>1
  <2>2. VoicesBack(1) \subseteq VoicesBack(0) /\ SoundsBack(1) \subseteq SoundsBack(0)
    <3>1. 1 \in 0 .. Len(evt)
      BY <1>1
    <3> QED BY <3>1, LaterFewer
  <2>3. Len(evt') + edone' = Len(evt) + edone /\ edone' # 0
    BY <1>1
  <2>4. \A s \in ss \ SoundsBack(1) : ~snd'[s].inuse
    <3>1. ASSUME NEW s \in ss, s \notin SoundsBack(1), s \in SoundsBack(0) PROVE ~snd'[s].inuse
      <4>1. PICK k \in 0 + 1 .. Len(evt) : evt[k].t = "RETIRED" /\ evt[k].h.idx = s
        BY <3>1 DEF SoundsBack
      <4>2. k = 1 \/ k \in 1 + 1 .. Len(evt)
        BY <1>1
      <4>3. k = 1
        BY <3>1, <4>1, <4>2 DEF SoundsBack
      <4> QED BY <4>1, <4>3 DEF EvtHandled
    <3>2. ASSUME NEW s \in ss, s \notin SoundsBack(0) PROVE ~snd'[s].inuse
      BY <3>2 DEF RingFits, EvtHandled
    <3> QED BY <3>1, <3>2
  <2> QED BY <2>1, <2>2, <2>3, <2>4 DEF RingFits, NoticeCap, VoicesAside
<1> QED BY <1>3, <1>4 DEF NoAckLost

\* The slots of the handled events are released: what still waits gives back enough on its own.
LEMMA ReleasedFits ==
    ASSUME Shape, NoAckLost, StretchesFit, NEW vs \in SUBSET Voice, NEW ss \in SUBSET Sound, RingFits(vs, ss),
           VoicesAside(vs), EvtsReleased, lost' = lost
    PROVE  NoAckLost' /\ StretchesFit' /\ RingFits(VoicesBack(0), SoundsBack(0))'
<1>1. \A m : VoicesBack(m)' = VoicesBack(m) /\ SoundsBack(m)' = SoundsBack(m)
  BY DEF VoicesBack, SoundsBack, EvtsReleased
<1>2. StretchesFit'
  BY <1>1 DEF StretchesFit, NoticeCap, EvtsReleased
<1>3. Len(evt') + edone' <= NoticeCap + Cardinality(VoicesBack(0)) + Cardinality(SoundsBack(0))
  <2>1. Len(evt) \in Nat /\ 0 \in 0 .. Len(evt)
    BY RingTypes
  <2>2. Len(evt) - 0 <= NoticeCap + Cardinality(VoicesBack(0)) + Cardinality(SoundsBack(0))
    BY <2>1 DEF StretchesFit
  <2>3. Len(evt') + edone' = Len(evt) - 0
    BY <2>1 DEF EvtsReleased
  <2> QED BY <2>2, <2>3
<1>4. \A i \in VoicesBack(0) : ~voice'[i].active /\ voice'[i].gen # 0
  BY DEF RingFits, VoicesAside
<1>5. RingFits(VoicesBack(0), SoundsBack(0))'
  BY <1>1, <1>3, <1>4 DEF RingFits, NoticeCap
<1> QED BY <1>2, <1>5 DEF NoAckLost

LEMMA ControlFits ==
    ASSUME SlotsInv, Shape', AckFindsItsSound, AckRoomInv, ControlNext PROVE AckRoomInv'
<1>0. Shape /\ NoAckLost /\ StretchesFit
  BY SlotsUse DEF AckRoomInv
<1>1. voice' = voice /\ lost' = lost /\ (OutsideDrain \/ EvtHandled \/ EvtsReleased)
  BY ControlAcks, ControlVoices
<1>2. PICK vs \in SUBSET Voice, ss \in SUBSET Sound : RingFits(vs, ss)
  BY DEF AckRoomInv
<1>3. VoicesAside(vs)
  BY <1>1, <1>2 DEF VoicesAside, RingFits, AckRoomInv
<1>4. CASE OutsideDrain
  <2>1. edone = 0 /\ edone' = 0
    BY <1>4 DEF OutsideDrain, AckRoomInv
  <2>2. \A s \in ss \ SoundsBack(0) : ~snd'[s].inuse
    BY <1>2, <2>1 DEF RingFits
  <2>3. NoAckLost' /\ StretchesFit' /\ RingFits(vs, ss)'
    BY <1>0, <1>1, <1>2, <1>3, <1>4, <2>2, QuietFits DEF OutsideDrain
  <2> QED BY <1>3, <2>1, <2>3 DEF AckRoomInv, VoicesAside
<1>5. CASE EvtHandled
  <2>1. NoAckLost' /\ StretchesFit' /\ RingFits(vs, ss)'
    BY <1>0, <1>1, <1>2, <1>3, <1>5, HandledFits
  <2> QED BY <1>3, <1>5, <2>1 DEF AckRoomInv, VoicesAside, EvtHandled
<1>6. CASE EvtsReleased
  <2>1. NoAckLost' /\ StretchesFit' /\ RingFits(VoicesBack(0), SoundsBack(0))'
    BY <1>0, <1>1, <1>2, <1>3, <1>6, ReleasedFits
  <2>2. VoicesBack(0)' \in SUBSET Voice /\ SoundsBack(0)' \in SUBSET Sound
    BY BackTypes
  <2>3. edone' = 0
    BY <1>6 DEF EvtsReleased
  <2>4. \E us \in SUBSET Voice, ts \in SUBSET Sound : RingFits(us, ts)'
    BY <2>1, <2>2 DEF RingFits
  <2> QED BY <1>3, <2>1, <2>3, <2>4 DEF AckRoomInv, VoicesAside
<1> QED BY <1>1, <1>4, <1>5, <1>6

\* What a step of the audio thread does to the voices: each keeps its let, and is at most given up, or
\* gets its next one.
VoicesGoOn == \A i \in Voice :
    \/ voice'[i].gen = voice[i].gen /\ (voice'[i].active => voice[i].active)
    \/ voice[i].gen < voice'[i].gen
\* What it does to the events.
EndedAcked == \E e \in Evt, i \in Voice :
    PushAck(e) /\ e.t = "ENDED" /\ e.h.idx = i /\ voice[i].active /\ ~voice'[i].active /\ voice'[i].gen = voice[i].gen
RetiredAcked == \E e \in Evt :
    PushAck(e) /\ e.t = "RETIRED" /\ e.h = cmd[1].s /\ 1 \in 1 .. Len(cmd) /\ cmd[1].t = "RETIRE"
NoticePosted == \E e \in Evt : PushNotice(e) /\ e.t = "NOTICE" /\ lost' = lost
AudioEvts == (evt' = evt /\ lost' = lost) \/ EndedAcked \/ RetiredAcked \/ NoticePosted

LEMMA AudioControl == AudioNext => UNCHANGED <<slot, free, snd, edone, ctl>>
BY DEF AudioNext, BeginBlock, EndDrainCommands, EndBlock, DrainCreate, DrainDestroy, DrainPlay, DrainStop,
   DrainStopAll, DrainQueue, DrainSteal, DrainRetire, DrainParam, MixFinalize, MixOn, MixChain, MixEnd,
   TakeCmd, Mixed, ctlVars, ringVars

\* A create makes its voice anew, at a let of its own.
LEMMA CreateGoesOn == ASSUME Shape, LetOrder, DrainCreate PROVE VoicesGoOn
<1>1. "CREATE" \in CmdTypes /\ TakeCmd("CREATE")
  BY DEF CmdTypes, DrainCreate
<1>2. 1 \in 1 .. Len(cmd) /\ cmd[1] = Head(cmd) /\ cmd[1].t = "CREATE"
  BY <1>1, TakenCmd
<1>3. cmd[1].v.idx \in Voice /\ voice[cmd[1].v.idx].gen < cmd[1].v.gen
  BY <1>2 DEF LetOrder, Commands
<1>4. PICK r : r.gen = cmd[1].v.gen /\ voice' = [voice EXCEPT ![cmd[1].v.idx] = r]
  <2>1. PICK r : r = [gen |-> Head(cmd).v.gen, active |-> TRUE, playing |-> FALSE, snd |-> None,
                      stopping |-> 0, oneshot |-> FALSE, open |-> TRUE, queue |-> <<>>]
    OBVIOUS
  <2> QED BY <1>2, <2>1 DEF DrainCreate
<1>5. voice \in [Voice -> VoiceRec]
  BY DEF Shape, TypeOK
<1>6. voice'[cmd[1].v.idx].gen = cmd[1].v.gen /\ \A i \in Voice : i # cmd[1].v.idx => voice'[i] = voice[i]
  BY <1>3, <1>4, <1>5
<1> QED BY <1>3, <1>6 DEF VoicesGoOn

\* The commands that bind, chain or detach a sound, and the mixer's chain, leave the lets alone.
LEMMA BindsGoOn ==
    ASSUME Shape, DrainPlay \/ DrainQueue \/ DrainRetire \/ \E i \in Voice : MixChain(i) PROVE VoicesGoOn
<1>1. voice \in [Voice -> VoiceRec]
  BY DEF Shape, TypeOK
<1>2. CASE DrainPlay
  <2>1. PICK c : c = Head(cmd)
    OBVIOUS
  <2>2. \A r \in VoiceRec : /\ Bound(r, c).gen = r.gen /\ Bound(r, c).active = r.active
                            /\ Detached(r).gen = r.gen /\ Detached(r).active = r.active
    BY DEF VoiceRec, Bound, Detached
  <2>3. \A i \in Voice : voice'[i] \in {voice[i], Bound(voice[i], c), Detached(voice[i])}
    BY <1>1, <1>2, <2>1 DEF DrainPlay
  <2> QED BY <1>1, <2>2, <2>3 DEF VoicesGoOn
<1>3. CASE DrainQueue
  <2>1. PICK c : c = Head(cmd)
    OBVIOUS
  <2>2. \A r \in VoiceRec : LET q == [r EXCEPT !.queue = Append(@, c.s)]
                            IN  q.gen = r.gen /\ q.active = r.active
    BY DEF VoiceRec
  <2>3. voice' = voice \/ voice' = [voice EXCEPT ![c.v.idx].queue = Append(@, c.s)]
    BY <1>3, <2>1 DEF DrainQueue
  <2> QED BY <1>1, <2>2, <2>3 DEF VoicesGoOn
<1>4. CASE DrainRetire
  <2>1. \A j : \A r \in VoiceRec : Released(r, j).gen = r.gen /\ Released(r, j).active = r.active
    BY DEF VoiceRec, Released
  <2>2. voice' = voice \/ \E j : voice' = [i \in Voice |-> Released(voice[i], j)]
    BY <1>4 DEF DrainRetire
  <2> QED BY <1>1, <2>1, <2>2 DEF VoicesGoOn
<1>5. CASE \E i \in Voice : MixChain(i)
  <2>0. PICK i \in Voice : MixChain(i)
    BY <1>5
  <2>1. PICK s, q, o : voice' = [voice EXCEPT ![i].snd = s, ![i].queue = q, ![i].open = o]
    <3>1. \E k, o : voice' = [voice EXCEPT ![i].snd = voice[i].queue[k],
                            ![i].queue = SubSeq(voice[i].queue, k + 1, Len(voice[i].queue)), ![i].open = o]
      BY <2>0, Zenon DEF MixChain
    <3> QED BY <3>1, Zenon
  <2>2. \A r \in VoiceRec : LET c == [r EXCEPT !.snd = s, !.queue = q, !.open = o]
                            IN  c.gen = r.gen /\ c.active = r.active
    BY DEF VoiceRec
  <2>3. voice'[i].gen = voice[i].gen /\ voice'[i].active = voice[i].active
    BY <1>1, <2>1, <2>2
  <2>4. \A j \in Voice : j # i => voice'[j] = voice[j]
    BY <1>1, <2>1
  <2> QED BY <2>3, <2>4 DEF VoicesGoOn
<1> QED BY <1>2, <1>3, <1>4, <1>5

LEMMA AudioGoesOn == ASSUME Shape, LetOrder, AudioNext PROVE VoicesGoOn
<1>1. CASE Calm
  BY <1>1, CalmVoices DEF VoicesCalm, VoicesGoOn
<1> QED BY <1>1, CreateGoesOn, BindsGoOn DEF AudioNext, Calm

LEMMA StealEvts == ASSUME Shape, DrainSteal PROVE AudioEvts
<1>1. "STEAL" \in CmdTypes /\ TakeCmd("STEAL")
  BY DEF CmdTypes, DrainSteal
<1>2. cmd[1] = Head(cmd) /\ cmd[1].v \in Handle
  BY <1>1, TakenCmd
<1>3. PICK h \in Handle : h = Head(cmd).v
  BY <1>2
<1>4. CASE /\ VoiceFor(h) /\ PushAck(MkEvt("ENDED", h))
           /\ voice' = [voice EXCEPT ![h.idx].stopping = 0, ![h.idx].active = FALSE, ![h.idx].snd = None]
  <2>1. h.idx \in Voice /\ voice[h.idx].active
    BY <1>4 DEF VoiceFor
  <2>2. /\ \A r \in VoiceRec : LET q == [r EXCEPT !.stopping = 0, !.active = FALSE, !.snd = None]
                               IN  q.gen = r.gen /\ q.active = FALSE
        /\ voice \in [Voice -> VoiceRec]
    BY DEF VoiceRec, Shape, TypeOK
  <2>3. voice'[h.idx].gen = voice[h.idx].gen /\ ~voice'[h.idx].active
    BY <1>4, <2>1, <2>2
  <2>4. "ENDED" \in EvtTypes
    BY DEF EvtTypes
  <2>5. PICK e \in Evt : e = MkEvt("ENDED", h) /\ e.t = "ENDED" /\ e.h = h
    BY <2>4, MkEvents
  <2> QED BY <1>4, <2>1, <2>3, <2>5 DEF AudioEvts, EndedAcked
<1>5. CASE evt' = evt /\ lost' = lost
  BY <1>5 DEF AudioEvts
<1> QED BY <1>3, <1>4, <1>5 DEF DrainSteal

LEMMA RetireEvts == ASSUME Shape, DrainRetire PROVE AudioEvts
<1>1. "RETIRE" \in CmdTypes /\ TakeCmd("RETIRE")
  BY DEF CmdTypes, DrainRetire
<1>2. cmd[1] = Head(cmd) /\ cmd[1].t = "RETIRE" /\ cmd[1].s \in Handle /\ 1 \in 1 .. Len(cmd)
  BY <1>1, TakenCmd
<1>3. "RETIRED" \in EvtTypes
  BY DEF EvtTypes
<1>4. PICK e \in Evt : e = MkEvt("RETIRED", cmd[1].s) /\ e.t = "RETIRED" /\ e.h = cmd[1].s
  BY <1>2, <1>3, MkEvents
<1>5. PushAck(e)
  BY <1>2, <1>4 DEF DrainRetire
<1> QED BY <1>2, <1>4, <1>5 DEF AudioEvts, RetiredAcked

LEMMA MixEvts == ASSUME Shape, NEW i \in Voice, MixFinalize(i) \/ MixEnd(i) PROVE AudioEvts
<1>0. voice \in [Voice -> VoiceRec] /\ VoiceHandle(i) \in Handle /\ VoiceHandle(i) = H(i, voice[i].gen)
      /\ VoiceHandle(i).idx = i
  BY VoiceHandles DEF Shape, TypeOK, VoiceHandle
<1>1. voice[i].active
  BY DEF MixFinalize, MixEnd, MixAt, ToMix, Renderable
<1>2. PICK e \in Evt, n \in Evt : /\ e = MkEvt("ENDED", H(i, voice[i].gen)) /\ e.t = "ENDED" /\ e.h.idx = i
                                  /\ n = MkEvt("NOTICE", H(i, voice[i].gen)) /\ n.t = "NOTICE"
  <2>1. "ENDED" \in EvtTypes /\ "NOTICE" \in EvtTypes
    BY DEF EvtTypes
  <2> QED BY <1>0, <2>1, MkEvents
<1>3. CASE MixFinalize(i)
  <2>1. PICK b \in BOOLEAN : b = ~GivesBack(i)
    OBVIOUS
  <2>2. voice' = [voice EXCEPT ![i].stopping = 0, ![i].playing = FALSE, ![i].active = b]
    BY <1>3, <2>1 DEF MixFinalize
  <2>3. \A r \in VoiceRec : LET q == [r EXCEPT !.stopping = 0, !.playing = FALSE, !.active = b]
                            IN  q.gen = r.gen /\ q.active = b
    BY DEF VoiceRec
  <2>4. voice'[i].gen = voice[i].gen /\ voice'[i].active = b
    BY <1>0, <2>2, <2>3
  <2>5. IF GivesBack(i) THEN PushAck(e) ELSE evt' = evt /\ lost' = lost
    BY <1>2, <1>3 DEF MixFinalize
  <2> QED BY <1>1, <1>2, <2>1, <2>4, <2>5 DEF AudioEvts, EndedAcked
<1>4. CASE MixEnd(i)
  <2>1. PICK b \in BOOLEAN : b = ~voice[i].oneshot
    OBVIOUS
  <2>2. PICK o, q : voice' = [voice EXCEPT ![i].playing = FALSE, ![i].open = o, ![i].active = b, ![i].queue = q]
    BY <1>4, <2>1 DEF MixEnd
  <2>3. \A r \in VoiceRec : LET c == [r EXCEPT !.playing = FALSE, !.open = o, !.active = b, !.queue = q]
                            IN  c.gen = r.gen /\ c.active = b
    BY DEF VoiceRec
  <2>4. voice'[i].gen = voice[i].gen /\ voice'[i].active = b
    BY <1>0, <2>2, <2>3
  <2>5. IF voice[i].oneshot THEN PushAck(e) ELSE PushNotice(n) /\ lost' = lost
    BY <1>2, <1>4 DEF MixEnd
  <2> QED BY <1>1, <1>2, <2>1, <2>4, <2>5 DEF AudioEvts, EndedAcked, NoticePosted
<1> QED BY <1>3, <1>4

LEMMA AudioPosts == ASSUME Shape, AudioNext PROVE AudioEvts
<1>1. CASE \/ BeginBlock \/ EndDrainCommands \/ EndBlock
           \/ DrainCreate \/ DrainDestroy \/ DrainPlay \/ DrainStop \/ DrainStopAll \/ DrainQueue \/ DrainParam
  BY <1>1 DEF BeginBlock, EndDrainCommands, EndBlock, DrainCreate, DrainDestroy, DrainPlay, DrainStop,
     DrainStopAll, DrainQueue, DrainParam, ringVars, AudioEvts
<1>2. CASE \E i \in Voice : MixOn(i) \/ MixChain(i)
  BY <1>2 DEF MixOn, MixChain, AudioEvts
<1> QED BY <1>1, <1>2, StealEvts, RetireEvts, MixEvts DEF AudioNext

\* The sound that a retire frees awaits no other ack, handled or not.
LEMMA RetiredOnce ==
    ASSUME Shape, RetireFindsItsSound, AckFindsItsSound, RetireOnce, NEW vs, NEW ss, RingFits(vs, ss),
           1 \in 1 .. Len(cmd), cmd[1].t = "RETIRE"
    PROVE  cmd[1].s.idx \in Sound \ ss
<1>1. SndLive(cmd[1].s) /\ cmd[1].s \in Handle
  BY RingTypes DEF RetireFindsItsSound
<1>2. cmd[1].s.idx \notin SoundsBack(0)
  <2>1. SUFFICES ASSUME NEW k \in 0 + 1 .. Len(evt), evt[k].t = "RETIRED", evt[k].h.idx = cmd[1].s.idx
                 PROVE  FALSE
    BY DEF SoundsBack
  <2>2. SndLive(evt[k].h) /\ evt[k].h \in Handle
    BY <2>1, RingTypes DEF AckFindsItsSound
  <2>3. evt[k].h = cmd[1].s
    BY <1>1, <2>1, <2>2, SameHandle DEF SndLive
  <2> QED BY <2>1, <2>3 DEF RetireOnce
<1> QED BY <1>1, <1>2 DEF RingFits, SndLive

LEMMA AudioFits ==
    ASSUME Shape, Shape', RetireInv, LetOrder, AckRoomInv, AudioNext, RemadeWhenHandled PROVE AckRoomInv'
<1>0. /\ NoAckLost /\ StretchesFit /\ UNCHANGED <<snd, edone, ctl>>
      /\ RetireFindsItsSound /\ AckFindsItsSound /\ RetireOnce
  BY AudioControl DEF AckRoomInv, RetireInv
<1>1. PICK vs \in SUBSET Voice, ss \in SUBSET Sound : RingFits(vs, ss)
  BY DEF AckRoomInv
<1>2. VoicesAside(vs)
  <2>1. ASSUME NEW i \in Voice, voice'[i].active PROVE voice'[i].gen # 0
    <3>1. voice[i].gen \in Nat /\ voice'[i].gen \in Nat
      BY VoiceHandles, VoiceHandlesPrime
    <3> QED BY <2>1, <3>1, AudioGoesOn DEF VoicesGoOn, AckRoomInv
  <2>2. ASSUME NEW i \in vs PROVE ~voice'[i].active /\ voice'[i].gen # 0
    <3>1. ~voice[i].active /\ voice[i].gen # 0 /\ i \in Voice
      BY <1>1, <2>2 DEF RingFits
    <3>2. edone = 0 => i \in VoicesBack(0)
      BY <1>1, <2>2 DEF RingFits
    <3>3. voice'[i].gen = voice[i].gen
      BY <3>1, <3>2 DEF RemadeWhenHandled
    <3>4. voice[i].gen \in Nat
      BY <3>1, VoiceHandles
    <3> QED BY <3>1, <3>3, <3>4, AudioGoesOn DEF VoicesGoOn
  <2> QED BY <2>1, <2>2 DEF VoicesAside
<1>3. ASSUME NEW us \in SUBSET Voice, NEW ts \in SUBSET Sound, NoAckLost', StretchesFit', RingFits(us, ts)'
      PROVE  AckRoomInv'
  BY <1>0, <1>2, <1>3 DEF AckRoomInv, VoicesAside
<1>4. CASE evt' = evt /\ lost' = lost
  <2>1. \A s \in ss \ SoundsBack(0) : ~snd'[s].inuse
    BY <1>0, <1>1 DEF RingFits
  <2> QED BY <1>0, <1>1, <1>2, <1>3, <1>4, <2>1, QuietFits
<1>5. CASE EndedAcked \/ RetiredAcked
  <2>1. PICK e \in Evt : /\ PushAck(e) /\ e.t \in {"ENDED", "RETIRED"}
                         /\ VoiceOf(e) \subseteq Voice \ vs /\ SoundOf(e) \subseteq Sound \ ss
                         /\ \A i \in VoiceOf(e) : ~voice'[i].active /\ voice'[i].gen # 0
    <3>1. CASE EndedAcked
      <4>1. PICK e \in Evt, i \in Voice : /\ PushAck(e) /\ e.t = "ENDED" /\ e.h.idx = i /\ voice[i].active
                                          /\ ~voice'[i].active /\ voice'[i].gen = voice[i].gen
        BY <3>1 DEF EndedAcked
      <4>2. VoiceOf(e) = {i} /\ SoundOf(e) = {}
        BY <4>1 DEF VoiceOf, SoundOf
      <4>3. i \notin vs /\ voice'[i].gen # 0
        BY <1>1, <4>1 DEF RingFits, AckRoomInv
      <4> QED BY <4>1, <4>2, <4>3
    <3>2. CASE RetiredAcked
      <4>1. PICK e \in Evt : /\ PushAck(e) /\ e.t = "RETIRED" /\ e.h = cmd[1].s
                             /\ 1 \in 1 .. Len(cmd) /\ cmd[1].t = "RETIRE"
        BY <3>2 DEF RetiredAcked
      <4>2. VoiceOf(e) = {} /\ SoundOf(e) = {cmd[1].s.idx}
        BY <4>1 DEF VoiceOf, SoundOf
      <4>3. cmd[1].s.idx \in Sound \ ss
        BY <1>0, <1>1, <4>1, RetiredOnce
      <4> QED BY <4>1, <4>2, <4>3
    <3> QED BY <1>5, <3>1, <3>2
  <2>2. /\ NoAckLost' /\ StretchesFit' /\ RingFits(vs \cup VoiceOf(e), ss \cup SoundOf(e))'
    BY <1>0, <1>1, <1>2, <2>1, AckFits
  <2>3. vs \cup VoiceOf(e) \in SUBSET Voice /\ ss \cup SoundOf(e) \in SUBSET Sound
    BY <2>1
  <2> QED BY <1>3, <2>2, <2>3
<1>6. CASE NoticePosted
  <2>1. PICK e \in Evt : PushNotice(e) /\ e.t = "NOTICE" /\ lost' = lost
    BY <1>6 DEF NoticePosted
  <2>2. CASE NoticeRoom
    <3>1. evt' = Append(evt, e)
      BY <2>1, <2>2 DEF PushNotice
    <3> QED BY <1>0, <1>1, <1>2, <1>3, <2>1, <2>2, <3>1, NoticeFits
  <2>3. CASE ~NoticeRoom
    BY <1>4, <2>1, <2>3 DEF PushNotice
  <2> QED BY <2>2, <2>3
<1> QED BY <1>4, <1>5, <1>6, AudioPosts DEF AudioEvts

LEMMA InitFits == Init => AckRoomInv
<1> SUFFICES ASSUME Init PROVE AckRoomInv
  OBVIOUS
<1>1. Len(evt) = 0 /\ edone = 0 /\ ~lost /\ \A i \in Voice : ~voice[i].active
  BY DEF Init
<1>2. VoicesBack(0) = {} /\ SoundsBack(0) = {}
  BY <1>1 DEF VoicesBack, SoundsBack
<1>3. Cardinality({}) = 0 /\ NoticeCap \in Nat
  BY FS_EmptySet, RingSize
<1>4. StretchesFit
  <2>1. \A m \in 0 .. Len(evt) : m = 0
    BY <1>1
  <2>2. Len(evt) - 0 <= NoticeCap + Cardinality(VoicesBack(0)) + Cardinality(SoundsBack(0))
    <3>1. Cardinality(VoicesBack(0)) = 0 /\ Cardinality(SoundsBack(0)) = 0
      BY <1>2, <1>3
    <3> QED BY <1>1, <1>3, <3>1
  <2> QED BY <2>1, <2>2, Zenon DEF StretchesFit
<1>5. RingFits({}, {})
  BY <1>1, <1>2, <1>3 DEF RingFits
<1> QED BY <1>1, <1>4, <1>5 DEF AckRoomInv, NoAckLost

-----------------------------------------------------------------------------
(* The theorems: the event ring. *)

\* evt_push has room for every ownership ack, and drain_events leaves it: no stretch of the ring holds
\* more acks than slots, notices included, in any instance - as long as drain_events has handled what
\* a let posted by the time the audio thread sees the slot's next one.
THEOREM AckRoomInvariant == Spec /\ [][RemadeWhenHandled]_vars => []AckRoomInv
<1>1. Init => AckRoomInv
  BY InitFits
<1>2. ASSUME SlotsInv, SlotsInv', RetireInv, LetInv, AckRoomInv, [Next]_vars, [RemadeWhenHandled]_vars
      PROVE  AckRoomInv'
  <2>1. ASSUME SlotsInv, SlotsInv', RetireInv, LetInv, AckRoomInv, Next, RemadeWhenHandled PROVE AckRoomInv'
    <3>1. Shape /\ Shape' /\ AckFindsItsSound /\ LetOrder
      BY <2>1, SlotsUse, SlotsPartsPrime DEF RetireInv, LetInv
    <3> QED BY <2>1, <3>1, ControlFits, AudioFits DEF Next
  <2>2. ASSUME AckRoomInv, UNCHANGED vars PROVE AckRoomInv'
    <3>1. UNCHANGED <<evt, edone, ctl, voice, snd, lost>>
      BY <2>2 DEF vars
    <3>2. \A m : VoicesBack(m)' = VoicesBack(m) /\ SoundsBack(m)' = SoundsBack(m)
      BY <3>1 DEF VoicesBack, SoundsBack
    <3>3. NoAckLost' /\ StretchesFit'
      BY <2>2, <3>1, <3>2 DEF AckRoomInv, NoAckLost, StretchesFit, NoticeCap
    <3>4. PICK vs \in SUBSET Voice, ss \in SUBSET Sound : RingFits(vs, ss)
      BY <2>2 DEF AckRoomInv
    <3>5. RingFits(vs, ss)'
      BY <3>1, <3>2, <3>4 DEF RingFits, NoticeCap
    <3>6. \E us \in SUBSET Voice, ts \in SUBSET Sound : RingFits(us, ts)'
      BY <3>5
    <3>7. /\ edone' # 0 => ctl'.pc = "drain"
          /\ \A i \in Voice : voice'[i].active => voice'[i].gen # 0
      BY <2>2, <3>1 DEF AckRoomInv
    <3>8. /\ NoAckLost' /\ StretchesFit'
          /\ (edone # 0 => ctl.pc = "drain")'
          /\ (\A i \in Voice : voice[i].active => voice[i].gen # 0)'
          /\ (\E us \in SUBSET Voice, ts \in SUBSET Sound : RingFits(us, ts))'
      BY <3>3, <3>6, <3>7
    <3> QED BY <3>8, Zenon DEF AckRoomInv
  <2>3. CASE UNCHANGED vars
    BY <1>2, <2>2, <2>3
  <2>4. CASE Next /\ RemadeWhenHandled
    BY <1>2, <2>1, <2>4
  <2> QED BY <1>2, <2>3, <2>4
<1> QED BY <1>1, <1>2, SlotsInvariant, RetireInvariant, LetInvariant, PTL DEF Spec

\* No ownership ack is dropped by a full event ring: EVT_CAP >= voice_cap + sound_cap is enough, under
\* the same premise, whatever notices, retires, steals and one-shots post.
THEOREM NoAckLostCorrect == Spec /\ [][RemadeWhenHandled]_vars => []NoAckLost
<1>1. AckRoomInv => NoAckLost
  BY DEF AckRoomInv
<1> QED BY <1>1, AckRoomInvariant, PTL

-----------------------------------------------------------------------------
(* Where each slot is let once, the premise is met. *)

GensSame == \A j \in Voice : slot'[j].gen = slot[j].gen

LEMMA FromPoolBound == ASSUME SlotsInv, LetBound, NEW s \in Handle, CreateFromPool(s) PROVE LetBound'
<1>0. ControlShape /\ VoicesExact /\ slot \in [Voice -> Slot] /\ GenMax \in Nat
  BY SlotsUse, PoolAssumption DEF ControlShape
<1>1. Len(free) > 0
  BY <1>0, Constants DEF CreateFromPool, ControlShape
<1>2. PICK i \in Voice : i = Last(free)
  BY <1>0, <1>1, TopLet
<1>3. slot[i].gen \in Nat /\ Let(i).gen = slot[i].gen + 1 /\ slot[i].gen < GenMax
  BY <1>0, <1>1, <1>2, TopLet DEF CreateFromPool
<1>4. slot' = [slot EXCEPT ![i] = Let(i)] /\ ctl'.pc = "push"
  BY <1>2 DEF CreateFromPool, Idle
<1>5. slot'[i].gen <= GenMax /\ \A j \in Voice : j # i => slot'[j] = slot[j]
  BY <1>0, <1>3, <1>4
<1> QED BY <1>4, <1>5 DEF LetBound

LEMMA StealBound == ASSUME SlotsInv, LetBound, NEW s \in Handle, CreateBySteal(s) PROVE LetBound'
<1>0. Shape /\ ControlShape /\ VoicesExact /\ slot \in [Voice -> Slot] /\ GenMax \in Nat
  BY SlotsUse, PoolAssumption DEF ControlShape
<1>1. PICK v \in Voice : CreateBySteal(s)!2!(v)
  BY DEF CreateBySteal
<1>2. PICK vh \in Handle : vh = H(v, slot[v].gen) /\ vh.idx = v
  <2>1. H(v, slot[v].gen).idx = v
    BY DEF H
  <2> QED BY <1>0, <2>1, SlotFields
<1>3. CASE free = <<>>
  <2>1. /\ slot' = slot /\ free' = free /\ slot[v].gen < GenMax
        /\ ctl' = [Idle EXCEPT !.pc = "cut", !.vic = vh, !.s = s]
    BY <1>1, <1>2, <1>3
  <2>2. ctl'.vic = vh
    BY <2>1 DEF Idle
  <2> QED BY <1>2, <1>3, <2>1, <2>2 DEF LetBound
<1>4. CASE free # <<>>
  <2>0. Len(free) > 0
    BY <1>0, <1>4 DEF ControlShape
  <2>1. PICK i \in Voice : i = Last(free)
    BY <1>0, <2>0, TopLet
  <2>2. /\ ~slot[i].inuse /\ slot[i].gen \in Nat
        /\ Let(i).gen = slot[i].gen + 1 /\ Unlet(Let(i)).gen = slot[i].gen + 1
    BY <1>0, <2>0, <2>1, TopLet
  <2>3. v # i
    BY <1>1, <2>2 DEF IsVictim, Stealable
  <2>4. CASE CmdRoom(1)
    <3>1. /\ slot' = [slot EXCEPT ![i] = Let(i), ![v].stealing = TRUE] /\ slot[i].gen < GenMax
          /\ ctl' = [Idle EXCEPT !.pc = "push", !.h = H(i, slot[i].gen + 1), !.s = s]
      BY <1>1, <1>2, <1>4, <2>1, <2>4
    <3>2. \A r \in Slot : LET q == [r EXCEPT !.stealing = TRUE] IN q.gen = r.gen
      BY DEF Slot
    <3>3. slot'[v] = [slot[v] EXCEPT !.stealing = TRUE] /\ slot[v] \in Slot
      BY <1>0, <2>3, <3>1
    <3>4. slot'[i] = Let(i) /\ \A j \in Voice : j # i /\ j # v => slot'[j] = slot[j]
      BY <1>0, <2>3, <3>1
    <3>5. slot'[v].gen = slot[v].gen /\ slot'[i].gen <= GenMax
      <4>1. slot'[v].gen = slot[v].gen
        BY <3>2, <3>3
      <4>2. slot'[i].gen = slot[i].gen + 1
        BY <2>2, <3>4
      <4> QED BY <1>0, <2>2, <3>1, <4>1, <4>2
    <3>6. ctl'.pc = "push"
      BY <3>1 DEF Idle
    <3> QED BY <3>4, <3>5, <3>6 DEF LetBound
  <2>5. CASE ~CmdRoom(1)
    <3>1. /\ slot' = [slot EXCEPT ![i] = Unlet(Let(i))] /\ free' = free
          /\ slot[i].gen + 1 < GenMax /\ slot[v].gen < GenMax
          /\ ctl' = [Idle EXCEPT !.pc = "cut", !.vic = vh, !.s = s]
      BY <1>1, <1>2, <1>4, <2>1, <2>5
    <3>2. slot'[i] = Unlet(Let(i)) /\ \A j \in Voice : j # i => slot'[j] = slot[j]
      BY <1>0, <3>1
    <3>3. slot'[i].gen < GenMax /\ slot'[v].gen < GenMax
      BY <2>2, <2>3, <3>1, <3>2
    <3>4. ctl'.vic = vh
      BY <3>1 DEF Idle
    <3>5. \A j \in Voice : slot'[j].gen <= GenMax
      BY <1>0, <2>2, <3>1, <3>2 DEF LetBound
    <3> QED BY <1>2, <2>1, <3>1, <3>3, <3>4, <3>5 DEF LetBound
  <2> QED BY <2>4, <2>5
<1> QED BY <1>3, <1>4

LEMMA CutBound == ASSUME SlotsInv, LetBound, CreateCut PROVE LetBound'
<1>0. /\ ControlShape /\ VoicesExact /\ slot \in [Voice -> Slot] /\ GenMax \in Nat
      /\ ctl \in Ctl /\ Live(ctl.vic) /\ ctl.pc = "cut"
  BY SlotsUse, PoolAssumption DEF ControlShape, CallHoldsSlots, CreateCut
<1>1. PICK v \in Voice : v = ctl.vic.idx
  BY <1>0 DEF Live
<1>2. \A h : [ctl EXCEPT !.pc = "push", !.h = h].pc = "push"
  BY <1>0 DEF Ctl
<1>3. CASE slot' = [slot EXCEPT ![v] = Let(v)] /\ ctl' = [ctl EXCEPT !.pc = "push", !.h = H(v, slot[v].gen + 1)]
  <2>1. Let(v).gen = slot[v].gen + 1 /\ slot[v].gen \in Nat /\ slot[v].gen < GenMax
    BY <1>0, <1>1, LetFields, SlotFields DEF LetBound
  <2>2. slot'[v].gen <= GenMax /\ \A j \in Voice : j # v => slot'[j] = slot[j]
    BY <1>0, <1>3, <2>1
  <2> QED BY <1>2, <1>3, <2>2 DEF LetBound
<1>4. CASE /\ free # <<>> /\ slot' = [slot EXCEPT ![Last(free)] = Let(Last(free))]
           /\ ctl' = [ctl EXCEPT !.pc = "push", !.h = H(Last(free), slot[Last(free)].gen + 1)]
  <2>1. Len(free) > 0
    BY <1>0, <1>4 DEF ControlShape
  <2>2. PICK i \in Voice : i = Last(free)
    BY <1>0, <2>1, TopLet
  <2>3. Let(i).gen = slot[i].gen + 1 /\ slot[i].gen \in Nat /\ slot[i].gen < GenMax
    BY <1>0, <1>4, <2>1, <2>2, TopLet DEF LetBound
  <2>4. slot'[i].gen <= GenMax /\ \A j \in Voice : j # i => slot'[j] = slot[j]
    BY <1>0, <1>4, <2>2, <2>3
  <2> QED BY <1>2, <1>4, <2>4 DEF LetBound
<1>5. CASE ctl' = Idle /\ slot' = slot
  BY <1>5 DEF Idle, LetBound
<1> QED BY <1>1, <1>3, <1>4, <1>5 DEF CreateCut

LEMMA OneshotBound == ASSUME SlotsInv, LetBound, NEW s \in AppSounds, PlayOneshot(s) PROVE LetBound'
<1>0. ControlShape /\ VoicesExact /\ slot \in [Voice -> Slot] /\ GenMax \in Nat
  BY SlotsUse, PoolAssumption DEF ControlShape
<1>1. Len(free) > 0
  BY <1>0, Constants DEF PlayOneshot, ControlShape
<1>2. PICK i \in Voice : i = Last(free)
  BY <1>0, <1>1, TopLet
<1>3. slot[i].gen \in Nat /\ Let(i).gen = slot[i].gen + 1 /\ slot[i].gen < GenMax
  BY <1>0, <1>1, <1>2, TopLet DEF PlayOneshot
<1>4. slot' = [slot EXCEPT ![i] = Let(i)] /\ ctl' = ctl /\ ctl.pc = "idle"
  BY <1>2 DEF PlayOneshot, Call
<1>5. slot'[i].gen <= GenMax /\ \A j \in Voice : j # i => slot'[j] = slot[j]
  BY <1>0, <1>3, <1>4
<1> QED BY <1>4, <1>5 DEF LetBound

\* The calls that let no slot.
LetsNone ==
    \/ CreatePush \/ Commit \/ BeginDrainEvents \/ EndDrainEvents \/ StopAll
    \/ \E s \in AppSounds : Unload(s)
    \/ \E h \in app, s \in AppSounds : Play(h, s) \/ Queue(h, s)
    \/ \E h \in app : Stop(h) \/ DestroySource(h)
    \/ \E h \in app, p \in Priorities : SetPriority(h, p)
    \/ \E stream \in BOOLEAN : LoadSound(stream)
    \/ \E s \in ctl.try : RetryParked(s)
    \/ DrainEnded \/ DrainRetired \/ DrainNotice

LEMMA NoCut == ASSUME Shape, LetsNone PROVE ctl'.pc # "cut"
<1>0. ctl \in Ctl
  BY ShapeParts DEF ControlShape
<1>1. /\ Idle.pc = "idle" /\ [Idle EXCEPT !.pc = "retry", !.try = park].pc = "retry"
      /\ \A n : [ctl EXCEPT !.todo = n].pc = ctl.pc /\ [ctl EXCEPT !.pc = "drain", !.todo = n].pc = "drain"
      /\ \A t : [ctl EXCEPT !.try = t].pc = ctl.pc
  BY <1>0 DEF Idle, Ctl
<1>2. CASE CreatePush \/ Commit \/ BeginDrainEvents \/ EndDrainEvents
  BY <1>1, <1>2 DEF CreatePush, Commit, BeginDrainEvents, EndDrainEvents
<1>3. CASE \/ StopAll \/ \E s \in AppSounds : Unload(s)
           \/ \E h \in app, s \in AppSounds : Play(h, s) \/ Queue(h, s)
           \/ \E h \in app : Stop(h) \/ DestroySource(h)
           \/ \E h \in app, p \in Priorities : SetPriority(h, p)
           \/ \E stream \in BOOLEAN : LoadSound(stream)
  BY <1>3 DEF StopAll, Unload, Play, Queue, Stop, DestroySource, SetPriority, LoadSound, Call, ctlVars
<1>4. CASE \E s \in ctl.try : RetryParked(s)
  BY <1>1, <1>4 DEF RetryParked
<1>5. CASE DrainEnded \/ DrainRetired \/ DrainNotice
  <2>1. PICK t : TakeEvt(t)
    BY <1>5 DEF DrainEnded, DrainRetired, DrainNotice
  <2>2. ctl.pc = "drain" /\ ctl' = [ctl EXCEPT !.todo = ctl.todo - 1]
    BY <2>1 DEF TakeEvt
  <2> QED BY <1>1, <2>2
<1> QED BY <1>2, <1>3, <1>4, <1>5 DEF LetsNone

LEMMA GensStay == ASSUME SlotsInv, LetsNone PROVE GensSame
<1>0. Shape /\ slot \in [Voice -> Slot] /\ CallHoldsSlots
  BY SlotsUse DEF ControlShape
<1>1. CASE slot' = slot
  BY <1>1 DEF GensSame
<1>2. CASE CreatePush
  <2>1. PICK i \in Voice : i = ctl.h.idx
    BY <1>0, <1>2 DEF CreatePush, CallHoldsSlots, Live
  <2>2. slot' = [slot EXCEPT ![i].push = ctl.s] \/ slot' = [slot EXCEPT ![i] = Unlet(slot[i])]
    BY <1>2, <2>1 DEF CreatePush
  <2>3. \A r \in Slot : Unlet(r).gen = r.gen
    BY DEF Unlet, Slot
  <2>4. CASE slot' = [slot EXCEPT ![i].push = ctl.s]
    BY <1>0, <2>4, SlotFlags DEF GensSame
  <2>5. CASE slot' = [slot EXCEPT ![i] = Unlet(slot[i])]
    BY <1>0, <2>3, <2>5 DEF GensSame
  <2> QED BY <2>2, <2>4, <2>5
<1>3. CASE \E h \in app : DestroySource(h)
  <2>1. PICK h \in app : DestroySource(h)
    BY <1>3
  <2>2. CASE Live(h)
    <3>1. h.idx \in Voice /\ slot' = [slot EXCEPT ![h.idx].inuse = FALSE, ![h.idx].push = None]
      BY <2>1, <2>2 DEF DestroySource, Live
    <3> QED BY <1>0, <3>1, SlotKept DEF GensSame
  <2>3. CASE ~Live(h)
    BY <1>1, <2>1, <2>3 DEF DestroySource
  <2> QED BY <2>2, <2>3
<1>4. CASE \E h \in app, p \in Priorities : SetPriority(h, p)
  <2>1. PICK h \in app, p \in Priorities : slot' = [slot EXCEPT ![h.idx].prio = p]
    BY <1>4 DEF SetPriority
  <2> QED BY <1>0, <2>1, SlotFlags DEF GensSame
<1>5. CASE DrainEnded
  <2>1. PICK h : h = Head(evt).h
    OBVIOUS
  <2>2. CASE Live(h)
    <3>1. /\ h.idx \in Voice
          /\ slot' = [slot EXCEPT ![h.idx].inuse = FALSE, ![h.idx].stealing = FALSE, ![h.idx].push = None]
      BY <1>5, <2>1, <2>2 DEF DrainEnded, Live
    <3> QED BY <1>0, <3>1, SlotKept DEF GensSame
  <2>3. CASE ~Live(h)
    <3>1. slot' = [slot EXCEPT ![h.idx].stealing = FALSE]
      BY <1>5, <2>1, <2>3 DEF DrainEnded
    <3> QED BY <1>0, <3>1, SlotFlags DEF GensSame
  <2> QED BY <2>2, <2>3
<1>6. CASE \/ Commit \/ BeginDrainEvents \/ EndDrainEvents \/ StopAll \/ DrainRetired \/ DrainNotice
           \/ \E s \in AppSounds : Unload(s)
           \/ \E h \in app, s \in AppSounds : Play(h, s) \/ Queue(h, s)
           \/ \E h \in app : Stop(h)
           \/ \E stream \in BOOLEAN : LoadSound(stream)
           \/ \E s \in ctl.try : RetryParked(s)
  BY <1>1, <1>6 DEF Commit, BeginDrainEvents, EndDrainEvents, StopAll, DrainRetired, DrainNotice, Unload,
       Play,
     Queue, Stop, LoadSound, RetryParked, ctlVars
<1> QED BY <1>2, <1>3, <1>4, <1>5, <1>6 DEF LetsNone

LEMMA StreamBound == ASSUME SlotsInv, LetBound, CreateStream PROVE LetBound'
<1>0. ControlShape
  BY SlotsUse
<1>1. PICK sh : sh = H(Last(sfree), snd[Last(sfree)].gen + 1)
  OBVIOUS
<1>2. sh \in Handle
  <2>1. Len(sfree) > 0
    BY <1>0 DEF CreateStream, ControlShape
  <2> QED BY <1>0, <1>1, <2>1, PopSfree, SoundFields
<1>3. CASE CreateFromPool(sh) \/ CreateBySteal(sh)
  BY <1>2, <1>3, FromPoolBound, StealBound
<1>4. CASE UNCHANGED <<slot, free, ctl>>
  BY <1>4 DEF LetBound
<1> QED BY <1>1, <1>3, <1>4 DEF CreateStream

LEMMA ControlBound == ASSUME SlotsInv, LetBound, ControlNext PROVE LetBound'
<1>1. CASE CreateSource
  BY <1>1, FromPoolBound, StealBound, Constants DEF CreateSource
<1>2. CASE LetsNone
  BY <1>2, NoCut, GensStay, SlotsUse DEF LetBound, GensSame
<1>3. CASE CreateStream \/ CreateCut \/ \E s \in AppSounds : PlayOneshot(s)
  BY <1>3, StreamBound, CutBound, OneshotBound
<1> QED BY <1>1, <1>2, <1>3 DEF ControlNext, LetsNone

\* GenMax, the model's bound on lets, bounds them in every reachable state.
THEOREM LetBoundInvariant == Spec => []LetBound
<1>1. Init => LetBound
  BY PoolAssumption DEF Init, LetBound, Idle
<1>2. ASSUME SlotsInv, LetBound, [Next]_vars PROVE LetBound'
  <2>1. CASE ControlNext
    BY <1>2, <2>1, ControlBound
  <2>2. CASE UNCHANGED <<slot, free, ctl>>
    BY <1>2, <2>2 DEF LetBound
  <2> QED BY <1>2, <2>1, <2>2, AudioControl DEF Next, vars
<1> QED BY <1>1, <1>2, SlotsInvariant, PTL DEF Spec

\* Until a slot is let again nothing is asked of drain_events: no ack is lost in any instance where
\* each slot is let once, as in run shared_sounds.
THEOREM FirstLetsKeepAcks == GenMax = 1 => (Spec => []NoAckLost)
<1> SUFFICES ASSUME GenMax = 1 PROVE Spec => []NoAckLost
  OBVIOUS
<1>1. ASSUME SlotsInv, SlotsInv', LetInv, LetInv', LetBound', [Next]_vars PROVE [RemadeWhenHandled]_vars
  <2>1. CASE voice' = voice
    BY <2>1 DEF RemadeWhenHandled
  <2>2. CASE AudioNext
    <3>1. Shape /\ Shape' /\ LetOrder /\ LetOrder'
      BY <1>1, SlotsUse, SlotsPartsPrime DEF LetInv
    <3>2. ASSUME NEW i \in Voice, voice'[i].gen # voice[i].gen PROVE voice[i].gen = 0
      <4>1. voice[i].gen < voice'[i].gen
        BY <2>2, <3>1, <3>2, AudioGoesOn DEF VoicesGoOn
      <4>2. voice'[i].gen <= slot'[i].gen /\ slot'[i].gen <= 1
        BY <1>1, <3>1 DEF LetOrder, LetBound
      <4>3. voice[i].gen \in Nat /\ voice'[i].gen \in Nat /\ slot'[i].gen \in Nat
        BY <3>1, VoiceHandles, VoiceHandlesPrime
      <4> QED BY <4>1, <4>2, <4>3
    <3> QED BY <3>2 DEF RemadeWhenHandled
  <2> QED BY <1>1, <2>1, <2>2, ControlVoices DEF Next, vars
<1> QED BY <1>1, SlotsInvariant, LetInvariant, LetBoundInvariant, NoAckLostCorrect, PTL DEF Spec
=============================================================================
