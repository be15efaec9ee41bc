---------------------------- MODULE SourceSlotInv ----------------------------
(***************************************************************************)
(* The inductive strengthening of SourceSlot's properties: what the        *)
(* commands still waiting in the ring will make of the voice, and how far  *)
(* what the audio thread has published, noted or read may lag behind.      *)
(* SourceSlot_proofs proves each part inductive for any bounds.            *)
(***************************************************************************)
EXTENDS SourceSlot

CmdNames == {"CREATE", "DESTROY", "SET_POS", "SET_LISTENER", "COMMIT", "PLAY", "STOP"}
Command == [t : CmdNames, gen : Nat, n : Nat]
Notice == [gen : Nat, seq : Nat]

ClientTyped ==
    /\ calls \in Uses
    /\ slot \in [gen : Nat, inuse : BOOLEAN, seq : Nat]
    /\ app \in [frame : Nat, pos : Nat, lis : Nat, lost : BOOLEAN, set : BOOLEAN]
    /\ frames \subseteq Nat \X Nat \X Nat
RingTyped ==
    /\ cmd \in Seq(Command)
    /\ aud \in [pc : {"idle", "drain", "mix", "read", "mixing", "publish"}, todo : Nat, n : Nat]
    /\ aud.n <= aud.todo /\ aud.todo <= Len(cmd)
    /\ aud.pc # "drain" => aud.todo = 0
VoiceTyped ==
    /\ voice \in [gen : Nat, active : BOOLEAN, playing : BOOLEAN, stopping : BOOLEAN, seq : Nat,
                  pend : Nat, pos : Nat]
    /\ lis \in [pend : Nat, pos : Nat]
    /\ pub \in [gen : Nat, seq : Nat, on : BOOLEAN]
NoticesTyped == evt \in Seq(Notice) /\ ended \in Seq(Notice) /\ Len(ended) <= EndedCap
OccTyped ==
    /\ occ \in [h : Nat, w : Nat]
    /\ setter \in [Publisher -> [pc : {"idle", "word", "handle"}, gen : Nat]]
    /\ mix \in [mine : BOOLEAN, w : Nat]
TypeOK == ClientTyped /\ RingTyped /\ VoiceTyped /\ NoticesTyped /\ OccTyped

-----------------------------------------------------------------------------
(* The commands not yet drained, by their place in the ring. *)

Waiting == aud.n + 1 .. Len(cmd)
IsA(k, t, g) == cmd[k].t = t /\ cmd[k].gen = g
OfVoice == {"DESTROY", "SET_POS", "PLAY", "STOP"}

\* The voice follows the slot: the lets it has not heard of wait in the ring, oldest first; a command
\* for one never overtakes its create; a source in use is not about to lose its voice.
Lets ==
    /\ voice.gen <= slot.gen /\ pub.gen <= voice.gen
    /\ \A k \in Waiting : cmd[k].gen <= slot.gen
    /\ \A k \in Waiting : cmd[k].t = "CREATE" => cmd[k].gen > voice.gen
    /\ \A j, k \in Waiting : j < k /\ cmd[j].t = "CREATE" /\ cmd[k].t = "CREATE" => cmd[j].gen < cmd[k].gen
    /\ voice.gen = slot.gen \/ \E k \in Waiting : IsA(k, "CREATE", slot.gen)
    /\ \A k \in Waiting : cmd[k].t \in OfVoice =>
        cmd[k].gen <= voice.gen \/ \E j \in Waiting : j < k /\ IsA(j, "CREATE", cmd[k].gen)
    /\ slot.inuse =>
        /\ \A k \in Waiting : ~IsA(k, "DESTROY", slot.gen)
        /\ voice.gen = slot.gen => voice.active

-----------------------------------------------------------------------------
(* Frames: what the voice and the listener will be when the command at k is reached. *)

\* The voice is of let g: by the last create before k, or already.
GenAt(k, g) ==
    \/ \E j \in Waiting : /\ j < k /\ IsA(j, "CREATE", g)
                          /\ \A i \in Waiting : j < i /\ i < k => cmd[i].t # "CREATE"
    \/ voice.gen = g /\ \A i \in Waiting : i < k => cmd[i].t # "CREATE"

\* The pending position of let g's voice is p: by the last SET_POS before k, or already.
PosNow(g, p) == IF voice.gen = g THEN voice.active => voice.pend = p ELSE p = 0
PosAt(k, g, p) ==
    \/ \E j \in Waiting : /\ j < k /\ IsA(j, "SET_POS", g) /\ cmd[j].n = p
                          /\ \A i \in Waiting : j < i /\ i < k => ~IsA(i, "SET_POS", g)
    \/ PosNow(g, p) /\ \A i \in Waiting : i < k => ~IsA(i, "SET_POS", g)

\* The listener's pending pose is l.
LisAt(k, l) ==
    \/ \E j \in Waiting : /\ j < k /\ cmd[j].t = "SET_LISTENER" /\ cmd[j].n = l
                          /\ \A i \in Waiting : j < i /\ i < k => cmd[i].t # "SET_LISTENER"
    \/ lis.pend = l /\ \A i \in Waiting : i < k => cmd[i].t # "SET_LISTENER"

Reaches(k, f) == GenAt(k, f[1]) /\ PosAt(k, f[1], f[2]) /\ LisAt(k, f[3])

\* A commit that waits promotes a frame the client committed; what the client has set since is what
\* its next commit will promote; and what was promoted last is such a frame.
FramesKept ==
    ~app.lost =>
        /\ Reaches(Len(cmd) + 1, <<slot.gen, app.pos, app.lis>>)
        /\ \A k \in Waiting : cmd[k].t = "COMMIT" => \E f \in frames : Reaches(k, f)
        /\ voice.active /\ voice.pos # 0 => <<voice.gen, voice.pos, lis.pos>> \in frames

MixesAlive == aud.pc \in {"mix", "read", "mixing"} => voice.active

-----------------------------------------------------------------------------
(* Plays: their numbers rise through the ring, the voice, and what is published. *)

Plays ==
    /\ \A k \in Waiting : cmd[k].t = "PLAY" =>
        /\ cmd[k].n >= 1
        /\ cmd[k].gen = slot.gen => cmd[k].n <= slot.seq
        /\ cmd[k].gen = voice.gen => cmd[k].n > voice.seq
    /\ \A j, k \in Waiting :
        j < k /\ cmd[j].t = "PLAY" /\ cmd[k].t = "PLAY" /\ cmd[j].gen = cmd[k].gen => cmd[j].n < cmd[k].n
    /\ voice.gen = slot.gen => voice.seq <= slot.seq
    /\ voice.playing => voice.active /\ voice.seq >= 1

PubFollows ==
    /\ pub.gen = voice.gen => pub.seq <= voice.seq
    /\ pub.gen = voice.gen /\ pub.seq = voice.seq /\ voice.playing => pub.on
    /\ aud.pc = "idle" => pub = [gen |-> voice.gen, seq |-> voice.seq, on |-> voice.active /\ voice.playing]

\* The latest play of the live source waits, or is the last the voice was given.
LatestPlay ==
    slot.inuse /\ slot.seq # 0 =>
        \/ \E k \in Waiting : IsA(k, "PLAY", slot.gen) /\ cmd[k].n = slot.seq
        \/ voice.gen = slot.gen /\ voice.seq = slot.seq

\* A notice is of a play that is over.
Noticed ==
    \A k \in DOMAIN evt :
        /\ evt[k].gen <= voice.gen
        /\ evt[k].gen = voice.gen => /\ evt[k].seq <= voice.seq
                                     /\ evt[k].seq = voice.seq => ~voice.playing

-----------------------------------------------------------------------------
(* Occlusion, published by the client or by the simulation, never by both. *)

OnePublisher == \A u \in Uses : ~(Publisher \subseteq u)

Occlusion ==
    /\ occ.h <= slot.gen /\ occ.w <= slot.gen
    /\ occ.h # 0 => occ.w = 0 \/ occ.w >= occ.h
    /\ \A p \in Publisher : setter[p] # Quiet =>
        /\ p \in calls
        /\ setter[p].gen <= slot.gen /\ setter[p].gen >= occ.h /\ setter[p].gen >= occ.w
        /\ setter[p].pc = "handle" => occ.w \in {0, setter[p].gen}
    /\ aud.pc = "read" => mix.mine /\ occ.h >= voice.gen
    /\ aud.pc = "mixing" /\ mix.mine => mix.w = 0 \/ mix.w >= voice.gen
=============================================================================
