------------------------ MODULE SceneGeometry_proofs ------------------------
(***************************************************************************)
(* What each step of SceneGeometry does to the variables that the          *)
(* invariants speak of, that it keeps their types (lemmas ...Does and      *)
(* ...Type), and that SceneIInv is inductive: with it the scene shows the  *)
(* newest applied mesh, a trace reads a whole commit, and a flush returns  *)
(* only after its commit (lemmas ...Keeps, conjunct by conjunct).  The     *)
(* last part does the same for MoversIInv (lemmas ...Shows).               *)
(***************************************************************************)
EXTENDS SceneGeometryInv, TLAPS

\* The records behind TypeOK, as sets of their own.
AppRec == [pc : Stages, gen : 0 .. GenMax, clear : BOOLEAN]
ShadowRec == [want : BOOLEAN, ack : BOOLEAN, geo : 0 .. AddMax, xf : Xform, moved : BOOLEAN]
DynRec == [id : 0 .. AddMax, xf : Xform]
LockRec == [writer : Applier \cup {"none"}, readers : SUBSET (Reader \cup {"sim"})]
StagedRec == [dirty : BOOLEAN, clear : BOOLEAN, gen : 0 .. GenMax]

LEMMA TypeParts ==
    TypeOK <=> /\ staged \in StagedRec /\ clears \subseteq 1 .. GenMax
               /\ applied \in 0 .. GenMax /\ buf \in 0 .. GenMax
               /\ queued \in Scenes /\ scene \in Scenes /\ lock \in LockRec
               /\ app \in [Applier -> AppRec] /\ shadow \in [Mover -> ShadowRec]
               /\ dyn \in [Mover -> DynRec] /\ tick \in Tick
               /\ adds \in 0 .. AddMax /\ owner \in [Mover -> 0 .. AddMax]
BY DEF TypeOK, StagedRec, LockRec, AppRec, ShadowRec, DynRec

LEMMA TypePartsPrime ==
    TypeOK' <=> /\ staged' \in StagedRec /\ clears' \subseteq 1 .. GenMax
                /\ applied' \in 0 .. GenMax /\ buf' \in 0 .. GenMax
                /\ queued' \in Scenes /\ scene' \in Scenes /\ lock' \in LockRec
                /\ app' \in [Applier -> AppRec] /\ shadow' \in [Mover -> ShadowRec]
                /\ dyn' \in [Mover -> DynRec] /\ tick' \in Tick
                /\ adds' \in 0 .. AddMax /\ owner' \in [Mover -> 0 .. AddMax]
BY DEF TypeOK, StagedRec, LockRec, AppRec, ShadowRec, DynRec

LEMMA Naturals ==
    /\ GenMax \in Nat /\ AddMax \in Nat /\ MoverCap \in Nat
    /\ 0 \in 0 .. GenMax /\ 0 \in 0 .. AddMax
BY SceneAssumption

\* The field updates of a mover's shadow.
LEMMA ShadowMoves ==
    \A r \in ShadowRec :
        /\ \A b \in BOOLEAN : /\ [r EXCEPT !.want = b] \in ShadowRec
                              /\ [r EXCEPT !.ack = b] \in ShadowRec
                              /\ [r EXCEPT !.moved = b] \in ShadowRec
        /\ \A g \in 0 .. AddMax : [r EXCEPT !.geo = g] \in ShadowRec
        /\ \A x \in Xform : [r EXCEPT !.xf = x] \in ShadowRec
BY DEF ShadowRec

LEMMA GotoMoves ==
    ASSUME app \in [Applier -> AppRec], NEW t \in Applier, NEW pc \in Stages, Goto(t, pc)
    PROVE  /\ app' \in [Applier -> AppRec]
           /\ app'[t].pc = pc /\ app'[t].gen = app[t].gen /\ app'[t].clear = app[t].clear
           /\ \A u \in Applier : u # t => app'[u] = app[u]
<1>1. app' = [app EXCEPT ![t] = [app[t] EXCEPT !.pc = pc]]
  BY DEF Goto
<1>2. app[t] \in AppRec /\ [app[t] EXCEPT !.pc = pc] \in AppRec
  BY DEF AppRec
<1> QED BY <1>1, <1>2 DEF AppRec

LEMMA LockMoves ==
    ASSUME lock \in LockRec
    PROVE  /\ \A t \in Applier : /\ Locked(t) \in LockRec /\ Locked(t).writer = t
                                 /\ Locked(t).readers = lock.readers
           /\ Unlocked \in LockRec /\ Unlocked.writer = "none" /\ Unlocked.readers = lock.readers
BY DEF LockRec, Locked, Unlocked

LEMMA TickTakeType == ASSUME TypeOK, TickTake PROVE TypeOK'
<1>1. staged \in StagedRec /\ app \in [Applier -> AppRec] /\ "sim" \in Applier
  BY TypeParts DEF Applier
<1>2. Taken \in AppRec /\ [app["sim"] EXCEPT !.pc = "scan"] \in AppRec /\ Consumed \in StagedRec
  BY <1>1 DEF Taken, Consumed, AppRec, StagedRec, Stages
<1>3. app' \in [Applier -> AppRec] /\ staged' \in StagedRec
  BY <1>1, <1>2 DEF TickTake
<1> QED BY <1>3, TypeParts, TypePartsPrime DEF TickTake, moverVars

LEMMA FlushTakeType == ASSUME TypeOK, FlushTake PROVE TypeOK'
<1>1. staged \in StagedRec /\ app \in [Applier -> AppRec] /\ "flush" \in Applier
  BY TypeParts DEF Applier
<1>2. Taken \in AppRec /\ Consumed \in StagedRec
  BY <1>1 DEF Taken, Consumed, AppRec, StagedRec, Stages
<1>3. [app["flush"] EXCEPT !.pc = "wait", !.gen = staged.gen] \in AppRec
  <2>1. [app["flush"] EXCEPT !.pc = "wait"] \in AppRec /\ staged.gen \in 0 .. GenMax
    BY <1>1 DEF AppRec, StagedRec, Stages
  <2>2. \A r \in AppRec : [r EXCEPT !.gen = staged.gen] \in AppRec
    BY <2>1 DEF AppRec
  <2> QED BY <2>1, <2>2
<1>4. app' \in [Applier -> AppRec] /\ staged' \in StagedRec
  BY <1>1, <1>2, <1>3 DEF FlushTake
<1> QED BY <1>4, TypeParts, TypePartsPrime DEF FlushTake, moverVars

LEMMA SetMeshType == ASSUME TypeOK, NEW c \in BOOLEAN, SetMesh(c) PROVE TypeOK'
<1>1. staged.gen + 1 \in 1 .. GenMax
  BY SceneAssumption DEF TypeOK, SetMesh
<1>2. staged' \in StagedRec /\ clears' \subseteq 1 .. GenMax
  BY <1>1, TypeParts DEF SetMesh, Staged, StagedRec
<1> QED BY <1>2, TypeParts, TypePartsPrime DEF SetMesh, moverVars

LEMMA StagesFacts ==
    /\ {"idle", "lock", "replace", "commit", "mark", "wait", "scan", "slot", "act", "release", "trace"} = Stages
    /\ "sim" \in Applier /\ "flush" \in Applier
    /\ \A t \in Applier : Done(t) \in {"scan", "idle"} /\ (t = "flush" => Done(t) = "idle")
    /\ \A t \in Applier : t = "sim" => Done(t) = "scan"
BY DEF Stages, Applier, Done

LEMMA AcquireDoes ==
    ASSUME TypeOK, NEW t \in Applier, Acquire(t)
    PROVE  /\ app[t].pc = "lock" /\ lock.writer = "none" /\ lock.readers = {}
           /\ UNCHANGED <<staged, clears, applied, buf, queued, scene, shadow, dyn, tick, adds, owner>>
           /\ \/ app[t].gen <= applied /\ Goto(t, Done(t)) /\ lock' = lock
              \/ ~(app[t].gen <= applied) /\ Goto(t, "replace") /\ lock' = Locked(t)
<1>1. CASE Stale(app[t].gen)
  BY <1>1, Zenon DEF Acquire, Stale, At, CanWrite, meshVars, moverVars
<1>2. CASE ~Stale(app[t].gen)
  BY <1>2, Zenon DEF Acquire, Stale, At, CanWrite, meshVars, moverVars
<1> QED BY <1>1, <1>2

LEMMA AcquireType == ASSUME TypeOK, NEW t \in Applier, Acquire(t) PROVE TypeOK'
<1>1. app' \in [Applier -> AppRec] /\ lock' \in LockRec
  <2>1. app \in [Applier -> AppRec] /\ lock \in LockRec /\ Done(t) \in Stages /\ "replace" \in Stages
    BY TypeParts, StagesFacts
  <2>2. \E pc \in Stages : Goto(t, pc)
    BY <2>1, AcquireDoes
  <2>3. lock' = lock \/ lock' = Locked(t)
    BY AcquireDoes
  <2> QED BY <2>1, <2>2, <2>3, GotoMoves, LockMoves
<1> QED BY <1>1, AcquireDoes, TypeParts, TypePartsPrime

LEMMA CommitMeshType == ASSUME TypeOK, NEW t \in Applier, CommitMesh(t) PROVE TypeOK'
<1>1. app' \in [Applier -> AppRec]
  BY TypeParts, StagesFacts, GotoMoves DEF CommitMesh
<1> QED BY <1>1, TypeParts, TypePartsPrime DEF CommitMesh, meshVars, moverVars

LEMMA AddMoverType == ASSUME TypeOK, AddMover PROVE TypeOK'
<1>1. adds + 1 \in 0 .. AddMax
  BY SceneAssumption DEF TypeOK, AddMover
<1>2. PICK m \in Mover :
        /\ shadow' = [shadow EXCEPT ![m] = [@ EXCEPT !.want = TRUE, !.geo = adds + 1, !.xf = 0, !.moved = FALSE]]
        /\ owner' = [owner EXCEPT ![m] = adds + 1]
  BY DEF AddMover
<1>3. [[[[shadow[m] EXCEPT !.want = TRUE] EXCEPT !.geo = adds + 1] EXCEPT !.xf = 0]
          EXCEPT !.moved = FALSE] \in ShadowRec
  <2>1. shadow[m] \in ShadowRec /\ 0 \in Xform
    BY TypeParts DEF Xform
  <2>2. [shadow[m] EXCEPT !.want = TRUE] \in ShadowRec
    BY <2>1, ShadowMoves
  <2>3. [[shadow[m] EXCEPT !.want = TRUE] EXCEPT !.geo = adds + 1] \in ShadowRec
    BY <1>1, <2>2, ShadowMoves
  <2>4. [[[shadow[m] EXCEPT !.want = TRUE] EXCEPT !.geo = adds + 1] EXCEPT !.xf = 0] \in ShadowRec
    BY <2>1, <2>3, ShadowMoves
  <2> QED BY <2>4, ShadowMoves
<1>4. shadow' = [shadow EXCEPT ![m] = [[[[shadow[m] EXCEPT !.want = TRUE] EXCEPT !.geo = adds + 1]
                                        EXCEPT !.xf = 0] EXCEPT !.moved = FALSE]]
  BY <1>2
<1>5. shadow' \in [Mover -> ShadowRec] /\ owner' \in [Mover -> 0 .. AddMax] /\ adds' \in 0 .. AddMax
  BY <1>1, <1>2, <1>3, <1>4, TypeParts DEF AddMover
<1> QED BY <1>5, TypeParts, TypePartsPrime DEF AddMover, meshVars

LEMMA RemoveMoverType == ASSUME TypeOK, NEW m \in Mover, RemoveMover(m) PROVE TypeOK'
<1>1. shadow' = [shadow EXCEPT ![m] = [shadow[m] EXCEPT !.want = FALSE]] /\ owner' = [owner EXCEPT ![m] = 0]
  BY DEF RemoveMover
<1>2. [shadow[m] EXCEPT !.want = FALSE] \in ShadowRec /\ 0 \in 0 .. AddMax
  BY TypeParts, Naturals, ShadowMoves
<1>3. shadow' \in [Mover -> ShadowRec] /\ owner' \in [Mover -> 0 .. AddMax]
  BY <1>1, <1>2, TypeParts
<1> QED BY <1>3, TypeParts, TypePartsPrime DEF RemoveMover, meshVars

LEMMA MoveMoverType ==
    ASSUME TypeOK, NEW m \in Mover, NEW xf \in Xform, MoveMover(m, xf) PROVE TypeOK'
<1>1. shadow' = [shadow EXCEPT ![m] = [[shadow[m] EXCEPT !.xf = xf] EXCEPT !.moved = TRUE]]
  BY TypeParts DEF MoveMover
<1>2. \A r \in ShadowRec : [r EXCEPT !.xf = xf] \in ShadowRec /\ [r EXCEPT !.moved = TRUE] \in ShadowRec
  BY DEF ShadowRec
<1>3. shadow' \in [Mover -> ShadowRec]
  BY <1>1, <1>2, TypeParts
<1> QED BY <1>3, TypeParts, TypePartsPrime DEF MoveMover, meshVars

LEMMA ScanType == ASSUME TypeOK, Scan PROVE TypeOK'
<1>1. app' \in [Applier -> AppRec]
  <2>1. \E pc \in Stages : Goto("sim", pc)
    BY StagesFacts DEF Scan, Sim
  <2> QED BY <2>1, GotoMoves, TypeParts, StagesFacts
<1>2. tick' \in Tick
  BY SceneAssumption DEF Scan, NoTick, Tick, Ops, Xform
<1> QED BY <1>1, <1>2, TypeParts, TypePartsPrime DEF Scan, meshVars

LEMMA TickMoves ==
    \A r \in Tick :
        /\ \A i \in 1 .. MoverCap + 1 : [r EXCEPT !.i = i] \in Tick
        /\ \A o \in Ops : [r EXCEPT !.op = o] \in Tick
        /\ \A g \in 0 .. AddMax : [r EXCEPT !.id = g] \in Tick
        /\ \A x \in Xform : [r EXCEPT !.xf = x] \in Tick
        /\ \A b \in BOOLEAN : [r EXCEPT !.changed = b] \in Tick
        /\ \A s \in SUBSET Mover : [r EXCEPT !.torn = s] \in Tick
BY DEF Tick

LEMMA LeftType == ASSUME NEW s \in ShadowRec PROVE Left(s) \in ShadowRec /\ OpFor(s) \in Ops
<1> DEFINE g == IF OpFor(s) = "build" \/ (~s.want /\ ~s.ack) THEN 0 ELSE s.geo
           b == IF OpFor(s) \in {"build", "update"} THEN FALSE ELSE s.moved
<1>1. g \in 0 .. AddMax /\ b \in BOOLEAN
  BY Naturals DEF ShadowRec
<1>2. [[s EXCEPT !.geo = g] EXCEPT !.moved = b] \in ShadowRec
  <2> HIDE DEF g, b
  <2> QED BY <1>1, ShadowMoves
<1>3. Left(s) = [[s EXCEPT !.geo = g] EXCEPT !.moved = b]
  BY DEF Left, ShadowRec
<1>4. OpFor(s) \in Ops
  BY DEF OpFor, Ops
<1> QED BY <1>2, <1>3, <1>4

LEMMA SlotTakeDoes ==
    ASSUME TypeOK, SlotTake
    PROVE  LET s == shadow[tick.i] IN
           /\ app["sim"].pc = "slot" /\ tick.i \in Mover
           /\ UNCHANGED <<staged, clears, applied, buf, queued, scene, lock, dyn, adds, owner>>
           /\ shadow' = [shadow EXCEPT ![tick.i] = Left(s)]
           /\ \/ /\ OpFor(s) = "none" \/ (OpFor(s) = "update" /\ dyn[tick.i].id = 0)
                 /\ tick' = [tick EXCEPT !.i = tick.i + 1] /\ app' = app
              \/ /\ OpFor(s) # "none"
                 /\ tick' = [tick EXCEPT !.op = OpFor(s), !.id = s.geo, !.xf = s.xf]
                 /\ Goto("sim", "act")
<1>1. CASE OpFor(shadow[tick.i]) = "none" \/ (OpFor(shadow[tick.i]) = "update" /\ dyn[tick.i].id = 0)
  BY <1>1, Zenon DEF SlotTake, At, meshVars
<1>2. CASE ~(OpFor(shadow[tick.i]) = "none" \/ (OpFor(shadow[tick.i]) = "update" /\ dyn[tick.i].id = 0))
  BY <1>2, Zenon DEF SlotTake, At, Sim, meshVars
<1> QED BY <1>1, <1>2

LEMMA SlotTakeType == ASSUME TypeOK, SlotTake PROVE TypeOK'
<1>1. /\ tick \in Tick /\ tick.i \in Mover /\ shadow \in [Mover -> ShadowRec]
      /\ shadow[tick.i] \in ShadowRec /\ app \in [Applier -> AppRec]
  BY TypeParts, SlotTakeDoes
<1>2. shadow' \in [Mover -> ShadowRec]
  BY <1>1, SlotTakeDoes, LeftType
<1>3. tick' \in Tick /\ app' \in [Applier -> AppRec]
  <2>1. CASE tick' = [tick EXCEPT !.i = tick.i + 1] /\ app' = app
    <3>1. tick.i + 1 \in 1 .. MoverCap + 1
      BY <1>1, Naturals DEF Mover
    <3> QED BY <1>1, <2>1, <3>1, TickMoves
  <2>2. CASE /\ tick' = [tick EXCEPT !.op = OpFor(shadow[tick.i]), !.id = shadow[tick.i].geo,
                                     !.xf = shadow[tick.i].xf]
             /\ Goto("sim", "act")
    <3>1. OpFor(shadow[tick.i]) \in Ops /\ shadow[tick.i].geo \in 0 .. AddMax /\ shadow[tick.i].xf \in Xform
      BY <1>1, LeftType DEF ShadowRec
    <3>2. [tick EXCEPT !.op = OpFor(shadow[tick.i])] \in Tick
      BY <1>1, <3>1, TickMoves
    <3>3. [[tick EXCEPT !.op = OpFor(shadow[tick.i])] EXCEPT !.id = shadow[tick.i].geo] \in Tick
      BY <3>1, <3>2, TickMoves
    <3>4. tick' = [[[tick EXCEPT !.op = OpFor(shadow[tick.i])] EXCEPT !.id = shadow[tick.i].geo]
                   EXCEPT !.xf = shadow[tick.i].xf]
      BY <2>2
    <3>5. tick' \in Tick
      BY <3>1, <3>3, <3>4, TickMoves
    <3> QED BY <1>1, <2>2, <3>5, GotoMoves, StagesFacts
  <2> QED BY <2>1, <2>2, SlotTakeDoes
<1> QED BY <1>2, <1>3, SlotTakeDoes, TypeParts, TypePartsPrime

LEMMA SlotLockType == ASSUME TypeOK, SlotLock PROVE TypeOK'
<1>1. lock' \in LockRec
  BY TypeParts, LockMoves, StagesFacts DEF SlotLock
<1> QED BY <1>1, TypeParts, TypePartsPrime DEF SlotLock, meshVars, moverVars

LEMMA Advances ==
    ASSUME tick \in Tick, tick.i \in Mover
    PROVE  /\ Advance \in Tick /\ [Advance EXCEPT !.changed = tick.changed] \in Tick
           /\ [Advance EXCEPT !.torn = tick.torn \cup {tick.i}] \in Tick
           /\ Advance.torn = tick.torn
<1>1. tick.i + 1 \in 1 .. MoverCap + 1 /\ tick.changed \in BOOLEAN /\ tick.torn \cup {tick.i} \in SUBSET Mover
  BY Naturals DEF Mover, Tick
<1>2. /\ [tick EXCEPT !.i = tick.i + 1] \in Tick
      /\ "none" \in Ops /\ 0 \in 0 .. AddMax
  BY <1>1, TickMoves, Naturals DEF Ops
<1>3. [[tick EXCEPT !.i = tick.i + 1] EXCEPT !.changed = TRUE] \in Tick
  BY <1>2, TickMoves
<1>4. [[[tick EXCEPT !.i = tick.i + 1] EXCEPT !.changed = TRUE] EXCEPT !.op = "none"] \in Tick
  BY <1>2, <1>3, TickMoves
<1>5. Advance = [[[[tick EXCEPT !.i = tick.i + 1] EXCEPT !.changed = TRUE] EXCEPT !.op = "none"] EXCEPT !.id = 0]
  BY DEF Advance
<1>6. Advance \in Tick
  BY <1>2, <1>4, <1>5, TickMoves
<1>7. Advance.torn = tick.torn
  BY DEF Advance, Tick
<1> QED BY <1>1, <1>6, <1>7, TickMoves

LEMMA ActingDoes ==
    ASSUME TypeOK, Acts, NEW op, Acting(op)
    PROVE  /\ app["sim"].pc = "act" /\ lock.writer = "sim" /\ tick.op = op /\ tick.i \in Mover
           /\ Goto("sim", "slot") /\ app' \in [Applier -> AppRec]
           /\ UNCHANGED <<staged, clears, applied, buf, scene, lock, adds, owner>>
<1>1. Goto("sim", "slot") /\ app["sim"].pc = "act" /\ lock.writer = "sim" /\ tick.op = op
  BY DEF Acting, At, Sim
<1> QED BY <1>1, GotoMoves, StagesFacts, TypeParts DEF Acting, Acts, meshVars

LEMMA ScenesMoves ==
    ASSUME NEW q \in Scenes
    PROVE  /\ \A m \in Mover, g \in 0 .. AddMax :
                [q EXCEPT !.inst[m] = g] \in Scenes /\ [q EXCEPT !.inst[m] = g].mesh = q.mesh
           /\ \A g \in 0 .. GenMax : [q EXCEPT !.mesh = g] \in Scenes
BY DEF Scenes

LEMMA SlotBuildType == ASSUME TypeOK, Acts, SlotBuild PROVE TypeOK'
<1>1. Acting("build")
  BY DEF SlotBuild
<1>2. tick \in Tick /\ tick.i \in Mover /\ tick.id \in 0 .. AddMax /\ tick.xf \in Xform
  BY <1>1, ActingDoes, TypeParts DEF Tick
<1>3. [id |-> tick.id, xf |-> tick.xf] \in DynRec /\ Acknowledged(shadow[tick.i]) \in ShadowRec
  BY <1>2, TypeParts, ShadowMoves DEF DynRec, Acknowledged
<1>4. dyn' \in [Mover -> DynRec] /\ shadow' \in [Mover -> ShadowRec]
  BY <1>2, <1>3, TypeParts DEF SlotBuild
<1>5. queued' \in Scenes /\ tick' \in Tick
  BY <1>2, TypeParts, ScenesMoves, Advances DEF SlotBuild
<1> QED BY <1>1, <1>4, <1>5, ActingDoes, TypeParts, TypePartsPrime

LEMMA SlotBuildFailsType == ASSUME TypeOK, Acts, SlotBuildFails PROVE TypeOK'
<1>1. Acting("build")
  BY DEF SlotBuildFails
<1>2. tick \in Tick /\ tick.i \in Mover
  BY <1>1, ActingDoes, TypeParts
<1>3. shadow' = [shadow EXCEPT ![tick.i] = [shadow[tick.i] EXCEPT !.want = FALSE]]
  BY DEF SlotBuildFails
<1>4. [shadow[tick.i] EXCEPT !.want = FALSE] \in ShadowRec
  BY <1>2, TypeParts, ShadowMoves
<1>5. shadow' \in [Mover -> ShadowRec] /\ tick' \in Tick
  BY <1>2, <1>3, <1>4, TypeParts, Advances DEF SlotBuildFails
<1> QED BY <1>1, <1>5, ActingDoes, TypeParts, TypePartsPrime DEF SlotBuildFails

LEMMA SlotUpdateType == ASSUME TypeOK, Acts, SlotUpdate PROVE TypeOK'
<1>1. Acting("update")
  BY DEF SlotUpdate
<1>2. tick \in Tick /\ tick.i \in Mover /\ tick.xf \in Xform
  BY <1>1, ActingDoes, TypeParts DEF Tick
<1>3. dyn' = [dyn EXCEPT ![tick.i] = [dyn[tick.i] EXCEPT !.xf = tick.xf]]
  BY DEF SlotUpdate
<1>4. [dyn[tick.i] EXCEPT !.xf = tick.xf] \in DynRec
  BY <1>2, TypeParts DEF DynRec
<1>5. dyn' \in [Mover -> DynRec] /\ tick' \in Tick
  BY <1>2, <1>3, <1>4, TypeParts, Advances DEF SlotUpdate
<1> QED BY <1>1, <1>5, ActingDoes, TypeParts, TypePartsPrime DEF SlotUpdate

LEMMA SlotTeardownType == ASSUME TypeOK, Acts, SlotTeardown PROVE TypeOK'
<1>1. Acting("teardown")
  BY DEF SlotTeardown
<1>2. tick \in Tick /\ tick.i \in Mover
  BY <1>1, ActingDoes, TypeParts
<1>3. tick' \in Tick
  BY <1>2, Advances DEF SlotTeardown
<1>4. queued' \in Scenes
  BY <1>2, TypeParts, ScenesMoves, Naturals DEF SlotTeardown
<1> QED BY <1>1, <1>3, <1>4, ActingDoes, TypeParts, TypePartsPrime DEF SlotTeardown

LEMMA MoversCommitType == ASSUME TypeOK, MoversCommit PROVE TypeOK'
<1>1. app' \in [Applier -> AppRec]
  BY GotoMoves, StagesFacts, TypeParts DEF MoversCommit, Sim
<1>2. lock' \in LockRec /\ scene' \in Scenes
  BY TypeParts, LockMoves DEF MoversCommit
<1> QED BY <1>1, <1>2, TypeParts, TypePartsPrime DEF MoversCommit, meshVars, moverVars

LEMMA ReleaseDoes ==
    ASSUME TypeOK, Release
    PROVE  /\ app["sim"].pc = "release"
           /\ UNCHANGED <<staged, clears, applied, buf, queued, scene, lock, adds, owner>>
           /\ \/ app' = app
              \/ Goto("sim", "trace")
BY DEF Release, At, Sim, meshVars

LEMMA ReleaseType == ASSUME TypeOK, Release PROVE TypeOK'
<1>1. app' \in [Applier -> AppRec]
  BY ReleaseDoes, GotoMoves, StagesFacts, TypeParts
<1>2. dyn' \in [Mover -> DynRec] /\ shadow' \in [Mover -> ShadowRec] /\ tick' \in Tick
  <2>1. CASE tick.torn = {}
    BY <2>1, TypeParts DEF Release
  <2>2. CASE tick.torn # {}
    <3>1. PICK m \in tick.torn :
            /\ dyn' = [dyn EXCEPT ![m] = [id |-> 0, xf |-> 0]]
            /\ shadow' = [shadow EXCEPT ![m] = [shadow[m] EXCEPT !.ack = FALSE]]
            /\ tick' = [tick EXCEPT !.torn = tick.torn \ {m}]
      BY <2>2 DEF Release
    <3>2. m \in Mover /\ tick.torn \ {m} \in SUBSET Mover
      BY TypeParts DEF Tick
    <3>3. [id |-> 0, xf |-> 0] \in DynRec /\ [shadow[m] EXCEPT !.ack = FALSE] \in ShadowRec
      BY <3>2, TypeParts, ShadowMoves, Naturals DEF DynRec, Xform
    <3> QED BY <3>1, <3>2, <3>3, TypeParts, TickMoves
  <2> QED BY <2>1, <2>2
<1> QED BY <1>1, <1>2, ReleaseDoes, TypeParts, TypePartsPrime

LEMMA TickTraceDoes ==
    ASSUME TypeOK, TickTrace
    PROVE  /\ app["sim"].pc = "trace" /\ lock.writer = "none"
           /\ UNCHANGED <<staged, clears, applied, buf, queued, scene, shadow, dyn, tick, adds, owner>>
           /\ lock' \in LockRec /\ lock'.writer = "none"
           /\ \/ app' = app
              \/ Goto("sim", "idle")
<1>1. /\ app["sim"].pc = "trace" /\ lock.writer = "none"
      /\ UNCHANGED <<staged, clears, applied, buf, queued, scene, shadow, dyn, tick, adds, owner>>
  BY DEF TickTrace, At, meshVars, moverVars
<1>2. app' = app \/ Goto("sim", "idle")
  BY Zenon DEF TickTrace, Sim
<1>3. \E rs \in SUBSET (Reader \cup {"sim"}) : lock' = [lock EXCEPT !.readers = rs]
  <2>1. lock.readers \cup {"sim"} \in SUBSET (Reader \cup {"sim"}) /\ lock.readers \ {"sim"} \in SUBSET (Reader \cup {"sim"})
    BY TypeParts DEF LockRec
  <2> QED BY <2>1, Zenon DEF TickTrace
<1> QED BY <1>1, <1>2, <1>3, TypeParts DEF LockRec

LEMMA TickTraceType == ASSUME TypeOK, TickTrace PROVE TypeOK'
<1>1. app' \in [Applier -> AppRec]
  BY TickTraceDoes, GotoMoves, StagesFacts, TypeParts
<1> QED BY <1>1, TickTraceDoes, TypeParts, TypePartsPrime

LEMMA ReaderDoes ==
    ASSUME TypeOK, NEW r \in Reader, BeginTrace(r) \/ EndTrace(r)
    PROVE  /\ lock' \in LockRec /\ lock'.writer = lock.writer
           /\ lock.writer # "none" /\ lock.readers = {} => lock'.readers = {}
           /\ UNCHANGED <<staged, clears, applied, buf, queued, scene, app, shadow, dyn, tick, adds, owner>>
<1>1. lock.readers \cup {r} \in SUBSET (Reader \cup {"sim"}) /\ lock.readers \ {r} \in SUBSET (Reader \cup {"sim"})
  BY TypeParts DEF LockRec
<1> QED BY <1>1, TypeParts DEF BeginTrace, EndTrace, LockRec, meshVars, moverVars

LEMMA ReaderType == ASSUME TypeOK, NEW r \in Reader, BeginTrace(r) \/ EndTrace(r) PROVE TypeOK'
BY ReaderDoes, TypeParts, TypePartsPrime

-----------------------------------------------------------------------------
(* What the steps of the appliers and of reconcile_dynamic do.             *)

\* Where the two appliers are after one of them went on.
LEMMA SimGoes ==
    ASSUME TypeOK, NEW pc \in Stages, Goto("sim", pc)
    PROVE  /\ app'["sim"].pc = pc /\ app'["sim"].gen = app["sim"].gen /\ app'["sim"].clear = app["sim"].clear
           /\ app'["flush"] = app["flush"]
BY GotoMoves, TypeParts, StagesFacts

LEMMA AppParts == TypeOK => /\ app["sim"].pc \in Stages /\ app["flush"].pc \in Stages
                            /\ app["sim"].gen \in 0 .. GenMax /\ app["flush"].gen \in 0 .. GenMax
                            /\ app["sim"].clear \in BOOLEAN /\ app["flush"].clear \in BOOLEAN
BY StagesFacts DEF TypeOK

LEMMA FlushWaitType == ASSUME TypeOK, FlushWait PROVE TypeOK'
<1>1. app' \in [Applier -> AppRec]
  <2>1. Goto("flush", "idle")
    BY DEF FlushWait, Goto
  <2> QED BY <2>1, GotoMoves, TypeParts, StagesFacts
<1> QED BY <1>1, TypeParts, TypePartsPrime DEF FlushWait, meshVars, moverVars

LEMMA ReplaceDoes ==
    ASSUME TypeOK, "mesh" \notin Fails, NEW t \in Applier, Replace(t)
    PROVE  LET mesh == IF app[t].clear THEN 0 ELSE app[t].gen IN
           /\ app[t].pc = "replace" /\ Goto(t, "commit")
           /\ mesh \in 0 .. GenMax /\ buf' = mesh
           /\ queued' \in Scenes /\ queued'.mesh = mesh /\ queued'.inst = queued.inst
           /\ UNCHANGED <<staged, clears, applied, scene, lock, shadow, dyn, tick, adds, owner>>
<1> DEFINE mesh == IF app[t].clear THEN 0 ELSE app[t].gen
<1>1. mesh \in 0 .. GenMax
  BY Naturals DEF TypeOK
<1>2. app[t].pc = "replace" /\ Goto(t, "commit") /\ buf' = mesh /\ queued' = [queued EXCEPT !.mesh = mesh]
  BY DEF Replace, At
<1>3. queued' \in Scenes /\ queued'.mesh = mesh /\ queued'.inst = queued.inst
  BY <1>1, <1>2, TypeParts DEF Scenes
<1> QED BY <1>1, <1>2, <1>3 DEF Replace, moverVars

LEMMA ReplaceType == ASSUME TypeOK, "mesh" \notin Fails, NEW t \in Applier, Replace(t) PROVE TypeOK'
<1>1. app' \in [Applier -> AppRec]
  BY ReplaceDoes, GotoMoves, TypeParts, StagesFacts
<1> QED BY <1>1, ReplaceDoes, TypeParts, TypePartsPrime

LEMMA MarkMeshDoes ==
    ASSUME TypeOK, NEW t \in Applier, MarkMesh(t)
    PROVE  /\ app[t].pc = "mark" /\ Goto(t, Done(t))
           /\ applied' \in 0 .. GenMax /\ (app[t].gen > applied => applied' = app[t].gen)
           /\ lock' = Unlocked
           /\ UNCHANGED <<staged, clears, buf, queued, scene, shadow, dyn, tick, adds, owner>>
BY DEF MarkMesh, Marked, At, TypeOK, moverVars

LEMMA MarkMeshType == ASSUME TypeOK, NEW t \in Applier, MarkMesh(t) PROVE TypeOK'
<1>1. app' \in [Applier -> AppRec]
  <2>1. Done(t) \in Stages
    BY StagesFacts
  <2> QED BY <2>1, MarkMeshDoes, GotoMoves, TypeParts
<1> QED BY <1>1, MarkMeshDoes, LockMoves, TypeParts, TypePartsPrime

LEMMA ClaimIs ==
    TypeOK => /\ Consumed.dirty = FALSE /\ Consumed.clear = FALSE /\ Consumed.gen = staged.gen
              /\ Taken.pc = "lock" /\ Taken.gen = staged.gen /\ Taken.clear = staged.clear
BY TypeParts DEF Consumed, Taken, StagedRec

LEMMA TickTakeDoes ==
    ASSUME TypeOK, TickTake
    PROVE  /\ app["sim"].pc = "idle" /\ app'["flush"] = app["flush"]
           /\ \/ staged.dirty = TRUE /\ app'["sim"] = Taken /\ staged' = Consumed
              \/ app'["sim"].pc = "scan" /\ staged' = staged
           /\ UNCHANGED <<clears, applied, buf, queued, scene, lock, shadow, dyn, tick, adds, owner>>
<1>1. /\ app \in [Applier -> AppRec] /\ staged.dirty \in BOOLEAN
      /\ app["sim"].pc = "idle"
      /\ UNCHANGED <<clears, applied, buf, queued, scene, lock, shadow, dyn, tick, adds, owner>>
  BY TypeParts DEF StagedRec, TickTake, moverVars
<1>3. CASE staged.dirty = TRUE
  <2>1. app' = [app EXCEPT !["sim"] = Taken] /\ staged' = Consumed
    BY <1>3, Zenon DEF TickTake
  <2> QED BY <2>1, <1>1, <1>3, StagesFacts
<1>4. CASE staged.dirty = FALSE
  <2>1. app' = [app EXCEPT !["sim"] = [app["sim"] EXCEPT !.pc = "scan"]] /\ staged' = staged
    BY <1>4, Zenon DEF TickTake
  <2> QED BY <2>1, <1>1, StagesFacts DEF AppRec
<1> QED BY <1>1, <1>3, <1>4

LEMMA FlushTakeDoes ==
    ASSUME TypeOK, FlushTake
    PROVE  /\ app["flush"].pc = "idle" /\ app'["sim"] = app["sim"]
           /\ \/ staged.dirty = TRUE /\ app'["flush"] = Taken /\ staged' = Consumed
              \/ app'["flush"].pc = "wait" /\ app'["flush"].gen = staged.gen /\ staged' = staged
           /\ UNCHANGED <<clears, applied, buf, queued, scene, lock, shadow, dyn, tick, adds, owner>>
<1>1. /\ app \in [Applier -> AppRec] /\ staged.dirty \in BOOLEAN
      /\ app["flush"].pc = "idle"
      /\ UNCHANGED <<clears, applied, buf, queued, scene, lock, shadow, dyn, tick, adds, owner>>
  BY TypeParts DEF StagedRec, FlushTake, Client, moverVars
<1>3. CASE staged.dirty = TRUE
  <2>1. app' = [app EXCEPT !["flush"] = Taken] /\ staged' = Consumed
    BY <1>3, Zenon DEF FlushTake
  <2> QED BY <2>1, <1>1, <1>3, StagesFacts
<1>4. CASE staged.dirty = FALSE
  <2>1. app' = [app EXCEPT !["flush"] = [app["flush"] EXCEPT !.pc = "wait", !.gen = staged.gen]] /\ staged' = staged
    BY <1>4, Zenon DEF FlushTake
  <2> QED BY <2>1, <1>1, StagesFacts DEF AppRec
<1> QED BY <1>1, <1>3, <1>4

LEMMA SetMeshDoes ==
    ASSUME TypeOK, NEW c \in BOOLEAN, SetMesh(c)
    PROVE  /\ app["flush"].pc = "idle"
           /\ staged'.dirty = TRUE /\ staged'.gen = staged.gen + 1
           /\ \/ staged'.clear = TRUE /\ clears' = clears \cup {staged.gen + 1}
              \/ staged'.clear = FALSE /\ clears' = clears
           /\ UNCHANGED <<applied, buf, queued, scene, lock, app, shadow, dyn, tick, adds, owner>>
<1>1. /\ app["flush"].pc = "idle" /\ staged' = Staged(c)
      /\ UNCHANGED <<applied, buf, queued, scene, lock, app, shadow, dyn, tick, adds, owner>>
  BY DEF SetMesh, Client, moverVars
<1>2. staged'.dirty = TRUE /\ staged'.gen = staged.gen + 1 /\ staged'.clear = c
  BY <1>1 DEF Staged
<1>3. CASE c = TRUE
  <2>1. clears' = clears \cup {staged.gen + 1}
    BY <1>3, Zenon DEF SetMesh
  <2> QED BY <2>1, <1>1, <1>2, <1>3
<1>4. CASE c = FALSE
  <2>1. clears' = clears
    BY <1>4, Zenon DEF SetMesh
  <2> QED BY <2>1, <1>1, <1>2, <1>4
<1> QED BY <1>3, <1>4

LEMMA CommitMeshDoes ==
    ASSUME TypeOK, NEW t \in Applier, CommitMesh(t)
    PROVE  /\ app[t].pc = "commit" /\ Goto(t, "mark") /\ scene' = queued
           /\ UNCHANGED <<staged, clears, applied, buf, queued, lock, shadow, dyn, tick, adds, owner>>
BY DEF CommitMesh, At, meshVars, moverVars

LEMMA ScanDoes ==
    ASSUME TypeOK, Scan
    PROVE  /\ app["sim"].pc = "scan" /\ tick' = NoTick
           /\ Goto("sim", "slot") \/ Goto("sim", "trace")
           /\ UNCHANGED <<staged, clears, applied, buf, queued, scene, lock, shadow, dyn, adds, owner>>
<1>1. Goto("sim", "slot") \/ Goto("sim", "trace")
  BY Zenon DEF Scan, Sim
<1> QED BY <1>1 DEF Scan, At, meshVars

LEMMA MoversCommitDoes ==
    ASSUME TypeOK, MoversCommit
    PROVE  /\ app["sim"].pc = "slot" /\ Goto("sim", "release")
           /\ \/ tick.changed = TRUE /\ scene' = queued
              \/ tick.changed = FALSE /\ scene' = scene
           /\ \/ lock.writer = "sim" /\ lock' = Unlocked
              \/ lock.writer # "sim" /\ lock' = lock
           /\ UNCHANGED <<staged, clears, applied, buf, queued, shadow, dyn, tick, adds, owner>>
<1>1. tick.changed \in BOOLEAN
  BY TypeParts DEF Tick
<1> QED BY <1>1 DEF MoversCommit, At, Sim, meshVars, moverVars

\* The field updates of the simulation thread's locals.
LEMMA AdvanceIs ==
    ASSUME tick \in Tick
    PROVE  /\ Advance.i = tick.i + 1 /\ Advance.changed = TRUE /\ Advance.torn = tick.torn
           /\ LET a == [Advance EXCEPT !.changed = tick.changed] IN
                a.i = tick.i + 1 /\ a.changed = tick.changed /\ a.torn = tick.torn
           /\ LET a == [Advance EXCEPT !.torn = tick.torn \cup {tick.i}] IN
                a.i = tick.i + 1 /\ a.changed = TRUE /\ a.torn = tick.torn \cup {tick.i}
BY DEF Advance, Tick
LEMMA SlotBuildDoes ==
    ASSUME TypeOK, Acts, SlotBuild
    PROVE  /\ queued'.mesh = queued.mesh
           /\ tick'.i = tick.i + 1 /\ tick'.changed = TRUE /\ tick'.torn = tick.torn
           /\ queued'.inst[tick.i] = dyn'[tick.i].id
           /\ \A m \in Mover \ {tick.i} : queued'.inst[m] = queued.inst[m] /\ dyn'[m].id = dyn[m].id
<1>1. tick.i \in Mover
  BY ActingDoes DEF SlotBuild
<1>2. /\ dyn' = [dyn EXCEPT ![tick.i] = [id |-> tick.id, xf |-> tick.xf]]
      /\ queued' = [queued EXCEPT !.inst[tick.i] = tick.id] /\ tick' = Advance
  BY DEF SlotBuild
<1>3. tick'.i = tick.i + 1 /\ tick'.changed = TRUE /\ tick'.torn = tick.torn
  BY <1>2, TypeParts, AdvanceIs
<1> QED BY <1>1, <1>2, <1>3 DEF TypeOK, Scenes

LEMMA SlotBuildFailsDoes ==
    ASSUME TypeOK, SlotBuildFails
    PROVE  /\ queued' = queued /\ dyn' = dyn
           /\ tick'.i = tick.i + 1 /\ tick'.changed = tick.changed /\ tick'.torn = tick.torn
BY TypeParts, AdvanceIs DEF SlotBuildFails

LEMMA SlotUpdateDoes ==
    ASSUME TypeOK, Acts, SlotUpdate
    PROVE  /\ queued' = queued /\ \A m \in Mover : dyn'[m].id = dyn[m].id
           /\ tick'.i = tick.i + 1 /\ tick'.changed = TRUE /\ tick'.torn = tick.torn
<1>1. tick.i \in Mover
  BY ActingDoes DEF SlotUpdate
<1>2. queued' = queued /\ tick' = Advance /\ dyn' = [dyn EXCEPT ![tick.i] = [dyn[tick.i] EXCEPT !.xf = tick.xf]]
  BY DEF SlotUpdate
<1>3. tick'.i = tick.i + 1 /\ tick'.changed = TRUE /\ tick'.torn = tick.torn
  BY <1>2, TypeParts, AdvanceIs
<1> QED BY <1>1, <1>2, <1>3, TypeParts DEF DynRec

LEMMA SlotTeardownDoes ==
    ASSUME TypeOK, Acts, SlotTeardown
    PROVE  /\ queued'.mesh = queued.mesh /\ dyn' = dyn
           /\ tick'.i = tick.i + 1 /\ tick'.changed = TRUE /\ tick'.torn = tick.torn \cup {tick.i}
           /\ queued'.inst[tick.i] = 0
           /\ \A m \in Mover \ {tick.i} : queued'.inst[m] = queued.inst[m]
<1>1. tick.i \in Mover
  BY ActingDoes DEF SlotTeardown
<1>2. /\ queued' = [queued EXCEPT !.inst[tick.i] = 0] /\ dyn' = dyn
      /\ tick' = [Advance EXCEPT !.torn = Advance.torn \cup {tick.i}]
  BY DEF SlotTeardown
<1>3. tick'.i = tick.i + 1 /\ tick'.changed = TRUE /\ tick'.torn = tick.torn \cup {tick.i}
  BY <1>2, TypeParts, AdvanceIs
<1> QED BY <1>1, <1>2, <1>3 DEF TypeOK, Scenes

LEMMA SlotTakeTick ==
    ASSUME TypeOK, SlotTake
    PROVE  /\ tick'.changed = tick.changed /\ tick'.torn = tick.torn
           /\ tick.i \in Mover
           /\ \/ tick'.i = tick.i + 1 /\ app' = app
              \/ tick'.i = tick.i /\ Goto("sim", "act")
BY SlotTakeDoes, TypeParts DEF Tick

LEMMA ReleaseMoves ==
    ASSUME TypeOK, Release
    PROVE  \/ /\ tick.torn = {} /\ Goto("sim", "trace") /\ dyn' = dyn /\ tick' = tick
           \/ \E m \in tick.torn :
                /\ app' = app /\ tick'.i = tick.i /\ tick'.torn = tick.torn \ {m}
                /\ \A n \in Mover \ {m} : dyn'[n] = dyn[n]
<1>1. CASE tick.torn = {}
  BY <1>1 DEF Release, Sim
<1>2. CASE tick.torn # {}
  <2>1. PICK m \in tick.torn :
          /\ dyn' = [dyn EXCEPT ![m] = [id |-> 0, xf |-> 0]]
          /\ tick' = [tick EXCEPT !.torn = tick.torn \ {m}] /\ app' = app
    BY <1>2 DEF Release
  <2> QED BY <2>1, TypeParts DEF Tick
<1> QED BY <1>1, <1>2

-----------------------------------------------------------------------------
(* The mesh. *)

\* A step that leaves the static mesh alone, and does not take the simulation thread into or out
\* of applying one.
LEMMA QuietKeeps ==
    ASSUME SceneIInv, UNCHANGED <<staged, clears, applied>>,
           queued'.mesh = queued.mesh, scene'.mesh = scene.mesh,
           app' = app \/ (/\ app'["flush"] = app["flush"]
                          /\ app["sim"].pc \notin Claiming /\ app'["sim"].pc \notin Claiming)
    PROVE  Claimed' /\ MeshReached'
<1>1. Claimed'
  BY DEF SceneIInv, Claimed, Applier, Claiming
<1>2. MeshReached'
  BY DEF SceneIInv, MeshReached, Mesh, Applier, Claiming, Writing
<1> QED BY <1>1, <1>2

\* Claiming what is staged: the claim is the staged generation, and what is left is consumed.
LEMMA TakeClaimed ==
    ASSUME SceneIInv, TickTake \/ FlushTake PROVE Claimed'
<1>1. /\ TypeOK /\ staged.gen \in Nat /\ staged.dirty \in BOOLEAN /\ staged.clear \in BOOLEAN
  BY Naturals DEF SceneIInv, TypeOK
<1>2. CASE TickTake
  <2>1. CASE staged' = staged
    BY <2>1, <1>1, <1>2, TickTakeDoes, ClaimIs DEF SceneIInv, Claimed, Applier, Claiming
  <2>2. CASE staged.dirty = TRUE /\ app'["sim"] = Taken /\ staged' = Consumed
    BY <2>2, <1>1, <1>2, TickTakeDoes, ClaimIs DEF SceneIInv, Claimed, Applier, Claiming
  <2> QED BY <2>1, <2>2, <1>1, <1>2, TickTakeDoes
<1>3. CASE FlushTake
  <2>1. CASE staged' = staged
    BY <2>1, <1>1, <1>3, FlushTakeDoes, ClaimIs DEF SceneIInv, Claimed, Applier, Claiming
  <2>2. CASE staged.dirty = TRUE /\ app'["flush"] = Taken /\ staged' = Consumed
    BY <2>2, <1>1, <1>3, FlushTakeDoes, ClaimIs DEF SceneIInv, Claimed, Applier, Claiming
  <2> QED BY <2>1, <2>2, <1>1, <1>3, FlushTakeDoes
<1> QED BY <1>2, <1>3

\* Staging a new generation says nothing about the older ones.
LEMMA SetMeshMesh == ASSUME SceneIInv, NEW c \in BOOLEAN, SetMesh(c) PROVE Claimed' /\ MeshReached'
<1>1. /\ TypeOK /\ staged.gen \in Nat /\ applied \in Nat /\ \A g \in clears : g \in Nat /\ g <= staged.gen
      /\ applied <= staged.gen
      /\ \A t \in Applier : app[t].gen \in Nat
  BY Naturals DEF SceneIInv, TypeOK, Claimed
<1>2. /\ \A g \in Nat : g <= staged.gen => (g \in clears' <=> g \in clears)
      /\ \A g \in clears' : g <= staged'.gen
      /\ staged'.gen \in Nat /\ staged'.gen = staged.gen + 1 /\ app' = app /\ staged'.dirty = TRUE
      /\ staged'.clear <=> staged'.gen \in clears'
      /\ app["flush"].pc = "idle" /\ UNCHANGED <<applied, queued, scene>>
  <2>0. /\ app["flush"].pc = "idle" /\ staged'.dirty = TRUE /\ staged'.gen = staged.gen + 1
        /\ \/ staged'.clear = TRUE /\ clears' = clears \cup {staged.gen + 1}
           \/ staged'.clear = FALSE /\ clears' = clears
        /\ app' = app /\ UNCHANGED <<applied, queued, scene>>
    BY <1>1, SetMeshDoes, Zenon
  <2>1. CASE staged'.clear = TRUE /\ clears' = clears \cup {staged.gen + 1}
    BY <2>0, <2>1, <1>1
  <2>2. CASE staged'.clear = FALSE /\ clears' = clears
    BY <2>0, <2>2, <1>1
  <2> QED BY <2>0, <2>1, <2>2
<1>5. Claimed'
  BY <1>1, <1>2 DEF SceneIInv, Claimed
<1>6. \A t \in Applier : app[t].pc \in Writing => app[t].gen <= staged.gen
  BY <1>1 DEF SceneIInv, Claimed, Claiming, Writing
<1>7. MeshReached'
  BY <1>1, <1>2, <1>6 DEF SceneIInv, MeshReached, Mesh, Writing
<1> QED BY <1>5, <1>7

-----------------------------------------------------------------------------
(* One lemma for each action.                                              *)

LEMMA TickTakeKeeps == ASSUME SceneIInv, TickTake PROVE SceneIInv'
<1>1. TypeOK /\ TypeOK'
  BY TickTakeType DEF SceneIInv
<1>2. /\ app["sim"].pc = "idle" /\ app'["sim"].pc \in {"lock", "scan"} /\ app'["flush"] = app["flush"]
      /\ UNCHANGED <<clears, applied, buf, queued, scene, lock, shadow, dyn, tick, adds, owner>>
  BY <1>1, TickTakeDoes, ClaimIs
<1>3. Acts'
  BY <1>2 DEF SceneIInv, Acts
<1>4. LockHeld'
  BY <1>2 DEF SceneIInv, LockHeld, Applier, Writing
<1>5. Claimed'
  BY TakeClaimed
<1>6. MeshReached'
  BY <1>2 DEF SceneIInv, MeshReached, Mesh, Applier, Writing
<1>7. Batch'
  BY <1>2 DEF SceneIInv, Batch
<1>8. Pending'
  BY <1>2 DEF SceneIInv, Pending, Applier
<1>9. Alive'
  BY <1>2 DEF SceneIInv, Alive
<1> QED BY <1>1, <1>3, <1>4, <1>5, <1>6, <1>7, <1>8, <1>9 DEF SceneIInv

LEMMA FlushTakeKeeps == ASSUME SceneIInv, FlushTake PROVE SceneIInv'
<1>1. TypeOK /\ TypeOK'
  BY FlushTakeType DEF SceneIInv
<1>2. /\ app["flush"].pc = "idle" /\ app'["flush"].pc \in {"lock", "wait"} /\ app'["sim"] = app["sim"]
      /\ UNCHANGED <<clears, applied, buf, queued, scene, lock, shadow, dyn, tick, adds, owner>>
  BY <1>1, FlushTakeDoes, ClaimIs
<1>3. Acts'
  BY <1>2 DEF SceneIInv, Acts
<1>4. LockHeld'
  BY <1>2 DEF SceneIInv, LockHeld, Applier, Claiming, Writing
<1>5. Claimed'
  BY TakeClaimed
<1>6. MeshReached'
  BY <1>2 DEF SceneIInv, MeshReached, Mesh, Applier, Writing
<1>7. Batch'
  BY <1>2 DEF SceneIInv, Batch
<1>8. Pending'
  BY <1>2 DEF SceneIInv, Pending, Applier
<1>9. Alive'
  BY <1>2 DEF SceneIInv, Alive
<1> QED BY <1>1, <1>3, <1>4, <1>5, <1>6, <1>7, <1>8, <1>9 DEF SceneIInv

LEMMA FlushWaitKeeps == ASSUME SceneIInv, FlushWait PROVE SceneIInv'
<1>1. TypeOK /\ TypeOK'
  BY FlushWaitType DEF SceneIInv
<1>2. Acts'
  BY DEF SceneIInv, Acts, FlushWait, moverVars
<1>3. LockHeld'
  BY DEF SceneIInv, LockHeld, Writing, FlushWait
<1>4. Claimed'
  BY DEF SceneIInv, Claimed, Claiming, FlushWait, meshVars
<1>5. MeshReached'
  BY DEF SceneIInv, MeshReached, Mesh, Writing, FlushWait, meshVars
<1>6. Batch'
  BY DEF SceneIInv, Batch, FlushWait, moverVars
<1>7. Pending'
  BY DEF SceneIInv, Pending, FlushWait, moverVars
<1>8. Alive'
  BY DEF SceneIInv, Alive, FlushWait, meshVars, moverVars
<1> QED BY <1>1, <1>2, <1>3, <1>4, <1>5, <1>6, <1>7, <1>8 DEF SceneIInv

LEMMA SetMeshKeeps == ASSUME SceneIInv, NEW c \in BOOLEAN, SetMesh(c) PROVE SceneIInv'
<1>1. TypeOK /\ TypeOK'
  BY SetMeshType DEF SceneIInv
<1>2. Claimed' /\ MeshReached'
  BY SetMeshMesh
<1>3. Acts'
  BY DEF SceneIInv, Acts, SetMesh, moverVars
<1>4. LockHeld'
  BY DEF SceneIInv, LockHeld, SetMesh
<1>5. Batch'
  BY DEF SceneIInv, Batch, SetMesh, moverVars
<1>6. Pending'
  BY DEF SceneIInv, Pending, SetMesh, moverVars
<1>7. Alive'
  BY DEF SceneIInv, Alive, SetMesh, moverVars
<1> QED BY <1>1, <1>2, <1>3, <1>4, <1>5, <1>6, <1>7 DEF SceneIInv

LEMMA AcquireKeeps == ASSUME SceneIInv, NEW t \in Applier, Acquire(t) PROVE SceneIInv'
<1>1. TypeOK /\ TypeOK'
  BY AcquireType DEF SceneIInv
<1>2. Acts'
  BY StagesFacts, GotoMoves, TypeParts, AcquireDoes DEF SceneIInv, Acts
<1>3. LockHeld'
  BY StagesFacts, GotoMoves, LockMoves, TypeParts, AcquireDoes DEF SceneIInv, LockHeld, Applier,
     Claiming, Writing
<1>4. Claimed'
  BY StagesFacts, GotoMoves, TypeParts, AcquireDoes DEF SceneIInv, Claimed, Claiming
<1>5. MeshReached'
  BY AppParts, StagesFacts, GotoMoves, TypeParts, AcquireDoes DEF SceneIInv, MeshReached, Mesh,
     Applier, Writing
<1>6. Batch'
  BY StagesFacts, GotoMoves, TypeParts, AcquireDoes DEF SceneIInv, Batch
<1>7. Pending'
  BY StagesFacts, GotoMoves, TypeParts, AcquireDoes DEF SceneIInv, Pending
<1>8. Alive'
  BY StagesFacts, GotoMoves, TypeParts, AcquireDoes DEF SceneIInv, Alive
<1> QED BY <1>1, <1>2, <1>3, <1>4, <1>5, <1>6, <1>7, <1>8 DEF SceneIInv

LEMMA ReplaceKeeps ==
    ASSUME "mesh" \notin Fails, SceneIInv, NEW t \in Applier, Replace(t) PROVE SceneIInv'
<1>1. TypeOK /\ TypeOK'
  BY ReplaceType DEF SceneIInv
<1>2. Acts'
  BY StagesFacts, GotoMoves, TypeParts, ReplaceDoes DEF SceneIInv, Acts
<1>3. LockHeld'
  BY StagesFacts, GotoMoves, TypeParts, ReplaceDoes DEF SceneIInv, LockHeld, Claiming, Writing
<1>4. Claimed'
  BY StagesFacts, GotoMoves, TypeParts, ReplaceDoes DEF SceneIInv, Claimed, Claiming
<1>5. MeshReached'
  BY StagesFacts, GotoMoves, TypeParts, ReplaceDoes DEF SceneIInv, LockHeld, Claimed, MeshReached,
     Mesh, Claiming, Writing
<1>6. Batch'
  BY StagesFacts, GotoMoves, TypeParts, ReplaceDoes DEF SceneIInv, Batch
<1>7. Pending'
  BY StagesFacts, GotoMoves, TypeParts, ReplaceDoes DEF SceneIInv, Pending
<1>8. Alive'
  BY StagesFacts, GotoMoves, TypeParts, ReplaceDoes DEF SceneIInv, Alive
<1> QED BY <1>1, <1>2, <1>3, <1>4, <1>5, <1>6, <1>7, <1>8 DEF SceneIInv

LEMMA CommitMeshKeeps == ASSUME SceneIInv, NEW t \in Applier, CommitMesh(t) PROVE SceneIInv'
<1>1. TypeOK /\ TypeOK'
  BY CommitMeshType DEF SceneIInv
<1>2. Acts'
  BY StagesFacts, GotoMoves, TypeParts, CommitMeshDoes DEF SceneIInv, Acts
<1>3. LockHeld'
  BY StagesFacts, GotoMoves, TypeParts, CommitMeshDoes DEF SceneIInv, LockHeld, Claiming, Writing
<1>4. Claimed'
  BY StagesFacts, GotoMoves, TypeParts, CommitMeshDoes DEF SceneIInv, Claimed, Claiming
<1>5. MeshReached'
  BY StagesFacts, GotoMoves, TypeParts, CommitMeshDoes DEF SceneIInv, MeshReached, Mesh, Writing
<1>6. Batch'
  BY StagesFacts, GotoMoves, TypeParts, CommitMeshDoes DEF SceneIInv, Batch
<1>7. Pending'
  BY CommitMeshDoes DEF SceneIInv, Pending
<1>8. Alive'
  BY StagesFacts, GotoMoves, TypeParts, CommitMeshDoes DEF SceneIInv, Alive
<1> QED BY <1>1, <1>2, <1>3, <1>4, <1>5, <1>6, <1>7, <1>8 DEF SceneIInv

LEMMA MarkMeshKeeps == ASSUME SceneIInv, NEW t \in Applier, MarkMesh(t) PROVE SceneIInv'
<1>1. TypeOK /\ TypeOK'
  BY MarkMeshType DEF SceneIInv
<1>2. Acts'
  BY StagesFacts, GotoMoves, TypeParts, MarkMeshDoes DEF SceneIInv, Acts
<1>3. LockHeld'
  BY StagesFacts, GotoMoves, LockMoves, TypeParts, MarkMeshDoes DEF SceneIInv, LockHeld, Writing
<1>4. Claimed'
  BY StagesFacts, GotoMoves, TypeParts, MarkMeshDoes DEF SceneIInv, Claimed, MeshReached,
     Claiming, Writing
<1>5. MeshReached'
  BY StagesFacts, GotoMoves, TypeParts, MarkMeshDoes DEF SceneIInv, LockHeld, MeshReached, Mesh,
     Writing
<1>6. Batch'
  BY StagesFacts, GotoMoves, TypeParts, MarkMeshDoes DEF SceneIInv, LockHeld, Batch, Writing
<1>7. Pending'
  BY StagesFacts, GotoMoves, TypeParts, MarkMeshDoes DEF SceneIInv, Pending
<1>8. Alive'
  BY StagesFacts, GotoMoves, TypeParts, MarkMeshDoes DEF SceneIInv, Alive
<1> QED BY <1>1, <1>2, <1>3, <1>4, <1>5, <1>6, <1>7, <1>8 DEF SceneIInv

LEMMA AddMoverKeeps == ASSUME SceneIInv, AddMover PROVE SceneIInv'
<1>1. TypeOK /\ TypeOK'
  BY AddMoverType DEF SceneIInv
<1>2. Acts'
  BY DEF SceneIInv, Acts, AddMover
<1>3. LockHeld'
  BY DEF SceneIInv, LockHeld, AddMover
<1>4. Claimed'
  BY DEF SceneIInv, Claimed, AddMover, meshVars
<1>5. MeshReached'
  BY DEF SceneIInv, MeshReached, Mesh, AddMover, meshVars
<1>6. Batch'
  BY DEF SceneIInv, Batch, AddMover
<1>7. Pending'
  BY DEF SceneIInv, Pending, AddMover
<1>8. Alive'
  BY DEF SceneIInv, Alive, AddMover, meshVars
<1> QED BY <1>1, <1>2, <1>3, <1>4, <1>5, <1>6, <1>7, <1>8 DEF SceneIInv

LEMMA RemoveMoverKeeps == ASSUME SceneIInv, NEW m \in Mover, RemoveMover(m) PROVE SceneIInv'
<1>1. TypeOK /\ TypeOK'
  BY RemoveMoverType DEF SceneIInv
<1>2. Acts'
  BY DEF SceneIInv, Acts, RemoveMover
<1>3. LockHeld'
  BY DEF SceneIInv, LockHeld, RemoveMover
<1>4. Claimed'
  BY DEF SceneIInv, Claimed, RemoveMover, meshVars
<1>5. MeshReached'
  BY DEF SceneIInv, MeshReached, Mesh, RemoveMover, meshVars
<1>6. Batch'
  BY DEF SceneIInv, Batch, RemoveMover
<1>7. Pending'
  BY DEF SceneIInv, Pending, RemoveMover
<1>8. Alive'
  BY DEF SceneIInv, Alive, RemoveMover, meshVars
<1> QED BY <1>1, <1>2, <1>3, <1>4, <1>5, <1>6, <1>7, <1>8 DEF SceneIInv

LEMMA MoveMoverKeeps ==
    ASSUME SceneIInv, NEW m \in Mover, NEW xf \in Xform, MoveMover(m, xf) PROVE SceneIInv'
<1>1. TypeOK /\ TypeOK'
  BY MoveMoverType DEF SceneIInv
<1>2. Acts'
  BY DEF SceneIInv, Acts, MoveMover
<1>3. LockHeld'
  BY DEF SceneIInv, LockHeld, MoveMover
<1>4. Claimed'
  BY DEF SceneIInv, Claimed, MoveMover, meshVars
<1>5. MeshReached'
  BY DEF SceneIInv, MeshReached, Mesh, MoveMover, meshVars
<1>6. Batch'
  BY DEF SceneIInv, Batch, MoveMover
<1>7. Pending'
  BY DEF SceneIInv, Pending, MoveMover
<1>8. Alive'
  BY DEF SceneIInv, Alive, MoveMover, meshVars
<1> QED BY <1>1, <1>2, <1>3, <1>4, <1>5, <1>6, <1>7, <1>8 DEF SceneIInv

LEMMA ScanKeeps == ASSUME SceneIInv, Scan PROVE SceneIInv'
<1>1. TypeOK /\ TypeOK'
  BY ScanType DEF SceneIInv
<1>2. /\ app["sim"].pc = "scan" /\ app'["sim"].pc \in {"slot", "trace"} /\ app'["flush"] = app["flush"]
      /\ UNCHANGED <<staged, clears, applied, buf>> /\ queued'.mesh = queued.mesh /\ scene'.mesh = scene.mesh
  BY <1>1, SimGoes, StagesFacts, ScanDoes DEF SceneIInv
<1>3. Claimed' /\ MeshReached'
  BY <1>2, QuietKeeps DEF Claiming
<1>4. Acts'
  BY <1>2 DEF SceneIInv, Acts
<1>5. LockHeld'
  BY <1>2, ScanDoes DEF SceneIInv, LockHeld, Applier, Writing
<1>6. Batch'
  BY ScanDoes DEF SceneIInv, Batch, NoTick
<1>7. Pending'
  BY <1>2, ScanDoes DEF SceneIInv, Pending, Applier
<1>8. Alive'
  BY ScanDoes DEF SceneIInv, Alive, NoTick
<1> QED BY <1>1, <1>3, <1>4, <1>5, <1>6, <1>7, <1>8 DEF SceneIInv

LEMMA SlotTakeKeeps == ASSUME SceneIInv, SlotTake PROVE SceneIInv'
<1>1. TypeOK /\ TypeOK'
  BY SlotTakeType DEF SceneIInv
<1>2. /\ app["sim"].pc = "slot" /\ app'["sim"].pc \in {"slot", "act"} /\ app'["flush"] = app["flush"]
      /\ UNCHANGED <<staged, clears, applied, buf>> /\ queued'.mesh = queued.mesh /\ scene'.mesh = scene.mesh
  BY SimGoes, StagesFacts, SlotTakeDoes DEF SceneIInv
<1>3. Claimed' /\ MeshReached'
  BY <1>2, QuietKeeps DEF Claiming
<1>4. Acts'
  BY SlotTakeDoes, SlotTakeTick DEF SceneIInv, Acts
<1>5. LockHeld'
  BY <1>2, SlotTakeDoes DEF SceneIInv, LockHeld, Applier, Writing
<1>6. Batch'
  BY SlotTakeDoes, SlotTakeTick DEF SceneIInv, Batch
<1>7. Pending'
  BY <1>2, SlotTakeDoes, SlotTakeTick DEF SceneIInv, Pending, Applier
<1>8. Alive'
  BY TypeParts, SlotTakeDoes, SlotTakeTick DEF SceneIInv, Alive, Mover, Tick
<1> QED BY <1>1, <1>3, <1>4, <1>5, <1>6, <1>7, <1>8 DEF SceneIInv

LEMMA SlotLockKeeps == ASSUME SceneIInv, SlotLock PROVE SceneIInv'
<1>1. TypeOK /\ TypeOK'
  BY SlotLockType DEF SceneIInv
<1>2. Acts'
  BY DEF SceneIInv, Acts, SlotLock, moverVars
<1>3. LockHeld'
  BY DEF SceneIInv, LockHeld, Applier, SlotLock, At, CanWrite, Locked
<1>4. Claimed'
  BY DEF SceneIInv, Claimed, SlotLock, meshVars
<1>5. MeshReached'
  BY DEF SceneIInv, MeshReached, Mesh, SlotLock, meshVars
<1>6. Batch'
  BY DEF SceneIInv, Batch, SlotLock, moverVars
<1>7. Pending'
  BY DEF SceneIInv, Pending, SlotLock, moverVars
<1>8. Alive'
  BY DEF SceneIInv, Alive, SlotLock, meshVars, moverVars
<1> QED BY <1>1, <1>2, <1>3, <1>4, <1>5, <1>6, <1>7, <1>8 DEF SceneIInv

LEMMA SlotBuildKeeps == ASSUME SceneIInv, SlotBuild PROVE SceneIInv'
<1>1. TypeOK /\ TypeOK'
  BY SlotBuildType DEF SceneIInv
<1>2. /\ app["sim"].pc = "act" /\ app'["sim"].pc \in {"slot"} /\ app'["flush"] = app["flush"]
      /\ UNCHANGED <<staged, clears, applied, buf>> /\ queued'.mesh = queued.mesh /\ scene'.mesh = scene.mesh
  BY SimGoes, StagesFacts, ActingDoes DEF SceneIInv, SlotBuild
<1>3. Claimed' /\ MeshReached'
  BY <1>2, QuietKeeps DEF Claiming
<1>4. Acts'
  BY <1>2 DEF SceneIInv, Acts
<1>5. LockHeld'
  BY <1>2, ActingDoes DEF SceneIInv, LockHeld, Applier, SlotBuild
<1>6. Batch'
  BY ActingDoes DEF SceneIInv, Batch, SlotBuild
<1>7. Pending'
  BY <1>2, SlotBuildDoes DEF SceneIInv, Pending
<1>8. Alive'
  <2> DEFINE i == tick.i
  <2>1. /\ i \in Mover /\ tick'.i = i + 1 /\ tick'.torn = tick.torn /\ queued'.inst[i] = dyn'[i].id
        /\ \A m \in Mover \ {i} : queued'.inst[m] = queued.inst[m] /\ dyn'[m].id = dyn[m].id
    BY <1>1, ActingDoes, SlotBuildDoes DEF SceneIInv, SlotBuild
  <2>2. /\ \A m \in Mover : queued.inst[m] # 0 => dyn[m].id = queued.inst[m]
        /\ \A m \in tick.torn : m \in Mover /\ queued.inst[m] = 0 /\ m < i
    BY <1>2, TypeParts DEF SceneIInv, Alive, Tick
  <2>3. \A m \in Mover : queued'.inst[m] # 0 => dyn'[m].id = queued'.inst[m]
    BY <2>1, <2>2
  <2>4. \A m \in tick'.torn : queued'.inst[m] = 0 /\ m < tick'.i
    BY <2>1, <2>2, Naturals DEF Mover
  <2> QED BY <2>3, <2>4, <1>2 DEF SceneIInv, Alive
<1> QED BY <1>1, <1>3, <1>4, <1>5, <1>6, <1>7, <1>8 DEF SceneIInv

LEMMA SlotBuildFailsKeeps == ASSUME SceneIInv, SlotBuildFails PROVE SceneIInv'
<1>1. TypeOK /\ TypeOK'
  BY SlotBuildFailsType DEF SceneIInv
<1>2. /\ app["sim"].pc = "act" /\ app'["sim"].pc \in {"slot"} /\ app'["flush"] = app["flush"]
      /\ UNCHANGED <<staged, clears, applied, buf>> /\ queued'.mesh = queued.mesh /\ scene'.mesh = scene.mesh
  BY SimGoes, StagesFacts, ActingDoes DEF SceneIInv, SlotBuildFails
<1>3. Claimed' /\ MeshReached'
  BY <1>2, QuietKeeps DEF Claiming
<1>4. Acts'
  BY <1>2 DEF SceneIInv, Acts
<1>5. LockHeld'
  BY <1>2, ActingDoes DEF SceneIInv, LockHeld, Applier, SlotBuildFails
<1>6. Batch'
  BY ActingDoes DEF SceneIInv, Batch, SlotBuildFails
<1>7. Pending'
  BY <1>2, ActingDoes DEF SceneIInv, Pending, Applier, SlotBuildFails
<1>8. Alive'
  BY TypeParts, ActingDoes, SlotBuildFailsDoes DEF SceneIInv, Alive, SlotBuildFails, Mover, Tick
<1> QED BY <1>1, <1>3, <1>4, <1>5, <1>6, <1>7, <1>8 DEF SceneIInv

LEMMA SlotUpdateKeeps == ASSUME SceneIInv, SlotUpdate PROVE SceneIInv'
<1>1. TypeOK /\ TypeOK'
  BY SlotUpdateType DEF SceneIInv
<1>2. /\ app["sim"].pc = "act" /\ app'["sim"].pc \in {"slot"} /\ app'["flush"] = app["flush"]
      /\ UNCHANGED <<staged, clears, applied, buf>> /\ queued'.mesh = queued.mesh /\ scene'.mesh = scene.mesh
  BY SimGoes, StagesFacts, ActingDoes DEF SceneIInv, SlotUpdate
<1>3. Claimed' /\ MeshReached'
  BY <1>2, QuietKeeps DEF Claiming
<1>4. Acts'
  BY <1>2 DEF SceneIInv, Acts
<1>5. LockHeld'
  BY <1>2, ActingDoes DEF SceneIInv, LockHeld, Applier, SlotUpdate
<1>6. Batch'
  BY ActingDoes DEF SceneIInv, Batch, SlotUpdate
<1>7. Pending'
  BY <1>2, SlotUpdateDoes DEF SceneIInv, Pending
<1>8. Alive'
  BY TypeParts, ActingDoes, SlotUpdateDoes DEF SceneIInv, Alive, SlotUpdate, Mover, Tick
<1> QED BY <1>1, <1>3, <1>4, <1>5, <1>6, <1>7, <1>8 DEF SceneIInv

LEMMA SlotTeardownKeeps == ASSUME SceneIInv, SlotTeardown PROVE SceneIInv'
<1>1. TypeOK /\ TypeOK'
  BY SlotTeardownType DEF SceneIInv
<1>2. /\ app["sim"].pc = "act" /\ app'["sim"].pc \in {"slot"} /\ app'["flush"] = app["flush"]
      /\ UNCHANGED <<staged, clears, applied, buf>> /\ queued'.mesh = queued.mesh /\ scene'.mesh = scene.mesh
  BY SimGoes, StagesFacts, ActingDoes DEF SceneIInv, SlotTeardown
<1>3. Claimed' /\ MeshReached'
  BY <1>2, QuietKeeps DEF Claiming
<1>4. Acts'
  BY <1>2 DEF SceneIInv, Acts
<1>5. LockHeld'
  BY <1>2, ActingDoes DEF SceneIInv, LockHeld, Applier, SlotTeardown
<1>6. Batch'
  BY ActingDoes DEF SceneIInv, Batch, SlotTeardown
<1>7. Pending'
  BY <1>2, SlotTeardownDoes DEF SceneIInv, Pending
<1>8. Alive'
  BY TypeParts, ActingDoes, SlotTeardownDoes DEF SceneIInv, Alive, SlotTeardown, Mover, Tick
<1> QED BY <1>1, <1>3, <1>4, <1>5, <1>6, <1>7, <1>8 DEF SceneIInv

LEMMA MoversCommitKeeps == ASSUME SceneIInv, MoversCommit PROVE SceneIInv'
<1>1. TypeOK /\ TypeOK'
  BY MoversCommitType DEF SceneIInv
<1>2. /\ app["sim"].pc = "slot" /\ app'["sim"].pc \in {"release"} /\ app'["flush"] = app["flush"]
      /\ UNCHANGED <<staged, clears, applied, buf>> /\ queued'.mesh = queued.mesh /\ scene'.mesh = scene.mesh
  <2>1. CASE tick.changed = TRUE /\ scene' = queued
    <3>1. lock.writer = "sim" /\ app["sim"].pc = "slot"
      BY <2>1, <1>1, MoversCommitDoes DEF SceneIInv, Batch
    <3>2. \A t \in Applier : app[t].pc \notin Writing
      BY <3>1 DEF SceneIInv, LockHeld, Applier, Writing
    <3>3. scene.mesh = queued.mesh
      BY <3>2 DEF SceneIInv, MeshReached, Writing
    <3> QED BY <2>1, <3>1, <3>3, <1>1, SimGoes, StagesFacts, MoversCommitDoes
  <2>2. CASE tick.changed = FALSE /\ scene' = scene
    BY <2>2, <1>1, SimGoes, StagesFacts, MoversCommitDoes
  <2> QED BY <2>1, <2>2, <1>1, MoversCommitDoes
<1>3. Claimed' /\ MeshReached'
  BY <1>2, QuietKeeps DEF Claiming
<1>4. Acts'
  BY <1>2 DEF SceneIInv, Acts
<1>5. LockHeld'
  BY <1>2, TypeParts, LockMoves, MoversCommitDoes DEF SceneIInv, LockHeld, Applier, Writing
<1>6. Batch'
  BY <1>2 DEF SceneIInv, Batch
<1>7. Pending'
  <2>1. CASE tick.changed = TRUE /\ scene' = queued
    BY <2>1, <1>1, MoversCommitDoes DEF Pending
  <2>2. CASE tick.changed = FALSE /\ scene' = scene
    BY <2>2, <1>2, MoversCommitDoes DEF SceneIInv, Pending, Applier
  <2> QED BY <2>1, <2>2, <1>1, MoversCommitDoes
<1>8. Alive'
  BY MoversCommitDoes DEF SceneIInv, Alive
<1> QED BY <1>1, <1>3, <1>4, <1>5, <1>6, <1>7, <1>8 DEF SceneIInv

LEMMA ReleaseKeeps == ASSUME SceneIInv, Release PROVE SceneIInv'
<1>1. TypeOK /\ TypeOK'
  BY ReleaseType DEF SceneIInv
<1>2. /\ app["sim"].pc = "release" /\ app'["sim"].pc \in {"release", "trace"} /\ app'["flush"] = app["flush"]
      /\ UNCHANGED <<staged, clears, applied, buf>> /\ queued'.mesh = queued.mesh /\ scene'.mesh = scene.mesh
  BY SimGoes, StagesFacts, ReleaseDoes DEF SceneIInv
<1>3. Claimed' /\ MeshReached'
  BY <1>2, QuietKeeps DEF Claiming
<1>4. Acts'
  BY <1>2 DEF SceneIInv, Acts
<1>5. LockHeld'
  BY <1>2, ReleaseDoes DEF SceneIInv, LockHeld, Applier, Writing
<1>6. Batch'
  BY <1>2 DEF SceneIInv, Batch
<1>7. Pending'
  BY <1>2, ReleaseDoes DEF SceneIInv, Pending, Applier
<1>8. Alive'
  <2>1. CASE dyn' = dyn /\ tick' = tick
    BY <2>1, ReleaseDoes DEF SceneIInv, Alive
  <2>2. ASSUME NEW m \in tick.torn, tick'.i = tick.i, tick'.torn = tick.torn \ {m},
               \A n \in Mover \ {m} : dyn'[n] = dyn[n]
        PROVE  Alive'
    <3>1. queued.inst[m] = 0
      BY <1>2 DEF SceneIInv, Alive
    <3> QED BY <2>2, <3>1, <1>1, <1>2, ReleaseDoes DEF SceneIInv, Alive
  <2> QED BY <2>1, <2>2, <1>1, ReleaseMoves
<1> QED BY <1>1, <1>3, <1>4, <1>5, <1>6, <1>7, <1>8 DEF SceneIInv

LEMMA TickTraceKeeps == ASSUME SceneIInv, TickTrace PROVE SceneIInv'
<1>1. TypeOK /\ TypeOK'
  BY TickTraceType DEF SceneIInv
<1>2. Acts'
  BY StagesFacts, GotoMoves, TypeParts, TickTraceDoes DEF SceneIInv, Acts
<1>3. LockHeld'
  BY StagesFacts, GotoMoves, TypeParts, TickTraceDoes DEF SceneIInv, LockHeld, Writing
<1>4. Claimed'
  BY StagesFacts, GotoMoves, TypeParts, TickTraceDoes DEF SceneIInv, Claimed, Claiming
<1>5. MeshReached'
  BY StagesFacts, GotoMoves, TypeParts, TickTraceDoes DEF SceneIInv, MeshReached, Mesh, Writing
<1>6. Batch'
  BY StagesFacts, GotoMoves, TypeParts, TickTraceDoes DEF SceneIInv, Batch
<1>7. Pending'
  BY StagesFacts, GotoMoves, TypeParts, TickTraceDoes DEF SceneIInv, Pending
<1>8. Alive'
  BY StagesFacts, GotoMoves, TypeParts, TickTraceDoes DEF SceneIInv, Alive
<1> QED BY <1>1, <1>2, <1>3, <1>4, <1>5, <1>6, <1>7, <1>8 DEF SceneIInv

LEMMA ReaderKeeps ==
    ASSUME SceneIInv, NEW r \in Reader, BeginTrace(r) \/ EndTrace(r) PROVE SceneIInv'
<1>1. TypeOK /\ TypeOK'
  BY ReaderType DEF SceneIInv
<1>2. Acts'
  BY ReaderDoes DEF SceneIInv, Acts
<1>3. LockHeld'
  BY ReaderDoes DEF SceneIInv, LockHeld
<1>4. Claimed'
  BY ReaderDoes DEF SceneIInv, Claimed
<1>5. MeshReached'
  BY ReaderDoes DEF SceneIInv, MeshReached, Mesh
<1>6. Batch'
  BY ReaderDoes DEF SceneIInv, Batch
<1>7. Pending'
  BY ReaderDoes DEF SceneIInv, Pending
<1>8. Alive'
  BY ReaderDoes DEF SceneIInv, Alive
<1> QED BY <1>1, <1>2, <1>3, <1>4, <1>5, <1>6, <1>7, <1>8 DEF SceneIInv

-----------------------------------------------------------------------------
(* The invariant, and the properties.                                      *)

LEMMA SceneInit == Init => SceneIInv
<1> SUFFICES ASSUME Init PROVE SceneIInv
  OBVIOUS
<1>1. TypeOK
  BY SceneAssumption DEF Init, TypeOK, Empty, NoTick, Scenes, Tick, Ops, Stages, Applier, Xform
<1>2. Acts /\ LockHeld /\ Batch /\ Pending
  BY DEF Init, Acts, LockHeld, Batch, Pending, Applier, Writing, Claiming
<1>3. Claimed /\ MeshReached
  BY DEF Init, Claimed, MeshReached, Mesh, Empty, Applier, Writing, Claiming
<1>4. Alive
  BY DEF Init, Alive, Empty, Applier
<1> QED BY <1>1, <1>2, <1>3, <1>4 DEF SceneIInv

LEMMA SceneStuts == SceneIInv /\ UNCHANGED vars => SceneIInv'
<1> SUFFICES ASSUME SceneIInv, UNCHANGED vars PROVE SceneIInv'
  OBVIOUS
<1>1. TypeOK'
  BY TypeParts, TypePartsPrime DEF SceneIInv, vars
<1>2. Acts' /\ LockHeld' /\ Claimed' /\ MeshReached' /\ Batch' /\ Pending' /\ Alive'
  BY DEF SceneIInv, Acts, LockHeld, Claimed, MeshReached, Mesh, Batch, Pending, Alive, vars
<1> QED BY <1>1, <1>2 DEF SceneIInv

LEMMA ApplyKeeps ==
    ASSUME "mesh" \notin Fails, SceneIInv, NEW t \in Applier, Apply(t) PROVE SceneIInv'
BY AcquireKeeps, ReplaceKeeps, CommitMeshKeeps, MarkMeshKeeps DEF Apply

LEMMA SimKeeps == ASSUME "mesh" \notin Fails, SceneIInv, SimNext PROVE SceneIInv'
<1>1. CASE Apply("sim")
  BY <1>1, ApplyKeeps, StagesFacts
<1>2. CASE SlotBuild \/ SlotBuildFails \/ SlotUpdate \/ SlotTeardown
  BY <1>2, SlotBuildKeeps, SlotBuildFailsKeeps, SlotUpdateKeeps, SlotTeardownKeeps
<1> QED
  BY <1>1, <1>2, TickTakeKeeps, ScanKeeps, SlotTakeKeeps, SlotLockKeeps, MoversCommitKeeps,
     ReleaseKeeps, TickTraceKeeps DEF SimNext

LEMMA ClientKeeps == ASSUME "mesh" \notin Fails, SceneIInv, ClientNext PROVE SceneIInv'
<1>1. CASE \E c \in BOOLEAN : SetMesh(c)
  BY <1>1, SetMeshKeeps
<1>2. CASE \E m \in Mover : RemoveMover(m) \/ \E xf \in Xform : MoveMover(m, xf)
  BY <1>2, RemoveMoverKeeps, MoveMoverKeeps
<1> QED BY <1>1, <1>2, FlushTakeKeeps, AddMoverKeeps DEF ClientNext

LEMMA SceneStep == ASSUME "mesh" \notin Fails, SceneIInv, [Next]_vars PROVE SceneIInv'
<1>1. CASE FlushNext
  BY <1>1, ApplyKeeps, FlushWaitKeeps, StagesFacts DEF FlushNext
<1>2. CASE \E r \in Reader : BeginTrace(r) \/ EndTrace(r)
  BY <1>2, ReaderKeeps
<1> QED BY <1>1, <1>2, SimKeeps, ClientKeeps, SceneStuts DEF Next

\* The invariant holds of every execution, for any number of meshes, movers and simulations, if
\* phonon refuses no static mesh.
THEOREM SceneInvariant == ASSUME "mesh" \notin Fails PROVE Spec => []SceneIInv
<1>1. SceneIInv /\ [Next]_vars => SceneIInv'
  BY SceneStep
<1> QED BY <1>1, SceneInit, PTL DEF Spec

\* Every variable keeps its type.
THEOREM TypeCorrect == ASSUME "mesh" \notin Fails PROVE Spec => []TypeOK
<1>1. SceneIInv => TypeOK
  BY DEF SceneIInv
<1> QED BY <1>1, SceneInvariant, PTL

\* With the scene lock free the scene shows the newest applied mesh (mesh_gen_stale,
\* mesh_mark_applied): no preempted applier puts an older one back.
THEOREM AppliedIsCommittedCorrect == ASSUME "mesh" \notin Fails PROVE Spec => []AppliedIsCommitted
<1>1. SceneIInv => AppliedIsCommitted
  <2> SUFFICES ASSUME SceneIInv, lock.writer = "none" PROVE scene.mesh = Mesh(applied)
    BY DEF AppliedIsCommitted
  <2>1. \A t \in Applier : app[t].pc \notin Writing
    BY DEF SceneIInv, LockHeld, Applier
  <2> QED BY <2>1 DEF SceneIInv, MeshReached, Writing
<1> QED BY <1>1, SceneInvariant, PTL

\* A trace reads a whole commit whose objects are alive (the shared side of scene_srw).
THEOREM TracedIsWholeCorrect == ASSUME "mesh" \notin Fails PROVE Spec => []TracedIsWhole
<1>1. SceneIInv => TracedIsWhole
  <2> SUFFICES ASSUME SceneIInv, lock.readers # {}
               PROVE  /\ scene = queued
                      /\ scene.mesh # 0 => buf = scene.mesh
                      /\ \A m \in Mover : scene.inst[m] # 0 => dyn[m].id = scene.inst[m]
    BY DEF TracedIsWhole
  <2>1. lock.writer = "none"
    BY DEF SceneIInv, LockHeld
  <2>2. \A t \in Applier : app[t].pc # "commit"
    BY <2>1 DEF SceneIInv, LockHeld, Applier, Writing
  <2>3. scene = queued
    BY <2>1, <2>2 DEF SceneIInv, Pending, Batch
  <2> QED BY <2>3 DEF SceneIInv, Alive
<1> QED BY <1>1, SceneInvariant, PTL

\* A step that ends a flush: only its own three ways out do.
LEMMA FlushEnds ==
    ASSUME TypeOK, Next, app["flush"].pc # "idle", app'["flush"].pc = "idle"
    PROVE  Acquire("flush") \/ MarkMesh("flush") \/ FlushWait
<1> SUFFICES ASSUME ~Acquire("flush"), ~MarkMesh("flush"), ~FlushWait PROVE FALSE
  OBVIOUS
<1>1. "sim" \in Applier /\ "flush" \in Applier /\ app \in [Applier -> AppRec]
  BY StagesFacts, TypeParts
<1>2. /\ ~(\E pc : Goto("sim", pc)) /\ app' # app
      /\ ~Goto("flush", "commit") /\ ~Goto("flush", "mark")
  BY <1>1 DEF Goto, AppRec
<1>3. ~Apply("sim")
  BY <1>1, <1>2, AcquireDoes, CommitMeshDoes, MarkMeshDoes DEF Apply, Replace
<1>4. ~Apply("flush")
  BY <1>1, <1>2, CommitMeshDoes DEF Apply, Replace
<1>5. ~(SlotBuild \/ SlotBuildFails \/ SlotUpdate \/ SlotTeardown)
  BY <1>2 DEF SlotBuild, SlotBuildFails, SlotUpdate, SlotTeardown, Acting, Sim
<1>6. ~(TickTake \/ Scan \/ SlotTake \/ SlotLock \/ MoversCommit \/ Release \/ TickTrace)
  BY <1>2, TickTakeDoes, ScanDoes, SlotTakeTick, MoversCommitDoes, ReleaseDoes, TickTraceDoes
     DEF SlotLock
<1>7. ~ClientNext
  BY <1>2 DEF ClientNext, SetMesh, FlushTake, AddMover, RemoveMover, MoveMover, Client
<1>8. ~(\E r \in Reader : BeginTrace(r) \/ EndTrace(r))
  BY <1>2, ReaderDoes
<1> QED BY <1>3, <1>4, <1>5, <1>6, <1>7, <1>8 DEF Next, SimNext, FlushNext

\* steam_scene_flush returns only when the latest staged mesh, or clear, is what a trace sees.
THEOREM FlushCommitsCorrect == ASSUME "mesh" \notin Fails PROVE Spec => FlushCommits
<1> DEFINE Returns == app["flush"].pc # "idle" /\ app'["flush"].pc = "idle"
<1>1. SceneIInv /\ [Next]_vars => [Returns => scene'.mesh = Mesh(staged.gen)]_vars
  <2> SUFFICES ASSUME SceneIInv, Next, Returns PROVE scene'.mesh = Mesh(staged.gen)
    OBVIOUS
  <2>1. TypeOK /\ app["flush"].gen = staged.gen /\ "flush" \in Applier
    BY StagesFacts DEF SceneIInv, Claimed
  <2>2. CASE MarkMesh("flush")
    BY <2>1, <2>2, MarkMeshDoes DEF SceneIInv, MeshReached
  <2>3. ASSUME staged.gen <= applied, scene' = scene, app["flush"].pc \notin Writing
        PROVE  scene'.mesh = Mesh(staged.gen)
    <3>1. applied \in Nat /\ staged.gen \in Nat /\ applied = staged.gen
      BY <2>1, <2>3, Naturals DEF SceneIInv, Claimed, TypeOK
    <3>2. app["sim"].pc # "mark"
      BY <3>1, AppParts, Naturals DEF SceneIInv, MeshReached, Claimed, Applier, Writing, Claiming
    <3> QED BY <2>3, <3>1, <3>2 DEF SceneIInv, MeshReached, Applier, Writing
  <2>4. CASE FlushWait
    BY <2>1, <2>3, <2>4 DEF FlushWait, Writing
  <2>5. CASE Acquire("flush")
    <3>1. app["flush"].gen <= applied
      BY <2>1, <2>5, AcquireDoes, GotoMoves, TypeParts, StagesFacts
    <3> QED BY <2>1, <2>3, <2>5, <3>1, AcquireDoes DEF Writing
  <2> QED BY <2>1, <2>2, <2>4, <2>5, FlushEnds
<1>2. Spec => [][Returns => scene'.mesh = Mesh(staged.gen)]_vars
  BY <1>1, SceneInvariant, PTL DEF Spec
<1> QED BY <1>2 DEF FlushCommits

-----------------------------------------------------------------------------
(* The movers: MoversIInv is inductive, and with it a mover that is live and not moving is where
   the control thread put it. *)

LEMMA MoverParts ==
    TypeOK => /\ adds \in Nat /\ tick.id \in Nat
              /\ tick.op \in Ops
              /\ \A m \in Mover : /\ shadow[m] \in ShadowRec /\ dyn[m] \in DynRec /\ owner[m] \in Nat
                                  /\ shadow[m].geo \in Nat /\ dyn[m].id \in Nat
                                  /\ shadow[m].want \in BOOLEAN /\ shadow[m].ack \in BOOLEAN
                                  /\ shadow[m].moved \in BOOLEAN
BY TypeParts, Naturals DEF ShadowRec, DynRec, Tick

\* A step that leaves the movers alone.
LEMMA StillShows ==
    ASSUME MoversIInv, UNCHANGED <<shadow, dyn, tick, adds, owner>>,
           app["sim"].pc = "act" <=> app'["sim"].pc = "act"
    PROVE  MoversIInv'
BY DEF MoversIInv, Named, Operating, Brings, MovedIsShown

LEMMA AddMoverDoes ==
    ASSUME TypeOK, AddMover
    PROVE  /\ UNCHANGED <<app, dyn, tick>> /\ adds' = adds + 1
           /\ \E m \in Mover :
                /\ shadow'[m].want = TRUE /\ shadow'[m].geo = adds + 1 /\ shadow'[m].xf = 0
                /\ shadow'[m].moved = FALSE /\ owner'[m] = adds + 1
                /\ \A n \in Mover \ {m} : shadow'[n] = shadow[n] /\ owner'[n] = owner[n]
<1>1. PICK m \in Mover :
        /\ shadow' = [shadow EXCEPT ![m] = [@ EXCEPT !.want = TRUE, !.geo = adds + 1, !.xf = 0, !.moved = FALSE]]
        /\ owner' = [owner EXCEPT ![m] = adds + 1]
  BY DEF AddMover
<1> DEFINE s == [shadow[m] EXCEPT !.want = TRUE, !.geo = adds + 1, !.xf = 0, !.moved = FALSE]
<1>2. s.want = TRUE /\ s.geo = adds + 1 /\ s.xf = 0 /\ s.moved = FALSE
  BY MoverParts DEF ShadowRec
<1>3. shadow'[m] = s /\ owner'[m] = adds + 1
      /\ \A n \in Mover \ {m} : shadow'[n] = shadow[n] /\ owner'[n] = owner[n]
  BY <1>1, TypeParts
<1> HIDE DEF s
<1> QED BY <1>2, <1>3 DEF AddMover

LEMMA AddMoverShows == ASSUME TypeOK, Acts, MoversIInv, AddMover PROVE MoversIInv'
<1>1. PICK m \in Mover :
        /\ shadow'[m].want = TRUE /\ shadow'[m].geo = adds + 1 /\ shadow'[m].xf = 0
        /\ shadow'[m].moved = FALSE /\ owner'[m] = adds + 1
        /\ \A n \in Mover \ {m} : shadow'[n] = shadow[n] /\ owner'[n] = owner[n]
  BY AddMoverDoes
<1>2. UNCHANGED <<app, dyn, tick>> /\ adds' = adds + 1 /\ adds \in Nat /\ tick.id \in Nat
  BY AddMoverDoes, MoverParts
<1>3. dyn[m].id < owner'[m] /\ tick.id < owner'[m]
  BY <1>1, <1>2, MoverParts DEF MoversIInv, Named
<1>4. Named'
  BY <1>1, <1>2, <1>3, MoverParts DEF MoversIInv, Named
<1>5. Operating'
  BY <1>2 DEF MoversIInv, Operating
<1>6. Brings'
  BY <1>1, <1>2, <1>3, MoverParts DEF MoversIInv, Brings, Acts
<1>7. MovedIsShown'
  BY <1>1, <1>2, <1>3, MoverParts DEF MoversIInv, MovedIsShown
<1> QED BY <1>4, <1>5, <1>6, <1>7 DEF MoversIInv

LEMMA RemoveMoverShows ==
    ASSUME TypeOK, Acts, MoversIInv, NEW m \in Mover, RemoveMover(m) PROVE MoversIInv'
<1>1. /\ shadow' = [shadow EXCEPT ![m] = [shadow[m] EXCEPT !.want = FALSE]]
      /\ owner' = [owner EXCEPT ![m] = 0] /\ UNCHANGED <<app, dyn, tick, adds>>
  BY DEF RemoveMover
<1>2. /\ shadow'[m].want = FALSE /\ shadow'[m].geo = shadow[m].geo /\ owner'[m] = 0
      /\ \A n \in Mover \ {m} : shadow'[n] = shadow[n] /\ owner'[n] = owner[n]
  BY <1>1, TypeParts DEF ShadowRec
<1>3. Named' /\ Operating'
  BY <1>1, <1>2, MoverParts DEF MoversIInv, Named, Operating
<1>4. Brings' /\ MovedIsShown'
  BY <1>1, <1>2, MoverParts DEF MoversIInv, Brings, Acts, MovedIsShown
<1> QED BY <1>3, <1>4 DEF MoversIInv

LEMMA MoveMoverShows ==
    ASSUME TypeOK, Acts, MoversIInv, NEW m \in Mover, NEW xf \in Xform, MoveMover(m, xf)
    PROVE  MoversIInv'
<1>1. /\ shadow' = [shadow EXCEPT ![m] = [[shadow[m] EXCEPT !.xf = xf] EXCEPT !.moved = TRUE]]
      /\ UNCHANGED <<app, dyn, tick, adds, owner>>
  BY TypeParts DEF MoveMover
<1>2. /\ shadow'[m].want = shadow[m].want /\ shadow'[m].geo = shadow[m].geo /\ shadow'[m].moved = TRUE
      /\ \A n \in Mover \ {m} : shadow'[n] = shadow[n]
  BY <1>1, TypeParts DEF ShadowRec
<1>3. Named' /\ Operating'
  BY <1>1, <1>2, MoverParts DEF MoversIInv, Named, Operating
<1>4. Brings' /\ MovedIsShown'
  BY <1>1, <1>2, MoverParts DEF MoversIInv, Brings, Acts, MovedIsShown
<1> QED BY <1>3, <1>4 DEF MoversIInv

LEMMA ScanShows == ASSUME TypeOK, MoversIInv, Scan PROVE MoversIInv'
<1>1. /\ app["sim"].pc = "scan" /\ app'["sim"].pc \in {"slot", "trace"}
      /\ UNCHANGED <<shadow, dyn, adds, owner>> /\ tick'.op = "none" /\ tick'.id = 0
  BY ScanDoes, SimGoes, StagesFacts DEF NoTick
<1>2. tick.op = "none"
  BY <1>1 DEF MoversIInv, Operating
<1> QED BY <1>1, <1>2, MoverParts DEF MoversIInv, Named, Operating, Brings, MovedIsShown

\* What taking a slot's decision leaves in the shadow.
LEMMA LeftDoes ==
    ASSUME NEW s \in ShadowRec
    PROVE  /\ Left(s).want = s.want /\ Left(s).ack = s.ack /\ Left(s).xf = s.xf
           /\ Left(s).geo \in {0, s.geo} /\ Left(s).moved \in {FALSE, s.moved}
           /\ OpFor(s) \notin {"build", "update"} => Left(s).moved = s.moved
           /\ OpFor(s) = "teardown" => s.want = FALSE
           /\ OpFor(s) \in Ops
BY LeftType DEF Left, OpFor, ShadowRec

LEMMA SlotTakeShows == ASSUME TypeOK, MoversIInv, SlotTake PROVE MoversIInv'
<1> DEFINE i == tick.i
           s == shadow[i]
<1>1. /\ app["sim"].pc = "slot" /\ i \in Mover /\ s \in ShadowRec /\ UNCHANGED <<dyn, adds, owner>>
      /\ shadow'[i] = Left(s) /\ \A m \in Mover \ {i} : shadow'[m] = shadow[m]
  BY SlotTakeDoes, TypeParts
<1>2. tick.op = "none"
  BY <1>1 DEF MoversIInv, Operating
<1>3. \A m \in Mover : /\ shadow'[m].want = shadow[m].want /\ shadow'[m].ack = shadow[m].ack
                       /\ shadow'[m].xf = shadow[m].xf /\ shadow'[m].geo \in {0, shadow[m].geo}
                       /\ m # i => shadow'[m].moved = shadow[m].moved
  <2>1. /\ Left(s).want = s.want /\ Left(s).ack = s.ack /\ Left(s).xf = s.xf /\ Left(s).geo \in {0, s.geo}
    BY <1>1, LeftDoes
  <2> QED BY <1>1, <2>1
<1>4. CASE /\ OpFor(s) = "none" \/ (OpFor(s) = "update" /\ dyn[i].id = 0)
           /\ tick' = [tick EXCEPT !.i = i + 1] /\ app' = app
  <2>1. tick'.op = "none" /\ tick'.id = tick.id
    BY <1>2, <1>4, TypeParts DEF Tick
  <2>2. Named' /\ Operating' /\ Brings'
    BY <1>1, <1>3, <1>4, <2>1, MoverParts DEF MoversIInv, Named, Operating, Brings
  <2>3. ASSUME shadow[i].want, dyn[i].id = owner[i] PROVE shadow'[i].moved = shadow[i].moved
    <3>1. dyn[i].id # 0
      BY <1>1, <2>3, MoverParts DEF MoversIInv, Named
    <3> QED BY <1>1, <1>4, <3>1, LeftDoes
  <2>4. MovedIsShown'
    BY <1>1, <1>2, <1>3, <2>1, <2>3 DEF MoversIInv, MovedIsShown
  <2> QED BY <2>2, <2>4 DEF MoversIInv
<1>5. CASE /\ OpFor(s) # "none"
           /\ tick' = [tick EXCEPT !.op = OpFor(s), !.id = s.geo, !.xf = s.xf] /\ Goto("sim", "act")
  <2>1. /\ tick'.i = i /\ tick'.op = OpFor(s) /\ tick'.id = s.geo /\ tick'.xf = s.xf /\ app'["sim"].pc = "act"
    BY <1>5, TypeParts, SimGoes, StagesFacts DEF Tick
  <2>2. Named' /\ Operating'
    BY <1>1, <1>3, <1>5, <2>1, MoverParts DEF MoversIInv, Named, Operating
  <2>3. Brings'
    <3>1. OpFor(s) = "teardown" => s.want = FALSE
      BY <1>1, LeftDoes
    <3> QED BY <1>1, <1>3, <2>1, <3>1 DEF Brings
  <2>4. MovedIsShown'
    BY <1>1, <1>2, <1>3, <1>5, <2>1 DEF MoversIInv, MovedIsShown
  <2> QED BY <2>2, <2>3, <2>4 DEF MoversIInv
<1> QED BY <1>1, <1>4, <1>5, SlotTakeDoes

LEMMA AdvanceEnds ==
    ASSUME tick \in Tick
    PROVE  /\ Advance.op = "none" /\ Advance.id = 0
           /\ [Advance EXCEPT !.changed = tick.changed].op = "none"
           /\ [Advance EXCEPT !.changed = tick.changed].id = 0
           /\ [Advance EXCEPT !.torn = tick.torn \cup {tick.i}].op = "none"
           /\ [Advance EXCEPT !.torn = tick.torn \cup {tick.i}].id = 0
BY DEF Advance, Tick

\* An operation that ends on its mover m: what the others are shown is left alone.
LEMMA EndsOp ==
    ASSUME TypeOK, MoversIInv, NEW m \in Mover, m = tick.i,
           app["sim"].pc = "act", app'["sim"].pc = "slot", tick'.op = "none", tick'.id = 0,
           UNCHANGED <<adds, owner>>,
           \A n \in Mover \ {m} : shadow'[n] = shadow[n] /\ dyn'[n] = dyn[n],
           shadow'[m].geo = shadow[m].geo, dyn'[m].id <= adds,
           shadow'[m].want => /\ shadow[m].want
                              /\ ~shadow'[m].moved /\ dyn'[m].id = owner[m] => dyn'[m].xf = shadow'[m].xf
    PROVE  MoversIInv'
<1>1. Named'
  BY MoverParts DEF MoversIInv, Named
<1>2. Operating' /\ Brings'
  BY DEF Operating, Brings
<1>3. MovedIsShown'
  BY DEF MoversIInv, MovedIsShown
<1> QED BY <1>1, <1>2, <1>3 DEF MoversIInv

LEMMA ActMoves ==
    ASSUME TypeOK, Acts, MoversIInv, NEW op, Acting(op)
    PROVE  /\ app["sim"].pc = "act" /\ app'["sim"].pc = "slot" /\ tick.op = op /\ tick.i \in Mover
           /\ UNCHANGED <<adds, owner>> /\ tick.id <= adds
           /\ dyn[tick.i].id <= adds
BY ActingDoes, SimGoes, StagesFacts DEF MoversIInv, Named

LEMMA SlotBuildShows == ASSUME TypeOK, Acts, MoversIInv, SlotBuild PROVE MoversIInv'
<1> DEFINE i == tick.i
<1>1. Acting("build")
  BY DEF SlotBuild
<1>2. /\ app["sim"].pc = "act" /\ app'["sim"].pc = "slot" /\ tick.op = "build" /\ i \in Mover
      /\ UNCHANGED <<adds, owner>> /\ tick.id <= adds
  BY <1>1, ActMoves
<1>3. tick'.op = "none" /\ tick'.id = 0
  BY TypeParts, AdvanceEnds DEF SlotBuild
<1>4. /\ dyn'[i].id = tick.id /\ dyn'[i].xf = tick.xf
      /\ \A n \in Mover \ {i} : dyn'[n] = dyn[n]
  BY <1>2, TypeParts DEF SlotBuild
<1>5. /\ shadow'[i] = [shadow[i] EXCEPT !.ack = TRUE]
      /\ \A n \in Mover \ {i} : shadow'[n] = shadow[n]
  BY <1>2, TypeParts DEF SlotBuild, Acknowledged
<1>6. /\ shadow'[i].want = shadow[i].want /\ shadow'[i].geo = shadow[i].geo
      /\ shadow'[i].xf = shadow[i].xf /\ shadow'[i].moved = shadow[i].moved
  BY <1>2, <1>5, TypeParts DEF ShadowRec
<1>7. shadow[i].want /\ ~shadow[i].moved /\ tick.id = owner[i] => tick.xf = shadow[i].xf
  BY <1>2 DEF MoversIInv, Brings
<1>8. \A n \in Mover \ {i} : shadow'[n] = shadow[n] /\ dyn'[n] = dyn[n]
  BY <1>4, <1>5
<1>9. /\ dyn'[i].id <= adds
      /\ shadow'[i].want =>
            /\ shadow[i].want
            /\ ~shadow'[i].moved /\ dyn'[i].id = owner[i] => dyn'[i].xf = shadow'[i].xf
  BY <1>2, <1>4, <1>6, <1>7
<1> HIDE DEF i
<1>10. i = tick.i
  BY DEF i
<1> QED BY <1>2, <1>3, <1>6, <1>8, <1>9, <1>10, EndsOp

LEMMA SlotBuildFailsShows == ASSUME TypeOK, Acts, MoversIInv, SlotBuildFails PROVE MoversIInv'
<1> DEFINE i == tick.i
<1>1. Acting("build")
  BY DEF SlotBuildFails
<1>2. /\ app["sim"].pc = "act" /\ app'["sim"].pc = "slot" /\ i \in Mover
      /\ UNCHANGED <<adds, owner>> /\ dyn[i].id <= adds
  BY <1>1, ActMoves
<1>3. tick'.op = "none" /\ tick'.id = 0
  BY TypeParts, AdvanceEnds DEF SlotBuildFails
<1>4. /\ shadow' = [shadow EXCEPT ![i] = [shadow[i] EXCEPT !.want = FALSE]] /\ dyn' = dyn
  BY DEF SlotBuildFails
<1>5. /\ shadow'[i].want = FALSE /\ shadow'[i].geo = shadow[i].geo
      /\ \A n \in Mover \ {i} : shadow'[n] = shadow[n]
  BY <1>2, <1>4, TypeParts DEF ShadowRec
<1> QED BY <1>2, <1>3, <1>4, <1>5, EndsOp

LEMMA SlotUpdateShows == ASSUME TypeOK, Acts, MoversIInv, SlotUpdate PROVE MoversIInv'
<1> DEFINE i == tick.i
<1>1. Acting("update")
  BY DEF SlotUpdate
<1>2. /\ app["sim"].pc = "act" /\ app'["sim"].pc = "slot" /\ tick.op = "update" /\ i \in Mover
      /\ UNCHANGED <<adds, owner>> /\ dyn[i].id <= adds
  BY <1>1, ActMoves
<1>3. tick'.op = "none" /\ tick'.id = 0
  BY TypeParts, AdvanceEnds DEF SlotUpdate
<1>4. dyn' = [dyn EXCEPT ![i] = [dyn[i] EXCEPT !.xf = tick.xf]] /\ shadow' = shadow
  BY DEF SlotUpdate
<1>5. /\ dyn'[i].id = dyn[i].id /\ dyn'[i].xf = tick.xf
      /\ \A n \in Mover \ {i} : dyn'[n] = dyn[n]
  BY <1>2, <1>4, TypeParts DEF DynRec
<1>6. shadow[i].want /\ ~shadow[i].moved /\ dyn[i].id = owner[i] => tick.xf = shadow[i].xf
  BY <1>2 DEF MoversIInv, Brings
<1> QED BY <1>2, <1>3, <1>4, <1>5, <1>6, EndsOp

LEMMA SlotTeardownShows == ASSUME TypeOK, Acts, MoversIInv, SlotTeardown PROVE MoversIInv'
<1> DEFINE i == tick.i
<1>1. Acting("teardown")
  BY DEF SlotTeardown
<1>2. /\ app["sim"].pc = "act" /\ app'["sim"].pc = "slot" /\ tick.op = "teardown" /\ i \in Mover
      /\ UNCHANGED <<adds, owner>> /\ dyn[i].id <= adds
  BY <1>1, ActMoves
<1>3. tick \in Tick /\ tick' = [Advance EXCEPT !.torn = Advance.torn \cup {tick.i}]
  BY TypeParts DEF SlotTeardown
<1>4. tick'.op = "none" /\ tick'.id = 0
  BY <1>3, AdvanceIs, AdvanceEnds
<1>5. shadow' = shadow /\ dyn' = dyn
  BY DEF SlotTeardown
<1>6. shadow[i].want /\ ~shadow[i].moved => dyn[i].id # owner[i]
  BY <1>2 DEF MoversIInv, Brings
<1> QED BY <1>2, <1>4, <1>5, <1>6, EndsOp

LEMMA ReleaseShows == ASSUME TypeOK, MoversIInv, Release PROVE MoversIInv'
<1>1. /\ app["sim"].pc = "release" /\ app'["sim"].pc \in {"release", "trace"} /\ UNCHANGED <<adds, owner>>
  BY ReleaseDoes, SimGoes, StagesFacts
<1>2. CASE UNCHANGED <<dyn, shadow, tick>>
  BY <1>1, <1>2, StillShows
<1>3. CASE \E m \in tick.torn :
            /\ dyn' = [dyn EXCEPT ![m] = [id |-> 0, xf |-> 0]]
            /\ shadow' = [shadow EXCEPT ![m] = [shadow[m] EXCEPT !.ack = FALSE]]
            /\ tick' = [tick EXCEPT !.torn = tick.torn \ {m}]
  <2>1. PICK m \in tick.torn :
            /\ dyn' = [dyn EXCEPT ![m] = [id |-> 0, xf |-> 0]]
            /\ shadow' = [shadow EXCEPT ![m] = [shadow[m] EXCEPT !.ack = FALSE]]
            /\ tick' = [tick EXCEPT !.torn = tick.torn \ {m}]
    BY <1>3
  <2>2. /\ m \in Mover /\ tick'.i = tick.i /\ tick'.op = tick.op /\ tick'.id = tick.id
        /\ dyn'[m].id = 0 /\ \A n \in Mover \ {m} : dyn'[n] = dyn[n] /\ shadow'[n] = shadow[n]
    BY <2>1, TypeParts DEF Tick
  <2>3. /\ shadow'[m].want = shadow[m].want /\ shadow'[m].geo = shadow[m].geo /\ shadow'[m].ack = FALSE
    BY <2>1, <2>2, TypeParts DEF ShadowRec
  <2>4. Named' /\ Operating' /\ Brings'
    BY <1>1, <2>2, <2>3, MoverParts DEF MoversIInv, Named, Operating, Brings
  <2>5. MovedIsShown'
    BY <1>1, <2>2, <2>3 DEF MoversIInv, MovedIsShown
  <2> QED BY <2>4, <2>5 DEF MoversIInv
<1> QED BY <1>2, <1>3, Zenon DEF Release

LEMMA QuietShows ==
    ASSUME TypeOK, MoversIInv,
           \/ TickTake \/ FlushTake \/ FlushWait \/ SlotLock \/ MoversCommit \/ TickTrace
           \/ \E t \in Applier : Apply(t)
           \/ \E c \in BOOLEAN : SetMesh(c)
           \/ \E r \in Reader : BeginTrace(r) \/ EndTrace(r)
    PROVE  MoversIInv'
<1>1. CASE TickTake \/ FlushTake
  BY <1>1, TickTakeDoes, FlushTakeDoes, ClaimIs, StillShows
<1>2. CASE FlushWait \/ SlotLock
  <2>1. UNCHANGED <<shadow, dyn, tick, adds, owner>>
    BY <1>2 DEF FlushWait, SlotLock, moverVars
  <2>2. app'["sim"] = app["sim"]
    BY <1>2, TypeParts, StagesFacts DEF FlushWait, SlotLock
  <2> QED BY <2>1, <2>2, StillShows
<1>3. CASE MoversCommit \/ TickTrace
  <2>1. UNCHANGED <<shadow, dyn, tick, adds, owner>> /\ app["sim"].pc # "act"
    BY <1>3, MoversCommitDoes, TickTraceDoes
  <2>2. app'["sim"].pc # "act"
    BY <1>3, <2>1, SimGoes, StagesFacts, MoversCommitDoes, TickTraceDoes
  <2> QED BY <2>1, <2>2, StillShows
<1>4. ASSUME NEW t \in Applier, Apply(t) PROVE MoversIInv'
  <2>1. UNCHANGED <<shadow, dyn, tick, adds, owner>> /\ app[t].pc # "act"
    BY <1>4, AcquireDoes, CommitMeshDoes, MarkMeshDoes DEF Apply, Replace, At, moverVars
  <2>2. \E pc \in Stages : pc # "act" /\ Goto(t, pc)
    BY <1>4, AcquireDoes, CommitMeshDoes, MarkMeshDoes, StagesFacts DEF Apply, Replace
  <2>3. app["sim"].pc = "act" <=> app'["sim"].pc = "act"
    BY <2>1, <2>2, GotoMoves, TypeParts, StagesFacts
  <2> QED BY <2>1, <2>3, StillShows
<1>5. CASE \E c \in BOOLEAN : SetMesh(c)
  <2>1. UNCHANGED <<app, shadow, dyn, tick, adds, owner>>
    BY <1>5 DEF SetMesh, moverVars
  <2> QED BY <2>1, StillShows
<1>6. CASE \E r \in Reader : BeginTrace(r) \/ EndTrace(r)
  BY <1>6, ReaderDoes, StillShows
<1> QED BY <1>1, <1>2, <1>3, <1>4, <1>5, <1>6

-----------------------------------------------------------------------------
(* The invariant, and the property.                                        *)

LEMMA MoversInit == Init => MoversIInv
<1> SUFFICES ASSUME Init PROVE MoversIInv
  OBVIOUS
<1>1. Named /\ Operating /\ Brings
  BY SceneAssumption DEF Init, Named, Operating, Brings, NoTick, Applier
<1>2. MovedIsShown
  BY DEF Init, MovedIsShown
<1> QED BY <1>1, <1>2 DEF MoversIInv

LEMMA MoversStep == ASSUME TypeOK, Acts, MoversIInv, [Next]_vars PROVE MoversIInv'
<1>1. CASE UNCHANGED vars
  BY <1>1, StillShows DEF vars
<1>2. CASE SimNext
  BY <1>2, QuietShows, StagesFacts, ScanShows, SlotTakeShows, SlotBuildShows, SlotBuildFailsShows,
     SlotUpdateShows, SlotTeardownShows, ReleaseShows DEF SimNext
<1>3. CASE FlushNext
  BY <1>3, QuietShows, StagesFacts DEF FlushNext
<1>4. CASE ClientNext
  <2>1. CASE \E m \in Mover : RemoveMover(m) \/ \E xf \in Xform : MoveMover(m, xf)
    BY <2>1, RemoveMoverShows, MoveMoverShows
  <2> QED BY <1>4, <2>1, QuietShows, AddMoverShows DEF ClientNext
<1> QED BY <1>1, <1>2, <1>3, <1>4, QuietShows DEF Next

\* A mover's last transform is not lost (moved, in dyn_shadow): for any number of movers and adds.
THEOREM MovedIsShownCorrect == ASSUME "mesh" \notin Fails PROVE Spec => []MovedIsShown
<1>1. SceneIInv /\ MoversIInv /\ [Next]_vars => MoversIInv'
  BY MoversStep DEF SceneIInv
<1>2. MoversIInv => MovedIsShown
  BY DEF MoversIInv
<1> QED BY <1>1, <1>2, MoversInit, SceneInvariant, PTL DEF Spec
=============================================================================
