-------------------------- MODULE SceneGeometryInv --------------------------
(***************************************************************************)
(* The inductive strengthenings of SceneGeometry's safety properties.      *)
(* SceneIInv: who holds the scene lock, which generations are claimed and  *)
(* how far each has come in phonon's scene, and what a batch changed.      *)
(* MoversIInv: whose transform each mover has.  SceneGeometry_proofs proves *)
(* them inductive for any number of meshes, movers and simulations, if     *)
(* phonon refuses no static mesh.                                          *)
(***************************************************************************)
EXTENDS SceneGeometry

Claiming == {"lock", "replace", "commit", "mark"}
Writing == {"replace", "commit", "mark"}

\* The simulation thread acts on a mover only.
Acts == app["sim"].pc = "act" => tick.i \in Mover

\* The scene lock: one writer, which is where it may write, or readers.
LockHeld ==
    /\ \A t \in Applier : app[t].pc \in Writing => lock.writer = t
    /\ lock.writer = "flush" => app["flush"].pc \in Writing
    /\ lock.writer = "sim" => app["sim"].pc \in Writing \cup {"slot", "act"}
    /\ lock.writer # "none" => lock.readers = {}
    /\ app["flush"].pc \in Claiming \cup {"idle", "wait"}

\* What is staged or claimed is a generation that was staged, and is a clear exactly if it was one.
Claimed ==
    /\ applied <= staged.gen
    /\ \A g \in clears : g <= staged.gen
    /\ staged.dirty => staged.gen > 0
    /\ staged.clear <=> staged.dirty /\ staged.gen \in clears
    /\ \A t \in Applier : app[t].pc \in Claiming =>
        app[t].gen \in 1 .. staged.gen /\ (app[t].clear <=> app[t].gen \in clears)
    /\ app["flush"].pc # "idle" => app["flush"].gen = staged.gen

\* How far the mesh that is being applied has come: until its commit the scene shows the last one.
MeshReached ==
    /\ \A t \in Applier : app[t].pc \in Writing => app[t].gen > applied
    /\ \A t \in Applier : app[t].pc \in {"commit", "mark"} => queued.mesh = Mesh(app[t].gen)
    /\ \A t \in Applier : app[t].pc = "mark" => scene.mesh = Mesh(app[t].gen)
    /\ (\A t \in Applier : app[t].pc \notin {"commit", "mark"}) => queued.mesh = Mesh(applied)
    /\ (\A t \in Applier : app[t].pc # "mark") => scene.mesh = Mesh(applied)

\* A batch of movers' changes, once begun, holds the scene lock.
Batch == app["sim"].pc \in {"slot", "act"} /\ tick.changed => lock.writer = "sim"

\* What is queued and not committed is somebody's, who is about to commit it.
Pending ==
    scene # queued =>
        \/ \E t \in Applier : app[t].pc = "commit"
        \/ app["sim"].pc \in {"slot", "act"} /\ tick.changed

\* What the next commit will refer to is alive; what is torn down is no longer referred to.
Alive ==
    /\ queued.mesh # 0 => buf = queued.mesh
    /\ \A m \in Mover : queued.inst[m] # 0 => dyn[m].id = queued.inst[m]
    /\ app["sim"].pc \in {"slot", "act", "release"} =>
        \A m \in tick.torn : queued.inst[m] = 0 /\ m < tick.i

SceneIInv == TypeOK /\ Acts /\ LockHeld /\ Claimed /\ MeshReached /\ Batch /\ Pending /\ Alive

-----------------------------------------------------------------------------
\* The movers: who was added, and what the operation under way is about to show.
Named ==
    /\ tick.id <= adds
    /\ \A m \in Mover :
        /\ shadow[m].geo <= adds /\ dyn[m].id <= adds /\ owner[m] <= adds
        /\ shadow[m].want => owner[m] # 0

Operating == app["sim"].pc = "act" <=> tick.op # "none"

\* Unless the mover moved on meanwhile, or the slot was given away, the operation brings it where
\* it is wanted.
Brings ==
    app["sim"].pc = "act" /\ shadow[tick.i].want /\ ~shadow[tick.i].moved =>
        /\ tick.op = "build" /\ tick.id = owner[tick.i] => tick.xf = shadow[tick.i].xf
        /\ tick.op = "update" /\ dyn[tick.i].id = owner[tick.i] => tick.xf = shadow[tick.i].xf
        /\ tick.op = "teardown" => dyn[tick.i].id # owner[tick.i]

MoversIInv == Named /\ Operating /\ Brings /\ MovedIsShown
=============================================================================
