--------------------------- MODULE SceneGeometry ---------------------------
(***************************************************************************)
(* The occlusion scene of acoustics/steam_scene.c.  The control thread     *)
(* stages a static mesh or a clear, adds, moves and removes movers (rigid  *)
(* instances), and may flush; the simulation thread commits all of it to   *)
(* the one scene that it and the borrowing simulations ray-trace.  Two     *)
(* locks: the mutex s->lock guards the shadow and is held for one action   *)
(* at a time here; the reader-writer lock scene_srw guards the scene.      *)
(*                                                                         *)
(* A mesh is named by the generation that staged it and a mover by the     *)
(* number of the call that added it; 0 is none.                            *)
(***************************************************************************)
EXTENDS Naturals, FiniteSets

CONSTANTS
    GenMax,     \* bound: how many meshes and clears are staged
    AddMax,     \* bound: how many movers are added
    MoverCap,   \* BWA_MAX_DYN_MESH
    Reader,     \* the simulations that borrow the scene (steam_reflect.c, steam_path.c)
    Calls,      \* the calls the client makes
    Fails       \* which of phonon's create calls may fail: "mesh", "mover"

ASSUME SceneAssumption ==
    /\ GenMax \in Nat /\ AddMax \in Nat /\ MoverCap \in Nat
    /\ {"sim", "flush", "none"} \cap Reader = {}

Mover == 1 .. MoverCap
Applier == {"sim", "flush"}
Xform == {0, 1}     \* 0 is the identity

VARIABLES
    staged,     \* mesh_dirty, pend_clear and mesh_gen; the pending buffers are generation staged.gen
    clears,     \* history: the generations that staged a clear
    applied,    \* mesh_gen_applied
    buf,        \* the mesh whose buffers are in mesh_verts, mesh_tris, ...
    queued,     \* what phonon's scene will hold at the next iplSceneCommit ...
    scene,      \* ... and what it holds: the mesh and each mover's instance
    lock,       \* scene_srw
    app,        \* where the simulation thread and a flush are, and the mesh they took
    shadow,     \* dyn_shadow: what the control thread wants of each mover
    dyn,        \* the phonon objects of each mover, and their transform
    tick,       \* locals of reconcile_dynamic
    adds, owner \* the movers added so far, and the one each slot was last given to
vars == <<staged, clears, applied, buf, queued, scene, lock, app, shadow, dyn, tick, adds, owner>>
meshVars == <<staged, clears, applied, buf>>
moverVars == <<shadow, dyn, tick, adds, owner>>

Scenes == [mesh : 0 .. GenMax, inst : [Mover -> 0 .. AddMax]]
Ops == {"none", "build", "update", "teardown"}
Tick == [i : 1 .. MoverCap + 1, op : Ops, id : 0 .. AddMax, xf : Xform, changed : BOOLEAN,
         torn : SUBSET Mover]
Stages == {"idle", "lock", "replace", "commit", "mark", "wait", "scan", "slot", "act", "release",
           "trace"}

TypeOK ==
    /\ staged \in [dirty : BOOLEAN, clear : BOOLEAN, gen : 0 .. GenMax]
    /\ clears \subseteq 1 .. GenMax
    /\ applied \in 0 .. GenMax /\ buf \in 0 .. GenMax
    /\ queued \in Scenes /\ scene \in Scenes
    /\ lock \in [writer : Applier \cup {"none"}, readers : SUBSET (Reader \cup {"sim"})]
    /\ app \in [Applier -> [pc : Stages, gen : 0 .. GenMax, clear : BOOLEAN]]
    /\ shadow \in [Mover -> [want : BOOLEAN, ack : BOOLEAN, geo : 0 .. AddMax, xf : Xform,
                             moved : BOOLEAN]]
    /\ dyn \in [Mover -> [id : 0 .. AddMax, xf : Xform]]
    /\ tick \in Tick
    /\ adds \in 0 .. AddMax /\ owner \in [Mover -> 0 .. AddMax]

NoTick == [i |-> 1, op |-> "none", id |-> 0, xf |-> 0, changed |-> FALSE, torn |-> {}]
Empty == [mesh |-> 0, inst |-> [m \in Mover |-> 0]]

Init ==
    /\ staged = [dirty |-> FALSE, clear |-> FALSE, gen |-> 0]
    /\ clears = {} /\ applied = 0 /\ buf = 0
    /\ queued = Empty /\ scene = Empty
    /\ lock = [writer |-> "none", readers |-> {}]
    /\ app = [t \in Applier |-> [pc |-> "idle", gen |-> 0, clear |-> FALSE]]
    /\ shadow = [m \in Mover |-> [want |-> FALSE, ack |-> FALSE, geo |-> 0, xf |-> 0,
                                  moved |-> FALSE]]
    /\ dyn = [m \in Mover |-> [id |-> 0, xf |-> 0]]
    /\ tick = NoTick
    /\ adds = 0 /\ owner = [m \in Mover |-> 0]

-----------------------------------------------------------------------------
(* The reader-writer lock and the borrowing simulations. *)

CanWrite == lock.writer = "none" /\ lock.readers = {}
Locked(t) == [lock EXCEPT !.writer = t]
Unlocked == [lock EXCEPT !.writer = "none"]

BeginTrace(r) ==
    /\ r \notin lock.readers /\ lock.writer = "none"
    /\ lock' = [lock EXCEPT !.readers = @ \cup {r}]
    /\ UNCHANGED <<meshVars, queued, scene, app, moverVars>>

EndTrace(r) ==
    /\ r \in lock.readers
    /\ lock' = [lock EXCEPT !.readers = @ \ {r}]
    /\ UNCHANGED <<meshVars, queued, scene, app, moverVars>>

-----------------------------------------------------------------------------
(* The static mesh.  The control thread is free to call when no flush is under way. *)

Client(call) == call \in Calls /\ app["flush"].pc = "idle"

\* Slip: staging a clear does not mark the mesh as changed.
StagedQuietClear(clear) == [dirty |-> ~clear, clear |-> clear, gen |-> staged.gen + 1]

\* set_mesh_internal: a real set supersedes a staged clear, and either an unconsumed set.
Staged(clear) == [dirty |-> TRUE, clear |-> clear, gen |-> staged.gen + 1]
SetMesh(clear) ==
    /\ Client("set_mesh") /\ staged.gen < GenMax
    /\ staged' = Staged(clear)
    /\ clears' = IF clear THEN clears \cup {staged.gen + 1} ELSE clears
    /\ UNCHANGED <<applied, buf, queued, scene, lock, app, moverVars>>

\* Slip: an applier does not ask whether a newer mesh was committed while it waited.
StaleNever(g) == FALSE

\* A generation that has been committed already, or a newer one has.
Stale(g) == g <= applied

\* The shadow's mutex section that claims the staged mesh, from either thread.
Taken == [pc |-> "lock", gen |-> staged.gen, clear |-> staged.clear]
Consumed == [staged EXCEPT !.dirty = FALSE, !.clear = FALSE]

\* The top of the simulation thread's loop.
TickTake ==
    /\ app["sim"].pc = "idle"
    /\ app' = [app EXCEPT !["sim"] = IF staged.dirty THEN Taken ELSE [@ EXCEPT !.pc = "scan"]]
    /\ staged' = IF staged.dirty THEN Consumed ELSE staged
    /\ UNCHANGED <<clears, applied, buf, queued, scene, lock, moverVars>>

\* Slip: a flush that claims a clear, which carries no buffers, waits for somebody else to apply it.
FlushTakeWaitsForClear ==
    /\ Client("flush")
    /\ app' = [app EXCEPT !["flush"] =
                 IF staged.dirty /\ ~staged.clear THEN Taken
                 ELSE [@ EXCEPT !.pc = "wait", !.gen = staged.gen]]
    /\ staged' = IF staged.dirty THEN Consumed ELSE staged
    /\ UNCHANGED <<clears, applied, buf, queued, scene, lock, moverVars>>

\* steam_scene_flush: claim what is staged, or wait until whoever claimed it has committed it.
FlushTake ==
    /\ Client("flush")
    /\ app' = [app EXCEPT !["flush"] =
                 IF staged.dirty THEN Taken ELSE [@ EXCEPT !.pc = "wait", !.gen = staged.gen]]
    /\ staged' = IF staged.dirty THEN Consumed ELSE staged
    /\ UNCHANGED <<clears, applied, buf, queued, scene, lock, moverVars>>

\* Slip: a flush that finds nothing to claim returns at once.
FlushWaitNot ==
    /\ app["flush"].pc = "wait"
    /\ app' = [app EXCEPT !["flush"].pc = "idle"]
    /\ UNCHANGED <<meshVars, queued, scene, lock, moverVars>>

FlushWait ==
    /\ app["flush"].pc = "wait" /\ app["flush"].gen <= applied
    /\ app' = [app EXCEPT !["flush"].pc = "idle"]
    /\ UNCHANGED <<meshVars, queued, scene, lock, moverVars>>

\* clear_mesh and apply_mesh, which differ only in what they leave in the scene.
At(t, pc) == app[t].pc = pc
Goto(t, pc) == app' = [app EXCEPT ![t].pc = pc]
Done(t) == IF t = "sim" THEN "scan" ELSE "idle"

Acquire(t) ==
    /\ At(t, "lock") /\ CanWrite
    /\ IF Stale(app[t].gen)
       THEN Goto(t, Done(t)) /\ UNCHANGED lock
       ELSE Goto(t, "replace") /\ lock' = Locked(t)
    /\ UNCHANGED <<meshVars, queued, scene, moverVars>>

\* Remove and release the old mesh with its buffers, create and add the new one.
Replace(t) ==
    /\ At(t, "replace")
    /\ LET mesh == IF app[t].clear THEN 0 ELSE app[t].gen IN
        /\ buf' = mesh
        /\ \/ Goto(t, "commit") /\ queued' = [queued EXCEPT !.mesh = mesh]
           \/ /\ "mesh" \in Fails /\ ~app[t].clear     \* iplStaticMeshCreate failed
              /\ Goto(t, "mark") /\ queued' = [queued EXCEPT !.mesh = 0]
    /\ UNCHANGED <<staged, clears, applied, scene, lock, moverVars>>

CommitMesh(t) ==
    /\ At(t, "commit")
    /\ scene' = queued
    /\ Goto(t, "mark")
    /\ UNCHANGED <<meshVars, queued, lock, moverVars>>

\* mesh_mark_applied, then the lock is released.
Marked(g) == IF g > applied THEN g ELSE applied
MarkMesh(t) ==
    /\ At(t, "mark")
    /\ applied' = Marked(app[t].gen)
    /\ lock' = Unlocked
    /\ Goto(t, Done(t))
    /\ UNCHANGED <<staged, clears, buf, queued, scene, moverVars>>

-----------------------------------------------------------------------------
(* The movers: the control thread's calls. *)

\* A slot counts as free when nothing is wanted, acknowledged or pending.
Free(m) == ~shadow[m].want /\ ~shadow[m].ack /\ shadow[m].geo = 0
FirstFree(m) == Free(m) /\ \A n \in Mover : Free(n) => m <= n

AddMover ==
    /\ Client("add") /\ adds < AddMax
    /\ adds' = adds + 1
    /\ \E m \in Mover :
        /\ FirstFree(m)
        /\ shadow' = [shadow EXCEPT ![m] = [@ EXCEPT !.want = TRUE, !.geo = adds + 1, !.xf = 0,
                                                    !.moved = FALSE]]
        /\ owner' = [owner EXCEPT ![m] = adds + 1]
    /\ UNCHANGED <<meshVars, queued, scene, lock, app, dyn, tick>>

\* A transform for a slot that is not wanted is ignored.
MoveMover(m, xf) ==
    /\ Client("move") /\ shadow[m].want
    /\ shadow' = [shadow EXCEPT ![m].xf = xf, ![m].moved = TRUE]
    /\ UNCHANGED <<meshVars, queued, scene, lock, app, dyn, tick, adds, owner>>

\* The handle is the slot's index; the client removes what it added.
RemoveMover(m) ==
    /\ Client("remove") /\ owner[m] # 0
    /\ shadow' = [shadow EXCEPT ![m].want = FALSE]
    /\ owner' = [owner EXCEPT ![m] = 0]
    /\ UNCHANGED <<meshVars, queued, scene, lock, app, dyn, tick, adds>>

-----------------------------------------------------------------------------
(* reconcile_dynamic, on the simulation thread. *)

Sim(pc) == Goto("sim", pc)
InUse(m) == shadow[m].want \/ shadow[m].ack \/ shadow[m].geo # 0

\* The idle fast path: nothing is wanted, live or pending.
Scan ==
    /\ At("sim", "scan")
    /\ Sim(IF \E m \in Mover : InUse(m) THEN "slot" ELSE "trace")
    /\ tick' = NoTick
    /\ UNCHANGED <<meshVars, queued, scene, lock, shadow, dyn, adds, owner>>

\* One slot's decision, under the mutex; the geometry to build leaves the shadow.
OpFor(s) ==
    CASE s.want /\ ~s.ack /\ s.geo # 0 -> "build"
      [] ~s.want /\ s.ack -> "teardown"
      [] s.want /\ s.ack /\ s.moved -> "update"
      [] OTHER -> "none"
\* Slip: geometry that was removed before it was built stays pending.
LeftUnbuilt(s) ==
    [s EXCEPT !.geo = IF OpFor(s) = "build" THEN 0 ELSE @,
              !.moved = IF OpFor(s) \in {"build", "update"} THEN FALSE ELSE @]

\* What taking that decision leaves in the shadow; geometry that is no longer wanted is freed.
Left(s) ==
    [s EXCEPT !.geo = IF OpFor(s) = "build" \/ (~s.want /\ ~s.ack) THEN 0 ELSE @,
              !.moved = IF OpFor(s) \in {"build", "update"} THEN FALSE ELSE @]

SlotTake ==
    /\ At("sim", "slot") /\ tick.i \in Mover
    /\ LET s == shadow[tick.i] IN
        /\ shadow' = [shadow EXCEPT ![tick.i] = Left(s)]
        /\ IF OpFor(s) = "none" \/ (OpFor(s) = "update" /\ dyn[tick.i].id = 0)
           THEN tick' = [tick EXCEPT !.i = @ + 1] /\ UNCHANGED app
           ELSE tick' = [tick EXCEPT !.op = OpFor(s), !.id = s.geo, !.xf = s.xf] /\ Sim("act")
    /\ UNCHANGED <<meshVars, queued, scene, lock, dyn, adds, owner>>

\* The scene lock is taken before the first mutation and kept until the commit.
SlotLock ==
    /\ At("sim", "act") /\ lock.writer # "sim" /\ CanWrite
    /\ lock' = Locked("sim")
    /\ UNCHANGED <<meshVars, queued, scene, app, moverVars>>

Acting(op) ==
    /\ At("sim", "act") /\ lock.writer = "sim" /\ tick.op = op
    /\ Sim("slot")
    /\ UNCHANGED <<meshVars, scene, lock, adds, owner>>
\* Slip: only a build makes the batch worth a commit.
AdvanceBuilt == [tick EXCEPT !.i = @ + 1, !.changed = @ \/ tick.op = "build", !.op = "none", !.id = 0]

Advance == [tick EXCEPT !.i = @ + 1, !.changed = TRUE, !.op = "none", !.id = 0]

\* Slip: the acknowledgement also forgets a transform that arrived while the mover was built.
AcknowledgedStill(s) == [s EXCEPT !.ack = TRUE, !.moved = FALSE]

\* build_dyn, then the mutex section that acknowledges it.
Acknowledged(s) == [s EXCEPT !.ack = TRUE]
SlotBuild ==
    /\ Acting("build")
    /\ dyn' = [dyn EXCEPT ![tick.i] = [id |-> tick.id, xf |-> tick.xf]]
    /\ queued' = [queued EXCEPT !.inst[tick.i] = tick.id]
    /\ shadow' = [shadow EXCEPT ![tick.i] = Acknowledged(@)]
    /\ tick' = Advance

\* build_dyn failed: the request is dropped.
SlotBuildFails ==
    /\ "mover" \in Fails /\ Acting("build")
    /\ shadow' = [shadow EXCEPT ![tick.i].want = FALSE]
    /\ tick' = [Advance EXCEPT !.changed = tick.changed]
    /\ UNCHANGED <<dyn, queued>>

SlotUpdate ==
    /\ Acting("update")
    /\ dyn' = [dyn EXCEPT ![tick.i].xf = tick.xf]
    /\ tick' = Advance
    /\ UNCHANGED <<shadow, queued>>

SlotTeardown ==
    /\ Acting("teardown")
    /\ queued' = [queued EXCEPT !.inst[tick.i] = 0]
    /\ tick' = [Advance EXCEPT !.torn = @ \cup {tick.i}]
    /\ UNCHANGED <<shadow, dyn>>

\* One commit for the whole batch, then the lock is released.
MoversCommit ==
    /\ At("sim", "slot") /\ tick.i \notin Mover
    /\ scene' = IF tick.changed THEN queued ELSE scene
    /\ lock' = IF lock.writer = "sim" THEN Unlocked ELSE lock
    /\ Sim("release")
    /\ UNCHANGED <<meshVars, queued, moverVars>>

\* release_dyn, outside the scene lock, and the mutex section that clears live_ack.
Release ==
    /\ At("sim", "release")
    /\ \/ \E m \in tick.torn :
            /\ \A n \in tick.torn : m <= n
            /\ dyn' = [dyn EXCEPT ![m] = [id |-> 0, xf |-> 0]]
            /\ shadow' = [shadow EXCEPT ![m].ack = FALSE]
            /\ tick' = [tick EXCEPT !.torn = @ \ {m}]
            /\ UNCHANGED app
       \/ tick.torn = {} /\ Sim("trace") /\ UNCHANGED <<dyn, shadow, tick>>
    /\ UNCHANGED <<meshVars, queued, scene, lock, adds, owner>>

\* iplSimulatorRunDirect under the shared lock when a source is active, then the sleep.
TickTrace ==
    /\ At("sim", "trace") /\ lock.writer = "none"
    /\ \/ "sim" \notin lock.readers /\ lock' = [lock EXCEPT !.readers = @ \cup {"sim"}] /\ UNCHANGED app
       \/ lock' = [lock EXCEPT !.readers = @ \ {"sim"}] /\ Sim("idle")
    /\ UNCHANGED <<meshVars, queued, scene, moverVars>>

-----------------------------------------------------------------------------
Apply(t) == Acquire(t) \/ Replace(t) \/ CommitMesh(t) \/ MarkMesh(t)

SimNext ==
    \/ TickTake \/ Apply("sim")
    \/ Scan \/ SlotTake \/ SlotLock
    \/ SlotBuild \/ SlotBuildFails \/ SlotUpdate \/ SlotTeardown
    \/ MoversCommit \/ Release \/ TickTrace

FlushNext == Apply("flush") \/ FlushWait

ClientNext ==
    \/ \E clear \in BOOLEAN : SetMesh(clear)
    \/ FlushTake
    \/ AddMover
    \/ \E m \in Mover : RemoveMover(m) \/ \E xf \in Xform : MoveMover(m, xf)

Next ==
    \/ SimNext \/ FlushNext \/ ClientNext
    \/ \E r \in Reader : BeginTrace(r) \/ EndTrace(r)

Spec == Init /\ [][Next]_vars

\* Where the simulation thread waits for the scene lock.
SimLocks == Acquire("sim") \/ SlotLock \/ TickTrace

\* The simulation thread and a flush keep running, and whoever waits for a lock that becomes free
\* again and again gets it.
FairSpec ==
    /\ Spec
    /\ WF_vars(SimNext) /\ WF_vars(FlushNext)
    /\ SF_vars(SimLocks) /\ SF_vars(Acquire("flush"))
    /\ \A r \in Reader : WF_vars(EndTrace(r))

\* The simulations sleep between two traces, so they do not hold the lock by turns for ever.
TracesPause == []<>(lock.readers = {})

-----------------------------------------------------------------------------
(* Properties. *)

Mesh(g) == IF g \in clears THEN 0 ELSE g

\* Whenever nobody is changing it, the scene shows exactly the newest mesh that was marked as
\* applied: no preempted applier puts an older mesh back, and no clear or set is lost between the
\* claim and the commit (mesh_gen_stale, mesh_mark_applied).
AppliedIsCommitted == lock.writer = "none" => scene.mesh = Mesh(applied)

\* steam_scene_flush returns only when the latest staged mesh, or clear, is what a trace sees.
FlushCommits ==
    [][app["flush"].pc # "idle" /\ app'["flush"].pc = "idle" => scene'.mesh = Mesh(staged.gen)]_vars

\* What a trace reads under the shared lock is a whole commit whose objects are all alive: the
\* mesh's buffers are kept, and every instance still has its sub-scene.
TracedIsWhole ==
    lock.readers # {} =>
        /\ scene = queued
        /\ scene.mesh # 0 => buf = scene.mesh
        /\ \A m \in Mover : scene.inst[m] # 0 => dyn[m].id = scene.inst[m]

\* A mover's last transform is not lost: when it is live, not marked as moved, and no operation on
\* its slot is under way, its instance is where the control thread put it.
MovedIsShown ==
    \A m \in Mover :
        LET s == shadow[m] IN
        s.want /\ s.ack /\ ~s.moved /\ dyn[m].id = owner[m] /\ ~(tick.i = m /\ tick.op # "none")
        => dyn[m].xf = s.xf

\* A flush returns.
FlushReturns == TracesPause => (app["flush"].pc # "idle" ~> app["flush"].pc = "idle")

\* What is staged is committed: however often a mesh is staged, the scene catches up.
StagedIsApplied == TracesPause => []<>(applied = staged.gen)

\* A removed mover leaves the scene and its slot comes back, unless the slot was given away first.
RemovedLeaves ==
    TracesPause => \A m \in Mover : owner[m] = 0 ~> (owner[m] # 0 \/ (Free(m) /\ scene.inst[m] = 0))
=============================================================================
