# A TLA+ model of the cave-audio core

`src/src/` is a spatial-audio engine in C. A *control* thread (the game or the experiment) calls
`bwa_*` / `rt_*` functions; an *audio* thread renders blocks and must never wait; a streaming
thread, a loader thread and simulation threads work beside them. What goes wrong between threads
goes wrong in the hand-over of ownership (voice slots, sound buffers, stream rings, scene
geometry) and in what is published without a lock (poses, clocks, rooms, path fields). What goes
wrong within the audio thread goes wrong in the transport of a voice, where a dozen commands meet
between two blocks. That is what this project models.

This file is the inventory of the system, the description of the modules, what each check and each
proof shows, and the plan for what is left.

## 1. The system

| Part | State it keeps | Who touches it | Operations |
|---|---|---|---|
| voice pool (`core/rt.c`) | per slot: generation, in-use, stealing, priority, push mapping; free list | control | create, create_stream, destroy, set_priority, play_oneshot, recycle on ack |
| sound table (`core/rt.c`) | per slot: generation, in-use, retiring, pending, the decoded buffer or stream; free list; retire park | control (audio reads the buffer) | load, unload, reserve/publish/abandon, free on ack |
| command ring | 4096 commands, one producer, one consumer | control -> audio | `cmd_push`, `drain_commands` |
| event ring | 1024 events | audio -> control | `evt_push` (acks), `evt_push_notice` (best effort), `drain_events` |
| voice table, ownership | per voice: generation, active, playing, bound sound, stop/steal state, chain queue | audio | the command handlers, `mix_voice`, `pause_gate` |
| voice table, transport | playhead, loop region, chain, pending seek, pause and hold, scheduled start and stop, gate | audio | the command handlers, `mix_voice`, `loop_wrap`, `queue_pop_valid`, `pause_gate` |
| frames and readback | staged and applied parameters, `play_pub`, the poll ring of ended plays, the `occ_*` words | control, audio, simulation | setters, `rt_commit`, `rt_source_is_playing`, `rt_poll_ended`, `rt_set_direct` |
| published values | pose, device clock, shoebox room, monitor tap, path field, headphone correction: counters and double buffers | one writer, one reader each | `pose_publish`, `rt_clock_*`, `rt_set_room`, `rt_set_pathing`, `bwa_load_headphone_eq`, ... |
| held plays | plays waiting for a sound that is still loading | control | hold, fire on publish, drop on stop |
| asset cache (`core/assets.c`) | path table with tombstones, refcounts, job and result rings, parked unloads | control, loader thread | acquire, acquire_async, release, pump |
| streaming (`core/stream.c`) | per stream: a state word, a ring, read and write cursors, end mark | control, streaming thread, audio | open, start, push, push_end, close, refill, pull, reap |
| occlusion scene (`acoustics/steam_scene.c`) | staged mesh with generations, movers' desired and live state | control, simulation thread | set_mesh, clear, flush, add/remove/transform mover |
| pathing and reflections | worker threads over the scene; double-buffered fields | simulation threads -> audio | simulate, `rt_set_pathing` |
| tracking (`tracking/`) | pose slot, receiver thread | receiver -> audio | connect, disconnect, receive |
| engine lifecycle (`engine.c`) | started flag, sinks, monitor double buffer, headphone EQ hand-over | control, audio, monitor callback | create, start, stop, load EQ |
| sinks (`sink/`) | device threads, the block re-quantiser | audio callback | open with fallback, start, stop |
| signal processing, geometry, calibration, parsing | numbers | one thread | out of scope |

How they interact: the control thread encodes calls as commands and learns of their consequences
only through events, drained inside `rt_commit`. A voice or sound *handle* is a slot index with a
generation; every side resolves a handle against its own copy of the generation. A buffer may be
freed only after the audio thread acknowledged `CMD_SOUND_RETIRE`; a voice slot that the audio
thread ends on its own comes back only through `EVT_VOICE_ENDED`. A sound that is still being
decoded exists on the control side only: plays of it wait there. What changes many times a second
goes past the rings, through counters and double buffers.

What is hard: the two rings fill independently and every call has its own way of coping; a call
that pushes several commands may be interleaved with the audio thread between two pushes; a slot
may be let, destroyed, stolen and let again before the audio thread saw any of it; an
acknowledgement in flight is invisible to both sides' tables; a load finishes after the sound was
released; a reader that never waits may be overtaken at every word it reads; a seek, a pause, a
chain and a scheduled stop may all fall due in one block.

What makes each part correct:

* voice pool: no slot is given to two sources, none is lost; a slot is reused only when the audio
  thread is done with it; stale handles change nothing.
* sound table: no voice or chain entry refers to a freed buffer; every unload ends in a free;
  a stream has one consumer.
* rings: acknowledgements are never dropped; calls that need several commands land whole.
* transport: the content that is heard is contiguous whatever the block boundaries; reads stay in
  the sound; a stop is heard in time; nothing clicks.
* frames and readback: a frame is applied whole or not at all; `is_playing` and the poll ring tell
  the truth about the latest play; a slot's successor inherits nothing.
* held plays, assets: an asynchronous load is adopted at most once and by the slot it was meant
  for; a cancelled one is freed; a held play fires once, with its seek, or is dropped with its
  source or by its stop.
* streaming: the consumer reads only published samples of the current run; a closed stream is
  reaped; the refill thread never sleeps while a stream starves.
* scene: geometry commits in generation order; a mover shows the geometry it was added with;
  a flush ends.
* published values: a reader never returns a mixture of two writes, and never goes back.

## 2. Modules

| Module | Models | Role |
|---|---|---|
| `VoicePool` | voice pool, sound table, both rings, the ownership part of the mixer (`core/rt.c`) | specification, properties |
| `VoicePoolInv` | - | the inductive strengthenings of VoicePool's invariants |
| `MCVoicePool` | - | client profiles for the runs |
| `VoicePool_proofs` | - | type correctness, exact free lists and a safe retire handshake, for all constants |
| `VoicePoolLets_proofs` | - | a slot is let to one source at a time on both threads, a stream has one consumer, no push source's hidden sound is lost and, if slots are drained before they are let again, no ack, for all constants |
| `Transport` | one voice's playhead, gate and schedule, block by block (`core/rt.c`) | specification, reference player, properties |
| `TransportInv` | - | the inductive strengthening of Transport's properties, between blocks and between samples |
| `MCTransport` | - | two sounds and four client profiles |
| `Transport_proofs` | - | reads in bounds, stops on time, no clicks, for all constants |
| `SourceSlot` | frames, plays and their readback, occlusion words, over the lets of one slot (`core/rt.c`) | specification, properties |
| `SourceSlotInv` | - | the inductive strengthening: what the waiting commands will make of the voice |
| `MCSourceSlot` | - | client profiles for the runs |
| `SourceSlot_proofs` | - | whole frames, exact readback, truthful completions, no inherited occlusion, for all constants |
| `AssetCache` | the cache, the loader thread, held plays, and as much of the sound table as they meet (`core/assets.c`, `core/rt.c`) | specification, properties |
| `MCAssetCache` | - | the run's instance |
| `AssetCacheInv` | - | the inductive strengthenings: who owns what, the loader's way to sleep, what the waiting commands will make of the voices |
| `AssetCache_proofs` | - | one owner per buffer and per slot, nothing unloaded is seen, the loader's wake-up is never lost, a settled source is as asked, for all constants |
| `Published` | the six values published without a lock (`tracking/pose.h`, `core/rt.c`, `engine.c`) | specification, properties |
| `PublishedInv` | - | the inductive strengthening of `WholeValue` and `NeverBack` |
| `MCPublished` | - | which publications the run follows |
| `Published_proofs` | - | type correctness, `WholeValue` and `NeverBack`, for all constants |
| `SceneGeometry` | static mesh, flush, movers, the scene lock (`acoustics/steam_scene.c`) | specification, properties |
| `SceneGeometryInv` | - | the inductive strengthenings of SceneGeometry's invariants |
| `MCSceneGeometry` | - | client profile for the run |
| `SceneGeometry_proofs` | - | the mesh, the flush and the traces are safe and no transform is lost, for all constants |
| `SampleChannel` | - | abstract: what a stream promises its voice |
| `StreamRing` | one stream and its three threads (`core/stream.c`) | specification, properties, refinement of `SampleChannel` |
| `StreamRingInv` | - | the inductive strengthening of the refinement and of `EndsAtTheEnd` |
| `MCStreamRing` | - | which kinds of stream a run has |
| `StreamRing_proofs` | - | type correctness, the refinement and `EndsAtTheEnd`, for all constants |

Four modules look at the same voice, each at what the others abstract. `VoicePool` has the rings,
the tables and every interleaving of control and audio steps, and reduces sound to "may end in
this block". `Transport` takes the commands as they arrive, in order, and has every sample.
`SourceSlot` has what travels beside the rings and is read back. `AssetCache` has the sounds that
are not there yet. An operator comment that starts with "Slip" marks a plausible mistake in the
code (a dropped guard, a swapped order); nothing in a specification uses one. It is there to show
that the property it is listed with in `PROJECT.json` would notice.

### How VoicePool corresponds to the code

State. `slot[i]` collects the control-side arrays `gen`, `inuse`, `stealing`, `priority` and
`push_sound`; `free` is `freelist[0 .. free_count-1]`, as a stack, with the same order as in
`rt_create`; `snd[s]` and `sfree` are the sound table; `park` is `retire_park`. `voice[i]` is the
audio thread's `Voice`: `snd` is the bound `SoundData*`, represented by the handle of the buffer
it points at, so that a pointer that outlives its buffer is visible as a handle that no longer
matches; `queue` is the chain ring, in which a retire leaves tombstones (`None`). `open` abstracts
`gate_cur`: whether the pause/stop gate still lets sound through. `cmd` and `evt` are the rings'
unread part; `cdone` and `edone` count slots already handled but not yet released, because both
drains publish their read cursor once, at the end.

Steps. An `rt_` call is one action, except where the audio thread's progress *between* two ring
accesses of one call can change what the call does. Those are split:

* `rt_source_create` - `CreateSource` (allocation, or steal), `CreateCut` (the hard cut),
  `CreatePush` (the `CMD_SRC_CREATE`, or its undo when the ring is full).
* `drain_events` (inside `rt_commit`) - the retries of the parked retires, then one action per
  event, then the release of the ring.

The audio thread takes one step per command (`drain_commands`) and one per mixed voice.
`rt_render`'s read of the ring's write cursor is `BeginBlock`, which fixes how many commands
the block will handle, as the code does.

Abstractions, each of them chosen so that the properties still see what matters:

* Parameter setters are one command without effect (`PARAM`). Sample positions, gains and gates
  are reduced to the choices they lead to: whether a sound ends in this block, whether the gate is
  shut. `Transport` and `SourceSlot` have what is left out here.
* `rt_source_destroy` (its `CMD_SRC_DESTROY` and, for a push source, the retire of its sound) and
  `rt_play_oneshot` (four commands, room checked up front) are single actions: the audio thread
  only ever *frees* ring slots in between, and the code after the first push does not depend on
  anything else the audio thread writes.
* A sound whose buffer cannot be decoded is never loaded; asynchronous sounds and held plays are
  `AssetCache`'s.
* The relaxed/acquire/release discipline of the rings is modelled as sequential consistency: each
  ring has one producer and one consumer and publishes with release stores.

Bounds. `GenMax` is the only bound the code does not have: a slot is let at most that often. The
code wraps a 16-bit generation instead, skipping 0. All others are the code's own capacities with
small values: `Pool`, `Reserve` (`BWA_FADE_RESERVE`), `SoundCap`, `CmdCap` (`RING_CAP`),
`EvtCap` (`EVT_CAP`), `QueueCap` (`BWA_QUEUE`). `PoolAssumption` contains the inequality that
`rt_create` enforces, `voice_cap + sound_cap <= EVT_CAP`. `Calls` restricts which API functions
the client uses, so that each question can be asked with the actors it needs at depths the
checker can exhaust. The instances are small and deliberately tight: a ring of two commands makes
almost every call meet a full ring; one pool slot with one reserve slot makes the second create a
steal and the third a hard cut; two generations are what a stale handle needs.

### How Transport corresponds to the code

State. `v` is the `Voice`, with the code's fields: the bound sound and `cursor`, `loop` with
`loop_beg`/`loop_end`, `start_sample` and `stop_at` (kept relative to the next block, `wait` and
`stopAt`), `stopping` (1 stop, 2 steal), `paused`, `seek`, `rate`, the chain `queue`. `gate` is
`pause_g` and `level` is `gcur`; both ramp over exactly one block, so between blocks they are 0 or
1. `hold` is `all_paused` or the group's flag. `mix` is what the last block rendered: the samples
heard, the gate it started from and ended at, wraps reported, whether the sound ended. Two ghosts:
`due`, when the voice must be silent, and `since`, which calls since the last block changed its
content at once.

Steps. A client action is the handler of one command. A block is one action of `Render`: `Idle`,
`Finalize`, `Frozen`, `Land` or `Sound`, the outcomes of the voice loop of `rt_render` with
`pause_gate`. The samples of a block are a recursive function: `Mixing(r)[k]` is the voice after `k`
samples, each of them a `Seam` (the loop, chain or end at the region's end) and a read (`Sample`). `Ideal` is a player without blocks: what the next n samples should be, as a
concatenation of segments; `PlaysThrough` compares the two.

Abstractions. Rates are whole numbers without the glide of `CMD_SET_PITCH`; timed fades, streams
and sound beds are left out; commands arrive between blocks in order.

Bounds. Two sounds of four and two frames, blocks of three: a block may hold one or several ends,
wraps and chain hand-overs. `Pitch` {1, 4} adds a rate that overshoots a whole region, `Ahead` five
frames schedules into the next block and the one after it. `Uses` has four client profiles (regions;
chains; pauses and seeks; schedules), each explored whole: all calls at once do not fit in a run.

### How SourceSlot corresponds to the code

State. `slot` is the control side of one voice slot with `play_seq`; `cmd` the command ring,
`evt` the completion notices (`EVT_VOICE_DONE`), `ended` the ring behind `rt_poll_ended`. `voice`
has the staged and the applied position (`pos_pending`, `pos_active`), `lis` the listener's. `pub`
is `play_pub`. `occ` is the handle `occ_handle` and a word behind it, named by the generation it was
written for. `aud` is where the block is, `setter[p]` where a `rt_set_direct` is. `app` and
`frames` are what the client has done: the frames it committed.

Steps. The ring is drained one command per step; `rt_set_direct` stores its words and its handle in
two steps, and the mixer reads them in two; `play_pub` is written at the end of the block. All of
these interleave with the control thread and the simulation.

Abstractions. One word stands for all of `occ_*`: each is read once and gated by the handle. One
slot: a frame of several sources is several of these. The ownership events and steals are
`VoicePool`'s.

Bounds. Two lets (a successor), two frames, two plays per let (a newer play), a ring of three
commands, one event and one kept completion, so that each is met full. The run's clients are three
profiles: movers, plays with readback, and plays under simulation.

### How AssetCache corresponds to the code

State. `entry[f]` is the cache entry of a key (path and flags): the handle it owns, its owners
(`refs`), `st` the load. `inflight`, `park`, `jobs`, `res`, `jobEv`, `stop` are the fields of
`AssetCache`; `snd` and `sfree` the sound table with `pending`; `held` is `HeldPlay[]`. `voice` is
the audio thread's side and `heap` the decoded buffers that are allocated, each named by the handle
it was decoded for. `want` is a ghost: what the client last asked of a source, and whether a full
ring refused any of it.

Steps. A call that pumps takes one step per result, per released play, per seek after it and per
retried unload; any other call pushes at most one command and is one step. The loader takes one
step per access to what it shares: the stop flag, the job ring, the event, the decode, the result.
The audio thread takes the commands of a batch one by one (`DrainCommand`) and gives their room in
the ring back at the end (`DrainEnd`), because `drain_commands` publishes its read cursor once;
`drain_events` inside `rt_commit` takes the acknowledgements that are there when it begins
(`Commit`), one by one (`TakeAck`).

Abstractions. The hash table is a function of the key: probing and tombstones are sequential code.
A voice never reaches its sound's end here, a group stop and a region are not held, streams are not
loaded asynchronously.

Bounds. One file, so that every acquisition meets the entry of the one before; one sound slot, so
that a load still decoding meets its successor at the same index; two jobs, one held play, a ring of
one command (nearly every push may be refused), two generations of the sound and of the source. All
calls are in, `bwa_destroy` (`shutdown`) included.

### How Published corresponds to the code

State. A behaviour follows one publication, `box`; they share nothing. `buf` are the two buffers,
`seq` the counters, `idx` the published index, `eq` the generation, answer and renderer state of the
headphone correction. A value is two words, each the number of the publication that wrote it, so a
torn value is one whose words differ and an old one has a smaller number.

Steps. Every load and store of the counter, of the index and of each word is a step. The words are
relaxed atomics in the code: both sides touch them in any order, which covers what a compiler or a
processor may do between the fences. The fences themselves are taken to work (release before the
closing store, acquire after the opening load), as C11 says.

Bounds. Four publications: one read, one after it, one that comes back to the first one's buffer,
and one more for the read after a raced one.

### How SceneGeometry corresponds to the code

State. `staged` is `mesh_dirty`, `pend_clear` and `mesh_gen`: a mesh is named by the generation
that staged it. `applied` is `mesh_gen_applied`; `buf` the mesh whose vertex buffers the scene
keeps alive; `queued` and `scene` what phonon's scene will hold after the next `iplSceneCommit`
and what it holds now. `shadow` is `dyn_shadow`, `dyn` the phonon objects of a mover, `tick` the
locals of `reconcile_dynamic`. `lock` is `scene_srw`. The mutex `s->lock` is held within one
action at a time, so it needs no variable. `app[t].pc` says where the simulation thread (`"sim"`)
and a flush (`"flush"`) are.

Steps. Every critical section of the mutex is an action, and so is every change of phonon's scene
under the reader-writer lock: claim (`TickTake`, `FlushTake`), `Acquire`, `Replace`, `CommitMesh`,
`MarkMesh`; then per mover `SlotTake`, `SlotLock`, one of `SlotBuild`, `SlotBuildFails`,
`SlotUpdate`, `SlotTeardown`; then `MoversCommit`, `Release`, `TickTrace`. The borrowing
simulations only take the lock shared and release it. phonon's own refusals are the set `Fails`.
`Replace` of a refused mesh goes on to mark the generation without a commit, as the code does.

Abstractions. Transforms have two values; geometry is a number; the per-source occlusion results
and the destruction of the scene are left out. The reader-writer lock has no writer preference.

Bounds. `GenMax` staged meshes, `AddMax` added movers, `MoverCap` slots (`BWA_MAX_DYN_MESH`), one
borrowing simulation: two generations are needed for an applier that was overtaken, two adds in one
slot for a slot that is used again.

### How StreamRing corresponds to the code

State. `st` holds the words the three threads share (`state`, `loop_req`, `r`, `w`, `eof_w`),
`wpriv` is `w_priv`. Sample p of a file is frame `p % FileLen`, so the ring's contents tell which
sample of the file, or of the caller, a slot holds. `thr` is the streaming thread with `loop`,
`done`, the decoder's position and `fill`'s target; `aud` the audio thread inside `stream_pull`;
`ctl` the control thread between two shared accesses of `stream_start`, `stream_push`,
`stream_close` or `stream_set_destroy`. `wake` is the event's flag (`os_posix.c`): a signal that
nobody waits for is kept. `voice` is what `CMD_PLAY` and `CMD_SOUND_RETIRE` make of the voice.

Steps. One action per access to a shared word, so that each load and store interleaves with the
other threads: the reset of a restart is five of them (`BeginRestart`, then `Reset` four times),
a pull is three, a start three and its command. `FillChunk` is one `dec_read` with the samples it
writes and the `w` it publishes; writing the samples and publishing them can be one step because
nobody reads at or beyond `w`.

Abstractions. One stream: the others only lengthen the streaming thread's pass. Decoding
succeeds (the guard against an unreadable file never fires), opening too. Pausing and skipping
change how much a voice wants per block, here always `Block`. `Timed` is what matters of
`refill_timeout_ms`: whether the sleep is bounded; a bounded sleep may end at any moment.

Bounds. `Ring`, `Chunk`, `Block` and `FileLen` are the code's with small values, in the code's
order (`Block < Chunk < Ring`; the file longer than the ring, so that it must be refilled).
`Plays` bounds how often the stream is started and `PosMax` how far a run goes (two rounds of the
ring): a loop or a push stream would go on for ever.

## 3. Runs

Every passing run explores its whole instance.

| Run | Instance | Checks | Shows |
|---|---|---|---|
| `shared_sounds` | create, play, queue, stop, load, unload; 1 + 1 slots, 1 sound, 1 let, 2-command ring | `TypeOK`, `NoDanglingSound`, `AckFindsItsSound`, `OneConsumer`, `NoAckLost` | the retire handshake, with every interleaving of unload, play, chain, steal and block; notices yield to acks. One let per slot: see observation 7 for what more lets do |
| `pressure` | create, destroy, priority; 1 + 1 slots, 2 lets, 2-command ring | `FreelistExact`, `NoLiveOverwrite` | steals, hard cuts, refused commands and stale destroys keep the pool sound |
| `returns_live` | create_stream, destroy, oneshot, load, stop_all; 4-command ring, with fairness | `InternalSoundOwned`, `RetireCompletes`, `InternalSoundFreed`, `StoppedOneshotReturns`, `OneEndedPerLet` | a push source is created whole or not at all, its hidden sound always has an owner; what is given up comes back, once |
| `transport` | 2 sounds, 4 client profiles | `PlaysThrough`, `ReadsInBounds`, `StopsOnTime`, `ClickFree` | blocks do not show: what is heard is what a player without blocks plays, within the sound, stopped in time, without a jump of the level; a stolen slot comes back exactly if its sound outlives the fade (finding 4) |
| `frames` | 3 client profiles; 2 lets, 2 frames, 2 plays | `FrameWhole`, `PlayingIsExact`, `OccNotInherited`, `EndedIsOver` | frames are atomic, readback is exact, a successor inherits nothing |
| `assets` | all calls; 1 file, 1 sound slot, 1 source, 1-command ring | `EveryBufferOwned`, `ReservedUnseen`, `AsAsked`, `EverySlotOwned`, `NoLostWakeUp` | however a load races with release, re-acquisition and shutdown, each buffer has one owner and no sound slot is lost; a voice plays, seeks and stops as it was last asked, held plays included, but for a scheduled stop of a held play (finding 5) |
| `published` | six publications, 4 values each | `WholeValue`, `NeverBack` | readers that never wait get whole values, in order, with the two exceptions the properties name |
| `scene` | all calls; 2 meshes, 2 adds, 1 slot, mover builds may fail, with fairness | `AppliedIsCommitted`, `FlushCommits`, `TracedIsWhole`, `MovedIsShown`, `FlushReturns`, `StagedIsApplied`, `RemovedLeaves` | geometry commits in order, a flush tells the truth and ends, a trace sees whole commits of living objects, no transform is lost, removed movers leave |
| `stream` | file and push streams, one start, with fairness | `TypeOK`, `ImplementsChannel`, `EndsAtTheEnd`, `FedToTheEnd`, `ClosingIsReaped`, `DestroyReturns` | the ring is an ordered bounded channel; ends are true ends; no wake-up is lost |
| `oneshot_leak` | oneshot, load, unload, stop_all, with fairness | `SilentOneshotReturns` (violated) | finding 1 |
| `stream_close_lost` | one file stream, with fairness | `ClosedIsReaped` (violated) | finding 2 |
| `manual_occlusion_lost` | create, play, manual occlusion | `ManualKept` (violated) | finding 3 |

In every `VoicePool` run the client may also call `rt_commit` at any time. Deadlock is checked
except in the `stream` runs, where the system really stops once the streams are destroyed, and in
`assets`, where it stops after `bwa_destroy`.

### Fairness

`VoicePool!FairSpec` assumes that the audio thread keeps rendering (weak fairness of `AudioNext`:
the device calls back block after block), that a call in progress runs to its end (weak fairness
of `ControlStep`: nothing in those calls waits), and that the client keeps calling `rt_commit`
(strong fairness of `Commit`: the documented use is once per frame; strong because the client's
other calls interleave with it). Nothing is assumed of other calls. `InternalSoundFreed` has one
more premise, `RetriesFindRoom`: a client that refills the command ring before each of its
commits can starve the retries for ever, which is no defect.

`SceneGeometry!FairSpec` assumes that the simulation thread and a flush keep running, and that who
waits for a lock that becomes free again and again gets it (strong fairness of the acquisitions:
the platform locks queue their waiters). The properties have the premise `TracesPause`: the
simulations sleep tens of milliseconds between two traces, so they do not hold the shared lock by
turns for ever.

`StreamRing!FairSpec` is weak fairness of the three threads: the device calls back, the streaming
thread is scheduled, a call that was begun is finished. Nothing forces the client to start, push
or close anything.

`Transport`, `SourceSlot`, `AssetCache` and `Published` state safety only: what their parties
promise is about the next step, and `StopsOnTime` counts samples instead of assuming fairness.

### Findings

1. `SilentOneshotReturns` - `CMD_SOUND_RETIRE` silences a oneshot without an `EVT_VOICE_ENDED`,
   so unloading the sound of a playing oneshot strands its slot.
2. `ClosedIsReaped` - a `stream_close` that lands while the streaming thread is resetting the
   stream for a start is overwritten by the `ST_ACTIVE` that ends the reset. The stream, already
   forgotten by the control thread, keeps its slot, its decoder and its memory.
3. `ManualKept` - `CMD_SRC_CREATE` clears the occlusion words of its slot when it is drained, so
   an occlusion the client sets on a source in the frame that creates it, as the doorway recipe of
   `docs/api.md` does, is wiped and not published again.
4. `StopsOnTime` (passing, it states what the code does) - a stolen source whose sound ends, or
   is unloaded, during its fade is never finalized and posts no `EVT_VOICE_ENDED` (`rt.c:2717-2729`,
   `rt.c:1486-1489`): its slot stays let, marked as being stolen, and no steal takes it again;
   only the client's own destroy of the stolen source returns it.
   `docs/concurrency.md:229-234` and `529-532` say that every stolen voice posts it; `rt.c:1342-1346`
   describes the same leak for a voice that was silent before the steal, and only that is handled.
5. `AsAsked` (passing, it states what the code does) - the `CMD_PLAY` of a held play, sent when its
   sound is loaded at last, clears a `stop_at` that was issued after the play (`rt.c:1278`): the
   stop is lost. `bw_audio.h:501` says that only a *later* play clears a pending stop.

Findings 1 to 3 are runs that end in a counterexample to what the repository says. Findings 4 and 5
are shown by passing runs: both properties are equivalences, which hold only because the code also
does what the repository does not say (the slot is *not* given back, the stop *is* lost).

### Observations

Met while modelling; no run shows them. Each is a case the properties above leave out, by name.

Voices and sounds:

6. *Mover ABA.* A mover removed while the simulation thread builds it leaves a slot that looks free
   (`steam_scene.c:707`); the next mover takes it and shows the geometry of the old one.
7. *One ended event per voice.* `rt.c:4880` sizes the event ring for one `EVT_VOICE_ENDED` per
   voice between two drains, as `docs/concurrency.md:235` says. A slot that is created, stolen and
   created again without a commit in between can post several, one per let (`OneEndedPerLet` is
   what does hold), and with `EVT_CAP = voice_cap + sound_cap` an ack could then be dropped.
   `NoAckLostCorrect` (section 4) names what keeps it from happening.
8. *Stale ended events.* `drain_events` clears `stealing[]` without the generation check that
   guards the recycle next to it (`rt.c:978`), so a late event of a previous occupant clears the
   flag of the current one.
9. *The reserve.* When the ring refuses both the steal and the destroy, the hard cut's second
   `alloc_handle` (`rt.c:4044`) takes a reserve slot as ordinary pool.
10. *Refused meshes.* When phonon refuses a static mesh (`steam_scene.c:199`), the old one is gone,
    nothing is committed and the generation still counts as applied: traces go on with the old
    commit, whose buffers were freed. That is why run `scene` lets only movers fail.
11. *Replays.* A voice that is played again binds position 0 at once, while the streaming thread
    resets the ring on its next pass: until then the voice pulls the old run's samples and its
    `r` may overwrite the reset. `rt.c:4536` promises silence instead. That is why run `stream`
    starts a stream once.

Transport:

12. *Seek under a hold.* A seek that has landed reopens the gate unless the voice itself is paused
    (`rt.c:2136`): under a group's pause or the global one the voice sounds for a block
    (`bw_audio.h:444-446` calls them "exactly like per-voice pause"). `PlaysThrough` takes the block
    as it is.
13. *Inherited regions.* A chained sound starts with its whole clip (`rt.c:2541`), but from its
    second block on it is resolved against the region set on the sound before it (`rt.c:2516`).
    `PlaysThrough` asks nothing of such a voice beyond the block.
14. *Before the start.* A stop or a pause of a scheduled play takes effect at its start, with one
    block of fading sound; a steal of it is not finalized until then (`rt.c:3594-3599`). A play
    under a hold sounds for one block too, because it opens with its gate at 1.
15. *Wraps.* A region moved under a looping playhead posts up to four wraps (`rt.c:2179-2188`;
    `bw_audio.h` says the catch-up counts as one). `rt.c:147-149` says the region is used only when
    the voice loops; a voice that does not loop ends at it.

Assets and held plays:

16. *Refused releases.* A held play that is released into a full ring is dropped without a word,
    and `rt_source_stop` drops a held play even when its own `CMD_STOP` is refused. A failed load
    keeps its held plays, and their places among the 32, until the release.
17. *Stolen sources.* `docs/concurrency.md:595-601` says that a stolen source's held play never
    sounds; during the steal's fade, publishing the sound still binds it.

Published values:

18. *The path field* tears when the second publication after the one being read begins, although
    `docs/concurrency.md:122` says that its 16 floats "must be read consistently, wait-free". The
    monitor tap may play a block early and then go back when the reader stalls for a whole
    publication between the index and the counter. Both are named by `Raced`.
19. *The headphone correction.* Loading while the device is stopped skips the wait, so: load, stop,
    load, start, load rewrites the design that is still in use (`engine.c:1572-1575`); the 100 ms
    time-out has the same effect. `wr.late` names both.
20. *The pose* is read word by word without a check after eight lost tries; the counter's wrap is
    not modelled.

Slots:

21. *Successors.* A voice still mixing under the old handle may read occlusion words its successor
    has stored already, and a simulation tick that began for the old occupant may overwrite the new
    one's manual value (`rt.c:5470-5477` says this cannot happen). `OccNotInherited` allows the
    first and excludes inheriting from the past.
22. *Half a frame.* A setter refused by a full ring whose commit is accepted makes half a frame;
    the `lost` flag of `FrameWhole` names the case. `play_seq` has 8 bits: 255 plays between two
    drains look like none.

## 4. Proofs

All of them hold for every value of the constants that satisfies the module's assumption
(`PoolAssumption`, `PublishedAssumption`, `CacheAssumption`, `SceneAssumption`,
`StreamAssumption`, `SlotAssumption`, `TransportAssumption`). Every inductive invariant was checked by
TLC on small instances before it was proved.

`VoicePool_proofs!TypeCorrect` is `Spec => []TypeOK`. `TypeOK` is not inductive: an action that
reads `Head(cmd)` needs the ring to be non-empty, one that indexes a table with a call's local
handle needs that handle to name a slot. The strengthening is `ThreadsOK` (`VoicePoolInv`): a
thread never has more left to handle than its ring holds, and a call in progress names existing
slots.

`VoicePool_proofs!SlotsInvariant` is `Spec => []SlotsInv` and `FreelistCorrect` is
`Spec => []FreelistExact`. The extra conjunct is `CallHoldsSlots`: between the actions of one
`rt_source_create`, the slot it is going to create on (or to cut) is still let to the handle the
call holds, so the undo and the hard cut push and pop slots that are really let. The stack lemmas
(`Popped`, `Pushed`) carry the argument; every action is then one of: pop and let, unlet and push,
or no change to the tables.

`VoicePool_proofs!RetireInvariant` is `Spec => []RetireInv`, with the corollaries
`NoDanglingSoundCorrect` and `AckFindsItsSoundCorrect`. `NoDanglingSound` alone says nothing of
the future: a `PLAY` or a `QUEUE` still in the ring may create the next reference, and a retire or
its acknowledgement may be under way. `RetireInv` adds that a retire in the ring and an
acknowledgement on its way find their sound waiting (`RetireFindsItsSound`, `AckFindsItsSound`),
that there is at most one of them per sound (`RetireOnce`), that nothing binds a sound behind its
retire (`NoBindAfterRetire`), that an acknowledged sound is referenced nowhere
(`AckedUnreferenced`), and that the sound `rt_source_create_stream` holds between two of its
actions is nobody else's (`FreshBind`). The proof rests on two step lemmas: `ControlKeeps`
for a step that only appends commands and changes the tables, `AudioKeeps` for one that consumes a
command, may append an event, and lets voices only lose references or gain the one the command
carried. Each action is shown to be such a step. `SlotsInvariant` is used for freshness: a newly
loaded sound comes from the free list, so nothing refers to its new handle.

`VoicePoolLets_proofs!LetInvariant` is `Spec => []LetInv`, from which `OneEndedPerLetCorrect` and
`NoLiveOverwriteCorrect` follow. The control thread lets a slot again as soon as the old let is over
on its own side; the audio thread learns of it later, and only because every way to end a let leaves
something in the ring. `LetOrder` puts the lets of a slot in order: the one the voice is at, those
whose create is on its way, the one a call is about to announce. `LetGo` says that a let that is
over for the control thread while its voice sounds, or while its create is on its way, has its
destroy behind it in the ring, and in front of the next create of the slot. `EndedOnce` says that an
ended event is the last word of its let: the voice is no longer active at it. Two steps are
delicate. The hard cut of a full pool lets the victim's own slot again, and only because its
destroy was enqueued first. A slot that comes back with an ended event was given up by the audio
thread before it posted the event, so no destroy is needed. Three step lemmas carry the proof:
`LetsControl` for a call (which lets end by it and how, which begin), `LetsAudio` for a step that
gives at most one voice back, `LetsCreated` for the create itself.

`VoicePoolLets_proofs!ChainInvariant` is `Spec => []ChainInv`, and `OneConsumerCorrect` follows.
Two voices on one stream would both advance its ring. Within one step nothing goes wrong:
`rt_source_queue` refuses streams and CMD_PLAY detaches whoever had the stream it binds. What could
go wrong takes a long way: a chained handle, or a command in flight, outlives its sound, the slot is
loaded again with a stream, and the end of some voice's sound brings a second consumer to it. So
`ChainInv` says that a command in flight names a generation that has been loaded already, never one
to come, and that what a `QUEUE` in flight or a chain names is not a stream while it lives. That the
sound in a chain is still the one that was chained is `RetireInv`'s.

`VoicePoolLets_proofs!PushInvariant` is `Spec => []PushInv`, with the corollary
`InternalSoundOwnedCorrect`. The client never sees the sound of a push source, so nobody can unload
it for him: if the source loses it, the slot and the ring buffer are gone for good. `PushInv` has
three parts besides the property. `RoomKept`: `rt_source_create_stream` has checked for room for
everything it will enqueue, and neither the hard cut, which takes some of it, nor the audio thread in
between leaves it short, so `CMD_SRC_CREATE` and the `CMD_PLAY` behind it are both enqueued.
`PushOwned`: such a sound is loaded, is parked nowhere, and belongs to one source or to the call in
progress. `PushNamed`: a command in flight that binds a voice or a sound of a push source is that
source's own `PLAY`, with the `CREATE` still in front of it unless the voice is already of that let;
a client cannot name the source before the call has returned, because no handle it holds is of a
generation to come. From there every step of the control thread is a `PushStep`: it touches the push
part of at most one slot, and a slot that gives its sound up retires or parks it (`PushControl`).
For the audio thread it is enough that what has landed stays landed and that a taken `CREATE` or
`PLAY` lands (`LandedKept`, `TakenLands`, `PushAudio`). The delicate step is CMD_PLAY's detach loop:
it takes a push source's stream from no other voice, because no other `PLAY` of that sound exists.
`PushInv` and `ChainInv` were checked by TLC on the instances of the `VoicePool` runs, on some of
them only as far as a time limit allowed, and are no run's property.

`VoicePoolLets_proofs!AckRoomInvariant` is about the event ring, the one queue that must never
refuse: a lost `EVT_VOICE_ENDED` or `EVT_SOUND_RETIRED` loses its slot for good. `rt_create` relies on
`EVT_CAP >= voice_cap + sound_cap` (`PoolAssumption`), and `evt_push` keeps that much of the ring
from the notices. That is enough only if a slot has at most one ack in the ring, and observation 7
tells how a voice slot can come to have several: it is let again before `drain_events` has handled
what its last let posted. So the theorem carries that as a premise on the steps taken,
`[][RemadeWhenHandled]_vars`: when a voice gets its next let, no ended event of its slot is waiting,
and `drain_events` is not between an event and the release of the ones it handled. It says nothing
of a slot's first let, of retires or of notices. The count of events is no invariant by itself,
because a notice is admitted by how full the ring is and acks handled in front of it make room behind
it. What holds is said of every stretch of the ring (`StretchesFit`): the events after the m-th are
no more than the notices' part plus the slots that those same events give back. Handling the oldest
event takes one stretch away and leaves the others as they were; an ack makes every stretch one longer
and gives back a slot that no stretch had; a notice is posted only while the whole ring is within the
notices' part. `RingFits` is the same for the whole ring while `drain_events` runs, where the handled
events still occupy it: it remembers the slots given back since the last release. `RetireOnce` and
`AckFindsItsSound` give it that a sound has one ack at a time. `NoAckLostCorrect` is the corollary
`Spec /\ [][RemadeWhenHandled]_vars => []NoAckLost`. `FirstLetsKeepAcks` is without the premise,
for every instance in which each slot is let once (`GenMax = 1`), run `shared_sounds` among them;
`LetBoundInvariant` is what it needs. TLC checked `AckRoomInv` first, with the premise as part of the
next-state relation on two instances with up to two lets per slot (3,576,936 and 982,091 states), and
without it on one like `shared_sounds` (312,915 states).

`Published_proofs!PublishedInvariant` is `Spec => []PublishedIInv`; `TypeCorrect`,
`WholeValueCorrect` and `NeverBackCorrect` follow. `WholeValue` speaks of the end of a read only.
The invariant says what holds during it: which steps each party can be at (`PcOK`); how far the
buffer being written is the new value's (`Writing`); that a counter is odd exactly around a rewrite
and that a reader whose counter still stands has read nothing but what is there (`Counted`); and
that the renderer of the headphone correction uses the published design once it has adopted the
latest generation, which a load that waited for the answer relies on (`Adopting`). `NeverBack`
compares two reads, so it needs an order on what is in the buffers between them: no number is newer
than the writer's count (`Counting`); a single slot holds the latest value, and the reader none
newer (`Single`); of two buffers the published one holds the last publication and the one being read
nothing older than what was published when the read began (`Double`); the design in use is between
the last one used and the published one (`Newer`). A read during which its buffer may have been
rewritten is no measure for the next one (`raced`), which is why four publications are checked. One
step lemma per conjunct, one case per action.

`AssetCache_proofs!CacheInvariant` is `Spec => []CacheIInv`, from which `EveryBufferOwnedCorrect`,
`EverySlotOwnedCorrect` and `ReservedUnseenCorrect` follow. The properties count owners; the
invariant says where each handle is. The free list names free slots, each once (`FreeList`); an
entry's slot is in the state the entry says, and no two entries share one (`Entries`); a parked
sound is loaded and has no entry (`Parks`); a retire is under way once, as a command or as an
acknowledgement (`Retires`); a slot in use is one of these three (`Kept`). On the loader's side a
load is in one place, and its handle is not in use until the control thread adopts it (`Loads`),
loads are counted (`Counted`), an entry that waits finds its load among them (`Awaited`), and an
allocated buffer is the loader's, a result's or a slot's (`Buffers`). For the audio thread: a play
is held only while its sound is pending (`HeldUnsent`), and what a sent play or a voice names is
loaded with its retire still to come behind it in the ring (`Named`). `Awaited` alone would not do:
an acquisition after a release lets the same slot again under a new generation, and only `Loads`
says that the old result, still on its way, is not the new entry's. After `bwa_destroy` nothing is
left (`Emptied`). The proof has a lemma on what each action does to the fields of the records
(`...Does`), one on its types (`...Type`) and one on the invariant (`...Keeps`); `QuietKeeps` covers
at once the many calls that give no sound away.

`AssetCache_proofs!NoLostWakeUpCorrect` is `Spec => []NoLostWakeUp`. The strengthening `WakeInv`
covers the loader's way to its sleep: a job or a stop that arrives after the loader has looked is
followed by a signal that the wait will find.

`StreamRing_proofs!Invariant` is `Spec => []StreamIInv` and `TypeCorrect` its first part. The
refinement of `SampleChannel`, `ChannelImplemented`, and `EndsOnlyAtTheEnd` follow for a stream that
is started at most once (`Plays <= 1`; a push stream never is): a second start rewinds the cursors
under a voice that is still bound (observation 11), and then neither holds. The invariant says
which threads may be at which steps together (`Roles`) and what the command ring may hold (`Queue`);
and for one run, that nothing has been decoded before the streaming thread began it (`Beginning`)
and the voice has heard nothing before its play arrived (`Pending`); that the cursors are in the
order `r <= taken <= w <= r + Ring` (`Cursors`); that the ring holds the samples between the
voice's position and `w`, in order (`Held`), which is an argument about `%`: no two positions less
than `Ring` apart share a place; that the end mark stands where the producer stopped, for a file
at its end (`EndMark`); and that the loop flag is one flag on its way from the call to the voice
(`LoopFlag`). Each step is then a `Supply` or a `Take` of `SampleChannel`, or changes
nothing it can see.

The theorems about `SceneGeometry` have one premise, `"mesh" \notin Fails`: phonon refuses no
static mesh. When it does, the code marks the generation as applied without a commit (observation
10), and the scene then shows something else than what was queued. Builds of movers may fail.
`SceneGeometry_proofs!SceneInvariant` is `Spec => []SceneIInv`, from which `TypeCorrect`,
`AppliedIsCommittedCorrect`, `TracedIsWholeCorrect` and `FlushCommitsCorrect` follow. The
properties speak of moments when nobody writes; the invariant says what holds in between: the
writer of the scene lock is where it may write, and only it (`LockHeld`); what is staged or claimed
is a generation that was staged, and a clear exactly if it was one (`Claimed`); an applier that
writes has a newer generation than the applied one, and until its commit the scene shows the last
(`MeshReached`); a batch of movers, once begun, holds the lock (`Batch`); what is queued and not
committed belongs to somebody who is about to commit it (`Pending`); what the next commit refers to
is alive, and what waits for its release is no longer referred to (`Alive`). Without `Claimed`
a flush could not tell that the generation it waited for is the last one staged. There is one lemma
per action (`...Keeps`), with a step per conjunct.

`SceneGeometry_proofs!MovedIsShownCorrect` needs `MoversIInv` besides: the number of an added
mover is never used again (`Named`), an operation is under way exactly while the simulation thread
acts (`Operating`), and unless the mover moved on meanwhile or its slot was given away, that
operation brings it where it is wanted (`Brings`). Both invariants were first checked by TLC on
instances with two movers.

`AssetCache_proofs!AskedInvariant` is `Spec => []AskedIInv`, with the corollary `AsAskedCorrect`.
`AsAsked` speaks of a source with nothing held and nothing in the ring; the invariant has to say
what the commands that still wait will make of every voice. It says that there is a future: the
states the voices will be in before the first waiting command, after it, after the next, and so on
(`fut`), each the effect of one command on the one before (`Effect`), and that a live source's
voice is as it was asked from the last command that touches it on. A call appends one command and
one state to the future, the drain drops its head. A play held for a decode is outside the ring, so
besides there is at most one per source, with the sound and the seek it was asked and without a
scheduled stop (`HeldOnce`), a released play's seek is still wanted when it follows (`SeekPends`),
and what was asked of a source with nothing held has been given to the ring (`WantGiven`). It rests on `CacheIInv`: what is held names a pending sound
(`HeldUnsent`), what a command names is still loaded when it is drained (`Named`). TLC checked it
with the future computed from the ring, on the run's instance (2,370,625 states).

`SourceSlot_proofs!PlaysInvariant` is the invariant of the plays and their readback, for any number
of lets, plays and frames. `PlayingIsExactAlways` and the action property `EndedIsOverAlways` follow,
and with `FramesKept` and `Occlusion` added so do `FrameWholeAlways` and `OccNotInheritedAlways`.
Here too the properties compare the client with the mixer, and the ring is between them: `Lets` puts
the creates that wait in order and every other command behind the create of its let; `Plays` lets
the play numbers rise through the ring, the voice and what is published; `PubFollows` bounds how far
`play_pub` lags, `LatestPlay` says that the latest play is not lost on the way, and `Noticed` that a
notice is of a play that is over. `FramesKept` says of every commit that waits that the positions the
voice and the listener will have when it is drained are those of one frame the client committed. The
delicate step of `EndedIsOver` is `rt_commit`, which reads notices posted before and after it drained
others: all that match the source are of the same play (`Completions`), so it does not matter which
is reported. `OccNotInheritedAlways` has the premise `OnePublisher`: with two publishers of one
source's occlusion it does not hold (observation 21). TLC checked the parts first, on the instance
of run `frames` (4,302,754 states).

`Transport_proofs!TransportInvariant` is `Spec => []TransportIInv`; the action properties
`ReadsInBoundsAlways`, `StopsOnTimeAlways` and `ClickFreeAlways` follow. Between two blocks `Levels`
says that the voice goes on at the level the last block ended at, or from silence after a cut, and
`Deadlines` that a scheduled stop is due a block after it, and that a stop that has begun leaves the
time the start and the fade still take unless the gate is down already. At the deadline of
`StopsOnTime` a voice that plays is therefore finalized, with its slot given back if it was stolen;
one that plays no more is idle, and nothing is given back (finding 4). `ReadsInBounds` and half of
`StopsOnTime` are about what happens inside a block, whose length is any number of samples: that is
an induction. The library's induction theorems take an operator and cannot be used, but
`WellFoundedInduction` has a first-order principle (a non-empty set has a minimal element), from
which `Least` and `Induction` are proved for sets of natural numbers. `MixingIs` shows by it that the
recursive function `Mixing` is what its definition says, and `MixedIs` that `MixedOK` holds after
every sample: the region lies in the sound that is bound (`Inside`), a loop stays in its region and
goes back only by a wrap (`RoundAndRound`), a voice on its way out stays with its sound (`StaysOut`),
and the first sample is the one under the playhead (`StartsAt`). One lemma about the seam, one about
a sample, and one per call carry the rest. TLC checked `TransportIInv` on the instance of run
`transport` (709,743 states).

Model-checked only: `PlaysThrough`, whose comparison with the reference player across blocks is not
true of every instance (a region inherited by a chained sound, observation 13, may be so short that
one step reports more wraps than are counted), and every liveness property. Liveness under fairness
is out of the prover's reach. `NoAckLost` is proved under a premise only, because without it it is
not true of every instance (observation 7).

## 5. Plan

Done: the inventory; `VoicePool`, `SceneGeometry`, `StreamRing`, `AssetCache` (with held plays),
`Published`, `SourceSlot` (frames, notices, readback) and `Transport`, each with its proofs.
Left, in this order, because of what can break:

1. Proofs: `PlaysThrough` of `Transport` for one sound without a chain.
2. `SoundLease` - abstract: a sound is loaded, leased by voices, retired, freed; refined by
   `VoicePool` and by `AssetCache`.
3. Streams and sound beds in `Transport` (a stream has no seek and its own end), the pitch glide and
   timed fades.
4. `EVT_VOICE_LOOPED` and `pos_pub` in `SourceSlot`; several sources in one frame.
5. The sinks' fallback order and block re-quantiser, the tracker's hot plug, the cache's
   open-addressed table as a function checked against the map it implements.

Not modelled: numerical signal processing and panning, acoustics inside the vendor library, decoding
and resampling, packet and file parsing, layout and profile, device I/O, the rig survey, calibration
and measurement, the language bindings, examples and tools. They keep no state shared between
threads, or they are outside the checkers' reach. Untimed models cannot decide what rests on a
sleep: the 50 ms the engine gives a replaced tracker (`engine.c:824`) is one such place.
