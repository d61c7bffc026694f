# A verification of krajc

krajc is a game engine in Rust: an entity-component world (a fork of
`bevy_ecs`), schedules of systems, an asynchronous asset pipeline, rapier for
physics, wgpu for rendering, and a plug-in interface for the game. It has no
tests and little documentation, and it relies on what safe Rust would not let it
do: every system receives `&'static mut` references to the whole engine
(`dupe`, `iter_mut_totallysafe`, `UnsafeCell`), and only the order of things
keeps them apart. This directory holds TLA+ modules of the parts where that
order matters, of the parts of the ECS fork that everything else stands on, TLC
configurations that check them on small instances, and TLAPS proofs of what can
be proved for all instances.

The paths below are relative to the repository; `krajc/` stands for
`src/krajc/src/`.

## 1. The system

### Components, their state and operations

| Component | Code | State | Operations | What is hard |
| --- | --- | --- | --- | --- |
| System parameters | `krajc/engine_runtime/schedule_manager/system_params/` | per function: the filter objects of its parameters | `setup_filter`, `filter_against_param`, `check_if_compatible` | compatibility is decided from access bit sets, not from the data reached |
| Dependency graph | `.../schedule.rs` (`calc_dep_graph`) | `actions`, `dep_graph` | register, compute, recompute | loops over HashMaps that write both ends of an edge |
| Parallel executor | `.../schedule.rs`, `.../runtime_schedule.rs` (`execute`) | ready, executed and active systems; two channels; threads | hand out, run, report, kill, join | interleavings, duplicates, panics |
| Asset pipeline | `krajc/rendering/asset.rs`, `asset_loaders/`, `krajc/lib.rs` (asset thread, drains) | entries, loaders, two channels, the engine's `RwLock` | load, poll, run closure, store, publish | two threads, a lock guard that travels in a closure, panics |
| Draw passes | `krajc/rendering/builtin_materials/*/material.rs`, `draw_pass.rs`, `managers/render.rs` | per material a `Vec<DrawPass>`; a list of raw pointers into them | rebuild, push, render, fail | pointers into growing vectors; an early return before `clear` |
| Physics synchronisation | `krajc/physics/` | components, rapier's bodies, `PhysicsMappings`, change flags | nine systems in a fixed order, the physics step | two copies of one state; what is new to whom |
| Structural change under an iterator | `krajc/physics/systems/rigid_body.rs`, `bevy-ecs/src/query/iter.rs`, `storage/table.rs` | rows of a table, the iterator's pointers and length | read a row, move an entity to another table | rows move under the iterator |
| Frame loop and input | `krajc/lib.rs` (`run`), `engine_runtime/input.rs`, `camera.rs`, `managers/` | the event queue, pressed keys now and before, the camera's amounts | reset, drain, pump, handle, update, render | what a frame forgets and when; events of several devices |
| Entity allocator | `bevy-ecs/src/entity/mod.rs`, `identifier/masks.rs` | generations and locations, the free list, an atomic cursor into it | reserve, flush, alloc, free, take a given id | reservations by many threads, made true later; indices used again |
| Deferred commands | `bevy-ecs/src/world/command_queue.rs`, `system/commands/mod.rs`, `world/mod.rs` | queues: a vector of bytes, a cursor, what a panic left | push, append, apply, flush | applications of one queue nested in each other; panics inside them |
| ECS world storage | `bevy-ecs/src/world/`, `bundle.rs`, `archetype.rs`, `storage/` | locations of entities, rows of archetypes and tables, sparse sets | spawn, insert, remove, despawn, batches | every removal moves another entity's row, in up to three structures |
| Change detection and events | `bevy-ecs/src/component.rs`, `change_detection.rs`, `schedule/schedule.rs`, `event/` | 32-bit ticks of the world, of values and of systems; two buffers of events and a cursor per reader | run, write, scan; send, read, update, clear | ages modulo 2^32; an update that happens only if something changed |
| Resources | `src/krajc_macros/src/lib.rs`, `engine_runtime/mod.rs`, `engine_cache/` | lazily made singletons | get, make | first use from two threads |
| Render buffers and lights | `rendering/buffer_manager/`, `lights.rs`, `systems/general.rs` | buffers of fixed size | write | more lights than the buffer holds |
| Render set-up, debug text, camera geometry, plug-in loading, macros, vendored bevy | see PROJECT.json | | | not modelled, section 7 |

### How they interact

`run` (lib.rs) makes the resources, starts the asset thread, registers the
engine's systems, computes the dependency graphs and enters the loop. A frame
is: reset the input, run the closures the asset threads sent, run the callbacks
of loaded assets, wait for events (`pump_events` without a timeout), handle
them, run closures again, update (the schedules Update, PostUpdate,
PhysicsSyncMain, PostPhysicsSync, then the physics step and `clear_trackers`),
render. Materials are systems of PostPhysicsSync: they read the Transforms that
PhysicsSyncMain wrote and leave pointers to draw passes for `render`, which
draws those whose assets are loaded. The asset thread calls back into the same
engine through raw pointers, serialised by one `RwLock` that only the loaders
use.

### What makes each component correct

* Parameters: systems called compatible never touch the same component of the
  same entity with one of them writing.
* Graph: systems that race are ordered, the order has no cycle, and it depends
  neither on the HashMap nor, for systems already there, on later registrations.
* Executor: a system starts after its dependencies completed; none is lost; the
  call returns, leaving nothing behind.
* Assets: what is drawn is complete; what is loaded stays so; no lock and no
  answer is lost; what is asked for becomes ready.
* Draw passes: `render` follows a pointer to each pass of the frame, and to
  nothing else.
* Physics: handles, bodies, colliders and entities are one to one; what is drawn
  agrees with rapier, and rapier steps with what the components ask for.
* Iteration: every new entity is met once, with its own values.
* Allocator and commands: a handle means one entity or none, for ever; what is
  queued runs once, in the order it was meant, whatever panics.
* World: archetypes, tables, sparse sets and locations tell one story, which is
  a map from entities to the values last written.
* Changes and events: a system is told of what is new to it and of nothing
  else; a reader gets each event once, and no event stays for ever.
* Frame: a press is reported in its frame and once; the camera does not drift;
  closing the window ends the program.

## 2. The modules

```
SystemParams <- DepGraph (with FirstFit)      ParallelExecutor -> ScheduleRun (refines)
                   |                                |
              DepGraphProofs                  ParallelExecutorProofs

AssetPipeline -> AssetStore (refines)         DrawPasses <- FrameProofs -> FrameLoop
     |
AssetPipelineProofs                           PhysicsSync <- PhysicsProofs -> TableIteration

EntityAllocator <- WorldStorage -> EntityStore (refines)
             |         |
             |     WorldStorageProofs
          DeferredCommands <- DeferredCommandsProofs

Trackers <- TrackersProofs
```

Every `MC_X` module extends `X` and defines the values of its constants for TLC.
Operators named as a mutant in a comment (`\* Mutant: ...`) stand before the
definition they are a broken variant of; they belong to no specification, and
say what bug the properties below would notice.

**SystemParams** is the pure part of the scheduler: a query is a record of its
terms, `component_access` is what `QueryState::new` makes of it, `is_compatible`
follows the early returns of `FilteredAccess::is_compatible` in the fork. The
reference `QueriesRace` does not use those sets: it looks at archetypes, the
sets of components entities have.

**DepGraph** has one action per loop iteration of `calc_dep_graph`:
`SetupFilter`, `JoinGroup`/`NewGroup`, `AddConflicts`, `Prune`. The loops over
the HashMap take any row that is left (`todo`). Systems may be registered and
the graph computed again at any time. `FirstFit` gives the reference graph: the
first-fit colouring of the conflicts in order of registration.

**ParallelExecutor** has the calling thread (`Recv*`, `Send`, `SendKill`,
`Join`) and the workers (`TakeSystem`, `TakeKill`, `Finish`, `Panic`), with both
channels as sequences; `try_recv` on an empty channel is a step for the calling
thread (its loop goes on) and none for a worker (it only spins). It runs on any
first-fit graph. **ScheduleRun** is what a call promises: systems complete one
by one, none before what it waits for, and then the call returns.

**AssetPipeline** has the asset thread (`TakeLoader`, one `Poll*` per loader
state, then `Unload`, `Write`, `Callback`, `Publish`, the four steps in which an
entry is replaced), the main thread (`LoadResource`, `RunClosure`, the frame)
and the lock, held by a closure on its way from one to the other. A file is
good, missing, bad (it cannot be decoded) or, for an OBJ, without a model;
`unwrap`s that fail are steps to "dead" and "panicked". The threads of the pool
that only read files are the moment `FileRead` happens. **AssetStore** is the
promise to whoever holds a handle.

**DrawPasses** keeps for each material the buffer its vector is in (a number
that grows with every allocation elsewhere), its length and its capacity, and
pointers as (material, buffer, slot). A full vector is reallocated, in place or
not. `DrawPass` has 40 bytes, so the first allocation has room for four. Some of
its definitions have a prefix (`DrawInit`, `DrawSpec`, `RenderPasses`, ...), so
that FrameProofs can extend it beside FrameLoop.

**PhysicsSync** has one action per system of PhysicsSyncMain, in the order
`physics_systems` registers them, and one per entity for the two systems that
insert while they iterate. The game edits the world before (`"game"`) and after
it (`"game, late"`): it spawns and despawns entities, writes components, inserts
them into entities that are there, and removes any of them (`Remove`), those the
systems have put there as well. `taken` is a history variable: what the game
removed and nobody has given back. `Added` and `Changed` are flags that `clear_trackers`
resets, as the systems build their queries anew in each run. Linear and angular
velocity are one velocity, positions include rotations. A physics step may move
whatever is active, to any position.

**TableIteration** looks into one of these systems: `handle_rigidbody_insert`
iterates over a table and moves the current entity out of it. `entities` and
`columns` are the memory of the vectors, also behind their end, as the iterator
keeps the pointers and the length it took first. Its definitions are named so
(`IterInit`, `itervars`, ...) that PhysicsProofs can extend both modules.

**FrameLoop** is the loop of `run`, phase by phase, with the events of the
operating system as its environment: raw keys and window keys are two devices,
and only the window repeats. A key or a button that the maps of the two inputs
do not know (`Unmapped`) makes `register_input` panic, which ends the program
(`RegisterPanics`). The questions systems ask (`KeyPressed`,
`ButtonReleased`, ...) are operators.

**EntityAllocator** is a module of operators on one record (`meta`, `pending`,
`cursor`, `len`), one per method of `Entities`; the next two modules make their
steps of it. A reservation is one subtraction from the cursor, as atomic in the
model as in the code, so any interleaving of threads is a sequence of them.

**DeferredCommands** has two kinds of queues: those of systems, and that of the
world, which is applied whenever a command returns or flushes the world. `stack`
holds the calls of `apply_or_drop_queued` that are on the call stack, with their
`start`, `stop` and `local_cursor`; a queue's own `cursor` is shared by them.
A command inserts, despawns or is a closure that may queue, spawn, despawn,
flush, panic and return. `Unwind` is the panic passing through one call,
`Caught` its end; until then nobody queues or applies anything (`Idle`). Names of commands (`key`) record where they come from, and
are compared by the properties only.

**WorldStorage** is one record `world` with `ents`, `arch`, `table` and
`sparse`, and operators on it that follow the calls: `Move` is a change of
archetype (the same, another in the same table, another table), made of
`RemoveArchetypeRow`, `MoveTableRow` and `TellMoved`, which records the new rows
of up to two other entities. A public method is one action, and
`insert_or_spawn_batch` one action per item, as it keeps an inserter from one
item to the next. **EntityStore** is the promise: a function from entities to
functions from components to values, and a set of reserved ids.

**Trackers** counts `change_tick` modulo `Modulus` and, beside it, the true time
since the start, which only the properties and proofs look at. One changed tick
stands for one value, that of the resource `Events`; a reader is a system with a
cursor. `Other` is anything that takes a tick. `StartSchedule` scans, if the
scan is due, the value and the systems of that schedule only, as
`Schedule::check_change_ticks` does. `Update` is `event_update_system`, `Signal`
that a fixed update has run.

`map` in PROJECT.json names the lines each definition stands for.

## 3. The runs

| Run | Instance | What it shows |
| --- | --- | --- |
| `dep_graph` | up to 4 systems over 3 resources; up to 3 when one of them reaches the world (6 kinds of access, all archetypes of 2 components) | `GroupsCompatible`, `RacesAreOrdered`, `Acyclic`, `GraphIsFirstFit`; `OrderIsStable` over recomputations |
| `executor` | every first-fit graph of 4 systems, 2 workers, at most 1 panic | `DepsExecutedFirst`, `NoneLost`, `CleanReturn`; refinement of ScheduleRun; `Returns` |
| `executor_overlap` | 3 systems, 2 workers | **violated**: `ConflictsNotConcurrent` |
| `assets` | a shader, a texture, an OBJ mesh and one from memory, 2 passes, at most one file at fault | `DrawnIsComplete`, `LockInTransit`, `AnswersAreAwaited`; refinement of AssetStore with its fairness |
| `draw_passes` | 2 materials, 5 groups each, pointers kept from failed frames up to 5 when the next frame starts | `DanglingIsExplained`, `DrawnOnce`, `MovesBeyondFour` |
| `physics` | 1 entity with all four kinds of body, velocities, targets, 2 positions; or 2 with dynamic bodies and positions only; one component at a time removed by the game | `MappingsHold`, `AddedIsHandled`, `DrawnWhereTheBodyIs`, `SteppedAsAsked`, `PanicNeedsRemoval` |
| `iteration` | a table of 5 rows, any of them new, any with a body | `OwnValues`, `EachOnce`, `RowsHold` |
| `frame_input` | 1 key, 1 modifier, 1 button and 1 that is not known; or 2 keys that share a direction; 2 events waiting | `PressIsFresh`, `EdgesAreSeen`, `StopsWithoutKeys` |
| `frame_live` | 1 modifier, 1 button that is not known, 3 requests of the asset threads, 2 events waiting | `CloseEnds`, `RequestsAreServed` |
| `commands` | 2 queues, 2 indices of 3 generations, commands and ids up to 5 together, any of them panicking | `HandlesExact`, `DeadStaysDead`, `SpawnFindsItsEntity`, `DepthFirst`, `RunOnce` |
| `world` | 2 table components and 1 sparse one, 2 values; 3 indices, or 2 with 2 generations and batches | `StorageAgrees`; refinement of EntityStore |
| `trackers` | ticks modulo 7, a threshold of 2, so a greatest age of 3; 1 reader, 2 events, 10 ticks | `ChangesAreSeen`, `ReadOnce`, `NothingIsKept` |

Deadlock checking is off where the system stops: `execute` returns, the program
ends or panics, an iteration is over.

### Bounds, and why they are enough

* Four systems give every conflict graph in which first-fit and the order of
  registration matter (a path of four is the smallest that first-fit colours
  with one colour too many). Resources alone produce all these shapes;
  queries only change which pairs conflict, so three systems suffice for them.
  The proofs remove these bounds.
* Two workers overlap; a third only adds more of the same. One panic of two
  threads leaves one that must still end cleanly. The proofs hold for any
  number of threads and panics.
* One asset of each kind, since loaders of one kind meet only through the lock
  and the channel, and these are exercised by four; two passes that share two
  assets, so one may be drawable before the other.
* Five groups: one more than a first allocation holds. `MaxKept` bounds what a
  frame may start with after failed ones, at one full material, which is what
  lets old and fresh pointers to one vector meet.
* Two entities: one that loses a body or collider and one beside it. Mappings
  grow by a handle for each. The kinds are checked one at a time, as no system
  of the nine relates two entities (`Small` in MC_PhysicsSync says which pairs
  are looked at). One component missing at a time, as each query fails by the
  first one it lacks; of entities that have no Collider then, as that plays no
  part in where a body is. The proof has neither bound.
* Five rows: the row moved is the first, a middle or the last one, twice in one
  pass. The proof is for any number.
* Two events in one batch: the smallest in which they can overwrite, cancel or
  follow one another in one frame. Frames are not bounded. The second key of a
  direction is there without the modifier and the buttons (`Apart` in
  MC_FrameLoop), as the input resources keep keys apart and only the camera
  brings these two together.
* Five commands and ids together: a closure that queues, flushes and panics
  three calls deep with a command left in each, or a reservation, a spawn, two
  despawns and an index used a third time. What needs both is not reached.
* Three entities: one that moves, one in the last row of its archetype and
  another in the last row of its table. Three components give archetypes that
  share a table and ones that do not, and the sparse set its own last entry.
* Ticks modulo 7: ten ticks are more than a turn, scans happen at every age, and
  the greatest age is smaller than the turn, as it is in the code. The proofs
  hold for every modulus and threshold that leave a positive greatest age.

### Disagreements between the code and its comments

* `executor_overlap`: after every report `execute` inserts into `to_execute`
  all that is ready and not in `executed`, also what is queued or running
  (`schedule.rs:158-165`). A system is run several times, beside itself or beside
  a system that waited for it. The comment on `filter_against_param` promises
  that only compatible systems run in parallel. (`paralellism` is false in
  `EngineRuntime::new`, so this needs the public flag to be set.)

Smaller ones seen while modelling, with no run of their own: an OBJ that does
not parse is stored as the integer 0 and marked as loaded (`obj_loader.rs:172`),
while `AssetHandle::get` says it is safe to unwrap what is loaded; each mouse
motion overwrites the one before (`lib.rs:586`), while the comment on
`mouse_motion` speaks of the motion since the last frame; `is_pressed`
("Fires once when pressed") misses a key that goes down and up in one frame
(`input.rs:27`); the same comment and those at `input.rs:37`, `:282`, `:288` and
`:294` say that `is_pressed`, `is_held_down` and the mouse's `is_released` match
only when no modifier is pressed, while the code asks for the one key or button
alone and matches with ShiftLeft down too (`EdgesAreSeen` therefore speaks of
updates without a modifier); `KeyboardInput::is_released` is the same as
`is_pressed`; a repeated ShiftLeft toggles sprinting again;
`PhysicsDontSyncRotation` has no effect, as the whole isometry has been assigned
before it is asked for (`rigid_body.rs:110`); an `Outdated` surface ends the
program; a schedule without systems (PostUpdate, if the game registers none)
would never return from a parallel `execute`, as only a report ends its loop.

### Fairness

Liveness is checked under weak fairness of what the code's threads do anyway.

* `ParallelExecutor!FairSpec`: the calling thread and every worker are threads
  of the operating system and poll; a system returns or panics. Panics are not
  fair, and `Returns` excuses a run with one: a panicked system is never
  reported and the call waits for ever.
* `AssetPipeline!FairSpec`: the main loop, the asset thread and each pending
  loader. A loader that is not ready wakes itself, so it is polled again; a
  loader that finds the lock taken is polled later, and every holder of the lock
  is in the main loop's queue (`LockInTransit`), so weak fairness is enough.
  It assumes that the operating system keeps sending events, without which
  `pump_events(None)` does not return. `LoadResource` is not fair.
* `FrameLoop!FairSpec`: the loop itself. The environment is not fair, so
  `RequestsAreServed` speaks of the case that an event is waiting.
  Both excuse a panic: an event of a key or button that is not known ends the
  program before what waits behind it is handled.

The other modules have safety properties only.

## 4. What is proved

TLAPS checks the following for every value of the constants that satisfies the
named assumptions of the modules: finite sets of systems and workers, bounds
that are natural numbers, parameters that are among the declared kinds, no
material named "none", a positive greatest age of ticks, files and passes of the
declared assets, bundles of declared components, components the game can spawn
an entity with, at least one kind of body, at least one value. Some of them only
say that two things are different: a KeyCode is no MouseButton, the location of
an entity in the world is not that of none, a missing command is no command, no
asset is none, no component is kept both in tables and in a sparse set, and what a value is
before it is written (`Uninit`) is no value. Type correctness is a theorem
rather than a property of a run. Each is `Spec => []P` unless said otherwise.

| Module | Theorem | |
| --- | --- | --- |
| DepGraphProofs | `CompatibleQueriesDoNotRace`, `CompatibleSystemsDoNotRace` | the verdict of `check_if_compatible` is sound, for all queries and worlds |
| | `TypeCorrect`, `GroupsAreCompatible`, `EveryRaceIsOrdered`, `GraphIsAcyclic`, `GraphIsAlwaysFirstFit`, `OrderIsAlwaysStable` | those of `dep_graph`; the last is the action property |
| ParallelExecutorProofs | `TypeCorrect`, `DependenciesFirst`, `NoSystemLost`, `ReturnIsClean`, `ExecuteImplementsScheduleRun` | those of `executor`, the refinement included |
| AssetPipelineProofs | `LockIsAlwaysInTransit`, `AnswersAreAlwaysAwaited`, `DrawnIsAlwaysComplete`, `PipelineImplementsStore` | those of `assets`; of the refinement the part without fairness (`AssetStoreOf!StSpec`) |
| PhysicsProofs | `MappingsAlwaysHold`, `AddedIsAlwaysHandled`, `DrawnIsWhereTheBodyIs`, `SteppedIsAsAsked`, `PanicAlwaysNeedsRemoval` | those of `physics` |
| | `BodiesOfOwnValues`, `EveryNewBodyOnce`, `EveryRowFound` | those of `iteration` |
| FrameProofs | `PressIsAlwaysFresh`, `EdgesAreAlwaysSeen`, `StopsWithoutItsKeys` | those of `frame_input` |
| | `DrawTypeCorrect`, `OnlyTheseDangle`, `EveryPassDrawnOnce`, `FourAreSafe` | those of `draw_passes` |
| DeferredCommandsProofs | `DestroyedForGood`, `HandlesAreAlwaysExact`, `SpawnAlwaysFindsItsEntity`, `CommandsRunOnce`, `CommandsRunDepthFirst` | those of `commands`, up to the last generation |
| WorldStorageProofs | `StorageAlwaysAgrees`, `WorldImplementsEntityStore` | those of `world`, the refinement included |
| TrackersProofs | `ChangesAreAlwaysSeen`, `EventsAreReadOnce`, `NothingIsEverKept` | those of `trackers` |

The inductive invariants behind them are theorems too (`PipelineInvariant`,
`PhysicsInvariant`, `FrameInvariant`, `AllocatorInvariant`, `CommandsInvariant`,
`OrderInvariant`, `FirstFitInvariance`, `WorldInvariant`, ...). TLC checked each
of them but the last as an invariant of the run of the same module. The last one
says that there are rows without saying which, which TLC cannot enumerate; its
consequences `StorageAgrees` and the refinement are what the run checks.

*SystemParams.* If the access sets are disjoint no component is shared; if they
are not, every pair of filter sets excludes each other, and an entity that both
queries match would satisfy one pair of them. An `Option` term adds access but
requires nothing, which is why the mutant that makes it a requirement breaks
`RacesAreOrdered`.

*DepGraph.* Before its row is visited by the pruning loop a conflicting pair is
inserted both ways; afterwards only the system of the later group waits
(`DepsOK`). So the number of a system's group ranks the finished graph
(`GraphOK`): edges lead to lower ranks, conflicting systems have different
ones. A rank excludes cycles, by the least element of a set of numbers; and a
race is a conflict by `CompatibleSystemsDoNotRace`. `GraphOK` has to be part of
the invariant, as the groups are gone once the graph is stored.

For `GraphIsFirstFit` the invariant adds that a system was refused by every
group before its own, by a system registered earlier (`GroupsFirstFit`), and so
that the numbers of the groups colour the systems (`IsColouring`). Two
colourings of that kind agree, and both solve the recursive definition of the
reference: in either case the first system on which they differ would not be
one. That is an argument by the least element and not by induction, so the
recursive function `Colouring` is within reach. For the same reason the
colourings before and after a registration agree on the systems both have,
hence `OrderIsStable`.

*ParallelExecutor.* `DepsExecutedFirst` is inductive together with "active_deps
is the complement of executed": `Ready` then says that all dependencies are in
`executed`, which only grows. `NoneLost` goes with it, through the flow of a
system from `to_execute` over the channel and a thread to the report. For the
refinement a system counts as completed when its report has been sent, so
`Finish` is the step that completes it, once, and a second copy of a system
stutters. `ReturnIsClean` needs a second invariant, `KInv`: Kill messages are
the last in the channel, and their number is what was sent less what ended
threads took; once one is taken nothing but Kills is left. If every thread
panics, on second copies, one of these may stay in the channel, and the property
says so.

*AssetPipeline.* A chain of facts, each of which needs the one before it. A
loader is in the thread's queue at most once and has done nothing while it is
there (`NotTaken`); its closure is sent once and answered once, while the loader
waits (`ClosuresAwaited`); so it reaches the storing steps once, and what these
have done so far is done (`StoredStepwise`); a loaded asset has its final value
and its callback behind it, and the asset thread is done with it
(`LoadedForGood`); hence all assets of a pass that is being drawn are complete,
as `EnterPass` looked at each of them. `LockInTransit` is inductive beside that:
who takes the lock sends the closure in the same step. For the refinement each
action is shown to be one of the store or to leave it alone. Only `LoadResource`
and `Publish` are not of the second kind.

*DrawPasses.* A pointer of this frame belongs to a material whose system has
started (`FreshBegun`); hence `clear` at the start of a system hurts none, and
only a push that moves the vector does. An unallocated vector has no pointers
(`Allocated`), so a move under a pointer is at least the second allocation.

*PhysicsSync.* `Settled` is what holds everywhere: handles lead to bodies and
back, the components that came with a body tell its kind, and what an entity
lacks of its Transform, its handle and the mark of a fixed body is in `taken`,
or the entity has been despawned (`Kept`, `Kinded`). That no step of the systems
takes one of these away, while `InsertBody` replaces components and the game
gives some back, is what `PanicAlwaysNeedsRemoval` rests on. `Done` says for each place in
PhysicsSyncMain what the systems before it have achieved: after the first one
moving entities are where their bodies are, after the second one fixed ones, and
so on; and that no later system undoes it. Some of this depends on the order
alone: targets are set before a direct modification may override them, and a
collider finds the handle that was made four systems earlier. The mark that
mark_static_bodies_trans_changed leaves is harmless as it is left on entities
that have been where their bodies are since the second system.

*TableIteration.* The rows still to be read are as they were at the start and
pairwise different (`UnreadIntact`): a move touches the current row and, in
memory, nothing behind it. What was read has been dealt with (`ReadDealtWith`).

*FrameLoop.* `Noticed` ties the pressed keys to the events since the reset, and
`Remembered` what the last update saw to what the reset has kept of it: that is
all `PressIsFresh` and `EdgesAreSeen` need. For the camera the invariant looks
at the events that are still queued, the batch before the rest (`WillStop`): a
key whose press is queued is down or has a release queued behind it, and if the
amount is not zero a forward key is down or a release is queued. So once all are
up and the queue has no window event left the amount is zero.

*DeferredCommands*, handles. `meta` is ahead of every id that was destroyed
(`Behind`): it knows the index and has a later generation for it. That is
inductive since no operation of the allocator takes a generation back (`Later`,
one lemma per operation: reserve, flush, alloc and set, free), and an id that is
handed out carries the generation `meta` has for its index, so it is no dead
one. `free` succeeds because the `flush` before it changes no generation. That
the handles are exactly the entities and the reservations (`HandlesInv`) rests
on the free list: it has the indices without a location, each once (`Tidy`), and
the cursor divides it into free and reserved ones.

*DeferredCommands*, vectors. The calls that are nested in one vector have parts
of it that follow one another, each call works in its own part, and the cursor
of the vector is the end of the last part (`InOrder`); a panic saves rows only
in the vector of the world, which is cut off at its cursor while it unwinds
(`RecoveryInOrder`). Between two commands nothing is pending: no id is reserved
and the world's queue has nothing behind its cursor (`NothingPending`). Hence
the entity of a spawn is there when its insert runs.

*DeferredCommands*, order. The invariant counts places: rows that a call has
still to run, rows behind a cursor, rows saved by a panic. Each command that was
queued ran or waits in exactly one place (`Accounted`), which is `RunOnce`; and
what waits has queued nothing (`Childless`). `Ahead` is the order in which places
are taken: the world's before those of systems, saved ones first, a nested part
before what is left of the part around it. Places that are ahead of one another
hold commands in depth-first order, and what ran is before what waits
(`InTurn`); and the places above a call that is running a command hold just the
descendants of that command (`RunsWell`), which is why the next command may be
queued at the end. A panic breaks this for what the panicking command had queued
itself. Those are the orphans that `DepthFirst` excuses, and while the panic
unwinds, the rows behind the cursor are all of that kind (`PanickedInv`).

*WorldStorage.* A live entity has a row in the rows of its archetype and one in
the rows of its table, each of these lists its entities and nothing else, each
once (`Listed`), and the location in `meta` names both rows; that is `Stored`.
`SparseOK` says the same of the sparse sets by index. `WithoutRow` is the heart
of it: when row k of n goes, what was in row n is in row k and every other row is
where it was (`ListedRemove`), and an operation has to tell just that entity.
`Move` does this in the archetype and in the table for two entities that need
not be the same, with the world between two calls short of agreement in one
place. So the lemmas state the rows apart from the world, as functions of the
entities; `RemoveArchetypeRow`, `MoveTableRow`, `AllocateRow` and `TellMoved`
have one lemma each, and only at the end are the rows those of the locations.
`Tidy` is what `flush` needs: an index that is free or reserved is known, listed
once, and has no location, so its entity gets a row of the empty archetype that
nobody has. Between the items of a batch nothing is reserved (`BatchOK`), hence
items may be spawned with ids of their own.

Each of these lemmas also says that the other entities read what they read
before, through whatever row they have now (`KeepsAll`), and what the entity in
question reads: its old values but for those that were written or removed. So
each action is a step of EntityStore or leaves the store alone. That a
cell which `AllocateTableRow` or `MoveTableRow` leaves unwritten (`Uninit`) is
written in the same operation follows: steps of EntityStore put nothing but
values into the store.

*Trackers.* The invariant is that what the ticks show of an age is exact up to
the greatest age, and at least that when the true age is more (`Exact`). It
survives a wrap because a scanned tick is never older than the greatest age plus
the ticks since the scan, and those are less than two thresholds (`ScanIsDue`):
one until the scan is due and one until a schedule starts. The tick of a system
that does not run is not scanned, so nothing is claimed of one that has not run
for a whole turn; the model leaves such a system out, by that excuse.

*Events.* The ids in the buffers are consecutive: from the start of the older one
to the start of the newer one, and from there to the count (`Consecutive`). So
what a cursor has not read is an interval, from the later of cursor and start,
and reading k events takes its first k. What lies in the older buffer has seen
one update and what is in neither has seen two (`AgesHold`). For
`NothingIsKept` the invariant adds what will make the next update happen
(`KeptBriefly`): events in the older buffer are there only if the last run
updated, which has the next one update too, and events in the newer one were
sent after the last run, so their change is new to it.

### Only model-checked

Liveness under fairness (`Returns`, `CloseEnds`, `RequestsAreServed`, the fair
part of ImplementsAssetStore) is out of the prover's reach. Everything else that
the passing runs check is proved: every invariant, every action property, and
the safety of all three refinements.

## 5. Hazards

`hazards` in PROJECT.json lists what is hard to test here, at the line where it
bites, and the properties that would notice it go wrong. Those without a
property are limits of the model (GPU sizes, floats, HashMap races) or places
where the repository does not say what should happen.

## 6. Plan

Done: SystemParams, DepGraph, ParallelExecutor, AssetPipeline, DrawPasses,
PhysicsSync, TableIteration, FrameLoop, EntityAllocator, DeferredCommands,
WorldStorage and Trackers, each with its runs, and proofs about all of them.

Next, modules, where a property of their own can be stated: **Observers**, the
hooks and observers that run in the middle of WorldStorage's actions, once the
engine registers any; **EngineFrame**, the loop, the schedules and the systems
of PhysicsSync, DrawPasses and AssetPipeline as one frame; DeferredCommands over
WorldStorage instead of over handles, whose two invariants on the allocator are
each proved.

## 7. What is not modelled

* GPU set-up, buffers and shaders; floating-point geometry of the camera; text
  layout: data without control.
* The plug-in interface and the macros: loading a library and generating code.
  The systems a plug-in registers are systems of DepGraph.
* Inside FrameLoop: the wheel, the directions besides forward (they have the
  same code), pacing by TargetFps, gamepad events (only printed), the
  `clear_color` copied on CursorMoved.
* Inside PhysicsSync: a game that reaches into rapier through `RigidBodySet`
  and `RigidBodyHandle::get_body`, or that inserts the components the systems put
  there (a handle, a target, the mark of a fixed body) by itself; it may write
  targets and remove any of these. Linear and angular velocity are one value.
* EntityStore says what an operation may do to the entities, their components and
  the ids, and that all others stay as they are. That the value an insert leaves
  is the one it was given is not said there, as no variable holds the request; the
  actions of WorldStorage pass it on.
* Most of the vendored code, by its number of lines nearly all of the
  repository: `bevy_reflect`, `bevy_utils`, `bevy_tasks`, `bevy_ptr` and the
  macros are generic containers, reflection tables, trait implementations per
  type and generated code, with no state machine the engine would drive. Of the
  ECS itself: the bevy schedules, their executors and conditions (the engine has
  its own; only the scan of ticks is in Trackers), states, hooks and observers,
  hierarchy of bundles by reflection, the fetches of queries beyond their access
  sets. A model of these would follow the Rust types and not a behaviour. So the
  share of all lines that the map covers stays small, and the parts that decide
  what the engine does are the ones covered.
* In DeferredCommands, a hook that reserves an id while its entity is despawned:
  `Entities::free` asserts that there is none. World::clear_entities is an
  action of WorldStorage only: it forgets generations, so that a handle from
  before it may mean a new entity, which `DeadStaysDead` does not cover.
* Resources made on first use by two threads at once, which needs the parallel
  schedules that `EngineRuntime::new` switches off; sizes of GPU buffers.
* Races on the HashMaps of resources and assets between the asset thread and
  the main thread.

## 8. Running it

From this directory, `tlc -config MC_DepGraph.cfg MC_DepGraph.tla` and likewise
for the others; no run takes more than five minutes. `tlapm DepGraphProofs.tla`
and likewise for the other proof modules; WorldStorageProofs and
DeferredCommandsProofs take up to ten minutes, the others up to five.
