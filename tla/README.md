# TLA+ models of the drone swarm simulator

Formal models of `jsfmu/drone-swarm-simulator`: TLA+ modules translated from
the Python sources, TLC configurations that check them on small instances, and
TLAPS proofs of the most important results for every instance. Paths are
relative to the repository root (`src/drone_sim/...`); `PROJECT.json` maps each
definition to the lines it models.

Run a check with `tlc -config coordinator.cfg Coordinator`, a proof with
`tlapm CoordinatorProofs.tla`.

## 1. The system

A `Simulation` advances a world of drones tick by tick. It can be driven
directly, by a background thread behind a web API, or by a coordinator that
splits the world into slabs and ticks them on a pool of workers.

    API handlers (thread pool) ──► SimulationRuntime ──► Simulation.step()
          │  registry (dict)          lock, events,        movement, boundary,
          │  checkpoints (files)      loop thread          hash, detect, resolve
          │                                                    ▲ must equal
          └──► DistributedSimulationRuntime ──► DistributedCoordinator.step()
                 (same lifecycle)                  retries, rebalancing
                                                     │ two batches per attempt
                                                     ▼
                                                 WorkerPool (sequential,
                                                 threads or processes)

| Component | State it keeps | Operations | What is hard | What makes it correct |
|---|---|---|---|---|
| Simulation runtime (`runtime.py`) | status, loop thread, stop and pause events, lock, simulation, running metrics, snapshot | start, pause, resume, step_once, reset, load_checkpoint, shutdown; `_run_loop` | handlers race each other and the loop; shutdown works without the lock and its join times out; the loop tests its events without the lock; a tick may raise | one loop thread at most and never an unreachable one; shutdown returns; a stopped loop ends; a running one ticks; at most one late tick after leaving RUNNING, but for a start inside a shutdown |
| Distributed runtime (`distributed_runtime.py`) | the same, over a coordinator | the same without checkpoints; worker monitoring | the same, plus releasing the worker pool | the same, plus the pool is released |
| Coordinator and pool (`coordinator.py`, `worker.py`) | clock, world, partition-to-worker assignment, loads, worker health, executor | step with retries, recover_worker, rebalance, shutdown | a job may fail in either batch of any attempt; pool jobs finish in any order; a process pool may break | a tick happens once or not at all; partitions follow the healthy workers; every step ends |
| Partitions and ghosts (`partition.py`) | slab edges | owner_of, neighbors, ghost_export_indices, merge | owners are taken before the movement, ghosts after it; a pair across an edge is seen twice | each interacting pair reported exactly once; the result equals the plain simulation's |
| Engine (`simulation.py`, `state.py`, `config.py`) | clock, world, metrics, RNG | step | order of the phases | drones in the box, energy balance |
| Spatial hash, detection (`spatial_hash.py`, `collisions.py`) | cells of one tick | candidate_pairs, detect | cell edges, walls, the half-open neighbour rule | the same pairs as brute force, each once |
| Boundary, resolution (`boundaries.py`, `collisions.py`) | none | apply, resolve | a drone in several collisions of one tick; order of pairs | energy, separation of lone pairs |
| Movement (`movement.py`, `trajectory.py`) | policies | predict, build, update_velocities, step | signs, horizons and risk bands; unknown policy ids | next contacts are predicted; only threats are avoided |
| Checkpoints (`checkpoint.py`, routes) | files and temp files in one directory | save, validate, load, list | crash between temp file and replace, two reads per load, listing against saves | a load yields one saved world; the listing succeeds and shows every valid checkpoint |
| API registry (`api/routes.py`, `api/monitoring.py`) | registry of runtimes | create, lookup and lifecycle calls, delete, monitoring | the registry has no lock and changes while it is used and iterated over | one DELETE wins; no loop survives it but by a race; a scan lists the registry or fails, unless the table is rebuilt under it |
| Streams (`api/routes.py`) | per connection: sequence number, errors in a row, last tick; counters | open, frame, retry, end, cancel | frames that fail; a simulation deleted under the stream | frames without gaps; a deleted simulation's streams end |
| Validation (`validation.py`) | trackers of the pairs in contact, arrivals, reports | run_policy, record_tick, compare | contacts that persist over ticks, leave and come back; runs that share a scenario | counts are those of the run's history; runs do not leak into each other |
| Snapshots, queries (`snapshot.py`, `viewport.py`, `heatmap.py`, `collision_queries.py`) | immutable snapshots | visible drones, heatmap, markers | edges of viewports and bins, which are compared as float32 here and as float64 there; positions changed since the detection | the queries of one frame agree |
| Metrics (`metrics.py`, `process_metrics.py`) | running aggregates | record, summary | reset and load | counted ticks are the simulation's |
| Scenarios, viewers, client, benchmarks, scripts | none of their own | builders, drawing, measuring | none | – |
| Frontend (`frontend/src`) | the simulation shown, stream and checkpoint reducers | Create and Delete, the stream hook, dispatch of its events | reconnects, buttons that race, lost requests | what is shown is current; no simulation is orphaned unaccounted |

`PROJECT.json` lists every component with its status, and under `hazards` each
place in the code that is hard to test, with the properties that cover it.

## 2. The modules

### Runtime: `SimulationRuntime`, `DistributedRuntime`, `RuntimeContract`

`SimulationRuntime` models the lifecycle of one runtime. `Callers` are the API
handlers (FastAPI runs them in a thread pool), `Threads` the identities of loop
threads (a dead one is reused). A method whose body runs under the lock is one
action (`Pause`, `Resume`, `StepOnce`, `Reset`, `LoadCheckpoint`). `start()` is
two, `StartBegin` and `StartFinish`, since `shutdown()` can read `_thread`
between them. `shutdown()` is `ShutdownSetStop`, `ShutdownClearPause`,
`ShutdownReadThread`, `ShutdownJoin` (which may always time out) and
`ShutdownFinish`. `_run_loop` is `LoopTop` (the `while` test), `LoopGate` (the
pause test), `LoopAcquire` (the lock and the second stop test), `LoopAdvance`
or `LoopCrash`, and `LoopTail`. Snapshot, timings and world are abstracted to
`tick`; `known` says whether the movement system knows every policy id in the
world, which a loaded checkpoint does not guarantee. A call that raises before
it changes anything is a stuttering step.

`RuntimeContract` is what a client can rely on: a status, a tick counter and a
*grace* tick that may land after the runtime left RUNNING
(`tests/test_runtime.py` allows one). It mentions no thread and no event. One
case it has to leave open: a `start()` inside a `shutdown()` clears the stop event
again, and the loop it starts may tick under any status. `KeepsContract` maps the
runtime to it: the grace tick is a loop thread that is past its pause check, and
the open case is told by the history variable `raced` (the last `start()` ran while
a `shutdown()` was under way).

`DistributedRuntime` extends it to both kinds of runtime the API creates. Its
actions are those of `SimulationRuntime` conjoined with what the coordinator
adds: a `step()` that may raise (`RuntimeStepRaises`, `RuntimeLoopRaises`), and,
with `executor="processes"`, a pool that `EnsureExecutor` creates at a tick and
`ReleaseExecutor` ends in `reset()` and `shutdown()`. `pools` counts the pools
running, so one that nobody holds any more is visible; `used` and `died` are
history variables. The distributed runtime has no checkpoints.

### Coordinator: `Coordinator`, `AtomicTick`

`Coordinator` models `DistributedCoordinator.step()` and `WorkerPool`. A step is
`BeginTick`, then per attempt a movement batch (`JobDone`, `JobFails` for each
partition, `MovementDone`) and a detection batch (the same jobs, `Commit`). A
sequential executor runs the jobs in order, a thread or process pool finishes
them in any order. `HandleFailure` is `_handle_failure` together with what
`step()` makes of it: retry, `TickCommitError`, or the `RuntimeError` when no
worker is healthy. `ChildRaises` is a job that raises in a child process.
`Rebalance` is `_maybe_rebalance`, part of `Commit`. `RecoverWorker` and
`Shutdown` happen between two steps, by whoever drives the coordinator (the
runtime holds its lock during a step). A partition's share of the world is the
number of ticks it has advanced, so a part that moved twice or not at all is
visible. `exhausted` is a history variable (some step found no healthy worker).

`AtomicTick` is `Simulation.step()` seen from outside: all parts advance with
the clock, or none.

### Geometry: `Kernel`, `Movement`, `Simulation`, `PartitionedSimulation`

`Kernel` holds what numpy does with arrays (`Arranged`, a sort by a strict order; `Masked`,
a boolean mask; `Written`, an assignment by index) and the arithmetic: `Integrate`, `Bound`, the cells and
`CandidatePairs` (in the code's order, which the resolver depends on),
`Classify`, `BruteForce` and `ResolvePair`. `Movement` has the scripted, the
goal-directed and the avoiding policy, the prediction they are given and the
choice of the most urgent neighbour. `Simulation` composes them into
`EngineStep`, in the order of `SimulationEngine.step()`: prediction on a hash of
its own, movement, boundary, detection, resolution. `PartitionedSimulation`
computes the same tick as the coordinator does: `OwnerOf` before the movement,
`GhostExports` after it, detection per partition, `KeptBy` (the min-owner
merge), one resolution.

Every drone's world is a line along X, the axis the partitions cut; on it the 13
forward neighbour offsets are one and the exchange of the velocity components
along the line of centres exchanges the velocities. Coordinates are integers in
units much smaller than the radii; the time of closest approach is a fraction;
what a rounding loses is at most a unit, and the properties allow for it.

### What is made of a run: `Validation`, `Queries`

`Validation` is `CollisionRateValidator.compare()`: `RunTick` is a tick of
`run_policy()` with what it takes down (`RecordTick` for collisions and near
misses, arrivals, the smallest separation), `NextRun` the next policy on a copy
of the world, with new trackers. The history variable `seen` holds what each
tick detected in and left, against which the counters are compared.

`Queries` are `build_snapshot()`, `find_visible_drones()`, `compute_heatmap()`
and `query_collision_markers()` as operators on the state of `Simulation`, for
every state a run reaches. Positions are float32 numbers, the edges of a viewport
Python floats. `find_visible_drones()` compares an array with a Python float, which
NumPy (1 and 2 alike) rounds to float32 (`Float32`); `np.histogram2d` and the markers
compare as float64 (`Exact`). A position is a whole unit, an edge a third of a unit,
so an edge may lie beside the number it is rounded to. A drone on that number and
beyond the edge is visible, and in no bin.

### Service: `Service`

`Service` is the registry under concurrent handlers. A handler is between its
lookup and the runtime's method when another may delete the simulation:
`Lookup`, then `Start` or `ChangeStatus`, or `DeleteStop`, `DeleteFinish` and
`DeleteRemove`; creating is `CreateBuild` and `CreateRegister`. A runtime is its
status and whether its loop runs and is not told to stop. `GET /metrics`
iterates over the dict.

The dict is CPython's (3.11 and later, which `pyproject.toml` asks for). `entries`
is its table, in the order of insertion; a deletion leaves a hole (`Remove`), an
insertion goes to the end (`Insert`), and one that finds no `room` copies the
entries without the holes to a new table (`InsertRebuilds`), whose size `Room`
gives. The iterator is an index into the table: `ScanNext` takes the next entry,
`ScanFails` is its `RuntimeError`, when the dict has changed its size or still has
an entry after as many as it had. A deletion and a creation keep the size and
escape that test. As long as no entry moves, the list is right all the same. When
the creation rebuilds the table and closes a hole behind the iterator, its index
now skips an entry, and the scan can list a deleted simulation and leave out a
registered one without an error; `ListsTheRegistry` is therefore stated for scans
during which this did not happen (`shifted`).

### Streams and dashboard: `StreamServer`, `Dashboard`

`StreamServer` has the generators of `GET /simulations/{id}/stream`, one per
connection: `Begin` (the lookup, the next number), `Publish`, `BuildFails` (the
number is given back), `GiveUp` and `Close`. A generator whose client is gone is
`forlorn` until it is cancelled at its next wait, and what it does until then
reaches nobody.

`Dashboard` extends `StreamServer` with the browser: `handleCreate`
(`ClickCreate` to `CreateDone`) and `handleDelete` (`ClickDelete` to
`DeleteDone`), which run beside each other, the effect of `useSimulationStream`
(`Effect`, `ChangeView`), the EventSource (`Connect`, `Drop`, `ResponseEnds`) and
the reducer (`Receive`). Requests and answers may be lost, and
`DeletedElsewhere` is another client.

### Checkpoints: `CheckpointStore`, `AtomicStore`

`CheckpointStore` models the checkpoint directory under the handlers of
`api/routes.py`. A save is `SaveBegin` (`mkstemp`), `SaveWrite` (`np.savez`),
`SaveReplace` (`os.replace`) and `SaveRespond`; `SaveFails` is the `except`
branch, at either point. A load is `LoadMetadata` (`validate_checkpoint`),
`LoadArrays` (the second `np.load`) and `LoadEnd`. The listing, which takes no
lock, is `ListBegin` (the glob), `ListValidate` and `ListStat` per file, and
`ListEnd`. `Crash` is the server's death and restart: requests are gone, the
directory stays. A runtime's lock covers its own saves and loads, so a
simulation has one call under way; different simulations share the directory
without a lock. A file is absent, partial, or the world it was written from,
and a world is told apart by whether it has goal positions, the one array that
`load_checkpoint` looks for because of the metadata.

`AtomicStore` is what `save_checkpoint()` promises: a name holds nothing or one
whole world, and a save takes effect at once or not at all.

### MC modules

`MCService` adds symmetry sets and CPython's `Room`; `MCValidation` composes `Validation` and
`Queries` over one `Simulation` and, like `MCPartitionedSimulation`, gives the
velocities, which include negative numbers.

## 3. The runs

Runs that pass:

| Run | Shows | Bounds |
|---|---|---|
| `runtime_concurrent` | both kinds of runtime under two handlers in every operation: `NoOrphanLoop`, `MetricsWithinTick`, `KeepsContract` (the runtime refines the abstract contract), `NoAbandonedPool`, `ReleasedWhenStopped`, `RunningHasLoop`, `ShutdownReturns`, `StopEndsLoop`, `RunningLoopTicks`, `ShutdownReleases` | 2 handlers (every race in `runtime.py` is between two calls, or a call and the loop), 2 threads (an orphan needs a second one; a loop that outlives its shutdown, and the next), 2 ticks (an asked one and a late one), the threaded runtime and the one with processes (a distributed one without is the latter with nothing to release) |
| `coordinator` | `AssignedToHealthy`, `RetriesCostWorkers`, `KeepsAtomicTick`, `RebalanceNarrowsGap`, `StepEnds` | 3 workers and partitions (a failure leaves two workers to choose from, and rebalancing three loads), 2 attempts, 2 ticks, rebalancing after each, threshold 3/2, loads 0 and 2 |
| `simulation` | `TypeOK`, `DetectsExactly`, `SeparatesLonePairs`, `EnergyBalance`, `PredictsContacts`, `SwervesFromThreats`, `ReportsRepeatable`, `ReportMatchesRun`, `QueriesAgree`, `MarkersWhereDetected` | 3 drones (chains of collisions, two neighbours to choose from), 4 start positions and 3 velocities around walls, cell edges and radii, 3 ticks per policy (a contact that ends and comes back), 4 policy runs with the first one repeated, both boundary modes; 3 viewports (an edge below and one above the float32 number it is rounded to, one without width) |
| `partitioned` | `DetectsExactly`, `AgreesWithSimulation` | 3 drones around the first slab edge and at the far wall, 3 slabs, halo of the radius plus one tick's movement, 2 ticks, the policies a coordinator accepts |
| `checkpoints` | `KeepsAtomicStore`, `TempsAccounted`, `ListingComplete` with saves that fail at any point, loads, a listing and a crash | 2 simulations, 2 worlds (one with goals), 1 name (two saves that matter to each other write one name; the proofs hold for any), 3 temp files (two saves and one that the crash left), 1 crash |
| `service` | `DeletedOnce`, `LeakedOnlyByRace`, `ListsTheRegistry` | 2 simulations (one deleted, one created during a scan), 2 handlers (two DELETEs, or one and a late start) and the scan; a table for 5 entries with none, 3 or 4 holes from earlier simulations, so that the second creation finds it full and rebuilds it, takes its last room, or neither |
| `dashboard` | `FramesGapless`, `ShownIsCurrent`, `OrphansAccounted`, `DeletedStreamEnds` | 2 simulations (the old and the new one), 2 connections (one forlorn, one open), 2 errors in a row instead of five, frame numbers modulo 3, 1 event under way (the proofs hold for any of these) |

If a `start()` and a `pause()` come between the first and the second statement of a
`shutdown()`, the stop event is cleared again and the `shutdown()` then clears the
pause event, so the loop of a paused runtime ticks on. The run has these
interleavings. `RuntimeContract` says what remains of the promise there (ticks may
land until the next `start()`, which ends it), `ReleasedWhenStopped` asks that the
stop event is still set, and `RunningHasLoop` that no `shutdown()` is under way.

Two more behaviours are known from the code without being against anything it
says. A loop that is past its unlocked pause check (`runtime.py:383`) ticks once
more after `pause()`, or even after `reset()`: this is the contract's grace tick.
And a `shutdown()` that races a `start()` can leave STOPPED with a loop that
runs; a later `shutdown()` still reaches it (`NoOrphanLoop`). A `reset()` from PAUSED
leaves CREATED with the parked thread, which the contract allows.

A DELETE that races a `start()` leaves a loop that no request can reach:
`LeakedOnlyByRace` says that this is the only way. `OrphansAccounted` names the
ways the dashboard loses a simulation: a DELETE or the answer to a create that
did not get through, and a `handleDelete` that ends after `handleCreate` has put
a new simulation on the screen and takes that one off.

Runs that violate what the repository says of the code:

| Run | What it shows |
|---|---|
| `runtime_resumed` | After `load_checkpoint()` on a runtime that was never started, `resume()` reports RUNNING and nothing ever ticks. |
| `coordinator_processes` | A job that raises in a child process does not arrive as `WorkerFailure` (it cannot be unpickled) but breaks the executor: no retry, no reassignment. |
| `partitioned_default_halo` | With the default halo, a drone that crosses a slab edge is judged by its old slab and a near miss is reported by nobody. |
| `checkpoints_listing` | A listing fails as a whole: the temp file of a save, complete and so valid, is renamed before the listing's `stat()` (`routes.py:547`), which no `try` covers; the docstring says that one file never hides the others. |
| `checkpoints_torn` | A load reads the file twice (`checkpoint.py:227`, `:230`); a save of another simulation in between gives it the tick and RNG of one checkpoint and the drones of another. |

Three more divergences have no run of their own. `config.py:33` says drones are kept
inside the box, but the resolver runs after the boundary
(`simulation.py:207`), so two drones that collide at a wall end with one of
them outside. `simulation` and `partitioned` have such states, and their
properties hold there too. `heatmap.py:56-58` says that the counts of a heatmap add
up to `num_drones_included`, "every visible drone lands in some bin"; a drone on the
float32 number of an edge and beyond that edge is included and in no bin, which the
`simulation` run reaches and `QueriesAgree` states. `monitoring.py:85-97` lists
"every simulation this process currently tracks"; a scan under which the table is
rebuilt may not, as section 2 says (without `shifted` in `ListsTheRegistry`, TLC
finds it in the bounds of `service`).

`runtime_resumed` is a temporal counterexample under the fairness below; no
loop thread exists in it, so nothing that fairness could start is left out.

`CHECK_DEADLOCK FALSE` is set in every run but `dashboard`: the bounds on ticks,
crashes and simulations stop those models. That nothing waits for ever is stated
by `ShutdownReturns`, `StopEndsLoop`, `RunningLoopTicks`, `ShutdownReleases` and
`StepEnds`.

### Fairness

* `SimulationRuntime!Fairness`: weak fairness for the loop thread and for each
  next statement of a call that has begun (operating-system threads), strong
  fairness for `ShutdownFinish`, which waits for a lock the loop takes and
  releases again and again: between two ticks the loop sleeps
  (`BUSY_LOOP_YIELD_S`, there for this purpose), so a waiting handler gets it.
  No fairness makes a client call anything.
* `Coordinator!FairSpec`: weak fairness for the thread inside `step()`. A job
  returns or raises; which of the two is never assumed.
* `DistributedRuntime!RuntimeFairness` is that of `SimulationRuntime`, over the
  composed actions.
* `Dashboard!Fairness`: weak fairness for a generator and for the server
  noticing that a client is gone (asyncio), for the effect (React runs it after
  a commit), and for the EventSource delivering an event, seeing the end of a
  response and reconnecting (the browser). None for the user, for requests, for
  `Drop` or for another client: `DeletedStreamEnds` does not need them.
* `Simulation`, `PartitionedSimulation`, `CheckpointStore` and `Service` have no
  liveness properties.

## 4. The proofs

Each proof module but `DataLemmas` extends the modules it is about. The
assumptions are the named `ASSUME`s on the constants, which TLC evaluates on every run.

* `RuntimeProofs`, for any number of handlers beside each other, first of
  `SimulationRuntime`: `TypeOKAlways`, `NoOrphanLoopAlways`,
  `MetricsWithinTickAlways`. `NoOrphanLoop` alone is not inductive: `LockInv` adds
  that whoever is in a critical section owns the lock, so that no two `start()`s and
  no `start()` and tick overlap, and that a thread not yet started belongs to the
  handler in `start()`. `ImplementsContract` shows each step to be one of
  `RuntimeContract`'s or a stutter, with `ParkInv`: unless the last `start()` ran
  inside a `shutdown()`, a `shutdown()` under way has the stop event set, and while
  the status is not RUNNING a loop has an event set that keeps it from passing its
  checks again. Then of `DistributedRuntime`, whose steps are those of
  `SimulationRuntime` or end a loop by an exception: `NoOrphanLoopOfAnyKind`,
  `ImplementsContractOfAnyKind`, `NoAbandonedPoolAlways`,
  `ReleasedWhenStoppedAlways` and `RunningHasLoopAlways`. `StopInv` adds to the former
  that no loop is in a tick then, `LoopInv` to the latter that outside a `shutdown()`
  a RUNNING or PAUSED runtime has its stop event clear, so that its loop does not end.
* `CoordinatorProofs`: `TypeOKAlways`, `AssignedToHealthyAlways`,
  `RetriesCostWorkersAlways`, `ImplementsAtomicTick` and
  `RebalanceNarrowsGapAlways`, for any number of workers and partitions, any
  loads and every executor. The invariant needs all parts at once: a retry costs a
  worker only because the job that failed ran on a worker not yet FAILED, which is
  `AssignedToHealthy`; the refinement needs `TickInv` (world at the clock, staging
  copy one ahead of it). For the rebalancing, `LoadsAreTotals` makes the workers'
  loads one sum and `MeanBetween` places its mean: the busiest is above it because
  the threshold is above one (`coordinator.py:119`), so not all are level and the
  idlest is below it.
* `SimulationProofs`, of the simulation alone (`Spec`) and of every run of a
  comparison of policies (`ValidatorSpec`), for any number of drones and ticks and
  any radii, cells and speeds. It rises in four steps.
  1. Facts on the operators for every position and velocity:
     `ContactsAreNeighbours` (the hash cannot separate an interacting pair by more
     than one cell, not even beyond the walls; it needs the cell size not to be
     below the near-miss radius, which `config.py` enforces),
     `PredictsNextContact`, `OnlyThreatsCorrect` (the claim of
     `movement.py:222-229`, "provably 0") and `CorrectionsOppose`.
  2. What the whole arrays hold: the candidate list has every contact once
     (`ListsContacts`), a mask keeps each entry that it selects once, so `Detect`
     finds what `BruteForce` finds; a resolution is a sequence of states, one per
     pair (`Resolves`), of which each keeps the energy (`Squares`) and a pair that
     no other touches sees only its own.
  3. The invariant `SimulationInv`: types, `DetectsExactly`, that no pair of the
     result is of a drone with itself, and `ResolvedFromDetected`, that the
     positions are those of the resolution of what the detection saw. The last two
     are what `SeparatesLonePairs` and `MarkersWhereDetected` need, which are about
     states that do not hold the positions before the resolution any more.
     From it follow `TypeOKAlways`, `DetectsExactlyAlways`,
     `SeparatesLonePairsAlways`, `SwervesFromThreatsAlways`,
     `MarkersWhereDetectedAlways`, `QueriesAgreeAlways`, `EnergyBalanceAlways` and
     `PredictsContactsAlways`. `ComparisonInv` adds that the scenario's world stays
     one that drones start in, so that the next policy's run starts where a run may.
  4. `ReportsRepeatableAlways` with `RepeatInv`: the present state of a run is the
     last of a sequence (`RunOf`) that the world, policy, mode and goals it started
     from determine, and so is each report. `ReportMatchesRunAlways` with
     `MatchInv`: the trackers hold the spells of the history so far, the unfinished
     ones among them. A tick begins, continues or ends the spell of each pair by
     what the tick before it saw, and one that comes back is a new one.
* `PartitionedSimulationProofs`: `KeeperSeesPair`: for any number of drones and
  slabs and any movement of at most `m`, if the halo is the near-miss radius plus
  `m` and a slab is at least as wide as the radius plus `2m`, exactly one partition
  keeps an interacting pair and both drones are in its detection job.
  `WideHalo` is this condition for a movement of `MaxSpeed`. It is what
  `partitioned.cfg` satisfies and the default halo of `partitioned_default_halo`
  does not. `PartitionedInv` is `SimulationInv` with `Slow`: no step makes a drone
  faster than `MaxSpeed`, so the condition holds at every step (a world starts
  with such speeds, `state.py:66`). Then `MergesExactlyAlways`: a job's drones are
  listed once, its detection is exact on them, what it keeps is exact on its share
  of the pairs, and the shares make up all of them without an overlap.
  `PartitionedResolution` and `AgreesWithSimulationAlways` add that the staged
  movement is one tick's movement of the whole (`StagedMoves`), and that collisions
  that share no drone resolve the same in any order (`OrderIsFree`), in which the
  merge and the plain detection differ.
* `DataLemmas`, what these proofs share: sums over finite sets, ranks (the order a
  sort makes), counting, and the spells of a history. Its induction principles
  (`NumberInduction`, `SetInduction`, `SubsetInduction`) speak of the *set* of
  numbers or subsets with a property, not of a predicate, which is what the
  provers here can instantiate; `FoldExists` unrolls a fold of the community
  modules into the sequence of its intermediate results, on which they are used.
* `CheckpointStoreProofs`: `TypeOKAlways`, `TempsAccountedAlways`,
  `ListingCompleteAlways` and
  `ImplementsAtomicStore`, for any names, simulations, worlds and number of
  crashes. The invariant adds `SaveInv` (a save under way owns its temp file,
  which holds what it has written so far, and no two share one), `NameInv` (a
  name never holds a partial file, and what exists there stays) and `ScanInv`
  (where the listing is in its files). The refinement rests on names and temp
  files being disjoint, which the leading dot of `mkstemp`'s prefix guarantees:
  request models admit no dot in a name.
* `ServiceProofs`: `TypeOKAlways`, `DeletedOnceAlways`,
  `LeakedOnlyByRaceAlways` and `ListsTheRegistryAlways`, for any number of
  simulations, handlers and holes and any growth of the table. The last one needs
  `ScanInv`: unless entries moved that the scan had not come to, every entry before
  the iterator's index is one it has listed, it has listed no more than the dict's
  size, and while nobody creates or deletes it has listed only registered ones and
  none that is still ahead. `InsertRebuildsOne` says what a rebuilding keeps: the set
  of entries, their number and, if no hole lay behind the iterator, the part of the
  table it has passed (`DensePrefix`).
* `DashboardProofs`: `FramesGaplessAlways`, `ShownIsCurrentAlways` and
  `OrphansAccountedAlways`, for any number of connections, simulations, retries,
  numbers and events under way. `StreamInv` says that only the connection the
  source holds has a generator that is read and events under way, all of the
  hook's simulation; `SeqInv` that the generator's number is ahead of the last
  one heard by as many events as are under way; `CreateInv` that whatever was on
  the screen is deleted or known to be lost before `handleCreate` posts.

Every invariant, action property and refinement of the passing runs is stated by
a theorem. Only model-checked are the liveness properties (`ShutdownReturns`,
`StopEndsLoop`, `RunningLoopTicks`, `ShutdownReleases`, `StepEnds`,
`DeletedStreamEnds`), which rest on fairness and `ENABLED` and are beyond TLAPS as
used here. What the theorems assume beyond the named `ASSUME`s is in their
statements: `WideHalo`, the condition that the default halo of
`partitioned_default_halo` does not meet.

## 5. Not modelled

* Float rounding (positions are float32) but for the edges of viewports, the Y and Z axes, inactive drones, the
  random policy and the RNG state. A distributed run seeds each partition's jobs
  by tick and partition, so random policies differ from the plain run by design.
* What `config.py` checks of its own values: the constants' assumptions stand
  for it.
* Snapshots beyond their tick and positions, profiling, process probes, values
  of metrics, averages and rates of the validation report.
* The size a save reports, which is stat-ed after the lock is released
  (`routes.py:505`) and may be that of another save; nothing depends on it.
* `step_once()` and checkpoint calls in `Service` (they move a status like the
  calls that are there), the counters of requests, the frame and query routes
  (they read one snapshot).
* The ticks of a stream's frames and the counter of superseded ones, a difference of
  two ticks (a load of a later tick under an open stream makes it count ticks that
  never were).
* The hash slots of the registry's dict: which table an entry is found by is left
  out, and so is a table that is rebuilt without an insertion (CPython has none).
* The dashboard's other buttons, its checkpoint and metrics panels, a page that
  is reloaded or closed (it orphans its simulation like a lost request), the
  static page and all rendering.
* Scenarios (they build two-dimensional worlds; the models start from every
  placement on the line), viewers, the HTTP client, benchmarks and scripts.

## 6. Plan

1. `checkpointReducer` against late answers of save, load and list requests.
2. The second axis in `Kernel`, for the forward offsets that a line hides, and
   `ContactsAreNeighbours` for it.
3. `step_once()` and the checkpoint calls in `Service`.
