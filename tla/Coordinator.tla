----------------------------- MODULE Coordinator -----------------------------
(***************************************************************************)
(* The distributed coordinator and its worker pool (coordinator.py,        *)
(* worker.py).  One step() is a sequence of attempts; an attempt runs a    *)
(* batch of movement jobs and then a batch of detection jobs, one job per  *)
(* partition, each on the worker the partition is assigned to.  A worker   *)
(* may fail in any job.  Only a successful attempt commits to the world.   *)
(*                                                                         *)
(* Drones, positions and pairs are abstracted: a partition's part of the   *)
(* world is the number of ticks it has advanced (their geometry is in      *)
(* PartitionedSimulation).                                                 *)
(***************************************************************************)
EXTENDS Naturals, FiniteSets, FiniteSetsExt

CONSTANTS
  NumWorkers,
  NumPartitions,
  Modes,         \* the executors the pool may be configured with
  RetryLimit,    \* worker_retry_limit
  Interval,      \* rebalance_interval_ticks
  ThresholdNum,  \* rebalance_imbalance_threshold is the fraction
  ThresholdDen,  \*   ThresholdNum / ThresholdDen
  Loads,         \* loads a partition may report
  MaxTick        \* bound on the clock (the code has none)

ASSUME CoordinatorAssumption ==
  /\ NumWorkers \in Nat \ {0}
  /\ NumPartitions \in Nat \ {0}
  /\ Modes \subseteq {"sequential", "threads", "processes"}
  /\ RetryLimit \in Nat \ {0}
  /\ Interval \in Nat \ {0}
  /\ ThresholdDen \in Nat \ {0}
  /\ ThresholdNum \in Nat
  /\ ThresholdNum > ThresholdDen
  /\ Loads \subseteq Nat
  /\ MaxTick \in Nat

Workers == 0 .. NumWorkers - 1
Partitions == 0 .. NumPartitions - 1

VARIABLES
  mode,        \* the pool's executor: use_threads, use_processes or neither
  clock,       \* clock.tick
  world,       \* the authoritative state: ticks each partition has advanced
  staged,      \* the attempt's staging copy of it
  phase,       \* where step() is
  attempt,     \* attempts begun in this step()
  done,        \* partitions whose job of the running batch has a result
  health,      \* WorkerPool._health
  assign,      \* partition_worker
  load,        \* last_load_stats: the load of each partition
  outcome,     \* how the last step() ended
  poolBroken,  \* has the process executor lost a child?
  exhausted    \* history: has a step() ever found every worker FAILED?

stepVars == <<staged, phase, attempt, done>>
poolVars == <<health, assign, load, exhausted, poolBroken>>
vars == <<mode, clock, world, stepVars, poolVars, outcome>>

Outcomes == {"none", "committed", "tick_commit_error", "all_failed", "broken_pool"}

TypeOK ==
  /\ mode \in Modes
  /\ clock \in 0 .. MaxTick
  /\ world \in [Partitions -> 0 .. MaxTick]
  /\ staged \in [Partitions -> 0 .. MaxTick + 1]
  /\ phase \in {"idle", "movement", "detection"}
  /\ attempt \in 0 .. RetryLimit
  /\ done \subseteq Partitions
  /\ health \in [Workers -> {"idle", "failed", "recovered"}]
  /\ assign \in [Partitions -> Workers]
  /\ load \in [Partitions -> Nat]
  /\ outcome \in Outcomes
  /\ exhausted \in BOOLEAN
  /\ poolBroken \in BOOLEAN

Init ==
  /\ mode \in Modes
  /\ clock = 0
  /\ world = [p \in Partitions |-> 0]
  /\ staged = [p \in Partitions |-> 0]
  /\ phase = "idle"
  /\ attempt = 0
  /\ done = {}
  /\ health = [w \in Workers |-> "idle"]
  /\ assign = [p \in Partitions |-> p % NumWorkers]
  /\ load = [p \in Partitions |-> 0]
  /\ outcome = "none"
  /\ exhausted = FALSE
  /\ poolBroken = FALSE

-----------------------------------------------------------------------------
Healthy == {w \in Workers : health[w] # "failed"}
Failed == {w \in Workers : health[w] = "failed"}

\* The position of x in the sorted list of S.
Rank(x, S) == Cardinality({y \in S : y < x})

(***************************************************************************)
(* The assignment in which the partitions of the failed worker w go round  *)
(* robin, in the order of their ids, to the sorted healthy workers.        *)
(***************************************************************************)
Reassigned(w, healthy, new) ==
  LET affected == {p \in Partitions : assign[p] = w}
  IN  \A p \in Partitions :
        IF p \in affected
          THEN /\ new[p] \in healthy
               /\ Rank(new[p], healthy) = Rank(p, affected) % Cardinality(healthy)
          ELSE new[p] = assign[p]

\* Mutant: the healthy workers are listed before the failed one is marked.
HandleFailure_StaleHealthy(w) ==
  /\ attempt < RetryLimit
  /\ health' = [health EXCEPT ![w] = "failed"]
  /\ assign' \in {new \in [Partitions -> Workers] : Reassigned(w, Healthy, new)}
  /\ attempt' = attempt + 1
  /\ phase' = "movement"
  /\ done' = {}
  /\ UNCHANGED <<mode, clock, world, staged, load, exhausted, outcome, poolBroken>>

\* Mutant: the failed worker is not marked, only avoided this once.
HandleFailure_NoMark(w) ==
  /\ Healthy # {w}
  /\ attempt < RetryLimit
  /\ assign' \in {new \in [Partitions -> Workers] : Reassigned(w, Healthy \ {w}, new)}
  /\ attempt' = attempt + 1
  /\ phase' = "movement"
  /\ done' = {}
  /\ UNCHANGED <<mode, clock, world, staged, health, load, exhausted, outcome, poolBroken>>

\* _handle_failure(), and what step() makes of it: another attempt of the whole
\* tick, a TickCommitError after the last, or the RuntimeError it raises itself.
HandleFailure(w) ==
  LET healthy == Healthy \ {w}
  IN  /\ health' = [health EXCEPT ![w] = "failed"]
      /\ done' = {}
      /\ IF healthy = {}
           THEN /\ phase' = "idle"
                /\ outcome' = "all_failed"
                /\ exhausted' = TRUE
                /\ UNCHANGED <<assign, attempt>>
           ELSE /\ assign' \in {new \in [Partitions -> Workers] : Reassigned(w, healthy, new)}
                /\ UNCHANGED exhausted
                /\ IF attempt < RetryLimit
                     THEN /\ attempt' = attempt + 1
                          /\ phase' = "movement"
                          /\ UNCHANGED outcome
                     ELSE /\ phase' = "idle"
                          /\ outcome' = "tick_commit_error"
                          /\ UNCHANGED attempt
      /\ UNCHANGED <<mode, clock, world, staged, load, poolBroken>>

-----------------------------------------------------------------------------
(***************************************************************************)
(* One step().                                                             *)
(***************************************************************************)
BeginTick ==
  /\ phase = "idle"
  /\ clock < MaxTick
  /\ phase' = "movement"
  /\ attempt' = 1
  /\ done' = {}
  /\ UNCHANGED <<mode, clock, world, staged, poolVars, outcome>>

\* Mutant: the pool refuses a job for a FAILED worker and waits.
Runnable_HealthyOnly(p) ==
  /\ phase # "idle"
  /\ p \in Partitions \ done
  /\ health[assign[p]] # "failed"

\* A sequential batch runs its jobs in order; a pool finishes them in any order.
Runnable(p) ==
  /\ phase # "idle"
  /\ p \in Partitions \ done
  /\ mode = "sequential" => \A q \in Partitions : q < p => q \in done

JobDone(p) ==
  /\ Runnable(p)
  /\ ~ poolBroken
  /\ done' = done \cup {p}
  /\ UNCHANGED <<mode, clock, world, staged, phase, attempt, poolVars, outcome>>

(***************************************************************************)
(* A job raises WorkerFailure: the batch is abandoned (a thread pool first *)
(* waits for the other jobs, whose results nobody reads).  The process     *)
(* pool's own WorkerFailures are the injected ones, raised before any job  *)
(* is submitted.                                                           *)
(***************************************************************************)
JobFails(p) ==
  /\ Runnable(p)
  /\ mode = "processes" => done = {}
  /\ HandleFailure(assign[p])

(***************************************************************************)
(* A job that raises in a child process: WorkerFailure cannot be unpickled *)
(* in the parent (its constructor takes five arguments, its args hold      *)
(* one), the executor marks itself broken, and BrokenProcessPool, which    *)
(* step() does not catch, ends the tick.                                   *)
(***************************************************************************)
ChildRaises(p) ==
  /\ mode = "processes"
  /\ Runnable(p)
  /\ poolBroken' = TRUE
  /\ phase' = "idle"
  /\ done' = {}
  /\ outcome' = "broken_pool"
  /\ UNCHANGED <<mode, clock, world, staged, attempt, health, assign, load, exhausted>>

\* Mutant: the results at hand are staged, complete or not.
MovementDone_AnyResults ==
  /\ phase = "movement"
  /\ staged' = [p \in Partitions |-> IF p \in done THEN world[p] + 1 ELSE world[p]]
  /\ phase' = "detection"
  /\ done' = {}
  /\ UNCHANGED <<mode, clock, world, attempt, poolVars, outcome>>

\* The batch has every result; the staging copy takes the moved drones.
MovementDone ==
  /\ phase = "movement"
  /\ done = Partitions
  /\ staged' = [p \in Partitions |-> IF p \in done THEN world[p] + 1 ELSE world[p]]
  /\ phase' = "detection"
  /\ done' = {}
  /\ UNCHANGED <<mode, clock, world, attempt, poolVars, outcome>>

-----------------------------------------------------------------------------
(***************************************************************************)
(* Rebalancing.                                                            *)
(***************************************************************************)
WorkerLoad(stats, w) ==
  MapThenSumSet(LAMBDA p : stats[p], {p \in Partitions : assign[p] = w})

TotalLoad(stats) == MapThenSumSet(LAMBDA w : WorkerLoad(stats, w), Healthy)

\* max and min over (load, id) pairs.
Busiest(stats, w) ==
  \A v \in Healthy : \/ WorkerLoad(stats, v) < WorkerLoad(stats, w)
                     \/ WorkerLoad(stats, v) = WorkerLoad(stats, w) /\ v <= w
Idlest(stats, w) ==
  \A v \in Healthy : \/ WorkerLoad(stats, v) > WorkerLoad(stats, w)
                     \/ WorkerLoad(stats, v) = WorkerLoad(stats, w) /\ v >= w
Heaviest(stats, w, p) ==
  /\ assign[p] = w
  /\ \A q \in Partitions :
       assign[q] = w => stats[q] < stats[p] \/ (stats[q] = stats[p] /\ q <= p)

\* Mutant: any load that is not below the mean counts.
Imbalanced_Threshold1(stats, w) ==
  WorkerLoad(stats, w) * Cardinality(Healthy) >= TotalLoad(stats)

\* w's load over the mean load of the healthy workers reaches the threshold.
Imbalanced(stats, w) ==
  WorkerLoad(stats, w) * Cardinality(Healthy) * ThresholdDen
    >= ThresholdNum * TotalLoad(stats)

(***************************************************************************)
(* _maybe_rebalance(): the heaviest partition of the busiest healthy       *)
(* worker moves to the idlest, if the imbalance is large enough.           *)
(***************************************************************************)
Rebalance(stats) ==
  IF Cardinality(Healthy) < 2 \/ TotalLoad(stats) = 0
    THEN UNCHANGED assign
    ELSE \E b, i \in Healthy :
           /\ Busiest(stats, b)
           /\ Idlest(stats, i)
           /\ IF b # i /\ Imbalanced(stats, b)
                THEN \E p \in Partitions :
                       /\ Heaviest(stats, b, p)
                       /\ assign' = [assign EXCEPT ![p] = i]
                ELSE UNCHANGED assign

\* The attempt succeeded: merge, resolve, commit, count the tick, rebalance.
Commit ==
  /\ phase = "detection"
  /\ done = Partitions
  /\ world' = staged
  /\ clock' = clock + 1
  /\ load' \in [Partitions -> Loads]
  /\ outcome' = "committed"
  /\ phase' = "idle"
  /\ done' = {}
  /\ IF clock' % Interval = 0 THEN Rebalance(load') ELSE UNCHANGED assign
  /\ UNCHANGED <<mode, staged, attempt, health, exhausted, poolBroken>>

\* recover_worker(): between two steps, whoever drives the coordinator.
RecoverWorker(w) ==
  /\ phase = "idle"
  /\ health' = [health EXCEPT ![w] = "recovered"]
  /\ UNCHANGED <<mode, clock, world, stepVars, assign, load, exhausted, poolBroken, outcome>>

\* shutdown(): a process executor is released; the next step() makes a new one.
Shutdown ==
  /\ phase = "idle"
  /\ mode = "processes"
  /\ poolBroken' = FALSE
  /\ UNCHANGED <<mode, clock, world, stepVars, health, assign, load, exhausted, outcome>>

\* What the thread inside step() does.
StepProgress ==
  \/ \E p \in Partitions : JobDone(p) \/ JobFails(p) \/ ChildRaises(p)
  \/ MovementDone
  \/ Commit

Next ==
  \/ BeginTick
  \/ StepProgress
  \/ \E w \in Workers : RecoverWorker(w)
  \/ Shutdown

Spec == Init /\ [][Next]_vars

\* A job ends, well or badly, and step() goes on when its batch has ended.
FairSpec == Spec /\ WF_vars(StepProgress)

-----------------------------------------------------------------------------
(***************************************************************************)
(* Properties.                                                             *)
(***************************************************************************)

\* coordinator.py:303 and README: however many attempts a step() takes, on
\* whatever workers, every partition's drones advance exactly once with the
\* clock, or none does.
Atomic == INSTANCE AtomicTick
KeepsAtomicTick == Atomic!Spec

\* coordinator.py:477-494, 517-543: no partition is assigned to a FAILED
\* worker, whatever fails, recovers and is rebalanced - until a step() has
\* found every worker FAILED, which leaves the partitions where they were.
AssignedToHealthy ==
  \A p \in Partitions : health[assign[p]] = "failed" => exhausted

\* coordinator.py:288-297: every retry has cost a healthy worker, so a step()
\* makes at most one attempt more than there are FAILED workers, however high
\* the retry limit is (again until every worker was FAILED).
RetriesCostWorkers ==
  phase # "idle" /\ ~ exhausted => attempt <= 1 + Cardinality(Failed)

\* coordinator.py:502-509: a committed tick moves at most one partition, from
\* a healthy worker above the mean load to a healthy worker below it.
RebalanceNarrowsGap ==
  [][clock' # clock =>
       \A p \in Partitions : assign'[p] # assign[p] =>
         /\ {assign[p], assign'[p]} \subseteq Healthy
         /\ WorkerLoad(load', assign[p]) * Cardinality(Healthy) > TotalLoad(load')
         /\ WorkerLoad(load', assign'[p]) * Cardinality(Healthy) < TotalLoad(load')
         /\ \A q \in Partitions : assign'[q] # assign[q] => q = p]_vars

\* coordinator.py:286-300: a step() that has begun returns or raises, whatever
\* the jobs do, also when the partitions sit on workers that are FAILED.
StepEnds == phase # "idle" ~> phase = "idle"

\* worker.py:249-252: a crash in a worker is reported as a WorkerFailure with
\* every executor, so that a step() ends in a commit or in one of the two
\* errors of the coordinator.  The process executor does not do this.
CrashIsWorkerFailure == outcome # "broken_pool"

=============================================================================
