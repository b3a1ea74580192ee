-------------------------- MODULE DistributedRuntime --------------------------
(***************************************************************************)
(* The runtimes the API creates: a SimulationRuntime, or a                 *)
(* DistributedSimulationRuntime (distributed_runtime.py), which has the    *)
(* same lifecycle over a DistributedCoordinator.  The coordinator adds two *)
(* things: a step() that may raise, and, with executor="processes", a pool *)
(* of worker processes, created by the first tick that needs it and        *)
(* released by reset() and shutdown() only.  What a tick computes is in    *)
(* Coordinator and PartitionedSimulation.                                  *)
(***************************************************************************)
EXTENDS SimulationRuntime

CONSTANT Kinds   \* the kinds of runtime a client may ask for

KindNames == {"single_process", "distributed", "processes"}

ASSUME KindsAssumption == Kinds \subseteq KindNames

VARIABLES
  kind,      \* single_process, or distributed with or without processes
  executor,  \* _coord.pool._process_executor: none, live, or broken
  pools,     \* how many process pools this runtime has running
  used,      \* start() or step_once() was called since the last shutdown()
  died       \* the last loop thread ended by an exception

poolVars == <<kind, executor, pools>>
historyVars == <<used, died>>
runtimeVars == <<vars, poolVars, historyVars>>

Distributed == kind # "single_process"

RuntimeTypeOK ==
  /\ TypeOK
  /\ kind \in Kinds
  /\ executor \in {"none", "live", "broken"}
  /\ pools \in Nat
  /\ used \in BOOLEAN
  /\ died \in BOOLEAN

RuntimeInit ==
  /\ Init
  /\ kind \in Kinds
  /\ executor = "none"
  /\ pools = 0
  /\ used = FALSE
  /\ died = FALSE

-----------------------------------------------------------------------------
(***************************************************************************)
(* The worker pool.                                                        *)
(***************************************************************************)
\* _ensure_process_executor(): the batch of a tick creates the pool if there
\* is none; the other executors keep nothing between two ticks.
EnsureExecutor(after) ==
  IF kind = "processes"
    THEN /\ executor' = after
         /\ pools' = IF executor = "none" THEN pools + 1 ELSE pools
    ELSE UNCHANGED <<executor, pools>>

\* Mutant: the pool's shutdown is forgotten, only the reference is dropped.
ReleaseExecutor_DropsReference ==
  /\ executor' = "none"
  /\ UNCHANGED pools

\* DistributedCoordinator.shutdown(), WorkerPool.shutdown().
ReleaseExecutor ==
  /\ executor' = "none"
  /\ pools' = IF executor = "none" THEN pools ELSE pools - 1

\* step() raises: TickCommitError, RuntimeError without a healthy worker, or
\* BrokenProcessPool, at every tick from the first one on.
StepRaises ==
  /\ Distributed
  /\ \E after \in IF executor = "broken" THEN {"broken"} ELSE {"live", "broken"} :
       EnsureExecutor(after)

StepCommits == executor # "broken" /\ EnsureExecutor("live")

-----------------------------------------------------------------------------
(***************************************************************************)
(* The calls and the loop, over the coordinator.                           *)
(***************************************************************************)
RuntimeStart(c) ==
  /\ StartBegin(c)
  /\ used' = TRUE
  /\ died' = FALSE
  /\ UNCHANGED poolVars

RuntimeStep(c) ==
  /\ StepOnce(c)
  /\ StepCommits
  /\ used' = TRUE
  /\ UNCHANGED <<kind, died>>

\* step_once() whose tick raises: only the pool may have changed.
RuntimeStepRaises(c) ==
  /\ MayCall(c, "step")
  /\ status # "running"
  /\ StepRaises
  /\ used' = TRUE
  /\ UNCHANGED <<vars, kind, died>>

\* Mutant: the old coordinator is replaced without its shutdown().
RuntimeReset_KeepsOldPool(c) ==
  /\ Reset(c)
  /\ executor' = "none"
  /\ UNCHANGED <<kind, pools, historyVars>>

RuntimeReset(c) ==
  /\ Reset(c)
  /\ ReleaseExecutor
  /\ UNCHANGED <<kind, historyVars>>

\* The checkpoint routes refuse a distributed runtime.
RuntimeLoad(c) ==
  /\ ~ Distributed
  /\ LoadCheckpoint(c)
  /\ UNCHANGED <<poolVars, historyVars>>

RuntimeShutdownFinish(c) ==
  /\ ShutdownFinish(c)
  /\ ReleaseExecutor
  /\ used' = FALSE
  /\ UNCHANGED <<kind, died>>

RuntimeLoopAdvance(t) ==
  /\ LoopAdvance(t)
  /\ StepCommits
  /\ UNCHANGED <<kind, historyVars>>

\* The exception releases the lock and ends the thread, status untouched.
RuntimeLoopRaises(t) ==
  /\ loop[t] = "tick"
  /\ StepRaises
  /\ loop' = [loop EXCEPT ![t] = "dead"]
  /\ lock' = None
  /\ died' = TRUE
  /\ UNCHANGED <<status, events, thread, callVars, simVars, raced, kind, used>>

RuntimeLoopCrash(t) ==
  /\ LoopCrash(t)
  /\ died' = TRUE
  /\ UNCHANGED <<poolVars, used>>

\* Mutant: the stop event is not tested again under the lock.
RuntimeLoopAcquire_NoSecondTest(t) ==
  /\ loop[t] = "acquire"
  /\ lock = None
  /\ tick < MaxTick
  /\ loop' = [loop EXCEPT ![t] = "tick"]
  /\ lock' = t
  /\ UNCHANGED <<status, events, thread, callVars, simVars, raced, poolVars, historyVars>>

RuntimeLoopAcquire(t) == LoopAcquire(t) /\ UNCHANGED <<poolVars, historyVars>>

-----------------------------------------------------------------------------
RuntimeCall(c) ==
  \/ RuntimeStart(c)
  \/ RuntimeStep(c)
  \/ RuntimeStepRaises(c)
  \/ RuntimeReset(c)
  \/ RuntimeLoad(c)
  \/ RuntimeShutdownFinish(c)
  \/ /\ \/ StartFinish(c)
        \/ Pause(c)
        \/ Resume(c)
        \/ ShutdownSetStop(c)
        \/ ShutdownClearPause(c)
        \/ ShutdownReadThread(c)
        \/ ShutdownJoin(c)
     /\ UNCHANGED <<poolVars, historyVars>>

RuntimeLoop(t) ==
  \/ RuntimeLoopAcquire(t)
  \/ RuntimeLoopAdvance(t)
  \/ RuntimeLoopRaises(t)
  \/ RuntimeLoopCrash(t)
  \/ /\ LoopTop(t) \/ LoopGate(t) \/ LoopTail(t)
     /\ UNCHANGED <<poolVars, historyVars>>

RuntimeNext ==
  \/ \E c \in Callers : RuntimeCall(c)
  \/ \E t \in Threads : RuntimeLoop(t)

RuntimeSpec == RuntimeInit /\ [][RuntimeNext]_runtimeVars

\* As in SimulationRuntime: threads and calls under way keep running.
RuntimeFairness ==
  /\ \A t \in Threads : WF_runtimeVars(RuntimeLoop(t))
  /\ \A c \in Callers :
       /\ WF_runtimeVars(StartFinish(c) /\ UNCHANGED <<poolVars, historyVars>>)
       /\ WF_runtimeVars(ShutdownClearPause(c) /\ UNCHANGED <<poolVars, historyVars>>)
       /\ WF_runtimeVars(ShutdownReadThread(c) /\ UNCHANGED <<poolVars, historyVars>>)
       /\ WF_runtimeVars(ShutdownJoin(c) /\ UNCHANGED <<poolVars, historyVars>>)
       /\ SF_runtimeVars(RuntimeShutdownFinish(c))

FairRuntimeSpec == RuntimeSpec /\ RuntimeFairness

-----------------------------------------------------------------------------
(***************************************************************************)
(* Properties.  KeepsContract of SimulationRuntime holds of every kind.    *)
(***************************************************************************)
\* distributed_runtime.py:131-133: "a process pool is never replaced without
\* releasing the one it replaces": no pool runs that the coordinator does not
\* hold, through any series of resets, failed ticks and shutdowns.
NoAbandonedPool == pools = IF executor = "none" THEN 0 ELSE 1

(***************************************************************************)
(* distributed_runtime.py:158-161: shutdown() stops the loop, then         *)
(* releases the pool.  No tick of the old loop, not even one whose join    *)
(* timed out, brings a pool back: once every shutdown() under way is done, *)
(* and as long as no start() withdraws the stop, only a step_once() does,  *)
(* whatever the handlers do beside each other.                             *)
(***************************************************************************)
ReleasedWhenStopped ==
  status = "stopped" /\ stopEvent /\ ~ Closing /\ ~ used => executor = "none"

(***************************************************************************)
(* A distributed runtime that says RUNNING, with no shutdown() under way,  *)
(* has a loop thread, unless a tick raised in it: a shutdown() that races  *)
(* pauses, resumes and starts never leaves a RUNNING shell behind.  (A     *)
(* load, which only the other kind has, can: runtime_resumed.)             *)
(***************************************************************************)
RunningHasLoop ==
  Distributed /\ status = "running" /\ ~ Closing => died \/ LoopIsLive

\* Every shutdown() ends with the worker processes gone, whatever the loop does.
ShutdownReleases == \A c \in Callers : call[c] = "clear" ~> pools = 0

=============================================================================
