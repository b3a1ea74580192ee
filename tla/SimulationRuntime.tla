-------------------------- MODULE SimulationRuntime --------------------------
(***************************************************************************)
(* The lifecycle of one simulation runtime (runtime.py and, with the same  *)
(* skeleton, distributed_runtime.py): a background loop thread that ticks  *)
(* the simulation, and API request handlers that run concurrently in the   *)
(* web server's thread pool and call start, pause, resume, step_once,      *)
(* reset, load_checkpoint and shutdown.                                    *)
(*                                                                         *)
(* A handler's critical section that only touches lock-protected state is  *)
(* one step.  start() is two, because shutdown() reads and writes the      *)
(* events and the thread reference without the lock; shutdown() is four;   *)
(* the loop's unlocked tests of its two events are steps of their own.     *)
(* A call that raises before it changes anything is a stuttering step and  *)
(* has no action.                                                          *)
(***************************************************************************)
EXTENDS Naturals

CONSTANTS
  Callers,    \* concurrent API request handlers
  Threads,    \* identities for loop threads; a dead one is recycled
  Ops,        \* the operations the handlers call
  MaxTick,    \* bound on the tick counter (the code has none)
  None        \* no thread; no owner of the lock

OpNames == {"start", "pause", "resume", "step", "reset", "load", "shutdown"}

ASSUME RuntimeAssumption ==
  /\ Ops \subseteq OpNames
  /\ MaxTick \in Nat \ {0}
  /\ None \notin Callers \cup Threads
  /\ Callers \cap Threads = {}

VARIABLES
  status,       \* _status
  thread,       \* _thread: the loop thread last created, or None
  stopEvent,    \* _stop_event.is_set()
  pauseEvent,   \* _pause_event.is_set()
  lock,         \* owner of _lock, or None
  loop,         \* where each loop thread is in _run_loop
  call,         \* where each handler is in a call that takes several steps
  joining,      \* shutdown()'s local copy of _thread
  tick,         \* _sim.clock.tick, also the published snapshot's tick
  metricTicks,  \* _running_metrics.num_ticks
  known,        \* does the movement system know every policy id of the world?
  raced         \* history: did the last start() run while a shutdown() was under way?

events == <<stopEvent, pauseEvent>>
threadVars == <<thread, loop>>
callVars == <<call, joining>>
simVars == <<tick, metricTicks, known>>
vars == <<status, events, lock, threadVars, callVars, simVars, raced>>

Status == {"created", "running", "paused", "stopped"}
LoopPC == {"dead", "new", "top", "gate", "acquire", "tick", "tail"}
CallPC == {"idle", "start", "clear", "read", "join", "finish"}

TypeOK ==
  /\ status \in Status
  /\ thread \in Threads \cup {None}
  /\ stopEvent \in BOOLEAN
  /\ pauseEvent \in BOOLEAN
  /\ lock \in Callers \cup Threads \cup {None}
  /\ loop \in [Threads -> LoopPC]
  /\ call \in [Callers -> CallPC]
  /\ joining \in [Callers -> Threads \cup {None}]
  /\ tick \in 0 .. MaxTick
  /\ metricTicks \in 0 .. MaxTick
  /\ known \in BOOLEAN
  /\ raced \in BOOLEAN

Init ==
  /\ status = "created"
  /\ thread = None
  /\ stopEvent = FALSE
  /\ pauseEvent = FALSE
  /\ lock = None
  /\ loop = [t \in Threads |-> "dead"]
  /\ call = [c \in Callers |-> "idle"]
  /\ joining = [c \in Callers |-> None]
  /\ tick = 0
  /\ metricTicks = 0
  /\ known = TRUE
  /\ raced = FALSE

\* Thread.is_alive(): false before Thread.start() and after the thread ended.
Alive(t) == t # None /\ loop[t] \notin {"dead", "new"}

\* The handler is between the first and the last statement of shutdown().
InShutdown(c) == call[c] \in {"clear", "read", "join", "finish"}

\* The handler is free to make the call and the lock is free to be taken.
MayCall(c, op) == op \in Ops /\ call[c] = "idle" /\ lock = None

-----------------------------------------------------------------------------
(***************************************************************************)
(* The API calls.                                                          *)
(***************************************************************************)
\* Mutated: start() without its is_alive() check.
StartBegin_NoAliveCheck(c) ==
  /\ MayCall(c, "start")
  /\ stopEvent' = FALSE
  /\ pauseEvent' = FALSE
  /\ status' = "running"
  /\ raced' = \E d \in Callers : InShutdown(d)
  /\ \E t \in Threads :
       /\ loop[t] = "dead"
       /\ thread' = t
       /\ loop' = [loop EXCEPT ![t] = "new"]
  /\ lock' = c
  /\ call' = [call EXCEPT ![c] = "start"]
  /\ UNCHANGED <<joining, simVars>>

StartBegin(c) ==
  /\ MayCall(c, "start")
  /\ ~ (thread # None /\ Alive(thread))
  /\ stopEvent' = FALSE
  /\ pauseEvent' = FALSE
  /\ status' = "running"
  /\ raced' = \E d \in Callers : InShutdown(d)
  /\ \E t \in Threads :
       /\ loop[t] = "dead"
       /\ \A d \in Callers : joining[d] # t
       /\ thread' = t
       /\ loop' = [loop EXCEPT ![t] = "new"]
  /\ lock' = c
  /\ call' = [call EXCEPT ![c] = "start"]
  /\ UNCHANGED <<joining, simVars>>

StartFinish(c) ==
  /\ call[c] = "start"
  /\ loop' = [loop EXCEPT ![thread] = "top"]
  /\ lock' = None
  /\ call' = [call EXCEPT ![c] = "idle"]
  /\ UNCHANGED <<status, events, thread, joining, simVars, raced>>

Pause(c) ==
  /\ MayCall(c, "pause")
  /\ status = "running"
  /\ pauseEvent' = TRUE
  /\ status' = "paused"
  /\ UNCHANGED <<stopEvent, lock, threadVars, callVars, simVars, raced>>

\* Mutated: resume() that forgets to clear the pause event.
Resume_KeepsPauseEvent(c) ==
  /\ MayCall(c, "resume")
  /\ status = "paused"
  /\ status' = "running"
  /\ UNCHANGED <<events, lock, threadVars, callVars, simVars, raced>>

Resume(c) ==
  /\ MayCall(c, "resume")
  /\ status = "paused"
  /\ pauseEvent' = FALSE
  /\ status' = "running"
  /\ UNCHANGED <<stopEvent, lock, threadVars, callVars, simVars, raced>>

(***************************************************************************)
(* _advance_one_locked(): one tick, its metrics and its snapshot.  With an *)
(* unknown policy id MovementSystem.step() raises before it moves a drone. *)
(***************************************************************************)
Advance ==
  /\ known
  /\ tick < MaxTick
  /\ tick' = tick + 1
  /\ metricTicks' = metricTicks + 1
  /\ UNCHANGED known

StepOnce(c) ==
  /\ MayCall(c, "step")
  /\ status # "running"
  /\ Advance
  /\ UNCHANGED <<status, events, lock, threadVars, callVars, raced>>

\* Mutated: reset() that keeps the old RunningMetrics.
Reset_KeepsMetrics(c) ==
  /\ MayCall(c, "reset")
  /\ status # "running"
  /\ status' = "created"
  /\ tick' = 0
  /\ known' = TRUE
  /\ UNCHANGED <<events, lock, threadVars, callVars, metricTicks, raced>>

\* A fresh Simulation whose world comes from the runtime's own world factory.
Reset(c) ==
  /\ MayCall(c, "reset")
  /\ status # "running"
  /\ status' = "created"
  /\ tick' = 0
  /\ metricTicks' = 0
  /\ known' = TRUE
  /\ UNCHANGED <<events, lock, threadVars, callVars, raced>>

\* The file may come from any simulation: any tick, any movement policy.
LoadCheckpoint(c) ==
  /\ MayCall(c, "load")
  /\ status # "running"
  /\ status' = "paused"
  /\ tick' \in 0 .. MaxTick
  /\ metricTicks' = 0
  /\ known' \in BOOLEAN
  /\ UNCHANGED <<events, lock, threadVars, callVars, raced>>

ShutdownSetStop(c) ==
  /\ "shutdown" \in Ops
  /\ call[c] = "idle"
  /\ stopEvent' = TRUE
  /\ call' = [call EXCEPT ![c] = "clear"]
  /\ UNCHANGED <<status, pauseEvent, lock, threadVars, joining, simVars, raced>>

ShutdownClearPause(c) ==
  /\ call[c] = "clear"
  /\ pauseEvent' = FALSE
  /\ call' = [call EXCEPT ![c] = "read"]
  /\ UNCHANGED <<status, stopEvent, lock, threadVars, joining, simVars, raced>>

ShutdownReadThread(c) ==
  /\ call[c] = "read"
  /\ IF Alive(thread)
       THEN /\ joining' = [joining EXCEPT ![c] = thread]
            /\ call' = [call EXCEPT ![c] = "join"]
       ELSE /\ call' = [call EXCEPT ![c] = "finish"]
            /\ UNCHANGED joining
  /\ UNCHANGED <<status, events, lock, threadVars, simVars, raced>>

\* Mutated: join() without a timeout.
ShutdownJoin_NoTimeout(c) ==
  /\ call[c] = "join"
  /\ ~ Alive(joining[c])
  /\ joining' = [joining EXCEPT ![c] = None]
  /\ call' = [call EXCEPT ![c] = "finish"]
  /\ UNCHANGED <<status, events, lock, threadVars, simVars, raced>>

\* join(timeout=5.0) returns when the thread has ended or after five seconds:
\* a tick may take longer, and a racing start() may keep the loop alive.
ShutdownJoin(c) ==
  /\ call[c] = "join"
  /\ joining' = [joining EXCEPT ![c] = None]
  /\ call' = [call EXCEPT ![c] = "finish"]
  /\ UNCHANGED <<status, events, lock, threadVars, simVars, raced>>

\* Mutated: shutdown() takes the lock and leaves the status to the loop's tail.
ShutdownFinish_KeepsStatus(c) ==
  /\ call[c] = "finish"
  /\ lock = None
  /\ call' = [call EXCEPT ![c] = "idle"]
  /\ UNCHANGED <<status, events, lock, threadVars, joining, simVars, raced>>

ShutdownFinish(c) ==
  /\ call[c] = "finish"
  /\ lock = None
  /\ status' = "stopped"
  /\ call' = [call EXCEPT ![c] = "idle"]
  /\ UNCHANGED <<events, lock, threadVars, joining, simVars, raced>>

-----------------------------------------------------------------------------
(***************************************************************************)
(* The loop thread: _run_loop().                                           *)
(***************************************************************************)
\* Mutated: the stop event is tested only under the lock, not by the while.
LoopTop_IgnoresStop(t) ==
  /\ loop[t] = "top"
  /\ loop' = [loop EXCEPT ![t] = "gate"]
  /\ UNCHANGED <<status, events, lock, thread, callVars, simVars, raced>>

LoopTop(t) ==
  /\ loop[t] = "top"
  /\ loop' = [loop EXCEPT ![t] = IF stopEvent THEN "tail" ELSE "gate"]
  /\ UNCHANGED <<status, events, lock, thread, callVars, simVars, raced>>

\* Mutated: a paused loop that sleeps once and then ticks all the same.
LoopGate_IgnoresPause(t) ==
  /\ loop[t] = "gate"
  /\ loop' = [loop EXCEPT ![t] = "acquire"]
  /\ UNCHANGED <<status, events, lock, thread, callVars, simVars, raced>>

LoopGate(t) ==
  /\ loop[t] = "gate"
  /\ loop' = [loop EXCEPT ![t] = IF pauseEvent THEN "top" ELSE "acquire"]
  /\ UNCHANGED <<status, events, lock, thread, callVars, simVars, raced>>

\* Only the bound MaxTick, not the code, keeps a loop from its next tick.
LoopAcquire(t) ==
  /\ loop[t] = "acquire"
  /\ lock = None
  /\ \/ /\ stopEvent
        /\ loop' = [loop EXCEPT ![t] = "tail"]
        /\ UNCHANGED lock
     \/ /\ ~ stopEvent
        /\ tick < MaxTick
        /\ loop' = [loop EXCEPT ![t] = "tick"]
        /\ lock' = t
  /\ UNCHANGED <<status, events, thread, callVars, simVars, raced>>

LoopAdvance(t) ==
  /\ loop[t] = "tick"
  /\ Advance
  /\ loop' = [loop EXCEPT ![t] = "top"]
  /\ lock' = None
  /\ UNCHANGED <<status, events, thread, callVars, raced>>

\* An exception in step() releases the lock and ends the thread: the tail of
\* _run_loop(), which would set the status, is not reached.
LoopCrash(t) ==
  /\ loop[t] = "tick"
  /\ ~ known
  /\ loop' = [loop EXCEPT ![t] = "dead"]
  /\ lock' = None
  /\ UNCHANGED <<status, events, thread, callVars, simVars, raced>>

LoopTail(t) ==
  /\ loop[t] = "tail"
  /\ lock = None
  /\ status' = IF status = "running" THEN "paused" ELSE status
  /\ loop' = [loop EXCEPT ![t] = "dead"]
  /\ UNCHANGED <<events, lock, thread, callVars, simVars, raced>>

-----------------------------------------------------------------------------
StartCall(c) == StartBegin(c) \/ StartFinish(c)

Shutdown(c) ==
  \/ ShutdownSetStop(c)
  \/ ShutdownClearPause(c)
  \/ ShutdownReadThread(c)
  \/ ShutdownJoin(c)
  \/ ShutdownFinish(c)

Call(c) ==
  \/ StartCall(c)
  \/ Pause(c)
  \/ Resume(c)
  \/ StepOnce(c)
  \/ Reset(c)
  \/ LoadCheckpoint(c)
  \/ Shutdown(c)

Loop(t) ==
  \/ LoopTop(t)
  \/ LoopGate(t)
  \/ LoopAcquire(t)
  \/ LoopAdvance(t)
  \/ LoopCrash(t)
  \/ LoopTail(t)

Next == (\E c \in Callers : Call(c)) \/ (\E t \in Threads : Loop(t))

Spec == Init /\ [][Next]_vars

(***************************************************************************)
(* The operating system keeps running the loop thread and a handler that   *)
(* is inside a call; nobody is obliged to make a call.                     *)
(***************************************************************************)
Fairness ==
  /\ \A t \in Threads : WF_vars(Loop(t))
  /\ \A c \in Callers :
       /\ WF_vars(StartFinish(c))
       /\ WF_vars(ShutdownClearPause(c))
       /\ WF_vars(ShutdownReadThread(c))
       /\ WF_vars(ShutdownJoin(c))
       /\ SF_vars(ShutdownFinish(c))

FairSpec == Spec /\ Fairness

-----------------------------------------------------------------------------
(***************************************************************************)
(* Properties.                                                             *)
(***************************************************************************)
Live(t) == loop[t] # "dead"
LoopIsLive == \E t \in Threads : Live(t)

(***************************************************************************)
(* Every loop thread that has not ended is the one _thread refers to: no   *)
(* interleaving of start(), shutdown() and its join timeout leaves behind  *)
(* a second thread ticking the same simulation, or one that a later        *)
(* shutdown() would not find.                                              *)
(***************************************************************************)
NoOrphanLoop == \A t \in Threads : Live(t) => thread = t

(***************************************************************************)
(* The metrics of a snapshot never count more ticks than the simulation    *)
(* has made: whatever replaces the simulation (reset, load) also clears    *)
(* the running metrics.                                                    *)
(***************************************************************************)
MetricsWithinTick == metricTicks <= tick

\* shutdown() always returns, also when a racing start() clears the stop event
\* and the loop it joins lives on: the join has a timeout.
ShutdownReturns ==
  \A c \in Callers :
    call[c] \in {"clear", "read", "join", "finish"} ~> call[c] = "idle"

\* A set stop event ends the loop, paused or not, unless a start() clears it.
StopEndsLoop == stopEvent ~> (~ stopEvent \/ ~ LoopIsLive)

(***************************************************************************)
(* A RUNNING runtime with a live loop makes its next tick, unless it is    *)
(* told to leave RUNNING or to stop, or its loop ends: no sequence of      *)
(* pauses and resumes leaves the loop parked.                              *)
(***************************************************************************)
RunningLoopTicks ==
  \A k \in 0 .. MaxTick - 1 :
    (status = "running" /\ LoopIsLive /\ tick = k)
      ~> (tick # k \/ status # "running" \/ stopEvent \/ ~ LoopIsLive)

(***************************************************************************)
(* The promise to the clients.  The grace tick is a tick that the loop has *)
(* already passed its pause check for, and that no stop event will cancel. *)
(* The loop of a start() that ran inside a shutdown() may survive it, and  *)
(* has as many as it likes until it ends.                                  *)
(***************************************************************************)
PastPauseCheck(t) == loop[t] = "tick" \/ (loop[t] = "acquire" /\ ~ stopEvent)

Closing == \E c \in Callers : InShutdown(c)

Grace ==
  IF raced /\ LoopIsLive THEN "many"
  ELSE IF status # "running" /\ \E t \in Threads : PastPauseCheck(t) THEN "one"
  ELSE "none"

Contract == INSTANCE RuntimeContract WITH closing <- Closing, grace <- Grace

\* At most one tick that nobody asked for lands after the runtime left RUNNING,
\* unless it was started within a shutdown(); every other change of status and
\* tick is one call's (RuntimeContract).
KeepsContract == Contract!Spec

-----------------------------------------------------------------------------
(***************************************************************************)
(* What the documentation says and the code does not keep.                 *)
(***************************************************************************)
\* runtime.py:154 and 345: the class "advances it independently of any
\* request", and a loaded runtime is "loaded and ready": RUNNING means ticking.
RunningTicks ==
  \A k \in 0 .. MaxTick - 1 :
    (status = "running" /\ tick = k)
      ~> (tick # k \/ status # "running" \/ stopEvent \/ ~ known)

=============================================================================
