---------------------------- MODULE RuntimeProofs -----------------------------
(***************************************************************************)
(* Proofs about SimulationRuntime, for any set of handlers and threads,    *)
(* and about DistributedRuntime, which is built on it, for any kinds of    *)
(* runtime and any bound on the ticks.                                     *)
(***************************************************************************)
EXTENDS DistributedRuntime, TLAPS

-----------------------------------------------------------------------------
(***************************************************************************)
(* The inductive invariant: who owns the lock is inside the critical       *)
(* section it took the lock for, and the thread start() is about to run is *)
(* the one _thread refers to.                                              *)
(***************************************************************************)
LockInv ==
  /\ \A t \in Threads : loop[t] = "tick" <=> lock = t
  /\ \A c \in Callers : call[c] = "start" <=> lock = c
  /\ \A c \in Callers :
       call[c] = "start" => thread \in Threads /\ loop[thread] = "new"
  /\ \A t \in Threads : loop[t] = "new" => lock \in Callers
  /\ \A t \in Threads : loop[t] = "tick" => tick < MaxTick

IInv == TypeOK /\ LockInv /\ NoOrphanLoop /\ MetricsWithinTick

(***************************************************************************)
(* Unless the last start() ran inside a shutdown(), a shutdown() under way *)
(* has the stop event set, and what is to stay parked has an event set.    *)
(***************************************************************************)
ParkInv ==
  /\ lock \in Callers => status = "running"
  /\ ~ raced =>
       /\ Closing => stopEvent
       /\ status # "running" =>
            \A t \in Threads : loop[t] \notin {"dead", "tail"} => pauseEvent \/ stopEvent

-----------------------------------------------------------------------------
LEMMA InitIInv == Init => IInv
<1> SUFFICES ASSUME Init PROVE IInv
  OBVIOUS
<1> USE RuntimeAssumption DEF Init
<1>1. TypeOK
  <2>1. /\ stopEvent \in BOOLEAN /\ pauseEvent \in BOOLEAN
        /\ known \in BOOLEAN /\ raced \in BOOLEAN
    BY Zenon
  <2>2. QED BY <2>1 DEF TypeOK, Status, LoopPC, CallPC
<1>2. LockInv
  BY DEF LockInv
<1>3. NoOrphanLoop /\ MetricsWithinTick
  BY DEF NoOrphanLoop, MetricsWithinTick, Live
<1>4. QED BY <1>1, <1>2, <1>3 DEF IInv

LEMMA NextIInv == IInv /\ [Next]_vars => IInv'
<1> SUFFICES ASSUME IInv, [Next]_vars PROVE IInv'
  OBVIOUS
<1> USE RuntimeAssumption
    DEF IInv, TypeOK, LockInv, NoOrphanLoop, MetricsWithinTick, Live, Alive,
        Status, LoopPC, CallPC, MayCall, events, threadVars, callVars, simVars
<1>1. ASSUME NEW c \in Callers, StartBegin(c) PROVE IInv'
  <2> USE <1>1 DEF StartBegin
  <2>1. PICK t \in Threads :
          /\ loop[t] = "dead"
          /\ thread' = t
          /\ loop' = [loop EXCEPT ![t] = "new"]
    OBVIOUS
  <2>2. \A u \in Threads : loop[u] = "dead"
    OBVIOUS
  <2>3. TypeOK'
    BY <2>1
  <2>4. LockInv'
    BY <2>1, <2>2
  <2>5. (NoOrphanLoop /\ MetricsWithinTick)'
    BY <2>1, <2>2
  <2>6. QED BY <2>3, <2>4, <2>5
<1>2. ASSUME NEW c \in Callers, StartFinish(c) PROVE IInv'
  BY <1>2 DEF StartFinish
<1>3. ASSUME NEW c \in Callers, Pause(c) PROVE IInv'
  BY <1>3 DEF Pause
<1>4. ASSUME NEW c \in Callers, Resume(c) PROVE IInv'
  BY <1>4 DEF Resume
<1>5. ASSUME NEW c \in Callers, StepOnce(c) PROVE IInv'
  BY <1>5 DEF StepOnce, Advance
<1>6. ASSUME NEW c \in Callers, Reset(c) PROVE IInv'
  BY <1>6 DEF Reset
<1>7. ASSUME NEW c \in Callers, LoadCheckpoint(c) PROVE IInv'
  BY <1>7 DEF LoadCheckpoint
<1>8. ASSUME NEW c \in Callers, Shutdown(c) PROVE IInv'
  <2>1. CASE ShutdownSetStop(c)    BY <2>1 DEF ShutdownSetStop
  <2>2. CASE ShutdownClearPause(c) BY <2>2 DEF ShutdownClearPause
  <2>3. CASE ShutdownReadThread(c) BY <2>3 DEF ShutdownReadThread
  <2>4. CASE ShutdownJoin(c)       BY <2>4 DEF ShutdownJoin
  <2>5. CASE ShutdownFinish(c)     BY <2>5 DEF ShutdownFinish
  <2>6. QED BY <1>8, <2>1, <2>2, <2>3, <2>4, <2>5 DEF Shutdown
<1>9. ASSUME NEW t \in Threads, Loop(t) PROVE IInv'
  <2>1. CASE LoopTop(t)     BY <2>1 DEF LoopTop
  <2>2. CASE LoopGate(t)    BY <2>2 DEF LoopGate
  <2>3. CASE LoopAcquire(t) BY <2>3 DEF LoopAcquire
  <2>4. CASE LoopAdvance(t) BY <2>4 DEF LoopAdvance, Advance
  <2>5. CASE LoopCrash(t)   BY <2>5 DEF LoopCrash
  <2>6. CASE LoopTail(t)    BY <2>6 DEF LoopTail
  <2>7. QED BY <1>9, <2>1, <2>2, <2>3, <2>4, <2>5, <2>6 DEF Loop
<1>10. CASE UNCHANGED vars
  BY <1>10 DEF vars
<1>11. QED
  BY <1>1, <1>2, <1>3, <1>4, <1>5, <1>6, <1>7, <1>8, <1>9, <1>10
     DEF Next, Call, StartCall

(***************************************************************************)
(* The runtime never has a live loop thread that _thread does not refer    *)
(* to, whatever the handlers do and however shutdown()'s join times out.   *)
(***************************************************************************)
THEOREM NoOrphanLoopAlways == Spec => []NoOrphanLoop
<1>1. IInv => NoOrphanLoop
  BY DEF IInv
<1>2. QED BY InitIInv, NextIInv, <1>1, PTL DEF Spec

(***************************************************************************)
(* The running metrics never count more ticks than the simulation made.    *)
(***************************************************************************)
THEOREM MetricsWithinTickAlways == Spec => []MetricsWithinTick
<1>1. IInv => MetricsWithinTick
  BY DEF IInv
<1>2. QED BY InitIInv, NextIInv, <1>1, PTL DEF Spec

(***************************************************************************)
(* Every variable keeps its type.                                          *)
(***************************************************************************)
THEOREM TypeOKAlways == Spec => []TypeOK
<1>1. IInv => TypeOK
  BY DEF IInv
<1>2. QED BY InitIInv, NextIInv, <1>1, PTL DEF Spec

-----------------------------------------------------------------------------
LEMMA InitParkInv == Init => ParkInv
BY RuntimeAssumption DEF Init, ParkInv, Closing, InShutdown

LEMMA NextParkInv ==
  ASSUME IInv, ParkInv, [Next]_vars
  PROVE  ParkInv'
<1> USE RuntimeAssumption
    DEF IInv, TypeOK, LockInv, NoOrphanLoop, Live, Alive, ParkInv, Closing, InShutdown, Status,
        LoopPC, CallPC, MayCall, events, threadVars, callVars, simVars
<1>1. ASSUME NEW c \in Callers, StartBegin(c) PROVE ParkInv'
  <2>1. status' = "running" /\ (raced' <=> Closing) /\ (Closing' <=> Closing)
    BY <1>1 DEF StartBegin
  <2>2. QED BY <2>1
<1>2. ASSUME NEW c \in Callers, StartFinish(c) PROVE ParkInv'
  BY <1>2 DEF StartFinish
<1>3. ASSUME NEW c \in Callers, Pause(c) PROVE ParkInv'
  BY <1>3 DEF Pause
<1>4. ASSUME NEW c \in Callers, Resume(c) PROVE ParkInv'
  BY <1>4 DEF Resume
<1>5. ASSUME NEW c \in Callers, StepOnce(c) PROVE ParkInv'
  BY <1>5 DEF StepOnce
<1>6. ASSUME NEW c \in Callers, Reset(c) PROVE ParkInv'
  BY <1>6 DEF Reset
<1>7. ASSUME NEW c \in Callers, LoadCheckpoint(c) PROVE ParkInv'
  BY <1>7 DEF LoadCheckpoint
<1>8. ASSUME NEW c \in Callers, Shutdown(c) PROVE ParkInv'
  <2>1. CASE ShutdownSetStop(c)    BY <2>1 DEF ShutdownSetStop
  <2>2. CASE ShutdownClearPause(c) BY <2>2 DEF ShutdownClearPause
  <2>3. CASE ShutdownReadThread(c) BY <2>3 DEF ShutdownReadThread
  <2>4. CASE ShutdownJoin(c)       BY <2>4 DEF ShutdownJoin
  <2>5. CASE ShutdownFinish(c)     BY <2>5 DEF ShutdownFinish
  <2>6. QED BY <1>8, <2>1, <2>2, <2>3, <2>4, <2>5 DEF Shutdown
<1>9. ASSUME NEW t \in Threads, Loop(t) PROVE ParkInv'
  <2>1. CASE LoopTop(t)     BY <2>1 DEF LoopTop
  <2>2. CASE LoopGate(t)    BY <2>2 DEF LoopGate
  <2>3. CASE LoopAcquire(t) BY <2>3 DEF LoopAcquire
  <2>4. CASE LoopAdvance(t) BY <2>4 DEF LoopAdvance
  <2>5. CASE LoopCrash(t)   BY <2>5 DEF LoopCrash
  <2>6. CASE LoopTail(t)    BY <2>6 DEF LoopTail
  <2>7. QED BY <1>9, <2>1, <2>2, <2>3, <2>4, <2>5, <2>6 DEF Loop
<1>10. CASE UNCHANGED vars
  BY <1>10 DEF vars
<1>11. QED
  BY <1>1, <1>2, <1>3, <1>4, <1>5, <1>6, <1>7, <1>8, <1>9, <1>10
     DEF Next, Call, StartCall

(***************************************************************************)
(* Each step of the runtime is a step of the contract or changes nothing   *)
(* that the contract can see.                                              *)
(***************************************************************************)
LEMMA StepKeepsContract ==
  ASSUME IInv, IInv', ParkInv, ParkInv', [Next]_vars
  PROVE  [Contract!Next]_(Contract!vars)
<1> DEFINE Goal == [Contract!Next]_(Contract!vars)
<1> USE RuntimeAssumption
    DEF IInv, TypeOK, LockInv, NoOrphanLoop, Live, LoopIsLive, Alive, ParkInv, Closing, InShutdown,
        Grace, Status, LoopPC, CallPC, MayCall, PastPauseCheck, events, threadVars, callVars,
        simVars, Contract!Next, Contract!vars, Contract!Running, Contract!GrantGrace
<1>1. ASSUME NEW c \in Callers, StartBegin(c) PROVE Goal
  BY <1>1 DEF StartBegin, Contract!Start
<1>2. ASSUME NEW c \in Callers, StartFinish(c) PROVE Goal
  BY <1>2 DEF StartFinish
<1>3. ASSUME NEW c \in Callers, Pause(c) PROVE Goal
  BY <1>3 DEF Pause, Contract!Leave
<1>4. ASSUME NEW c \in Callers, Resume(c) PROVE Goal
  BY <1>4 DEF Resume, Contract!Resume
<1>5. ASSUME NEW c \in Callers, StepOnce(c) PROVE Goal
  BY <1>5 DEF StepOnce, Advance, Contract!Step
<1>6. ASSUME NEW c \in Callers, Reset(c) PROVE Goal
  BY <1>6 DEF Reset, Contract!Reset
<1>7. ASSUME NEW c \in Callers, LoadCheckpoint(c) PROVE Goal
  BY <1>7 DEF LoadCheckpoint, Contract!Load
<1>8. ASSUME NEW c \in Callers, Shutdown(c) PROVE Goal
  <2>1. CASE ShutdownSetStop(c)
    BY <2>1 DEF ShutdownSetStop, Contract!BeginStop
  <2>2. CASE ShutdownClearPause(c) BY <2>2 DEF ShutdownClearPause
  <2>3. CASE ShutdownReadThread(c) BY <2>3 DEF ShutdownReadThread
  <2>4. CASE ShutdownJoin(c)       BY <2>4 DEF ShutdownJoin
  <2>5. CASE ShutdownFinish(c)
    BY <2>5 DEF ShutdownFinish, Contract!Stop
  <2>6. QED BY <1>8, <2>1, <2>2, <2>3, <2>4, <2>5 DEF Shutdown
<1>9. ASSUME NEW t \in Threads, Loop(t) PROVE Goal
  <2>1. CASE LoopTop(t)     BY <2>1 DEF LoopTop
  <2>2. CASE LoopGate(t)    BY <2>2 DEF LoopGate
  <2>3. CASE LoopAcquire(t) BY <2>3 DEF LoopAcquire
  <2>4. CASE LoopAdvance(t)
    BY <2>4 DEF LoopAdvance, Advance, Contract!Tick, Contract!LateTick
  <2>5. CASE LoopCrash(t)
    BY <2>5 DEF LoopCrash, Contract!ForgoLateTick
  <2>6. CASE LoopTail(t)
    BY <2>6 DEF LoopTail, Contract!Leave, Contract!ForgoLateTick
  <2>7. QED BY <1>9, <2>1, <2>2, <2>3, <2>4, <2>5, <2>6 DEF Loop
<1>10. CASE UNCHANGED vars
  BY <1>10 DEF vars
<1>11. QED
  BY <1>1, <1>2, <1>3, <1>4, <1>5, <1>6, <1>7, <1>8, <1>9, <1>10
     DEF Next, Call, StartCall

(***************************************************************************)
(* The runtime implements its contract, whatever the handlers do beside    *)
(* each other: at most one tick that nobody asked for after it left        *)
(* RUNNING, unless the loop was started within a shutdown().               *)
(***************************************************************************)
THEOREM ImplementsContract == Spec => KeepsContract
<1>1. Init => Contract!Init
  BY RuntimeAssumption
     DEF Init, Contract!Init, Grace, Closing, InShutdown, PastPauseCheck, LoopIsLive, Live
<1>2. IInv /\ ParkInv /\ [Next]_vars => ParkInv'
  BY NextParkInv
<1>3. IInv /\ IInv' /\ ParkInv /\ ParkInv' /\ [Next]_vars
        => [Contract!Next]_(Contract!vars)
  BY StepKeepsContract
<1>4. QED
  BY <1>1, <1>2, <1>3, InitIInv, NextIInv, InitParkInv, PTL
     DEF Spec, KeepsContract, Contract!Spec

-----------------------------------------------------------------------------
(***************************************************************************)
(* Both kinds of runtime.                                                  *)
(***************************************************************************)
\* What the pool and the history may be.
PoolTypeOK ==
  /\ kind \in KindNames
  /\ executor \in {"none", "live", "broken"}
  /\ pools \in Nat
  /\ used \in BOOLEAN
  /\ died \in BOOLEAN

PoolInv == PoolTypeOK /\ NoAbandonedPool

RInv == IInv /\ PoolInv

-----------------------------------------------------------------------------
LEMMA InitRInv == RuntimeInit => RInv
<1> SUFFICES ASSUME RuntimeInit PROVE RInv
  OBVIOUS
<1>1. IInv
  BY InitIInv DEF RuntimeInit
<1>2. PoolInv
  BY KindsAssumption DEF RuntimeInit, PoolInv, PoolTypeOK, NoAbandonedPool
<1>3. QED BY <1>1, <1>2 DEF RInv

\* Every step is one of the plain runtime's, or a loop whose tick raises.
LEMMA StepOfRuntime ==
  RuntimeNext => [Next]_vars \/ \E t \in Threads : RuntimeLoopRaises(t)
<1> SUFFICES ASSUME RuntimeNext
             PROVE  [Next]_vars \/ \E t \in Threads : RuntimeLoopRaises(t)
  OBVIOUS
<1>1. ASSUME NEW c \in Callers, RuntimeCall(c) PROVE [Next]_vars
  BY <1>1 DEF RuntimeCall, RuntimeStart, RuntimeStep, RuntimeStepRaises, RuntimeReset, RuntimeLoad,
              RuntimeShutdownFinish, Next, Call, StartCall, Shutdown
<1>2. ASSUME NEW t \in Threads, RuntimeLoop(t)
      PROVE  Loop(t) \/ RuntimeLoopRaises(t)
  BY <1>2 DEF RuntimeLoop, RuntimeLoopAcquire, RuntimeLoopAdvance, RuntimeLoopCrash, Loop
<1>3. QED BY <1>1, <1>2 DEF RuntimeNext, Next

LEMMA LoopRaisesIInv ==
  ASSUME IInv, NEW t \in Threads, RuntimeLoopRaises(t)
  PROVE  IInv'
BY RuntimeAssumption
   DEF RuntimeLoopRaises, IInv, TypeOK, LockInv, NoOrphanLoop, MetricsWithinTick, Live, Status,
       LoopPC, CallPC, events, callVars, simVars

\* What each step does to the pool: nothing, one more tick, or a release.
LEMMA PoolStep ==
  ASSUME RuntimeNext
  PROVE  /\ kind' = kind
         /\ \/ UNCHANGED <<executor, pools>>
            \/ \E after \in {"live", "broken"} : EnsureExecutor(after)
            \/ ReleaseExecutor
<1>1. ASSUME NEW c \in Callers, RuntimeCall(c)
      PROVE  /\ kind' = kind
             /\ \/ UNCHANGED <<executor, pools>>
                \/ \E after \in {"live", "broken"} : EnsureExecutor(after)
                \/ ReleaseExecutor
  BY <1>1 DEF RuntimeCall, RuntimeStart, RuntimeStep, RuntimeStepRaises, RuntimeReset, RuntimeLoad,
              RuntimeShutdownFinish, StepCommits, StepRaises, poolVars
<1>2. ASSUME NEW t \in Threads, RuntimeLoop(t)
      PROVE  /\ kind' = kind
             /\ \/ UNCHANGED <<executor, pools>>
                \/ \E after \in {"live", "broken"} : EnsureExecutor(after)
  BY <1>2 DEF RuntimeLoop, RuntimeLoopAcquire, RuntimeLoopAdvance, RuntimeLoopRaises,
              RuntimeLoopCrash, StepCommits, StepRaises, poolVars
<1>3. QED BY <1>1, <1>2 DEF RuntimeNext

LEMMA NextRInv == RInv /\ [RuntimeNext]_runtimeVars => RInv'
<1> SUFFICES ASSUME RInv, [RuntimeNext]_runtimeVars PROVE RInv'
  OBVIOUS
<1>1. CASE RuntimeNext
  <2>1. IInv'
    BY <1>1, StepOfRuntime, NextIInv, LoopRaisesIInv DEF RInv
  <2>2. /\ kind' \in KindNames /\ executor' \in {"none", "live", "broken"}
        /\ pools' = IF executor' = "none" THEN 0 ELSE 1
    BY <1>1, PoolStep DEF RInv, PoolInv, PoolTypeOK, NoAbandonedPool, EnsureExecutor,
                          ReleaseExecutor
  <2>3. used' \in BOOLEAN /\ died' \in BOOLEAN
    <3>1. ASSUME NEW c \in Callers, RuntimeCall(c) PROVE used' \in BOOLEAN /\ died' \in BOOLEAN
      BY <3>1, Zenon DEF RInv, PoolInv, PoolTypeOK, RuntimeCall, RuntimeStart, RuntimeStep,
                  RuntimeStepRaises, RuntimeReset, RuntimeLoad, RuntimeShutdownFinish, historyVars
    <3>2. ASSUME NEW t \in Threads, RuntimeLoop(t) PROVE used' \in BOOLEAN /\ died' \in BOOLEAN
      BY <3>2, Zenon DEF RInv, PoolInv, PoolTypeOK, RuntimeLoop, RuntimeLoopAcquire,
                  RuntimeLoopAdvance, RuntimeLoopRaises, RuntimeLoopCrash, historyVars
    <3>3. QED BY <1>1, <3>1, <3>2 DEF RuntimeNext
  <2>4. QED BY <2>1, <2>2, <2>3 DEF RInv, PoolInv, PoolTypeOK, NoAbandonedPool
<1>2. CASE UNCHANGED runtimeVars
  <2>1. UNCHANGED vars
    BY <1>2 DEF runtimeVars
  <2>2. PoolInv'
    BY <1>2 DEF RInv, PoolInv, PoolTypeOK, NoAbandonedPool, runtimeVars, poolVars, historyVars
  <2>3. QED BY <2>1, <2>2, NextIInv DEF RInv
<1>3. QED BY <1>1, <1>2

LEMMA RInvAlways == RuntimeSpec => []RInv
BY InitRInv, NextRInv, PTL DEF RuntimeSpec

\* Through any resets, failed ticks and shutdowns, and with any number of
\* handlers, no process pool runs that the coordinator does not hold.
THEOREM NoAbandonedPoolAlways == RuntimeSpec => []NoAbandonedPool
<1>1. RInv => NoAbandonedPool
  BY DEF RInv, PoolInv
<1>2. QED BY <1>1, RInvAlways, PTL

\* A runtime whose ticks may raise still has no loop thread that _thread does not
\* refer to.
THEOREM NoOrphanLoopOfAnyKind == RuntimeSpec => []NoOrphanLoop
<1>1. RInv => NoOrphanLoop
  BY DEF RInv, IInv
<1>2. QED BY <1>1, RInvAlways, PTL

LEMMA LoopRaisesKeepsContract ==
  ASSUME IInv, ParkInv, NEW t \in Threads, RuntimeLoopRaises(t)
  PROVE  ParkInv' /\ [Contract!Next]_(Contract!vars)
<1> USE RuntimeAssumption
    DEF RuntimeLoopRaises, IInv, TypeOK, LockInv, NoOrphanLoop, Live, LoopIsLive, ParkInv, Closing,
        InShutdown, Grace, Status, LoopPC, CallPC, PastPauseCheck, events, callVars, simVars
<1>1. ParkInv'
  OBVIOUS
<1>2. [Contract!Next]_(Contract!vars)
  BY DEF Contract!Next, Contract!vars, Contract!ForgoLateTick
<1>3. QED BY <1>1, <1>2

\* A runtime whose ticks may raise keeps its contract too.
THEOREM ImplementsContractOfAnyKind == RuntimeSpec => KeepsContract
<1>1. RuntimeInit => Contract!Init /\ ParkInv
  BY InitParkInv, RuntimeAssumption
     DEF RuntimeInit, Init, Contract!Init, Grace, Closing, InShutdown, PastPauseCheck, LoopIsLive,
         Live
<1>2. RInv /\ RInv' /\ ParkInv /\ [RuntimeNext]_runtimeVars
        => ParkInv' /\ [Contract!Next]_(Contract!vars)
  <2> SUFFICES ASSUME RInv, RInv', ParkInv, [RuntimeNext]_runtimeVars
               PROVE  ParkInv' /\ [Contract!Next]_(Contract!vars)
    OBVIOUS
  <2>1. CASE [Next]_vars
    BY <2>1, NextParkInv, StepKeepsContract DEF RInv
  <2>2. ASSUME NEW t \in Threads, RuntimeLoopRaises(t)
        PROVE  ParkInv' /\ [Contract!Next]_(Contract!vars)
    BY <2>2, LoopRaisesKeepsContract DEF RInv
  <2>3. QED BY <2>1, <2>2, StepOfRuntime DEF runtimeVars
<1>3. QED
  BY <1>1, <1>2, RInvAlways, PTL DEF RuntimeSpec, KeepsContract, Contract!Spec

-----------------------------------------------------------------------------
(***************************************************************************)
(* The pool of a stopped runtime.  Once no shutdown() is under way, a stop *)
(* event that stands keeps every loop from its next tick.                  *)
(***************************************************************************)
StopInv ==
  status = "stopped" /\ stopEvent /\ ~ Closing /\ ~ used =>
    executor = "none" /\ \A t \in Threads : loop[t] # "tick"

LEMMA NextStopInv ==
  ASSUME RInv, StopInv, [RuntimeNext]_runtimeVars
  PROVE  StopInv'
<1> USE RuntimeAssumption
    DEF RInv, IInv, TypeOK, LockInv, StopInv, Closing, InShutdown, MayCall
<1>1. ASSUME NEW c \in Callers, RuntimeCall(c) PROVE StopInv'
  <2>1. CASE RuntimeStart(c)
    BY <2>1 DEF RuntimeStart, StartBegin, poolVars
  <2>2. CASE RuntimeStep(c)
    BY <2>2 DEF RuntimeStep, StepOnce, events, threadVars, callVars
  <2>3. CASE RuntimeStepRaises(c)
    BY <2>3 DEF RuntimeStepRaises, vars, events, threadVars, callVars
  <2>4. CASE RuntimeReset(c)
    BY <2>4 DEF RuntimeReset, Reset, events, threadVars, callVars
  <2>5. CASE RuntimeLoad(c)
    BY <2>5 DEF RuntimeLoad, LoadCheckpoint, events, threadVars, callVars
  <2>6. CASE RuntimeShutdownFinish(c)
    BY <2>6 DEF RuntimeShutdownFinish, ShutdownFinish, ReleaseExecutor, events, threadVars
  <2>7. ASSUME StartFinish(c), UNCHANGED <<poolVars, historyVars>> PROVE StopInv'
    BY <2>7 DEF StartFinish, events, poolVars, historyVars
  <2>8. ASSUME Pause(c) \/ Resume(c), UNCHANGED <<poolVars, historyVars>> PROVE StopInv'
    BY <2>8 DEF Pause, Resume, threadVars, callVars, poolVars, historyVars
  <2>9. ASSUME \/ ShutdownSetStop(c) \/ ShutdownClearPause(c)
               \/ ShutdownReadThread(c) \/ ShutdownJoin(c),
               UNCHANGED <<poolVars, historyVars>>
        PROVE  StopInv'
    BY <2>9 DEF ShutdownSetStop, ShutdownClearPause, ShutdownReadThread, ShutdownJoin, events,
                threadVars, poolVars, historyVars
  <2>10. QED
    BY <1>1, <2>1, <2>2, <2>3, <2>4, <2>5, <2>6, <2>7, <2>8, <2>9 DEF RuntimeCall
<1>2. ASSUME NEW t \in Threads, RuntimeLoop(t) PROVE StopInv'
  <2>1. CASE RuntimeLoopAcquire(t)
    BY <2>1 DEF RuntimeLoopAcquire, LoopAcquire, events, callVars, poolVars, historyVars
  <2>2. CASE RuntimeLoopAdvance(t)
    BY <2>2 DEF RuntimeLoopAdvance, LoopAdvance, events, callVars, historyVars
  <2>3. CASE RuntimeLoopRaises(t)
    BY <2>3 DEF RuntimeLoopRaises, events, callVars
  <2>4. CASE RuntimeLoopCrash(t)
    BY <2>4 DEF RuntimeLoopCrash, LoopCrash, events, callVars, poolVars
  <2>5. ASSUME LoopTop(t) \/ LoopGate(t) \/ LoopTail(t), UNCHANGED <<poolVars, historyVars>>
        PROVE  StopInv'
    BY <2>5 DEF LoopTop, LoopGate, LoopTail, events, callVars, poolVars, historyVars
  <2>6. QED BY <1>2, <2>1, <2>2, <2>3, <2>4, <2>5 DEF RuntimeLoop
<1>3. CASE UNCHANGED runtimeVars
  BY <1>3 DEF runtimeVars, vars, events, threadVars, callVars, poolVars, historyVars
<1>4. QED BY <1>1, <1>2, <1>3 DEF RuntimeNext

\* No tick brings a process pool back after a shutdown(), not even one of a loop
\* that its join left behind, for any number of handlers.
THEOREM ReleasedWhenStoppedAlways == RuntimeSpec => []ReleasedWhenStopped
<1>1. RuntimeInit => StopInv
  BY DEF RuntimeInit, Init, StopInv
<1>2. RInv /\ StopInv /\ [RuntimeNext]_runtimeVars => StopInv'
  BY NextStopInv
<1>3. StopInv => ReleasedWhenStopped
  BY DEF StopInv, ReleasedWhenStopped
<1>4. QED BY <1>1, <1>2, <1>3, RInvAlways, PTL DEF RuntimeSpec

-----------------------------------------------------------------------------
(***************************************************************************)
(* What a distributed runtime, which is never loaded, owes its loop: it is *)
(* told to stop only by a shutdown(), and only then does it end, or by     *)
(* an exception.                                                           *)
(***************************************************************************)
Owes == died \/ LoopIsLive

LoopInv ==
  /\ \A t \in Threads : loop[t] = "tail" => stopEvent
  /\ Distributed /\ status \in {"running", "paused"} /\ ~ Closing => ~ stopEvent /\ Owes

LEMMA NextLoopInv ==
  ASSUME RInv, LoopInv, [RuntimeNext]_runtimeVars
  PROVE  LoopInv'
<1> USE RuntimeAssumption
    DEF RInv, IInv, TypeOK, LockInv, NoOrphanLoop, LoopInv, Owes, LoopIsLive, Live, Closing,
        InShutdown, MayCall,
        Distributed
<1>1. ASSUME NEW c \in Callers, RuntimeCall(c) PROVE LoopInv'
  <2>1. CASE RuntimeStart(c)
    <3>1. PICK t \in Threads : loop[t] = "dead" /\ loop' = [loop EXCEPT ![t] = "new"]
      BY <2>1 DEF RuntimeStart, StartBegin
    <3>2. /\ \A u \in Threads : loop[u] \in {"dead", "new"}
          /\ stopEvent' = FALSE /\ status' = "running" /\ kind' = kind
      BY <2>1 DEF RuntimeStart, StartBegin, Alive, poolVars
    <3>3. loop'[t] = "new" /\ \A u \in Threads : loop'[u] # "tail"
      BY <3>1, <3>2
    <3>4. QED BY <3>2, <3>3
  <2>2. CASE RuntimeStep(c)
    BY <2>2 DEF RuntimeStep, StepOnce, events, threadVars, callVars
  <2>3. CASE RuntimeStepRaises(c)
    BY <2>3 DEF RuntimeStepRaises, vars, events, threadVars, callVars
  <2>4. CASE RuntimeReset(c)
    BY <2>4 DEF RuntimeReset, Reset, events, threadVars, callVars, historyVars
  <2>5. CASE RuntimeLoad(c)
    BY <2>5 DEF RuntimeLoad, LoadCheckpoint, events, threadVars, callVars, poolVars, historyVars
  <2>6. CASE RuntimeShutdownFinish(c)
    BY <2>6 DEF RuntimeShutdownFinish, ShutdownFinish, events, threadVars
  <2>7. ASSUME StartFinish(c), UNCHANGED <<poolVars, historyVars>> PROVE LoopInv'
    BY <2>7 DEF StartFinish, events, poolVars, historyVars
  <2>8. ASSUME Pause(c) \/ Resume(c), UNCHANGED <<poolVars, historyVars>> PROVE LoopInv'
    BY <2>8 DEF Pause, Resume, threadVars, callVars, poolVars, historyVars
  <2>9. ASSUME \/ ShutdownSetStop(c) \/ ShutdownClearPause(c)
               \/ ShutdownReadThread(c) \/ ShutdownJoin(c),
               UNCHANGED <<poolVars, historyVars>>
        PROVE  LoopInv'
    BY <2>9 DEF ShutdownSetStop, ShutdownClearPause, ShutdownReadThread, ShutdownJoin, events,
                threadVars, poolVars, historyVars
  <2>10. QED
    BY <1>1, <2>1, <2>2, <2>3, <2>4, <2>5, <2>6, <2>7, <2>8, <2>9 DEF RuntimeCall
<1>2. ASSUME NEW t \in Threads, RuntimeLoop(t) PROVE LoopInv'
  <2>1. CASE RuntimeLoopAcquire(t)
    BY <2>1 DEF RuntimeLoopAcquire, LoopAcquire, events, callVars, poolVars, historyVars
  <2>2. CASE RuntimeLoopAdvance(t)
    BY <2>2 DEF RuntimeLoopAdvance, LoopAdvance, events, callVars, historyVars
  <2>3. CASE RuntimeLoopRaises(t)
    BY <2>3 DEF RuntimeLoopRaises, events, callVars
  <2>4. CASE RuntimeLoopCrash(t)
    BY <2>4 DEF RuntimeLoopCrash, LoopCrash, events, callVars, poolVars
  <2>5. ASSUME LoopTop(t) \/ LoopGate(t) \/ LoopTail(t), UNCHANGED <<poolVars, historyVars>>
        PROVE  LoopInv'
    BY <2>5 DEF LoopTop, LoopGate, LoopTail, events, callVars, poolVars, historyVars
  <2>6. QED BY <1>2, <2>1, <2>2, <2>3, <2>4, <2>5 DEF RuntimeLoop
<1>3. CASE UNCHANGED runtimeVars
  BY <1>3 DEF runtimeVars, vars, events, threadVars, callVars, poolVars, historyVars
<1>4. QED BY <1>1, <1>2, <1>3 DEF RuntimeNext

\* A distributed runtime that says RUNNING, with no shutdown() under way, has a
\* loop thread, unless a tick raised in it, for any number of handlers.
THEOREM RunningHasLoopAlways == RuntimeSpec => []RunningHasLoop
<1>1. RuntimeInit => LoopInv
  BY DEF RuntimeInit, Init, LoopInv
<1>2. RInv /\ LoopInv /\ [RuntimeNext]_runtimeVars => LoopInv'
  BY NextLoopInv
<1>3. LoopInv => RunningHasLoop
  BY DEF LoopInv, RunningHasLoop, Owes
<1>4. QED BY <1>1, <1>2, <1>3, RInvAlways, PTL DEF RuntimeSpec

=============================================================================
