-------------------------- MODULE CoordinatorProofs --------------------------
(***************************************************************************)
(* Proofs about Coordinator for every number of workers and partitions,    *)
(* retry limit, executor and load: type correctness, atomic ticks, and     *)
(* that the partitions stay with healthy workers.                          *)
(***************************************************************************)
EXTENDS Coordinator, DataLemmas

\* The world's partitions are at the clock's tick, and when the detection
\* batch runs the staging copy is one tick ahead.  BeginTick's bound on the
\* clock holds until the step() ends.
TickInv ==
  /\ world = [p \in Partitions |-> clock]
  /\ phase # "idle" => clock < MaxTick
  /\ phase = "detection" => staged = [p \in Partitions |-> clock + 1]

\* RetriesCostWorkers is inductive only with AssignedToHealthy: a job that
\* fails must fail on a worker that was not FAILED already.
IInv == TypeOK /\ TickInv /\ AssignedToHealthy /\ RetriesCostWorkers

-----------------------------------------------------------------------------
\* The FAILED workers are finitely many, and one more when w fails.
LEMMA FailedFinite == ASSUME CoordinatorAssumption
                      PROVE  IsFiniteSet(Failed) /\ Cardinality(Failed) \in Nat
<1>1. IsFiniteSet(Workers)
  BY FS_Interval DEF Workers, CoordinatorAssumption
<1> QED BY <1>1, FS_Subset, FS_CardinalityType DEF Failed

LEMMA FailedGrows ==
  ASSUME CoordinatorAssumption, TypeOK, NEW w \in Workers, health[w] # "failed",
         health' = [health EXCEPT ![w] = "failed"]
  PROVE  Cardinality(Failed') = Cardinality(Failed) + 1
<1>1. Failed' = Failed \cup {w}
  BY DEF Failed, TypeOK
<1>2. w \notin Failed
  BY DEF Failed
<1> QED BY <1>1, <1>2, FailedFinite, FS_AddElement

-----------------------------------------------------------------------------
LEMMA InitIInv == ASSUME CoordinatorAssumption PROVE Init => IInv
<1> SUFFICES ASSUME Init PROVE IInv
  OBVIOUS
<1>1. [p \in Partitions |-> p % NumWorkers] \in [Partitions -> Workers]
  BY DEF CoordinatorAssumption, Partitions, Workers
<1>2. TypeOK
  <2>1. exhausted \in BOOLEAN /\ poolBroken \in BOOLEAN
    BY Zenon DEF Init
  <2> QED BY <1>1, <2>1 DEF Init, TypeOK, Outcomes, CoordinatorAssumption
<1>3. TickInv
  BY DEF Init, TickInv
<1>4. AssignedToHealthy
  BY <1>1 DEF Init, AssignedToHealthy
<1>5. RetriesCostWorkers
  BY DEF Init, RetriesCostWorkers
<1> QED BY <1>2, <1>3, <1>4, <1>5 DEF IInv

\* A failed job keeps the invariant: the partitions of the failed worker go to
\* healthy ones, and a retry is paid for with a worker that was not FAILED.
LEMMA HandleFailureIInv ==
  ASSUME CoordinatorAssumption, IInv, NEW p \in Partitions, phase # "idle",
         HandleFailure(assign[p])
  PROVE  IInv'
<1> DEFINE w == assign[p]
           healthy == Healthy \ {w}
<1> USE DEF IInv
<1>w. w \in Workers
  BY DEF TypeOK
<1>0. /\ health' = [health EXCEPT ![w] = "failed"]
      /\ done' = {}
      /\ UNCHANGED <<mode, clock, world, staged, load, poolBroken>>
  BY DEF HandleFailure
<1>1. TypeOK' /\ AssignedToHealthy'
  <2>1. CASE healthy = {}
    <3>1. phase' = "idle" /\ outcome' = "all_failed" /\ exhausted' = TRUE
          /\ UNCHANGED <<assign, attempt>>
      BY <2>1 DEF HandleFailure
    <3>2. exhausted' \in BOOLEAN /\ poolBroken' \in BOOLEAN
      BY <3>1, <1>0, Zenon DEF TypeOK
    <3> QED BY <1>0, <1>w, <3>1, <3>2 DEF TypeOK, AssignedToHealthy, Outcomes
  <2>2. CASE healthy # {}
    <3>1. /\ assign' \in [Partitions -> Workers]
          /\ Reassigned(w, healthy, assign')
          /\ UNCHANGED exhausted
      BY <2>2 DEF HandleFailure
    <3>2. /\ attempt' \in 0 .. RetryLimit
          /\ phase' \in {"idle", "movement"}
          /\ outcome' \in Outcomes
      BY <2>2 DEF HandleFailure, TypeOK, Outcomes, CoordinatorAssumption
    <3>3. exhausted' \in BOOLEAN /\ poolBroken' \in BOOLEAN
      BY <3>1, <1>0, Zenon DEF TypeOK
    <3>4. TypeOK'
      BY <1>0, <1>w, <3>1, <3>2, <3>3 DEF TypeOK
    <3>5. ASSUME NEW q \in Partitions, ~ exhausted
          PROVE  health'[assign'[q]] # "failed"
      <4>1. CASE assign[q] = w
        <5>1. assign'[q] \in healthy
          BY <3>1, <4>1 DEF Reassigned
        <5> QED BY <5>1, <1>0 DEF Healthy, TypeOK
      <4>2. CASE assign[q] # w
        <5>1. assign'[q] = assign[q]
          BY <3>1, <4>2 DEF Reassigned
        <5>2. health[assign[q]] # "failed"
          BY <3>5 DEF AssignedToHealthy
        <5> QED BY <4>2, <5>1, <5>2, <1>0 DEF TypeOK
      <4> QED BY <4>1, <4>2
    <3> QED BY <3>1, <3>4, <3>5 DEF AssignedToHealthy
  <2> QED BY <2>1, <2>2
<1>2. TickInv'
  <2>1. phase' \in {"idle", "movement"}
    BY DEF HandleFailure
  <2> QED BY <1>0, <2>1 DEF TickInv
<1>3. RetriesCostWorkers'
  <2> SUFFICES ASSUME phase' # "idle", ~ exhausted'
               PROVE  attempt' <= 1 + Cardinality(Failed')
    BY DEF RetriesCostWorkers
  <2>1. healthy # {} /\ attempt' = attempt + 1 /\ exhausted' = exhausted
    BY DEF HandleFailure
  <2>2. health[w] # "failed"
    BY <2>1 DEF AssignedToHealthy
  <2>3. attempt <= 1 + Cardinality(Failed)
    BY <2>1 DEF RetriesCostWorkers
  <2>4. Cardinality(Failed') = Cardinality(Failed) + 1
    BY <1>0, <1>w, <2>2, FailedGrows
  <2> QED BY <2>1, <2>3, <2>4, FailedFinite DEF TypeOK
<1> QED BY <1>1, <1>2, <1>3

LEMMA NextIInv == ASSUME CoordinatorAssumption PROVE IInv /\ [Next]_vars => IInv'
<1> SUFFICES ASSUME IInv, [Next]_vars PROVE IInv'
  OBVIOUS
<1> USE DEF IInv
<1>b. ASSUME UNCHANGED <<exhausted, poolBroken>>
      PROVE  exhausted' \in BOOLEAN /\ poolBroken' \in BOOLEAN
  BY <1>b, Zenon DEF TypeOK
<1>1. CASE BeginTick
  <2>1. TypeOK'
    BY <1>1, <1>b DEF BeginTick, TypeOK, poolVars, CoordinatorAssumption
  <2>2. TickInv'
    BY <1>1 DEF BeginTick, TickInv
  <2>3. AssignedToHealthy'
    BY <1>1 DEF BeginTick, AssignedToHealthy, poolVars
  <2>4. Failed' = Failed
    BY <1>1 DEF BeginTick, poolVars, Failed
  <2>5. RetriesCostWorkers'
    BY <1>1, <2>4, FailedFinite DEF BeginTick, RetriesCostWorkers
  <2> QED BY <2>1, <2>2, <2>3, <2>5
<1>2. ASSUME NEW p \in Partitions, JobDone(p)
      PROVE  IInv'
  <2> USE <1>2 DEF JobDone, Runnable, poolVars
  <2>1. TypeOK'
    BY <1>b DEF TypeOK
  <2>f. Failed' = Failed
    BY DEF Failed
  <2> QED BY <2>1, <2>f DEF TickInv, AssignedToHealthy, RetriesCostWorkers
<1>3. ASSUME NEW p \in Partitions, JobFails(p)
      PROVE  IInv'
  BY <1>3, HandleFailureIInv DEF JobFails, Runnable
<1>4. ASSUME NEW p \in Partitions, ChildRaises(p)
      PROVE  IInv'
  <2> USE <1>4 DEF ChildRaises
  <2>1. exhausted' \in BOOLEAN /\ poolBroken' \in BOOLEAN
    BY Zenon DEF TypeOK
  <2>2. TypeOK'
    BY <2>1 DEF TypeOK, Outcomes
  <2> QED BY <2>2 DEF TickInv, AssignedToHealthy, RetriesCostWorkers
<1>5. CASE MovementDone
  <2> USE <1>5 DEF MovementDone, poolVars
  <2>1. staged' = [p \in Partitions |-> clock + 1]
    BY DEF TickInv
  <2>2. staged' \in [Partitions -> 0 .. MaxTick + 1]
    BY <2>1 DEF TypeOK, CoordinatorAssumption
  <2>3. TypeOK'
    BY <1>b, <2>2 DEF TypeOK
  <2>f. Failed' = Failed
    BY DEF Failed
  <2> QED BY <2>1, <2>3, <2>f DEF TickInv, AssignedToHealthy, RetriesCostWorkers
<1>6. CASE Commit
  <2> USE <1>6 DEF Commit
  <2>1. /\ world' = [p \in Partitions |-> clock']
        /\ clock' \in 0 .. MaxTick
    BY DEF TickInv, TypeOK, CoordinatorAssumption
  <2>2. load' \in [Partitions -> Nat]
    BY DEF CoordinatorAssumption
  <2>3. /\ assign' \in [Partitions -> Workers]
        /\ \A p \in Partitions : assign'[p] = assign[p] \/ assign'[p] \in Healthy
    BY DEF Rebalance, TypeOK, Healthy
  <2>4. TypeOK'
    BY <1>b, <2>1, <2>2, <2>3 DEF TypeOK, Outcomes
  <2>5. AssignedToHealthy'
    BY <2>3 DEF AssignedToHealthy, Healthy
  <2> QED BY <2>1, <2>4, <2>5 DEF TickInv, RetriesCostWorkers
<1>7. ASSUME NEW w \in Workers, RecoverWorker(w)
      PROVE  IInv'
  <2> USE <1>7 DEF RecoverWorker, stepVars
  <2>1. TypeOK'
    BY <1>b DEF TypeOK
  <2> QED BY <2>1 DEF TypeOK, TickInv, AssignedToHealthy, RetriesCostWorkers
<1>8. CASE Shutdown
  <2> USE <1>8 DEF Shutdown, stepVars
  <2>1. exhausted' \in BOOLEAN /\ poolBroken' \in BOOLEAN
    BY Zenon DEF TypeOK
  <2>2. TypeOK'
    BY <2>1 DEF TypeOK
  <2> QED BY <2>2 DEF TickInv, AssignedToHealthy, RetriesCostWorkers
<1>9. CASE UNCHANGED vars
  <2> USE <1>9 DEF vars, stepVars, poolVars
  <2>1. TypeOK'
    BY <1>b DEF TypeOK
  <2>f. Failed' = Failed
    BY DEF Failed
  <2> QED BY <2>1, <2>f DEF TickInv, AssignedToHealthy, RetriesCostWorkers
<1> QED BY <1>1, <1>2, <1>3, <1>4, <1>5, <1>6, <1>7, <1>8, <1>9 DEF Next, StepProgress

LEMMA SpecIInv == ASSUME CoordinatorAssumption PROVE Spec => []IInv
BY InitIInv, NextIInv, PTL DEF Spec

-----------------------------------------------------------------------------
\* Type correctness of the coordinator's state (coordinator.py:160-212).
THEOREM TypeOKAlways == Spec => []TypeOK
BY CoordinatorAssumption, SpecIInv, PTL DEF IInv

\* However jobs fail and workers recover or are rebalanced, no partition is
\* assigned to a FAILED worker until every worker was FAILED (coordinator.py:477-543).
THEOREM AssignedToHealthyAlways == Spec => []AssignedToHealthy
BY CoordinatorAssumption, SpecIInv, PTL DEF IInv

\* A step() makes at most one attempt more than there are FAILED workers
\* (coordinator.py:288-297).
THEOREM RetriesCostWorkersAlways == Spec => []RetriesCostWorkers
BY CoordinatorAssumption, SpecIInv, PTL DEF IInv

\* The coordinator implements the atomic tick: every partition advances once
\* with the clock, or none does (coordinator.py:296-305).
THEOREM ImplementsAtomicTick == Spec => KeepsAtomicTick
<1>1. Init => Atomic!Init
  BY DEF Init, Atomic!Init
<1>2. IInv /\ [Next]_vars => [Atomic!Step]_<<clock, world>>
  <2> SUFFICES ASSUME IInv, [Next]_vars PROVE [Atomic!Step]_<<clock, world>>
    OBVIOUS
  <2>1. CASE Commit
    BY <2>1 DEF Commit, IInv, TickInv, Atomic!Step
  <2>2. CASE ~ Commit
    BY <2>2 DEF Next, vars, BeginTick, StepProgress, JobDone, JobFails, HandleFailure,
       ChildRaises, MovementDone, RecoverWorker, Shutdown
  <2> QED BY <2>1, <2>2
<1> QED BY <1>1, <1>2, CoordinatorAssumption, SpecIInv, PTL DEF Spec, KeepsAtomicTick, Atomic!Spec

-----------------------------------------------------------------------------
(***************************************************************************)
(* Rebalancing.  The busiest worker is above the mean, as the threshold is *)
(* more than one; then the idlest, which is not above any other, is below. *)
(***************************************************************************)
\* The healthy workers' loads as a function, whose sum is the total load.
HealthyLoads(stats) == [w \in Healthy |-> WorkerLoad(stats, w)]

LEMMA HealthyFinite ==
  Healthy \subseteq Workers /\ IsFiniteSet(Healthy) /\ Cardinality(Healthy) \in Nat
<1>1. IsFiniteSet(Workers)
  BY FS_Interval, CoordinatorAssumption DEF Workers
<1>2. Healthy \in SUBSET Workers
  BY DEF Healthy
<1> QED BY <1>1, <1>2, FS_Subset, FS_CardinalityType

LEMMA LoadsAreTotals ==
  ASSUME NEW stats \in [Partitions -> Nat]
  PROVE  /\ \A w : WorkerLoad(stats, w) \in Int
         /\ TotalLoad(stats) = Total(HealthyLoads(stats), Healthy)
         /\ TotalLoad(stats) \in Int
<1>1. ASSUME NEW w PROVE WorkerLoad(stats, w) \in Int
  <2> DEFINE own == {p \in Partitions : assign[p] = w}
  <2>1. IsFiniteSet(Partitions) /\ own \in SUBSET Partitions
    BY FS_Interval, CoordinatorAssumption DEF Partitions
  <2>2. IsFiniteSet(own) /\ \A p \in own : stats[p] \in Int
    BY <2>1, FS_Subset
  <2>3. WorkerLoad(stats, w) = Total(stats, own)
    BY DEF WorkerLoad, Total
  <2> HIDE DEF own
  <2> QED BY <2>2, <2>3, TotalRemove
<1>2. TotalLoad(stats) = Total(HealthyLoads(stats), Healthy)
  BY DEF TotalLoad, Total, MapThenSumSet, MapThenFoldSet, HealthyLoads
<1>3. \A w \in Healthy : HealthyLoads(stats)[w] \in Int
  BY <1>1 DEF HealthyLoads
<1> QED BY <1>1, <1>2, <1>3, HealthyFinite, TotalRemove

\* The busiest of two different workers that are imbalanced is above the mean
\* load, the idlest below it.
LEMMA MeanBetween ==
  ASSUME NEW stats \in [Partitions -> Nat], TotalLoad(stats) # 0,
         NEW b \in Healthy, NEW i \in Healthy,
         Busiest(stats, b), Idlest(stats, i), Imbalanced(stats, b)
  PROVE  /\ WorkerLoad(stats, b) * Cardinality(Healthy) > TotalLoad(stats)
         /\ WorkerLoad(stats, i) * Cardinality(Healthy) < TotalLoad(stats)
<1> DEFINE n == Cardinality(Healthy)
           t == TotalLoad(stats)
           high == WorkerLoad(stats, b)
           low == WorkerLoad(stats, i)
           f == HealthyLoads(stats)
<1>1. /\ n \in Nat /\ t \in Int /\ high \in Int /\ low \in Int
      /\ IsFiniteSet(Healthy) /\ t = Total(f, Healthy) /\ t # 0
      /\ \A w \in Healthy : f[w] = WorkerLoad(stats, w) /\ f[w] \in Int
  BY HealthyFinite, LoadsAreTotals DEF HealthyLoads
<1>2. \A w \in Healthy : low <= f[w]
  BY <1>1 DEF Idlest
<1>3. f[b] = high /\ low <= high
  BY <1>1, <1>2
<1>4. 0 <= t
  <2>1. ASSUME NEW w \in Healthy PROVE 0 <= f[w]
    <3> DEFINE own == {p \in Partitions : assign[p] = w}
    <3>1. IsFiniteSet(Partitions) /\ own \in SUBSET Partitions
      BY FS_Interval, CoordinatorAssumption DEF Partitions
    <3>2. IsFiniteSet(own) /\ \A p \in own : stats[p] \in Nat
      BY <3>1, FS_Subset
    <3>3. WorkerLoad(stats, w) = Total(stats, own)
      BY DEF WorkerLoad, Total
    <3> HIDE DEF own, f
    <3>4. Total(stats, own) \in Nat
      BY <3>2, TotalNatural
    <3> QED BY <1>1, <3>3, <3>4
  <2> HIDE DEF f, t, n
  <2>2. \A w \in Healthy : f[w] \in Nat
    BY <1>1, <2>1
  <2>3. Total(f, Healthy) \in Nat
    BY <1>1, <2>2, TotalNatural
  <2> QED BY <1>1, <2>3
<1>5. high * n * ThresholdDen >= ThresholdNum * t
  BY DEF Imbalanced
<1> HIDE DEF n, t, high, low, f
<1>6. high * n > t
  <2> DEFINE a == high * n
  <2>1. a \in Int
    BY <1>1
  <2>2. a * ThresholdDen >= ThresholdNum * t
    BY <1>5
  <2> HIDE DEF a
  <2>3. ASSUME a <= t PROVE FALSE
    <3> USE CoordinatorAssumption DEF CoordinatorAssumption
    <3>1. a * ThresholdDen <= t * ThresholdDen
      BY <1>1, <2>1, <2>3
    <3>2. ThresholdNum * t >= (ThresholdDen + 1) * t
      BY <1>1, <1>4
    <3>3. (ThresholdDen + 1) * t = t * ThresholdDen + t
      BY <1>1
    <3>4. /\ a * ThresholdDen \in Int /\ t * ThresholdDen \in Int
          /\ ThresholdNum * t \in Int /\ (ThresholdDen + 1) * t \in Int
      BY <1>1, <2>1
    <3> QED BY <1>1, <1>4, <2>1, <2>2, <3>1, <3>2, <3>3, <3>4
  <2> QED BY <1>1, <2>1, <2>3 DEF a
<1>7. low < high
  <2>1. ASSUME low = high PROVE FALSE
    <3>1. low * Cardinality(Healthy) <= Total(f, Healthy)
      BY <1>1, <1>2, TotalAbove
    <3>2. low * n <= t
      BY <1>1, <3>1 DEF n
    <3>3. high * n <= t /\ high * n \in Int
      BY <1>1, <2>1, <3>2
    <3> QED BY <1>1, <1>6, <3>3
  <2> QED BY <1>1, <1>3, <2>1
<1>8. low * Cardinality(Healthy) < Total(f, Healthy)
  BY <1>1, <1>2, <1>3, <1>7, TotalStrictlyAbove
<1> QED BY <1>1, <1>6, <1>8 DEF n, t, high, low

\* Rebalancing moves one partition at most, from above the mean to below it.
LEMMA RebalanceMoves ==
  ASSUME IInv, Commit, NEW p \in Partitions, assign'[p] # assign[p]
  PROVE  /\ {assign[p], assign'[p]} \subseteq Healthy
         /\ WorkerLoad(load', assign[p]) * Cardinality(Healthy) > TotalLoad(load')
         /\ WorkerLoad(load', assign'[p]) * Cardinality(Healthy) < TotalLoad(load')
         /\ \A q \in Partitions : assign'[q] # assign[q] => q = p
<1>1. PICK stats \in [Partitions -> Nat] : stats = load'
  BY CoordinatorAssumption DEF Commit, CoordinatorAssumption
<1>2. Rebalance(stats)
  BY <1>1 DEF Commit
<1>3. /\ TotalLoad(stats) # 0
      /\ \E b, i \in Healthy :
           /\ Busiest(stats, b) /\ Idlest(stats, i) /\ b # i /\ Imbalanced(stats, b)
           /\ \E r \in Partitions : Heaviest(stats, b, r) /\ assign' = [assign EXCEPT ![r] = i]
  BY <1>2 DEF Rebalance
<1>4. PICK b \in Healthy, i \in Healthy, r \in Partitions :
        /\ Busiest(stats, b) /\ Idlest(stats, i) /\ Imbalanced(stats, b)
        /\ Heaviest(stats, b, r) /\ assign' = [assign EXCEPT ![r] = i]
  BY <1>3
<1>5. assign[r] = b
  BY <1>4 DEF Heaviest
<1>6. /\ p = r /\ assign'[p] = i /\ assign[p] = b
      /\ \A q \in Partitions : assign'[q] # assign[q] => q = p
  BY <1>4, <1>5 DEF IInv, TypeOK
<1>7. /\ WorkerLoad(stats, b) * Cardinality(Healthy) > TotalLoad(stats)
      /\ WorkerLoad(stats, i) * Cardinality(Healthy) < TotalLoad(stats)
  BY <1>3, <1>4, MeanBetween
<1> QED BY <1>1, <1>6, <1>7

\* A committed tick moves at most one partition, from a healthy worker above the
\* mean load to a healthy worker below it, for every threshold above one
\* (coordinator.py:502-543).
THEOREM RebalanceNarrowsGapAlways == Spec => RebalanceNarrowsGap
<1>1. ASSUME IInv, [Next]_vars, clock' # clock, NEW p \in Partitions, assign'[p] # assign[p]
      PROVE  /\ {assign[p], assign'[p]} \subseteq Healthy
             /\ WorkerLoad(load', assign[p]) * Cardinality(Healthy) > TotalLoad(load')
             /\ WorkerLoad(load', assign'[p]) * Cardinality(Healthy) < TotalLoad(load')
             /\ \A q \in Partitions : assign'[q] # assign[q] => q = p
  <2>1. Commit
    BY <1>1 DEF Next, vars, BeginTick, StepProgress, JobDone, JobFails, HandleFailure,
       ChildRaises, MovementDone, RecoverWorker, Shutdown
  <2> QED BY <1>1, <2>1, RebalanceMoves
<1> DEFINE Narrows ==
      clock' # clock =>
       \A p \in Partitions : assign'[p] # assign[p] =>
         /\ {assign[p], assign'[p]} \subseteq Healthy
         /\ WorkerLoad(load', assign[p]) * Cardinality(Healthy) > TotalLoad(load')
         /\ WorkerLoad(load', assign'[p]) * Cardinality(Healthy) < TotalLoad(load')
         /\ \A q \in Partitions : assign'[q] # assign[q] => q = p
<1>2. IInv /\ [Next]_vars => [Narrows]_vars
  BY <1>1
<1> QED BY <1>2, CoordinatorAssumption, SpecIInv, PTL DEF Spec, RebalanceNarrowsGap

=============================================================================
