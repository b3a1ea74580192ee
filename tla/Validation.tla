------------------------------ MODULE Validation ------------------------------
(***************************************************************************)
(* CollisionRateValidator.compare() (validation.py): the world of one      *)
(* scenario is run under one policy after the other, each time from a      *)
(* copy, and each run's collisions, near misses and arrivals are counted   *)
(* as it goes.  The averages and rates of the report are quotients of      *)
(* these counts; they and the speeds are left out.                         *)
(***************************************************************************)
EXTENDS Simulation

CONSTANT Comparison     \* the policies, in the order they are compared

ASSUME ComparisonAssumption == Comparison \in Seq(Policies) /\ Comparison # <<>>

VARIABLES
  world,          \* scenario.world
  collisions,     \* collision_tracker
  nearMisses,     \* near_miss_tracker
  everCollided,   \* ever_collided
  minSeparation,  \* min_separation
  arrivalTick,    \* arrival_tick
  reports,        \* the metrics of the policies compared so far
  seen            \* history: the positions each tick detected in, and left

counts == <<collisions, nearMisses, everCollided, minSeparation, arrivalTick>>
validatorVars == <<vars, world, counts, reports, seen>>

-----------------------------------------------------------------------------

\* Mutant: a pair that has been seen once is never a new event again.
RecordTick_NeverForgets(tracker, pairs) ==
  [previous     |-> tracker.previous \union pairs,
   pairTicks    |-> tracker.pairTicks + Cardinality(pairs),
   uniqueEvents |-> tracker.uniqueEvents + Cardinality(pairs \ tracker.previous)]

\* CollisionEventAccumulator.record_tick()
RecordTick(tracker, pairs) ==
  [previous     |-> pairs,
   pairTicks    |-> tracker.pairTicks + Cardinality(pairs),
   uniqueEvents |-> tracker.uniqueEvents + Cardinality(pairs \ tracker.previous)]

NoEvents == [previous |-> {}, pairTicks |-> 0, uniqueEvents |-> 0]

\* More than any distance the detector reports: float("inf").
Infinity == NearMissRadius + 1

ValidatorInit ==
  /\ Init
  /\ policy = Comparison[1]
  /\ world = Now
  /\ collisions = NoEvents /\ nearMisses = NoEvents
  /\ everCollided = {}
  /\ minSeparation = Infinity
  /\ arrivalTick = [i \in Drones |-> -1]
  /\ reports = <<>>
  /\ seen = <<>>

\* The smallest distance of the ones found, and of those before.
Smallest(x, found, sofar) ==
  Min({sofar} \union {Distance(x, p[1], p[2]) :
                        p \in ToSet(found.collisions) \union ToSet(found.nearMisses)})

AtGoal(x, i) == Magnitude(goal[i] - x[i]) <= GoalTolerance

\* What run_policy() takes down of a tick.
Observe ==
  /\ collisions' = RecordTick(collisions, ToSet(result'.collisions))
  /\ nearMisses' = RecordTick(nearMisses, ToSet(result'.nearMisses))
  /\ everCollided' = everCollided \union ToSet(result'.collisions)
  /\ minSeparation' = Smallest(detected', result', minSeparation)
  /\ arrivalTick' = [i \in Drones |-> IF arrivalTick[i] < 0 /\ AtGoal(pos', i)
                                        THEN clock ELSE arrivalTick[i]]
  /\ seen' = Append(seen, [detected |-> detected', pos |-> pos'])

\* Mutant: the run works on the scenario's own arrays.
RunTick_Aliased ==
  /\ Step
  /\ Observe
  /\ world' = [pos |-> pos', vel |-> vel']
  /\ UNCHANGED reports

\* One tick of run_policy().
RunTick == Step /\ Observe /\ UNCHANGED <<world, reports>>

\* PolicyRunMetrics: the counts, how many drones arrived, how many stand still.
Report ==
  [pairTicks    |-> collisions.pairTicks,
   uniqueEvents |-> collisions.uniqueEvents,
   nearEvents   |-> nearMisses.uniqueEvents,
   collided     |-> everCollided,
   separation   |-> minSeparation,
   arrivalTick  |-> arrivalTick,
   stationary   |-> Cardinality({i \in Drones : vel[i] = 0})]

\* The run has done num_ticks; compare() starts the next policy's on a copy of
\* the world, in a new Simulation, with new trackers.
NextRun ==
  /\ clock = MaxTick
  /\ Len(reports) + 1 < Len(Comparison)
  /\ reports' = Append(reports, Report)
  /\ policy' = Comparison[Len(reports) + 2]
  /\ clock' = 0
  /\ pos' = world.pos
  /\ vel' = world.vel
  /\ detected' = world.pos
  /\ result' = NoResult
  /\ collisions' = NoEvents /\ nearMisses' = NoEvents
  /\ everCollided' = {}
  /\ minSeparation' = Infinity
  /\ arrivalTick' = [i \in Drones |-> -1]
  /\ seen' = <<>>
  /\ UNCHANGED <<mode, goal, world>>

\* The last policy's run is over.
LastRun ==
  /\ clock = MaxTick
  /\ Len(reports) + 1 = Len(Comparison)
  /\ reports' = Append(reports, Report)
  /\ UNCHANGED <<vars, world, counts, seen>>

ValidatorNext == RunTick \/ NextRun \/ LastRun
ValidatorSpec == ValidatorInit /\ [][ValidatorNext]_validatorVars

-----------------------------------------------------------------------------
(***************************************************************************)
(* Properties.                                                             *)
(***************************************************************************)

\* validation.py:116-128 and 158-160: no run leaks into a later one.  A policy
\* compared twice, with other policies in between, gets the same report.
ReportsRepeatable ==
  \A q, r \in DOMAIN reports : Comparison[q] = Comparison[r] => reports[q] = reports[r]

\* The pair was lo + 1 .. hi apart when tick t detected.
InBand(p, t, lo, hi) ==
  /\ t \in DOMAIN seen
  /\ Distance(seen[t].detected, p[1], p[2]) > lo
  /\ Distance(seen[t].detected, p[1], p[2]) <= hi

\* The incidents of a run: a pair, with the first and the last of consecutive
\* ticks it was in the band, from entering it to leaving it.
Incidents(lo, hi) ==
  LET pairs == {p \in Drones \X Drones : p[1] < p[2]}
  IN  {e \in pairs \X (DOMAIN seen) \X (DOMAIN seen) :
         /\ e[2] <= e[3]
         /\ \A t \in e[2] .. e[3] : InBand(e[1], t, lo, hi)
         /\ ~ InBand(e[1], e[2] - 1, lo, hi)
         /\ ~ InBand(e[1], e[3] + 1, lo, hi)}

Duration(incidents) == MapThenSumSet(LAMBDA e : e[3] - e[2] + 1, incidents)

\* validation.py:9-20: the unique events are the incidents of the run and the
\* pair-ticks their total duration, for collisions and near misses alike; the
\* pairs that ever collided, and the first tick each drone was at its goal, are
\* those of the run (the first tick is number 0).
ReportMatchesRun ==
  LET hits   == Incidents(-1, CollisionRadius)
      misses == Incidents(CollisionRadius, NearMissRadius)
      met(i) == {t \in DOMAIN seen : AtGoal(seen[t].pos, i)}
  IN  /\ collisions.uniqueEvents = Cardinality(hits)
      /\ collisions.pairTicks = Duration(hits)
      /\ nearMisses.uniqueEvents = Cardinality(misses)
      /\ nearMisses.pairTicks = Duration(misses)
      /\ everCollided = {e[1] : e \in hits}
      /\ \A i \in Drones :
           arrivalTick[i] = IF met(i) = {} THEN -1 ELSE Min(met(i)) - 1

=============================================================================
