----------------------------- MODULE Simulation ------------------------------
(***************************************************************************)
(* The single-process simulation (simulation.py): one step() is movement,  *)
(* boundary, spatial hash, detection and resolution, in place on one       *)
(* world.  A policy that needs a context gets the predictions made on a    *)
(* spatial hash of its own, built before the movement.                     *)
(***************************************************************************)
EXTENDS Movement

CONSTANTS
  Places,    \* the positions drones may start from
  Speeds,    \* the velocities they may start with
  Modes,     \* boundary modes
  MaxTick    \* bound on the clock (the code has none)

ASSUME SimulationAssumption ==
  /\ Places \subseteq 0 .. BoundsMax
  /\ Speeds \subseteq - MaxSpeed .. MaxSpeed
  /\ Modes \subseteq {"reflect", "clamp"}
  /\ MaxTick \in Nat

VARIABLES
  clock,     \* clock.tick
  mode,      \* config.boundary_mode
  policy,    \* state.movement_policy_ids, the same for all
  goal,      \* state.goal_positions
  pos,       \* state.positions
  vel,       \* state.velocities
  detected,  \* the positions the last detection saw
  result     \* the last DetectionResult

vars == <<clock, mode, policy, goal, pos, vel, detected, result>>

NoResult == [collisions |-> <<>>, nearMisses |-> <<>>]

\* _default_goal_positions(): the start, mirrored in the centre of the world.
DefaultGoals(x) == [i \in Drones |-> BoundsMax - x[i]]

Init ==
  /\ clock = 0
  /\ mode \in Modes
  /\ policy \in Policies
  /\ pos \in [Drones -> Places]
  /\ vel \in [Drones -> Speeds]
  /\ goal = DefaultGoals(pos)
  /\ detected = pos
  /\ result = NoResult

\* Every drone, in the order of state.active_indices().
AllDrones == [k \in 1 .. NumDrones |-> k - 1]

\* The predictions of a tick, made only for a policy with requires_context.
Context(s) ==
  IF policy = "local_avoidance" THEN Predict(CandidatePairs(AllDrones, s.pos), s) ELSE <<>>

\* SimulationEngine.step()
EngineStep(s) ==
  LET moved == Bound(Move(s, policy, goal, Context(s)), mode)
      found == Detect(AllDrones, moved.pos)
      final == Resolve(moved, found.collisions)
  IN  [pos |-> final.pos, vel |-> final.vel, detected |-> moved.pos, result |-> found]

Now == [pos |-> pos, vel |-> vel]

Step ==
  /\ clock < MaxTick
  /\ LET next == EngineStep(Now)
     IN  /\ pos' = next.pos
         /\ vel' = next.vel
         /\ detected' = next.detected
         /\ result' = next.result
  /\ clock' = clock + 1
  /\ UNCHANGED <<mode, policy, goal>>

Spec == Init /\ [][Step]_vars

-----------------------------------------------------------------------------
(***************************************************************************)
(* Properties.                                                             *)
(***************************************************************************)
TypeOK ==
  /\ clock \in 0 .. MaxTick
  /\ mode \in Modes
  /\ policy \in Policies
  /\ goal \in [Drones -> 0 .. BoundsMax]
  /\ pos \in [Drones -> Int]
  /\ vel \in [Drones -> Int]
  /\ detected \in [Drones -> 0 .. BoundsMax]
  /\ \A kind \in {"collisions", "nearMisses"} : result[kind] \in Seq(Drones \X Drones)

\* The pairs are those of the brute-force detector, and none is there twice.
ExactlyOnce(found, x) ==
  \A kind \in {"collisions", "nearMisses"} :
    /\ ToSet(found[kind]) = BruteForce(x)[kind]
    /\ IsInjective(found[kind])

\* spatial_hash.py:177-181 and config.py:39-42: the spatial hash misses no
\* interacting pair, whatever cells it spans, and reports none twice.
DetectsExactly == clock > 0 => ExactlyOnce(result, detected)

Square(n) == n * n
Energy(v) == MapThenSumSet(LAMBDA i : Square(v[i]), Drones)

\* collisions.py:171 and boundaries.py:42-46: collisions are elastic for any
\* pile of simultaneous collisions, a reflecting wall keeps the energy the
\* policy has given the drones and a clamping one never adds to it.
EnergyBalance ==
  [][LET steered == Energy(Steer(Now, policy, goal, Context(Now)).vel)
     IN  clock' > clock =>
           IF mode = "reflect" THEN Energy(vel') = steered ELSE Energy(vel') <= steered]_vars

\* collisions.py:172-173: a collision of two drones that no other collision
\* touches leaves them at least the contact distance apart, but for the unit
\* that halving an odd overlap loses.
SeparatesLonePairs ==
  \A k, l \in DOMAIN result.collisions :
    LET p == result.collisions[k]
    IN  (\A m \in DOMAIN result.collisions \ {k} :
           {p[1], p[2]} \cap ToSet(result.collisions[m]) = {})
          => Distance(pos, p[1], p[2]) >= CollisionRadius - 1

\* Neither its policy nor a wall made the drone leave its course in this step.
KeptCourse(i) == detected'[i] = pos[i] + vel[i]

\* trajectory.py:1-9 and 28-34: of two drones the hash lists as candidates and
\* that keep their course, a contact at the next tick has been predicted, and
\* as no less than it is.  (The hash lists neighbours only: faster drones from
\* farther away come unpredicted.)
PredictsContacts ==
  [][clock' > clock =>
       \A pair \in ToSet(CandidatePairs(AllDrones, pos)) :
         LET distance == Distance(detected', pair[1], pair[2])
             risk     == Prediction(pair, Now).risk
         IN  KeptCourse(pair[1]) /\ KeptCourse(pair[2])
               => /\ distance <= CollisionRadius => risk = "predicted_collision"
                  /\ distance <= NearMissRadius
                       => risk \in {"predicted_collision", "predicted_near_miss"}]_vars

\* movement.py:222-229: a drone that avoids leaves its goal-directed course only
\* when one of its pairs is at risk, never for one that is just near in time;
\* and of two drones that have only each other to avoid, each is corrected as
\* much as the other and the opposite way (movement.py:318-328).
SwervesFromThreats ==
  policy = "local_avoidance" =>
    LET predictions == Context(Now)
        rows(i) == Rows(i, predictions)
        by(i)   == Correction(i, MostUrgent(rows(i)), Now)
    IN  /\ \A i \in Drones :
             LocalAvoidance(i, Now, goal, predictions) # GoalDirected(pos[i], vel[i], goal[i])
               => \E k \in DOMAIN rows(i) :
                    rows(i)[k].risk \in {"predicted_collision", "predicted_near_miss"}
        /\ \A k \in DOMAIN predictions :
             LET p == predictions[k].pair
             IN  Len(rows(p[1])) = 1 /\ Len(rows(p[2])) = 1 => by(p[1]) = - by(p[2])

=============================================================================
