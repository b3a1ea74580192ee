------------------------------ MODULE Movement -------------------------------
(***************************************************************************)
(* The movement policies (movement.py), and the trajectory prediction they *)
(* may be given (trajectory.py), for drones on a line and dt = 1.  Every   *)
(* vector is then a signed number.  A state is a record of the positions   *)
(* and the velocities.  The random policy is not modelled: the others      *)
(* start from any velocity.                                                *)
(***************************************************************************)
EXTENDS Kernel

CONSTANTS
  MaxSpeed,
  MaxAccel,
  MaxAvoidAccel,       \* effective_avoidance_max_accel
  AvoidanceStrength,
  GoalTolerance,
  Horizon              \* prediction_horizon, in ticks

ASSUME MovementAssumption ==
  /\ MaxSpeed \in Nat
  /\ MaxAccel \in Nat \ {0}
  /\ MaxAvoidAccel \in Nat \ {0}
  /\ AvoidanceStrength \in Nat
  /\ GoalTolerance \in Nat
  /\ Horizon \in Nat \ {0}

Policies == {"scripted", "goal_directed", "local_avoidance"}

Magnitude(n) == IF n < 0 THEN - n ELSE n
Direction(n) == IF n < 0 THEN -1 ELSE IF n > 0 THEN 1 ELSE 0
Capped(n, most) == Clip(n, - most, most)

-----------------------------------------------------------------------------
(***************************************************************************)
(* Prediction.                                                             *)
(***************************************************************************)

\* Mutant: the sign of the time to the closest approach is lost.
Prediction_Receding(pair, s) ==
  LET gap     == s.pos[pair[2]] - s.pos[pair[1]]
      closing == s.vel[pair[2]] - s.vel[pair[1]]
      closes  == gap * closing > 0
      meets   == closes /\ Magnitude(gap) <= Horizon * Magnitude(closing)
      separation == IF meets THEN 0
                    ELSE IF closes THEN Magnitude(gap + closing * Horizon) ELSE Magnitude(gap)
  IN  [pair |-> pair,
       time |-> IF meets THEN <<Magnitude(gap), Magnitude(closing)>>
                ELSE IF closes THEN <<Horizon, 1>> ELSE <<0, 1>>,
       separation |-> separation,
       risk |-> IF separation <= CollisionRadius THEN "predicted_collision"
                ELSE IF separation <= NearMissRadius THEN "predicted_near_miss"
                ELSE IF meets THEN "currently_safe" ELSE "not_closing"]

(***************************************************************************)
(* predict(), for one pair.  The time to the closest approach is a         *)
(* fraction <<n, d>>, cut off at the horizon; two drones on a line that    *)
(* approach meet at distance 0 unless the horizon comes first.  A distance *)
(* inside a risk band outweighs that the pair does not close.              *)
(***************************************************************************)
Prediction(pair, s) ==
  LET gap     == s.pos[pair[2]] - s.pos[pair[1]]
      closing == s.vel[pair[2]] - s.vel[pair[1]]
      closes  == gap * closing < 0
      meets   == closes /\ Magnitude(gap) <= Horizon * Magnitude(closing)
      separation == IF meets THEN 0
                    ELSE IF closes THEN Magnitude(gap + closing * Horizon) ELSE Magnitude(gap)
  IN  [pair |-> pair,
       time |-> IF meets THEN <<Magnitude(gap), Magnitude(closing)>>
                ELSE IF closes THEN <<Horizon, 1>> ELSE <<0, 1>>,
       separation |-> separation,
       risk |-> IF separation <= CollisionRadius THEN "predicted_collision"
                ELSE IF separation <= NearMissRadius THEN "predicted_near_miss"
                ELSE IF meets THEN "currently_safe" ELSE "not_closing"]

Predict(pairs, s) == AsList([k \in DOMAIN pairs |-> Prediction(pairs[k], s)])

\* The predictions drone i is part of, in the order of the doubled rows of
\* NeighborFeatureBuilder.build(): as the first of the pair, then as the second.
Rows(i, predictions) ==
  LET as(m) == [k \in DOMAIN predictions |-> predictions[k].pair[m] = i]
  IN  Masked(predictions, as(1)) \o Masked(predictions, as(2))

\* The first of the rows with the smallest predicted separation.
MostUrgent(rows) ==
  rows[CHOOSE k \in DOMAIN rows : \A l \in DOMAIN rows :
         \/ rows[k].separation < rows[l].separation
         \/ rows[k].separation = rows[l].separation /\ k <= l]

\* rel_pos of a row: from drone i towards the other one.
Towards(i, row, s) ==
  LET gap == s.pos[row.pair[2]] - s.pos[row.pair[1]]
  IN  IF i = row.pair[1] THEN gap ELSE - gap

-----------------------------------------------------------------------------
(***************************************************************************)
(* The policies: the velocity of one drone.                                *)
(***************************************************************************)
ApplyAccelAndSpeedLimits(current, desired) ==
  Capped(current + Capped(desired - current, MaxAccel), MaxSpeed)

GoalDirected(x, v, goal) ==
  IF Magnitude(goal - x) <= GoalTolerance
    THEN 0
    ELSE ApplyAccelAndSpeedLimits(v, Capped(goal - x, MaxSpeed))

\* Mutant: how soon counts, however far the drones pass each other.
Correction_TimeOnly(i, row, s) ==
  LET d      == Horizon * row.time[2]
      length == (AvoidanceStrength * MaxAvoidAccel * (2 * d - row.time[1])) \div (2 * d)
  IN  Capped(- Direction(Towards(i, row, s)) * length, MaxAvoidAccel)

(***************************************************************************)
(* Away from the threat of the row, the more the closer (dist_urgency) and *)
(* the sooner (time_urgency) they pass.  Rounded down to a unit.           *)
(***************************************************************************)
Correction(i, row, s) ==
  LET d       == Horizon * row.time[2]
      nearer  == Clip(NearMissRadius - row.separation, 0, NearMissRadius)
      length  == (AvoidanceStrength * MaxAvoidAccel * nearer * (2 * d - row.time[1]))
                   \div (2 * d * NearMissRadius)
  IN  Capped(- Direction(Towards(i, row, s)) * length, MaxAvoidAccel)

\* The goal-directed velocity, corrected if there is anybody around.
LocalAvoidance(i, s, goal, predictions) ==
  LET goalward == GoalDirected(s.pos[i], s.vel[i], goal[i])
      rows     == Rows(i, predictions)
  IN  IF rows = <<>> THEN goalward
      ELSE Capped(goalward + Correction(i, MostUrgent(rows), s), MaxSpeed)

\* The velocities the policy gives to the drones of its batch, idx.
UpdateVelocities(idx, s, policy, goal, predictions) ==
  [i \in idx |->
     CASE policy = "scripted"        -> s.vel[i]
       [] policy = "goal_directed"   -> GoalDirected(s.pos[i], s.vel[i], goal[i])
       [] policy = "local_avoidance" -> LocalAvoidance(i, s, goal, predictions)]

\* MovementSystem.step(), its first half: every drone is in one batch, and the
\* predictions were made on the positions before the movement, once for all.
Steer(s, policy, goal, predictions) ==
  [s EXCEPT !.vel = Written(@, UpdateVelocities(Drones, s, policy, goal, predictions))]

\* MovementSystem.step()
Move(s, policy, goal, predictions) == Integrate(Steer(s, policy, goal, predictions))

=============================================================================
