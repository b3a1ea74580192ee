------------------------ MODULE PartitionedSimulation ------------------------
(***************************************************************************)
(* One successful step() of the distributed coordinator, with the drones   *)
(* (coordinator.py, partition.py, worker.py): X-axis slabs, owners taken   *)
(* from the positions before the movement, ghosts from the positions after *)
(* it, detection per partition, and the merge that keeps a pair from the   *)
(* lower of its owners only.  Failures, retries and workers are in         *)
(* Coordinator: what a partition computes depends on neither.              *)
(***************************************************************************)
EXTENDS Simulation

CONSTANTS
  NumPartitions,
  Halo           \* halo_distance

ASSUME PartitionAssumption ==
  /\ NumPartitions \in Nat \ {0}
  /\ Halo \in Nat /\ Halo >= NearMissRadius

Partitions == 0 .. NumPartitions - 1

VARIABLE owner   \* the owners the last step() worked with

partitionedVars == <<vars, owner>>

\* PartitionGrid.owner_of(): slab p is [edge(p), edge(p+1)), the last is closed.
\* Edge p is at p * BoundsMax / NumPartitions; both sides are multiplied out.
OwnerOf(x) ==
  Clip((Clip(x, 0, BoundsMax) * NumPartitions) \div BoundsMax, 0, NumPartitions - 1)

\* Mutant: a partition gets no ghosts from its right.
Neighbors_LeftOnly(p) == {p - 1} \cap Partitions

Neighbors(p) == {p - 1, p + 1} \cap Partitions

\* The drones of S in the order of their ids.
Ordered(S) == Arranged(S, Increasing(S))

\* ghost_export_indices(): the drones partition q owns that are near, or
\* beyond, the edge it shares with its neighbour p.
GhostExports(x, own, q, p) ==
  {i \in Drones :
     /\ own[i] = q
     /\ IF p < q
          THEN x[i] * NumPartitions <= q * BoundsMax + Halo * NumPartitions
          ELSE x[i] * NumPartitions >= p * BoundsMax - Halo * NumPartitions}

\* The drones of a partition's detection job: those it owns, then the ghosts of
\* its left and of its right neighbour.
LocalDrones(x, own, p) ==
  LET ghosts(q) == IF q \in Neighbors(p) THEN Ordered(GhostExports(x, own, q, p)) ELSE <<>>
  IN  Ordered({i \in Drones : own[i] = p}) \o ghosts(p - 1) \o ghosts(p + 1)

\* Worker.run_detection_phase(): the pairs of a partition's own grid over these
\* drones, under their global ids.
DetectionPhase(x, own, p) == Detect(LocalDrones(x, own, p), x)

\* Mutant: every partition that owns one of the two drones keeps the pair.
KeptBy_EitherOwner(pairs, own, p) ==
  Masked(pairs, [k \in DOMAIN pairs |-> p \in {own[pairs[k][1]], own[pairs[k][2]]}])

\* The pairs partition p's result keeps: it is the lower of their owners.
KeptBy(pairs, own, p) ==
  LET keep(pair) == /\ p \in {own[pair[1]], own[pair[2]]}
                    /\ p <= own[pair[1]]
                    /\ p <= own[pair[2]]
  IN  Masked(pairs, [k \in DOMAIN pairs |-> keep(pairs[k])])

\* _merge_detection_results() over the partitions in the order of their ids.
Merged(x, own) ==
  LET parts(kind) == AsList([k \in 1 .. NumPartitions |->
                               KeptBy(DetectionPhase(x, own, k - 1)[kind], own, k - 1)])
  IN  [collisions |-> FlattenSeq(parts("collisions")),
       nearMisses |-> FlattenSeq(parts("nearMisses"))]

\* Worker.run_movement_phase(): the drones of one partition, moved and put back
\* inside the world.
MovementPhase(s, own, p) ==
  LET owned == {i \in Drones : own[i] = p}
      moved == Bound(Move(s, policy, goal, <<>>), mode)
  IN  [pos |-> Restrict(moved.pos, owned), vel |-> Restrict(moved.vel, owned)]

\* The world, with the partitions' results written over it one after the other.
Staged(s, own) ==
  LET write(staged, p) == LET moved == MovementPhase(s, own, p)
                          IN  [pos |-> Written(staged.pos, moved.pos),
                               vel |-> Written(staged.vel, moved.vel)]
  IN  FoldLeft(write, s, Ordered(Partitions))

\* _attempt_tick(): each partition moves the drones it owns; the ghosts are
\* exchanged after that; the coordinator resolves once.
PartitionedStep(s) ==
  LET own    == [i \in Drones |-> OwnerOf(s.pos[i])]
      staged == Staged(s, own)
      found  == Merged(staged.pos, own)
      final  == Resolve(staged, found.collisions)
  IN  [pos |-> final.pos, vel |-> final.vel, detected |-> staged.pos, result |-> found,
       owner |-> own]

\* The coordinator refuses a policy that needs a context.
PartitionedInit ==
  /\ Init
  /\ policy # "local_avoidance"
  /\ owner = [i \in Drones |-> OwnerOf(pos[i])]

StepPartitioned ==
  /\ clock < MaxTick
  /\ LET next == PartitionedStep(Now)
     IN  /\ pos' = next.pos
         /\ vel' = next.vel
         /\ detected' = next.detected
         /\ result' = next.result
         /\ owner' = next.owner
  /\ clock' = clock + 1
  /\ UNCHANGED <<mode, policy, goal>>

PartitionedSpec == PartitionedInit /\ [][StepPartitioned]_partitionedVars

-----------------------------------------------------------------------------
(***************************************************************************)
(* Properties.  DetectsExactly of Simulation says of the merged result     *)
(* that no pair across a slab edge is missed (coordinator.py:193-198) and  *)
(* none is counted twice (coordinator.py:30-40).                           *)
(***************************************************************************)
\* No drone is in two collisions.
Disjoint(collisions) ==
  \A k, l \in DOMAIN collisions :
    k # l => ToSet(collisions[k]) \cap ToSet(collisions[l]) = {}

\* coordinator.py:3-8 and README ("Resolution order"): unless a drone is in two
\* collisions of one tick, the partitioned step leaves exactly the positions,
\* velocities and pairs of the plain Simulation.step().
AgreesWithSimulation ==
  [][LET plain == EngineStep(Now)
     IN  Disjoint(plain.result.collisions)
           => /\ pos' = plain.pos
              /\ vel' = plain.vel
              /\ ToSet(result'.collisions) = ToSet(plain.result.collisions)]_partitionedVars

=============================================================================
