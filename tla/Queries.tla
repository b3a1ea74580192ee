------------------------------- MODULE Queries --------------------------------
(***************************************************************************)
(* What the API reads of a simulation (snapshot.py, viewport.py,           *)
(* heatmap.py, collision_queries.py): a snapshot of a completed tick, and  *)
(* pure functions of it.  A viewport is an interval <<lo, hi>> of the      *)
(* line, both ends included; its other sides hold every drone.             *)
(*                                                                         *)
(* Positions are float32 numbers and edges float64 ones, of which there    *)
(* are more: positions are units, edges thirds of a unit.  The viewport's  *)
(* mask compares the two as float32 numbers (NumPy has a Python float      *)
(* follow the array), the histogram and the markers as float64 numbers.    *)
(***************************************************************************)
EXTENDS Simulation

CONSTANTS
  Viewports,
  Bins,        \* numbers of heatmap bins along X
  Limits       \* limits on the positions returned

ASSUME QueriesAssumption ==
  /\ Viewports \subseteq {v \in Int \X Int : v[1] <= v[2]}
  /\ Bins \subseteq Nat \ {0}
  /\ Limits \subseteq Nat \ {0}

\* build_snapshot(): the state as the resolution left it, with the pairs and
\* the distances as the detection found them.
Snapshot ==
  [tick |-> clock, ids |-> AllDrones, positions |-> pos,
   pairs |-> result.collisions,
   distances |-> [k \in DOMAIN result.collisions |->
                    Distance(detected, result.collisions[k][1], result.collisions[k][2])]]

\* A position as a float64 number; the float32 number nearest to an edge.
Exact(x) == 3 * x
Float32(edge) == (edge + 1) \div 3

\* The mask of find_visible_drones().
Inside(x, viewport) == Float32(viewport[1]) <= x /\ x <= Float32(viewport[2])

\* find_visible_drones(): at most limit of the visible ids, the lowest ones.
FindVisibleDrones(snapshot, viewport, limit) ==
  LET ids     == snapshot.ids
      mask    == [k \in DOMAIN ids |-> Inside(snapshot.positions[ids[k]], viewport)]
      visible == Masked(ids, mask)
  IN  [ids |-> SubSeq(visible, 1, Min({limit, Len(visible)})),
       total |-> Len(visible),
       truncated |-> Len(visible) > limit]

\* Mutant: every bin is open on the right, the last one too.
Bin_LastOpen(x, viewport, bins) ==
  LET lo == viewport[1]
      hi == viewport[2]
  IN  IF lo = hi THEN (IF Exact(x) < lo THEN bins - 1 ELSE bins) \div 2
      ELSE ((Exact(x) - lo) * bins) \div (hi - lo)

\* numpy.histogram2d: bins of equal width, open on the right but for the last; a
\* number beyond the range is in none of 0 .. bins - 1.  An empty range is
\* widened by half a metre on either side, far more than what Float32 rounds.
Bin(x, viewport, bins) ==
  LET lo == viewport[1]
      hi == viewport[2]
  IN  IF lo = hi THEN (IF Exact(x) < lo THEN bins - 1 ELSE bins) \div 2
      ELSE IF Exact(x) = hi THEN bins - 1
      ELSE ((Exact(x) - lo) * bins) \div (hi - lo)

\* compute_heatmap()
ComputeHeatmap(snapshot, viewport, bins) ==
  LET visible == ToSet(FindVisibleDrones(snapshot, viewport, NumDrones).ids)
  IN  [included |-> Cardinality(visible),
       counts |-> [b \in 0 .. bins - 1 |->
                     Cardinality({i \in visible :
                                    Bin(snapshot.positions[i], viewport, bins) = b})]]

\* Mutant: the marker is drawn at the drone with the lower id.
QueryCollisionMarkers_AtFirst(snapshot, viewport) ==
  {m \in {[pair |-> snapshot.pairs[k], distance |-> snapshot.distances[k],
           twice |-> 2 * snapshot.positions[snapshot.pairs[k][1]]]
            : k \in DOMAIN snapshot.pairs} :
     2 * viewport[1] <= Exact(m.twice) /\ Exact(m.twice) <= 2 * viewport[2]}

\* query_collision_markers(): the midpoints (twice is a midpoint, doubled) of
\* the collisions, if they are inside.
QueryCollisionMarkers(snapshot, viewport) ==
  {m \in {[pair |-> snapshot.pairs[k], distance |-> snapshot.distances[k],
           twice |-> snapshot.positions[snapshot.pairs[k][1]]
                       + snapshot.positions[snapshot.pairs[k][2]]]
            : k \in DOMAIN snapshot.pairs} :
     2 * viewport[1] <= Exact(m.twice) /\ Exact(m.twice) <= 2 * viewport[2]}

-----------------------------------------------------------------------------
(***************************************************************************)
(* Properties.                                                             *)
(***************************************************************************)

\* Drones that are visible although they lie beyond an edge.
BeyondEdge(viewport) ==
  {i \in Drones : \/ Float32(viewport[1]) = pos[i] /\ Exact(pos[i]) < viewport[1]
                  \/ Float32(viewport[2]) = pos[i] /\ Exact(pos[i]) > viewport[2]}

(***************************************************************************)
(* viewport.py:60-62: the queries of one frame agree on one snapshot.  The *)
(* heatmap includes the drones that the viewport reports as visible and    *)
(* counts each in one bin, whatever the bins, except a drone that lies on  *)
(* the float32 of an edge and beyond the edge: that one is in no bin, and  *)
(* "sum(counts) == num_drones_included" (heatmap.py:56-58) is true of the  *)
(* others.  A limit cuts the list, never the total.  A collision between   *)
(* two visible drones, neither beyond an edge, has its marker.             *)
(***************************************************************************)
QueriesAgree ==
  \A viewport \in Viewports :
    LET visible == FindVisibleDrones(Snapshot, viewport, NumDrones)
        within  == ToSet(visible.ids) \ BeyondEdge(viewport)
        markers == QueryCollisionMarkers(Snapshot, viewport)
    IN  /\ \A bins \in Bins :
             LET heatmap == ComputeHeatmap(Snapshot, viewport, bins)
                 counted == MapThenSumSet(LAMBDA b : heatmap.counts[b], 0 .. bins - 1)
             IN  /\ heatmap.included = visible.total
                 /\ counted = IF viewport[1] = viewport[2] THEN visible.total
                              ELSE Cardinality(within)
        /\ \A limit \in Limits :
             LET cut == FindVisibleDrones(Snapshot, viewport, limit)
             IN  /\ cut.total = visible.total
                 /\ IsPrefix(cut.ids, visible.ids)
                 /\ cut.truncated <=> cut.ids # visible.ids
        /\ \A p \in ToSet(result.collisions) :
             ToSet(p) \subseteq within => \E m \in markers : m.pair = p

\* collision_queries.py:41-43: the markers are drawn where the resolution has
\* put the drones, not where the detection saw them collide.  For a collision
\* that no other touches both have the same midpoint, inside the world, however
\* far beyond the wall the resolution has pushed one of the two.
MarkersWhereDetected ==
  \A k \in DOMAIN result.collisions :
    LET p == result.collisions[k]
        alone == \A l \in DOMAIN result.collisions \ {k} :
                   ToSet(p) \cap ToSet(result.collisions[l]) = {}
    IN  alone => \E m \in QueryCollisionMarkers(Snapshot, <<0, Exact(BoundsMax)>>) :
                   /\ m.pair = p
                   /\ m.twice = detected[p[1]] + detected[p[2]]

=============================================================================
