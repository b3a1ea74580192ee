------------------------------- MODULE Kernel --------------------------------
(***************************************************************************)
(* The arithmetic of one tick (boundaries.py, spatial_hash.py,             *)
(* collisions.py) in a world that is one cell high and deep, with every    *)
(* drone on a line along X, the axis the partitions cut.  Every drone is   *)
(* active.  Coordinates are integers, in units far smaller than the radii; *)
(* an odd overlap is halved down, and float rounding is not modelled.      *)
(***************************************************************************)
EXTENDS Integers, SequencesExt

CONSTANTS
  NumDrones,
  BoundsMax,         \* the world is 0 .. BoundsMax
  CollisionRadius,
  NearMissRadius,
  CellSize

ASSUME KernelAssumption ==
  /\ NumDrones \in Nat
  /\ BoundsMax \in Nat \ {0}
  /\ CollisionRadius \in Nat \ {0}
  /\ NearMissRadius \in Nat /\ NearMissRadius >= CollisionRadius
  /\ CellSize \in Nat /\ CellSize >= NearMissRadius

(***************************************************************************)
(* Arrays, as numpy's sort, boolean masks and index assignment make them.  *)
(***************************************************************************)
\* The sequence f itself: TLC computes the entries of a concatenation once,
\* those of a function at each application.
AsList(f) == f \o <<>>

\* argsort(): the elements of S in the order before, a set of pairs; the k-th
\* has k - 1 of them before it.
Arranged(S, before) ==
  AsList([k \in 1 .. Cardinality(S) |->
            CHOOSE e \in S : Cardinality({d \in S : <<d, e>> \in before}) = k - 1])

Increasing(S) == {e \in S \X S : e[1] < e[2]}

\* seq[mask]: the entries of seq whose place in mask is TRUE, in the order of seq.
Masked(seq, mask) ==
  LET rows == {k \in DOMAIN seq : mask[k]}
      kept == Arranged(rows, Increasing(rows))
  IN  AsList([n \in DOMAIN kept |-> seq[kept[n]]])

\* array[idx] = values: the array with the values written over it.
Written(array, values) ==
  [i \in DOMAIN array |-> IF i \in DOMAIN values THEN values[i] ELSE array[i]]

Drones == 0 .. NumDrones - 1
Distance(x, i, j) == IF x[i] >= x[j] THEN x[i] - x[j] ELSE x[j] - x[i]
Clip(x, lo, hi) == IF x < lo THEN lo ELSE IF x > hi THEN hi ELSE x

-----------------------------------------------------------------------------
(***************************************************************************)
(* Movement and boundary.  A state is a record of the positions and the    *)
(* velocities.  dt is one.                                                 *)
(***************************************************************************)
Integrate(s) == [s EXCEPT !.pos = [i \in Drones |-> s.pos[i] + s.vel[i]]]

\* Mutant: only the lower wall holds.
Bound_LowerWallOnly(s, mode) ==
  LET hit(i) == s.pos[i] < 0 \/ s.pos[i] > BoundsMax
  IN  [pos |-> [i \in Drones |-> IF s.pos[i] < 0 THEN 0 ELSE s.pos[i]],
       vel |-> [i \in Drones |-> IF ~ hit(i) THEN s.vel[i]
                                 ELSE IF mode = "reflect" THEN - s.vel[i] ELSE 0]]

\* BoundaryManager.apply(): back onto the wall, with the velocity reflected
\* or cleared.
Bound(s, mode) ==
  LET hit(i) == s.pos[i] < 0 \/ s.pos[i] > BoundsMax
  IN  [pos |-> [i \in Drones |-> Clip(s.pos[i], 0, BoundsMax)],
       vel |-> [i \in Drones |-> IF ~ hit(i) THEN s.vel[i]
                                 ELSE IF mode = "reflect" THEN - s.vel[i] ELSE 0]]

-----------------------------------------------------------------------------
(***************************************************************************)
(* Detection.                                                              *)
(***************************************************************************)
NumCells == (BoundsMax + CellSize - 1) \div CellSize
Cell(x) == Clip(x \div CellSize, 0, NumCells - 1)

\* Mutant: both neighbours of a cell count as forward.
Forward_BothSides(c, d) == d \in {c - 1, c + 1}

\* Cell d is the forward neighbour of cell c: on a line, 1 of the 13 offsets.
Forward(c, d) == d = c + 1

(***************************************************************************)
(* candidate_pairs() of the grid built over the drones ids, a sequence:    *)
(* the pairs inside each occupied cell, then those of each cell with its   *)
(* one forward neighbour, cell by cell in the order of ids.                *)
(***************************************************************************)
CandidatePairs(ids, x) ==
  LET cell(a) == Cell(x[ids[a]])
      places  == (DOMAIN ids) \X (DOMAIN ids)
      here    == {p \in places : cell(p[1]) = cell(p[2]) /\ p[1] < p[2]}
      forward == {p \in places : Forward(cell(p[1]), cell(p[2]))}
      before(p, q) ==
        \/ cell(p[1]) < cell(q[1])
        \/ cell(p[1]) = cell(q[1]) /\ p[1] < q[1]
        \/ p[1] = q[1] /\ p[2] < q[2]
      byCell(S) == {e \in S \X S : before(e[1], e[2])}
      global(p) == LET i == ids[p[1]] j == ids[p[2]]
                   IN  IF i < j THEN <<i, j>> ELSE <<j, i>>
      pairs == Arranged(here, byCell(here)) \o Arranged(forward, byCell(forward))
  IN  [k \in DOMAIN pairs |-> global(pairs[k])]

\* _classify()
Classify(pairs, x) ==
  LET dist == [k \in DOMAIN pairs |-> Distance(x, pairs[k][1], pairs[k][2])]
      coll == [k \in DOMAIN pairs |-> dist[k] <= CollisionRadius]
      near == [k \in DOMAIN pairs |-> dist[k] > CollisionRadius /\ dist[k] <= NearMissRadius]
  IN  [collisions |-> Masked(pairs, coll), nearMisses |-> Masked(pairs, near)]

Detect(ids, x) == Classify(CandidatePairs(ids, x), x)

\* detect_brute_force(), the reference: every pair, its result as sets.
BruteForce(x) ==
  LET within(lo, hi) == {p \in Drones \X Drones :
                           /\ p[1] < p[2]
                           /\ Distance(x, p[1], p[2]) > lo
                           /\ Distance(x, p[1], p[2]) <= hi}
  IN  [collisions |-> within(-1, CollisionRadius),
       nearMisses |-> within(CollisionRadius, NearMissRadius)]

-----------------------------------------------------------------------------
(***************************************************************************)
(* Resolution.                                                             *)
(***************************************************************************)

\* Mutant: only one drone of an overlap is moved, by half of it.
ResolvePair_OneSided(s, pair) ==
  LET i == pair[1]
      j == pair[2]
      normal  == IF s.pos[i] >= s.pos[j] THEN 1 ELSE -1
      overlap == CollisionRadius - Distance(s.pos, i, j)
      shift   == IF overlap > 0 THEN normal * (overlap \div 2) ELSE 0
  IN  [pos |-> [s.pos EXCEPT ![i] = @ + shift],
       vel |-> [s.vel EXCEPT ![i] = s.vel[j], ![j] = s.vel[i]]]

\* Mutant: the second drone takes the velocity the first one has just got.
ResolvePair_Aliased(s, pair) ==
  LET i == pair[1]
      j == pair[2]
  IN  [pos |-> s.pos, vel |-> [s.vel EXCEPT ![i] = s.vel[j], ![j] = s.vel[j]]]

\* One colliding pair: on a line, exchanging the velocity components along the
\* line of centres exchanges the velocities.  An overlap is split evenly.
ResolvePair(s, pair) ==
  LET i == pair[1]
      j == pair[2]
      normal  == IF s.pos[i] >= s.pos[j] THEN 1 ELSE -1
      overlap == CollisionRadius - Distance(s.pos, i, j)
      shift   == IF overlap > 0 THEN normal * (overlap \div 2) ELSE 0
  IN  [pos |-> [s.pos EXCEPT ![i] = @ + shift, ![j] = @ - shift],
       vel |-> [s.vel EXCEPT ![i] = s.vel[j], ![j] = s.vel[i]]]

\* The pairs in the order of the detection, each on the result of the former.
Resolve(s, pairs) == FoldLeft(ResolvePair, s, pairs)

=============================================================================
