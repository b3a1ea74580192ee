--------------------------- MODULE SimulationProofs ---------------------------
(***************************************************************************)
(* What is proved of the simulation, for any number of drones, any world,  *)
(* radii, cell size and policy parameters.                                 *)
(***************************************************************************)
EXTENDS Queries, Validation, DataLemmas


-----------------------------------------------------------------------------
(***************************************************************************)
(* Cells.                                                                  *)
(***************************************************************************)
LEMMA Division ==
  ASSUME NEW x \in Int, NEW c \in Nat \ {0}
  PROVE  /\ x \div c \in Int
         /\ c * (x \div c) <= x /\ x < c * (x \div c) + c
BY SMT

\* Positions at most a cell apart lie at most one cell apart.
LEMMA NextDoor ==
  ASSUME NEW x \in Int, NEW y \in Int, NEW c \in Nat \ {0}, x <= y, y - x <= c
  PROVE  (y \div c) \in (x \div c) .. (x \div c) + 1
<1> DEFINE q == x \div c
           r == y \div c
<1>1. q \in Int /\ r \in Int /\ c * q <= x /\ x < c * q + c /\ c * r <= y /\ y < c * r + c
  BY Division
<1> HIDE DEF q, r
<1>2. ~ (r < q)
  <2>1. SUFFICES ASSUME r < q PROVE FALSE
    OBVIOUS
  <2>2. q - r - 1 \in Nat
    BY <1>1, <2>1
  <2>3. c * q - c * r - c = c * (q - r - 1)
    BY <1>1
  <2>4. c * (q - r - 1) >= 0
    BY <2>2
  <2>5. QED
    BY <1>1, <2>3, <2>4
<1>3. ~ (r > q + 1)
  <2>1. SUFFICES ASSUME r > q + 1 PROVE FALSE
    OBVIOUS
  <2>2. r - q - 2 \in Nat
    BY <1>1, <2>1
  <2>3. c * r - c * q - 2 * c = c * (r - q - 2)
    BY <1>1
  <2>4. c * (r - q - 2) >= 0
    BY <2>2
  <2>5. QED
    BY <1>1, <2>3, <2>4
<1>4. QED
  BY <1>1, <1>2, <1>3 DEF q, r

\* spatial_hash.py:91-95 and 177-266: two drones within the near-miss radius, inside
\* the world or beyond its walls, are in one cell or in neighbouring ones, of
\* which one is the forward neighbour of the other.
THEOREM ContactsAreNeighbours ==
  ASSUME NEW x \in Int, NEW y \in Int, x <= y, y - x <= NearMissRadius
  PROVE  Cell(x) = Cell(y) \/ Forward(Cell(x), Cell(y))
<1>1. CellSize \in Nat \ {0} /\ y - x <= CellSize
  BY KernelAssumption
<1>2. (y \div CellSize) \in (x \div CellSize) .. (x \div CellSize) + 1
  BY <1>1, NextDoor
<1>3. x \div CellSize \in Int /\ NumCells \in Nat \ {0}
  <2>1. /\ x \div CellSize \in Int /\ NumCells \in Int
        /\ BoundsMax + CellSize - 1 < CellSize * NumCells + CellSize
    BY <1>1, Division, KernelAssumption DEF NumCells
  <2>2. CellSize * NumCells > 0
    BY <1>1, <2>1, KernelAssumption
  <2>3. NumCells > 0
    BY <1>1, <2>1, <2>2
  <2>4. QED
    BY <2>1, <2>3
<1>4. QED
  BY <1>2, <1>3 DEF Cell, Clip, Forward

-----------------------------------------------------------------------------
(***************************************************************************)
(* Predictions.                                                            *)
(***************************************************************************)

LEMMA Signs ==
  ASSUME NEW a \in Int, NEW b \in Int
  PROVE  a * b < 0 <=> ((a > 0 /\ b < 0) \/ (a < 0 /\ b > 0))
<1> DEFINE p == a * b
<1>1. /\ a > 0 /\ b < 0 => p < 0
      /\ a < 0 /\ b > 0 => p < 0
      /\ a >= 0 /\ b >= 0 => p >= 0
      /\ a <= 0 /\ b <= 0 => p >= 0
      /\ p \in Int
  OBVIOUS
<1> HIDE DEF p
<1>2. QED
  BY <1>1 DEF p

\* The prediction never places two drones farther apart than the next tick will,
\* if they keep their velocities.
LEMMA SeparationIsSafe ==
  ASSUME NEW gap \in Int, NEW closing \in Int
  PROVE  LET closes == gap * closing < 0
             meets  == closes /\ Magnitude(gap) <= Horizon * Magnitude(closing)
         IN  (IF meets THEN 0
              ELSE IF closes THEN Magnitude(gap + closing * Horizon) ELSE Magnitude(gap))
                <= Magnitude(gap + closing)
<1> DEFINE closes == gap * closing < 0
           meets  == closes /\ Magnitude(gap) <= Horizon * Magnitude(closing)
           h == Horizon - 1
<1>1. h \in Nat /\ Horizon = h + 1
  BY MovementAssumption
<1>2. Magnitude(gap + closing) >= 0
  BY DEF Magnitude
<1>3. ~ closes => Magnitude(gap) <= Magnitude(gap + closing)
  <2>1. ~ closes => \/ gap >= 0 /\ closing >= 0
                    \/ gap <= 0 /\ closing <= 0
    BY Signs
  <2>2. QED
    BY <2>1 DEF Magnitude
<1>4. closes /\ ~ meets => Magnitude(gap + closing * Horizon) <= Magnitude(gap + closing)
  <2>1. SUFFICES ASSUME closes, ~ meets
                 PROVE  Magnitude(gap + closing * Horizon) <= Magnitude(gap + closing)
    OBVIOUS
  <2>2. (gap > 0 /\ closing < 0) \/ (gap < 0 /\ closing > 0)
    BY <2>1, Signs
  <2>3. Magnitude(gap) > Horizon * Magnitude(closing)
    <3>1. Magnitude(gap) \in Int /\ Magnitude(closing) \in Int /\ Horizon \in Int
      BY MovementAssumption DEF Magnitude
    <3>2. QED
      BY <2>1, <3>1
  <2> DEFINE k == closing * h
             l == closing * Horizon
  <2>4. k \in Int /\ l \in Int /\ l = k + closing
    BY <1>1
  <2>5. CASE gap > 0 /\ closing < 0
    <3>1. k <= 0
      BY <1>1, <2>5
    <3>2. Horizon * Magnitude(closing) = - l
      BY <1>1, <2>5 DEF Magnitude
    <3> HIDE DEF k, l
    <3>3. QED
      BY <2>3, <2>4, <2>5, <3>1, <3>2 DEF Magnitude, l
  <2>6. CASE gap < 0 /\ closing > 0
    <3>1. k >= 0
      BY <1>1, <2>6
    <3>2. Horizon * Magnitude(closing) = l
      BY <1>1, <2>6 DEF Magnitude
    <3> HIDE DEF k, l
    <3>3. QED
      BY <2>3, <2>4, <2>6, <3>1, <3>2 DEF Magnitude, l
  <2>7. QED
    BY <2>2, <2>5, <2>6
<1>5. QED
  BY <1>2, <1>3, <1>4

\* trajectory.py:96-126: a contact that two drones on their course will have at the
\* next tick is predicted, and as no less than it is.
THEOREM PredictsNextContact ==
  ASSUME NEW s, NEW i, NEW j,
         s.pos[i] \in Int, s.pos[j] \in Int, s.vel[i] \in Int, s.vel[j] \in Int,
         NEW distance \in Int,
         distance = Magnitude((s.pos[j] + s.vel[j]) - (s.pos[i] + s.vel[i]))
  PROVE  LET risk == Prediction(<<i, j>>, s).risk
         IN  /\ distance <= CollisionRadius => risk = "predicted_collision"
             /\ distance <= NearMissRadius
                  => risk \in {"predicted_collision", "predicted_near_miss"}
<1> DEFINE gap     == s.pos[j] - s.pos[i]
           closing == s.vel[j] - s.vel[i]
           closes  == gap * closing < 0
           meets   == closes /\ Magnitude(gap) <= Horizon * Magnitude(closing)
           separation == IF meets THEN 0
                         ELSE IF closes THEN Magnitude(gap + closing * Horizon)
                         ELSE Magnitude(gap)
<1>1. gap \in Int /\ closing \in Int
  OBVIOUS
<1>2. separation <= Magnitude(gap + closing) /\ separation \in Int
  <2>1. separation <= Magnitude(gap + closing)
    BY <1>1, SeparationIsSafe
  <2>2. separation \in Int
    BY <1>1, MovementAssumption DEF Magnitude
  <2>3. QED
    BY <2>1, <2>2
<1>3. gap + closing = (s.pos[j] + s.vel[j]) - (s.pos[i] + s.vel[i])
  OBVIOUS
<1>4. Prediction(<<i, j>>, s).risk =
        (IF separation <= CollisionRadius THEN "predicted_collision"
         ELSE IF separation <= NearMissRadius THEN "predicted_near_miss"
         ELSE IF meets THEN "currently_safe" ELSE "not_closing")
  BY DEF Prediction
<1> HIDE DEF gap, closing, closes, meets, separation
<1>5. QED
  BY <1>2, <1>3, <1>4, KernelAssumption

-----------------------------------------------------------------------------
(***************************************************************************)
(* Corrections.                                                            *)
(***************************************************************************)

LEMMA PredictionFields ==
  ASSUME NEW s, NEW i, NEW j,
         s.pos[i] \in Int, s.pos[j] \in Int, s.vel[i] \in Int, s.vel[j] \in Int
  PROVE  LET row == Prediction(<<i, j>>, s)
         IN  /\ row.separation \in Int
             /\ row.time[1] \in Int /\ row.time[2] \in Nat \ {0}
<1> DEFINE row     == Prediction(<<i, j>>, s)
           gap     == s.pos[j] - s.pos[i]
           closing == s.vel[j] - s.vel[i]
           closes  == gap * closing < 0
           meets   == closes /\ Magnitude(gap) <= Horizon * Magnitude(closing)
<1>1. row.separation = IF meets THEN 0
                       ELSE IF closes THEN Magnitude(gap + closing * Horizon)
                       ELSE Magnitude(gap)
  BY DEF Prediction
<1>2. row.time = IF meets THEN <<Magnitude(gap), Magnitude(closing)>>
                 ELSE IF closes THEN <<Horizon, 1>> ELSE <<0, 1>>
  BY DEF Prediction
<1>3. gap \in Int /\ closing \in Int /\ closing * Horizon \in Int
  BY MovementAssumption
<1>4. Magnitude(gap) \in Int /\ Magnitude(closing) \in Nat
      /\ Magnitude(gap + closing * Horizon) \in Int
  BY <1>3 DEF Magnitude
<1>5. meets => Magnitude(closing) # 0
  <2> HIDE DEF gap, closing
  <2>1. closes => closing # 0
    BY <1>3, Signs
  <2> HIDE DEF closes
  <2>2. QED
    BY <1>3, <2>1 DEF Magnitude
<1> HIDE DEF gap, closing, closes, meets, row
<1>6. row.separation \in Int /\ row.time[1] \in Int /\ row.time[2] \in Nat \ {0}
  BY <1>1, <1>2, <1>3, <1>4, <1>5, MovementAssumption
<1>7. QED
  BY <1>6 DEF row

\* The length of a correction, whatever the row predicts.
LEMMA LengthType ==
  ASSUME NEW row, row.time[1] \in Int, row.time[2] \in Nat \ {0}, row.separation \in Int
  PROVE  LET d      == Horizon * row.time[2]
             nearer == Clip(NearMissRadius - row.separation, 0, NearMissRadius)
         IN  (AvoidanceStrength * MaxAvoidAccel * nearer * (2 * d - row.time[1]))
               \div (2 * d * NearMissRadius) \in Int
<1> DEFINE d      == Horizon * row.time[2]
           nearer == Clip(NearMissRadius - row.separation, 0, NearMissRadius)
           num    == AvoidanceStrength * MaxAvoidAccel * nearer * (2 * d - row.time[1])
<1>1. d \in Nat \ {0} /\ nearer \in Int
  BY MovementAssumption, KernelAssumption DEF Clip
<1> HIDE DEF d, nearer
<1>2. num \in Int
  BY <1>1, MovementAssumption
<1>3. 2 * d * NearMissRadius \in Nat \ {0}
  BY <1>1, KernelAssumption
<1> HIDE DEF num
<1>4. num \div (2 * d * NearMissRadius) \in Int
  BY <1>2, <1>3, Division
<1>5. QED
  BY <1>4 DEF num, d, nearer

\* movement.py:291-328: of the two drones of a row, each is corrected as much as
\* the other and the opposite way.
THEOREM CorrectionsOppose ==
  ASSUME NEW s, NEW row, NEW i, NEW j, row.pair = <<i, j>>, i # j,
         s.pos[i] \in Int, s.pos[j] \in Int,
         row.time[1] \in Int, row.time[2] \in Nat \ {0}, row.separation \in Int
  PROVE  Correction(i, row, s) = - Correction(j, row, s)
<1> DEFINE d      == Horizon * row.time[2]
           nearer == Clip(NearMissRadius - row.separation, 0, NearMissRadius)
           num    == AvoidanceStrength * MaxAvoidAccel * nearer * (2 * d - row.time[1])
           length == num \div (2 * d * NearMissRadius)
           gap    == s.pos[j] - s.pos[i]
<1>1. length \in Int
  BY LengthType
<1>2. Towards(i, row, s) = gap /\ Towards(j, row, s) = - gap /\ gap \in Int
  BY DEF Towards
<1>3. /\ Correction(i, row, s) = Capped(- Direction(gap) * length, MaxAvoidAccel)
      /\ Correction(j, row, s) = Capped(- Direction(- gap) * length, MaxAvoidAccel)
  BY <1>2 DEF Correction
<1> HIDE DEF gap, length
<1>4. Direction(gap) \in {-1, 0, 1} /\ Direction(- gap) = - Direction(gap)
  BY <1>2 DEF Direction
<1>5. - Direction(- gap) * length = - (- Direction(gap) * length)
      /\ - Direction(gap) * length \in Int
  BY <1>1, <1>4
<1>6. QED
  BY <1>3, <1>5, MovementAssumption DEF Capped, Clip

\* movement.py:222-229: a pair that is not at risk corrects nobody, however soon it
\* is at its closest.
THEOREM OnlyThreatsCorrect ==
  ASSUME NEW s, NEW i, NEW j, NEW k,
         s.pos[i] \in Int, s.pos[j] \in Int, s.vel[i] \in Int, s.vel[j] \in Int,
         Prediction(<<i, j>>, s).risk \notin {"predicted_collision", "predicted_near_miss"}
  PROVE  Correction(k, Prediction(<<i, j>>, s), s) = 0
<1> DEFINE row    == Prediction(<<i, j>>, s)
           nearer == Clip(NearMissRadius - row.separation, 0, NearMissRadius)
           d      == Horizon * row.time[2]
           divisor == 2 * d * NearMissRadius
<1>1. /\ row.separation \in Int
      /\ row.time[1] \in Int /\ row.time[2] \in Nat \ {0}
  BY PredictionFields
<1>2. row.separation > NearMissRadius
  <2>1. row.separation <= CollisionRadius => row.risk = "predicted_collision"
    BY DEF Prediction
  <2>2. row.separation <= NearMissRadius /\ ~ (row.separation <= CollisionRadius)
          => row.risk = "predicted_near_miss"
    BY DEF Prediction
  <2> HIDE DEF row
  <2>3. QED
    BY <1>1, <2>1, <2>2, KernelAssumption DEF row
<1> HIDE DEF row
<1>3. nearer = 0
  BY <1>1, <1>2, KernelAssumption DEF Clip
<1>4. d \in Nat \ {0} /\ divisor \in Nat \ {0}
  <2>1. d \in Nat \ {0}
    BY <1>1, MovementAssumption
  <2> HIDE DEF d
  <2>2. QED
    BY <2>1, KernelAssumption
<1>5. AvoidanceStrength * MaxAvoidAccel * nearer * (2 * d - row.time[1]) = 0
  BY <1>1, <1>3, <1>4, MovementAssumption
<1>6. 0 \div divisor = 0
  <2> HIDE DEF divisor
  <2>1. QED
    BY <1>4
<1>7. Direction(Towards(k, row, s)) \in {-1, 0, 1}
  BY DEF Direction
<1>8. Correction(k, row, s) = Capped(- Direction(Towards(k, row, s)) * 0, MaxAvoidAccel)
  BY <1>5, <1>6 DEF Correction
<1>9. QED
  BY <1>7, <1>8, MovementAssumption DEF Capped, Clip, row

-----------------------------------------------------------------------------
(***************************************************************************)
(* Arranged sets and masked sequences.                                     *)
(***************************************************************************)
\* AsList() leaves a list as it is.
LEMMA AsListIs ==
  ASSUME NEW n \in Nat, NEW f, f = [k \in 1 .. n |-> f[k]]
  PROVE  AsList(f) = f
<1> DEFINE T == {f[k] : k \in 1 .. n}
<1>1. f \in [1 .. n -> T]
  OBVIOUS
<1> HIDE DEF T
<1>2. f \in Seq(T)
  BY <1>1
<1>3. QED
  BY <1>2 DEF AsList

\* Masks and index assignments written over an array.
LEMMA WrittenOver ==
  ASSUME NEW D, NEW array, DOMAIN array = D, NEW V \in SUBSET D, NEW values, DOMAIN values = V
  PROVE  Written(array, values) = [i \in D |-> IF i \in V THEN values[i] ELSE array[i]]
BY DEF Written

LEMMA IncreasingIsOrder ==
  ASSUME NEW K \in SUBSET Int
  PROVE  StrictOrder(Increasing(K), K)
<1>1. \A d, e \in K : <<d, e>> \in Increasing(K) <=> d < e
  BY DEF Increasing
<1> HIDE DEF Increasing
<1>2. StrictOrder(Increasing(K), K)
  BY <1>1 DEF StrictOrder
<1>3. QED
  BY <1>2

\* A finite set, arranged, is the list of its elements in their order.
LEMMA ArrangedLists ==
  ASSUME NEW S, IsFiniteSet(S), NEW R, StrictOrder(R, S), NEW s, s = Arranged(S, R)
  PROVE  Lists(s, R, S)
<1> DEFINE n == Cardinality(S)
           rank(k) == CHOOSE e \in S : Cardinality({d \in S : <<d, e>> \in R}) = k - 1
           f == [k \in 1 .. n |-> rank(k)]
<1>1. n \in Nat
  BY FS_CardinalityType
<1>2. s = f
  <2>1. s = AsList(f)
    BY DEF Arranged
  <2> HIDE DEF rank
  <2>2. f = [k \in 1 .. n |-> f[k]]
    OBVIOUS
  <2> HIDE DEF f
  <2>3. QED
    BY <1>1, <2>1, <2>2, AsListIs
<1>3. ASSUME NEW k \in 1 .. n
      PROVE  s[k] \in S /\ Cardinality(Below(s[k], R, S)) = k - 1
  <2>1. \E e \in S : Cardinality({d \in S : <<d, e>> \in R}) = k - 1
    BY RankExists DEF Below
  <2>2. s[k] = CHOOSE e \in S : Cardinality({d \in S : <<d, e>> \in R}) = k - 1
    BY <1>2
  <2>3. QED
    BY <2>1, <2>2 DEF Below
<1>4. s \in [1 .. n -> S]
  BY <1>2, <1>3
<1>5. Ranked(s, R, S)
  BY <1>3, <1>4 DEF Ranked
<1>6. QED
  BY <1>5, RankedSequence

\* A finite set of numbers, arranged, is the increasing sequence of its elements.
LEMMA ArrangedNumbers ==
  ASSUME NEW K \in SUBSET Int, IsFiniteSet(K), NEW s, s = Arranged(K, Increasing(K))
  PROVE  Lists(s, Increasing(K), K)
BY IncreasingIsOrder, ArrangedLists

\* m holds the entries of seq at the places K, in their order.
Selects(m, seq, K) ==
  \E kept : /\ Lists(kept, Increasing(K), K)
            /\ m = [a \in 1 .. Cardinality(K) |-> seq[kept[a]]]

LEMMA PlacesFinite ==
  ASSUME NEW n \in Nat, NEW K \in SUBSET (1 .. n)
  PROVE  IsFiniteSet(K) /\ K \in SUBSET Int
<1>1. IsFiniteSet(1 .. n)
  BY FS_Interval
<1>2. K \in SUBSET Int
  OBVIOUS
<1>3. QED
  BY <1>1, <1>2, FS_Subset

LEMMA PlacesOf ==
  ASSUME NEW T, NEW seq \in Seq(T)
  PROVE  Len(seq) \in Nat /\ DOMAIN seq = 1 .. Len(seq) /\ IsFiniteSet(DOMAIN seq)
<1>1. Len(seq) \in Nat /\ DOMAIN seq = 1 .. Len(seq)
  OBVIOUS
<1>2. IsFiniteSet(1 .. Len(seq))
  BY <1>1, FS_Interval
<1>3. QED
  BY <1>1, <1>2

LEMMA Selection ==
  ASSUME NEW n \in Nat, NEW seq, NEW mask, NEW K \in SUBSET (1 .. n),
         K = {k \in DOMAIN seq : mask[k]},
         NEW m, m = Masked(seq, mask)
  PROVE  Selects(m, seq, K)
<1> DEFINE kept == Arranged(K, Increasing(K))
           f    == [a \in DOMAIN kept |-> seq[kept[a]]]
<1>1. IsFiniteSet(K) /\ K \in SUBSET Int /\ Cardinality(K) \in Nat
  BY PlacesFinite, FS_CardinalityType
<1>2. Lists(kept, Increasing(K), K)
  BY <1>1, ArrangedNumbers
<1>3. DOMAIN kept = 1 .. Cardinality(K)
  BY <1>2 DEF Lists
<1>4. m = AsList(f)
  BY DEF Masked
<1>5. f = [a \in 1 .. Cardinality(K) |-> f[a]] /\ f = [a \in 1 .. Cardinality(K) |-> seq[kept[a]]]
  BY <1>3
<1> HIDE DEF f, kept
<1>6. m = f
  BY <1>1, <1>4, <1>5, AsListIs
<1>7. QED
  BY <1>2, <1>5, <1>6 DEF Selects

LEMMA SelectedEntries ==
  ASSUME NEW T, NEW seq \in Seq(T), NEW K \in SUBSET (DOMAIN seq), NEW m, Selects(m, seq, K)
  PROVE  /\ m \in Seq(T)
         /\ Len(m) = Cardinality(K)
         /\ Cardinality(K) \in Nat
         /\ DOMAIN m = 1 .. Cardinality(K)
         /\ ToSet(m) = {seq[k] : k \in K}
         /\ IsInjective(seq) => IsInjective(m)
<1> DEFINE n == Cardinality(K)
<1>1. PICK kept : /\ Lists(kept, Increasing(K), K)
                  /\ m = [a \in 1 .. n |-> seq[kept[a]]]
  BY DEF Selects
<1>2. /\ n \in Nat
      /\ kept \in [1 .. n -> K]
      /\ \A x \in K : \E k \in 1 .. n : kept[k] = x
      /\ \A k, l \in 1 .. n : kept[k] = kept[l] => k = l
  BY <1>1 DEF Lists
<1> HIDE DEF n
<1>3. \A a \in 1 .. n : kept[a] \in K /\ kept[a] \in DOMAIN seq /\ m[a] = seq[kept[a]] /\ m[a] \in T
  BY <1>1, <1>2
<1>4. m \in [1 .. n -> T]
  BY <1>1, <1>3
<1>5. m \in Seq(T) /\ Len(m) = n /\ DOMAIN m = 1 .. n
  BY <1>2, <1>4
<1>6. ToSet(m) = {seq[k] : k \in K}
  <2>1. ToSet(m) = {m[a] : a \in 1 .. n}
    BY <1>5 DEF ToSet
  <2>2. ASSUME NEW a \in 1 .. n PROVE \E k \in K : m[a] = seq[k]
    BY <1>3
  <2>3. ASSUME NEW k \in K PROVE \E a \in 1 .. n : m[a] = seq[k]
    BY <1>2, <1>3
  <2>4. QED
    BY <2>1, <2>2, <2>3
<1>7. IsInjective(seq) => IsInjective(m)
  BY <1>2, <1>3, <1>5 DEF IsInjective
<1>8. QED
  BY <1>2, <1>5, <1>6, <1>7 DEF n

LEMMA SelectedSet ==
  ASSUME NEW T, NEW seq \in Seq(T), NEW K \in SUBSET (DOMAIN seq), NEW m, Selects(m, seq, K)
  PROVE  /\ \A y \in ToSet(m) : \E k \in K : y = seq[k]
         /\ \A k \in K : seq[k] \in ToSet(m)
<1>1. ToSet(m) = {seq[k] : k \in K}
  BY SelectedEntries
<1>2. QED
  BY <1>1

\* Whether the mask selects nothing shows in the sequence.
LEMMA SelectsNothing ==
  ASSUME NEW T, NEW seq \in Seq(T), NEW K \in SUBSET (DOMAIN seq), NEW m, Selects(m, seq, K)
  PROVE  m = <<>> <=> K = {}
<1>1. m \in Seq(T) /\ ToSet(m) = {seq[k] : k \in K}
  BY SelectedEntries
<1>2. m = <<>> <=> ToSet(m) = {}
  BY <1>1 DEF ToSet
<1>3. QED
  BY <1>1, <1>2

-----------------------------------------------------------------------------
(***************************************************************************)
(* The spatial hash finds every pair in contact, and lists none twice.     *)
(***************************************************************************)
LEMMA CellType ==
  ASSUME NEW y \in Int
  PROVE  Cell(y) \in Int
<1>1. CellSize \in Nat \ {0} /\ BoundsMax + CellSize - 1 \in Int
  BY KernelAssumption
<1>2. y \div CellSize \in Int /\ NumCells \in Int
  BY <1>1, Division DEF NumCells
<1>3. QED
  BY <1>2 DEF Cell, Clip

\* The order of the candidate pairs: p and q are places in ids.
Before(p, q, ids, x) ==
  \/ Cell(x[ids[p[1]]]) < Cell(x[ids[q[1]]])
  \/ Cell(x[ids[p[1]]]) = Cell(x[ids[q[1]]]) /\ p[1] < q[1]
  \/ p[1] = q[1] /\ p[2] < q[2]

ByCell(ids, x, S) == {e \in S \X S : Before(e[1], e[2], ids, x)}

LEMMA ByCellIsOrder ==
  ASSUME NEW x \in [Drones -> Int], NEW ids \in Seq(Drones),
         NEW S \in SUBSET ((DOMAIN ids) \X (DOMAIN ids))
  PROVE  StrictOrder(ByCell(ids, x, S), S)
<1>1. \A p, q \in S : <<p, q>> \in ByCell(ids, x, S) <=> Before(p, q, ids, x)
  BY DEF ByCell
<1>2. \A p \in S : /\ p[1] \in Int /\ p[2] \in Int /\ p = <<p[1], p[2]>>
                   /\ Cell(x[ids[p[1]]]) \in Int
  <2>1. TAKE p \in S
  <2>2. p[1] \in DOMAIN ids /\ p[2] \in DOMAIN ids /\ p = <<p[1], p[2]>>
    OBVIOUS
  <2>3. ids[p[1]] \in Drones
    BY <2>2
  <2>4. x[ids[p[1]]] \in Int
    BY <2>3
  <2>5. Cell(x[ids[p[1]]]) \in Int
    BY <2>4, CellType
  <2>6. QED
    BY <2>2, <2>5
<1>3. \A p \in S : ~ Before(p, p, ids, x)
  BY <1>2 DEF Before
<1>4. \A p, q, r \in S : Before(p, q, ids, x) /\ Before(q, r, ids, x) => Before(p, r, ids, x)
  <2>1. TAKE p, q, r \in S
  <2> DEFINE c == Cell(x[ids[p[1]]])  i == p[1]  j == p[2]
             d == Cell(x[ids[q[1]]])  k == q[1]  l == q[2]
             e == Cell(x[ids[r[1]]])  m == r[1]  n == r[2]
  <2>2. /\ c \in Int /\ i \in Int /\ j \in Int
        /\ d \in Int /\ k \in Int /\ l \in Int
        /\ e \in Int /\ m \in Int /\ n \in Int
    BY <1>2
  <2>3. (i = k => c = d) /\ (k = m => d = e)
    BY Zenon
  <2>4. /\ Before(p, q, ids, x) <=> c < d \/ (c = d /\ i < k) \/ (i = k /\ j < l)
        /\ Before(q, r, ids, x) <=> d < e \/ (d = e /\ k < m) \/ (k = m /\ l < n)
        /\ Before(p, r, ids, x) <=> c < e \/ (c = e /\ i < m) \/ (i = m /\ j < n)
    BY Zenon DEF Before
  <2> HIDE DEF c, d, e, i, j, k, l, m, n
  <2>5. QED
    BY <2>2, <2>3, <2>4
<1>5. \A p, q \in S : p # q => Before(p, q, ids, x) \/ Before(q, p, ids, x)
  BY <1>2 DEF Before
<1>6. QED
  BY <1>1, <1>3, <1>4, <1>5 DEF StrictOrder

LEMMA ArrangedPairs ==
  ASSUME NEW x \in [Drones -> Int], NEW ids \in Seq(Drones),
         NEW S \in SUBSET ((DOMAIN ids) \X (DOMAIN ids)),
         NEW s, s = Arranged(S, ByCell(ids, x, S))
  PROVE  Lists(s, ByCell(ids, x, S), S)
<1>1. IsFiniteSet(DOMAIN ids)
  BY PlacesOf
<1>2. IsFiniteSet((DOMAIN ids) \X (DOMAIN ids))
  BY <1>1, FS_Product
<1>3. IsFiniteSet(S)
  BY <1>2, FS_Subset
<1>4. QED
  BY <1>3, ByCellIsOrder, ArrangedLists

Here(ids, x) ==
  {p \in (DOMAIN ids) \X (DOMAIN ids) : Cell(x[ids[p[1]]]) = Cell(x[ids[p[2]]]) /\ p[1] < p[2]}

Ahead(ids, x) ==
  {p \in (DOMAIN ids) \X (DOMAIN ids) : Forward(Cell(x[ids[p[1]]]), Cell(x[ids[p[2]]]))}

Global(p, ids) == IF ids[p[1]] < ids[p[2]] THEN <<ids[p[1]], ids[p[2]]>> ELSE <<ids[p[2]], ids[p[1]]>>

\* The pairs of drones of ids within the near-miss radius of each other.
InContact(ids, x) ==
  {p \in ToSet(ids) \X ToSet(ids) : p[1] < p[2] /\ Distance(x, p[1], p[2]) <= NearMissRadius}

\* Both drones of a candidate pair, in whatever order they are found, are
\* different drones of ids, and no other places hold the same pair.
LEMMA GlobalPair ==
  ASSUME NEW x \in [Drones -> Int], NEW ids \in Seq(Drones), IsInjective(ids),
         NEW p \in Here(ids, x) \union Ahead(ids, x)
  PROVE  /\ Global(p, ids) \in ToSet(ids) \X ToSet(ids)
         /\ Global(p, ids)[1] < Global(p, ids)[2]
         /\ \A q \in Here(ids, x) \union Ahead(ids, x) :
              Global(p, ids) = Global(q, ids) => p = q
<1>1. Drones \subseteq Int
  BY KernelAssumption DEF Drones
<1>2. \A a \in DOMAIN ids : a \in Int /\ ids[a] \in Drones /\ ids[a] \in ToSet(ids) /\ ids[a] \in Int
  <2>1. \A a \in DOMAIN ids : a \in Int /\ ids[a] \in Drones
    OBVIOUS
  <2>2. \A a \in DOMAIN ids : ids[a] \in ToSet(ids)
    BY Zenon DEF ToSet
  <2>3. QED
    BY <1>1, <2>1, <2>2
<1>3. ASSUME NEW q \in Here(ids, x) \union Ahead(ids, x)
      PROVE  /\ q[1] \in DOMAIN ids /\ q[2] \in DOMAIN ids /\ q = <<q[1], q[2]>>
             /\ Cell(x[ids[q[1]]]) \in Int /\ Cell(x[ids[q[2]]]) \in Int
             /\ \/ Cell(x[ids[q[1]]]) = Cell(x[ids[q[2]]]) /\ q[1] < q[2]
                \/ Cell(x[ids[q[2]]]) = Cell(x[ids[q[1]]]) + 1
             /\ ids[q[1]] # ids[q[2]]
  <2>1. q[1] \in DOMAIN ids /\ q[2] \in DOMAIN ids /\ q = <<q[1], q[2]>>
    BY DEF Here, Ahead
  <2>2. x[ids[q[1]]] \in Int /\ x[ids[q[2]]] \in Int
    BY <1>2, <2>1
  <2>3. Cell(x[ids[q[1]]]) \in Int /\ Cell(x[ids[q[2]]]) \in Int
    BY <2>2, CellType
  <2>4. \/ Cell(x[ids[q[1]]]) = Cell(x[ids[q[2]]]) /\ q[1] < q[2]
        \/ Cell(x[ids[q[2]]]) = Cell(x[ids[q[1]]]) + 1
    BY DEF Here, Ahead, Forward
  <2>5. ids[q[1]] # ids[q[2]]
    <3>1. SUFFICES ASSUME ids[q[1]] = ids[q[2]] PROVE FALSE
      OBVIOUS
    <3>2. q[1] = q[2]
      BY <2>1, <3>1 DEF IsInjective
    <3>3. q[1] \in Int /\ q[2] \in Int
      BY <1>2, <2>1
    <3>4. Cell(x[ids[q[1]]]) = Cell(x[ids[q[2]]])
      BY <3>2, Zenon
    <3>5. QED
      BY <2>3, <2>4, <3>2, <3>3, <3>4
  <2>6. QED
    BY <2>1, <2>3, <2>4, <2>5
<1>4. /\ Global(p, ids) \in ToSet(ids) \X ToSet(ids)
      /\ Global(p, ids)[1] < Global(p, ids)[2]
  BY <1>2, <1>3 DEF Global
<1>5. ASSUME NEW q \in Here(ids, x) \union Ahead(ids, x), Global(p, ids) = Global(q, ids)
      PROVE  p = q
  <2>1. \/ ids[p[1]] = ids[q[1]] /\ ids[p[2]] = ids[q[2]]
        \/ ids[p[1]] = ids[q[2]] /\ ids[p[2]] = ids[q[1]]
    BY <1>5 DEF Global
  <2>2. \/ p[1] = q[1] /\ p[2] = q[2]
        \/ p[1] = q[2] /\ p[2] = q[1]
    BY <1>3, <2>1 DEF IsInjective
  <2>3. ASSUME p[1] = q[2], p[2] = q[1] PROVE FALSE
    <3> DEFINE c == Cell(x[ids[p[1]]])
               d == Cell(x[ids[p[2]]])
               i == p[1]
               j == p[2]
    <3>1. c = Cell(x[ids[q[2]]]) /\ d = Cell(x[ids[q[1]]])
      BY <2>3, Zenon
    <3>2. c \in Int /\ d \in Int /\ i \in Int /\ j \in Int
      BY <1>2, <1>3
    <3>3. (c = d /\ i < j) \/ d = c + 1
      BY <1>3
    <3>4. (d = c /\ j < i) \/ c = d + 1
      <4>1. \/ Cell(x[ids[q[1]]]) = Cell(x[ids[q[2]]]) /\ q[1] < q[2]
            \/ Cell(x[ids[q[2]]]) = Cell(x[ids[q[1]]]) + 1
        BY <1>3
      <4> HIDE DEF c, d
      <4>2. QED
        BY <2>3, <3>1, <4>1
    <3> HIDE DEF c, d, i, j
    <3>5. QED
      BY <3>2, <3>3, <3>4
  <2>4. p[1] = q[1] /\ p[2] = q[2]
    BY <2>2, <2>3
  <2>5. QED
    BY <1>3, <2>4
<1>6. QED
  BY <1>4, <1>5

\* spatial_hash.py:177-266: the candidates cover every contact.
LEMMA ContactsCovered ==
  ASSUME NEW x \in [Drones -> Int], NEW ids \in Seq(Drones),
         NEW pair \in InContact(ids, x)
  PROVE  \E p \in Here(ids, x) \union Ahead(ids, x) : Global(p, ids) = pair
<1>1. PICK a \in DOMAIN ids, b \in DOMAIN ids : pair = <<ids[a], ids[b]>>
  BY DEF InContact, ToSet
<1>2. /\ Drones \subseteq Int /\ a \in Int /\ b \in Int
      /\ ids[a] \in Drones /\ ids[b] \in Drones /\ ids[a] < ids[b]
  BY <1>1, KernelAssumption DEF Drones, InContact
<1>3. x[ids[a]] \in Int /\ x[ids[b]] \in Int /\ ids[a] \in Int /\ ids[b] \in Int /\ a # b
  BY <1>2
<1>4. Distance(x, ids[a], ids[b]) <= NearMissRadius
  BY <1>1 DEF InContact
<1>5. \/ Cell(x[ids[a]]) = Cell(x[ids[b]])
      \/ Forward(Cell(x[ids[a]]), Cell(x[ids[b]]))
      \/ Forward(Cell(x[ids[b]]), Cell(x[ids[a]]))
  <2>1. CASE x[ids[a]] <= x[ids[b]]
    <3>1. x[ids[b]] - x[ids[a]] <= NearMissRadius
      BY <1>3, <1>4, <2>1 DEF Distance
    <3>2. QED
      BY <1>3, <2>1, <3>1, ContactsAreNeighbours
  <2>2. CASE x[ids[b]] <= x[ids[a]]
    <3>1. x[ids[a]] - x[ids[b]] <= NearMissRadius
      BY <1>3, <1>4, <2>2 DEF Distance
    <3>2. Cell(x[ids[b]]) = Cell(x[ids[a]]) \/ Forward(Cell(x[ids[b]]), Cell(x[ids[a]]))
      BY <1>3, <2>2, <3>1, ContactsAreNeighbours
    <3>3. QED
      BY <3>2
  <2>3. QED
    BY <1>3, <2>1, <2>2
<1>6. Global(<<a, b>>, ids) = pair /\ Global(<<b, a>>, ids) = pair
  BY <1>1, <1>2, <1>3 DEF Global
<1>7. /\ <<a, b>> \in (DOMAIN ids) \X (DOMAIN ids)
      /\ <<b, a>> \in (DOMAIN ids) \X (DOMAIN ids)
  BY <1>1
<1>8. <<a, b>> \in Here(ids, x) \union Ahead(ids, x) \/ <<b, a>> \in Here(ids, x) \union Ahead(ids, x)
  <2>1. a < b \/ b < a
    BY <1>2, <1>3
  <2>2. QED
    BY <1>5, <1>7, <2>1 DEF Here, Ahead
<1>9. QED
  BY <1>6, <1>8

\* What the hash lists: each contact of ids, other pairs of different drones of
\* ids perhaps, and no pair twice.
ListsContacts(pairs, ids, x) ==
  /\ pairs \in Seq(Drones \X Drones)
  /\ IsInjective(pairs)
  /\ \A pair \in ToSet(pairs) : /\ pair \in ToSet(ids) \X ToSet(ids)
                                /\ pair[1] < pair[2]
  /\ InContact(ids, x) \subseteq ToSet(pairs)

\* w holds every element of V, and nothing else, once.
ListsOnce(w, V) ==
  /\ w \in Seq(V)
  /\ \A p \in V : \E k \in DOMAIN w : w[k] = p
  /\ \A k, l \in DOMAIN w : w[k] = w[l] => k = l

LEMMA ListedOnce ==
  ASSUME NEW V, NEW w, ListsOnce(w, V)
  PROVE  IsInjective(w) /\ ToSet(w) = V
<1>1. IsInjective(w)
  BY DEF ListsOnce, IsInjective
<1>2. \A k \in DOMAIN w : w[k] \in V
  BY DEF ListsOnce
<1>3. ToSet(w) = V
  BY <1>2 DEF ListsOnce, ToSet
<1>4. QED
  BY <1>1, <1>3

\* An ordered list of a set holds every element of it once.
LEMMA OrderedOnce ==
  ASSUME NEW S, NEW R, NEW s, Lists(s, R, S)
  PROVE  ListsOnce(s, S)
<1> DEFINE a == Cardinality(S)
<1>1. /\ a \in Nat /\ s \in [1 .. a -> S]
      /\ \A x \in S : \E k \in 1 .. a : s[k] = x
      /\ \A k, l \in 1 .. a : s[k] = s[l] => k = l
  BY DEF Lists
<1> HIDE DEF a
<1>2. s \in Seq(S) /\ DOMAIN s = 1 .. a
  BY <1>1
<1>3. QED
  BY <1>1, <1>2 DEF ListsOnce

\* Two lists of different elements, one after the other.
LEMMA JoinedLists ==
  ASSUME NEW S, NEW s, ListsOnce(s, S), NEW U, NEW u, ListsOnce(u, U), S \intersect U = {},
         NEW w, w = s \o u
  PROVE  ListsOnce(w, S \union U)
<1> DEFINE a == Len(s)
           b == Len(u)
<1>0. s \in Seq(S) /\ u \in Seq(U)
  BY DEF ListsOnce
<1>1. /\ a \in Nat /\ s \in [1 .. a -> S]
      /\ \A x \in S : \E k \in 1 .. a : s[k] = x
      /\ \A k, l \in 1 .. a : s[k] = s[l] => k = l
  BY <1>0, LenProperties DEF ListsOnce
<1>2. /\ b \in Nat /\ u \in [1 .. b -> U]
      /\ \A x \in U : \E k \in 1 .. b : u[k] = x
      /\ \A k, l \in 1 .. b : u[k] = u[l] => k = l
  BY <1>0, LenProperties DEF ListsOnce
<1>3. s \in Seq(S \union U) /\ Len(s) = a /\ u \in Seq(S \union U) /\ Len(u) = b
  <2>1. Seq(S) \subseteq Seq(S \union U) /\ Seq(U) \subseteq Seq(S \union U)
    BY SeqMonotonic
  <2>2. QED
    BY <1>0, <2>1
<1> HIDE DEF a, b
<1>4. /\ w \in Seq(S \union U) /\ DOMAIN w = 1 .. (a + b)
      /\ \A k \in 1 .. (a + b) : w[k] = IF k <= a THEN s[k] ELSE u[k - a]
  <2>1. /\ w \in Seq(S \union U) /\ Len(w) = a + b
        /\ \A k \in 1 .. (a + b) : w[k] = IF k <= a THEN s[k] ELSE u[k - a]
    BY <1>3, ConcatProperties
  <2>2. QED
    BY <2>1, LenProperties
<1>5. \A k \in 1 .. (a + b) : w[k] \in S \union U /\ (k <= a <=> w[k] \in S)
  <2>1. TAKE k \in 1 .. (a + b)
  <2>2. CASE k <= a
    <3>1. k \in 1 .. a
      BY <1>1, <1>2, <2>2
    <3>2. QED
      BY <1>1, <1>4, <2>2, <3>1
  <2>3. CASE ~ (k <= a)
    <3>1. k - a \in 1 .. b
      BY <1>1, <1>2, <2>3
    <3>2. w[k] = u[k - a]
      BY <1>4, <2>3
    <3>3. u[k - a] \in U
      BY <1>2, <3>1
    <3>4. QED
      BY <2>3, <3>2, <3>3
  <2>4. QED
    BY <2>2, <2>3
<1>6. \A k, l \in 1 .. (a + b) : w[k] = w[l] => k = l
  <2>1. TAKE k, l \in 1 .. (a + b)
  <2>2. SUFFICES ASSUME w[k] = w[l] PROVE k = l
    OBVIOUS
  <2>3. CASE k <= a
    <3>1. l <= a
      BY <1>5, <2>2, <2>3
    <3>2. k \in 1 .. a /\ l \in 1 .. a
      BY <1>1, <1>2, <2>3, <3>1
    <3>3. QED
      BY <1>1, <1>4, <2>2, <2>3, <3>1, <3>2
  <2>4. CASE ~ (k <= a)
    <3>1. ~ (l <= a)
      BY <1>5, <2>2, <2>4
    <3>2. k - a \in 1 .. b /\ l - a \in 1 .. b
      BY <1>1, <1>2, <2>4, <3>1
    <3>3. k - a = l - a
      BY <1>2, <1>4, <2>2, <2>4, <3>1, <3>2
    <3>4. QED
      BY <1>1, <1>2, <3>3
  <2>5. QED
    BY <2>3, <2>4
<1>7. \A p \in S \union U : \E k \in 1 .. (a + b) : w[k] = p
  <2>1. TAKE p \in S \union U
  <2>2. CASE p \in S
    <3>1. PICK k \in 1 .. a : s[k] = p
      BY <1>1, <2>2
    <3>2. k \in 1 .. (a + b) /\ k <= a
      BY <1>1, <1>2
    <3>3. QED
      BY <1>4, <3>1, <3>2
  <2>3. CASE p \in U
    <3>1. PICK k \in 1 .. b : u[k] = p
      BY <1>2, <2>3
    <3>2. k + a \in 1 .. (a + b) /\ ~ (k + a <= a) /\ (k + a) - a = k
      BY <1>1, <1>2
    <3>3. w[k + a] = u[k]
      BY <1>4, <3>2
    <3>4. QED
      BY <3>1, <3>2, <3>3
  <2>4. QED
    BY <2>2, <2>3
<1>8. QED
  BY <1>4, <1>6, <1>7 DEF ListsOnce

\* A list stays a list of different elements if its elements are replaced by
\* others, different ones for different ones.
Replaces(m, w, f) == m = [k \in DOMAIN w |-> f[w[k]]]
TellsApart(f, V) == \A p, q \in V : f[p] = f[q] => p = q
ImageOf(f, V) == {f[p] : p \in V}

LEMMA ReplacedList ==
  ASSUME NEW V, NEW w, ListsOnce(w, V),
         NEW T, NEW f \in [V -> T], TellsApart(f, V), NEW m, Replaces(m, w, f)
  PROVE  m \in Seq(T) /\ ListsOnce(m, ImageOf(f, V))
<1> DEFINE n == Len(w)
<1>1. /\ n \in Nat /\ DOMAIN w = 1 .. n
      /\ \A k \in 1 .. n : w[k] \in V
      /\ \A k, l \in 1 .. n : w[k] = w[l] => k = l
      /\ \A p \in V : \E k \in 1 .. n : w[k] = p
  BY DEF ListsOnce
<1> HIDE DEF n
<1>2. m = [k \in 1 .. n |-> f[w[k]]]
  BY <1>1 DEF Replaces
<1>3. \A k \in 1 .. n : m[k] = f[w[k]] /\ f[w[k]] \in T /\ f[w[k]] \in ImageOf(f, V)
  BY <1>1, <1>2 DEF ImageOf
<1>4. m \in [1 .. n -> T] /\ m \in [1 .. n -> ImageOf(f, V)]
  BY <1>2, <1>3
<1>5. m \in Seq(T) /\ m \in Seq(ImageOf(f, V)) /\ DOMAIN m = 1 .. n
  BY <1>1, <1>4
<1>6. \A k, l \in 1 .. n : m[k] = m[l] => k = l
  BY <1>1, <1>3 DEF TellsApart
<1>7. \A r \in ImageOf(f, V) : \E k \in 1 .. n : m[k] = r
  BY <1>1, <1>3 DEF ImageOf
<1>8. QED
  BY <1>5, <1>6, <1>7 DEF ListsOnce

LEMMA CandidatesListContacts ==
  ASSUME NEW x \in [Drones -> Int], NEW ids \in Seq(Drones), IsInjective(ids),
         NEW pairs, pairs = CandidatePairs(ids, x)
  PROVE  ListsContacts(pairs, ids, x)
<1> DEFINE here   == Here(ids, x)
           ahead  == Ahead(ids, x)
           V      == here \union ahead
           first  == Arranged(here, ByCell(ids, x, here))
           second == Arranged(ahead, ByCell(ids, x, ahead))
           w      == first \o second
           f      == [p \in V |-> Global(p, ids)]
           places == (DOMAIN ids) \X (DOMAIN ids)
<1>1. pairs = [k \in DOMAIN w |-> Global(w[k], ids)]
  BY DEF CandidatePairs, Here, Ahead, ByCell, Before, Global
<1>2. here \in SUBSET places /\ ahead \in SUBSET places
  BY DEF Here, Ahead
<1>3. Lists(first, ByCell(ids, x, here), here) /\ Lists(second, ByCell(ids, x, ahead), ahead)
  BY <1>2, ArrangedPairs
<1>4. here \intersect ahead = {}
  <2>1. SUFFICES ASSUME NEW p \in here, p \in ahead PROVE FALSE
    OBVIOUS
  <2>2. /\ Cell(x[ids[p[1]]]) = Cell(x[ids[p[2]]])
        /\ Cell(x[ids[p[2]]]) = Cell(x[ids[p[1]]]) + 1
    BY <2>1 DEF Here, Ahead, Forward
  <2>3. Cell(x[ids[p[1]]]) \in Int
    <3>1. p[1] \in DOMAIN ids
      BY <1>2
    <3>2. x[ids[p[1]]] \in Int
      BY <3>1
    <3>3. QED
      BY <3>2, CellType
  <2>4. QED
    BY <2>2, <2>3
<1> HIDE DEF here, ahead, first, second
<1>5. ListsOnce(w, V)
  BY <1>3, <1>4, OrderedOnce, JoinedLists
<1>6. \A p \in V : Global(p, ids) \in Drones \X Drones
  <2>1. ToSet(ids) \subseteq Drones
    BY DEF ToSet
  <2>2. \A p \in V : Global(p, ids) \in ToSet(ids) \X ToSet(ids)
    BY GlobalPair DEF here, ahead
  <2>3. QED
    BY <2>1, <2>2
<1>7. f \in [V -> Drones \X Drones]
  BY <1>6
<1>8. TellsApart(f, V)
  BY GlobalPair DEF here, ahead, TellsApart
<1>9. Replaces(pairs, w, f)
  <2>1. \A k \in DOMAIN w : w[k] \in V
    BY <1>5 DEF ListsOnce
  <2> HIDE DEF w
  <2>2. QED
    BY <1>1, <2>1 DEF Replaces
<1> HIDE DEF w, V, f
<1>10. pairs \in Seq(Drones \X Drones) /\ ListsOnce(pairs, ImageOf(f, V))
  BY <1>5, <1>7, <1>8, <1>9, ReplacedList
<1>11. IsInjective(pairs) /\ ToSet(pairs) = {Global(p, ids) : p \in V}
  <2>1. IsInjective(pairs) /\ ToSet(pairs) = ImageOf(f, V)
    BY <1>10, ListedOnce
  <2>2. ImageOf(f, V) = {Global(p, ids) : p \in V}
    BY DEF f, ImageOf
  <2>3. QED
    BY <2>1, <2>2
<1>12. \A pair \in ToSet(pairs) : pair \in ToSet(ids) \X ToSet(ids) /\ pair[1] < pair[2]
  BY <1>11, GlobalPair DEF V, here, ahead
<1>13. InContact(ids, x) \subseteq ToSet(pairs)
  BY <1>11, ContactsCovered DEF V, here, ahead
<1>14. QED
  BY <1>10, <1>11, <1>12, <1>13 DEF ListsContacts

-----------------------------------------------------------------------------
(***************************************************************************)
(* Detection.                                                              *)
(***************************************************************************)
LEMMA DistanceType ==
  ASSUME NEW x \in [Drones -> Int], NEW i \in Drones, NEW j \in Drones
  PROVE  /\ Distance(x, i, j) \in Nat
         /\ Distance(x, i, j) = Distance(x, j, i)
         /\ Distance(x, i, j) = Magnitude(x[j] - x[i])
<1>1. x[i] \in Int /\ x[j] \in Int
  OBVIOUS
<1>2. QED
  BY <1>1 DEF Distance, Magnitude

\* The places of the pairs that are more than lo and at most hi apart.
PlacesInBand(pairs, x, lo, hi) ==
  {k \in DOMAIN pairs : /\ Distance(x, pairs[k][1], pairs[k][2]) > lo
                        /\ Distance(x, pairs[k][1], pairs[k][2]) <= hi}

\* The pairs of drones of ids that are.
PairsInBand(ids, x, lo, hi) ==
  {p \in ToSet(ids) \X ToSet(ids) : /\ p[1] < p[2]
                                    /\ Distance(x, p[1], p[2]) > lo
                                    /\ Distance(x, p[1], p[2]) <= hi}

LEMMA ClassifySelects ==
  ASSUME NEW x \in [Drones -> Int], NEW pairs \in Seq(Drones \X Drones),
         NEW found, found = Classify(pairs, x)
  PROVE  /\ Selects(found.collisions, pairs, PlacesInBand(pairs, x, -1, CollisionRadius))
         /\ Selects(found.nearMisses, pairs,
                    PlacesInBand(pairs, x, CollisionRadius, NearMissRadius))
<1> DEFINE near == {k \in DOMAIN pairs : Distance(x, pairs[k][1], pairs[k][2]) <= CollisionRadius}
           far  == {k \in DOMAIN pairs : /\ Distance(x, pairs[k][1], pairs[k][2]) > CollisionRadius
                                         /\ Distance(x, pairs[k][1], pairs[k][2]) <= NearMissRadius}
           dist == [k \in DOMAIN pairs |-> Distance(x, pairs[k][1], pairs[k][2])]
           coll == [k \in DOMAIN pairs |-> dist[k] <= CollisionRadius]
           miss == [k \in DOMAIN pairs |-> dist[k] > CollisionRadius /\ dist[k] <= NearMissRadius]
<1>1. /\ found.collisions = Masked(pairs, coll)
      /\ found.nearMisses = Masked(pairs, miss)
  BY DEF Classify
<1>2. /\ near \in SUBSET (1 .. Len(pairs))
      /\ far \in SUBSET (1 .. Len(pairs))
      /\ Len(pairs) \in Nat
  <2>1. DOMAIN pairs = 1 .. Len(pairs) /\ Len(pairs) \in Nat
    BY LenProperties
  <2>2. QED
    BY <2>1
<1>3. near = PlacesInBand(pairs, x, -1, CollisionRadius)
  <2>1. \A k \in DOMAIN pairs : Distance(x, pairs[k][1], pairs[k][2]) \in Nat
    <3>1. TAKE k \in DOMAIN pairs
    <3>2. pairs[k] \in Drones \X Drones
      BY LenProperties
    <3>3. pairs[k][1] \in Drones /\ pairs[k][2] \in Drones
      BY <3>2
    <3>4. QED
      BY <3>3, DistanceType
  <2>2. \A k \in DOMAIN pairs : Distance(x, pairs[k][1], pairs[k][2]) > -1
    BY <2>1
  <2>3. QED
    BY <2>2 DEF PlacesInBand
<1>4. far = PlacesInBand(pairs, x, CollisionRadius, NearMissRadius)
  BY DEF PlacesInBand
<1>a. /\ near = {k \in DOMAIN pairs : coll[k]}
      /\ far = {k \in DOMAIN pairs : miss[k]}
  OBVIOUS
<1> HIDE DEF near, far, coll, miss
<1>5. Selects(found.collisions, pairs, near) /\ Selects(found.nearMisses, pairs, far)
  BY <1>1, <1>2, <1>a, Selection
<1>6. QED
  BY <1>3, <1>4, <1>5

\* Of pairs that list the contacts, those in a band are the pairs of drones in it.
LEMMA BandListed ==
  ASSUME NEW x \in [Drones -> Int], NEW ids \in Seq(Drones),
         NEW pairs, ListsContacts(pairs, ids, x),
         NEW lo \in Int, NEW hi \in Int, hi <= NearMissRadius,
         NEW m, Selects(m, pairs, PlacesInBand(pairs, x, lo, hi))
  PROVE  /\ m \in Seq(Drones \X Drones)
         /\ IsInjective(m)
         /\ ToSet(m) = PairsInBand(ids, x, lo, hi)
<1> DEFINE K == PlacesInBand(pairs, x, lo, hi)
<1>1. /\ pairs \in Seq(Drones \X Drones) /\ IsInjective(pairs)
      /\ \A pair \in ToSet(pairs) : /\ pair \in ToSet(ids) \X ToSet(ids)
                                    /\ pair[1] < pair[2]
      /\ InContact(ids, x) \subseteq ToSet(pairs)
  BY DEF ListsContacts
<1>2. K \in SUBSET (DOMAIN pairs)
  BY DEF PlacesInBand
<1> HIDE DEF K
<1>3. m \in Seq(Drones \X Drones) /\ ToSet(m) = {pairs[k] : k \in K} /\ IsInjective(m)
  BY <1>1, <1>2, SelectedEntries DEF K
<1>4. {pairs[k] : k \in K} \subseteq PairsInBand(ids, x, lo, hi)
  <2>1. SUFFICES ASSUME NEW k \in K PROVE pairs[k] \in PairsInBand(ids, x, lo, hi)
    OBVIOUS
  <2>2. k \in DOMAIN pairs
    BY <1>2
  <2>3. pairs[k] \in ToSet(pairs)
    BY <2>2 DEF ToSet
  <2>4. Distance(x, pairs[k][1], pairs[k][2]) > lo /\ Distance(x, pairs[k][1], pairs[k][2]) <= hi
    BY DEF K, PlacesInBand
  <2>5. QED
    BY <1>1, <2>3, <2>4 DEF PairsInBand
<1>5. PairsInBand(ids, x, lo, hi) \subseteq {pairs[k] : k \in K}
  <2>1. SUFFICES ASSUME NEW p \in PairsInBand(ids, x, lo, hi) PROVE \E k \in K : p = pairs[k]
    OBVIOUS
  <2>2. /\ p \in ToSet(ids) \X ToSet(ids) /\ p[1] < p[2]
        /\ Distance(x, p[1], p[2]) > lo /\ Distance(x, p[1], p[2]) <= hi
    BY DEF PairsInBand
  <2>3. Distance(x, p[1], p[2]) \in Int
    <3>1. p[1] \in Drones /\ p[2] \in Drones
      BY <2>2 DEF ToSet
    <3>2. QED
      BY <3>1, DistanceType
  <2>4. p \in InContact(ids, x)
    BY <2>2, <2>3, KernelAssumption DEF InContact
  <2>5. PICK k \in DOMAIN pairs : p = pairs[k]
    BY <1>1, <2>4 DEF ToSet
  <2>6. k \in K
    BY <2>2, <2>5 DEF K, PlacesInBand
  <2>7. QED
    BY <2>5, <2>6
<1>6. QED
  BY <1>3, <1>4, <1>5

\* Detect() finds the collisions and near misses among ids, each one once.
LEMMA DetectFinds ==
  ASSUME NEW x \in [Drones -> Int], NEW ids \in Seq(Drones), IsInjective(ids),
         NEW found, found = Detect(ids, x)
  PROVE  /\ found.collisions \in Seq(Drones \X Drones)
         /\ IsInjective(found.collisions)
         /\ ToSet(found.collisions) = PairsInBand(ids, x, -1, CollisionRadius)
         /\ found.nearMisses \in Seq(Drones \X Drones)
         /\ IsInjective(found.nearMisses)
         /\ ToSet(found.nearMisses) = PairsInBand(ids, x, CollisionRadius, NearMissRadius)
<1> DEFINE pairs == CandidatePairs(ids, x)
<1>1. ListsContacts(pairs, ids, x)
  BY CandidatesListContacts
<1>2. found = Classify(pairs, x)
  BY DEF Detect
<1> HIDE DEF pairs
<1>3. pairs \in Seq(Drones \X Drones)
  BY <1>1 DEF ListsContacts
<1>4. /\ Selects(found.collisions, pairs, PlacesInBand(pairs, x, -1, CollisionRadius))
      /\ Selects(found.nearMisses, pairs,
                 PlacesInBand(pairs, x, CollisionRadius, NearMissRadius))
  BY <1>2, <1>3, ClassifySelects
<1>5. /\ -1 \in Int /\ CollisionRadius \in Int /\ NearMissRadius \in Int
      /\ CollisionRadius <= NearMissRadius /\ NearMissRadius <= NearMissRadius
  BY KernelAssumption
<1>6. QED
  BY <1>1, <1>4, <1>5, BandListed

LEMMA AllDronesList ==
  AllDrones \in Seq(Drones) /\ IsInjective(AllDrones) /\ ToSet(AllDrones) = Drones
<1>1. NumDrones \in Nat
  BY KernelAssumption
<1>2. \A k \in 1 .. NumDrones : AllDrones[k] = k - 1 /\ k - 1 \in Drones
  BY <1>1 DEF AllDrones, Drones
<1>3. AllDrones \in [1 .. NumDrones -> Drones]
  BY <1>2 DEF AllDrones
<1>4. AllDrones \in Seq(Drones) /\ DOMAIN AllDrones = 1 .. NumDrones
  BY <1>1, <1>3
<1>5. IsInjective(AllDrones)
  BY <1>2, <1>4 DEF IsInjective
<1>6. \A i \in Drones : i + 1 \in 1 .. NumDrones /\ (i + 1) - 1 = i
  BY <1>1 DEF Drones
<1>7. \A i \in Drones : \E k \in 1 .. NumDrones : AllDrones[k] = i
  BY <1>2, <1>6
<1>8. ToSet(AllDrones) = Drones
  BY <1>2, <1>4, <1>7 DEF ToSet
<1>9. QED
  BY <1>4, <1>5, <1>8

\* Over all drones, Detect() finds what the brute-force detector does.
LEMMA DetectsAll ==
  ASSUME NEW x \in [Drones -> Int], NEW found, found = Detect(AllDrones, x)
  PROVE  ExactlyOnce(found, x)
<1>1. /\ BruteForce(x)["collisions"] = PairsInBand(AllDrones, x, -1, CollisionRadius)
      /\ BruteForce(x)["nearMisses"] = PairsInBand(AllDrones, x, CollisionRadius, NearMissRadius)
  BY AllDronesList DEF BruteForce, PairsInBand
<1>2. /\ IsInjective(found.collisions)
      /\ ToSet(found.collisions) = PairsInBand(AllDrones, x, -1, CollisionRadius)
      /\ IsInjective(found.nearMisses)
      /\ ToSet(found.nearMisses) = PairsInBand(AllDrones, x, CollisionRadius, NearMissRadius)
  BY AllDronesList, DetectFinds
<1>3. QED
  BY <1>1, <1>2 DEF ExactlyOnce

-----------------------------------------------------------------------------
(***************************************************************************)
(* Resolution, pair by pair.                                               *)
(***************************************************************************)
States == [pos : [Drones -> Int], vel : [Drones -> Int]]

\* after[k] is what the first k pairs leave.
Resolves(after, s, pairs) ==
  /\ after \in [0 .. Len(pairs) -> States]
  /\ after[0] = s
  /\ \A k \in 1 .. Len(pairs) : after[k] = ResolvePair(after[k - 1], pairs[k])

\* What a resolution does to its two drones, and to no other: the velocities
\* are exchanged, and an overlap is halved.
LEMMA ResolvePairEffect ==
  ASSUME NEW s \in States, NEW i \in Drones, NEW j \in Drones, i # j,
         NEW t, t = ResolvePair(s, <<i, j>>)
  PROVE  /\ t \in States
         /\ \A k \in Drones \ {i, j} : t.pos[k] = s.pos[k] /\ t.vel[k] = s.vel[k]
         /\ t.vel[i] = s.vel[j] /\ t.vel[j] = s.vel[i]
         /\ t.pos[i] + t.pos[j] = s.pos[i] + s.pos[j]
         /\ t.pos[i] = s.pos[i]
              + (IF CollisionRadius > Distance(s.pos, i, j)
                   THEN (IF s.pos[i] >= s.pos[j] THEN 1 ELSE -1)
                          * ((CollisionRadius - Distance(s.pos, i, j)) \div 2)
                   ELSE 0)
<1> DEFINE d == CollisionRadius - Distance(s.pos, i, j)
           h == d \div 2
           shift == IF d > 0 THEN (IF s.pos[i] >= s.pos[j] THEN 1 ELSE -1) * h ELSE 0
<1>1. /\ s.pos \in [Drones -> Int] /\ s.vel \in [Drones -> Int]
      /\ s.pos[i] \in Int /\ s.pos[j] \in Int
  BY DEF States
<1>2. d \in Int /\ (d > 0 <=> CollisionRadius > Distance(s.pos, i, j))
  BY <1>1, KernelAssumption DEF Distance
<1>3. shift \in Int
  <2> HIDE DEF d
  <2>1. h \in Int
    BY <1>2
  <2> HIDE DEF h
  <2>2. QED
    BY <2>1
<1>4. /\ t.pos = [s.pos EXCEPT ![i] = @ + shift, ![j] = @ - shift]
      /\ t.vel = [s.vel EXCEPT ![i] = s.vel[j], ![j] = s.vel[i]]
      /\ t = [pos |-> t.pos, vel |-> t.vel]
  BY DEF ResolvePair
<1>5. shift = (IF CollisionRadius > Distance(s.pos, i, j)
                 THEN (IF s.pos[i] >= s.pos[j] THEN 1 ELSE -1)
                        * ((CollisionRadius - Distance(s.pos, i, j)) \div 2)
                 ELSE 0)
  BY <1>2
<1> HIDE DEF d, h, shift
<1>6. /\ t.pos \in [Drones -> Int]
      /\ t.pos[i] = s.pos[i] + shift
      /\ t.pos[j] = s.pos[j] - shift
      /\ \A k \in Drones \ {i, j} : t.pos[k] = s.pos[k]
  BY <1>1, <1>3, <1>4
<1>7. /\ t.vel \in [Drones -> Int]
      /\ t.vel[i] = s.vel[j] /\ t.vel[j] = s.vel[i]
      /\ \A k \in Drones \ {i, j} : t.vel[k] = s.vel[k]
  BY <1>1, <1>4
<1>8. t \in States
  <2>1. [pos |-> t.pos, vel |-> t.vel] \in States
    BY <1>6, <1>7 DEF States
  <2>2. QED
    BY <1>4, <2>1
<1>9. t.pos[i] + t.pos[j] = s.pos[i] + s.pos[j]
  BY <1>1, <1>3, <1>6
<1>10. QED
  BY <1>5, <1>6, <1>7, <1>8, <1>9

\* The equation of the fold in Resolve().
ResolvesUpTo(iter, s, pairs) ==
  iter = [T \in SUBSET (DOMAIN pairs) |->
            IF T = {} THEN s ELSE ResolvePair(iter[T \ {Max(T)}], pairs[Max(T)])]

Resolvable(pairs) ==
  /\ pairs \in Seq(Drones \X Drones)
  /\ \A k \in DOMAIN pairs : pairs[k][1] < pairs[k][2]

LEMMA ResolvePairType ==
  ASSUME NEW s \in States, NEW pairs, Resolvable(pairs), NEW k \in DOMAIN pairs
  PROVE  ResolvePair(s, pairs[k]) \in States
<1>1. pairs[k] \in Drones \X Drones /\ pairs[k][1] < pairs[k][2]
  BY LenProperties DEF Resolvable
<1>2. pairs[k] = <<pairs[k][1], pairs[k][2]>> /\ pairs[k][1] \in Drones /\ pairs[k][2] \in Drones
  BY <1>1
<1>3. pairs[k][1] # pairs[k][2]
  BY <1>1, <1>2, KernelAssumption DEF Drones
<1>4. ResolvePair(s, <<pairs[k][1], pairs[k][2]>>) \in States
  BY <1>2, <1>3, ResolvePairEffect
<1>5. QED
  BY <1>2, <1>4

LEMMA ResolvesUpToExists ==
  ASSUME NEW s \in States, NEW pairs, Resolvable(pairs)
  PROVE  \E iter : ResolvesUpTo(iter, s, pairs)
<1> DEFINE D == DOMAIN pairs
           next == [q \in States \X D |-> ResolvePair(q[1], pairs[q[2]])]
           pick == [T \in SUBSET D |-> Max(T)]
<1>1. D = 1 .. Len(pairs) /\ Len(pairs) \in Nat /\ IsFiniteSet(D)
  BY PlacesOf DEF Resolvable
<1>2. next \in [States \X D -> States]
  <2>1. ASSUME NEW q \in States \X D PROVE ResolvePair(q[1], pairs[q[2]]) \in States
    <3>1. q[1] \in States /\ q[2] \in D
      OBVIOUS
    <3>2. QED
      BY <3>1, ResolvePairType
  <2>2. QED
    BY <2>1
<1>3. Picks(pick, D)
  BY <1>1, LargestOfSet DEF Picks
<1>4. PICK g \in [SUBSET D -> States] : IsFold(g, D, s, next, pick)
  <2> HIDE DEF D, next, pick
  <2>1. QED
    BY <1>1, <1>2, <1>3, FoldExists
<1>5. ASSUME NEW T \in SUBSET D, T # {}
      PROVE  g[T] = ResolvePair(g[T \ {Max(T)}], pairs[Max(T)])
  <2> DEFINE y == Max(T)
  <2>1. y \in T /\ pick[T] = y
    BY <1>1, <1>5, LargestOfSet
  <2>2. y \in D /\ g[T \ {y}] \in States
    BY <2>1
  <2>3. g[T] = next[<<g[T \ {y}], y>>]
    BY <1>4, <1>5, <2>1 DEF IsFold
  <2> HIDE DEF y
  <2>4. next[<<g[T \ {y}], y>>] = ResolvePair(g[T \ {y}], pairs[y])
    BY <2>2
  <2>5. QED
    BY <2>3, <2>4 DEF y
<1>6. \A T \in SUBSET D : g[T] = IF T = {} THEN s
                                 ELSE ResolvePair(g[T \ {Max(T)}], pairs[Max(T)])
  BY <1>4, <1>5 DEF IsFold
<1>7. ResolvesUpTo(g, s, pairs)
  BY <1>6, Zenon DEF ResolvesUpTo
<1>8. QED
  BY <1>7

LEMMA ResolveUnrolled ==
  ASSUME NEW s \in States, NEW pairs, Resolvable(pairs)
  PROVE  \E after : Resolves(after, s, pairs) /\ Resolve(s, pairs) = after[Len(pairs)]
<1> DEFINE iter == CHOOSE iter : ResolvesUpTo(iter, s, pairs)
           n == Len(pairs)
           after == [k \in 0 .. n |-> iter[1 .. k]]
<1>1. ResolvesUpTo(iter, s, pairs)
  BY ResolvesUpToExists
<1>2. n \in Nat /\ DOMAIN pairs = 1 .. n
  BY PlacesOf DEF Resolvable
<1>3. Resolve(s, pairs) = iter[DOMAIN pairs]
  BY DEF Resolve, FoldLeft, MapThenFoldSet, ResolvesUpTo
<1> HIDE DEF iter
<1>4. \A T \in SUBSET (1 .. n) : iter[T] = IF T = {} THEN s
                                   ELSE ResolvePair(iter[T \ {Max(T)}], pairs[Max(T)])
  BY <1>1, <1>2 DEF ResolvesUpTo
<1>5. after[0] = s
  <2>1. 1 .. 0 = {} /\ 0 \in 0 .. n /\ {} \in SUBSET (1 .. n)
    BY <1>2
  <2>2. QED
    BY <1>4, <2>1
<1>6. ASSUME NEW k \in 1 .. n PROVE after[k] = ResolvePair(after[k - 1], pairs[k])
  <2>1. k \in Nat /\ k # 0 /\ k \in 0 .. n /\ k - 1 \in 0 .. n /\ 1 .. k \in SUBSET (1 .. n) /\ 1 .. k # {}
    <3>1. k \in Nat /\ k # 0 /\ k \in 0 .. n /\ k - 1 \in 0 .. n /\ 1 .. k \in SUBSET (1 .. n)
      BY <1>2
    <3>2. k \in 1 .. k
      BY <1>2
    <3>3. QED
      BY <3>1, <3>2
  <2>2. Max(1 .. k) = k /\ (1 .. k) \ {k} = 1 .. (k - 1)
    BY <2>1, LargestOfInterval
  <2>3. iter[1 .. k] = ResolvePair(iter[1 .. (k - 1)], pairs[k])
    BY <1>4, <2>1, <2>2
  <2>4. QED
    BY <2>1, <2>3
<1>7. \A k \in 0 .. n : after[k] \in States
  <2> DEFINE N == {k \in Nat : k <= n => after[k] \in States}
  <2>1. 0 \in N
    BY <1>5
  <2> HIDE DEF after
  <2>2. ASSUME NEW k \in Nat, k \in N PROVE k + 1 \in N
    <3>1. SUFFICES ASSUME k + 1 <= n PROVE after[k + 1] \in States
      OBVIOUS
    <3>2. k + 1 \in 1 .. n /\ (k + 1) - 1 = k /\ after[k] \in States
      BY <1>2, <2>2, <3>1
    <3>3. after[k + 1] = ResolvePair(after[k], pairs[k + 1])
      BY <1>6, <3>2
    <3>4. QED
      BY <1>2, <3>2, <3>3, ResolvePairType
  <2>3. Nat \subseteq N
    <3> HIDE DEF N
    <3>1. QED
      BY <2>1, <2>2, NumberInduction
  <2>4. QED
    BY <1>2, <2>3
<1>8. Resolves(after, s, pairs)
  BY <1>2, <1>5, <1>6, <1>7 DEF Resolves
<1>9. Resolve(s, pairs) = after[n]
  BY <1>2, <1>3
<1>10. QED
  BY <1>8, <1>9

-----------------------------------------------------------------------------
(***************************************************************************)
(* Energy.                                                                 *)
(***************************************************************************)
LEMMA DronesFinite == IsFiniteSet(Drones) /\ Drones \subseteq Int
<1>1. 0 \in Int /\ NumDrones - 1 \in Int
  BY KernelAssumption
<1>2. IsFiniteSet(0 .. NumDrones - 1)
  BY <1>1, FS_Interval
<1>3. QED
  BY <1>1, <1>2 DEF Drones

Squares(v) == [i \in Drones |-> Square(v[i])]

LEMMA EnergyIsTotal ==
  ASSUME NEW v \in [Drones -> Int]
  PROVE  /\ \A i \in Drones : Squares(v)[i] = Square(v[i]) /\ Squares(v)[i] \in Int
         /\ Energy(v) = Total(Squares(v), Drones)
<1>1. \A i \in Drones : Squares(v)[i] = Square(v[i]) /\ Squares(v)[i] \in Int
  BY DEF Squares, Square
<1>2. Energy(v) = Total(Squares(v), Drones)
  BY DEF Energy, Total, MapThenSumSet, MapThenFoldSet, SumsUp, Squares
<1>3. QED
  BY <1>1, <1>2

LEMMA DronesSwap ==
  ASSUME NEW f, \A k \in Drones : f[k] \in Int, NEW i \in Drones, NEW j \in Drones,
         NEW g, Exchanged(g, f, Drones, i, j)
  PROVE  Total(g, Drones) = Total(f, Drones)
<1>1. IsFiniteSet(Drones) /\ \A k \in Drones : f[k] \in Int
  BY DronesFinite
<1>2. QED
  BY <1>1, TotalSwap

LEMMA EnergySwap ==
  ASSUME NEW v \in [Drones -> Int], NEW u \in [Drones -> Int], NEW i \in Drones, NEW j \in Drones,
         Exchanged(u, v, Drones, i, j)
  PROVE  Energy(u) = Energy(v)
<1>1. /\ \A k \in Drones : Squares(v)[k] \in Int /\ Squares(v)[k] = Square(v[k])
      /\ \A k \in Drones : Squares(u)[k] = Square(u[k])
      /\ Energy(v) = Total(Squares(v), Drones) /\ Energy(u) = Total(Squares(u), Drones)
  BY EnergyIsTotal
<1>2. Exchanged(Squares(u), Squares(v), Drones, i, j)
  BY <1>1 DEF Exchanged
<1>3. \A k \in Drones : Squares(v)[k] \in Int
  BY <1>1
<1>4. Total(Squares(u), Drones) = Total(Squares(v), Drones)
  BY <1>2, <1>3, DronesSwap
<1>5. QED
  BY <1>1, <1>4

LEMMA EnergyOrder ==
  ASSUME NEW v \in [Drones -> Int], NEW u \in [Drones -> Int],
         \A k \in Drones : Square(u[k]) <= Square(v[k])
  PROVE  Energy(u) <= Energy(v)
<1> DEFINE f == Squares(v)
           g == Squares(u)
<1>1. /\ \A k \in Drones : f[k] \in Int /\ f[k] = Square(v[k])
      /\ \A k \in Drones : g[k] \in Int /\ g[k] = Square(u[k])
      /\ Energy(v) = Total(f, Drones) /\ Energy(u) = Total(g, Drones)
  BY EnergyIsTotal
<1> HIDE DEF f, g
<1>2. Total(g, Drones) <= Total(f, Drones)
  BY <1>1, DronesFinite, TotalOrder
<1>3. QED
  BY <1>1, <1>2

LEMMA EnergyEqual ==
  ASSUME NEW v \in [Drones -> Int], NEW u \in [Drones -> Int],
         \A k \in Drones : Square(u[k]) = Square(v[k])
  PROVE  Energy(u) = Energy(v)
<1> DEFINE f == Squares(v)
           g == Squares(u)
<1>1. /\ \A k \in Drones : f[k] \in Int /\ f[k] = Square(v[k])
      /\ \A k \in Drones : g[k] \in Int /\ g[k] = Square(u[k])
      /\ Energy(v) = Total(f, Drones) /\ Energy(u) = Total(g, Drones)
  BY EnergyIsTotal
<1> HIDE DEF f, g
<1>2. \A k \in Drones : g[k] \in Int /\ g[k] = f[k]
  BY <1>1
<1>3. Total(g, Drones) = Total(f, Drones)
  BY <1>2, DronesFinite, TotalEqual
<1>4. QED
  BY <1>1, <1>3

\* The kinetic energy after a collision is the one before it.
LEMMA ResolveKeepsEnergy ==
  ASSUME NEW s \in States, NEW pairs, Resolvable(pairs)
  PROVE  Resolve(s, pairs) \in States /\ Energy(Resolve(s, pairs).vel) = Energy(s.vel)
<1> DEFINE n == Len(pairs)
<1>1. n \in Nat /\ DOMAIN pairs = 1 .. n
  BY PlacesOf DEF Resolvable
<1>2. PICK after : Resolves(after, s, pairs) /\ Resolve(s, pairs) = after[n]
  BY ResolveUnrolled
<1>3. /\ \A k \in 0 .. n : after[k] \in States
      /\ after[0] = s
      /\ \A k \in 1 .. n : after[k] = ResolvePair(after[k - 1], pairs[k])
  BY <1>2 DEF Resolves
<1> DEFINE N == {k \in Nat : k <= n => Energy(after[k].vel) = Energy(s.vel)}
<1>4. 0 \in N
  BY <1>3
<1>5. ASSUME NEW k \in Nat, k \in N PROVE k + 1 \in N
  <2>1. SUFFICES ASSUME k + 1 <= n PROVE Energy(after[k + 1].vel) = Energy(s.vel)
    OBVIOUS
  <2>2. k + 1 \in 1 .. n /\ (k + 1) - 1 = k /\ k \in 0 .. n
    BY <1>1, <2>1
  <2>3. pairs[k + 1] \in Drones \X Drones /\ pairs[k + 1][1] < pairs[k + 1][2]
    BY <1>1, <2>2, LenProperties DEF Resolvable
  <2> DEFINE i == pairs[k + 1][1]
             j == pairs[k + 1][2]
  <2>4. i \in Drones /\ j \in Drones /\ pairs[k + 1] = <<i, j>>
    BY <2>3
  <2>5. i # j
    BY <2>3, <2>4, KernelAssumption DEF Drones
  <2>6. after[k] \in States /\ after[k + 1] = ResolvePair(after[k], <<i, j>>)
    BY <1>3, <2>2, <2>4
  <2> HIDE DEF i, j
  <2>7. /\ Exchanged(after[k + 1].vel, after[k].vel, Drones, i, j)
        /\ after[k + 1] \in States
    BY <2>4, <2>5, <2>6, ResolvePairEffect DEF Exchanged
  <2>8. Energy(after[k + 1].vel) = Energy(after[k].vel)
    <3>1. after[k].vel \in [Drones -> Int] /\ after[k + 1].vel \in [Drones -> Int]
      BY <2>6, <2>7 DEF States
    <3>2. QED
      BY <2>4, <2>7, <3>1, EnergySwap
  <2>9. QED
    BY <1>5, <2>2, <2>8
<1>6. Nat \subseteq N
  <2> HIDE DEF N
  <2>1. QED
    BY <1>4, <1>5, NumberInduction
<1>7. QED
  BY <1>1, <1>2, <1>3, <1>6

-----------------------------------------------------------------------------
(***************************************************************************)
(* Collisions that no other collision touches.                             *)
(***************************************************************************)
Same(s, t, i) == s.pos[i] = t.pos[i] /\ s.vel[i] = t.vel[i]

LEMMA ResolvePairIsLocal ==
  ASSUME NEW s \in States, NEW t \in States, NEW i \in Drones, NEW j \in Drones, i # j,
         Same(s, t, i), Same(s, t, j)
  PROVE  /\ Same(ResolvePair(s, <<i, j>>), ResolvePair(t, <<i, j>>), i)
         /\ Same(ResolvePair(s, <<i, j>>), ResolvePair(t, <<i, j>>), j)
<1> DEFINE a == ResolvePair(s, <<i, j>>)
           b == ResolvePair(t, <<i, j>>)
           shift == IF CollisionRadius > Distance(s.pos, i, j)
                      THEN (IF s.pos[i] >= s.pos[j] THEN 1 ELSE -1)
                             * ((CollisionRadius - Distance(s.pos, i, j)) \div 2)
                      ELSE 0
<1>1. /\ s.pos[i] = t.pos[i] /\ s.pos[j] = t.pos[j]
      /\ s.vel[i] = t.vel[i] /\ s.vel[j] = t.vel[j]
      /\ Distance(s.pos, i, j) = Distance(t.pos, i, j)
  BY DEF Same, Distance
<1>2. /\ a \in States /\ a.vel[i] = s.vel[j] /\ a.vel[j] = s.vel[i]
      /\ a.pos[i] + a.pos[j] = s.pos[i] + s.pos[j]
      /\ a.pos[i] = s.pos[i] + shift
  BY ResolvePairEffect
<1>3. /\ b \in States /\ b.vel[i] = t.vel[j] /\ b.vel[j] = t.vel[i]
      /\ b.pos[i] + b.pos[j] = t.pos[i] + t.pos[j]
      /\ b.pos[i] = t.pos[i] + shift
  <2>1. shift = IF CollisionRadius > Distance(t.pos, i, j)
                  THEN (IF t.pos[i] >= t.pos[j] THEN 1 ELSE -1)
                         * ((CollisionRadius - Distance(t.pos, i, j)) \div 2)
                  ELSE 0
    BY <1>1, Zenon
  <2> HIDE DEF shift
  <2>2. QED
    BY <2>1, ResolvePairEffect
<1> HIDE DEF a, b, shift
<1>4. /\ a.pos[i] \in Int /\ a.pos[j] \in Int /\ b.pos[i] \in Int /\ b.pos[j] \in Int
      /\ s.pos[i] \in Int /\ s.pos[j] \in Int
  BY <1>2, <1>3 DEF States
<1>5. a.pos[i] = b.pos[i] /\ a.vel[i] = b.vel[i] /\ a.vel[j] = b.vel[j]
  BY <1>1, <1>2, <1>3
<1>6. a.pos[j] = b.pos[j]
  <2>1. a.pos[j] = (s.pos[i] + s.pos[j]) - a.pos[i]
    BY <1>2, <1>4
  <2>2. b.pos[j] = (t.pos[i] + t.pos[j]) - b.pos[i]
    BY <1>1, <1>3, <1>4
  <2>3. QED
    BY <1>1, <1>5, <2>1, <2>2, Zenon
<1>7. QED
  BY <1>5, <1>6 DEF Same, a, b

LEMMA NextPlace ==
  ASSUME NEW lo \in Nat, NEW hi \in Nat, NEW n \in Nat, hi <= n,
         NEW h \in Nat, lo + (h + 1) <= hi
  PROVE  /\ lo + (h + 1) \in (lo + 1) .. hi /\ lo + (h + 1) \in 1 .. n
         /\ (lo + (h + 1)) - 1 = lo + h /\ (lo + (h + 1)) - 1 \in 0 .. n
         /\ lo + h <= hi
OBVIOUS

\* A drone that none of the pairs from lo + 1 to hi has stays as it is.
LEMMA UntouchedMeanwhile ==
  ASSUME NEW s, NEW pairs, Resolvable(pairs), NEW after, Resolves(after, s, pairs),
         NEW lo \in 0 .. Len(pairs), NEW hi \in lo .. Len(pairs), NEW i \in Drones,
         \A m \in (lo + 1) .. hi : i # pairs[m][1] /\ i # pairs[m][2]
  PROVE  Same(after[hi], after[lo], i)
<1> DEFINE n == Len(pairs)
           N == {h \in Nat : lo + h <= hi => Same(after[lo + h], after[lo], i)}
<1>1. n \in Nat /\ DOMAIN pairs = 1 .. n
  BY PlacesOf DEF Resolvable
<1>2. /\ \A k \in 0 .. n : after[k] \in States
      /\ \A k \in 1 .. n : after[k] = ResolvePair(after[k - 1], pairs[k])
  BY DEF Resolves
<1> HIDE DEF n
<1>3. lo \in Nat /\ hi \in Nat /\ lo <= hi /\ hi <= n
  BY <1>1 DEF n
<1>4. 0 \in N
  BY <1>3 DEF Same
<1>5. ASSUME NEW h \in Nat, h \in N PROVE h + 1 \in N
  <2>1. SUFFICES ASSUME lo + (h + 1) <= hi PROVE Same(after[lo + (h + 1)], after[lo], i)
    OBVIOUS
  <2> DEFINE m == lo + (h + 1)
  <2>2. /\ m \in (lo + 1) .. hi /\ m \in 1 .. n /\ m - 1 = lo + h /\ m - 1 \in 0 .. n
        /\ lo + h <= hi
    BY <1>1, <1>3, <2>1, NextPlace
  <2> HIDE DEF m
  <2>3. Same(after[m - 1], after[lo], i)
    BY <1>5, <2>2
  <2>4. pairs[m] \in Drones \X Drones /\ pairs[m][1] < pairs[m][2]
    BY <1>1, <2>2, LenProperties DEF Resolvable
  <2>5. /\ pairs[m] = <<pairs[m][1], pairs[m][2]>>
        /\ pairs[m][1] \in Drones /\ pairs[m][2] \in Drones /\ pairs[m][1] # pairs[m][2]
    BY <2>4, KernelAssumption DEF Drones
  <2>6. after[m] = ResolvePair(after[m - 1], <<pairs[m][1], pairs[m][2]>>) /\ after[m - 1] \in States
    BY <1>2, <2>2, <2>5
  <2>7. i \in Drones \ {pairs[m][1], pairs[m][2]}
    BY <2>2
  <2>8. Same(after[m], after[m - 1], i)
    BY <2>5, <2>6, <2>7, ResolvePairEffect DEF Same
  <2>9. Same(after[m], after[lo], i)
    BY <2>3, <2>8 DEF Same
  <2>10. QED
    BY <2>9 DEF m
<1>6. Nat \subseteq N
  <2> HIDE DEF N
  <2>1. QED
    BY <1>4, <1>5, NumberInduction
<1>7. hi - lo \in N /\ lo + (hi - lo) = hi
  <2>1. hi - lo \in Nat /\ lo + (hi - lo) = hi
    BY <1>3
  <2> HIDE DEF N
  <2>2. QED
    BY <1>6, <2>1
<1>8. QED
  BY <1>3, <1>7

\* No other of the pairs has a drone of the k-th.
Lone(pairs, k) ==
  \A m \in DOMAIN pairs \ {k} : {pairs[k][1], pairs[k][2]} \intersect ToSet(pairs[m]) = {}

\* A pair that no other touches ends as if it had been resolved alone.
LEMMA LonePairResolved ==
  ASSUME NEW s \in States, NEW pairs, Resolvable(pairs), NEW k \in DOMAIN pairs, Lone(pairs, k)
  PROVE  /\ Same(Resolve(s, pairs), ResolvePair(s, pairs[k]), pairs[k][1])
         /\ Same(Resolve(s, pairs), ResolvePair(s, pairs[k]), pairs[k][2])
<1> DEFINE n == Len(pairs)
           i == pairs[k][1]
           j == pairs[k][2]
<1>1. n \in Nat /\ DOMAIN pairs = 1 .. n
  BY PlacesOf DEF Resolvable
<1>2. PICK after : Resolves(after, s, pairs) /\ Resolve(s, pairs) = after[n]
  BY ResolveUnrolled
<1>3. /\ \A m \in 0 .. n : after[m] \in States
      /\ after[0] = s
      /\ after[k] = ResolvePair(after[k - 1], pairs[k])
  BY <1>1, <1>2 DEF Resolves
<1>4. i \in Drones /\ j \in Drones /\ i # j /\ pairs[k] = <<i, j>>
  <2>1. pairs[k] \in Drones \X Drones /\ pairs[k][1] < pairs[k][2]
    BY LenProperties DEF Resolvable
  <2>2. QED
    BY <2>1, KernelAssumption DEF Drones
<1>5. ASSUME NEW m \in DOMAIN pairs, m # k
      PROVE  /\ i # pairs[m][1] /\ i # pairs[m][2]
             /\ j # pairs[m][1] /\ j # pairs[m][2]
  <2>1. pairs[m] \in Drones \X Drones
    BY LenProperties DEF Resolvable
  <2>2. pairs[m][1] \in ToSet(pairs[m]) /\ pairs[m][2] \in ToSet(pairs[m])
    BY <2>1 DEF ToSet
  <2>3. {i, j} \intersect ToSet(pairs[m]) = {}
    BY <1>5 DEF Lone
  <2>4. QED
    BY <2>2, <2>3
<1>6. k \in 1 .. n /\ k - 1 \in 0 .. n /\ k \in 0 .. n /\ 0 \in 0 .. n /\ n \in k .. n /\ k - 1 \in 0 .. n
  BY <1>1
<1> HIDE DEF n, i, j
<1>7. Same(after[k - 1], s, i) /\ Same(after[k - 1], s, j)
  <2>1. \A m \in (0 + 1) .. (k - 1) : m \in DOMAIN pairs /\ m # k
    BY <1>1, <1>6
  <2>2. \A m \in (0 + 1) .. (k - 1) : /\ i # pairs[m][1] /\ i # pairs[m][2]
                                      /\ j # pairs[m][1] /\ j # pairs[m][2]
    BY <1>5, <2>1
  <2>3. Same(after[k - 1], after[0], i) /\ Same(after[k - 1], after[0], j)
    BY <1>2, <1>4, <1>6, <2>2, UntouchedMeanwhile DEF n
  <2>4. QED
    BY <1>3, <2>3
<1>8. Same(after[n], after[k], i) /\ Same(after[n], after[k], j)
  <2>1. \A m \in (k + 1) .. n : m \in DOMAIN pairs /\ m # k
    BY <1>1, <1>6
  <2>2. \A m \in (k + 1) .. n : /\ i # pairs[m][1] /\ i # pairs[m][2]
                                /\ j # pairs[m][1] /\ j # pairs[m][2]
    BY <1>5, <2>1
  <2>3. QED
    BY <1>2, <1>4, <1>6, <2>2, UntouchedMeanwhile DEF n
<1>9. /\ Same(ResolvePair(after[k - 1], <<i, j>>), ResolvePair(s, <<i, j>>), i)
      /\ Same(ResolvePair(after[k - 1], <<i, j>>), ResolvePair(s, <<i, j>>), j)
  BY <1>3, <1>4, <1>6, <1>7, ResolvePairIsLocal
<1>10. Same(after[n], ResolvePair(s, pairs[k]), i) /\ Same(after[n], ResolvePair(s, pairs[k]), j)
  BY <1>3, <1>4, <1>8, <1>9 DEF Same
<1>11. QED
  BY <1>2, <1>10 DEF i, j

-----------------------------------------------------------------------------
(***************************************************************************)
(* Steering.                                                               *)
(***************************************************************************)
\* The rows of predictions that have drone i.
PlacesOfDrone(i, predictions) ==
  {k \in DOMAIN predictions : predictions[k].pair[1] = i \/ predictions[k].pair[2] = i}

\* Predictions made for pairs of drones in state s.
Predicted(predictions, s) ==
  /\ predictions \in Seq({Prediction(p, s) : p \in Drones \X Drones})
  /\ \A k \in DOMAIN predictions : predictions[k].pair[1] # predictions[k].pair[2]

LEMMA JoinedEntries ==
  ASSUME NEW T, NEW u \in Seq(T), NEW v \in Seq(T)
  PROVE  u \o v \in Seq(T) /\ ToSet(u \o v) = ToSet(u) \union ToSet(v)
<1> DEFINE w == u \o v
<1>1. /\ w \in Seq(T) /\ Len(w) = Len(u) + Len(v)
      /\ \A k \in 1 .. Len(u) + Len(v) : w[k] = IF k <= Len(u) THEN u[k] ELSE v[k - Len(u)]
  BY ConcatProperties
<1>2. /\ DOMAIN u = 1 .. Len(u) /\ DOMAIN v = 1 .. Len(v) /\ DOMAIN w = 1 .. Len(w)
      /\ Len(u) \in Nat /\ Len(v) \in Nat
  BY <1>1, PlacesOf
<1> DEFINE a == Len(u)
           b == Len(v)
<1> HIDE DEF a, b, w
<1>3. \A k \in DOMAIN w : w[k] \in ToSet(u) \union ToSet(v)
  <2>1. TAKE k \in DOMAIN w
  <2>2. k \in 1 .. (a + b) /\ w[k] = IF k <= a THEN u[k] ELSE v[k - a]
    BY <1>1, <1>2 DEF a, b
  <2>3. (k <= a => k \in 1 .. a) /\ (~ (k <= a) => k - a \in 1 .. b) /\ a \in Nat /\ b \in Nat
    BY <1>2, <2>2 DEF a, b
  <2>4. QED
    BY <1>2, <2>2, <2>3 DEF ToSet, a, b
<1>4. \A k \in DOMAIN u : u[k] \in ToSet(w)
  <2>1. TAKE k \in DOMAIN u
  <2>2. k \in DOMAIN w /\ w[k] = u[k]
    BY <1>1, <1>2
  <2>3. QED
    BY <2>2 DEF ToSet
<1>5. \A k \in DOMAIN v : v[k] \in ToSet(w)
  <2>1. TAKE k \in DOMAIN v
  <2>2. /\ k + a \in 1 .. (a + b) /\ ~ (k + a <= a) /\ (k + a) - a = k
    BY <1>2 DEF a, b
  <2>3. k + a \in DOMAIN w /\ w[k + a] = v[k]
    BY <1>1, <1>2, <2>2 DEF a, b
  <2>4. QED
    BY <2>3 DEF ToSet
<1>6. /\ ToSet(w) = {w[k] : k \in DOMAIN w}
      /\ ToSet(u) = {u[k] : k \in DOMAIN u}
      /\ ToSet(v) = {v[k] : k \in DOMAIN v}
  BY DEF ToSet
<1>7. \A y \in ToSet(w) : y \in ToSet(u) \union ToSet(v)
  BY <1>3, <1>6
<1>8. \A y \in ToSet(u) : y \in ToSet(w)
  BY <1>4, <1>6
<1>9. \A y \in ToSet(v) : y \in ToSet(w)
  BY <1>5, <1>6
<1>10. ToSet(w) = ToSet(u) \union ToSet(v)
  BY <1>7, <1>8, <1>9
<1>11. QED
  BY <1>1, <1>10 DEF w

LEMMA RowsListed ==
  ASSUME NEW s, NEW predictions, Predicted(predictions, s), NEW i, NEW rows, rows = Rows(i, predictions)
  PROVE  /\ rows \in Seq({Prediction(p, s) : p \in Drones \X Drones})
         /\ ToSet(rows) = {predictions[k] : k \in PlacesOfDrone(i, predictions)}
<1> DEFINE T     == {Prediction(p, s) : p \in Drones \X Drones}
           first  == {k \in DOMAIN predictions : predictions[k].pair[1] = i}
           second == {k \in DOMAIN predictions : predictions[k].pair[2] = i}
           as(c) == [k \in DOMAIN predictions |-> predictions[k].pair[c] = i]
           m1 == Masked(predictions, as(1))
           m2 == Masked(predictions, as(2))
<1>1. rows = m1 \o m2
  BY DEF Rows
<1>2. predictions \in Seq(T) /\ Len(predictions) \in Nat /\ DOMAIN predictions = 1 .. Len(predictions)
  BY PlacesOf DEF Predicted
<1>3. /\ first \in SUBSET (DOMAIN predictions) /\ second \in SUBSET (DOMAIN predictions)
      /\ first \in SUBSET (1 .. Len(predictions)) /\ second \in SUBSET (1 .. Len(predictions))
  BY <1>2
<1>4. first \union second = PlacesOfDrone(i, predictions)
  BY DEF PlacesOfDrone
<1>a. /\ first = {k \in DOMAIN predictions : as(1)[k]}
      /\ second = {k \in DOMAIN predictions : as(2)[k]}
  OBVIOUS
<1> HIDE DEF T, first, second, as
<1>5. Selects(m1, predictions, first) /\ Selects(m2, predictions, second)
  BY <1>2, <1>3, <1>a, Selection
<1> HIDE DEF m1, m2
<1>6. /\ m1 \in Seq(T) /\ ToSet(m1) = {predictions[k] : k \in first}
      /\ m2 \in Seq(T) /\ ToSet(m2) = {predictions[k] : k \in second}
  BY <1>2, <1>3, <1>5, SelectedEntries
<1>7. rows \in Seq(T) /\ ToSet(rows) = ToSet(m1) \union ToSet(m2)
  <2>1. m1 \in Seq(T) /\ m2 \in Seq(T)
    BY <1>6
  <2>2. m1 \o m2 \in Seq(T) /\ ToSet(m1 \o m2) = ToSet(m1) \union ToSet(m2)
    BY <2>1, JoinedEntries
  <2>3. QED
    BY <1>1, <2>2
<1>8. ToSet(m1) \union ToSet(m2) = {predictions[k] : k \in first \union second}
  BY <1>6
<1>9. QED
  BY <1>4, <1>7, <1>8 DEF T

\* MostUrgent() picks one of the rows.
LEMMA MostUrgentIsRow ==
  ASSUME NEW s \in States, NEW rows \in Seq({Prediction(p, s) : p \in Drones \X Drones}), rows # <<>>
  PROVE  \E k \in DOMAIN rows : MostUrgent(rows) = rows[k]
<1> DEFINE sep == [k \in DOMAIN rows |-> rows[k].separation]
           R   == {e \in (DOMAIN rows) \X (DOMAIN rows) :
                     \/ rows[e[1]].separation < rows[e[2]].separation
                     \/ rows[e[1]].separation = rows[e[2]].separation /\ e[1] < e[2]}
           D   == DOMAIN rows
<1>1. /\ IsFiniteSet(D) /\ D = 1 .. Len(rows) /\ Len(rows) \in Nat
      /\ D # {}
  <2>1. IsFiniteSet(D) /\ D = 1 .. Len(rows) /\ Len(rows) \in Nat
    BY PlacesOf
  <2>2. Len(rows) # 0
    BY EmptySeq
  <2>3. 1 \in D
    BY <2>1, <2>2
  <2>4. QED
    BY <2>1, <2>3
<1>2. \A k \in D : k \in Int /\ rows[k].separation \in Int
  <2>1. TAKE k \in D
  <2>2. rows[k] \in {Prediction(p, s) : p \in Drones \X Drones}
    BY LenProperties
  <2>3. PICK p \in Drones \X Drones : rows[k] = Prediction(p, s)
    BY <2>2
  <2> DEFINE i == p[1]
             j == p[2]
  <2>a. i \in Drones /\ j \in Drones /\ p = <<i, j>>
    OBVIOUS
  <2> HIDE DEF i, j
  <2>4. s.pos[i] \in Int /\ s.pos[j] \in Int /\ s.vel[i] \in Int /\ s.vel[j] \in Int
    BY <2>a DEF States
  <2>5. Prediction(<<i, j>>, s).separation \in Int
    BY <2>4, PredictionFields
  <2>6. QED
    BY <1>1, <2>3, <2>a, <2>5
<1>3. \A k, l \in D : <<k, l>> \in R <=> \/ rows[k].separation < rows[l].separation
                                         \/ rows[k].separation = rows[l].separation /\ k < l
  OBVIOUS
<1> HIDE DEF R, D
<1>4. StrictOrder(R, D)
  <2>1. \A k \in D : <<k, k>> \notin R
    BY <1>2, <1>3
  <2>2. \A k, l, m \in D : <<k, l>> \in R /\ <<l, m>> \in R => <<k, m>> \in R
    <3>1. TAKE k, l, m \in D
    <3>2. /\ k \in Int /\ l \in Int /\ m \in Int
          /\ rows[k].separation \in Int /\ rows[l].separation \in Int /\ rows[m].separation \in Int
      BY <1>2
    <3>3. QED
      BY <1>3, <3>2
  <2>3. \A k, l \in D : k # l => <<k, l>> \in R \/ <<l, k>> \in R
    BY <1>2, <1>3
  <2>4. QED
    BY <2>1, <2>2, <2>3 DEF StrictOrder
<1>5. PICK k \in D : Cardinality(Below(k, R, D)) = 0
  <2>1. Cardinality(D) \in Nat /\ Cardinality(D) # 0
    BY <1>1, FS_CardinalityType, FS_EmptySet
  <2>2. 1 \in 1 .. Cardinality(D)
    BY <2>1
  <2>3. \E k \in D : Cardinality(Below(k, R, D)) = 1 - 1
    BY <1>1, <1>4, <2>2, RankExists
  <2>4. QED
    BY <2>3
<1>6. Below(k, R, D) = {}
  <2>1. IsFiniteSet(Below(k, R, D))
    BY <1>1, FS_Subset DEF Below
  <2>2. QED
    BY <1>5, <2>1, FS_EmptySet
<1>7. \A l \in D : \/ rows[k].separation < rows[l].separation
                   \/ rows[k].separation = rows[l].separation /\ k <= l
  <2>1. TAKE l \in D
  <2>2. <<l, k>> \notin R
    BY <1>6 DEF Below
  <2>3. /\ k \in Int /\ l \in Int /\ rows[k].separation \in Int /\ rows[l].separation \in Int
    BY <1>2
  <2>4. QED
    BY <1>3, <2>2, <2>3
<1>8. \E n \in D : MostUrgent(rows) = rows[n]
  BY <1>7 DEF MostUrgent, D
<1>9. QED
  BY <1>8 DEF D

LEMMA RowFields ==
  ASSUME NEW s \in States, NEW row \in {Prediction(p, s) : p \in Drones \X Drones}
  PROVE  /\ row.separation \in Int
         /\ row.time[1] \in Int /\ row.time[2] \in Nat \ {0}
         /\ row.pair \in Drones \X Drones
         /\ row = Prediction(<<row.pair[1], row.pair[2]>>, s)
<1>1. PICK p \in Drones \X Drones : row = Prediction(p, s)
  OBVIOUS
<1> DEFINE i == p[1]
           j == p[2]
<1>2. i \in Drones /\ j \in Drones /\ p = <<i, j>>
  OBVIOUS
<1> HIDE DEF i, j
<1>3. s.pos[i] \in Int /\ s.pos[j] \in Int /\ s.vel[i] \in Int /\ s.vel[j] \in Int
  BY <1>2 DEF States
<1>4. /\ row.separation \in Int
      /\ row.time[1] \in Int /\ row.time[2] \in Nat \ {0}
  BY <1>1, <1>2, <1>3, PredictionFields
<1>5. row.pair = <<i, j>>
  BY <1>1, <1>2 DEF Prediction
<1>6. row.pair \in Drones \X Drones /\ row.pair[1] = i /\ row.pair[2] = j
  BY <1>2, <1>5
<1>7. QED
  BY <1>1, <1>2, <1>4, <1>6

LEMMA LimitTypes ==
  ASSUME NEW x \in Int, NEW v \in Int, NEW g \in Int
  PROVE  /\ Capped(x, MaxSpeed) \in - MaxSpeed .. MaxSpeed
         /\ Capped(x, MaxAvoidAccel) \in Int
         /\ GoalDirected(x, v, g) \in - MaxSpeed .. MaxSpeed
<1>1. /\ \A n \in Int : Capped(n, MaxSpeed) \in - MaxSpeed .. MaxSpeed
      /\ \A n \in Int : Capped(n, MaxAccel) \in Int
      /\ \A n \in Int : Capped(n, MaxAvoidAccel) \in Int
  BY MovementAssumption DEF Capped, Clip
<1>2. 0 \in - MaxSpeed .. MaxSpeed
  BY MovementAssumption
<1>3. Capped(g - x, MaxSpeed) - v \in Int
  BY <1>1, MovementAssumption
<1>4. v + Capped(Capped(g - x, MaxSpeed) - v, MaxAccel) \in Int
  BY <1>1, <1>3
<1>5. QED
  BY <1>1, <1>2, <1>4 DEF GoalDirected, ApplyAccelAndSpeedLimits

LEMMA CorrectionType ==
  ASSUME NEW s \in States, NEW i, NEW row \in {Prediction(p, s) : p \in Drones \X Drones}
  PROVE  Correction(i, row, s) \in Int
<1> DEFINE d      == Horizon * row.time[2]
           nearer == Clip(NearMissRadius - row.separation, 0, NearMissRadius)
           length == (AvoidanceStrength * MaxAvoidAccel * nearer * (2 * d - row.time[1]))
                       \div (2 * d * NearMissRadius)
           away   == - Direction(Towards(i, row, s)) * length
<1>1. row.separation \in Int /\ row.time[1] \in Int /\ row.time[2] \in Nat \ {0}
  BY RowFields
<1>2. length \in Int
  BY <1>1, LengthType
<1>3. Correction(i, row, s) = Capped(away, MaxAvoidAccel)
  BY DEF Correction
<1> HIDE DEF length
<1>4. Direction(Towards(i, row, s)) \in {-1, 0, 1}
  BY DEF Direction
<1>5. away \in Int
  BY <1>2, <1>4
<1> HIDE DEF away
<1>6. QED
  BY <1>3, <1>5, LimitTypes

LEMMA MostUrgentType ==
  ASSUME NEW s \in States, NEW predictions, Predicted(predictions, s), NEW i,
         Rows(i, predictions) # <<>>
  PROVE  /\ MostUrgent(Rows(i, predictions)) \in {Prediction(p, s) : p \in Drones \X Drones}
         /\ \E k \in DOMAIN Rows(i, predictions) :
              MostUrgent(Rows(i, predictions)) = Rows(i, predictions)[k]
<1> DEFINE rows == Rows(i, predictions)
           T    == {Prediction(p, s) : p \in Drones \X Drones}
<1>1. rows \in Seq(T)
  BY RowsListed
<1> HIDE DEF rows
<1>2. PICK k \in DOMAIN rows : MostUrgent(rows) = rows[k]
  BY <1>1, MostUrgentIsRow DEF rows
<1> HIDE DEF T
<1>3. rows[k] \in T
  BY <1>1, LenProperties
<1>4. QED
  BY <1>2, <1>3 DEF rows, T

LEMMA LocalAvoidanceType ==
  ASSUME NEW s \in States, NEW goals \in [Drones -> Int], NEW i \in Drones,
         NEW predictions, Predicted(predictions, s)
  PROVE  LocalAvoidance(i, s, goals, predictions) \in - MaxSpeed .. MaxSpeed
<1> DEFINE g == GoalDirected(s.pos[i], s.vel[i], goals[i])
           c == Correction(i, MostUrgent(Rows(i, predictions)), s)
<1>1. g \in - MaxSpeed .. MaxSpeed /\ g \in Int
  <2>1. s.pos[i] \in Int /\ s.vel[i] \in Int /\ goals[i] \in Int
    BY DEF States
  <2>2. g \in - MaxSpeed .. MaxSpeed
    BY <2>1, LimitTypes
  <2>3. QED
    BY <2>2, MovementAssumption
<1>2. Rows(i, predictions) # <<>> => c \in Int
  BY MostUrgentType, CorrectionType
<1>3. LocalAvoidance(i, s, goals, predictions) =
        IF Rows(i, predictions) = <<>> THEN g ELSE Capped(g + c, MaxSpeed)
  BY DEF LocalAvoidance
<1> HIDE DEF g, c
<1>4. Rows(i, predictions) # <<>> => Capped(g + c, MaxSpeed) \in - MaxSpeed .. MaxSpeed
  <2>1. SUFFICES ASSUME Rows(i, predictions) # <<>> PROVE Capped(g + c, MaxSpeed) \in - MaxSpeed .. MaxSpeed
    OBVIOUS
  <2>2. g + c \in Int
    BY <1>1, <1>2, <2>1
  <2>3. QED
    BY <2>2, LimitTypes
<1>5. QED
  BY <1>1, <1>3, <1>4

\* Under every policy a tick leaves integers.
LEMMA SteerType ==
  ASSUME NEW s \in States, NEW goals \in [Drones -> Int], NEW p \in Policies,
         NEW predictions, p = "local_avoidance" => Predicted(predictions, s)
  PROVE  Steer(s, p, goals, predictions) \in States
<1> DEFINE new == UpdateVelocities(Drones, s, p, goals, predictions)
<1>1. \A i \in Drones : new[i] \in Int
  <2>1. TAKE i \in Drones
  <2>2. s.pos[i] \in Int /\ s.vel[i] \in Int /\ goals[i] \in Int
    BY DEF States
  <2>3. CASE p = "scripted"
    BY <2>2, <2>3 DEF UpdateVelocities
  <2>4. CASE p = "goal_directed"
    <3>1. new[i] = GoalDirected(s.pos[i], s.vel[i], goals[i])
      BY <2>4 DEF UpdateVelocities
    <3>2. GoalDirected(s.pos[i], s.vel[i], goals[i]) \in - MaxSpeed .. MaxSpeed
      BY <2>2, LimitTypes
    <3>3. QED
      BY <3>1, <3>2, MovementAssumption
  <2>5. CASE p = "local_avoidance"
    <3>1. new[i] = LocalAvoidance(i, s, goals, predictions)
      BY <2>5 DEF UpdateVelocities
    <3>2. LocalAvoidance(i, s, goals, predictions) \in - MaxSpeed .. MaxSpeed
      BY <2>5, LocalAvoidanceType
    <3>3. QED
      BY <3>1, <3>2, MovementAssumption
  <2>6. QED
    BY <2>3, <2>4, <2>5 DEF Policies
<1>2. DOMAIN new = Drones
  BY DEF UpdateVelocities
<1> HIDE DEF new
<1>3. s.vel \in [Drones -> Int] /\ s.pos \in [Drones -> Int]
  BY DEF States
<1>4. Written(s.vel, new) \in [Drones -> Int]
  BY <1>1, <1>2, <1>3 DEF Written
<1>5. Steer(s, p, goals, predictions) = [s EXCEPT !.vel = Written(s.vel, new)]
  BY DEF Steer, new
<1>6. QED
  BY <1>3, <1>4, <1>5 DEF States

LEMMA MoveType ==
  ASSUME NEW s \in States, NEW goals \in [Drones -> Int], NEW p \in Policies,
         NEW predictions, p = "local_avoidance" => Predicted(predictions, s)
  PROVE  /\ Move(s, p, goals, predictions) \in States
         /\ Move(s, p, goals, predictions).vel = Steer(s, p, goals, predictions).vel
<1> DEFINE t == Steer(s, p, goals, predictions)
<1>1. t \in States
  BY SteerType
<1>2. Move(s, p, goals, predictions) = [t EXCEPT !.pos = [i \in Drones |-> t.pos[i] + t.vel[i]]]
  BY DEF Move, Integrate
<1> HIDE DEF t
<1>3. \A i \in Drones : t.pos[i] + t.vel[i] \in Int
  BY <1>1 DEF States
<1>4. QED
  BY <1>1, <1>2, <1>3 DEF States, t

\* Every drone is in the world again.
LEMMA BoundType ==
  ASSUME NEW s \in States, NEW m
  PROVE  Bound(s, m) \in States /\ Bound(s, m).pos \in [Drones -> 0 .. BoundsMax]
<1>1. BoundsMax \in Nat
  BY KernelAssumption
<1>2. \A i \in Drones : s.pos[i] \in Int /\ s.vel[i] \in Int /\ - s.vel[i] \in Int
  BY DEF States
<1>3. \A i \in Drones : Clip(s.pos[i], 0, BoundsMax) \in 0 .. BoundsMax
  BY <1>1, <1>2 DEF Clip
<1>4. 0 .. BoundsMax \subseteq Int
  BY <1>1
<1>5. Bound(s, m).pos \in [Drones -> 0 .. BoundsMax]
  BY <1>3 DEF Bound
<1>6. Bound(s, m).pos \in [Drones -> Int]
  BY <1>4, <1>5
<1>7. Bound(s, m).vel \in [Drones -> Int]
  BY <1>2 DEF Bound
<1>8. Bound(s, m) = [pos |-> Bound(s, m).pos, vel |-> Bound(s, m).vel]
  BY DEF Bound
<1>9. QED
  BY <1>5, <1>6, <1>7, <1>8 DEF States

\* The predictions of a tick are predictions of pairs of different drones.
LEMMA ContextPredicts ==
  ASSUME NEW s \in States
  PROVE  Predicted(Predict(CandidatePairs(AllDrones, s.pos), s), s)
<1> DEFINE pairs == CandidatePairs(AllDrones, s.pos)
           T     == {Prediction(p, s) : p \in Drones \X Drones}
<1>1. s.pos \in [Drones -> Int]
  BY DEF States
<1>2. ListsContacts(pairs, AllDrones, s.pos)
  BY <1>1, AllDronesList, CandidatesListContacts
<1> HIDE DEF pairs
<1>3. /\ pairs \in Seq(Drones \X Drones)
      /\ \A k \in DOMAIN pairs : pairs[k] \in Drones \X Drones /\ pairs[k][1] < pairs[k][2]
  BY <1>2, AllDronesList DEF ListsContacts, ToSet
<1>4. Len(pairs) \in Nat /\ DOMAIN pairs = 1 .. Len(pairs)
  BY <1>3, PlacesOf
<1>a. Predict(pairs, s) = [k \in DOMAIN pairs |-> Prediction(pairs[k], s)]
  <2> DEFINE f == [k \in DOMAIN pairs |-> Prediction(pairs[k], s)]
  <2>1. f = [k \in 1 .. Len(pairs) |-> f[k]] /\ Len(pairs) \in Nat
    BY <1>4
  <2>2. Predict(pairs, s) = AsList(f)
    BY DEF Predict
  <2> HIDE DEF f
  <2>3. Predict(pairs, s) = f
    BY <2>1, <2>2, AsListIs
  <2>4. QED
    BY <2>3 DEF f
<1>5. \A k \in DOMAIN pairs : Predict(pairs, s)[k] = Prediction(pairs[k], s) /\ Prediction(pairs[k], s) \in T
  BY <1>3, <1>a
<1>6. DOMAIN Predict(pairs, s) = 1 .. Len(pairs)
  BY <1>4, <1>a
<1> HIDE DEF T
<1>7. Predict(pairs, s) \in Seq(T)
  <2>1. Predict(pairs, s) \in [1 .. Len(pairs) -> T]
    BY <1>4, <1>5, <1>a
  <2>2. QED
    BY <1>4, <2>1
<1>8. \A k \in DOMAIN pairs : Predict(pairs, s)[k].pair[1] # Predict(pairs, s)[k].pair[2]
  <2>1. TAKE k \in DOMAIN pairs
  <2>1a. Predict(pairs, s)[k] = Prediction(pairs[k], s)
    BY <1>5
  <2>1b. Prediction(pairs[k], s).pair = pairs[k]
    BY DEF Prediction
  <2>2. Predict(pairs, s)[k].pair = pairs[k]
    BY <2>1a, <2>1b
  <2>3. pairs[k][1] \in Int /\ pairs[k][2] \in Int /\ pairs[k][1] < pairs[k][2]
    BY <1>3, DronesFinite
  <2>4. QED
    BY <2>2, <2>3
<1>9. QED
  BY <1>4, <1>6, <1>7, <1>8 DEF Predicted, T, pairs

-----------------------------------------------------------------------------
(***************************************************************************)
(* One tick.                                                               *)
(***************************************************************************)
\* boundaries.py:39-46: a reflecting wall keeps the energy, a clamping one never
\* adds to it.
LEMMA BoundEnergy ==
  ASSUME NEW s \in States, NEW m
  PROVE  /\ Energy(Bound(s, m).vel) <= Energy(s.vel)
         /\ m = "reflect" => Energy(Bound(s, m).vel) = Energy(s.vel)
<1> DEFINE u == Bound(s, m).vel
<1>1. u \in [Drones -> Int] /\ s.vel \in [Drones -> Int]
  BY BoundType DEF States
<1>2. \A i \in Drones : u[i] = s.vel[i] \/ u[i] = - s.vel[i] \/ (u[i] = 0 /\ m # "reflect")
  BY DEF Bound
<1> HIDE DEF u
<1>3. \A n \in Int : Square(n) \in Int /\ Square(- n) = Square(n) /\ Square(0) <= Square(n)
  <2>1. TAKE n \in Int
  <2>2. n * n \in Int /\ (- n) * (- n) = n * n /\ 0 * 0 <= n * n
    <3>1. CASE n >= 0
      BY <3>1
    <3>2. CASE ~ (n >= 0)
      <4>1. - n \in Nat /\ (- n) * (- n) = n * n
        BY <3>2
      <4>2. (- n) * (- n) >= 0
        BY <4>1
      <4>3. QED
        BY <4>1, <4>2
    <3>3. QED
      BY <3>1, <3>2
  <2>3. QED
    BY <2>2 DEF Square
<1>4. \A i \in Drones : /\ Square(u[i]) <= Square(s.vel[i])
                        /\ m = "reflect" => Square(u[i]) = Square(s.vel[i])
  <2>1. TAKE i \in Drones
  <2>2. s.vel[i] \in Int
    BY <1>1
  <2>3. /\ Square(s.vel[i]) \in Int /\ Square(- s.vel[i]) = Square(s.vel[i])
        /\ Square(0) <= Square(s.vel[i])
    BY <1>3, <2>2
  <2>4. CASE u[i] = s.vel[i]
    BY <2>3, <2>4
  <2>5. CASE u[i] = - s.vel[i]
    BY <2>3, <2>5
  <2>6. CASE u[i] = 0 /\ m # "reflect"
    BY <2>3, <2>6
  <2>7. QED
    BY <1>2, <2>4, <2>5, <2>6
<1>5. Energy(u) <= Energy(s.vel)
  BY <1>1, <1>4, EnergyOrder
<1>6. m = "reflect" => Energy(u) = Energy(s.vel)
  BY <1>1, <1>4, EnergyEqual
<1>7. QED
  BY <1>5, <1>6 DEF u

LEMMA FoundIsResolvable ==
  ASSUME NEW x \in [Drones -> Int], NEW found, found = Detect(AllDrones, x)
  PROVE  /\ ExactlyOnce(found, x)
         /\ Resolvable(found.collisions)
         /\ found.collisions \in Seq(Drones \X Drones)
         /\ found.nearMisses \in Seq(Drones \X Drones)
         /\ \A pair \in ToSet(found.collisions) : Distance(x, pair[1], pair[2]) <= CollisionRadius
<1>1. ExactlyOnce(found, x)
  BY DetectsAll
<1>2. /\ found.collisions \in Seq(Drones \X Drones)
      /\ found.nearMisses \in Seq(Drones \X Drones)
      /\ ToSet(found.collisions) = PairsInBand(AllDrones, x, -1, CollisionRadius)
  BY AllDronesList, DetectFinds
<1>3. \A k \in DOMAIN found.collisions : found.collisions[k] \in ToSet(found.collisions)
  BY DEF ToSet
<1>4. \A k \in DOMAIN found.collisions : found.collisions[k][1] < found.collisions[k][2]
  BY <1>2, <1>3 DEF PairsInBand
<1>5. QED
  BY <1>1, <1>2, <1>4 DEF Resolvable, PairsInBand

Tick(s, p, g, predictions, m) == Bound(Move(s, p, g, predictions), m)

LEMMA TickEffect ==
  ASSUME NEW s \in States, NEW g \in [Drones -> Int], NEW m, NEW p \in Policies,
         NEW predictions, p = "local_avoidance" => Predicted(predictions, s)
  PROVE  /\ Tick(s, p, g, predictions, m) \in States
         /\ Tick(s, p, g, predictions, m).pos \in [Drones -> 0 .. BoundsMax]
         /\ Energy(Tick(s, p, g, predictions, m).vel) <= Energy(Steer(s, p, g, predictions).vel)
         /\ m = "reflect" => Energy(Tick(s, p, g, predictions, m).vel)
                               = Energy(Steer(s, p, g, predictions).vel)
<1> DEFINE t == Move(s, p, g, predictions)
           moved == Bound(t, m)
<1>1. t \in States /\ t.vel = Steer(s, p, g, predictions).vel
  BY MoveType
<1> HIDE DEF t
<1>2. moved \in States /\ moved.pos \in [Drones -> 0 .. BoundsMax]
  BY <1>1, BoundType
<1>3. /\ Energy(moved.vel) <= Energy(t.vel)
      /\ m = "reflect" => Energy(moved.vel) = Energy(t.vel)
  BY <1>1, BoundEnergy
<1>4. QED
  BY <1>1, <1>2, <1>3 DEF Tick, t

\* The state before the resolution of a step: where the detection saw the drones.
Moved == Tick(Now, policy, goal, Context(Now), mode)

LEMMA NowType ==
  ASSUME TypeOK
  PROVE  /\ Now \in States /\ goal \in [Drones -> Int] /\ policy \in Policies
         /\ policy = "local_avoidance" => Predicted(Context(Now), Now)
<1>1. 0 .. BoundsMax \subseteq Int
  BY KernelAssumption
<1>2. Now \in States
  BY DEF TypeOK, Now, States
<1>3. goal \in [Drones -> Int]
  BY <1>1 DEF TypeOK
<1>4. Predicted(Predict(CandidatePairs(AllDrones, Now.pos), Now), Now)
  BY <1>2, ContextPredicts
<1>5. policy = "local_avoidance" => Context(Now) = Predict(CandidatePairs(AllDrones, Now.pos), Now)
  BY DEF Context
<1>6. QED
  BY <1>2, <1>3, <1>4, <1>5 DEF TypeOK

\* What a step of the simulation does.
LEMMA StepEffect ==
  ASSUME TypeOK, Step
  PROVE  /\ Moved \in States /\ Moved.pos \in [Drones -> 0 .. BoundsMax]
         /\ detected' = Moved.pos
         /\ result' = Detect(AllDrones, Moved.pos)
         /\ Resolvable(result'.collisions)
         /\ Resolve(Moved, result'.collisions) \in States
         /\ pos' = Resolve(Moved, result'.collisions).pos
         /\ vel' = Resolve(Moved, result'.collisions).vel
         /\ Energy(vel') = Energy(Moved.vel)
         /\ clock' = clock + 1 /\ clock < MaxTick /\ UNCHANGED <<mode, policy, goal>>
<1>1. /\ Now \in States /\ goal \in [Drones -> Int] /\ policy \in Policies
      /\ policy = "local_avoidance" => Predicted(Context(Now), Now)
  BY NowType
<1>2. Moved \in States /\ Moved.pos \in [Drones -> 0 .. BoundsMax]
  BY <1>1, TickEffect DEF Moved
<1>3. /\ detected' = Moved.pos
      /\ result' = Detect(AllDrones, Moved.pos)
      /\ pos' = Resolve(Moved, Detect(AllDrones, Moved.pos).collisions).pos
      /\ vel' = Resolve(Moved, Detect(AllDrones, Moved.pos).collisions).vel
  BY DEF Step, EngineStep, Moved, Tick
<1>4. Moved.pos \in [Drones -> Int]
  BY <1>2 DEF States
<1>5. Resolvable(result'.collisions)
  BY <1>3, <1>4, FoundIsResolvable
<1>6. /\ Resolve(Moved, result'.collisions) \in States
      /\ Energy(Resolve(Moved, result'.collisions).vel) = Energy(Moved.vel)
  BY <1>2, <1>5, ResolveKeepsEnergy
<1>7. clock' = clock + 1 /\ clock < MaxTick /\ UNCHANGED <<mode, policy, goal>>
  BY DEF Step
<1>8. QED
  BY <1>2, <1>3, <1>5, <1>6, <1>7

\* movement.py:222-229 and 291-328: what SwervesFromThreats says holds in every state.
LEMMA Swerves ==
  ASSUME TypeOK
  PROVE  SwervesFromThreats
<1> SUFFICES ASSUME policy = "local_avoidance" PROVE SwervesFromThreats
  BY DEF SwervesFromThreats
<1> DEFINE predictions == Context(Now)
           T == {Prediction(p, Now) : p \in Drones \X Drones}
<1>1. Now \in States /\ goal \in [Drones -> Int] /\ Predicted(predictions, Now)
  BY NowType
<1>2. pos \in [Drones -> Int] /\ vel \in [Drones -> Int] /\ Now.pos = pos /\ Now.vel = vel
  BY DEF TypeOK, Now
<1> HIDE DEF predictions
<1>3. ASSUME NEW i \in Drones,
             LocalAvoidance(i, Now, goal, predictions) # GoalDirected(pos[i], vel[i], goal[i])
      PROVE  \E k \in DOMAIN Rows(i, predictions) :
               Rows(i, predictions)[k].risk \in {"predicted_collision", "predicted_near_miss"}
  <2> DEFINE g == GoalDirected(pos[i], vel[i], goal[i])
             rows == Rows(i, predictions)
             c == Correction(i, MostUrgent(rows), Now)
  <2>1. LocalAvoidance(i, Now, goal, predictions) = IF rows = <<>> THEN g ELSE Capped(g + c, MaxSpeed)
    BY <1>2 DEF LocalAvoidance
  <2>2. g \in - MaxSpeed .. MaxSpeed
    BY <1>1, <1>2, LimitTypes
  <2>3. rows # <<>> /\ Capped(g + c, MaxSpeed) # g
    BY <1>3, <2>1
  <2>4. rows \in Seq(T)
    BY <1>1, RowsListed
  <2>5. PICK k \in DOMAIN rows : MostUrgent(rows) = rows[k]
    BY <1>1, <2>3, MostUrgentType
  <2>6. rows[k] \in T
    BY <2>4, LenProperties
  <2>7. c # 0
    <3>1. Capped(g + 0, MaxSpeed) = g
      <4> HIDE DEF g
      <4>1. QED
        BY <2>2, MovementAssumption DEF Capped, Clip
    <3>2. QED
      BY <2>3, <3>1
  <2>8. /\ rows[k].pair[1] \in Drones /\ rows[k].pair[2] \in Drones
        /\ rows[k] = Prediction(<<rows[k].pair[1], rows[k].pair[2]>>, Now)
    BY <1>1, <2>6, RowFields
  <2> DEFINE a == rows[k].pair[1]
             b == rows[k].pair[2]
  <2>9. /\ a \in Drones /\ b \in Drones /\ rows[k] = Prediction(<<a, b>>, Now)
        /\ c = Correction(i, rows[k], Now)
    BY <2>5, <2>8
  <2> HIDE DEF a, b, c, rows, g
  <2>10. Now.pos[a] \in Int /\ Now.pos[b] \in Int /\ Now.vel[a] \in Int /\ Now.vel[b] \in Int
    BY <1>2, <2>9
  <2>11. Prediction(<<a, b>>, Now).risk \in {"predicted_collision", "predicted_near_miss"}
    BY <2>7, <2>9, <2>10, OnlyThreatsCorrect
  <2>12. QED
    BY <2>9, <2>11 DEF rows
<1>4. ASSUME NEW k \in DOMAIN predictions,
             Len(Rows(predictions[k].pair[1], predictions)) = 1,
             Len(Rows(predictions[k].pair[2], predictions)) = 1
      PROVE  Correction(predictions[k].pair[1],
                        MostUrgent(Rows(predictions[k].pair[1], predictions)), Now)
               = - Correction(predictions[k].pair[2],
                              MostUrgent(Rows(predictions[k].pair[2], predictions)), Now)
  <2> DEFINE row == predictions[k]
             i == row.pair[1]
             j == row.pair[2]
  <2>1. predictions \in Seq(T) /\ i # j
    BY <1>1 DEF Predicted
  <2>2. row \in T
    BY <2>1, LenProperties
  <2>3. /\ row.separation \in Int /\ row.time[1] \in Int /\ row.time[2] \in Nat \ {0}
        /\ row.pair \in Drones \X Drones
    BY <1>1, <2>2, RowFields
  <2>4. i \in Drones /\ j \in Drones /\ row.pair = <<i, j>>
    BY <2>3
  <2>5. k \in PlacesOfDrone(i, predictions) /\ k \in PlacesOfDrone(j, predictions)
    BY DEF PlacesOfDrone
  <2>6. ASSUME NEW d, k \in PlacesOfDrone(d, predictions), Len(Rows(d, predictions)) = 1
        PROVE  MostUrgent(Rows(d, predictions)) = row
    <3> DEFINE rows == Rows(d, predictions)
    <3>1. rows \in Seq(T) /\ ToSet(rows) = {predictions[l] : l \in PlacesOfDrone(d, predictions)}
      BY <1>1, RowsListed
    <3>2. row \in ToSet(rows)
      BY <2>6, <3>1
    <3>3. DOMAIN rows = 1 .. Len(rows) /\ Len(rows) = 1
      BY <2>6, <3>1, LenProperties
    <3>4. DOMAIN rows = {1}
      BY <3>3
    <3>5. row = rows[1]
      BY <3>2, <3>4 DEF ToSet
    <3>6. rows # <<>>
      BY <3>3
    <3>7. PICK n \in DOMAIN rows : MostUrgent(rows) = rows[n]
      BY <1>1, <3>6, MostUrgentType
    <3>8. QED
      BY <3>4, <3>5, <3>7
  <2>7. MostUrgent(Rows(i, predictions)) = row /\ MostUrgent(Rows(j, predictions)) = row
    BY <1>4, <2>5, <2>6
  <2>8. Now.pos[i] \in Int /\ Now.pos[j] \in Int
    BY <1>2, <2>4
  <2> HIDE DEF row, i, j
  <2>9. Correction(i, row, Now) = - Correction(j, row, Now)
    BY <2>1, <2>3, <2>4, <2>8, CorrectionsOppose
  <2>10. QED
    BY <2>7, <2>9 DEF i, j, row
<1>5. QED
  BY <1>1, <1>3, <1>4 DEF SwervesFromThreats, predictions

-----------------------------------------------------------------------------
(***************************************************************************)
(* The invariant.  The positions a tick leaves are those of the resolution *)
(* of what its detection saw.                                              *)
(***************************************************************************)
ResolvedFromDetected ==
  \E v \in [Drones -> Int] :
    Now = Resolve([pos |-> detected, vel |-> v], result.collisions)

SimulationInv ==
  /\ TypeOK
  /\ DetectsExactly
  /\ Resolvable(result.collisions)
  /\ ResolvedFromDetected

LEMMA NothingToResolve ==
  ASSUME NEW s \in States
  PROVE  Resolvable(<<>>) /\ Resolve(s, <<>>) = s
<1>1. Resolvable(<<>>)
  BY DEF Resolvable
<1>2. PICK after : Resolves(after, s, <<>>) /\ Resolve(s, <<>>) = after[Len(<<>>)]
  BY <1>1, ResolveUnrolled
<1>3. Len(<<>>) = 0
  OBVIOUS
<1>4. QED
  BY <1>1, <1>2, <1>3 DEF Resolves

\* A world in which drones start.
Started(x, v) == x \in [Drones -> Places] /\ v \in [Drones -> Speeds]

LEMMA StartedTypes ==
  ASSUME NEW x, NEW v, Started(x, v)
  PROVE  /\ x \in [Drones -> 0 .. BoundsMax] /\ x \in [Drones -> Int] /\ v \in [Drones -> Int]
         /\ DefaultGoals(x) \in [Drones -> 0 .. BoundsMax]
<1>1. 0 .. BoundsMax \subseteq Int /\ BoundsMax \in Nat
  BY KernelAssumption
<1>2. Places \subseteq 0 .. BoundsMax /\ Speeds \subseteq Int
  BY SimulationAssumption
<1>3. x \in [Drones -> 0 .. BoundsMax]
  BY <1>2 DEF Started
<1>4. \A i \in Drones : BoundsMax - x[i] \in 0 .. BoundsMax
  BY <1>1, <1>3
<1>5. DefaultGoals(x) \in [Drones -> 0 .. BoundsMax]
  BY <1>4 DEF DefaultGoals
<1>6. QED
  BY <1>1, <1>2, <1>3, <1>5 DEF Started

\* At the start of a run nothing has been detected.
RunStarts ==
  /\ Started(pos, vel)
  /\ mode \in Modes /\ policy \in Policies /\ goal \in [Drones -> 0 .. BoundsMax]
  /\ clock = 0 /\ detected = pos /\ result = NoResult

LEMMA AtStart == RunStarts => SimulationInv
<1> SUFFICES ASSUME RunStarts PROVE SimulationInv
  OBVIOUS
<1>1. /\ pos \in [Drones -> 0 .. BoundsMax] /\ pos \in [Drones -> Int] /\ vel \in [Drones -> Int]
  BY StartedTypes DEF RunStarts
<1>2. result.collisions = <<>> /\ result.nearMisses = <<>>
  BY DEF NoResult, RunStarts
<1>3. clock \in 0 .. MaxTick
  BY SimulationAssumption DEF RunStarts
<1>3a. \A kind \in {"collisions", "nearMisses"} : result[kind] \in Seq(Drones \X Drones)
  <2>1. <<>> \in Seq(Drones \X Drones)
    OBVIOUS
  <2>2. QED
    BY <1>2, <2>1
<1>4. TypeOK
  BY <1>1, <1>3, <1>3a DEF TypeOK, RunStarts
<1>5. DetectsExactly
  BY DEF DetectsExactly, RunStarts
<1>6. [pos |-> detected, vel |-> vel] \in States /\ Now = [pos |-> detected, vel |-> vel]
  BY <1>1 DEF States, Now, RunStarts
<1>7. Now = Resolve([pos |-> detected, vel |-> vel], result.collisions) /\ Resolvable(result.collisions)
  BY <1>2, <1>6, NothingToResolve
<1>8. QED
  BY <1>1, <1>4, <1>5, <1>7 DEF SimulationInv, ResolvedFromDetected

LEMMA StepKeepsInv ==
  ASSUME TypeOK, Step
  PROVE  SimulationInv'
<1>1. /\ Moved \in States /\ Moved.pos \in [Drones -> 0 .. BoundsMax]
      /\ detected' = Moved.pos
      /\ result' = Detect(AllDrones, Moved.pos)
      /\ Resolvable(result'.collisions)
      /\ Resolve(Moved, result'.collisions) \in States
      /\ pos' = Resolve(Moved, result'.collisions).pos
      /\ vel' = Resolve(Moved, result'.collisions).vel
      /\ clock' = clock + 1 /\ clock < MaxTick /\ UNCHANGED <<mode, policy, goal>>
  BY StepEffect
<1> HIDE DEF Moved
<1>2. Moved.pos \in [Drones -> Int] /\ Moved.vel \in [Drones -> Int]
      /\ Moved = [pos |-> Moved.pos, vel |-> Moved.vel]
  BY <1>1 DEF States
<1>3. /\ ExactlyOnce(result', detected')
      /\ result'.collisions \in Seq(Drones \X Drones)
      /\ result'.nearMisses \in Seq(Drones \X Drones)
  BY <1>1, <1>2, FoundIsResolvable
<1>4. pos' \in [Drones -> Int] /\ vel' \in [Drones -> Int]
  BY <1>1 DEF States
<1>5. clock' \in 0 .. MaxTick
  BY <1>1, SimulationAssumption DEF TypeOK
<1>6. TypeOK'
  BY <1>1, <1>3, <1>4, <1>5 DEF TypeOK
<1>7. DetectsExactly'
  BY <1>3 DEF DetectsExactly
<1>8. Now' = Resolve([pos |-> detected', vel |-> Moved.vel], result'.collisions)
  <2>1. Now' = [pos |-> pos', vel |-> vel']
    BY DEF Now
  <2>2. Resolve(Moved, result'.collisions) = [pos |-> pos', vel |-> vel']
    BY <1>1 DEF States
  <2>3. Moved = [pos |-> detected', vel |-> Moved.vel]
    BY <1>1, <1>2
  <2>4. QED
    BY <2>1, <2>2, <2>3
<1>9. ResolvedFromDetected'
  BY <1>2, <1>8 DEF ResolvedFromDetected
<1>10. QED
  BY <1>1, <1>6, <1>7, <1>9 DEF SimulationInv

LEMMA StutterKeepsInv ==
  ASSUME SimulationInv, UNCHANGED vars
  PROVE  SimulationInv'
BY DEF SimulationInv, TypeOK, DetectsExactly, ResolvedFromDetected, Now, vars

-----------------------------------------------------------------------------
(***************************************************************************)
(* What the invariant says of a collision that no other touches.           *)
(***************************************************************************)
LEMMA HalvedOverlap ==
  ASSUME NEW a \in Int, NEW b \in Int, NEW r \in Nat \ {0}, NEW c \in Int, NEW d \in Int,
         NEW gap, gap = (IF a >= b THEN a - b ELSE b - a),
         c = a + (IF r > gap THEN (IF a >= b THEN 1 ELSE -1) * ((r - gap) \div 2) ELSE 0),
         c + d = a + b
  PROVE  (IF c >= d THEN c - d ELSE d - c) >= r - 1
<1> DEFINE h == (r - gap) \div 2
<1>1. gap \in Nat /\ (a >= b => gap = a - b) /\ (~ (a >= b) => gap = b - a)
  OBVIOUS
<1>2. h \in Int /\ 2 * h <= r - gap /\ r - gap < 2 * h + 2
  <2>1. r - gap \in Int
    BY <1>1
  <2>2. QED
    BY <2>1, Division
<1>3. c = a + (IF r > gap THEN (IF a >= b THEN 1 ELSE -1) * h ELSE 0)
  OBVIOUS
<1> HIDE DEF h
<1>4. CASE ~ (r > gap)
  BY <1>1, <1>3, <1>4
<1>5. CASE r > gap /\ a >= b
  BY <1>1, <1>2, <1>3, <1>5
<1>6. CASE r > gap /\ ~ (a >= b)
  BY <1>1, <1>2, <1>3, <1>6
<1>7. QED
  BY <1>1, <1>4, <1>5, <1>6

LEMMA LonePairParted ==
  ASSUME NEW s \in States, NEW pairs, Resolvable(pairs), NEW k \in DOMAIN pairs, Lone(pairs, k),
         NEW x, x = Resolve(s, pairs).pos
  PROVE  /\ Distance(x, pairs[k][1], pairs[k][2]) >= CollisionRadius - 1
         /\ x[pairs[k][1]] + x[pairs[k][2]] = s.pos[pairs[k][1]] + s.pos[pairs[k][2]]
<1> DEFINE i == pairs[k][1]
           j == pairs[k][2]
           t == ResolvePair(s, <<i, j>>)
<1>1. i \in Drones /\ j \in Drones /\ i # j /\ pairs[k] = <<i, j>>
  <2>1. pairs[k] \in Drones \X Drones /\ pairs[k][1] < pairs[k][2]
    BY LenProperties DEF Resolvable
  <2>2. QED
    BY <2>1, KernelAssumption DEF Drones
<1>2. x[i] = t.pos[i] /\ x[j] = t.pos[j]
  BY <1>1, LonePairResolved DEF Same
<1> HIDE DEF i, j
<1>3. /\ t \in States
      /\ t.pos[i] + t.pos[j] = s.pos[i] + s.pos[j]
      /\ t.pos[i] = s.pos[i]
           + (IF CollisionRadius > Distance(s.pos, i, j)
                THEN (IF s.pos[i] >= s.pos[j] THEN 1 ELSE -1)
                       * ((CollisionRadius - Distance(s.pos, i, j)) \div 2)
                ELSE 0)
  BY <1>1, ResolvePairEffect
<1>4. t.pos[i] \in Int /\ t.pos[j] \in Int /\ s.pos[i] \in Int /\ s.pos[j] \in Int
  BY <1>1, <1>3 DEF States
<1> HIDE DEF t
<1>5. (IF t.pos[i] >= t.pos[j] THEN t.pos[i] - t.pos[j] ELSE t.pos[j] - t.pos[i])
        >= CollisionRadius - 1
  BY <1>3, <1>4, HalvedOverlap, KernelAssumption DEF Distance
<1>6. Distance(x, i, j) >= CollisionRadius - 1
  BY <1>2, <1>5 DEF Distance
<1>7. QED
  BY <1>2, <1>3, <1>6 DEF i, j

LEMMA InvParts ==
  ASSUME SimulationInv, NEW k \in DOMAIN result.collisions, Lone(result.collisions, k)
  PROVE  /\ Distance(pos, result.collisions[k][1], result.collisions[k][2]) >= CollisionRadius - 1
         /\ pos[result.collisions[k][1]] + pos[result.collisions[k][2]]
              = detected[result.collisions[k][1]] + detected[result.collisions[k][2]]
<1>1. PICK v \in [Drones -> Int] :
        Now = Resolve([pos |-> detected, vel |-> v], result.collisions)
  BY DEF SimulationInv, ResolvedFromDetected
<1> DEFINE s == [pos |-> detected, vel |-> v]
<1>2. s \in States
  <2>1. 0 .. BoundsMax \subseteq Int
    BY KernelAssumption
  <2>2. detected \in [Drones -> Int]
    BY <2>1 DEF SimulationInv, TypeOK
  <2>3. QED
    BY <2>2 DEF States
<1>3. pos = Resolve(s, result.collisions).pos /\ s.pos = detected
  BY <1>1 DEF Now
<1> HIDE DEF s
<1>4. QED
  BY <1>2, <1>3, LonePairParted DEF SimulationInv

LEMMA LonePairsSeparated ==
  ASSUME SimulationInv
  PROVE  SeparatesLonePairs
<1>1. ASSUME NEW k \in DOMAIN result.collisions,
             \A m \in DOMAIN result.collisions \ {k} :
               {result.collisions[k][1], result.collisions[k][2]}
                 \cap ToSet(result.collisions[m]) = {}
      PROVE  Distance(pos, result.collisions[k][1], result.collisions[k][2]) >= CollisionRadius - 1
  <2>1. Lone(result.collisions, k)
    BY <1>1 DEF Lone
  <2>2. QED
    BY <2>1, InvParts
<1>2. QED
  BY <1>1 DEF SeparatesLonePairs

LEMMA MarkersPlaced ==
  ASSUME SimulationInv
  PROVE  MarkersWhereDetected
<1>1. SUFFICES ASSUME NEW k \in DOMAIN result.collisions,
                      \A l \in DOMAIN result.collisions \ {k} :
                        ToSet(result.collisions[k]) \cap ToSet(result.collisions[l]) = {}
               PROVE  \E m \in QueryCollisionMarkers(Snapshot, <<0, Exact(BoundsMax)>>) :
                        /\ m.pair = result.collisions[k]
                        /\ m.twice = detected[result.collisions[k][1]]
                                       + detected[result.collisions[k][2]]
  BY DEF MarkersWhereDetected
<1> DEFINE p == result.collisions[k]
           twice == pos[p[1]] + pos[p[2]]
           m == [pair |-> p, distance |-> Snapshot.distances[k], twice |-> twice]
<1>2. p \in Drones \X Drones /\ p[1] \in Drones /\ p[2] \in Drones
  BY LenProperties DEF SimulationInv, Resolvable
<1>3. ToSet(p) = {p[1], p[2]}
  <2>1. DOMAIN p = {1, 2}
    BY <1>2
  <2>2. QED
    BY <2>1 DEF ToSet
<1>4. Lone(result.collisions, k)
  BY <1>1, <1>3 DEF Lone
<1>5. twice = detected[p[1]] + detected[p[2]]
  BY <1>4, InvParts
<1>6. detected[p[1]] \in 0 .. BoundsMax /\ detected[p[2]] \in 0 .. BoundsMax
  BY <1>2 DEF SimulationInv, TypeOK
<1> HIDE DEF p
<1>7. 2 * 0 <= twice /\ twice <= 2 * BoundsMax
  BY <1>5, <1>6, KernelAssumption
<1>8. /\ Snapshot.pairs = result.collisions
      /\ Snapshot.positions = pos
  BY DEF Snapshot
<1>9. m = [pair |-> Snapshot.pairs[k], distance |-> Snapshot.distances[k],
           twice |-> Snapshot.positions[Snapshot.pairs[k][1]]
                       + Snapshot.positions[Snapshot.pairs[k][2]]]
  BY <1>8 DEF p
<1>10. m \in QueryCollisionMarkers(Snapshot, <<0, Exact(BoundsMax)>>)
  <2>1. m.twice = twice
    OBVIOUS
  <2>2. k \in DOMAIN Snapshot.pairs
    BY <1>8
  <2>3. <<0, Exact(BoundsMax)>>[1] = 0 /\ <<0, Exact(BoundsMax)>>[2] = 3 * BoundsMax
    BY DEF Exact
  <2>3a. twice \in Int
    BY <1>5, <1>6, KernelAssumption
  <2> HIDE DEF m, twice
  <2>4. /\ 2 * <<0, Exact(BoundsMax)>>[1] <= Exact(m.twice)
        /\ Exact(m.twice) <= 2 * <<0, Exact(BoundsMax)>>[2]
    BY <1>7, <2>1, <2>3, <2>3a, KernelAssumption DEF Exact
  <2>5. QED
    BY <1>9, <2>2, <2>4 DEF QueryCollisionMarkers
<1>11. m.pair = p /\ m.twice = twice
  OBVIOUS
<1>12. QED
  BY <1>5, <1>10, <1>11 DEF p

-----------------------------------------------------------------------------
(***************************************************************************)
(* Steps: the simulation alone, and the runs of a comparison.              *)
(***************************************************************************)
EnergyBalanced ==
  LET steered == Energy(Steer(Now, policy, goal, Context(Now)).vel)
  IN  clock' > clock =>
        IF mode = "reflect" THEN Energy(vel') = steered ELSE Energy(vel') <= steered

ContactsPredicted ==
  clock' > clock =>
    \A pair \in ToSet(CandidatePairs(AllDrones, pos)) :
      LET distance == Distance(detected', pair[1], pair[2])
          risk     == Prediction(pair, Now).risk
      IN  KeptCourse(pair[1]) /\ KeptCourse(pair[2])
            => /\ distance <= CollisionRadius => risk = "predicted_collision"
               /\ distance <= NearMissRadius
                    => risk \in {"predicted_collision", "predicted_near_miss"}

LEMMA StepBalancesEnergy ==
  ASSUME TypeOK, Step
  PROVE  EnergyBalanced
<1>1. /\ Now \in States /\ goal \in [Drones -> Int] /\ policy \in Policies
      /\ policy = "local_avoidance" => Predicted(Context(Now), Now)
  BY NowType
<1>2. Energy(vel') = Energy(Moved.vel)
  BY StepEffect
<1>3. /\ Energy(Moved.vel) <= Energy(Steer(Now, policy, goal, Context(Now)).vel)
      /\ mode = "reflect" => Energy(Moved.vel) = Energy(Steer(Now, policy, goal, Context(Now)).vel)
  BY <1>1, TickEffect DEF Moved
<1>4. QED
  BY <1>2, <1>3 DEF EnergyBalanced

LEMMA StepPredictsContacts ==
  ASSUME TypeOK, Step
  PROVE  ContactsPredicted
<1>1. Now \in States /\ Now.pos = pos /\ Now.vel = vel
      /\ pos \in [Drones -> Int] /\ vel \in [Drones -> Int]
  BY NowType DEF TypeOK, Now
<1>2. Moved.pos \in [Drones -> Int] /\ detected' = Moved.pos
  BY StepEffect DEF States
<1>3. detected' \in [Drones -> Int]
  BY <1>2
<1>4. ListsContacts(CandidatePairs(AllDrones, pos), AllDrones, pos)
  BY <1>1, AllDronesList, CandidatesListContacts
<1>5. ASSUME NEW pair \in ToSet(CandidatePairs(AllDrones, pos)),
             KeptCourse(pair[1]), KeptCourse(pair[2])
      PROVE  /\ Distance(detected', pair[1], pair[2]) <= CollisionRadius
                  => Prediction(pair, Now).risk = "predicted_collision"
             /\ Distance(detected', pair[1], pair[2]) <= NearMissRadius
                  => Prediction(pair, Now).risk \in {"predicted_collision", "predicted_near_miss"}
  <2> DEFINE i == pair[1]
             j == pair[2]
  <2>1. pair \in Drones \X Drones
    BY <1>4, AllDronesList DEF ListsContacts
  <2>2. i \in Drones /\ j \in Drones /\ pair = <<i, j>>
    BY <2>1
  <2>3. detected'[i] = pos[i] + vel[i] /\ detected'[j] = pos[j] + vel[j]
    BY <1>5 DEF KeptCourse
  <2> HIDE DEF i, j
  <2>4. /\ Distance(detected', i, j) \in Int
        /\ Distance(detected', i, j) = Magnitude(detected'[j] - detected'[i])
    BY <1>3, <2>2, DistanceType
  <2>5. Distance(detected', i, j)
          = Magnitude((Now.pos[j] + Now.vel[j]) - (Now.pos[i] + Now.vel[i]))
    BY <1>1, <2>3, <2>4
  <2>6. Now.pos[i] \in Int /\ Now.pos[j] \in Int /\ Now.vel[i] \in Int /\ Now.vel[j] \in Int
    BY <1>1, <2>2
  <2>7. /\ Distance(detected', i, j) <= CollisionRadius
             => Prediction(<<i, j>>, Now).risk = "predicted_collision"
        /\ Distance(detected', i, j) <= NearMissRadius
             => Prediction(<<i, j>>, Now).risk \in {"predicted_collision", "predicted_near_miss"}
    BY <2>4, <2>5, <2>6, PredictsNextContact
  <2>8. QED
    BY <2>2, <2>7 DEF i, j
<1>6. QED
  BY <1>5 DEF ContactsPredicted

\* A comparison: the next policy's run starts where all runs start.
ComparisonInv ==
  /\ SimulationInv
  /\ Started(world.pos, world.vel)
  /\ \E T : reports \in Seq(T)

LEMMA InitStarts ==
  ASSUME Init
  PROVE  SimulationInv
<1>1. Started(pos, vel)
  BY DEF Init, Started
<1>2. goal \in [Drones -> 0 .. BoundsMax]
  BY <1>1, StartedTypes DEF Init
<1>3. QED
  BY <1>1, <1>2, AtStart DEF Init, RunStarts

LEMMA SimulationInvariant == Spec => []SimulationInv
<1>1. Init => SimulationInv
  BY InitStarts
<1>2. SimulationInv /\ [Step]_vars => SimulationInv'
  BY StepKeepsInv, StutterKeepsInv DEF SimulationInv
<1>3. QED
  BY <1>1, <1>2, PTL DEF Spec

LEMMA NextRunStarts ==
  ASSUME ComparisonInv, NextRun
  PROVE  SimulationInv'
<1>1. PICK T : reports \in Seq(T)
  BY DEF ComparisonInv
<1>2. Len(reports) \in Nat /\ Len(reports) + 2 \in 1 .. Len(Comparison)
  <2>1. Len(reports) \in Nat /\ Len(Comparison) \in Nat
    BY <1>1, ComparisonAssumption
  <2>2. QED
    BY <2>1 DEF NextRun
<1>3. Comparison[Len(reports) + 2] \in Policies
  BY <1>2, ComparisonAssumption
<1>4. RunStarts'
  BY <1>3 DEF NextRun, ComparisonInv, SimulationInv, TypeOK, RunStarts
<1>5. RunStarts' => SimulationInv'
  BY AtStart, PTL
<1>6. QED
  BY <1>4, <1>5

LEMMA GrowingSeq ==
  ASSUME NEW T, NEW s \in Seq(T), NEW e
  PROVE  Append(s, e) \in Seq(T \union {e})
<1>1. s \in Seq(T \union {e})
  BY SeqMonotonic
<1>2. QED
  BY <1>1

LEMMA ComparisonStarts ==
  ASSUME ValidatorInit
  PROVE  ComparisonInv
<1>1. SimulationInv
  BY InitStarts DEF ValidatorInit
<1>2. Started(world.pos, world.vel)
  BY DEF ValidatorInit, Init, Now, Started
<1>3. reports \in Seq({})
  BY DEF ValidatorInit
<1>4. QED
  BY <1>1, <1>2, <1>3 DEF ComparisonInv

LEMMA ComparisonStep ==
  ASSUME ComparisonInv, [ValidatorNext]_validatorVars
  PROVE  ComparisonInv'
<1>1. PICK T : reports \in Seq(T)
  BY DEF ComparisonInv
<1>2. Append(reports, Report) \in Seq(T \union {Report})
  BY <1>1, GrowingSeq
<1>3. CASE RunTick
  <2>1. SimulationInv'
    BY <1>3, StepKeepsInv DEF RunTick, ComparisonInv, SimulationInv
  <2>2. QED
    BY <1>3, <2>1 DEF RunTick, ComparisonInv
<1>4. CASE NextRun
  <2>1. SimulationInv'
    BY <1>4, NextRunStarts
  <2>2. reports' \in Seq(T \union {Report})
    BY <1>2, <1>4 DEF NextRun
  <2>3. QED
    BY <1>4, <2>1, <2>2 DEF NextRun, ComparisonInv
<1>5. CASE LastRun
  <2>1. SimulationInv'
    BY <1>5, StutterKeepsInv DEF LastRun, ComparisonInv
  <2>2. reports' \in Seq(T \union {Report})
    BY <1>2, <1>5 DEF LastRun
  <2>3. QED
    BY <1>5, <2>1, <2>2 DEF LastRun, ComparisonInv
<1>6. CASE UNCHANGED validatorVars
  <2>1. SimulationInv'
    BY <1>6, StutterKeepsInv DEF validatorVars, ComparisonInv
  <2>2. QED
    BY <1>6, <2>1 DEF validatorVars, ComparisonInv
<1>7. QED
  BY <1>3, <1>4, <1>5, <1>6 DEF ValidatorNext

LEMMA ComparisonInvariant == ValidatorSpec => []ComparisonInv
<1>1. ValidatorInit => ComparisonInv
  BY ComparisonStarts
<1>2. ComparisonInv /\ [ValidatorNext]_validatorVars => ComparisonInv'
  BY ComparisonStep
<1>3. QED
  BY <1>1, <1>2, PTL DEF ValidatorSpec

\* A step of a comparison is a step of the simulation, or starts a run, or leaves
\* the simulation alone.
LEMMA ComparisonSteps ==
  ASSUME TypeOK, [ValidatorNext]_validatorVars
  PROVE  Step \/ UNCHANGED vars \/ ~ (clock' > clock)
<1>1. CASE RunTick
  BY <1>1 DEF RunTick
<1>2. CASE NextRun
  <2>1. clock' = 0 /\ clock \in Nat
    BY <1>2, SimulationAssumption DEF NextRun, TypeOK
  <2>2. QED
    BY <2>1
<1>3. CASE LastRun
  BY <1>3 DEF LastRun
<1>4. CASE UNCHANGED validatorVars
  BY <1>4 DEF validatorVars
<1>5. QED
  BY <1>1, <1>2, <1>3, <1>4 DEF ValidatorNext

-----------------------------------------------------------------------------
(***************************************************************************)
(* The theorems on the simulation.  Each is of the simulation alone and of *)
(* every run of a comparison of policies.                                  *)
(***************************************************************************)
\* simulation.py:165-207: a tick leaves the detected positions inside the world,
\* the result made of pairs of drones, and the clock within its bound.
THEOREM TypeOKAlways == (Spec => []TypeOK) /\ (ValidatorSpec => []TypeOK)
<1>1. SimulationInv => TypeOK
  BY DEF SimulationInv
<1>2. ComparisonInv => TypeOK
  BY DEF ComparisonInv, SimulationInv
<1>3. QED
  BY <1>1, <1>2, SimulationInvariant, ComparisonInvariant, PTL

\* spatial_hash.py:177-181: for any number of drones anywhere in any world, the
\* spatial hash and the classification find exactly the pairs of the brute-force
\* detector (collisions.py:149-166), each one once.
THEOREM DetectsExactlyAlways == (Spec => []DetectsExactly) /\ (ValidatorSpec => []DetectsExactly)
<1>1. SimulationInv => DetectsExactly
  BY DEF SimulationInv
<1>2. ComparisonInv => DetectsExactly
  BY DEF ComparisonInv, SimulationInv
<1>3. QED
  BY <1>1, <1>2, SimulationInvariant, ComparisonInvariant, PTL

\* collisions.py:172-173: after a resolution the two drones of a collision that no
\* other touches are the contact distance apart, or a unit less.
THEOREM SeparatesLonePairsAlways ==
  (Spec => []SeparatesLonePairs) /\ (ValidatorSpec => []SeparatesLonePairs)
<1>1. SimulationInv => SeparatesLonePairs
  BY LonePairsSeparated
<1>2. ComparisonInv => SeparatesLonePairs
  BY LonePairsSeparated DEF ComparisonInv
<1>3. QED
  BY <1>1, <1>2, SimulationInvariant, ComparisonInvariant, PTL

\* movement.py:222-229 and 318-328: only a pair at risk makes a drone swerve, and the
\* two drones of a pair on its own swerve as much and in opposite directions.
THEOREM SwervesFromThreatsAlways ==
  (Spec => []SwervesFromThreats) /\ (ValidatorSpec => []SwervesFromThreats)
<1>1. SimulationInv => SwervesFromThreats
  BY Swerves DEF SimulationInv
<1>2. ComparisonInv => SwervesFromThreats
  BY Swerves DEF ComparisonInv, SimulationInv
<1>3. QED
  BY <1>1, <1>2, SimulationInvariant, ComparisonInvariant, PTL

\* collision_queries.py:41-43: the marker of a collision that no other touches lies
\* at the midpoint the detection saw, inside the world.
THEOREM MarkersWhereDetectedAlways ==
  (Spec => []MarkersWhereDetected) /\ (ValidatorSpec => []MarkersWhereDetected)
<1>1. SimulationInv => MarkersWhereDetected
  BY MarkersPlaced
<1>2. ComparisonInv => MarkersWhereDetected
  BY MarkersPlaced DEF ComparisonInv
<1>3. QED
  BY <1>1, <1>2, SimulationInvariant, ComparisonInvariant, PTL

\* collisions.py:171 and boundaries.py:42-46: no pile of simultaneous collisions
\* changes the kinetic energy the policy has given the drones, nor does a
\* reflecting wall; a clamping one never adds to it.
THEOREM EnergyBalanceAlways == (Spec => EnergyBalance) /\ (ValidatorSpec => EnergyBalance)
<1>1. SimulationInv /\ [Step]_vars => [EnergyBalanced]_vars
  BY StepBalancesEnergy DEF SimulationInv
<1>2. ComparisonInv /\ [ValidatorNext]_validatorVars => [EnergyBalanced]_vars
  <2>1. ~ (clock' > clock) => EnergyBalanced
    BY DEF EnergyBalanced
  <2>2. QED
    BY <2>1, ComparisonSteps, StepBalancesEnergy DEF ComparisonInv, SimulationInv
<1>3. (Spec => [][EnergyBalanced]_vars) /\ (ValidatorSpec => [][EnergyBalanced]_vars)
  BY <1>1, <1>2, SimulationInvariant, ComparisonInvariant, PTL DEF Spec, ValidatorSpec
<1>4. QED
  BY <1>3 DEF EnergyBalance, EnergyBalanced

\* trajectory.py:1-9: of the candidates of the hash, every contact of the next tick
\* between two drones that keep their course has been predicted.
THEOREM PredictsContactsAlways == (Spec => PredictsContacts) /\ (ValidatorSpec => PredictsContacts)
<1>1. SimulationInv /\ [Step]_vars => [ContactsPredicted]_vars
  BY StepPredictsContacts DEF SimulationInv
<1>2. ComparisonInv /\ [ValidatorNext]_validatorVars => [ContactsPredicted]_vars
  <2>1. ~ (clock' > clock) => ContactsPredicted
    BY DEF ContactsPredicted
  <2>2. QED
    BY <2>1, ComparisonSteps, StepPredictsContacts DEF ComparisonInv, SimulationInv
<1>3. (Spec => [][ContactsPredicted]_vars) /\ (ValidatorSpec => [][ContactsPredicted]_vars)
  BY <1>1, <1>2, SimulationInvariant, ComparisonInvariant, PTL DEF Spec, ValidatorSpec
<1>4. QED
  BY <1>3 DEF PredictsContacts, ContactsPredicted

-----------------------------------------------------------------------------
(***************************************************************************)
(* Queries.                                                                *)
(***************************************************************************)
\* The places of AllDrones whose drone is inside the viewport.
VisiblePlaces(x, viewport) == {k \in DOMAIN AllDrones : Inside(x[AllDrones[k]], viewport)}
Visible(x, viewport) == {i \in Drones : Inside(x[i], viewport)}
VisibleIds(x, viewport) ==
  Masked(AllDrones, [k \in DOMAIN AllDrones |-> Inside(x[AllDrones[k]], viewport)])

\* The first limit entries of a list, if it has as many.
FirstEntries(w, limit) == SubSeq(w, 1, Min({limit, Len(w)}))

LEMMA Smaller ==
  ASSUME NEW a \in Int, NEW b \in Int
  PROVE  Min({a, b}) = IF a <= b THEN a ELSE b
<1> DEFINE m == IF a <= b THEN a ELSE b
<1>1. m \in {a, b} /\ m \in Int /\ \A y \in {a, b} : m <= y
  OBVIOUS
<1>2. \A z \in {a, b} : (\A y \in {a, b} : z <= y) => z = m
  OBVIOUS
<1> HIDE DEF m
<1>3. Min({a, b}) = m
  BY <1>1, <1>2 DEF Min
<1>4. QED
  BY <1>3 DEF m

LEMMA FirstEntriesOf ==
  ASSUME NEW T, NEW w \in Seq(T), NEW limit \in Nat
  PROVE  /\ FirstEntries(w, limit) \in Seq(T)
         /\ IsPrefix(FirstEntries(w, limit), w)
         /\ Len(w) <= limit => FirstEntries(w, limit) = w
         /\ Len(w) > limit => Len(FirstEntries(w, limit)) = limit
<1> DEFINE n == Len(w)
           m == Min({limit, n})
           u == SubSeq(w, 1, m)
<1>1. n \in Nat /\ DOMAIN w = 1 .. n
  BY PlacesOf
<1>2. m = IF limit <= n THEN limit ELSE n
  BY <1>1, Smaller
<1>3. m \in Nat /\ m <= n /\ (n <= limit => m = n) /\ (n > limit => m = limit)
  BY <1>1, <1>2
<1> HIDE DEF m, n
<1>4. u \in Seq(T) /\ Len(u) = m /\ \A k \in 1 .. m : u[k] = w[k]
  <2>1. \A k \in 1 .. m : k \in 1 .. n /\ k \in DOMAIN w
    BY <1>1, <1>3
  <2>2. \A k \in 1 .. m : w[k] \in T
    BY <2>1, LenProperties
  <2>3. /\ u \in Seq(T) /\ Len(u) = IF 1 <= m THEN m - 1 + 1 ELSE 0
        /\ \A k \in 1 .. m - 1 + 1 : u[k] = w[1 + k - 1]
    BY <1>3, <2>2, SubSeqProperties
  <2>4. m - 1 + 1 = m /\ \A k \in 1 .. m : 1 + k - 1 = k
    BY <1>3
  <2>5. QED
    BY <1>3, <2>3, <2>4
<1>5. DOMAIN u = 1 .. m
  BY <1>4, LenProperties
<1> HIDE DEF u
<1>6. SubSeq(u, 1, m) = u
  BY <1>3, <1>4, <1>5
<1>7. IsPrefix(u, w)
  BY <1>1, <1>3, <1>4, <1>6 DEF IsPrefix, u
<1>8. n <= limit => u = w
  <2>1. SubSeq(w, 1, n) = w
    BY <1>1
  <2>2. QED
    BY <1>3, <2>1 DEF u
<1>9. QED
  BY <1>3, <1>4, <1>7, <1>8 DEF FirstEntries, u, m, n

LEMMA BinInRange ==
  ASSUME NEW x \in Int, NEW lo \in Int, NEW hi \in Int, NEW bins \in Nat \ {0},
         lo = hi \/ (lo <= Exact(x) /\ Exact(x) <= hi)
  PROVE  Bin(x, <<lo, hi>>, bins) \in 0 .. bins - 1
<1>1. CASE lo = hi
  <2>1. bins \div 2 \in 0 .. bins - 1 /\ (bins - 1) \div 2 \in 0 .. bins - 1
    OBVIOUS
  <2>2. QED
    BY <1>1, <2>1 DEF Bin
<1>2. CASE lo # hi /\ Exact(x) = hi
  BY <1>2 DEF Bin
<1>3. CASE lo # hi /\ Exact(x) # hi
  <2> DEFINE a == Exact(x) - lo
             w == hi - lo
             q == (a * bins) \div w
  <2>1. a \in Nat /\ w \in Nat \ {0} /\ a + 1 <= w /\ w - a - 1 \in Nat
    BY <1>3 DEF Exact
  <2> HIDE DEF a, w
  <2>2. a * bins \in Nat /\ (w - a - 1) * bins \in Nat
    BY <2>1
  <2>3. w * bins = a * bins + (w - a - 1) * bins + bins
    BY <2>1
  <2>4. q \in Int /\ w * q <= a * bins /\ a * bins < w * q + w
    BY <2>1, <2>2, Division
  <2> HIDE DEF q
  <2> DEFINE wq == w * q
             ab == a * bins
             wb == w * bins
             rest == (w - a - 1) * bins
  <2>4a. /\ wq \in Int /\ ab \in Nat /\ wb \in Int /\ rest \in Nat
         /\ wb = ab + rest + bins /\ wq <= ab /\ ab < wq + w
    BY <2>1, <2>2, <2>3, <2>4
  <2>5. q >= 0
    <3>1. SUFFICES ASSUME q < 0 PROVE FALSE
      BY <2>4
    <3>2. - q - 1 \in Nat
      BY <2>4, <3>1
    <3>3. w * (- q - 1) >= 0 /\ w * (- q - 1) = - wq - w
      BY <2>1, <2>4, <3>2
    <3>4. - wq - w >= 0
      BY <3>3
    <3> HIDE DEF wq, ab, wb, rest
    <3>5. QED
      BY <2>1, <2>4a, <3>4
  <2>6. q < bins
    <3>1. SUFFICES ASSUME q >= bins PROVE FALSE
      BY <2>4
    <3>2. q - bins \in Nat
      BY <2>4, <3>1
    <3>3. w * (q - bins) >= 0 /\ w * (q - bins) = wq - wb
      BY <2>1, <2>4, <3>2
    <3>4. wq - wb >= 0
      BY <3>3
    <3> HIDE DEF wq, ab, wb, rest
    <3>5. QED
      BY <2>1, <2>4a, <3>4
  <2>7. Bin(x, <<lo, hi>>, bins) = q
    BY <1>3 DEF Bin, q, a, w
  <2>8. QED
    BY <2>4, <2>5, <2>6, <2>7
<1>4. QED
  BY <1>1, <1>2, <1>3

LEMMA BinOutOfRange ==
  ASSUME NEW x \in Int, NEW lo \in Int, NEW hi \in Int, lo < hi, NEW bins \in Nat \ {0},
         Exact(x) < lo \/ Exact(x) > hi
  PROVE  Bin(x, <<lo, hi>>, bins) \notin 0 .. bins - 1
<1> DEFINE a == Exact(x) - lo
           w == hi - lo
           q == (a * bins) \div w
<1>1. a \in Int /\ w \in Nat \ {0} /\ (- a - 1 \in Nat \/ a - w - 1 \in Nat)
  BY DEF Exact
<1>2. Bin(x, <<lo, hi>>, bins) = q
  BY DEF Bin, Exact
<1> HIDE DEF a, w
<1>3. a * bins \in Int
  BY <1>1
<1>4. q \in Int /\ w * q <= a * bins /\ a * bins < w * q + w
  BY <1>1, <1>3, Division
<1> HIDE DEF q
<1> DEFINE wq == w * q
           ab == a * bins
           wb == w * bins
<1>5. wq \in Int /\ ab \in Int /\ wb \in Int /\ wq <= ab /\ ab < wq + w
  BY <1>1, <1>3, <1>4
<1>6. CASE - a - 1 \in Nat
  <2>1. (- a - 1) * bins >= 0 /\ (- a - 1) * bins = - ab - bins
    BY <1>1, <1>6
  <2>2. - ab - bins >= 0
    BY <2>1
  <2>3. SUFFICES ASSUME q >= 0 PROVE FALSE
    BY <1>2
  <2>4. wq >= 0
    BY <1>1, <1>4, <2>3
  <2> HIDE DEF wq, ab
  <2>5. QED
    BY <1>5, <2>2, <2>4
<1>7. CASE a - w - 1 \in Nat
  <2>1. (a - w - 1) * bins >= 0 /\ (a - w - 1) * bins = ab - wb - bins
    BY <1>1, <1>7
  <2>2. ab - wb - bins >= 0
    BY <2>1
  <2>3. SUFFICES ASSUME q <= bins - 1 PROVE FALSE
    BY <1>2
  <2>4. bins - 1 - q \in Nat
    BY <1>4, <2>3
  <2>5. w * (bins - 1 - q) >= 0 /\ w * (bins - 1 - q) = wb - w - wq
    BY <1>1, <1>4, <2>4
  <2>6. wb - w - wq >= 0
    BY <2>5
  <2> HIDE DEF wq, ab, wb
  <2>7. QED
    BY <1>1, <1>5, <2>2, <2>6
<1>8. QED
  BY <1>1, <1>6, <1>7

\* A float32 number inside the float32 of two edges is beyond one of the edges
\* only if it is that edge's float32.
LEMMA InsideExactly ==
  ASSUME NEW x \in Int, NEW lo \in Int, NEW hi \in Int
  PROVE  Inside(x, <<lo, hi>>) =>
           \/ lo <= Exact(x) /\ Exact(x) <= hi
           \/ Float32(lo) = x /\ Exact(x) < lo
           \/ Float32(hi) = x /\ Exact(x) > hi
BY DEF Inside, Float32, Exact

\* find_visible_drones() without a limit that bites: the drones inside, in order.
LEMMA VisibleListed ==
  ASSUME NEW x \in [Drones -> Int], NEW viewport, NEW visible, visible = VisibleIds(x, viewport)
  PROVE  /\ visible \in Seq(Drones) /\ Len(visible) <= NumDrones
         /\ ToSet(visible) = Visible(x, viewport)
         /\ Cardinality(ToSet(visible)) = Len(visible)
<1> DEFINE K == VisiblePlaces(x, viewport)
           mask == [k \in DOMAIN AllDrones |-> Inside(x[AllDrones[k]], viewport)]
<1>1. visible = Masked(AllDrones, mask) /\ K = {k \in DOMAIN AllDrones : mask[k]}
  BY DEF VisibleIds, VisiblePlaces
<1>2. /\ AllDrones \in Seq(Drones) /\ IsInjective(AllDrones)
      /\ ToSet(AllDrones) = Drones /\ NumDrones \in Nat
      /\ DOMAIN AllDrones = 1 .. NumDrones
  BY AllDronesList, KernelAssumption DEF AllDrones
<1>3. K \in SUBSET (1 .. NumDrones) /\ K \in SUBSET (DOMAIN AllDrones)
  BY <1>2 DEF VisiblePlaces
<1>4. {AllDrones[k] : k \in K} = Visible(x, viewport)
  <2>1. \A k \in K : AllDrones[k] \in Drones /\ Inside(x[AllDrones[k]], viewport)
    BY <1>2 DEF VisiblePlaces
  <2>2. \A i \in Drones : \E k \in DOMAIN AllDrones : AllDrones[k] = i
    BY <1>2 DEF ToSet
  <2>3. \A i \in Visible(x, viewport) : \E k \in K : AllDrones[k] = i
    BY <2>2 DEF Visible, VisiblePlaces
  <2>4. QED
    BY <2>1, <2>3 DEF Visible
<1> HIDE DEF K, mask
<1>5. Selects(visible, AllDrones, K)
  BY <1>1, <1>2, <1>3, Selection
<1>6. /\ visible \in Seq(Drones) /\ Len(visible) = Cardinality(K) /\ Cardinality(K) \in Nat
      /\ DOMAIN visible = 1 .. Cardinality(K)
      /\ ToSet(visible) = {AllDrones[k] : k \in K} /\ IsInjective(visible)
  <2> HIDE DEF VisibleIds
  <2>1. AllDrones \in Seq(Drones) /\ IsInjective(AllDrones) /\ K \in SUBSET (DOMAIN AllDrones)
    BY <1>2, <1>3
  <2>2. visible \in Seq(Drones) /\ Len(visible) = Cardinality(K) /\ Cardinality(K) \in Nat
    BY <1>5, <2>1, SelectedEntries
  <2>3. DOMAIN visible = 1 .. Cardinality(K)
    BY <1>5, <2>1, SelectedEntries
  <2>4. ToSet(visible) = {AllDrones[k] : k \in K}
    <3>1. /\ \A y \in ToSet(visible) : \E k \in K : y = AllDrones[k]
          /\ \A k \in K : AllDrones[k] \in ToSet(visible)
      BY <1>5, <2>1, SelectedSet
    <3>2. QED
      BY <3>1
  <2>5. IsInjective(visible)
    BY <1>5, <2>1, SelectedEntries
  <2>6. QED
    BY <2>2, <2>3, <2>4, <2>5
<1>7. Len(visible) <= NumDrones
  <2>1. IsFiniteSet(1 .. NumDrones) /\ Cardinality(1 .. NumDrones) = NumDrones
    BY <1>2, FS_Interval
  <2>2. Cardinality(K) <= Cardinality(1 .. NumDrones)
    BY <1>3, <2>1, FS_Subset
  <2>3. QED
    BY <1>6, <2>1, <2>2
<1>8. Cardinality(ToSet(visible)) = Len(visible)
  BY <1>6, DistinctEntries
<1>9. QED
  BY <1>4, <1>6, <1>7, <1>8

LEMMA QueriesOfSnapshot ==
  ASSUME TypeOK, NEW viewport \in Viewports
  PROVE  LET visible == FindVisibleDrones(Snapshot, viewport, NumDrones)
             within  == ToSet(visible.ids) \ BeyondEdge(viewport)
             markers == QueryCollisionMarkers(Snapshot, viewport)
         IN  /\ \A bins \in Bins :
                  LET heatmap == ComputeHeatmap(Snapshot, viewport, bins)
                      counted == MapThenSumSet(LAMBDA b : heatmap.counts[b], 0 .. bins - 1)
                  IN  /\ heatmap.included = visible.total
                      /\ counted = IF viewport[1] = viewport[2] THEN visible.total
                                   ELSE Cardinality(within)
             /\ \A limit \in Limits :
                  LET cut == FindVisibleDrones(Snapshot, viewport, limit)
                  IN  /\ cut.total = visible.total
                      /\ IsPrefix(cut.ids, visible.ids)
                      /\ cut.truncated <=> cut.ids # visible.ids
             /\ \A p \in ToSet(result.collisions) :
                  ToSet(p) \subseteq within => \E m \in markers : m.pair = p
<1> DEFINE w == VisibleIds(pos, viewport)
           lo == viewport[1]
           hi == viewport[2]
           V == Visible(pos, viewport)
           W == V \ BeyondEdge(viewport)
<1>1. /\ Snapshot.ids = AllDrones /\ Snapshot.positions = pos /\ Snapshot.pairs = result.collisions
      /\ pos \in [Drones -> Int]
  BY DEF Snapshot, TypeOK
<1>2. /\ w \in Seq(Drones) /\ Len(w) <= NumDrones
      /\ ToSet(w) = V /\ Cardinality(V) = Len(w)
  BY <1>1, VisibleListed
<1>3. \A limit : FindVisibleDrones(Snapshot, viewport, limit)
                   = [ids |-> FirstEntries(w, limit), total |-> Len(w), truncated |-> Len(w) > limit]
  BY <1>1 DEF FindVisibleDrones, FirstEntries, VisibleIds
<1> HIDE DEF w
<1>4. NumDrones \in Nat /\ FirstEntries(w, NumDrones) = w
  BY <1>2, FirstEntriesOf, KernelAssumption
<1>5. /\ FindVisibleDrones(Snapshot, viewport, NumDrones).ids = w
      /\ FindVisibleDrones(Snapshot, viewport, NumDrones).total = Len(w)
  BY <1>3, <1>4
<1>6. lo \in Int /\ hi \in Int /\ lo <= hi /\ viewport = <<lo, hi>>
  BY QueriesAssumption
<1>7. \A i \in V :
        /\ i \in Drones /\ pos[i] \in Int
        /\ i \in W <=> lo <= Exact(pos[i]) /\ Exact(pos[i]) <= hi
  <2>1. SUFFICES ASSUME NEW i \in V
                 PROVE  /\ i \in Drones /\ pos[i] \in Int
                        /\ i \in W <=> lo <= Exact(pos[i]) /\ Exact(pos[i]) <= hi
    OBVIOUS
  <2>2. i \in Drones /\ pos[i] \in Int /\ Inside(pos[i], <<lo, hi>>)
    BY <1>1, <1>6 DEF Visible
  <2>3. \/ lo <= Exact(pos[i]) /\ Exact(pos[i]) <= hi
        \/ Float32(lo) = pos[i] /\ Exact(pos[i]) < lo
        \/ Float32(hi) = pos[i] /\ Exact(pos[i]) > hi
    BY <1>6, <2>2, InsideExactly
  <2>4. i \in BeyondEdge(viewport)
          <=> \/ Float32(lo) = pos[i] /\ Exact(pos[i]) < lo
              \/ Float32(hi) = pos[i] /\ Exact(pos[i]) > hi
    BY <2>2 DEF BeyondEdge
  <2>5. Exact(pos[i]) \in Int
    BY <2>2 DEF Exact
  <2> HIDE DEF lo, hi, V
  <2>6. QED
    BY <1>6, <2>2, <2>3, <2>4, <2>5
<1>8. IsFiniteSet(V)
  <2>1. V \in SUBSET Drones
    BY DEF Visible
  <2>2. QED
    BY <2>1, DronesFinite, FS_Subset
<1>8a. W \in SUBSET V /\ IsFiniteSet(W)
  BY <1>8, FS_Subset
<1>8b. ToSet(w) \ BeyondEdge(viewport) = W
  BY <1>2
<1> HIDE DEF lo, hi, V, W
<1>9. ASSUME NEW bins \in Bins
      PROVE  /\ ComputeHeatmap(Snapshot, viewport, bins).included = Len(w)
             /\ MapThenSumSet(LAMBDA b : ComputeHeatmap(Snapshot, viewport, bins).counts[b], 0 .. bins - 1)
                  = IF lo = hi THEN Len(w) ELSE Cardinality(W)
  <2> DEFINE B == 0 .. bins - 1
             C == IF lo = hi THEN V ELSE W
             f == [i \in C |-> Bin(pos[i], viewport, bins)]
             tally == [b \in B |-> Cardinality({i \in V : Bin(pos[i], viewport, bins) = b})]
  <2>1. ComputeHeatmap(Snapshot, viewport, bins) = [included |-> Cardinality(V), counts |-> tally]
    BY <1>1, <1>2, <1>5 DEF ComputeHeatmap
  <2>2. bins \in Nat \ {0}
    BY QueriesAssumption
  <2>3. IsFiniteSet(B)
    BY <2>2, FS_Interval
  <2>4. C \in SUBSET V /\ IsFiniteSet(C)
    BY <1>8, <1>8a
  <2>4a. \A i \in V : i \in C <=> Bin(pos[i], viewport, bins) \in B
    <3>1. SUFFICES ASSUME NEW i \in V PROVE i \in C <=> Bin(pos[i], viewport, bins) \in B
      OBVIOUS
    <3>2. pos[i] \in Int /\ Exact(pos[i]) \in Int
      BY <1>7 DEF Exact
    <3>3. CASE i \in C
      BY <1>6, <1>7, <2>2, <3>2, <3>3, BinInRange
    <3>4. CASE i \notin C
      <4>1. lo < hi /\ (Exact(pos[i]) < lo \/ Exact(pos[i]) > hi)
        BY <1>6, <1>7, <3>2, <3>4
      <4>2. QED
        BY <1>6, <2>2, <3>2, <3>4, <4>1, BinOutOfRange
    <3>5. QED
      BY <3>3, <3>4
  <2>4b. \A i \in C : f[i] \in B
    BY <2>4, <2>4a
  <2>5. Tallies(tally, f, C, B)
    <3>1. \A b \in B : Fiber(f, C, b) = {i \in V : Bin(pos[i], viewport, bins) = b}
      <4>1. \A b \in B : \A i \in V : Bin(pos[i], viewport, bins) = b => i \in C
        BY <2>4a
      <4>2. \A i \in C : f[i] = Bin(pos[i], viewport, bins) /\ i \in V
        BY <2>4
      <4> HIDE DEF f, B, C
      <4>3. QED
        BY <4>1, <4>2 DEF Fiber
    <3>2. \A b \in B : tally[b] = Cardinality({i \in V : Bin(pos[i], viewport, bins) = b})
      OBVIOUS
    <3> HIDE DEF tally, B, f, C
    <3>3. \A b \in B : tally[b] = Cardinality(Fiber(f, C, b))
      BY <3>1, <3>2
    <3>4. QED
      BY <3>3 DEF Tallies
  <2> HIDE DEF B, f, tally
  <2>6. Total(tally, B) = Cardinality(C)
    <3> HIDE DEF C
    <3>1. QED
      BY <2>3, <2>4, <2>4b, <2>5, TalliesAddUp
  <2>7. ComputeHeatmap(Snapshot, viewport, bins).counts = tally
    BY <2>1
  <2>8. MapThenSumSet(LAMBDA b : ComputeHeatmap(Snapshot, viewport, bins).counts[b], B) = Total(tally, B)
    BY <2>7 DEF Total
  <2>9. QED
    BY <1>2, <2>1, <2>6, <2>8 DEF B
<1>10. ASSUME NEW limit \in Limits
       PROVE  /\ FindVisibleDrones(Snapshot, viewport, limit).total = Len(w)
              /\ IsPrefix(FindVisibleDrones(Snapshot, viewport, limit).ids, w)
              /\ FindVisibleDrones(Snapshot, viewport, limit).truncated
                   <=> FindVisibleDrones(Snapshot, viewport, limit).ids # w
  <2>1. limit \in Nat
    BY QueriesAssumption
  <2>2. /\ IsPrefix(FirstEntries(w, limit), w)
        /\ Len(w) <= limit => FirstEntries(w, limit) = w
        /\ Len(w) > limit => Len(FirstEntries(w, limit)) = limit
    BY <1>2, <2>1, FirstEntriesOf
  <2>3. Len(w) > limit <=> FirstEntries(w, limit) # w
    <3>1. Len(w) \in Nat
      BY <1>2, LenProperties
    <3>2. QED
      BY <2>1, <2>2, <3>1
  <2>4. /\ FindVisibleDrones(Snapshot, viewport, limit).ids = FirstEntries(w, limit)
        /\ FindVisibleDrones(Snapshot, viewport, limit).total = Len(w)
        /\ FindVisibleDrones(Snapshot, viewport, limit).truncated = (Len(w) > limit)
    BY <1>3
  <2>5. QED
    BY <2>2, <2>3, <2>4
<1>11. ASSUME NEW p \in ToSet(result.collisions), ToSet(p) \subseteq W
       PROVE  \E m \in QueryCollisionMarkers(Snapshot, viewport) : m.pair = p
  <2>1. PICK k \in DOMAIN result.collisions : p = result.collisions[k]
    BY DEF ToSet
  <2>2. p \in Drones \X Drones
    BY <2>1, LenProperties DEF TypeOK
  <2>3. p[1] \in ToSet(p) /\ p[2] \in ToSet(p)
    BY <2>2 DEF ToSet
  <2>4. p[1] \in W /\ p[2] \in W /\ p[1] \in V /\ p[2] \in V
    BY <1>8a, <1>11, <2>3
  <2> DEFINE twice == pos[p[1]] + pos[p[2]]
             m == [pair |-> p, distance |-> Snapshot.distances[k], twice |-> twice]
  <2>5. 2 * lo <= Exact(twice) /\ Exact(twice) <= 2 * hi
    BY <1>6, <1>7, <2>4 DEF Exact
  <2>6. m = [pair |-> Snapshot.pairs[k], distance |-> Snapshot.distances[k],
             twice |-> Snapshot.positions[Snapshot.pairs[k][1]]
                         + Snapshot.positions[Snapshot.pairs[k][2]]]
    BY <1>1, <2>1
  <2>7. k \in DOMAIN Snapshot.pairs
    BY <1>1, <2>1
  <2>8. m.twice = twice /\ m.pair = p
    OBVIOUS
  <2> HIDE DEF m, twice
  <2>9. 2 * viewport[1] <= Exact(m.twice) /\ Exact(m.twice) <= 2 * viewport[2]
    BY <2>5, <2>8 DEF lo, hi
  <2>10. m \in QueryCollisionMarkers(Snapshot, viewport)
    BY <2>6, <2>7, <2>9 DEF QueryCollisionMarkers
  <2>11. QED
    BY <2>8, <2>10
<1>12. QED
  BY <1>5, <1>8b, <1>9, <1>10, <1>11 DEF lo, hi

\* heatmap.py:56-61 and viewport.py:60-62: for any viewport, number of bins and
\* limit, the three queries of a snapshot agree, but for the drones that lie on
\* the float32 of an edge and beyond the edge.
THEOREM QueriesAgreeAlways == (Spec => []QueriesAgree) /\ (ValidatorSpec => []QueriesAgree)
<1>1. SimulationInv => QueriesAgree
  BY QueriesOfSnapshot DEF SimulationInv, QueriesAgree
<1>2. ComparisonInv => QueriesAgree
  BY <1>1 DEF ComparisonInv
<1>3. QED
  BY <1>1, <1>2, SimulationInvariant, ComparisonInvariant, PTL

-----------------------------------------------------------------------------
(***************************************************************************)
(* A comparison repeats.  A run is the sequence of the states it goes      *)
(* through, and the world, the boundary mode, the goals and the policy     *)
(* determine that sequence, hence the report.                              *)
(***************************************************************************)
\* What a run has: the state of the simulation and what has been taken down.
RunNow ==
  [pos |-> pos, vel |-> vel, detected |-> detected, result |-> result,
   collisions |-> collisions, nearMisses |-> nearMisses, everCollided |-> everCollided,
   minSeparation |-> minSeparation, arrivalTick |-> arrivalTick]

FirstOf(w) ==
  [pos |-> w.pos, vel |-> w.vel, detected |-> w.pos, result |-> NoResult,
   collisions |-> NoEvents, nearMisses |-> NoEvents, everCollided |-> {},
   minSeparation |-> Infinity, arrivalTick |-> [i \in Drones |-> -1]]

\* The tick after h, which is number k, under policy p.
AfterTick(h, k, p, m, g) ==
  LET s     == [pos |-> h.pos, vel |-> h.vel]
      moved == Tick(s, p, g, IF p = "local_avoidance"
                               THEN Predict(CandidatePairs(AllDrones, s.pos), s) ELSE <<>>, m)
      found == Detect(AllDrones, moved.pos)
      final == Resolve(moved, found.collisions)
  IN  [pos |-> final.pos, vel |-> final.vel, detected |-> moved.pos, result |-> found,
       collisions |-> RecordTick(h.collisions, ToSet(found.collisions)),
       nearMisses |-> RecordTick(h.nearMisses, ToSet(found.nearMisses)),
       everCollided |-> h.everCollided \union ToSet(found.collisions),
       minSeparation |-> Smallest(moved.pos, found, h.minSeparation),
       arrivalTick |-> [i \in Drones |->
                          IF h.arrivalTick[i] < 0 /\ Magnitude(g[i] - final.pos[i]) <= GoalTolerance
                            THEN k ELSE h.arrivalTick[i]]]

ReportOf(h) ==
  [pairTicks    |-> h.collisions.pairTicks,
   uniqueEvents |-> h.collisions.uniqueEvents,
   nearEvents   |-> h.nearMisses.uniqueEvents,
   collided     |-> h.everCollided,
   separation   |-> h.minSeparation,
   arrivalTick  |-> h.arrivalTick,
   stationary   |-> Cardinality({i \in Drones : h.vel[i] = 0})]

\* tau is the first n ticks of the run of policy p.
RunOf(tau, n, p, w, m, g) ==
  /\ tau[0] = FirstOf(w)
  /\ \A k \in 1 .. n : tau[k] = AfterTick(tau[k - 1], k - 1, p, m, g)

LEMMA RunsAgree ==
  ASSUME NEW n \in Nat, NEW p, NEW w, NEW m, NEW g,
         NEW t, RunOf(t, n, p, w, m, g), NEW u, RunOf(u, n, p, w, m, g)
  PROVE  t[n] = u[n]
<1> DEFINE N == {k \in Nat : k <= n => t[k] = u[k]}
<1>1. 0 \in N
  BY DEF RunOf
<1>2. \A k \in Nat : k \in N => k + 1 \in N
  <2>1. SUFFICES ASSUME NEW k \in Nat, k \in N, k + 1 <= n PROVE t[k + 1] = u[k + 1]
    OBVIOUS
  <2>2. k + 1 \in 1 .. n /\ (k + 1) - 1 = k /\ t[k] = u[k]
    BY <2>1
  <2>3. /\ t[k + 1] = AfterTick(t[k], k, p, m, g)
        /\ u[k + 1] = AfterTick(u[k], k, p, m, g)
    BY <2>2 DEF RunOf
  <2>4. QED
    BY <2>2, <2>3
<1>3. Nat \subseteq N
  <2> HIDE DEF N
  <2>1. QED
    BY <1>1, <1>2, NumberInduction
<1>4. QED
  BY <1>3

LEMMA RunExtended ==
  ASSUME NEW n \in Nat, NEW p, NEW w, NEW m, NEW g, NEW t, RunOf(t, n, p, w, m, g),
         NEW h, h = AfterTick(t[n], n, p, m, g)
  PROVE  \E u : RunOf(u, n + 1, p, w, m, g) /\ u[n + 1] = h
<1> DEFINE u == [k \in 0 .. n + 1 |-> IF k = n + 1 THEN h ELSE t[k]]
<1>1. /\ \A k \in 0 .. n : u[k] = t[k]
      /\ u[n + 1] = h
  OBVIOUS
<1> HIDE DEF u
<1>2. u[0] = FirstOf(w)
  BY <1>1 DEF RunOf
<1>3. \A k \in 1 .. n + 1 : u[k] = AfterTick(u[k - 1], k - 1, p, m, g)
  <2>1. TAKE k \in 1 .. n + 1
  <2>2. CASE k <= n
    <3>1. k \in 1 .. n /\ k \in 0 .. n /\ k - 1 \in 0 .. n
      BY <2>2
    <3>2. t[k] = AfterTick(t[k - 1], k - 1, p, m, g)
      BY <3>1 DEF RunOf
    <3>3. QED
      BY <1>1, <3>1, <3>2
  <2>3. CASE ~ (k <= n)
    <3>1. k = n + 1 /\ (n + 1) - 1 = n /\ n \in 0 .. n
      BY <2>3
    <3>2. QED
      BY <1>1, <3>1
  <2>4. QED
    BY <2>2, <2>3
<1>4. QED
  BY <1>1, <1>2, <1>3 DEF RunOf

RunTraced ==
  \E tau : RunOf(tau, clock, policy, world, mode, goal) /\ tau[clock] = RunNow

ReportTraced(q) ==
  \E tau : /\ RunOf(tau, MaxTick, Comparison[q], world, mode, goal)
           /\ reports[q] = ReportOf(tau[MaxTick])

RepeatInv ==
  /\ ComparisonInv
  /\ Len(reports) < Len(Comparison) => policy = Comparison[Len(reports) + 1]
  /\ RunTraced
  /\ \A q \in DOMAIN reports : ReportTraced(q)

LEMMA FirstIsTraced ==
  ASSUME NEW p, NEW w, NEW m, NEW g
  PROVE  \E tau : RunOf(tau, 0, p, w, m, g) /\ tau[0] = FirstOf(w)
<1> DEFINE tau == [k \in {0} |-> FirstOf(w)]
<1>1. tau[0] = FirstOf(w)
  OBVIOUS
<1>2. 1 .. 0 = {}
  OBVIOUS
<1> HIDE DEF tau
<1>3. RunOf(tau, 0, p, w, m, g)
  BY <1>1, <1>2 DEF RunOf
<1>4. QED
  BY <1>1, <1>3

LEMMA InitRepeats == ValidatorInit => RepeatInv
<1> SUFFICES ASSUME ValidatorInit PROVE RepeatInv
  OBVIOUS
<1>1. ComparisonInv
  BY ComparisonStarts
<1>2. reports = <<>> /\ Len(reports) = 0 /\ DOMAIN reports = {}
  BY DEF ValidatorInit
<1>3. policy = Comparison[1] /\ clock = 0
  BY DEF ValidatorInit, Init
<1>4. RunNow = FirstOf(world)
  BY DEF ValidatorInit, Init, RunNow, FirstOf, Now
<1>5. \E tau : RunOf(tau, 0, policy, world, mode, goal) /\ tau[0] = FirstOf(world)
  BY FirstIsTraced
<1>6. RunTraced
  BY <1>3, <1>4, <1>5 DEF RunTraced
<1>7. QED
  BY <1>1, <1>2, <1>3, <1>6 DEF RepeatInv

\* A tick of a run is the one its state determines.
LEMMA RunTickDetermined ==
  ASSUME RunTick
  PROVE  RunNow' = AfterTick(RunNow, clock, policy, mode, goal)
<1> DEFINE s == [pos |-> pos, vel |-> vel]
           ctx == IF policy = "local_avoidance"
                    THEN Predict(CandidatePairs(AllDrones, s.pos), s) ELSE <<>>
           moved == Tick(s, policy, goal, ctx, mode)
           found == Detect(AllDrones, moved.pos)
           final == Resolve(moved, found.collisions)
<1>1. Now = s /\ Context(Now) = ctx
  BY DEF Now, Context
<1>2. /\ pos' = final.pos /\ vel' = final.vel /\ detected' = moved.pos /\ result' = found
      /\ UNCHANGED <<mode, policy, goal>>
  BY <1>1 DEF RunTick, Step, EngineStep, Tick
<1> HIDE DEF moved, found, final, ctx
<1>3. /\ collisions' = RecordTick(collisions, ToSet(found.collisions))
      /\ nearMisses' = RecordTick(nearMisses, ToSet(found.nearMisses))
      /\ everCollided' = everCollided \union ToSet(found.collisions)
      /\ minSeparation' = Smallest(moved.pos, found, minSeparation)
  BY <1>2 DEF RunTick, Observe
<1>4. arrivalTick' = [i \in Drones |->
                        IF arrivalTick[i] < 0 /\ Magnitude(goal[i] - final.pos[i]) <= GoalTolerance
                          THEN clock ELSE arrivalTick[i]]
  <2>1. \A i : AtGoal(pos', i) <=> Magnitude(goal[i] - final.pos[i]) <= GoalTolerance
    BY <1>2 DEF AtGoal
  <2>2. arrivalTick' = [i \in Drones |-> IF arrivalTick[i] < 0 /\ AtGoal(pos', i)
                                           THEN clock ELSE arrivalTick[i]]
    BY DEF RunTick, Observe
  <2>3. QED
    BY <2>1, <2>2
<1>5. RunNow' = [pos |-> final.pos, vel |-> final.vel, detected |-> moved.pos, result |-> found,
                 collisions |-> RecordTick(collisions, ToSet(found.collisions)),
                 nearMisses |-> RecordTick(nearMisses, ToSet(found.nearMisses)),
                 everCollided |-> everCollided \union ToSet(found.collisions),
                 minSeparation |-> Smallest(moved.pos, found, minSeparation),
                 arrivalTick |-> [i \in Drones |->
                   IF arrivalTick[i] < 0 /\ Magnitude(goal[i] - final.pos[i]) <= GoalTolerance
                     THEN clock ELSE arrivalTick[i]]]
  BY <1>2, <1>3, <1>4 DEF RunNow
<1>6. QED
  BY <1>5 DEF AfterTick, RunNow, moved, found, final, ctx

LEMMA RunTickRepeats ==
  ASSUME RepeatInv, RunTick
  PROVE  RepeatInv'
<1>1. ComparisonInv'
  BY ComparisonStep DEF RepeatInv, ValidatorNext
<1>2. clock' = clock + 1 /\ UNCHANGED <<mode, policy, goal, world, reports>>
  BY DEF RunTick, Step
<1>3. clock \in Nat
  BY SimulationAssumption DEF RepeatInv, ComparisonInv, SimulationInv, TypeOK
<1>4. PICK tau : RunOf(tau, clock, policy, world, mode, goal) /\ tau[clock] = RunNow
  BY DEF RepeatInv, RunTraced
<1>5. RunNow' = AfterTick(tau[clock], clock, policy, mode, goal)
  BY <1>4, RunTickDetermined
<1>6. \E u : RunOf(u, clock + 1, policy, world, mode, goal) /\ u[clock + 1] = RunNow'
  BY <1>3, <1>4, <1>5, RunExtended
<1>7. RunTraced'
  BY <1>2, <1>6 DEF RunTraced
<1>8. \A q \in DOMAIN reports : ReportTraced(q)'
  BY <1>2 DEF RepeatInv, ReportTraced
<1>9. QED
  BY <1>1, <1>2, <1>7, <1>8 DEF RepeatInv

\* The report appended is that of the whole run of its policy.
LEMMA ReportAppended ==
  ASSUME RepeatInv, clock = MaxTick, Len(reports) < Len(Comparison),
         reports' = Append(reports, Report), UNCHANGED <<mode, goal, world>>
  PROVE  \A q \in DOMAIN reports' : ReportTraced(q)'
<1>1. PICK T : reports \in Seq(T)
  BY DEF RepeatInv, ComparisonInv
<1>2. PICK n \in Nat : n = Len(reports)
  BY <1>1
<1>3. /\ DOMAIN reports = 1 .. n
      /\ DOMAIN reports' = 1 .. n + 1
      /\ reports'[n + 1] = Report
      /\ \A q \in 1 .. n : reports'[q] = reports[q]
  BY <1>1, <1>2
<1>4. PICK tau : RunOf(tau, MaxTick, Comparison[n + 1], world, mode, goal) /\ tau[MaxTick] = RunNow
  BY <1>2 DEF RepeatInv, RunTraced
<1>5. Report = ReportOf(RunNow)
  BY DEF Report, ReportOf, RunNow
<1>6. ReportTraced(n + 1)'
  BY <1>3, <1>4, <1>5 DEF ReportTraced
<1>7. \A q \in 1 .. n : ReportTraced(q)'
  BY <1>3 DEF RepeatInv, ReportTraced
<1>8. \A q \in 1 .. n + 1 : ReportTraced(q)'
  <2>1. TAKE q \in 1 .. n + 1
  <2>2. q = n + 1 \/ q \in 1 .. n
    OBVIOUS
  <2>3. CASE q = n + 1
    BY <1>6, <2>3
  <2>4. CASE q \in 1 .. n
    BY <1>7, <2>4
  <2>5. QED
    BY <2>2, <2>3, <2>4
<1>9. QED
  BY <1>3, <1>8

LEMMA NextRunRepeats ==
  ASSUME RepeatInv, NextRun
  PROVE  RepeatInv'
<1>1. ComparisonInv'
  BY ComparisonStep DEF RepeatInv, ValidatorNext
<1>2. PICK T : reports \in Seq(T)
  BY DEF RepeatInv, ComparisonInv
<1>3. /\ Len(reports) \in Nat /\ Len(reports') = Len(reports) + 1
      /\ Len(reports) + 1 < Len(Comparison) /\ Len(Comparison) \in Nat
  BY <1>2, ComparisonAssumption DEF NextRun
<1>4. /\ clock = MaxTick /\ reports' = Append(reports, Report) /\ UNCHANGED <<mode, goal, world>>
      /\ policy' = Comparison[Len(reports) + 2] /\ clock' = 0
  BY DEF NextRun
<1>5. \A q \in DOMAIN reports' : ReportTraced(q)'
  BY <1>3, <1>4, ReportAppended
<1>6. policy' = Comparison[Len(reports') + 1]
  <2>1. Len(reports') + 1 = Len(reports) + 2
    BY <1>3
  <2>2. QED
    BY <1>4, <2>1
<1>7. RunNow' = FirstOf(world)
  BY DEF NextRun, RunNow, FirstOf
<1>8. \E tau : RunOf(tau, 0, policy', world, mode, goal) /\ tau[0] = FirstOf(world)
  BY FirstIsTraced
<1>9. RunTraced'
  BY <1>4, <1>7, <1>8 DEF RunTraced
<1>10. QED
  BY <1>1, <1>5, <1>6, <1>9 DEF RepeatInv

LEMMA LastRunRepeats ==
  ASSUME RepeatInv, LastRun
  PROVE  RepeatInv'
<1>1. ComparisonInv'
  BY ComparisonStep DEF RepeatInv, ValidatorNext
<1>2. PICK T : reports \in Seq(T)
  BY DEF RepeatInv, ComparisonInv
<1>3. /\ Len(reports) \in Nat /\ Len(reports') = Len(reports) + 1
      /\ Len(reports) + 1 = Len(Comparison) /\ Len(Comparison) \in Nat
  BY <1>2, ComparisonAssumption DEF LastRun
<1>4. /\ clock = MaxTick /\ reports' = Append(reports, Report)
      /\ UNCHANGED <<vars, world, counts>>
  BY DEF LastRun
<1>5. \A q \in DOMAIN reports' : ReportTraced(q)'
  BY <1>3, <1>4, ReportAppended DEF vars
<1>6. ~ (Len(reports') < Len(Comparison))
  BY <1>3
<1>7. RunTraced'
  BY <1>4 DEF RepeatInv, RunTraced, RunNow, vars, counts
<1>8. QED
  BY <1>1, <1>5, <1>6, <1>7 DEF RepeatInv

LEMMA RepeatInvariant == ValidatorSpec => []RepeatInv
<1>1. RepeatInv /\ [ValidatorNext]_validatorVars => RepeatInv'
  <2>1. SUFFICES ASSUME RepeatInv, [ValidatorNext]_validatorVars PROVE RepeatInv'
    OBVIOUS
  <2>2. CASE RunTick
    BY <2>1, <2>2, RunTickRepeats
  <2>3. CASE NextRun
    BY <2>1, <2>3, NextRunRepeats
  <2>4. CASE LastRun
    BY <2>1, <2>4, LastRunRepeats
  <2>5. CASE UNCHANGED validatorVars
    <3>1. ComparisonInv'
      BY <2>1, ComparisonStep DEF RepeatInv
    <3>2. UNCHANGED <<clock, mode, policy, goal, world, reports, RunNow>>
      BY <2>5 DEF validatorVars, vars, counts, RunNow
    <3>3. RunTraced' /\ \A q \in DOMAIN reports : ReportTraced(q)'
      BY <2>1, <3>2 DEF RepeatInv, RunTraced, ReportTraced
    <3>4. QED
      BY <2>1, <3>1, <3>2, <3>3 DEF RepeatInv
  <2>6. QED
    BY <2>1, <2>2, <2>3, <2>4, <2>5 DEF ValidatorNext
<1>2. QED
  BY <1>1, InitRepeats, PTL DEF ValidatorSpec

\* validation.py:116-128 and 158-160: two runs of one policy in a comparison, with
\* whatever in between, give the same report.
THEOREM ReportsRepeatableAlways == ValidatorSpec => []ReportsRepeatable
<1>1. ASSUME RepeatInv, NEW q \in DOMAIN reports, NEW r \in DOMAIN reports,
             Comparison[q] = Comparison[r]
      PROVE  reports[q] = reports[r]
  <2>1. PICK t : /\ RunOf(t, MaxTick, Comparison[q], world, mode, goal)
                 /\ reports[q] = ReportOf(t[MaxTick])
    BY <1>1 DEF RepeatInv, ReportTraced
  <2>2. PICK u : /\ RunOf(u, MaxTick, Comparison[q], world, mode, goal)
                 /\ reports[r] = ReportOf(u[MaxTick])
    BY <1>1 DEF RepeatInv, ReportTraced
  <2>3. t[MaxTick] = u[MaxTick]
    BY <2>1, <2>2, RunsAgree, SimulationAssumption
  <2>4. QED
    BY <2>1, <2>2, <2>3
<1>2. RepeatInv => ReportsRepeatable
  BY <1>1 DEF ReportsRepeatable
<1>3. QED
  BY <1>2, RepeatInvariant, PTL

-----------------------------------------------------------------------------
(***************************************************************************)
(* The counts of a run match its history.  The pairs in a band at each     *)
(* tick make a history in the sense of Spells: its incidents are the       *)
(* spells, and a tracker has counted the beginnings and the holdings.      *)
(***************************************************************************)
Pairs == {p \in Drones \X Drones : p[1] < p[2]}

PairsWithin(x, lo, hi) == {p \in Pairs : Distance(x, p[1], p[2]) > lo /\ Distance(x, p[1], p[2]) <= hi}

History(s, lo, hi) == [t \in DOMAIN s |-> PairsWithin(s[t].detected, lo, hi)]

\* What a tracker holds after the n ticks of the history H.
Counted(tracker, H, n) ==
  /\ tracker.previous = Latest(H, n)
  /\ tracker.pairTicks = Cardinality(Holdings(H, Pairs))
  /\ tracker.uniqueEvents = Cardinality(Beginnings(H, Pairs))

\* k + 1 is the first of the ticks M, the ticks of a run having numbers from 0.
First(k, M) ==
  \/ k = -1 /\ M = {}
  \/ k \in Nat /\ k + 1 \in M /\ \A t \in M : k + 1 <= t

MetAt(i) == {t \in DOMAIN seen : AtGoal(seen[t].pos, i)}

Seen == \E T : seen \in Seq(T)

RunCounted ==
  /\ Seen
  /\ clock = Len(seen)
  /\ Counted(collisions, History(seen, -1, CollisionRadius), clock)
  /\ Counted(nearMisses, History(seen, CollisionRadius, NearMissRadius), clock)
  /\ \A p : p \in everCollided <=>
              \E t \in DOMAIN seen : p \in PairsWithin(seen[t].detected, -1, CollisionRadius)
  /\ arrivalTick \in [Drones -> Int]
  /\ \A i \in Drones : First(arrivalTick[i], MetAt(i))

MatchInv == ComparisonInv /\ RunCounted

LEMMA PairsFinite == IsFiniteSet(Pairs)
<1>1. IsFiniteSet(Drones \X Drones)
  BY DronesFinite, FS_Product
<1>2. Pairs \in SUBSET (Drones \X Drones)
  BY DEF Pairs
<1>3. QED
  BY <1>1, <1>2, FS_Subset

LEMMA HistoryType ==
  ASSUME NEW T, NEW s \in Seq(T), NEW lo, NEW hi
  PROVE  Len(s) \in Nat /\ History(s, lo, hi) \in [1 .. Len(s) -> SUBSET Pairs]
<1>1. DOMAIN s = 1 .. Len(s) /\ Len(s) \in Nat
  OBVIOUS
<1>2. \A x : PairsWithin(x, lo, hi) \in SUBSET Pairs
  BY DEF PairsWithin
<1>3. QED
  BY <1>1, <1>2 DEF History

LEMMA HistoryGrows ==
  ASSUME NEW T, NEW s \in Seq(T), NEW r, NEW lo, NEW hi
  PROVE  /\ Len(s) \in Nat
         /\ History(s, lo, hi) \in [1 .. Len(s) -> SUBSET Pairs]
         /\ PairsWithin(r.detected, lo, hi) \in SUBSET Pairs
         /\ Extends(History(Append(s, r), lo, hi), History(s, lo, hi),
                    PairsWithin(r.detected, lo, hi), Len(s), Pairs)
<1> DEFINE n == Len(s)
           u == Append(s, r)
<1>1. \A x : PairsWithin(x, lo, hi) \in SUBSET Pairs
  BY DEF PairsWithin
<1>2. /\ n \in Nat /\ DOMAIN s = 1 .. n /\ DOMAIN u = 1 .. n + 1
      /\ u[n + 1] = r /\ \A t \in 1 .. n : u[t] = s[t]
  OBVIOUS
<1>3. n + 1 \in 1 .. n + 1 /\ \A t \in 1 .. n : t \in 1 .. n + 1
  BY <1>2
<1> HIDE DEF u, n
<1>4. /\ History(s, lo, hi) \in [1 .. n -> SUBSET Pairs]
      /\ History(u, lo, hi) \in [1 .. n + 1 -> SUBSET Pairs]
  BY <1>1, <1>2 DEF History
<1>5. History(u, lo, hi)[n + 1] = PairsWithin(r.detected, lo, hi)
  BY <1>2, <1>3 DEF History
<1>6. \A t \in 1 .. n : History(u, lo, hi)[t] = History(s, lo, hi)[t]
  BY <1>2, <1>3 DEF History
<1>7. Extends(History(u, lo, hi), History(s, lo, hi), PairsWithin(r.detected, lo, hi), n, Pairs)
  BY <1>4, <1>5, <1>6 DEF Extends
<1>8. QED
  BY <1>1, <1>2, <1>4, <1>7 DEF u, n

LEMMA CountedNext ==
  ASSUME NEW n \in Nat, NEW H \in [1 .. n -> SUBSET Pairs], NEW Q \in SUBSET Pairs,
         NEW G, Extends(G, H, Q, n, Pairs), NEW tracker, Counted(tracker, H, n)
  PROVE  Counted(RecordTick(tracker, Q), G, n + 1)
<1>1. CountsGrow(G, H, Q, n, Pairs)
  BY PairsFinite, HoldingsGrow
<1>2. Latest(G, n + 1) = Q
  <2>1. n + 1 # 0
    OBVIOUS
  <2>2. QED
    BY <2>1 DEF Latest, Extends
<1>3. QED
  BY <1>1, <1>2 DEF Counted, RecordTick, CountsGrow

LEMMA TrackerNext ==
  ASSUME NEW T, NEW s \in Seq(T), NEW r, NEW lo, NEW hi,
         NEW tracker, Counted(tracker, History(s, lo, hi), Len(s))
  PROVE  Counted(RecordTick(tracker, PairsWithin(r.detected, lo, hi)),
                 History(Append(s, r), lo, hi), Len(s) + 1)
<1> DEFINE n == Len(s)
           H == History(s, lo, hi)
           G == History(Append(s, r), lo, hi)
           Q == PairsWithin(r.detected, lo, hi)
<1>1. /\ n \in Nat /\ H \in [1 .. n -> SUBSET Pairs] /\ Q \in SUBSET Pairs
      /\ Extends(G, H, Q, n, Pairs) /\ Counted(tracker, H, n)
  BY HistoryGrows
<1> HIDE DEF n, H, G, Q
<1>2. Counted(RecordTick(tracker, Q), G, n + 1)
  BY <1>1, CountedNext
<1>3. QED
  BY <1>2 DEF n, H, G, Q

\* W is M, with n + 1 if at.
Joined(W, M, n, at) ==
  /\ W \subseteq 1 .. n + 1
  /\ \A t \in 1 .. n + 1 : t \in W <=> t \in M \/ (t = n + 1 /\ at)

LEMMA FirstNext ==
  ASSUME NEW n \in Nat, NEW M \in SUBSET (1 .. n), NEW k \in Int, First(k, M),
         NEW at \in BOOLEAN,
         NEW W, Joined(W, M, n, at)
  PROVE  First(IF k < 0 /\ at THEN n ELSE k, W)
<1> USE DEF Joined
<1>1. CASE k < 0 /\ at
  <2>1. M = {}
    BY <1>1 DEF First
  <2>2. n + 1 \in W /\ \A t \in W : n + 1 <= t
    BY <1>1, <2>1
  <2>3. QED
    BY <1>1, <2>2 DEF First
<1>2. CASE k < 0 /\ ~ at
  <2>1. M = {} /\ k = -1
    BY <1>2 DEF First
  <2>2. W = {}
    BY <1>2, <2>1
  <2>3. QED
    BY <1>2, <2>1, <2>2 DEF First
<1>3. CASE ~ (k < 0)
  <2>1. k \in Nat /\ k + 1 \in M /\ \A t \in M : k + 1 <= t
    BY <1>3 DEF First
  <2>2. k + 1 \in W /\ \A t \in W : k + 1 <= t
    BY <2>1
  <2>3. QED
    BY <1>3, <2>1, <2>2 DEF First
<1>4. QED
  BY <1>1, <1>2, <1>3

LEMMA NothingCounted ==
  ASSUME NEW s, s = <<>>, NEW lo, NEW hi
  PROVE  Counted(NoEvents, History(s, lo, hi), 0)
<1>1. History(s, lo, hi) \in [1 .. 0 -> SUBSET Pairs]
  BY DEF History
<1>2. /\ Cardinality(Holdings(History(s, lo, hi), Pairs)) = 0
      /\ Cardinality(Beginnings(History(s, lo, hi), Pairs)) = 0
  BY <1>1, NothingHeld
<1>3. QED
  BY <1>2 DEF Counted, NoEvents, Latest

RunFresh ==
  /\ clock = 0
  /\ seen = <<>>
  /\ collisions = NoEvents /\ nearMisses = NoEvents
  /\ everCollided = {}
  /\ arrivalTick = [i \in Drones |-> -1]

LEMMA RunBegins == RunFresh => RunCounted
<1> SUFFICES ASSUME RunFresh PROVE RunCounted
  OBVIOUS
<1> USE DEF RunFresh
<1>1. Seen /\ Len(seen) = 0 /\ DOMAIN seen = {}
  <2>1. seen \in Seq({})
    OBVIOUS
  <2>2. QED
    BY <2>1 DEF Seen
<1>2. /\ Counted(collisions, History(seen, -1, CollisionRadius), clock)
      /\ Counted(nearMisses, History(seen, CollisionRadius, NearMissRadius), clock)
  BY NothingCounted
<1>3. arrivalTick \in [Drones -> Int] /\ \A i \in Drones : First(arrivalTick[i], MetAt(i))
  BY <1>1 DEF First, MetAt
<1>4. QED
  BY <1>1, <1>2, <1>3 DEF RunCounted

\* The pairs a tick detects are those in the two bands where it detected.
InBands ==
  /\ ToSet(result.collisions) = PairsWithin(detected, -1, CollisionRadius)
  /\ ToSet(result.nearMisses) = PairsWithin(detected, CollisionRadius, NearMissRadius)

Ticked == DetectsExactly /\ clock > 0

LEMMA DetectedPairs == Ticked => InBands
<1> SUFFICES ASSUME Ticked PROVE InBands
  OBVIOUS
<1> USE DEF Ticked
<1>1. /\ ToSet(result.collisions) = BruteForce(detected).collisions
      /\ ToSet(result.nearMisses) = BruteForce(detected).nearMisses
  BY DEF DetectsExactly, ExactlyOnce
<1>2. /\ BruteForce(detected).collisions = PairsWithin(detected, -1, CollisionRadius)
      /\ BruteForce(detected).nearMisses = PairsWithin(detected, CollisionRadius, NearMissRadius)
  BY DEF BruteForce, PairsWithin, Pairs
<1>3. QED
  BY <1>1, <1>2 DEF InBands


LEMMA RunTickCounts ==
  ASSUME MatchInv, RunTick
  PROVE  RunCounted'
<1>0. PICK T : seen \in Seq(T)
  BY DEF MatchInv, RunCounted, Seen
<1>1. PICK n, r : /\ n = clock /\ n = Len(seen) /\ n \in Nat
                  /\ r = [detected |-> detected', pos |-> pos']
  <2>1. clock = Len(seen) /\ Len(seen) \in Nat
    BY <1>0 DEF MatchInv, RunCounted
  <2>2. PICK r : r = [detected |-> detected', pos |-> pos']
    OBVIOUS
  <2>3. QED
    BY <2>1, <2>2
<1>2. /\ clock' = n + 1 /\ goal' = goal /\ seen' = Append(seen, r)
      /\ r.detected = detected' /\ r.pos = pos'
  BY <1>1 DEF RunTick, Step, Observe
<1>3. /\ ToSet(result'.collisions) = PairsWithin(r.detected, -1, CollisionRadius)
      /\ ToSet(result'.nearMisses) = PairsWithin(r.detected, CollisionRadius, NearMissRadius)
  <2>1. ComparisonInv'
    BY ComparisonStep DEF MatchInv, ValidatorNext
  <2>2. Ticked'
    BY <1>1, <1>2, <2>1 DEF ComparisonInv, SimulationInv, Ticked
  <2>3. InBands'
    BY <2>2, DetectedPairs, PTL
  <2>4. QED
    BY <1>2, <2>3 DEF InBands
<1>4. /\ DOMAIN seen = 1 .. n /\ DOMAIN seen' = 1 .. n + 1 /\ Len(seen') = n + 1
      /\ seen'[n + 1] = r /\ \A t \in 1 .. n : seen'[t] = seen[t]
  BY <1>0, <1>1, <1>2
<1>5. Seen'
  <2>1. seen' \in Seq(T \union {r})
    BY <1>0, <1>2, GrowingSeq
  <2>2. QED
    BY <2>1 DEF Seen
<1>6. Counted(collisions', History(seen', -1, CollisionRadius), n + 1)
  <2>1. Counted(collisions, History(seen, -1, CollisionRadius), Len(seen))
    BY <1>1 DEF MatchInv, RunCounted
  <2>2. Counted(RecordTick(collisions, PairsWithin(r.detected, -1, CollisionRadius)),
                History(Append(seen, r), -1, CollisionRadius), Len(seen) + 1)
    BY <1>0, <2>1, TrackerNext
  <2>3. collisions' = RecordTick(collisions, PairsWithin(r.detected, -1, CollisionRadius))
    BY <1>3 DEF RunTick, Observe
  <2>4. QED
    BY <1>1, <1>2, <2>2, <2>3
<1>7. Counted(nearMisses', History(seen', CollisionRadius, NearMissRadius), n + 1)
  <2>1. Counted(nearMisses, History(seen, CollisionRadius, NearMissRadius), Len(seen))
    BY <1>1 DEF MatchInv, RunCounted
  <2>2. Counted(RecordTick(nearMisses, PairsWithin(r.detected, CollisionRadius, NearMissRadius)),
                History(Append(seen, r), CollisionRadius, NearMissRadius), Len(seen) + 1)
    BY <1>0, <2>1, TrackerNext
  <2>3. nearMisses' = RecordTick(nearMisses, PairsWithin(r.detected, CollisionRadius, NearMissRadius))
    BY <1>3 DEF RunTick, Observe
  <2>4. QED
    BY <1>1, <1>2, <2>2, <2>3
<1>8. \A p : p \in everCollided' <=>
              \E t \in DOMAIN seen' : p \in PairsWithin(seen'[t].detected, -1, CollisionRadius)
  <2>1. TAKE p
  <2>2. p \in everCollided <=>
          \E t \in DOMAIN seen : p \in PairsWithin(seen[t].detected, -1, CollisionRadius)
    BY DEF MatchInv, RunCounted
  <2>3. p \in everCollided' <=>
          p \in everCollided \/ p \in PairsWithin(r.detected, -1, CollisionRadius)
    BY <1>3 DEF RunTick, Observe
  <2>4. \A t : t \in 1 .. n + 1 <=> t \in 1 .. n \/ t = n + 1
    BY <1>1
  <2>5. QED
    BY <1>4, <2>2, <2>3, <2>4
<1>9. /\ arrivalTick' \in [Drones -> Int]
      /\ \A i \in Drones : First(arrivalTick[i], MetAt(i))'
  <2>1. /\ arrivalTick' = [i \in Drones |-> IF arrivalTick[i] < 0 /\ AtGoal(pos', i)
                                              THEN n ELSE arrivalTick[i]]
        /\ arrivalTick \in [Drones -> Int] /\ \A i \in Drones : First(arrivalTick[i], MetAt(i))
    BY <1>1 DEF RunTick, Observe, MatchInv, RunCounted
  <2>2. ASSUME NEW i \in Drones PROVE First(arrivalTick[i], MetAt(i))'
    <3>1. PICK at \in BOOLEAN : at <=> AtGoal(pos', i)
      OBVIOUS
    <3>2. PICK k \in Int, M \in SUBSET (1 .. n) :
            k = arrivalTick[i] /\ M = MetAt(i) /\ First(k, M)
      BY <1>4, <2>1 DEF MetAt
    <3>3. PICK W : W = MetAt(i)'
      OBVIOUS
    <3>4. AtGoal(r.pos, i)' <=> at
      BY <1>2, <3>1 DEF AtGoal
    <3>5. \A t \in 1 .. n + 1 : t \in W <=> t \in M \/ (t = n + 1 /\ at)
      BY <1>1, <1>2, <1>4, <3>1, <3>2, <3>3 DEF MetAt, AtGoal
    <3>6. W \subseteq 1 .. n + 1
      BY <1>4, <3>3 DEF MetAt
    <3>7. Joined(W, M, n, at)
      BY <3>5, <3>6 DEF Joined
    <3>8. First(IF k < 0 /\ at THEN n ELSE k, W)
      BY <1>1, <3>2, <3>7, FirstNext
    <3>9. arrivalTick'[i] = IF k < 0 /\ at THEN n ELSE k
      BY <2>1, <3>1, <3>2
    <3>10. QED
      BY <3>3, <3>8, <3>9
  <2>3. arrivalTick' \in [Drones -> Int]
    BY <1>1, <2>1
  <2>4. QED
    BY <2>2, <2>3
<1>10. QED
  BY <1>2, <1>4, <1>5, <1>6, <1>7, <1>8, <1>9 DEF RunCounted

LEMMA MatchInvariant == ValidatorSpec => []MatchInv
<1>1. ValidatorInit => MatchInv
  <2>1. ASSUME ValidatorInit PROVE MatchInv
    <3>1. RunFresh
      BY <2>1 DEF ValidatorInit, Init, RunFresh
    <3>2. QED
      BY <2>1, <3>1, ComparisonStarts, RunBegins DEF MatchInv
  <2>2. QED
    BY <2>1
<1>2. MatchInv /\ [ValidatorNext]_validatorVars => MatchInv'
  <2>1. SUFFICES ASSUME MatchInv, [ValidatorNext]_validatorVars PROVE MatchInv'
    OBVIOUS
  <2>2. ComparisonInv'
    BY <2>1, ComparisonStep DEF MatchInv
  <2>3. CASE RunTick
    BY <2>1, <2>2, <2>3, RunTickCounts DEF MatchInv
  <2>4. CASE NextRun
    <3>1. RunFresh'
      BY <2>4 DEF NextRun, RunFresh
    <3>2. RunCounted'
      BY <3>1, RunBegins, PTL
    <3>3. QED
      BY <2>2, <3>2 DEF MatchInv
  <2>5. CASE UNCHANGED <<clock, goal, counts, seen>>
    <3>1. RunCounted'
      BY <2>1, <2>5 DEF MatchInv, RunCounted, counts, Seen, MetAt, AtGoal
    <3>2. QED
      BY <2>2, <3>1 DEF MatchInv
  <2>6. QED
    BY <2>1, <2>3, <2>4, <2>5 DEF ValidatorNext, LastRun, validatorVars, vars
<1>3. QED
  BY <1>1, <1>2, PTL DEF ValidatorSpec

\* The incidents of a run are the spells of its history.
LEMMA IncidentsAreSpells ==
  ASSUME NEW lo, NEW hi
  PROVE  Incidents(lo, hi) = Spells(History(seen, lo, hi), Pairs)
<1> DEFINE H == History(seen, lo, hi)
<1>1. DOMAIN H = DOMAIN seen
  BY DEF History
<1>2. \A p \in Pairs : \A t : InBand(p, t, lo, hi) <=> Held(p, t, H)
  BY DEF InBand, Held, History, PairsWithin
<1> HIDE DEF H
<1>3. \A e : e \in Incidents(lo, hi) <=> e \in Spells(H, Pairs)
  <2>1. TAKE e
  <2>2. e \in Incidents(lo, hi) <=>
          /\ e \in Pairs \X (DOMAIN seen) \X (DOMAIN seen)
          /\ e[2] <= e[3]
          /\ \A t \in e[2] .. e[3] : InBand(e[1], t, lo, hi)
          /\ ~ InBand(e[1], e[2] - 1, lo, hi)
          /\ ~ InBand(e[1], e[3] + 1, lo, hi)
    BY DEF Incidents, Pairs
  <2>3. e \in Spells(H, Pairs) <=>
          /\ e \in Pairs \X (DOMAIN seen) \X (DOMAIN seen)
          /\ e[2] <= e[3]
          /\ \A t \in e[2] .. e[3] : Held(e[1], t, H)
          /\ ~ Held(e[1], e[2] - 1, H)
          /\ ~ Held(e[1], e[3] + 1, H)
    BY <1>1 DEF Spells
  <2>4. e \in Pairs \X (DOMAIN seen) \X (DOMAIN seen) => e[1] \in Pairs
    OBVIOUS
  <2>5. QED
    BY <1>2, <2>2, <2>3, <2>4
<1>4. QED
  BY <1>3 DEF H

LEMMA DurationIsTotal ==
  ASSUME NEW H, NEW P
  PROVE  Duration(Spells(H, P)) = Total(Lengths(H, P), Spells(H, P))
BY DEF Duration, Total, MapThenSumSet, MapThenFoldSet, Lengths

\* A tracker that has counted a run has its incidents and their duration.
LEMMA CountsMatch ==
  ASSUME Seen, clock = Len(seen), NEW lo, NEW hi, NEW tracker,
         Counted(tracker, History(seen, lo, hi), clock)
  PROVE  /\ tracker.uniqueEvents = Cardinality(Incidents(lo, hi))
         /\ tracker.pairTicks = Duration(Incidents(lo, hi))
<1>1. PICK T : seen \in Seq(T)
  BY DEF Seen
<1>2. PICK n, H : n = Len(seen) /\ H = History(seen, lo, hi)
  OBVIOUS
<1>3. n \in Nat /\ H \in [1 .. n -> SUBSET Pairs]
  BY <1>1, <1>2, HistoryType
<1>4. /\ Cardinality(Spells(H, Pairs)) = Cardinality(Beginnings(H, Pairs))
      /\ Total(Lengths(H, Pairs), Spells(H, Pairs)) = Cardinality(Holdings(H, Pairs))
  BY <1>3, PairsFinite, SpellsBegin, SpellsLast
<1>5. /\ tracker.pairTicks = Cardinality(Holdings(H, Pairs))
      /\ tracker.uniqueEvents = Cardinality(Beginnings(H, Pairs))
  BY <1>2 DEF Counted
<1>6. Incidents(lo, hi) = Spells(H, Pairs) /\ Duration(Spells(H, Pairs)) = Total(Lengths(H, Pairs), Spells(H, Pairs))
  BY <1>2, IncidentsAreSpells, DurationIsTotal
<1>7. QED
  BY <1>4, <1>5, <1>6

LEMMA RunMatches ==
  ASSUME RunCounted
  PROVE  ReportMatchesRun
<1>1. /\ collisions.uniqueEvents = Cardinality(Incidents(-1, CollisionRadius))
      /\ collisions.pairTicks = Duration(Incidents(-1, CollisionRadius))
  BY CountsMatch DEF RunCounted
<1>2. /\ nearMisses.uniqueEvents = Cardinality(Incidents(CollisionRadius, NearMissRadius))
      /\ nearMisses.pairTicks = Duration(Incidents(CollisionRadius, NearMissRadius))
  BY CountsMatch DEF RunCounted
<1>3. everCollided = {e[1] : e \in Incidents(-1, CollisionRadius)}
  <2>1. PICK T : seen \in Seq(T)
    BY DEF Seen, RunCounted
  <2>2. PICK n, H : n = Len(seen) /\ H = History(seen, -1, CollisionRadius)
    OBVIOUS
  <2>3. n \in Nat /\ H \in [1 .. n -> SUBSET Pairs] /\ DOMAIN seen = 1 .. n
    BY <2>1, <2>2, HistoryType
  <2>4. \A t \in 1 .. n : H[t] = PairsWithin(seen[t].detected, -1, CollisionRadius)
    BY <2>2, <2>3 DEF History
  <2>5. Incidents(-1, CollisionRadius) = Spells(H, Pairs)
    BY <2>2, IncidentsAreSpells
  <2>6. \A p : p \in {e[1] : e \in Spells(H, Pairs)} <=> \E t \in 1 .. n : p \in H[t]
    BY <2>3, SpellElements
  <2>7. \A p : p \in everCollided <=> \E t \in 1 .. n : p \in H[t]
    BY <2>3, <2>4 DEF RunCounted
  <2>8. everCollided = {e[1] : e \in Spells(H, Pairs)}
    BY <2>6, <2>7
  <2>9. QED
    BY <2>5, <2>8
<1>4. ASSUME NEW i \in Drones
      PROVE  arrivalTick[i] = IF MetAt(i) = {} THEN -1 ELSE Min(MetAt(i)) - 1
  <2>1. PICK k, M : k = arrivalTick[i] /\ M = MetAt(i) /\ First(k, M) /\ M \subseteq Int
    <3>1. PICK T : seen \in Seq(T)
      BY DEF Seen, RunCounted
    <3>2. MetAt(i) \subseteq Int
      BY <3>1 DEF MetAt
    <3>3. QED
      BY <3>2 DEF RunCounted
  <2>2. CASE k = -1 /\ M = {}
    BY <2>1, <2>2
  <2>3. CASE k \in Nat /\ k + 1 \in M /\ \A t \in M : k + 1 <= t
    <3>1. Min(M) = k + 1
      BY <2>1, <2>3 DEF Min
    <3>2. M # {} /\ k = (k + 1) - 1
      BY <2>3
    <3>3. QED
      BY <2>1, <3>1, <3>2
  <2>4. QED
    BY <2>1, <2>2, <2>3 DEF First
<1>5. QED
  BY <1>1, <1>2, <1>3, <1>4 DEF ReportMatchesRun, MetAt

\* validation.py:9-20: through every run of a comparison, of any policies over any
\* number of drones, the trackers hold the incidents and their durations, the
\* pairs that ever collided and the first arrivals of what has been run.
THEOREM ReportMatchesRunAlways == ValidatorSpec => []ReportMatchesRun
<1>1. MatchInv => ReportMatchesRun
  BY RunMatches DEF MatchInv
<1>2. QED
  BY <1>1, MatchInvariant, PTL

=============================================================================
