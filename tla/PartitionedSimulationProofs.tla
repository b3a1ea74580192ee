--------------------- MODULE PartitionedSimulationProofs ---------------------
(***************************************************************************)
(* How wide the halo must be.  The owners are those of the positions       *)
(* before the movement, the ghosts are chosen by the positions after it.   *)
(* For any number of drones and partitions: if the halo is the interaction *)
(* radius plus the largest movement of one tick, and a slab is wider than  *)
(* the radius plus twice that movement, the partition that is to keep an   *)
(* interacting pair has both its drones.                                   *)
(***************************************************************************)
EXTENDS PartitionedSimulation, SimulationProofs

LEMMA DivBounds ==
  ASSUME NEW a \in Nat, NEW b \in Nat \ {0}
  PROVE  /\ a \div b \in Nat
         /\ b * (a \div b) <= a
         /\ a < b * (a \div b) + b
OBVIOUS

\* A drone's owner is the slab that its position, put back inside the world,
\* lies in (partition.py:67-77).
LEMMA OwnerSlab ==
  ASSUME KernelAssumption, PartitionAssumption, NEW x \in Int
  PROVE  LET c == Clip(x, 0, BoundsMax)
             k == OwnerOf(x)
         IN  /\ c \in 0 .. BoundsMax
             /\ k \in Partitions
             /\ k * BoundsMax <= c * NumPartitions
             /\ c * NumPartitions <= (k + 1) * BoundsMax
             /\ k # NumPartitions - 1 => c * NumPartitions < (k + 1) * BoundsMax
<1> DEFINE c == Clip(x, 0, BoundsMax)
           k == OwnerOf(x)
           a == c * NumPartitions
           d == a \div BoundsMax
<1>1. c \in 0 .. BoundsMax
  BY DEF Clip, KernelAssumption
<1>2. a \in Nat /\ a <= BoundsMax * NumPartitions
  <2> HIDE DEF c
  <2> QED BY <1>1 DEF KernelAssumption, PartitionAssumption
<1>3. d \in Nat /\ BoundsMax * d <= a /\ a < BoundsMax * d + BoundsMax
  <2> HIDE DEF a
  <2> QED BY <1>2, DivBounds DEF KernelAssumption
<1>4. k = IF d > NumPartitions - 1 THEN NumPartitions - 1 ELSE d
  <2> HIDE DEF d
  <2>1. k = Clip(d, 0, NumPartitions - 1)
    BY DEF OwnerOf, d
  <2> QED BY <1>3, <2>1 DEF Clip, PartitionAssumption
<1>5. k \in Partitions
  <2> HIDE DEF d, k
  <2> QED BY <1>3, <1>4 DEF Partitions, PartitionAssumption
<1>6. CASE d > NumPartitions - 1
  <2> HIDE DEF a, d, k
  <2>1. k = NumPartitions - 1
    BY <1>4, <1>6
  <2>2. a <= (k + 1) * BoundsMax
    BY <1>2, <2>1 DEF KernelAssumption, PartitionAssumption
  <2>3. k * BoundsMax <= BoundsMax * d
    BY <1>3, <1>6, <2>1 DEF KernelAssumption, PartitionAssumption
  <2>4. k * BoundsMax <= a
    BY <1>2, <1>3, <2>1, <2>3 DEF KernelAssumption, PartitionAssumption
  <2> QED BY <1>1, <1>5, <2>1, <2>2, <2>4 DEF a, k
<1>7. CASE ~ (d > NumPartitions - 1)
  <2> HIDE DEF a, d, k
  <2>1. k = d
    BY <1>4, <1>7
  <2>2. k * BoundsMax <= a /\ a < (k + 1) * BoundsMax
    BY <1>2, <1>3, <2>1 DEF KernelAssumption
  <2>3. a <= (k + 1) * BoundsMax
    BY <1>2, <1>3, <2>1, <2>2 DEF KernelAssumption
  <2> QED BY <1>1, <1>5, <2>2, <2>3 DEF a, k
<1> QED BY <1>6, <1>7

-----------------------------------------------------------------------------
\* The drones of partition p's detection job, as a set.
LocalSet(x, own, p) ==
  {i \in Drones : own[i] = p} \cup UNION {GhostExports(x, own, q, p) : q \in Neighbors(p)}

\* The boundary brings a drone no further from where it was than it flew.
LEMMA MovesAtMost ==
  ASSUME KernelAssumption, NEW m \in Nat, NEW b \in Int, NEW v \in Int, -m <= v, v <= m
  PROVE  LET c == Clip(b, 0, BoundsMax)
             d == Clip(b + v, 0, BoundsMax)
         IN  c \in Int /\ d \in Int /\ d <= c + m /\ c <= d + m
BY DEF Clip, KernelAssumption

\* The lower of two owners has both drones of an interacting pair: the pair
\* across the edge between p and q, p the lower.
LEMMA LowerOwnerSees ==
  ASSUME KernelAssumption, PartitionAssumption,
         NEW m \in Nat, Halo >= NearMissRadius + m,
         (NearMissRadius + 2 * m) * NumPartitions <= BoundsMax,
         NEW before \in [Drones -> Int], NEW x \in [Drones -> Int],
         NEW own, own = [k \in Drones |-> OwnerOf(before[k])],
         \A k \in Drones : /\ x[k] <= Clip(before[k], 0, BoundsMax) + m
                           /\ Clip(before[k], 0, BoundsMax) <= x[k] + m,
         NEW i \in Drones, NEW j \in Drones,
         Distance(x, i, j) <= NearMissRadius, own[i] < own[j]
  PROVE  {i, j} \subseteq LocalSet(x, own, own[i])
<1> DEFINE c == Clip(before[i], 0, BoundsMax)
           d == Clip(before[j], 0, BoundsMax)
           p == OwnerOf(before[i])
           q == OwnerOf(before[j])
<1>1. own[i] = p /\ own[j] = q /\ p < q
  OBVIOUS
<1>2. /\ c \in Int /\ p \in Partitions
      /\ p # NumPartitions - 1 => c * NumPartitions < (p + 1) * BoundsMax
  BY OwnerSlab DEF KernelAssumption
<1>3. d \in Int /\ q \in Partitions /\ q * BoundsMax <= d * NumPartitions
  BY OwnerSlab DEF KernelAssumption
<1>4. x[i] \in Int /\ x[j] \in Int /\ x[i] <= c + m /\ d <= x[j] + m
  OBVIOUS
<1>5. x[j] <= x[i] + NearMissRadius
  BY <1>4 DEF Distance, KernelAssumption
<1>6. c * NumPartitions < (p + 1) * BoundsMax
  <2> HIDE DEF c, d, p, q
  <2> QED BY <1>1, <1>2, <1>3 DEF Partitions, PartitionAssumption
<1>7. q = p + 1 /\ x[j] * NumPartitions <= q * BoundsMax + Halo * NumPartitions
  <2> DEFINE here  == x[i]
             there == x[j]
  <2>1. here \in Int /\ there \in Int /\ here <= c + m /\ d <= there + m
    BY <1>4
  <2>2. there <= here + NearMissRadius
    BY <1>5
  <2> HIDE DEF c, d, p, q, here, there
  <2> USE DEF KernelAssumption, PartitionAssumption, Partitions
  <2>3. d <= c + (NearMissRadius + 2 * m) /\ there <= c + Halo
    BY <1>2, <1>3, <2>1, <2>2
  <2>4. d * NumPartitions <= c * NumPartitions + (NearMissRadius + 2 * m) * NumPartitions
    <3>1. d * NumPartitions <= (c + (NearMissRadius + 2 * m)) * NumPartitions
      BY <1>2, <1>3, <2>3
    <3> QED BY <1>2, <1>3, <3>1
  <2>5. d * NumPartitions < (p + 2) * BoundsMax
    <3>1. (p + 2) * BoundsMax = (p + 1) * BoundsMax + BoundsMax
      BY <1>2
    <3> QED BY <1>2, <1>3, <1>6, <2>4, <3>1
  <2>6. q = p + 1
    <3> SUFFICES ASSUME q >= p + 2 PROVE FALSE
      BY <1>1, <1>2, <1>3
    <3>1. q * BoundsMax >= (p + 2) * BoundsMax
      BY <1>2, <1>3
    <3> QED BY <1>2, <1>3, <2>5, <3>1
  <2>7. there * NumPartitions <= c * NumPartitions + Halo * NumPartitions
    <3>1. there * NumPartitions <= (c + Halo) * NumPartitions
      BY <1>2, <2>1, <2>3
    <3> QED BY <1>2, <2>1, <3>1
  <2>8. there * NumPartitions <= q * BoundsMax + Halo * NumPartitions
    BY <1>2, <1>3, <1>6, <2>1, <2>6, <2>7
  <2> QED BY <2>6, <2>8 DEF there
<1>8. j \in GhostExports(x, own, q, p)
  <2> HIDE DEF p, q
  <2> QED BY <1>1, <1>7 DEF GhostExports
<1>9. q \in Neighbors(p)
  <2> HIDE DEF p, q
  <2> QED BY <1>3, <1>7 DEF Neighbors
<1> QED
  <2> HIDE DEF p, q
  <2> QED BY <1>1, <1>8, <1>9 DEF LocalSet

\* No interacting pair is lost at a slab edge, and none is kept twice
\* (coordinator.py:30-40, 193-198): after any movement of at most m per drone,
\* exactly one partition is the one to keep the pair (the lower of the two
\* owners), and that partition's detection job has both its drones.
THEOREM KeeperSeesPair ==
  ASSUME KernelAssumption, PartitionAssumption,
         NEW m \in Nat, Halo >= NearMissRadius + m,
         (NearMissRadius + 2 * m) * NumPartitions <= BoundsMax,
         NEW s \in [pos : [Drones -> Int], vel : [Drones -> Int]], NEW boundary,
         \A k \in Drones : -m <= s.vel[k] /\ s.vel[k] <= m,
         NEW i \in Drones, NEW j \in Drones,
         Distance(Bound(Integrate(s), boundary).pos, i, j) <= NearMissRadius
  PROVE  LET x        == Bound(Integrate(s), boundary).pos
             own      == [k \in Drones |-> OwnerOf(s.pos[k])]
             keeps(p) == p \in {own[i], own[j]} /\ p <= own[i] /\ p <= own[j]
         IN  \E p \in Partitions :
               /\ keeps(p)
               /\ \A q \in Partitions : keeps(q) => q = p
               /\ {i, j} \subseteq LocalSet(x, own, p)
<1> DEFINE x   == Bound(Integrate(s), boundary).pos
           own == [k \in Drones |-> OwnerOf(s.pos[k])]
<1>1. x = [k \in Drones |-> Clip(s.pos[k] + s.vel[k], 0, BoundsMax)]
  BY DEF Bound, Integrate
<1>2. \A k \in Drones : s.pos[k] \in Int /\ s.vel[k] \in Int
  OBVIOUS
<1>3. \A k \in Drones : /\ x[k] \in Int
                        /\ x[k] <= Clip(s.pos[k], 0, BoundsMax) + m
                        /\ Clip(s.pos[k], 0, BoundsMax) <= x[k] + m
  <2> HIDE DEF x
  <2> QED BY <1>1, <1>2, MovesAtMost
<1>4. x \in [Drones -> Int]
  <2> HIDE DEF x
  <2> QED BY <1>1, <1>3
<1>5. own[i] \in Partitions /\ own[j] \in Partitions
  BY <1>2, OwnerSlab
<1>6. own[i] \in Int /\ own[j] \in Int
  <2> HIDE DEF own
  <2> QED BY <1>5 DEF Partitions, PartitionAssumption
<1>7. Distance(x, j, i) <= NearMissRadius
  <2> HIDE DEF x
  <2>1. Distance(x, i, j) <= NearMissRadius
    BY DEF x
  <2> QED BY <1>4, <2>1 DEF Distance, KernelAssumption
<1>8. CASE own[i] < own[j]
  <2>1. {i, j} \subseteq LocalSet(x, own, own[i])
    <3> HIDE DEF x
    <3>1. Distance(x, i, j) <= NearMissRadius
      BY DEF x
    <3> QED BY <1>3, <1>4, <1>8, <3>1, LowerOwnerSees
  <2> HIDE DEF x, own
  <2> QED BY <1>5, <1>6, <1>8, <2>1 DEF x, own, Partitions
<1>9. CASE own[j] < own[i]
  <2>1. {j, i} \subseteq LocalSet(x, own, own[j])
    <3> HIDE DEF x
    <3> QED BY <1>3, <1>4, <1>7, <1>9, LowerOwnerSees
  <2> HIDE DEF x, own
  <2> QED BY <1>5, <1>6, <1>9, <2>1 DEF x, own, Partitions
<1>10. CASE own[i] = own[j]
  <2>1. {i, j} \subseteq LocalSet(x, own, own[i])
    <3> HIDE DEF x, own
    <3> QED BY <1>10 DEF LocalSet
  <2> HIDE DEF x, own
  <2> QED BY <1>5, <1>6, <1>10, <2>1 DEF x, own, Partitions
<1> QED
  <2> HIDE DEF x, own
  <2> QED BY <1>6, <1>8, <1>9, <1>10

-----------------------------------------------------------------------------
(***************************************************************************)
(* The drones of a partition's detection job, as a list.                   *)
(***************************************************************************)
LEMMA OrderedDrones ==
  ASSUME NEW S \in SUBSET Drones
  PROVE  ListsOnce(Ordered(S), S)
<1>1. IsFiniteSet(S) /\ S \in SUBSET Int
  BY DronesFinite, FS_Subset
<1>2. Lists(Ordered(S), Increasing(S), S)
  BY <1>1, ArrangedNumbers DEF Ordered
<1>3. QED
  BY <1>2, OrderedOnce

LEMMA NothingListed == ListsOnce(<<>>, {})
BY DEF ListsOnce

\* The ghosts that partition p gets from partition q.
GhostsFrom(x, own, q, p) == IF q \in Neighbors(p) THEN GhostExports(x, own, q, p) ELSE {}

LEMMA GhostsListed ==
  ASSUME NEW x, NEW own, NEW q, NEW p
  PROVE  ListsOnce(IF q \in Neighbors(p) THEN Ordered(GhostExports(x, own, q, p)) ELSE <<>>,
                   GhostsFrom(x, own, q, p))
<1>1. CASE q \in Neighbors(p)
  <2>1. GhostExports(x, own, q, p) \in SUBSET Drones
    BY DEF GhostExports
  <2>2. QED
    BY <1>1, <2>1, OrderedDrones DEF GhostsFrom
<1>2. CASE q \notin Neighbors(p)
  BY <1>2, NothingListed DEF GhostsFrom
<1>3. QED
  BY <1>1, <1>2

\* coordinator.py:371-405: no drone is there twice, the ghosts are other partitions'.
LEMMA LocalDronesListed ==
  ASSUME NEW x, NEW own, NEW p \in Partitions
  PROVE  ListsOnce(LocalDrones(x, own, p), LocalSet(x, own, p))
<1> DEFINE owned == {i \in Drones : own[i] = p}
           left  == GhostsFrom(x, own, p - 1, p)
           right == GhostsFrom(x, own, p + 1, p)
           u == Ordered(owned)
           l == IF p - 1 \in Neighbors(p) THEN Ordered(GhostExports(x, own, p - 1, p)) ELSE <<>>
           r == IF p + 1 \in Neighbors(p) THEN Ordered(GhostExports(x, own, p + 1, p)) ELSE <<>>
<1>1. ListsOnce(u, owned)
  BY OrderedDrones
<1>2. ListsOnce(l, left) /\ ListsOnce(r, right)
  BY GhostsListed
<1>3. LocalDrones(x, own, p) = (u \o l) \o r
  BY DEF LocalDrones
<1>4. p \in Int
  BY PartitionAssumption DEF Partitions
<1>5. owned \intersect left = {} /\ (owned \union left) \intersect right = {}
  <2>1. /\ \A i \in owned : own[i] = p
        /\ \A i \in left : own[i] = p - 1
        /\ \A i \in right : own[i] = p + 1
    BY DEF GhostsFrom, GhostExports
  <2> HIDE DEF owned, left, right
  <2>2. QED
    BY <1>4, <2>1
<1>6. LocalSet(x, own, p) = (owned \union left) \union right
  <2>1. Neighbors(p) \subseteq {p - 1, p + 1}
    BY DEF Neighbors
  <2>2. UNION {GhostExports(x, own, q, p) : q \in Neighbors(p)} = left \union right
    BY <2>1 DEF GhostsFrom
  <2>3. QED
    BY <2>2 DEF LocalSet
<1> HIDE DEF owned, left, right, u, l, r
<1>7. ListsOnce(u \o l, owned \union left)
  BY <1>1, <1>2, <1>5, JoinedLists
<1>8. ListsOnce((u \o l) \o r, (owned \union left) \union right)
  BY <1>2, <1>5, <1>7, JoinedLists
<1>9. QED
  BY <1>3, <1>6, <1>8

-----------------------------------------------------------------------------
(***************************************************************************)
(* Lists strung together.                                                  *)
(***************************************************************************)
\* strung[k] is the first k of the lists, one after the other.
Strings(strung, lists) ==
  strung = [k \in 1 .. Len(lists) |-> IF k = 1 THEN lists[k] ELSE strung[k - 1] \o lists[k]]

LEMMA StringsExist ==
  ASSUME NEW T, NEW lists \in Seq(T)
  PROVE  \E strung : Strings(strung, lists)
<1> DEFINE upTo(f, n) ==
             f = [k \in 1 .. n |-> IF k = 1 THEN lists[k] ELSE f[k - 1] \o lists[k]]
           N == {n \in Nat : \E f : upTo(f, n)}
<1>1. 0 \in N
  <2>1. 1 .. 0 = {}
    OBVIOUS
  <2>2. upTo([k \in 1 .. 0 |-> <<>>], 0)
    BY <2>1
  <2>3. QED
    BY <2>2
<1>2. ASSUME NEW n \in Nat, n \in N PROVE n + 1 \in N
  <2>1. PICK f : upTo(f, n)
    BY <1>2
  <2> DEFINE g == [k \in 1 .. (n + 1) |-> IF k = 1 THEN lists[k] ELSE f[k - 1] \o lists[k]]
  <2>2. ASSUME NEW k \in 1 .. n PROVE g[k] = f[k]
    <3>1. k \in 1 .. (n + 1)
      OBVIOUS
    <3>2. f[k] = IF k = 1 THEN lists[k] ELSE f[k - 1] \o lists[k]
      BY <2>1
    <3>3. g[k] = IF k = 1 THEN lists[k] ELSE f[k - 1] \o lists[k]
      BY <3>1
    <3>4. QED
      BY <3>2, <3>3
  <2>3. ASSUME NEW k \in 1 .. (n + 1), k # 1 PROVE g[k - 1] = f[k - 1]
    <3>1. k - 1 \in 1 .. n
      BY <2>3
    <3> HIDE DEF g
    <3>2. QED
      BY <2>2, <3>1
  <2>4. g = [k \in 1 .. (n + 1) |-> IF k = 1 THEN lists[k] ELSE g[k - 1] \o lists[k]]
    <3> DEFINE h == [k \in 1 .. (n + 1) |-> IF k = 1 THEN lists[k] ELSE g[k - 1] \o lists[k]]
    <3>1. \A k \in 1 .. (n + 1) :
             (IF k = 1 THEN lists[k] ELSE f[k - 1] \o lists[k])
               = (IF k = 1 THEN lists[k] ELSE g[k - 1] \o lists[k])
      <4> HIDE DEF g
      <4>1. QED
        BY <2>3
    <3>2. QED
      BY <3>1, Zenon
  <2> HIDE DEF g
  <2>5. upTo(g, n + 1)
    BY <2>4
  <2> HIDE DEF upTo
  <2>6. QED
    BY <2>5
<1>3. Nat \subseteq N
  <2> HIDE DEF N
  <2>1. QED
    BY <1>1, <1>2, NumberInduction
<1>4. Len(lists) \in Nat
  OBVIOUS
<1>5. QED
  BY <1>3, <1>4 DEF Strings

\* V[k] is what the k-th of the lists holds; none holds what another does.
ListsApart(lists, V) ==
  /\ \A k \in 1 .. Len(lists) : ListsOnce(lists[k], V[k])
  /\ \A k, l \in 1 .. Len(lists) : k # l => V[k] \intersect V[l] = {}

HeldUpTo(V, k) == UNION {V[l] : l \in 1 .. k}

\* FlattenSeq() of such lists holds everything once.
LEMMA FlattenedOnce ==
  ASSUME NEW T, NEW lists \in Seq(T), Len(lists) # 0, NEW V, ListsApart(lists, V),
         NEW w, w = FlattenSeq(lists)
  PROVE  ListsOnce(w, HeldUpTo(V, Len(lists)))
<1> DEFINE n == Len(lists)
           strung == CHOOSE strung : Strings(strung, lists)
<1>1. n \in Nat \ {0}
  OBVIOUS
<1>2. Strings(strung, lists)
  BY StringsExist
<1>3. FlattenSeq(lists) = strung[n]
  BY <1>1 DEF FlattenSeq, Strings
<1> HIDE DEF strung
<1>4. \A k \in 1 .. n : strung[k] = IF k = 1 THEN lists[k] ELSE strung[k - 1] \o lists[k]
  BY <1>2 DEF Strings
<1> DEFINE N == {k \in Nat : k + 1 <= n => ListsOnce(strung[k + 1], HeldUpTo(V, k + 1))}
<1> HIDE DEF n
<1>5. 0 \in N
  <2>1. 1 \in 1 .. n /\ 1 .. 1 = {1} /\ 0 + 1 = 1
    BY <1>1
  <2>2. strung[1] = lists[1]
    BY <1>4, <2>1
  <2>3. HeldUpTo(V, 1) = V[1]
    BY <2>1 DEF HeldUpTo
  <2>4. ListsOnce(lists[1], V[1])
    BY <2>1 DEF ListsApart, n
  <2>5. QED
    BY <2>1, <2>2, <2>3, <2>4
<1>6. ASSUME NEW k \in Nat, k \in N PROVE k + 1 \in N
  <2>1. SUFFICES ASSUME (k + 1) + 1 <= n
                 PROVE  ListsOnce(strung[(k + 1) + 1], HeldUpTo(V, (k + 1) + 1))
    OBVIOUS
  <2> DEFINE m == (k + 1) + 1
  <2>2. m \in 1 .. n /\ m # 1 /\ m - 1 = k + 1 /\ k + 1 <= n /\ m \in Nat
    BY <1>1, <2>1
  <2>3. 1 .. m = (1 .. (k + 1)) \union {m}
    BY <2>2
  <2>4. ListsOnce(strung[k + 1], HeldUpTo(V, k + 1))
    BY <1>6, <2>2
  <2> HIDE DEF m
  <2>5. strung[m] = strung[k + 1] \o lists[m]
    BY <1>4, <2>2
  <2>6. ListsOnce(lists[m], V[m])
    BY <2>2 DEF ListsApart, n
  <2>7. HeldUpTo(V, k + 1) \intersect V[m] = {}
    <3>1. \A l \in 1 .. (k + 1) : l \in 1 .. n /\ l # m
      BY <1>1, <2>2
    <3>2. \A l \in 1 .. (k + 1) : V[l] \intersect V[m] = {}
      BY <2>2, <3>1 DEF ListsApart, n
    <3>3. QED
      BY <3>2 DEF HeldUpTo
  <2>8. HeldUpTo(V, m) = HeldUpTo(V, k + 1) \union V[m]
    BY <2>3 DEF HeldUpTo
  <2>9. ListsOnce(strung[m], HeldUpTo(V, k + 1) \union V[m])
    BY <2>4, <2>5, <2>6, <2>7, JoinedLists
  <2>10. QED
    BY <2>8, <2>9 DEF m
<1>7. Nat \subseteq N
  <2> HIDE DEF N
  <2>1. QED
    BY <1>5, <1>6, NumberInduction
<1>8. n - 1 \in Nat /\ (n - 1) + 1 = n /\ (n - 1) + 1 <= n
  BY <1>1
<1>9. n - 1 \in N
  <2> HIDE DEF N
  <2>1. QED
    BY <1>7, <1>8
<1>10. ListsOnce(strung[n], HeldUpTo(V, n))
  BY <1>8, <1>9
<1>11. QED
  BY <1>3, <1>10 DEF n

-----------------------------------------------------------------------------
(***************************************************************************)
(* What the merge of the partitions' results holds.                        *)
(***************************************************************************)
LEMMA OnceListed ==
  ASSUME NEW T, NEW w \in Seq(T), IsInjective(w)
  PROVE  ListsOnce(w, ToSet(w))
<1>1. Len(w) \in Nat /\ DOMAIN w = 1 .. Len(w) /\ w \in [1 .. Len(w) -> T]
  BY LenProperties
<1>2. ToSet(w) = {w[k] : k \in DOMAIN w}
  BY DEF ToSet
<1>3. w \in [1 .. Len(w) -> ToSet(w)]
  BY <1>1, <1>2
<1>4. w \in Seq(ToSet(w))
  BY <1>1, <1>3
<1>5. QED
  BY <1>2, <1>4 DEF ListsOnce, IsInjective

LEMMA ListedWithin ==
  ASSUME NEW V, NEW w, ListsOnce(w, V), NEW T, V \subseteq T
  PROVE  w \in Seq(T)
<1>1. w \in Seq(V)
  BY DEF ListsOnce
<1>2. Seq(V) \subseteq Seq(T)
  BY SeqMonotonic
<1>3. QED
  BY <1>1, <1>2

\* coordinator.py:425-430: partition p is the one to report the pair.
Keeps(own, p, pair) ==
  /\ p \in {own[pair[1]], own[pair[2]]}
  /\ p <= own[pair[1]]
  /\ p <= own[pair[2]]

LEMMA KeptListed ==
  ASSUME NEW T, NEW pairs \in Seq(T), IsInjective(pairs), NEW own, NEW p,
         NEW m, m = KeptBy(pairs, own, p)
  PROVE  ListsOnce(m, {pair \in ToSet(pairs) : Keeps(own, p, pair)})
<1> DEFINE K == {k \in DOMAIN pairs : Keeps(own, p, pairs[k])}
           mask == [k \in DOMAIN pairs |-> Keeps(own, p, pairs[k])]
<1>1. m = Masked(pairs, mask) /\ K = {k \in DOMAIN pairs : mask[k]}
  BY DEF KeptBy, Keeps
<1>2. Len(pairs) \in Nat /\ DOMAIN pairs = 1 .. Len(pairs)
  BY PlacesOf
<1>3. K \in SUBSET (1 .. Len(pairs)) /\ K \in SUBSET (DOMAIN pairs)
  BY <1>2
<1> HIDE DEF K, mask
<1>4. Selects(m, pairs, K)
  BY <1>1, <1>2, <1>3, Selection
<1>5. m \in Seq(T) /\ ToSet(m) = {pairs[k] : k \in K} /\ IsInjective(m)
  BY <1>3, <1>4, SelectedEntries
<1>6. {pairs[k] : k \in K} = {pair \in ToSet(pairs) : Keeps(own, p, pair)}
  BY DEF K, ToSet
<1>7. ListsOnce(m, ToSet(m))
  BY <1>5, OnceListed
<1>8. QED
  BY <1>5, <1>6, <1>7

Kinds == {"collisions", "nearMisses"}

\* The pairs of a kind that partition p sees and reports.
KeptPairs(x, own, p, kind) ==
  {pair \in BruteForce(x)[kind] : /\ pair[1] \in LocalSet(x, own, p)
                                  /\ pair[2] \in LocalSet(x, own, p)
                                  /\ Keeps(own, p, pair)}

LEMMA PhaseFinds ==
  ASSUME NEW x \in [Drones -> Int], NEW own, NEW p \in Partitions,
         NEW kind \in Kinds, NEW found, found = DetectionPhase(x, own, p)[kind]
  PROVE  /\ found \in Seq(Drones \X Drones) /\ IsInjective(found)
         /\ ToSet(found) = {pair \in BruteForce(x)[kind] : /\ pair[1] \in LocalSet(x, own, p)
                                                           /\ pair[2] \in LocalSet(x, own, p)}
<1> DEFINE ids == LocalDrones(x, own, p)
           local == LocalSet(x, own, p)
<1>1. ListsOnce(ids, local)
  BY LocalDronesListed
<1>2. local \subseteq Drones
  BY DEF LocalSet, GhostExports
<1>3. DetectionPhase(x, own, p) = Detect(ids, x)
  BY DEF DetectionPhase
<1> HIDE DEF ids, local
<1>4. ids \in Seq(Drones)
  BY <1>1, <1>2, ListedWithin
<1>5. IsInjective(ids) /\ ToSet(ids) = local
  BY <1>1, ListedOnce
<1> DEFINE all == Detect(ids, x)
<1>6. /\ all.collisions \in Seq(Drones \X Drones)
      /\ IsInjective(all.collisions)
      /\ ToSet(all.collisions) = PairsInBand(ids, x, -1, CollisionRadius)
      /\ all.nearMisses \in Seq(Drones \X Drones)
      /\ IsInjective(all.nearMisses)
      /\ ToSet(all.nearMisses) = PairsInBand(ids, x, CollisionRadius, NearMissRadius)
  <2> HIDE DEF all
  <2>1. QED
    BY <1>4, <1>5, DetectFinds DEF all
<1> HIDE DEF all
<1>7. /\ PairsInBand(ids, x, -1, CollisionRadius)
           = {pair \in BruteForce(x)["collisions"] : pair[1] \in local /\ pair[2] \in local}
      /\ PairsInBand(ids, x, CollisionRadius, NearMissRadius)
           = {pair \in BruteForce(x)["nearMisses"] : pair[1] \in local /\ pair[2] \in local}
  BY <1>2, <1>5 DEF PairsInBand, BruteForce
<1>8. CASE kind = "collisions"
  <2>1. found = all.collisions
    BY <1>3, <1>8 DEF all
  <2>2. QED
    BY <1>6, <1>7, <1>8, <2>1 DEF local
<1>9. CASE kind = "nearMisses"
  <2>1. found = all.nearMisses
    BY <1>3, <1>9 DEF all
  <2>2. QED
    BY <1>6, <1>7, <1>9, <2>1 DEF local
<1>10. QED
  BY <1>8, <1>9 DEF Kinds

LEMMA PhaseKeeps ==
  ASSUME NEW x \in [Drones -> Int], NEW own, NEW p \in Partitions, NEW kind \in Kinds
  PROVE  ListsOnce(KeptBy(DetectionPhase(x, own, p)[kind], own, p), KeptPairs(x, own, p, kind))
<1> DEFINE found == DetectionPhase(x, own, p)[kind]
           m == KeptBy(found, own, p)
<1>1. /\ found \in Seq(Drones \X Drones) /\ IsInjective(found)
      /\ ToSet(found) = {pair \in BruteForce(x)[kind] : /\ pair[1] \in LocalSet(x, own, p)
                                                        /\ pair[2] \in LocalSet(x, own, p)}
  BY PhaseFinds
<1> HIDE DEF found
<1>2. ListsOnce(m, {pair \in ToSet(found) : Keeps(own, p, pair)})
  BY <1>1, KeptListed
<1>3. {pair \in ToSet(found) : Keeps(own, p, pair)} = KeptPairs(x, own, p, kind)
  BY <1>1 DEF KeptPairs
<1>4. QED
  BY <1>2, <1>3 DEF found

\* Some partition reports each pair within the near-miss radius, and has both drones.
EveryPairKept(x, own) ==
  \A i, j \in Drones :
    i < j /\ Distance(x, i, j) <= NearMissRadius
      => \E p \in Partitions : Keeps(own, p, <<i, j>>) /\ {i, j} \subseteq LocalSet(x, own, p)

LEMMA BandsAreClose ==
  ASSUME NEW x \in [Drones -> Int], NEW kind \in Kinds, NEW pair \in BruteForce(x)[kind]
  PROVE  /\ pair \in Drones \X Drones /\ pair[1] < pair[2]
         /\ Distance(x, pair[1], pair[2]) <= NearMissRadius
<1>1. CASE kind = "collisions"
  <2>1. /\ pair \in Drones \X Drones /\ pair[1] < pair[2]
        /\ Distance(x, pair[1], pair[2]) <= CollisionRadius
    BY <1>1 DEF BruteForce
  <2>2. Distance(x, pair[1], pair[2]) \in Nat
    BY <2>1, DistanceType
  <2>3. QED
    BY <2>1, <2>2, KernelAssumption
<1>2. CASE kind = "nearMisses"
  BY <1>2 DEF BruteForce
<1>3. QED
  BY <1>1, <1>2 DEF Kinds

\* The lower of the owners is one partition only.
LEMMA OneKeeper ==
  ASSUME NEW own \in [Drones -> Partitions], NEW pair \in Drones \X Drones,
         NEW p, NEW q, Keeps(own, p, pair), Keeps(own, q, pair)
  PROVE  p = q
<1>1. own[pair[1]] \in Int /\ own[pair[2]] \in Int
  BY PartitionAssumption DEF Partitions
<1>2. QED
  BY <1>1 DEF Keeps

\* The merge of a kind reports every pair of it, and each one once.
LEMMA KindMerged ==
  ASSUME NEW x \in [Drones -> Int], NEW own \in [Drones -> Partitions], EveryPairKept(x, own),
         NEW kind \in Kinds
  PROVE  ListsOnce(FlattenSeq([k \in 1 .. NumPartitions |->
                                 KeptBy(DetectionPhase(x, own, k - 1)[kind], own, k - 1)]),
                   BruteForce(x)[kind])
<1> DEFINE T == BruteForce(x)[kind]
           lists == [k \in 1 .. NumPartitions |->
                       KeptBy(DetectionPhase(x, own, k - 1)[kind], own, k - 1)]
           V == [k \in 1 .. NumPartitions |-> KeptPairs(x, own, k - 1, kind)]
           w == FlattenSeq(lists)
<1>1. NumPartitions \in Nat \ {0}
  BY PartitionAssumption
<1>2. \A k \in 1 .. NumPartitions : k - 1 \in Partitions
  BY <1>1 DEF Partitions
<1>3. \A k \in 1 .. NumPartitions : ListsOnce(lists[k], V[k]) /\ V[k] \subseteq T
  <2>1. TAKE k \in 1 .. NumPartitions
  <2>2. /\ lists[k] = KeptBy(DetectionPhase(x, own, k - 1)[kind], own, k - 1)
        /\ V[k] = KeptPairs(x, own, k - 1, kind)
    OBVIOUS
  <2> HIDE DEF lists, V
  <2>3. ListsOnce(lists[k], V[k])
    BY <1>2, <2>2, PhaseKeeps
  <2>4. V[k] \subseteq T
    BY <2>2 DEF KeptPairs
  <2>5. QED
    BY <2>3, <2>4
<1>4. lists \in Seq(Seq(T)) /\ Len(lists) = NumPartitions
  <2>1. DOMAIN lists = 1 .. NumPartitions
    OBVIOUS
  <2>2. lists = [k \in 1 .. NumPartitions |-> lists[k]]
    OBVIOUS
  <2> HIDE DEF lists, V, T
  <2>3. \A k \in 1 .. NumPartitions : lists[k] \in Seq(T)
    BY <1>3, ListedWithin
  <2>4. lists \in [1 .. NumPartitions -> Seq(T)]
    BY <2>2, <2>3
  <2>5. QED
    BY <1>1, <2>4
<1>5. ListsApart(lists, V)
  <2>1. ASSUME NEW k \in 1 .. NumPartitions, NEW l \in 1 .. NumPartitions, k # l
        PROVE  V[k] \intersect V[l] = {}
    <3>1. SUFFICES ASSUME NEW pair, pair \in V[k], pair \in V[l] PROVE FALSE
      OBVIOUS
    <3>2. pair \in BruteForce(x)[kind] /\ Keeps(own, k - 1, pair) /\ Keeps(own, l - 1, pair)
      BY <3>1 DEF KeptPairs
    <3>3. pair \in Drones \X Drones
      BY <3>2, BandsAreClose
    <3>4. k - 1 = l - 1
      BY <3>2, <3>3, OneKeeper
    <3>5. QED
      BY <2>1, <3>4
  <2> HIDE DEF lists, V
  <2>2. QED
    BY <1>3, <1>4, <2>1 DEF ListsApart
<1>6. HeldUpTo(V, NumPartitions) = T
  <2>1. \A pair \in T : \E k \in 1 .. NumPartitions : pair \in V[k]
    <3>1. TAKE pair \in T
    <3>2. /\ pair \in Drones \X Drones /\ pair[1] < pair[2]
          /\ Distance(x, pair[1], pair[2]) <= NearMissRadius
      BY BandsAreClose
    <3>3. pair = <<pair[1], pair[2]>> /\ pair[1] \in Drones /\ pair[2] \in Drones
      BY <3>2
    <3>4. PICK p \in Partitions : /\ Keeps(own, p, pair)
                                  /\ {pair[1], pair[2]} \subseteq LocalSet(x, own, p)
      BY <3>2, <3>3 DEF EveryPairKept
    <3>5. p + 1 \in 1 .. NumPartitions /\ (p + 1) - 1 = p
      BY <1>1 DEF Partitions
    <3>6. pair \in KeptPairs(x, own, p, kind)
      BY <3>4 DEF KeptPairs
    <3>7. V[p + 1] = KeptPairs(x, own, p, kind)
      BY <3>5
    <3> HIDE DEF V
    <3>8. QED
      BY <3>5, <3>6, <3>7
  <2> HIDE DEF V, lists, T
  <2>2. QED
    BY <1>3, <2>1 DEF HeldUpTo
<1> HIDE DEF V, lists, T
<1>7. ListsOnce(w, HeldUpTo(V, Len(lists)))
  BY <1>1, <1>4, <1>5, FlattenedOnce
<1>8. ListsOnce(w, T)
  BY <1>4, <1>6, <1>7
<1>9. QED
  BY <1>8 DEF T, lists

LEMMA MergeFinds ==
  ASSUME NEW x \in [Drones -> Int], NEW own \in [Drones -> Partitions], EveryPairKept(x, own),
         NEW found, found = Merged(x, own)
  PROVE  /\ ExactlyOnce(found, x)
         /\ Resolvable(found.collisions)
         /\ found.collisions \in Seq(Drones \X Drones)
         /\ found.nearMisses \in Seq(Drones \X Drones)
<1>1. ASSUME NEW kind \in Kinds
      PROVE  ListsOnce(found[kind], BruteForce(x)[kind])
  <2>1. found[kind] = FlattenSeq([k \in 1 .. NumPartitions |->
                                    KeptBy(DetectionPhase(x, own, k - 1)[kind], own, k - 1)])
    <3> DEFINE parts(k0) == [k \in 1 .. NumPartitions |->
                               KeptBy(DetectionPhase(x, own, k - 1)[k0], own, k - 1)]
    <3>1. found = [collisions |-> FlattenSeq(parts("collisions")),
                   nearMisses |-> FlattenSeq(parts("nearMisses"))]
      <4>1. found = [collisions |-> FlattenSeq(AsList(parts("collisions"))),
                     nearMisses |-> FlattenSeq(AsList(parts("nearMisses")))]
        BY DEF Merged
      <4>2. \A k0 : parts(k0) = [k \in 1 .. NumPartitions |-> parts(k0)[k]]
        OBVIOUS
      <4> HIDE DEF parts
      <4>3. \A k0 : AsList(parts(k0)) = parts(k0)
        BY <4>2, AsListIs, PartitionAssumption
      <4>4. QED
        BY <4>1, <4>3
    <3>2. SUFFICES found[kind] = FlattenSeq(parts(kind))
      OBVIOUS
    <3> HIDE DEF parts
    <3>3. CASE kind = "collisions"
      BY <3>1, <3>3
    <3>4. CASE kind = "nearMisses"
      BY <3>1, <3>4
    <3>5. QED
      BY <3>3, <3>4 DEF Kinds
  <2>2. QED
    BY <2>1, KindMerged
<1>2. \A kind \in Kinds : /\ IsInjective(found[kind])
                          /\ ToSet(found[kind]) = BruteForce(x)[kind]
                          /\ found[kind] \in Seq(Drones \X Drones)
  <2>1. TAKE kind \in Kinds
  <2>2. BruteForce(x)[kind] \subseteq Drones \X Drones
    BY BandsAreClose
  <2>3. QED
    BY <1>1, <2>2, ListedOnce, ListedWithin
<1>3. ExactlyOnce(found, x)
  BY <1>2 DEF ExactlyOnce, Kinds
<1>4. \A k \in DOMAIN found.collisions : found.collisions[k][1] < found.collisions[k][2]
  <2>1. TAKE k \in DOMAIN found.collisions
  <2>2. found["collisions"][k] \in BruteForce(x)["collisions"] /\ "collisions" \in Kinds
    BY <1>2 DEF Kinds, ToSet
  <2>3. QED
    BY <2>2, BandsAreClose
<1>5. QED
  BY <1>2, <1>3, <1>4 DEF Resolvable, Kinds

-----------------------------------------------------------------------------
(***************************************************************************)
(* The movement phases.  Each partition moves the drones it owns as a tick *)
(* of the whole world would; together they move every drone, once.         *)
(***************************************************************************)
\* The world s with the drones of the owners in P as they are in t.
Blend(s, t, own, P) ==
  [pos |-> [i \in Drones |-> IF own[i] \in P THEN t.pos[i] ELSE s.pos[i]],
   vel |-> [i \in Drones |-> IF own[i] \in P THEN t.vel[i] ELSE s.vel[i]]]

\* The write of one partition's result over the staged world.
WritesPart(s, own, staged, p) ==
  LET moved == MovementPhase(s, own, p)
  IN  [pos |-> Written(staged.pos, moved.pos), vel |-> Written(staged.vel, moved.vel)]

\* The equation of the fold in Staged().
StagesUpTo(iter, s, own, parts) ==
  iter = [T \in SUBSET (DOMAIN parts) |->
            IF T = {} THEN s ELSE WritesPart(s, own, iter[T \ {Max(T)}], parts[Max(T)])]

LEMMA BlendEnds ==
  ASSUME NEW s \in States, NEW t \in States, NEW own \in [Drones -> Partitions]
  PROVE  Blend(s, t, own, {}) = s /\ Blend(s, t, own, Partitions) = t
<1>1. /\ s = [pos |-> s.pos, vel |-> s.vel] /\ t = [pos |-> t.pos, vel |-> t.vel]
      /\ s.pos \in [Drones -> Int] /\ s.vel \in [Drones -> Int]
      /\ t.pos \in [Drones -> Int] /\ t.vel \in [Drones -> Int]
  BY DEF States
<1>2. \A i \in Drones : own[i] \in Partitions
  OBVIOUS
<1>3. Blend(s, t, own, {}) = s
  <2>1. /\ [i \in Drones |-> IF own[i] \in {} THEN t.pos[i] ELSE s.pos[i]] = s.pos
        /\ [i \in Drones |-> IF own[i] \in {} THEN t.vel[i] ELSE s.vel[i]] = s.vel
    BY <1>1
  <2>2. QED
    BY <1>1, <2>1 DEF Blend
<1>4. Blend(s, t, own, Partitions) = t
  <2>1. /\ [i \in Drones |-> IF own[i] \in Partitions THEN t.pos[i] ELSE s.pos[i]] = t.pos
        /\ [i \in Drones |-> IF own[i] \in Partitions THEN t.vel[i] ELSE s.vel[i]] = t.vel
    BY <1>1, <1>2
  <2>2. QED
    BY <1>1, <2>1 DEF Blend
<1>5. QED
  BY <1>3, <1>4

LEMMA WriteBlends ==
  ASSUME NEW s, NEW t, t = Tick(s, policy, goal, <<>>, mode), NEW own, NEW P, NEW p
  PROVE  WritesPart(s, own, Blend(s, t, own, P), p) = Blend(s, t, own, P \union {p})
<1> DEFINE owned == {i \in Drones : own[i] = p}
           staged == Blend(s, t, own, P)
           moved  == MovementPhase(s, own, p)
<1>1. moved.pos = [i \in owned |-> t.pos[i]] /\ moved.vel = [i \in owned |-> t.vel[i]]
  BY DEF MovementPhase, Restrict, Tick
<1>2. /\ staged.pos = [i \in Drones |-> IF own[i] \in P THEN t.pos[i] ELSE s.pos[i]]
      /\ staged.vel = [i \in Drones |-> IF own[i] \in P THEN t.vel[i] ELSE s.vel[i]]
  BY DEF Blend
<1>3. WritesPart(s, own, staged, p)
        = [pos |-> Written(staged.pos, moved.pos), vel |-> Written(staged.vel, moved.vel)]
  BY DEF WritesPart
<1> HIDE DEF staged, moved
<1>4. Written(staged.pos, moved.pos)
        = [i \in Drones |-> IF own[i] \in P \union {p} THEN t.pos[i] ELSE s.pos[i]]
  BY <1>1, <1>2 DEF Written
<1>5. Written(staged.vel, moved.vel)
        = [i \in Drones |-> IF own[i] \in P \union {p} THEN t.vel[i] ELSE s.vel[i]]
  BY <1>1, <1>2 DEF Written
<1>6. QED
  BY <1>3, <1>4, <1>5 DEF Blend, staged

PartsAt(parts, T) == {parts[k] : k \in T}

LEMMA StagesUpToExists ==
  ASSUME NEW s \in States, NEW t \in States, t = Tick(s, policy, goal, <<>>, mode),
         NEW own \in [Drones -> Partitions], NEW parts, NEW n \in Nat, DOMAIN parts = 1 .. n
  PROVE  \E iter : StagesUpTo(iter, s, own, parts)
<1> DEFINE D == 1 .. n
           g == [T \in SUBSET D |-> Blend(s, t, own, PartsAt(parts, T))]
<1>1. IsFiniteSet(D)
  BY FS_Interval
<1>2. PartsAt(parts, {}) = {}
  BY DEF PartsAt
<1>3. g[{}] = s
  <2>1. {} \in SUBSET D
    OBVIOUS
  <2>2. g[{}] = Blend(s, t, own, PartsAt(parts, {}))
    BY <2>1
  <2>3. Blend(s, t, own, {}) = s
    BY BlendEnds
  <2>4. QED
    BY <1>2, <2>2, <2>3
<1>4. ASSUME NEW T \in SUBSET D, T # {}
      PROVE  g[T] = WritesPart(s, own, g[T \ {Max(T)}], parts[Max(T)])
  <2> DEFINE y == Max(T)
  <2>1. y \in T
    BY <1>1, <1>4, LargestOfSet
  <2> HIDE DEF y
  <2>2. T \ {y} \in SUBSET D
    OBVIOUS
  <2>3. PartsAt(parts, T) = PartsAt(parts, T \ {y}) \union {parts[y]}
    BY <2>1 DEF PartsAt
  <2>4. /\ g[T] = Blend(s, t, own, PartsAt(parts, T))
        /\ g[T \ {y}] = Blend(s, t, own, PartsAt(parts, T \ {y}))
    BY <2>2
  <2> HIDE DEF g
  <2> DEFINE rest == PartsAt(parts, T \ {y})
             last == parts[y]
  <2>5. WritesPart(s, own, Blend(s, t, own, rest), last) = Blend(s, t, own, rest \union {last})
    <3> HIDE DEF rest, last
    <3>1. QED
      BY WriteBlends
  <2>6. QED
    BY <2>3, <2>4, <2>5 DEF y
<1>5. \A T \in SUBSET D : g[T] = IF T = {} THEN s
                                 ELSE WritesPart(s, own, g[T \ {Max(T)}], parts[Max(T)])
  BY <1>3, <1>4
<1>6. StagesUpTo(g, s, own, parts)
  <2>1. g = [T \in SUBSET D |-> IF T = {} THEN s
                                 ELSE WritesPart(s, own, g[T \ {Max(T)}], parts[Max(T)])]
    BY <1>5, Zenon
  <2> HIDE DEF g
  <2>2. QED
    BY <2>1 DEF StagesUpTo
<1>7. QED
  BY <1>6

\* coordinator.py:330-369: the staged world is that of one tick of the whole.
LEMMA StagedMoves ==
  ASSUME NEW s \in States, NEW t \in States, t = Tick(s, policy, goal, <<>>, mode),
         NEW own \in [Drones -> Partitions]
  PROVE  Staged(s, own) = t
<1> DEFINE parts == Ordered(Partitions)
           n == Cardinality(Partitions)
           iter == CHOOSE iter : StagesUpTo(iter, s, own, parts)
<1>1. Lists(parts, Increasing(Partitions), Partitions)
  <2>1. IsFiniteSet(Partitions) /\ Partitions \in SUBSET Int
    <3>1. 0 \in Int /\ NumPartitions - 1 \in Int
      BY PartitionAssumption
    <3>2. QED
      BY <3>1, FS_Interval DEF Partitions
  <2>2. QED
    BY <2>1, ArrangedNumbers DEF Ordered
<1>2. Staged(s, own) = iter[DOMAIN parts]
  BY DEF Staged, FoldLeft, MapThenFoldSet, StagesUpTo, WritesPart
<1> HIDE DEF parts, n, iter
<1>3. n \in Nat /\ DOMAIN parts = 1 .. n /\ \A p \in Partitions : \E k \in 1 .. n : parts[k] = p
  BY <1>1 DEF Lists, n
<1>4. \A k \in 1 .. n : parts[k] \in Partitions
  BY <1>1 DEF Lists, n
<1>5. StagesUpTo(iter, s, own, parts)
  BY <1>3, StagesUpToExists DEF iter
<1>6. \A T \in SUBSET (1 .. n) : iter[T] = IF T = {} THEN s
                                   ELSE WritesPart(s, own, iter[T \ {Max(T)}], parts[Max(T)])
  BY <1>3, <1>5 DEF StagesUpTo
<1> DEFINE N == {k \in Nat : k <= n => iter[1 .. k] = Blend(s, t, own, PartsAt(parts, 1 .. k))}
<1>7. 0 \in N
  <2>1. 1 .. 0 = {} /\ {} \in SUBSET (1 .. n)
    BY <1>3
  <2>2. PartsAt(parts, {}) = {}
    BY DEF PartsAt
  <2>3. iter[{}] = s
    BY <1>6, <2>1
  <2>4. Blend(s, t, own, {}) = s
    BY BlendEnds
  <2>5. QED
    BY <2>1, <2>2, <2>3, <2>4
<1>8. ASSUME NEW k \in Nat, k \in N PROVE k + 1 \in N
  <2>1. SUFFICES ASSUME k + 1 <= n
                 PROVE  iter[1 .. (k + 1)] = Blend(s, t, own, PartsAt(parts, 1 .. (k + 1)))
    OBVIOUS
  <2> DEFINE m == k + 1
  <2>2. m \in Nat /\ m # 0 /\ m - 1 = k /\ m \in 1 .. m /\ m \in 1 .. n /\ 1 .. m \in SUBSET (1 .. n) /\ k <= n
    BY <1>3, <2>1
  <2>3. 1 .. m # {}
    BY <2>2
  <2> HIDE DEF m
  <2>4. Max(1 .. m) = m /\ (1 .. m) \ {m} = 1 .. k
    BY <2>2, LargestOfInterval
  <2>5. iter[1 .. m] = WritesPart(s, own, iter[1 .. k], parts[m])
    BY <1>6, <2>2, <2>3, <2>4
  <2>6. iter[1 .. k] = Blend(s, t, own, PartsAt(parts, 1 .. k))
    BY <1>8, <2>2
  <2>7. PartsAt(parts, 1 .. m) = PartsAt(parts, 1 .. k) \union {parts[m]}
    <3>1. 1 .. m = (1 .. k) \union {m}
      BY <2>2, <2>4
    <3>2. QED
      BY <3>1 DEF PartsAt
  <2>8. WritesPart(s, own, Blend(s, t, own, PartsAt(parts, 1 .. k)), parts[m])
          = Blend(s, t, own, PartsAt(parts, 1 .. k) \union {parts[m]})
    BY WriteBlends
  <2>9. iter[1 .. m] = Blend(s, t, own, PartsAt(parts, 1 .. m))
    BY <2>5, <2>6, <2>7, <2>8
  <2>10. QED
    BY <2>9 DEF m
<1>9. Nat \subseteq N
  <2> HIDE DEF N
  <2>1. QED
    BY <1>7, <1>8, NumberInduction
<1>10. iter[1 .. n] = Blend(s, t, own, PartsAt(parts, 1 .. n))
  BY <1>3, <1>9
<1>11. PartsAt(parts, 1 .. n) = Partitions
  <2>1. \A p \in PartsAt(parts, 1 .. n) : p \in Partitions
    BY <1>4 DEF PartsAt
  <2>2. \A p \in Partitions : p \in PartsAt(parts, 1 .. n)
    BY <1>3 DEF PartsAt
  <2>3. QED
    BY <2>1, <2>2
<1>12. Blend(s, t, own, Partitions) = t
  BY BlendEnds
<1>13. QED
  BY <1>2, <1>3, <1>10, <1>11, <1>12

-----------------------------------------------------------------------------
(***************************************************************************)
(* How far a drone moves in a tick.                                        *)
(***************************************************************************)
Slow(v) == \A i \in Drones : v[i] \in - MaxSpeed .. MaxSpeed

\* The condition under which the partitions see all they must.
WideHalo ==
  /\ Halo >= NearMissRadius + MaxSpeed
  /\ (NearMissRadius + 2 * MaxSpeed) * NumPartitions <= BoundsMax

LEMMA SteerSlow ==
  ASSUME NEW s \in States, Slow(s.vel), NEW g \in [Drones -> Int], NEW p \in Policies,
         p # "local_avoidance"
  PROVE  /\ Steer(s, p, g, <<>>) \in States
         /\ Steer(s, p, g, <<>>).pos = s.pos
         /\ Slow(Steer(s, p, g, <<>>).vel)
<1> DEFINE new == UpdateVelocities(Drones, s, p, g, <<>>)
           t == Steer(s, p, g, <<>>)
<1>1. t \in States
  BY SteerType
<1>2. s.vel \in [Drones -> Int] /\ s.pos \in [Drones -> Int]
  BY DEF States
<1>3. t = [s EXCEPT !.vel = Written(s.vel, new)]
  BY DEF Steer
<1>4. \A i \in Drones : new[i] \in - MaxSpeed .. MaxSpeed
  <2>1. TAKE i \in Drones
  <2>2. s.pos[i] \in Int /\ s.vel[i] \in Int /\ g[i] \in Int
    BY <1>2
  <2>3. CASE p = "scripted"
    <3>1. new[i] = s.vel[i]
      BY <2>3 DEF UpdateVelocities
    <3>2. QED
      BY <3>1 DEF Slow
  <2>4. CASE p = "goal_directed"
    <3>1. new[i] = GoalDirected(s.pos[i], s.vel[i], g[i])
      BY <2>4 DEF UpdateVelocities
    <3>2. QED
      BY <2>2, <3>1, LimitTypes
  <2>5. QED
    BY <2>3, <2>4 DEF Policies
<1>5. DOMAIN new = Drones
  BY DEF UpdateVelocities
<1> HIDE DEF new, t
<1>6. t.pos = s.pos /\ t.vel = Written(s.vel, new)
  BY <1>3 DEF States
<1>7. \A i \in Drones : t.vel[i] = new[i]
  BY <1>2, <1>5, <1>6 DEF Written
<1>8. Slow(t.vel)
  BY <1>4, <1>7 DEF Slow
<1>9. QED
  BY <1>1, <1>6, <1>8 DEF t

LEMMA BoundSlow ==
  ASSUME NEW s \in States, Slow(s.vel), NEW m
  PROVE  Slow(Bound(s, m).vel)
<1>1. SUFFICES ASSUME NEW i \in Drones PROVE Bound(s, m).vel[i] \in - MaxSpeed .. MaxSpeed
  BY DEF Slow
<1>2. s.vel[i] \in - MaxSpeed .. MaxSpeed
  BY DEF Slow
<1>3. Bound(s, m).vel[i] = s.vel[i] \/ Bound(s, m).vel[i] = - s.vel[i] \/ Bound(s, m).vel[i] = 0
  BY DEF Bound
<1> DEFINE v == s.vel[i]
           w == Bound(s, m).vel[i]
<1> HIDE DEF v, w
<1>4. w \in - MaxSpeed .. MaxSpeed
  BY <1>2, <1>3, MovementAssumption DEF v, w
<1>5. QED
  BY <1>4 DEF w

\* A collision exchanges velocities, so none is faster after it than the fastest before.
LEMMA ResolveSlow ==
  ASSUME NEW s \in States, Slow(s.vel), NEW pairs, Resolvable(pairs)
  PROVE  Slow(Resolve(s, pairs).vel)
<1> DEFINE n == Len(pairs)
<1>1. n \in Nat /\ DOMAIN pairs = 1 .. n
  BY PlacesOf DEF Resolvable
<1>2. PICK after : Resolves(after, s, pairs) /\ Resolve(s, pairs) = after[n]
  BY ResolveUnrolled
<1>3. /\ \A k \in 0 .. n : after[k] \in States
      /\ after[0] = s
      /\ \A k \in 1 .. n : after[k] = ResolvePair(after[k - 1], pairs[k])
  BY <1>2 DEF Resolves
<1> DEFINE N == {k \in Nat : k <= n => Slow(after[k].vel)}
<1>4. 0 \in N
  BY <1>3
<1>5. ASSUME NEW k \in Nat, k \in N PROVE k + 1 \in N
  <2>1. SUFFICES ASSUME k + 1 <= n PROVE Slow(after[k + 1].vel)
    OBVIOUS
  <2>2. k + 1 \in 1 .. n /\ (k + 1) - 1 = k /\ k \in 0 .. n
    BY <1>1, <2>1
  <2>3. pairs[k + 1] \in Drones \X Drones /\ pairs[k + 1][1] < pairs[k + 1][2]
    BY <1>1, <2>2, LenProperties DEF Resolvable
  <2> DEFINE i == pairs[k + 1][1]
             j == pairs[k + 1][2]
             now == after[k]
             next == after[k + 1]
  <2>4. i \in Drones /\ j \in Drones /\ pairs[k + 1] = <<i, j>>
    BY <2>3
  <2>5. i # j
    BY <2>3, <2>4, KernelAssumption DEF Drones
  <2>6. now \in States /\ next = ResolvePair(now, <<i, j>>) /\ Slow(now.vel)
    BY <1>3, <1>5, <2>1, <2>2, <2>4
  <2> HIDE DEF i, j, now, next
  <2>7. /\ \A l \in Drones \ {i, j} : next.vel[l] = now.vel[l]
        /\ next.vel[i] = now.vel[j] /\ next.vel[j] = now.vel[i]
    BY <2>4, <2>5, <2>6, ResolvePairEffect
  <2>8. Slow(next.vel)
    BY <2>4, <2>6, <2>7 DEF Slow
  <2>9. QED
    BY <2>8 DEF next
<1>6. Nat \subseteq N
  <2> HIDE DEF N
  <2>1. QED
    BY <1>4, <1>5, NumberInduction
<1>7. QED
  BY <1>1, <1>2, <1>6

Owners(x) == [k \in Drones |-> OwnerOf(x[k])]

LEMMA OwnersType ==
  ASSUME NEW x \in [Drones -> Int]
  PROVE  Owners(x) \in [Drones -> Partitions]
<1>1. \A k \in Drones : OwnerOf(x[k]) \in Partitions
  <2>1. TAKE k \in Drones
  <2>2. x[k] \in Int
    OBVIOUS
  <2>3. QED
    BY <2>2, KernelAssumption, PartitionAssumption, OwnerSlab
<1>2. QED
  BY <1>1 DEF Owners

\* After a tick the partitions, under the owners before it, report every pair.
LEMMA TickKeepsPairs ==
  ASSUME WideHalo, NEW s \in States, Slow(s.vel), NEW g \in [Drones -> Int], NEW m,
         NEW p \in Policies, p # "local_avoidance"
  PROVE  EveryPairKept(Tick(s, p, g, <<>>, m).pos, Owners(s.pos))
<1> DEFINE t == Steer(s, p, g, <<>>)
           x == Bound(Integrate(t), m).pos
           own == Owners(s.pos)
<1>1. t \in States /\ t.pos = s.pos /\ Slow(t.vel)
  BY SteerSlow
<1>2. Tick(s, p, g, <<>>, m).pos = x
  BY DEF Tick, Move
<1>3. own = [k \in Drones |-> OwnerOf(t.pos[k])]
  BY <1>1 DEF Owners
<1>4. \A k \in Drones : - MaxSpeed <= t.vel[k] /\ t.vel[k] <= MaxSpeed
  BY <1>1, MovementAssumption DEF Slow
<1>5. t \in [pos : [Drones -> Int], vel : [Drones -> Int]] /\ MaxSpeed \in Nat
  BY <1>1, MovementAssumption DEF States
<1>6. own \in [Drones -> Partitions]
  <2>1. s.pos \in [Drones -> Int]
    BY DEF States
  <2>2. QED
    BY <2>1, OwnersType
<1> HIDE DEF t, own
<1>7. ASSUME NEW i \in Drones, NEW j \in Drones, Distance(x, i, j) <= NearMissRadius
      PROVE  \E q \in Partitions : Keeps(own, q, <<i, j>>) /\ {i, j} \subseteq LocalSet(x, own, q)
  <2>1. \E q \in Partitions : /\ q \in {own[i], own[j]} /\ q <= own[i] /\ q <= own[j]
                              /\ {i, j} \subseteq LocalSet(x, own, q)
    BY <1>3, <1>4, <1>5, <1>7, KernelAssumption, PartitionAssumption, KeeperSeesPair DEF WideHalo
  <2>2. QED
    BY <2>1 DEF Keeps
<1> HIDE DEF x
<1>8. EveryPairKept(x, own)
  BY <1>7 DEF EveryPairKept
<1>9. QED
  BY <1>2, <1>8 DEF own

-----------------------------------------------------------------------------
(***************************************************************************)
(* The order of the resolution.                                            *)
(***************************************************************************)
LEMMA LoneOfDisjoint ==
  ASSUME NEW pairs, Resolvable(pairs), Disjoint(pairs)
  PROVE  /\ IsInjective(pairs)
         /\ \A k \in DOMAIN pairs : Lone(pairs, k)
<1>1. \A k \in DOMAIN pairs : pairs[k] \in Drones \X Drones
  BY LenProperties DEF Resolvable
<1>2. \A k \in DOMAIN pairs : ToSet(pairs[k]) = {pairs[k][1], pairs[k][2]}
  <2>1. TAKE k \in DOMAIN pairs
  <2>2. PICK i \in Drones, j \in Drones : pairs[k] = <<i, j>>
    BY <1>1
  <2>3. ToSet(<<i, j>>) = {i, j}
    BY DEF ToSet
  <2>4. QED
    BY <2>2, <2>3
<1>3. \A k, l \in DOMAIN pairs : k # l => ToSet(pairs[k]) \intersect ToSet(pairs[l]) = {}
  BY DEF Disjoint
<1>4. \A k \in DOMAIN pairs : Lone(pairs, k)
  BY <1>2, <1>3 DEF Lone
<1>5. \A k, l \in DOMAIN pairs : pairs[k] = pairs[l] => k = l
  <2>1. TAKE k, l \in DOMAIN pairs
  <2>2. pairs[k][1] \in ToSet(pairs[k])
    BY <1>2
  <2>3. QED
    BY <1>3, <2>2
<1>6. QED
  BY <1>4, <1>5 DEF IsInjective

\* The same pairs in another order are as disjoint.
LEMMA DisjointReordered ==
  ASSUME NEW pairs, Resolvable(pairs), Disjoint(pairs),
         NEW other, Resolvable(other), IsInjective(other), ToSet(other) = ToSet(pairs)
  PROVE  Disjoint(other)
<1>1. SUFFICES ASSUME NEW k \in DOMAIN other, NEW l \in DOMAIN other, k # l
               PROVE  ToSet(other[k]) \intersect ToSet(other[l]) = {}
  BY DEF Disjoint
<1>2. other[k] \in ToSet(pairs) /\ other[l] \in ToSet(pairs)
  BY DEF ToSet
<1>3. PICK a \in DOMAIN pairs : other[k] = pairs[a]
  BY <1>2 DEF ToSet
<1>4. PICK b \in DOMAIN pairs : other[l] = pairs[b]
  BY <1>2 DEF ToSet
<1>5. other[k] # other[l]
  BY <1>1 DEF IsInjective
<1>6. a # b
  BY <1>3, <1>4, <1>5
<1>7. ToSet(pairs[a]) \intersect ToSet(pairs[b]) = {}
  BY <1>6 DEF Disjoint
<1>8. QED
  BY <1>3, <1>4, <1>7

\* A drone of no pair keeps its place and its velocity.
LEMMA OutsideAllPairs ==
  ASSUME NEW s \in States, NEW pairs, Resolvable(pairs), NEW i \in Drones,
         \A k \in DOMAIN pairs : i # pairs[k][1] /\ i # pairs[k][2]
  PROVE  Same(Resolve(s, pairs), s, i)
<1> DEFINE n == Len(pairs)
<1>1. n \in Nat /\ DOMAIN pairs = 1 .. n
  BY PlacesOf DEF Resolvable
<1>2. PICK after : Resolves(after, s, pairs) /\ Resolve(s, pairs) = after[n]
  BY ResolveUnrolled
<1>3. after[0] = s
  BY <1>2 DEF Resolves
<1>4. \A m \in (0 + 1) .. n : i # pairs[m][1] /\ i # pairs[m][2]
  BY <1>1
<1>5. 0 \in 0 .. n /\ n \in 0 .. n
  BY <1>1
<1>6. Same(after[n], after[0], i)
  BY <1>2, <1>4, <1>5, UntouchedMeanwhile
<1>7. QED
  BY <1>2, <1>3, <1>6

\* coordinator.py:3-8: in whatever order they come, collisions that share no
\* drone leave the same world.
LEMMA OrderIsFree ==
  ASSUME NEW s \in States,
         NEW pairs, Resolvable(pairs), Disjoint(pairs),
         NEW other, Resolvable(other), IsInjective(other), ToSet(other) = ToSet(pairs)
  PROVE  Resolve(s, other) = Resolve(s, pairs)
<1> DEFINE t == Resolve(s, pairs)
           u == Resolve(s, other)
<1>1. t \in States /\ u \in States
  BY ResolveKeepsEnergy
<1>2. Disjoint(other)
  BY DisjointReordered
<1>3. \A k \in DOMAIN pairs : Lone(pairs, k)
  BY LoneOfDisjoint
<1>4. \A k \in DOMAIN other : Lone(other, k)
  BY <1>2, LoneOfDisjoint
<1>5. ASSUME NEW i \in Drones PROVE Same(t, u, i)
  <2>1. CASE \E k \in DOMAIN pairs : i = pairs[k][1] \/ i = pairs[k][2]
    <3>1. PICK k \in DOMAIN pairs : i = pairs[k][1] \/ i = pairs[k][2]
      BY <2>1
    <3>2. pairs[k] \in ToSet(other)
      BY DEF ToSet
    <3>3. PICK l \in DOMAIN other : other[l] = pairs[k]
      BY <3>2 DEF ToSet
    <3> DEFINE v == ResolvePair(s, pairs[k])
    <3>4. Same(t, v, pairs[k][1]) /\ Same(t, v, pairs[k][2])
      BY <1>3, LonePairResolved
    <3>5. Same(u, v, pairs[k][1]) /\ Same(u, v, pairs[k][2])
      BY <1>4, <3>3, LonePairResolved
    <3> HIDE DEF t, u, v
    <3>6. Same(t, v, i) /\ Same(u, v, i)
      BY <3>1, <3>4, <3>5
    <3>7. QED
      BY <3>6 DEF Same
  <2>2. CASE \A k \in DOMAIN pairs : i # pairs[k][1] /\ i # pairs[k][2]
    <3>1. \A l \in DOMAIN other : i # other[l][1] /\ i # other[l][2]
      <4>1. TAKE l \in DOMAIN other
      <4>2. other[l] \in ToSet(pairs)
        BY DEF ToSet
      <4>3. PICK k \in DOMAIN pairs : other[l] = pairs[k]
        BY <4>2 DEF ToSet
      <4>4. QED
        BY <2>2, <4>3
    <3>2. Same(t, s, i) /\ Same(u, s, i)
      BY <2>2, <3>1, OutsideAllPairs
    <3>3. QED
      BY <3>2 DEF Same
  <2>3. QED
    BY <2>1, <2>2
<1> HIDE DEF t, u
<1>6. \A i \in Drones : t.pos[i] = u.pos[i] /\ t.vel[i] = u.vel[i]
  BY <1>5 DEF Same
<1>7. /\ t = [pos |-> t.pos, vel |-> t.vel] /\ u = [pos |-> u.pos, vel |-> u.vel]
      /\ t.pos \in [Drones -> Int] /\ t.vel \in [Drones -> Int]
      /\ u.pos \in [Drones -> Int] /\ u.vel \in [Drones -> Int]
  BY <1>1 DEF States
<1>8. t.pos = u.pos /\ t.vel = u.vel
  BY <1>6, <1>7
<1>9. QED
  BY <1>7, <1>8 DEF t, u

-----------------------------------------------------------------------------
(***************************************************************************)
(* The invariant of the partitioned step.  No drone is faster than         *)
(* MaxSpeed, so the halo and the slabs are wide enough at every step.      *)
(***************************************************************************)
PartitionedInv ==
  /\ SimulationInv
  /\ policy # "local_avoidance"
  /\ Slow(vel)

\* What a step of the coordinator does: the movement of a plain step, the exact
\* pairs of what it leaves, and their resolution.
LEMMA PartitionedEffect ==
  ASSUME WideHalo, PartitionedInv, StepPartitioned
  PROVE  /\ Context(Now) = <<>>
         /\ Moved \in States /\ Moved.pos \in [Drones -> 0 .. BoundsMax] /\ Slow(Moved.vel)
         /\ detected' = Moved.pos
         /\ ExactlyOnce(result', detected')
         /\ Resolvable(result'.collisions)
         /\ result'.collisions \in Seq(Drones \X Drones)
         /\ result'.nearMisses \in Seq(Drones \X Drones)
         /\ pos' = Resolve(Moved, result'.collisions).pos
         /\ vel' = Resolve(Moved, result'.collisions).vel
         /\ clock' = clock + 1 /\ clock < MaxTick /\ UNCHANGED <<mode, policy, goal>>
<1>1. Now \in States /\ goal \in [Drones -> Int] /\ policy \in Policies
  BY NowType DEF PartitionedInv, SimulationInv
<1>2. policy # "local_avoidance" /\ Slow(Now.vel) /\ Context(Now) = <<>>
  BY DEF PartitionedInv, Context, Now
<1> DEFINE own == Owners(Now.pos)
           t == Tick(Now, policy, goal, <<>>, mode)
<1>3. t \in States /\ t.pos \in [Drones -> 0 .. BoundsMax]
  BY <1>1, <1>2, TickEffect
<1>4. Moved = t
  BY <1>2 DEF Moved
<1>5. own \in [Drones -> Partitions]
  <2>1. Now.pos \in [Drones -> Int]
    BY <1>1 DEF States
  <2>2. QED
    BY <2>1, OwnersType
<1>6. EveryPairKept(t.pos, own)
  BY <1>1, <1>2, TickKeepsPairs
<1>7. Slow(t.vel)
  <2> DEFINE steered == Steer(Now, policy, goal, <<>>)
             moved   == Move(Now, policy, goal, <<>>)
  <2>1. Slow(steered.vel)
    BY <1>1, <1>2, SteerSlow
  <2>2. moved \in States /\ moved.vel = steered.vel
    BY <1>1, <1>2, MoveType
  <2>3. Slow(Bound(moved, mode).vel)
    <3> HIDE DEF moved, steered
    <3>1. QED
      BY <2>1, <2>2, BoundSlow
  <2>4. QED
    BY <2>3 DEF Tick
<1> HIDE DEF t, own
<1>8. Staged(Now, own) = t
  BY <1>1, <1>3, <1>5, StagedMoves DEF t
<1>9. /\ detected' = t.pos
      /\ result' = Merged(t.pos, own)
      /\ pos' = Resolve(t, Merged(t.pos, own).collisions).pos
      /\ vel' = Resolve(t, Merged(t.pos, own).collisions).vel
  BY <1>8 DEF StepPartitioned, PartitionedStep, own, Owners
<1>10. t.pos \in [Drones -> Int]
  BY <1>3 DEF States
<1>11. /\ ExactlyOnce(result', t.pos)
       /\ Resolvable(result'.collisions)
       /\ result'.collisions \in Seq(Drones \X Drones)
       /\ result'.nearMisses \in Seq(Drones \X Drones)
  BY <1>5, <1>6, <1>9, <1>10, MergeFinds
<1>12. clock' = clock + 1 /\ clock < MaxTick /\ UNCHANGED <<mode, policy, goal>>
  BY DEF StepPartitioned
<1>13. QED
  BY <1>2, <1>3, <1>4, <1>7, <1>9, <1>11, <1>12

LEMMA PartitionedStarts == PartitionedInit => PartitionedInv
<1>1. PartitionedInit => SimulationInv
  BY InitStarts DEF PartitionedInit
<1>2. PartitionedInit => Slow(vel)
  BY SimulationAssumption DEF PartitionedInit, Init, Slow
<1>3. QED
  BY <1>1, <1>2 DEF PartitionedInv, SimulationInv, PartitionedInit

LEMMA PartitionedStepKeepsInv ==
  ASSUME WideHalo, PartitionedInv, StepPartitioned
  PROVE  PartitionedInv'
<1>1. /\ Moved \in States /\ Moved.pos \in [Drones -> 0 .. BoundsMax] /\ Slow(Moved.vel)
      /\ detected' = Moved.pos
      /\ ExactlyOnce(result', detected')
      /\ Resolvable(result'.collisions)
      /\ result'.collisions \in Seq(Drones \X Drones)
      /\ result'.nearMisses \in Seq(Drones \X Drones)
      /\ pos' = Resolve(Moved, result'.collisions).pos
      /\ vel' = Resolve(Moved, result'.collisions).vel
      /\ clock' = clock + 1 /\ clock < MaxTick /\ UNCHANGED <<mode, policy, goal>>
  BY PartitionedEffect
<1> HIDE DEF Moved
<1>2. Resolve(Moved, result'.collisions) \in States /\ Slow(Resolve(Moved, result'.collisions).vel)
  BY <1>1, ResolveKeepsEnergy, ResolveSlow
<1>3. pos' \in [Drones -> Int] /\ vel' \in [Drones -> Int] /\ Slow(vel')
  BY <1>1, <1>2 DEF States
<1>4. clock' \in 0 .. MaxTick
  BY <1>1, SimulationAssumption DEF PartitionedInv, SimulationInv, TypeOK
<1>5. TypeOK'
  BY <1>1, <1>3, <1>4 DEF PartitionedInv, SimulationInv, TypeOK
<1>6. DetectsExactly'
  BY <1>1 DEF DetectsExactly
<1>7. (policy # "local_avoidance")'
  BY <1>1 DEF PartitionedInv
<1>8. Now' = Resolve([pos |-> detected', vel |-> Moved.vel], result'.collisions)
  <2>1. Now' = [pos |-> pos', vel |-> vel']
    BY DEF Now
  <2>2. Resolve(Moved, result'.collisions) = [pos |-> pos', vel |-> vel']
    BY <1>1, <1>2 DEF States
  <2>3. Moved = [pos |-> detected', vel |-> Moved.vel]
    BY <1>1 DEF States
  <2>4. QED
    BY <2>1, <2>2, <2>3
<1>9. ResolvedFromDetected'
  <2>1. Moved.vel \in [Drones -> Int]
    BY <1>1 DEF States
  <2>2. QED
    BY <1>8, <2>1 DEF ResolvedFromDetected
<1>10. SimulationInv'
  BY <1>1, <1>5, <1>6, <1>9 DEF SimulationInv
<1>11. QED
  BY <1>3, <1>7, <1>10 DEF PartitionedInv, Slow

LEMMA PartitionedInvariant == WideHalo => (PartitionedSpec => []PartitionedInv)
<1> SUFFICES ASSUME WideHalo PROVE PartitionedSpec => []PartitionedInv
  OBVIOUS
<1>1. PartitionedInit => PartitionedInv
  BY PartitionedStarts
<1>2. PartitionedInv /\ [StepPartitioned]_partitionedVars => PartitionedInv'
  <2>1. SUFFICES ASSUME PartitionedInv, [StepPartitioned]_partitionedVars PROVE PartitionedInv'
    OBVIOUS
  <2>2. CASE StepPartitioned
    BY <2>1, <2>2, PartitionedStepKeepsInv
  <2>3. CASE UNCHANGED partitionedVars
    BY <2>1, <2>3, StutterKeepsInv DEF PartitionedInv, Slow, partitionedVars, vars
  <2>4. QED
    BY <2>1, <2>2, <2>3
<1>3. QED
  BY <1>1, <1>2, PTL DEF PartitionedSpec

\* With a halo of the near-miss radius and one tick's movement, and slabs at least
\* as wide as that radius and two movements, the merge of the partitions' detections
\* misses no pair across a slab edge and counts none twice (coordinator.py:30-40
\* and 193-198), for every number of drones and of partitions.
THEOREM MergesExactlyAlways == WideHalo => (PartitionedSpec => []DetectsExactly)
<1>1. PartitionedInv => DetectsExactly
  BY DEF PartitionedInv, SimulationInv
<1>2. QED
  BY <1>1, PartitionedInvariant, PTL

\* collisions.py:171-173 and boundaries.py:42-46, of the partitioned step: a collision
\* that no other touches is resolved as in the plain one, wherever the slab edges
\* lie, and the partitions together neither make nor lose energy.
THEOREM PartitionedResolution ==
  WideHalo => (PartitionedSpec => []SeparatesLonePairs /\ EnergyBalance)
<1> SUFFICES ASSUME WideHalo PROVE PartitionedSpec => []SeparatesLonePairs /\ EnergyBalance
  OBVIOUS
<1>1. PartitionedInv => SeparatesLonePairs
  BY LonePairsSeparated DEF PartitionedInv
<1>2. PartitionedInv /\ [StepPartitioned]_partitionedVars => [EnergyBalanced]_vars
  <2>1. SUFFICES ASSUME PartitionedInv, StepPartitioned PROVE EnergyBalanced
    BY DEF partitionedVars
  <2>2. /\ Context(Now) = <<>> /\ Moved \in States
        /\ Resolvable(result'.collisions)
        /\ vel' = Resolve(Moved, result'.collisions).vel
        /\ clock' = clock + 1 /\ UNCHANGED <<mode, policy, goal>>
    BY <2>1, PartitionedEffect
  <2>3. Energy(vel') = Energy(Moved.vel)
    <3> HIDE DEF Moved
    <3>1. QED
      BY <2>2, ResolveKeepsEnergy
  <2>4. /\ Now \in States /\ goal \in [Drones -> Int] /\ policy \in Policies
        /\ policy = "local_avoidance" => Predicted(Context(Now), Now)
    BY <2>1, NowType DEF PartitionedInv, SimulationInv
  <2>5. /\ Energy(Moved.vel) <= Energy(Steer(Now, policy, goal, Context(Now)).vel)
        /\ mode = "reflect" => Energy(Moved.vel)
                                 = Energy(Steer(Now, policy, goal, Context(Now)).vel)
    BY <2>4, TickEffect DEF Moved
  <2>6. QED
    BY <2>3, <2>5 DEF EnergyBalanced
<1>3. PartitionedSpec => [][EnergyBalanced]_vars
  BY <1>2, PartitionedInvariant, PTL DEF PartitionedSpec
<1>4. PartitionedSpec => EnergyBalance
  BY <1>3 DEF EnergyBalance, EnergyBalanced
<1>5. QED
  BY <1>1, <1>4, PartitionedInvariant, PTL

\* What a step of the coordinator and a plain step have in common.
LEMMA StepAgrees ==
  ASSUME WideHalo, PartitionedInv, StepPartitioned,
         Disjoint(EngineStep(Now).result.collisions)
  PROVE  /\ pos' = EngineStep(Now).pos
         /\ vel' = EngineStep(Now).vel
         /\ ToSet(result'.collisions) = ToSet(EngineStep(Now).result.collisions)
<1> DEFINE found == Detect(AllDrones, Moved.pos)
<1>1. /\ Moved \in States /\ Moved.pos \in [Drones -> 0 .. BoundsMax]
      /\ detected' = Moved.pos
      /\ ExactlyOnce(result', detected')
      /\ Resolvable(result'.collisions)
      /\ pos' = Resolve(Moved, result'.collisions).pos
      /\ vel' = Resolve(Moved, result'.collisions).vel
  BY PartitionedEffect
<1>2. /\ EngineStep(Now).result = found
      /\ EngineStep(Now).pos = Resolve(Moved, found.collisions).pos
      /\ EngineStep(Now).vel = Resolve(Moved, found.collisions).vel
  BY DEF EngineStep, Moved, Tick
<1>3. Moved.pos \in [Drones -> Int]
  BY <1>1 DEF States
<1> HIDE DEF Moved
<1>4. ExactlyOnce(found, Moved.pos) /\ Resolvable(found.collisions)
  BY <1>3, FoundIsResolvable
<1> HIDE DEF found
<1>5. /\ ToSet(result'.collisions) = BruteForce(Moved.pos)["collisions"]
      /\ IsInjective(result'.collisions)
      /\ ToSet(found.collisions) = BruteForce(Moved.pos)["collisions"]
  BY <1>1, <1>4 DEF ExactlyOnce
<1>6. Resolve(Moved, result'.collisions) = Resolve(Moved, found.collisions)
  BY <1>1, <1>2, <1>4, <1>5, OrderIsFree
<1>7. QED
  BY <1>1, <1>2, <1>5, <1>6

\* coordinator.py:3-8 and README ("Resolution order"): under the same condition, a
\* partitioned step in which no drone is in two collisions ends as the plain
\* Simulation.step() does, for every number of drones and of partitions.
THEOREM AgreesWithSimulationAlways == WideHalo => (PartitionedSpec => AgreesWithSimulation)
<1> SUFFICES ASSUME WideHalo PROVE PartitionedSpec => AgreesWithSimulation
  OBVIOUS
<1> DEFINE Agrees == LET plain == EngineStep(Now)
                     IN  Disjoint(plain.result.collisions)
                           => /\ pos' = plain.pos
                              /\ vel' = plain.vel
                              /\ ToSet(result'.collisions) = ToSet(plain.result.collisions)
<1>1. PartitionedInv /\ [StepPartitioned]_partitionedVars => [Agrees]_partitionedVars
  <2>1. SUFFICES ASSUME PartitionedInv, StepPartitioned,
                        Disjoint(EngineStep(Now).result.collisions)
                 PROVE  /\ pos' = EngineStep(Now).pos
                        /\ vel' = EngineStep(Now).vel
                        /\ ToSet(result'.collisions) = ToSet(EngineStep(Now).result.collisions)
    OBVIOUS
  <2>2. QED
    BY <2>1, StepAgrees
<1>2. QED
  BY <1>1, PartitionedInvariant, PTL DEF PartitionedSpec, AgreesWithSimulation

=============================================================================
