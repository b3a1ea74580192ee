------------------------------ MODULE DataLemmas ------------------------------
(***************************************************************************)
(* Facts about finite data that the proofs of several components rest on:  *)
(* induction over numbers, over finite sets and along sequences, what a    *)
(* fold computes, and sums over finite sets.  The induction principles     *)
(* are stated with a set in place of a predicate.                          *)
(***************************************************************************)
EXTENDS Integers, SequencesExt, SequenceTheorems, FunctionTheorems, FiniteSetTheorems,
  WellFoundedInduction, TLAPS

-----------------------------------------------------------------------------
(***************************************************************************)
(* Induction.                                                              *)
(***************************************************************************)

\* A set of natural numbers that is not empty has a least element.
LEMMA LeastNumber ==
  ASSUME NEW T, T \subseteq Nat, T # {}
  PROVE  \E x \in T : \A y \in T : x <= y
<1> DEFINE R == OpToRel(<, Nat)
<1>1. IsWellFoundedOn(R, Nat)
  BY NatLessThanWellFounded
<1>2. \A x, y \in Nat : <<y, x>> \in R <=> y < x
  BY DEF OpToRel
<1> HIDE DEF R
<1>3. PICK x \in T : \A y \in T : ~ (<<y, x>> \in R)
  BY <1>1, WFMin
<1>4. \A y \in T : x <= y
  <2>1. TAKE y \in T
  <2>2. x \in Nat /\ y \in Nat /\ ~ (y < x)
    BY <1>2, <1>3
  <2>3. QED
    BY <2>2
<1>5. QED
  BY <1>4

\* A set that holds 0 and, with a number, the next one holds every number.
LEMMA NumberInduction ==
  ASSUME NEW T, 0 \in T, \A n \in Nat : n \in T => n + 1 \in T
  PROVE  Nat \subseteq T
<1> DEFINE U == Nat \ T
<1>1. SUFFICES ASSUME U # {} PROVE FALSE
  OBVIOUS
<1>2. PICK x \in U : \A y \in U : x <= y
  BY <1>1, LeastNumber
<1>3. x \in Nat /\ x # 0 /\ x \notin T
  OBVIOUS
<1>4. x - 1 \in Nat /\ x - 1 \notin U
  BY <1>2, <1>3
<1>5. x - 1 \in T
  BY <1>4
<1>6. (x - 1) + 1 \in T
  BY <1>4, <1>5
<1>7. QED
  BY <1>3, <1>6

\* A set that holds {} and, with a finite set, that set with one more element
\* of S, holds every subset of a finite set S.
LEMMA SetInduction ==
  ASSUME NEW S, IsFiniteSet(S),
         NEW T, {} \in T,
         \A U \in SUBSET S : U \in T => \A x \in S \ U : U \union {x} \in T
  PROVE  SUBSET S \subseteq T
<1> DEFINE N == {n \in Nat : \A U \in SUBSET S : Cardinality(U) = n => U \in T}
<1>1. \A U \in SUBSET S : IsFiniteSet(U) /\ Cardinality(U) \in Nat
  BY FS_Subset, FS_CardinalityType
<1>2. 0 \in N
  BY <1>1, FS_EmptySet
<1>3. ASSUME NEW n \in Nat, n \in N PROVE n + 1 \in N
  <2>1. SUFFICES ASSUME NEW U \in SUBSET S, Cardinality(U) = n + 1 PROVE U \in T
    OBVIOUS
  <2>2. U # {}
    <3>1. Cardinality({}) = 0
      BY FS_EmptySet
    <3>2. QED
      BY <2>1, <3>1
  <2>3. PICK x \in U : TRUE
    BY <2>2
  <2>4. Cardinality(U \ {x}) = n
    <3>1. IsFiniteSet(U)
      BY <1>1
    <3>2. Cardinality(U \ {x}) = Cardinality(U) - 1
      BY <3>1, FS_RemoveElement
    <3>3. QED
      BY <2>1, <3>2
  <2>5. U \ {x} \in T /\ U \ {x} \in SUBSET S /\ x \in S \ (U \ {x})
    BY <1>3, <2>4
  <2>6. U = (U \ {x}) \union {x}
    OBVIOUS
  <2>7. QED
    BY <2>5, <2>6
<1>4. Nat \subseteq N
  <2> HIDE DEF N
  <2>1. QED
    BY <1>2, <1>3, NumberInduction
<1>5. QED
  BY <1>1, <1>4

\* A set that holds a set once it holds all of its proper subsets.
LEMMA SubsetInduction ==
  ASSUME NEW S, IsFiniteSet(S), NEW T,
         \A U \in SUBSET S : (\A V \in SUBSET S : V \subseteq U /\ V # U => V \in T) => U \in T
  PROVE  SUBSET S \subseteq T
<1> DEFINE N == {n \in Nat : \A U \in SUBSET S : Cardinality(U) <= n => U \in T}
<1>1. \A U \in SUBSET S : IsFiniteSet(U) /\ Cardinality(U) \in Nat
  BY FS_Subset, FS_CardinalityType
<1>2. \A U, V \in SUBSET S : V \subseteq U /\ V # U => Cardinality(V) < Cardinality(U)
  <2>1. TAKE U, V \in SUBSET S
  <2>2. SUFFICES ASSUME V \subseteq U, V # U PROVE Cardinality(V) < Cardinality(U)
    OBVIOUS
  <2>3. /\ Cardinality(V) <= Cardinality(U)
        /\ Cardinality(U) = Cardinality(V) => U = V
    BY <1>1, <2>2, FS_Subset
  <2>4. QED
    BY <1>1, <2>2, <2>3
<1>3. 0 \in N
  <2>1. SUFFICES ASSUME NEW U \in SUBSET S, Cardinality(U) <= 0 PROVE U \in T
    OBVIOUS
  <2>2. \A V \in SUBSET S : ~ (V \subseteq U /\ V # U)
    <3>1. SUFFICES ASSUME NEW V \in SUBSET S, V \subseteq U, V # U PROVE FALSE
      OBVIOUS
    <3>2. Cardinality(V) < Cardinality(U)
      BY <1>2, <3>1
    <3>3. QED
      BY <1>1, <2>1, <3>2
  <2>3. QED
    BY <2>2
<1>4. ASSUME NEW n \in Nat, n \in N PROVE n + 1 \in N
  <2>1. SUFFICES ASSUME NEW U \in SUBSET S, Cardinality(U) <= n + 1 PROVE U \in T
    OBVIOUS
  <2>2. \A V \in SUBSET S : V \subseteq U /\ V # U => V \in T
    <3>1. SUFFICES ASSUME NEW V \in SUBSET S, V \subseteq U, V # U PROVE V \in T
      OBVIOUS
    <3>2. Cardinality(V) < Cardinality(U)
      BY <1>2, <3>1
    <3>3. Cardinality(V) <= n
      BY <1>1, <2>1, <3>2
    <3>4. QED
      BY <1>4, <3>3
  <2>3. QED
    BY <2>2
<1>5. Nat \subseteq N
  <2> HIDE DEF N
  <2>1. QED
    BY <1>3, <1>4, NumberInduction
<1>6. QED
  BY <1>1, <1>5

-----------------------------------------------------------------------------
(***************************************************************************)
(* Folds.  A fold over a finite set D takes one element at a time out of a *)
(* set, the one that pick says, and applies next to what the rest yields.  *)
(***************************************************************************)
Picks(pick, D) == \A s \in SUBSET D : s # {} => pick[s] \in s

IsFold(g, D, base, next, pick) ==
  \A s \in SUBSET D : g[s] = IF s = {} THEN base ELSE next[<<g[s \ {pick[s]}], pick[s]>>]

LEMMA FoldExists ==
  ASSUME NEW D, IsFiniteSet(D),
         NEW St, NEW base \in St, NEW next \in [St \X D -> St],
         NEW pick, Picks(pick, D)
  PROVE  \E g \in [SUBSET D -> St] : IsFold(g, D, base, next, pick)
<1> DEFINE Small(n) == {s \in SUBSET D : Cardinality(s) <= n}
           Folds(g, n) == \A s \in Small(n) :
                            g[s] = IF s = {} THEN base ELSE next[<<g[s \ {pick[s]}], pick[s]>>]
           N == {n \in Nat : \E g \in [SUBSET D -> St] : Folds(g, n)}
<1>1. \A s \in SUBSET D : /\ IsFiniteSet(s) /\ Cardinality(s) \in Nat
                          /\ \A x \in s : /\ s \ {x} \in SUBSET D
                                          /\ Cardinality(s \ {x}) = Cardinality(s) - 1
                          /\ Cardinality(s) = 0 <=> s = {}
                          /\ Cardinality(s) <= Cardinality(D)
  BY FS_Subset, FS_CardinalityType, FS_RemoveElement, FS_EmptySet
<1>2. 0 \in N
  <2> DEFINE g == [s \in SUBSET D |-> base]
  <2>1. g \in [SUBSET D -> St]
    OBVIOUS
  <2>2. \A s \in Small(0) : s = {}
    BY <1>1
  <2>3. QED
    BY <2>1, <2>2
<1>3. ASSUME NEW n \in Nat, n \in N PROVE n + 1 \in N
  <2>1. PICK g \in [SUBSET D -> St] : Folds(g, n)
    BY <1>3
  <2> DEFINE h == [s \in SUBSET D |-> IF s = {} THEN base
                                      ELSE next[<<g[s \ {pick[s]}], pick[s]>>]]
  <2>2. h \in [SUBSET D -> St]
    <3>1. ASSUME NEW s \in SUBSET D, s # {}
          PROVE  next[<<g[s \ {pick[s]}], pick[s]>>] \in St
      <4>1. pick[s] \in D /\ s \ {pick[s]} \in SUBSET D
        BY <3>1 DEF Picks
      <4>2. g[s \ {pick[s]}] \in St
        BY <4>1
      <4>3. <<g[s \ {pick[s]}], pick[s]>> \in St \X D
        BY <4>1, <4>2
      <4>4. QED
        BY <4>3
    <3>2. QED
      BY <3>1
  <2>3. \A s \in Small(n) : h[s] = g[s]
    BY <2>1
  <2>4. ASSUME NEW s \in Small(n + 1)
        PROVE  h[s] = IF s = {} THEN base ELSE next[<<h[s \ {pick[s]}], pick[s]>>]
    <3>1. CASE s = {}
      BY <3>1
    <3>2. CASE s # {}
      <4>1. pick[s] \in s
        BY <3>2 DEF Picks
      <4>2. s \ {pick[s]} \in Small(n)
        BY <1>1, <4>1
      <4>3. h[s \ {pick[s]}] = g[s \ {pick[s]}]
        BY <2>3, <4>2
      <4>4. h[s] = next[<<g[s \ {pick[s]}], pick[s]>>]
        BY <3>2
      <4>5. QED
        BY <3>2, <4>3, <4>4
    <3>3. QED
      BY <3>1, <3>2
  <2> HIDE DEF h
  <2>5. Folds(h, n + 1)
    BY <2>4
  <2>6. n + 1 \in Nat
    OBVIOUS
  <2>7. \E f \in [SUBSET D -> St] : Folds(f, n + 1)
    BY <2>2, <2>5
  <2> HIDE DEF Folds
  <2>8. QED
    BY <2>6, <2>7
<1>4. Cardinality(D) \in N
  <2>1. Nat \subseteq N
    <3> HIDE DEF N
    <3>1. QED
      BY <1>2, <1>3, NumberInduction
  <2>2. QED
    BY <1>1, <2>1
<1>5. PICK g \in [SUBSET D -> St] : Folds(g, Cardinality(D))
  BY <1>4
<1>6. \A s \in SUBSET D : s \in Small(Cardinality(D))
  BY <1>1
<1>7. IsFold(g, D, base, next, pick)
  BY <1>5, <1>6 DEF IsFold
<1>8. QED
  BY <1>7

\* The elements 1 .. n of a fold that takes the largest first.
LEMMA LargestOfInterval ==
  ASSUME NEW n \in Nat, n # 0
  PROVE  Max(1 .. n) = n /\ (1 .. n) \ {n} = 1 .. (n - 1)
<1>1. n \in 1 .. n /\ \A y \in 1 .. n : n >= y
  OBVIOUS
<1>2. \A x \in 1 .. n : (\A y \in 1 .. n : x >= y) => x = n
  BY <1>1
<1>3. Max(1 .. n) = n
  BY <1>1, <1>2 DEF Max
<1>4. QED
  BY <1>3

LEMMA LargestOfSet ==
  ASSUME NEW n \in Nat, NEW T \in SUBSET (1 .. n), T # {}
  PROVE  Max(T) \in T /\ \A y \in T : Max(T) >= y
<1> DEFINE U == {n - x : x \in T}
<1>1. U \subseteq Nat /\ U # {}
  <2>1. \A x \in T : x \in Int /\ n - x \in Nat
    OBVIOUS
  <2>2. QED
    BY <2>1
<1>2. PICK u \in U : \A y \in U : u <= y
  <2> HIDE DEF U
  <2>1. QED
    BY <1>1, LeastNumber
<1>3. n - u \in T /\ \A y \in T : n - u >= y
  <2>1. PICK x \in T : u = n - x
    OBVIOUS
  <2>2. n - u = x
    BY <2>1
  <2>3. ASSUME NEW y \in T PROVE n - u >= y
    <3>1. u <= n - y
      BY <1>2
    <3>2. QED
      BY <2>1, <3>1
  <2>4. QED
    BY <2>2, <2>3
<1>4. QED
  BY <1>3 DEF Max

-----------------------------------------------------------------------------
(***************************************************************************)
(* Sums.  Total(f, S) is the sum of f[x] over the elements x of S.         *)
(***************************************************************************)
Total(f, S) == MapThenSumSet(LAMBDA x : f[x], S)

\* g[T] is the sum of f over T, whatever is added first.
Sums(g, f, S) ==
  /\ g \in [SUBSET S -> Int]
  /\ g[{}] = 0
  /\ \A T \in SUBSET S : \A x \in T : g[T] = f[x] + g[T \ {x}]

\* The equation of MapThenSumSet.
SumsUp(g, f, S) ==
  g = [T \in SUBSET S |-> IF T = {} THEN 0
                           ELSE f[CHOOSE x \in T : TRUE] + g[T \ {CHOOSE x \in T : TRUE}]]

LEMMA SumsUpExists ==
  ASSUME NEW S, IsFiniteSet(S), NEW f, \A x \in S : f[x] \in Int
  PROVE  \E g \in [SUBSET S -> Int] : SumsUp(g, f, S)
<1> DEFINE next == [p \in Int \X S |-> f[p[2]] + p[1]]
           pick == [T \in SUBSET S |-> CHOOSE x \in T : TRUE]
<1>1. next \in [Int \X S -> Int]
  OBVIOUS
<1>2. Picks(pick, S)
  BY DEF Picks
<1>3. PICK g \in [SUBSET S -> Int] : IsFold(g, S, 0, next, pick)
  <2> HIDE DEF next, pick
  <2>1. 0 \in Int
    OBVIOUS
  <2>2. QED
    BY <1>1, <1>2, <2>1, FoldExists
<1>4. ASSUME NEW T \in SUBSET S, T # {}
      PROVE  g[T] = f[CHOOSE x \in T : TRUE] + g[T \ {CHOOSE x \in T : TRUE}]
  <2> DEFINE y == CHOOSE x \in T : TRUE
  <2>1. y \in T /\ pick[T] = y
    BY <1>4
  <2>2. y \in S /\ g[T \ {y}] \in Int
    BY <2>1
  <2>3. g[T] = next[<<g[T \ {y}], y>>]
    BY <1>3, <1>4, <2>1 DEF IsFold
  <2> HIDE DEF y
  <2>4. next[<<g[T \ {y}], y>>] = f[y] + g[T \ {y}]
    BY <2>2
  <2>5. QED
    BY <2>3, <2>4 DEF y
<1>5. \A T \in SUBSET S : g[T] = IF T = {} THEN 0
                           ELSE f[CHOOSE x \in T : TRUE] + g[T \ {CHOOSE x \in T : TRUE}]
  BY <1>3, <1>4 DEF IsFold
<1>6. SumsUp(g, f, S)
  BY <1>5, Zenon DEF SumsUp
<1>7. QED
  BY <1>6

LEMMA SumsUpSums ==
  ASSUME NEW S, IsFiniteSet(S), NEW f, \A x \in S : f[x] \in Int, NEW g, SumsUp(g, f, S)
  PROVE  Sums(g, f, S)
<1> DEFINE Good == {T \in SUBSET S : /\ g[T] \in Int
                                     /\ \A x \in T : g[T] = f[x] + g[T \ {x}]}
<1>1. \A T \in SUBSET S :
        g[T] = IF T = {} THEN 0
               ELSE f[CHOOSE x \in T : TRUE] + g[T \ {CHOOSE x \in T : TRUE}]
  BY DEF SumsUp
<1>2. \A T \in SUBSET S : (\A U \in SUBSET S : (U \subseteq T /\ U # T) => U \in Good) => T \in Good
  <2>1. SUFFICES ASSUME NEW T \in SUBSET S,
                        \A U \in SUBSET S : (U \subseteq T /\ U # T) => U \in Good
                 PROVE  T \in Good
    OBVIOUS
  <2>2. CASE T = {}
    <3>1. g[T] = 0
      BY <1>1, <2>2
    <3>2. QED
      BY <2>2, <3>1
  <2>3. CASE T # {}
    <3> DEFINE y == CHOOSE x \in T : TRUE
    <3>1. y \in T
      BY <2>3
    <3>2. g[T] = f[y] + g[T \ {y}]
      BY <1>1, <2>3
    <3> HIDE DEF y
    <3>3. \A x \in T : T \ {x} \in Good /\ g[T \ {x}] \in Int /\ f[x] \in Int
      <4>1. TAKE x \in T
      <4>2. T \ {x} \in SUBSET S /\ T \ {x} \subseteq T /\ T \ {x} # T
        OBVIOUS
      <4>3. T \ {x} \in Good
        BY <2>1, <4>2
      <4>4. QED
        BY <4>3
    <3>4. ASSUME NEW x \in T PROVE g[T] = f[x] + g[T \ {x}]
      <4>1. CASE x = y
        BY <3>2, <4>1
      <4>2. CASE x # y
        <5>1. g[T \ {y}] = f[x] + g[(T \ {y}) \ {x}]
          BY <3>1, <3>3, <4>2
        <5>2. g[T \ {x}] = f[y] + g[(T \ {x}) \ {y}]
          BY <3>1, <3>3, <4>2
        <5>3. (T \ {y}) \ {x} = (T \ {x}) \ {y}
          OBVIOUS
        <5> DEFINE r == g[(T \ {x}) \ {y}]
        <5>4. r \in Int
          <6>1. (T \ {x}) \ {y} \in SUBSET S /\ (T \ {x}) \ {y} \subseteq T /\ (T \ {x}) \ {y} # T
            OBVIOUS
          <6>2. QED
            BY <2>1, <6>1
        <5> HIDE DEF r
        <5>5. g[T \ {y}] = f[x] + r /\ g[T \ {x}] = f[y] + r
          BY <5>1, <5>2, <5>3 DEF r
        <5>6. QED
          BY <3>1, <3>2, <3>3, <5>4, <5>5
      <4>3. QED
        BY <4>1, <4>2
    <3>5. g[T] \in Int
      BY <3>1, <3>2, <3>3
    <3>6. QED
      BY <3>4, <3>5
  <2>4. QED
    BY <2>2, <2>3
<1>3. SUBSET S \subseteq Good
  <2> HIDE DEF Good
  <2>1. QED
    BY <1>2, SubsetInduction
<1>4. QED
  BY <1>1, <1>3 DEF Sums, SumsUp

\* Two sums over the same elements are equal, whatever sets they are part of.
LEMMA SumsAgree ==
  ASSUME NEW S, NEW f, NEW g, Sums(g, f, S),
         NEW U, NEW e, NEW h, Sums(h, e, U),
         NEW T, IsFiniteSet(T), T \subseteq S, T \subseteq U, \A x \in T : f[x] = e[x]
  PROVE  g[T] = h[T]
<1> DEFINE Same == {V \in SUBSET T : g[V] = h[V]}
<1>1. {} \in Same
  BY DEF Sums
<1>2. ASSUME NEW V \in SUBSET T, V \in Same, NEW x \in T \ V
      PROVE  V \union {x} \in Same
  <2>1. (V \union {x}) \ {x} = V /\ V \union {x} \in SUBSET T
    OBVIOUS
  <2>2. g[V \union {x}] = f[x] + g[(V \union {x}) \ {x}]
    BY <2>1 DEF Sums
  <2>3. h[V \union {x}] = e[x] + h[(V \union {x}) \ {x}]
    BY <2>1 DEF Sums
  <2>4. g[V] = h[V] /\ f[x] = e[x]
    BY <1>2
  <2>5. QED
    BY <2>1, <2>2, <2>3, <2>4
<1>3. SUBSET T \subseteq Same
  <2> HIDE DEF Same
  <2>1. QED
    BY <1>1, <1>2, SetInduction
<1>4. QED
  BY <1>3

LEMMA TotalSums ==
  ASSUME NEW S, IsFiniteSet(S), NEW f, \A x \in S : f[x] \in Int
  PROVE  \E g : Sums(g, f, S) /\ Total(f, S) = g[S]
<1> DEFINE iter == CHOOSE g : SumsUp(g, f, S)
<1>1. SumsUp(iter, f, S)
  BY SumsUpExists
<1>2. Total(f, S) = iter[S]
  BY DEF Total, MapThenSumSet, MapThenFoldSet, SumsUp
<1>3. QED
  BY <1>1, <1>2, SumsUpSums

\* A total is a number, and any element can be taken out of it.
LEMMA TotalRemove ==
  ASSUME NEW S, IsFiniteSet(S), NEW f, \A x \in S : f[x] \in Int
  PROVE  /\ Total(f, S) \in Int
         /\ S = {} => Total(f, S) = 0
         /\ \A x \in S : Total(f, S) = f[x] + Total(f, S \ {x})
<1>1. PICK g : Sums(g, f, S) /\ Total(f, S) = g[S]
  BY TotalSums
<1>2. ASSUME NEW x \in S PROVE Total(f, S) = f[x] + Total(f, S \ {x})
  <2>1. IsFiniteSet(S \ {x})
    BY FS_RemoveElement
  <2>2. PICK h : Sums(h, f, S \ {x}) /\ Total(f, S \ {x}) = h[S \ {x}]
    BY <2>1, TotalSums
  <2>3. g[S \ {x}] = h[S \ {x}]
    BY <1>1, <2>1, <2>2, SumsAgree
  <2>4. g[S] = f[x] + g[S \ {x}]
    BY <1>1 DEF Sums
  <2>5. QED
    BY <1>1, <2>2, <2>3, <2>4
<1>3. QED
  BY <1>1, <1>2 DEF Sums

LEMMA TotalAdd ==
  ASSUME NEW S, IsFiniteSet(S), NEW x, x \notin S,
         NEW f, \A y \in S \union {x} : f[y] \in Int
  PROVE  Total(f, S \union {x}) = f[x] + Total(f, S)
<1>1. IsFiniteSet(S \union {x}) /\ (S \union {x}) \ {x} = S
  BY FS_AddElement
<1>2. Total(f, S \union {x}) = f[x] + Total(f, (S \union {x}) \ {x})
  BY <1>1, TotalRemove
<1>3. QED
  BY <1>1, <1>2

\* Totals are ordered as their terms are.
LEMMA TotalOrder ==
  ASSUME NEW S, IsFiniteSet(S),
         NEW f, \A x \in S : f[x] \in Int,
         NEW g, \A x \in S : g[x] \in Int /\ f[x] <= g[x]
  PROVE  Total(f, S) <= Total(g, S)
<1> DEFINE Less == {T \in SUBSET S : Total(f, T) <= Total(g, T)}
<1>0. \A T \in SUBSET S : IsFiniteSet(T) /\ Total(f, T) \in Int /\ Total(g, T) \in Int
  <2>1. TAKE T \in SUBSET S
  <2>2. IsFiniteSet(T)
    BY FS_Subset
  <2>3. QED
    BY <2>2, TotalRemove
<1>1. {} \in Less
  <2>1. Total(f, {}) = 0 /\ Total(g, {}) = 0
    BY FS_EmptySet, TotalRemove
  <2>2. QED
    BY <2>1
<1>2. ASSUME NEW T \in SUBSET S, T \in Less, NEW x \in S \ T
      PROVE  T \union {x} \in Less
  <2>1. Total(f, T \union {x}) = f[x] + Total(f, T)
    BY <1>0, TotalAdd
  <2>2. Total(g, T \union {x}) = g[x] + Total(g, T)
    BY <1>0, TotalAdd
  <2>3. Total(f, T) <= Total(g, T) /\ f[x] <= g[x] /\ f[x] \in Int /\ g[x] \in Int
    BY <1>2
  <2>4. QED
    BY <1>0, <2>1, <2>2, <2>3
<1>3. SUBSET S \subseteq Less
  <2> HIDE DEF Less
  <2>1. QED
    BY <1>1, <1>2, SetInduction
<1>4. QED
  BY <1>3

LEMMA TotalEqual ==
  ASSUME NEW S, IsFiniteSet(S),
         NEW f, NEW g, \A x \in S : f[x] \in Int /\ f[x] = g[x]
  PROVE  Total(f, S) = Total(g, S)
<1>1. Total(f, S) \in Int /\ Total(g, S) \in Int
  BY TotalRemove
<1>2. \A x \in S : f[x] <= g[x] /\ g[x] <= f[x] /\ g[x] \in Int
  OBVIOUS
<1>3. Total(f, S) <= Total(g, S) /\ Total(g, S) <= Total(f, S)
  BY <1>2, TotalOrder
<1>4. QED
  BY <1>1, <1>3

\* A sum is at least as many times a lower bound of its terms as it has terms,
\* and more if one of them is above the bound.
LEMMA TotalAbove ==
  ASSUME NEW S, IsFiniteSet(S), NEW f, NEW m \in Int, \A x \in S : f[x] \in Int /\ m <= f[x]
  PROVE  m * Cardinality(S) <= Total(f, S)
<1> DEFINE Less == {T \in SUBSET S : m * Cardinality(T) <= Total(f, T)}
<1>0. \A T \in SUBSET S : IsFiniteSet(T) /\ Total(f, T) \in Int /\ Cardinality(T) \in Nat
  <2>1. TAKE T \in SUBSET S
  <2>2. IsFiniteSet(T)
    BY FS_Subset
  <2>3. QED
    BY <2>2, TotalRemove, FS_CardinalityType
<1>1. {} \in Less
  <2>1. Total(f, {}) = 0 /\ Cardinality({}) = 0
    BY FS_EmptySet, TotalRemove
  <2>2. m * 0 <= 0
    OBVIOUS
  <2>3. QED
    BY <2>1, <2>2
<1>2. ASSUME NEW T \in SUBSET S, T \in Less, NEW x \in S \ T
      PROVE  T \union {x} \in Less
  <2>1. Total(f, T \union {x}) = f[x] + Total(f, T)
    BY <1>0, TotalAdd
  <2>2. Cardinality(T \union {x}) = Cardinality(T) + 1
    BY <1>0, FS_AddElement
  <2>3. /\ m * Cardinality(T) <= Total(f, T) /\ Cardinality(T) \in Nat
        /\ Total(f, T) \in Int /\ f[x] \in Int /\ m <= f[x]
    BY <1>0, <1>2
  <2>4. m * (Cardinality(T) + 1) = m * Cardinality(T) + m
    BY <2>3
  <2>5. m * Cardinality(T) + m <= f[x] + Total(f, T)
    <3> DEFINE a == m * Cardinality(T)
    <3>1. a \in Int
      BY <2>3
    <3> HIDE DEF a
    <3>2. QED
      BY <2>3, <3>1 DEF a
  <2>6. QED
    BY <2>1, <2>2, <2>4, <2>5
<1>3. SUBSET S \subseteq Less
  <2> HIDE DEF Less
  <2>1. QED
    BY <1>1, <1>2, SetInduction
<1>4. QED
  BY <1>3

LEMMA TotalNatural ==
  ASSUME NEW S, IsFiniteSet(S), NEW f, \A x \in S : f[x] \in Nat
  PROVE  Total(f, S) \in Nat
<1>1. PICK m \in Int : m = 0
  OBVIOUS
<1>2. \A x \in S : f[x] \in Int /\ m <= f[x]
  BY <1>1
<1>3. m * Cardinality(S) <= Total(f, S) /\ Cardinality(S) \in Nat /\ Total(f, S) \in Int
  BY <1>2, TotalAbove, TotalRemove, FS_CardinalityType
<1>4. QED
  BY <1>1, <1>3

LEMMA TotalStrictlyAbove ==
  ASSUME NEW S, IsFiniteSet(S), NEW f, NEW m \in Int, \A x \in S : f[x] \in Int /\ m <= f[x],
         NEW y \in S, m < f[y]
  PROVE  m * Cardinality(S) < Total(f, S)
<1> DEFINE R == S \ {y}
           c == Cardinality(R)
<1>1. IsFiniteSet(R) /\ c \in Nat /\ Cardinality(S) = c + 1
  <2>1. IsFiniteSet(R) /\ Cardinality(R) = Cardinality(S) - 1
    BY FS_RemoveElement
  <2>2. Cardinality(R) \in Nat /\ Cardinality(S) \in Nat
    BY <2>1, FS_CardinalityType
  <2>3. QED
    BY <2>1, <2>2
<1>2. Total(f, S) = f[y] + Total(f, R)
  BY TotalRemove
<1>3. m * c <= Total(f, R) /\ Total(f, R) \in Int
  <2>1. \A x \in R : f[x] \in Int /\ m <= f[x]
    OBVIOUS
  <2>2. QED
    BY <1>1, <2>1, TotalAbove, TotalRemove
<1> HIDE DEF c
<1>4. m * (c + 1) = m * c + m /\ m * c \in Int
  BY <1>1
<1>5. m * c + m < f[y] + Total(f, R)
  <2> DEFINE a == m * c
             t == Total(f, R)
  <2>1. a \in Int /\ t \in Int /\ a <= t /\ f[y] \in Int
    BY <1>3, <1>4
  <2> HIDE DEF a, t
  <2>2. a + m < f[y] + t
    BY <2>1
  <2>3. QED
    BY <2>2 DEF a, t
<1>6. QED
  BY <1>1, <1>2, <1>4, <1>5

\* g is f with the values at i and j exchanged.
Exchanged(g, f, S, i, j) ==
  /\ g[i] = f[j] /\ g[j] = f[i]
  /\ \A x \in S \ {i, j} : g[x] = f[x]

\* Exchanging the terms of two elements leaves the total.
LEMMA TotalSwap ==
  ASSUME NEW S, IsFiniteSet(S), NEW f, \A x \in S : f[x] \in Int,
         NEW i \in S, NEW j \in S, NEW g, Exchanged(g, f, S, i, j)
  PROVE  Total(g, S) = Total(f, S)
<1>0. g[i] = f[j] /\ g[j] = f[i] /\ \A x \in S \ {i, j} : g[x] = f[x]
  BY DEF Exchanged
<1>1. CASE i = j
  <2>1. \A x \in S : f[x] \in Int /\ f[x] = g[x]
    BY <1>0, <1>1
  <2>2. QED
    BY <2>1, TotalEqual
<1>2. CASE i # j
  <2> DEFINE R == (S \ {i}) \ {j}
  <2>1. IsFiniteSet(S \ {i}) /\ IsFiniteSet(R)
    BY FS_RemoveElement
  <2>2. \A x \in S : g[x] \in Int
    BY <1>0
  <2>3. Total(f, S) = f[i] + Total(f, S \ {i}) /\ Total(g, S) = g[i] + Total(g, S \ {i})
    BY <2>2, TotalRemove
  <2>4. Total(f, S \ {i}) = f[j] + Total(f, R)
    BY <1>2, <2>1, TotalRemove
  <2>5. Total(g, S \ {i}) = g[j] + Total(g, R)
    BY <1>2, <2>1, <2>2, TotalRemove
  <2>6. Total(f, R) = Total(g, R) /\ Total(f, R) \in Int
    <3>1. \A x \in R : f[x] \in Int /\ f[x] = g[x]
      BY <1>0
    <3>2. QED
      BY <2>1, <3>1, TotalEqual, TotalRemove
  <2>7. QED
    BY <1>0, <2>3, <2>4, <2>5, <2>6
<1>3. QED
  BY <1>1, <1>2

-----------------------------------------------------------------------------
(***************************************************************************)
(* Orders.  R is a strict order on S in which any two elements compare.    *)
(***************************************************************************)
StrictOrder(R, S) ==
  /\ \A x \in S : <<x, x>> \notin R
  /\ \A x, y, z \in S : <<x, y>> \in R /\ <<y, z>> \in R => <<x, z>> \in R
  /\ \A x, y \in S : x # y => <<x, y>> \in R \/ <<y, x>> \in R

Below(x, R, S) == {y \in S : <<y, x>> \in R}

LEMMA RankGrows ==
  ASSUME NEW S, IsFiniteSet(S), NEW R, StrictOrder(R, S),
         NEW x \in S, NEW y \in S, <<x, y>> \in R
  PROVE  /\ Cardinality(Below(x, R, S)) \in Nat /\ Cardinality(Below(y, R, S)) \in Nat
         /\ Cardinality(Below(x, R, S)) < Cardinality(Below(y, R, S))
<1>1. IsFiniteSet(Below(x, R, S)) /\ IsFiniteSet(Below(y, R, S))
  BY FS_Subset DEF Below
<1>2. Cardinality(Below(x, R, S)) \in Nat /\ Cardinality(Below(y, R, S)) \in Nat
  BY <1>1, FS_CardinalityType
<1>3. Below(x, R, S) \subseteq Below(y, R, S)
  BY DEF Below, StrictOrder
<1>4. x \in Below(y, R, S) /\ x \notin Below(x, R, S)
  BY DEF Below, StrictOrder
<1>5. /\ Cardinality(Below(x, R, S)) <= Cardinality(Below(y, R, S))
      /\ Cardinality(Below(y, R, S)) # Cardinality(Below(x, R, S))
  BY <1>1, <1>3, <1>4, FS_Subset
<1>6. QED
  BY <1>2, <1>5

LEMMA RanksDiffer ==
  ASSUME NEW S, IsFiniteSet(S), NEW R, StrictOrder(R, S), NEW x \in S, NEW y \in S,
         Cardinality(Below(x, R, S)) = Cardinality(Below(y, R, S))
  PROVE  x = y
<1>1. SUFFICES ASSUME x # y PROVE FALSE
  OBVIOUS
<1>2. <<x, y>> \in R \/ <<y, x>> \in R
  BY <1>1 DEF StrictOrder
<1>3. CASE <<x, y>> \in R
  <2>1. Cardinality(Below(x, R, S)) < Cardinality(Below(y, R, S))
    BY <1>3, RankGrows
  <2>2. QED
    BY <2>1, <1>3, RankGrows
<1>4. CASE <<y, x>> \in R
  <2>1. Cardinality(Below(y, R, S)) < Cardinality(Below(x, R, S))
    BY <1>4, RankGrows
  <2>2. QED
    BY <2>1, <1>4, RankGrows
<1>5. QED
  BY <1>2, <1>3, <1>4

\* Every number of elements below n is the rank of one of n elements.
LEMMA RankExists ==
  ASSUME NEW S, IsFiniteSet(S), NEW R, StrictOrder(R, S),
         NEW k \in 1 .. Cardinality(S)
  PROVE  \E x \in S : Cardinality(Below(x, R, S)) = k - 1
<1> DEFINE n == Cardinality(S)
           T == 0 .. (n - 1)
           rank == [x \in S |-> Cardinality(Below(x, R, S))]
<1>1. n \in Nat
  BY FS_CardinalityType
<1>2. rank \in [S -> T]
  <2>1. ASSUME NEW x \in S PROVE Cardinality(Below(x, R, S)) \in T
    <3>1. Below(x, R, S) \in SUBSET S /\ x \notin Below(x, R, S)
      BY DEF Below, StrictOrder
    <3>2. /\ IsFiniteSet(Below(x, R, S))
          /\ Cardinality(Below(x, R, S)) <= n
          /\ n # Cardinality(Below(x, R, S))
      BY <3>1, FS_Subset
    <3>3. Cardinality(Below(x, R, S)) \in Nat
      BY <3>2, FS_CardinalityType
    <3>4. QED
      BY <1>1, <3>2, <3>3
  <2>2. QED
    BY <2>1
<1>3. \A x, y \in S : rank[x] = rank[y] => x = y
  BY RanksDiffer
<1>4. IsFiniteSet(T) /\ Cardinality(T) = n
  <2>1. 0 \in Int /\ n - 1 \in Int
    BY <1>1
  <2>2. IsFiniteSet(T) /\ Cardinality(T) = IF 0 > n - 1 THEN 0 ELSE (n - 1) - 0 + 1
    BY <2>1, FS_Interval
  <2>3. QED
    BY <1>1, <2>2
<1> HIDE DEF T, rank
<1>5. rank \in Injection(S, T)
  BY <1>2, <1>3, Fun_IsInj
<1>6. rank \in Surjection(S, T)
  BY <1>4, <1>5, FS_Injection
<1>7. \A t \in T : \E x \in S : rank[x] = t
  BY <1>6, Fun_SurjectionProperties
<1>8. k - 1 \in T
  BY <1>1 DEF T
<1>9. QED
  BY <1>7, <1>8 DEF rank

\* The k-th of the elements of S in s has k - 1 elements below it.
Ranked(s, R, S) ==
  /\ s \in [1 .. Cardinality(S) -> S]
  /\ \A k \in 1 .. Cardinality(S) : Cardinality(Below(s[k], R, S)) = k - 1

\* s lists the elements of S in the order R, each one once.
Lists(s, R, S) ==
  /\ Cardinality(S) \in Nat
  /\ s \in [1 .. Cardinality(S) -> S]
  /\ \A x \in S : \E k \in 1 .. Cardinality(S) : s[k] = x
  /\ \A k, l \in 1 .. Cardinality(S) : k < l => <<s[k], s[l]>> \in R
  /\ \A k, l \in 1 .. Cardinality(S) : s[k] = s[l] => k = l

LEMMA RankedSequence ==
  ASSUME NEW S, IsFiniteSet(S), NEW R, StrictOrder(R, S), NEW s, Ranked(s, R, S)
  PROVE  Lists(s, R, S)
<1> DEFINE n == Cardinality(S)
<1>0. s \in [1 .. n -> S] /\ \A k \in 1 .. n : Cardinality(Below(s[k], R, S)) = k - 1
  BY DEF Ranked
<1>1. n \in Nat
  BY FS_CardinalityType
<1>2. \A k, l \in 1 .. n : s[k] = s[l] => k = l
  BY <1>0, <1>1
<1>3. ASSUME NEW x \in S PROVE \E k \in 1 .. n : s[k] = x
  <2> DEFINE c == Cardinality(Below(x, R, S))
  <2>1. Below(x, R, S) \in SUBSET S /\ x \notin Below(x, R, S)
    BY DEF Below, StrictOrder
  <2>2. IsFiniteSet(Below(x, R, S)) /\ c <= n /\ n # c
    BY <2>1, FS_Subset
  <2>3. c \in Nat
    BY <2>2, FS_CardinalityType
  <2>4. c + 1 \in 1 .. n /\ (c + 1) - 1 = c
    BY <1>1, <2>2, <2>3
  <2>5. Cardinality(Below(s[c + 1], R, S)) = c /\ s[c + 1] \in S
    BY <1>0, <2>4
  <2>6. s[c + 1] = x
    BY <2>5, RanksDiffer
  <2>7. QED
    BY <2>4, <2>6
<1>4. ASSUME NEW k \in 1 .. n, NEW l \in 1 .. n, k < l PROVE <<s[k], s[l]>> \in R
  <2>1. s[k] \in S /\ s[l] \in S /\ s[k] # s[l]
    BY <1>0, <1>2, <1>4
  <2>2. <<s[k], s[l]>> \in R \/ <<s[l], s[k]>> \in R
    BY <2>1 DEF StrictOrder
  <2>3. ASSUME <<s[l], s[k]>> \in R PROVE FALSE
    <3>1. Cardinality(Below(s[l], R, S)) < Cardinality(Below(s[k], R, S))
      BY <2>1, <2>3, RankGrows
    <3>2. l - 1 < k - 1
      BY <1>0, <3>1
    <3>3. QED
      BY <1>1, <1>4, <3>2
  <2>4. QED
    BY <2>2, <2>3
<1>5. QED
  BY <1>0, <1>1, <1>2, <1>3, <1>4 DEF Lists

-----------------------------------------------------------------------------
(***************************************************************************)
(* Counting.                                                               *)
(***************************************************************************)
\* A list without repetitions is as long as the set of its elements.
LEMMA DistinctEntries ==
  ASSUME NEW T, NEW w \in Seq(T), IsInjective(w)
  PROVE  Cardinality(ToSet(w)) = Len(w)
<1> DEFINE n == Len(w)
           R == ToSet(w)
<1>1. n \in Nat /\ DOMAIN w = 1 .. n
  OBVIOUS
<1>2. w \in [1 .. n -> R] /\ \A r \in R : \E k \in 1 .. n : w[k] = r
  BY <1>1 DEF ToSet
<1> HIDE DEF R, n
<1>3. w \in Bijection(1 .. n, R)
  BY <1>2 DEF Bijection, Injection, Surjection
<1>4. ExistsBijection(1 .. n, R)
  BY <1>3 DEF ExistsBijection
<1>5. QED
  BY <1>1, <1>4, FS_CountingElements DEF R, n

Fiber(f, S, b) == {i \in S : f[i] = b}
Tallies(counts, f, S, B) == \A b \in B : counts[b] = Cardinality(Fiber(f, S, b))

\* However the elements of S are dealt out, the shares add up to S.
LEMMA TalliesAddUp ==
  ASSUME NEW S, IsFiniteSet(S), NEW B, IsFiniteSet(B),
         NEW f, \A i \in S : f[i] \in B, NEW counts, Tallies(counts, f, S, B)
  PROVE  Total(counts, B) = Cardinality(S)
<1> DEFINE Share(C) == {i \in S : f[i] \in C}
           T == {C \in SUBSET B : Total(counts, C) = Cardinality(Share(C))}
<1>1. \A C \in SUBSET B : IsFiniteSet(Share(C)) /\ Cardinality(Share(C)) \in Nat
  <2>1. TAKE C \in SUBSET B
  <2>2. Share(C) \in SUBSET S
    OBVIOUS
  <2> HIDE DEF Share
  <2>3. QED
    BY <2>2, FS_Subset, FS_CardinalityType
<1>2. \A b \in B : IsFiniteSet(Fiber(f, S, b)) /\ Cardinality(Fiber(f, S, b)) \in Nat
  <2>1. TAKE b \in B
  <2>2. Fiber(f, S, b) \in SUBSET S
    BY DEF Fiber
  <2>3. QED
    BY <2>2, FS_Subset, FS_CardinalityType
<1>3. \A b \in B : counts[b] \in Int /\ counts[b] = Cardinality(Fiber(f, S, b))
  BY <1>2 DEF Tallies
<1>4. {} \in T
  <2>1. Share({}) = {}
    OBVIOUS
  <2>2. Total(counts, {}) = 0
    BY FS_EmptySet, TotalRemove
  <2>3. QED
    BY <2>1, <2>2, FS_EmptySet
<1>5. \A C \in SUBSET B : C \in T => \A b \in B \ C : C \union {b} \in T
  <2>1. SUFFICES ASSUME NEW C \in SUBSET B, C \in T, NEW b \in B \ C
                 PROVE  C \union {b} \in T
    OBVIOUS
  <2>2. IsFiniteSet(C) /\ \A y \in C \union {b} : counts[y] \in Int
    BY <1>3, FS_Subset
  <2>3. Total(counts, C \union {b}) = counts[b] + Total(counts, C)
    BY <2>2, TotalAdd
  <2>4. /\ Share(C \union {b}) = Share(C) \union Fiber(f, S, b)
        /\ Share(C) \intersect Fiber(f, S, b) = {}
    BY DEF Fiber
  <2>5. Total(counts, C) = Cardinality(Share(C))
    BY <2>1
  <2> HIDE DEF Share
  <2>6. /\ IsFiniteSet(Share(C)) /\ Cardinality(Share(C)) \in Nat
        /\ IsFiniteSet(Fiber(f, S, b)) /\ Cardinality(Fiber(f, S, b)) \in Nat
    BY <1>1, <1>2
  <2>7. Cardinality(Share(C) \union Fiber(f, S, b)) = Cardinality(Share(C)) + Cardinality(Fiber(f, S, b))
    <3>1. Cardinality(Share(C) \union Fiber(f, S, b))
            = Cardinality(Share(C)) + Cardinality(Fiber(f, S, b)) - Cardinality({})
      BY <2>4, <2>6, FS_Union
    <3>2. QED
      BY <2>6, <3>1, FS_EmptySet
  <2>8. counts[b] = Cardinality(Fiber(f, S, b))
    BY <1>3
  <2>8a. Cardinality(Share(C \union {b})) = Cardinality(Share(C) \union Fiber(f, S, b))
    BY <2>4, Zenon
  <2>9. Total(counts, C \union {b}) = Cardinality(Share(C \union {b}))
    BY <2>3, <2>5, <2>6, <2>7, <2>8, <2>8a
  <2>10. QED
    BY <2>9
<1>6. SUBSET B \subseteq T
  <2> HIDE DEF T
  <2>1. QED
    BY <1>4, <1>5, SetInduction
<1>7. Total(counts, B) = Cardinality(Share(B))
  BY <1>6
<1>8. Share(B) = S
  OBVIOUS
<1>9. QED
  BY <1>7, <1>8

-----------------------------------------------------------------------------
(***************************************************************************)
(* Spells.  H[t] is the set of those elements of P that hold at time t; a  *)
(* spell <<p, s, e>> is a longest stretch of time s .. e all through which *)
(* p holds.                                                                *)
(***************************************************************************)
Held(p, t, H) == t \in DOMAIN H /\ p \in H[t]

Spells(H, P) ==
  {e \in P \X (DOMAIN H) \X (DOMAIN H) :
     /\ e[2] <= e[3]
     /\ \A t \in e[2] .. e[3] : Held(e[1], t, H)
     /\ ~ Held(e[1], e[2] - 1, H)
     /\ ~ Held(e[1], e[3] + 1, H)}

\* The times at which an element holds, and those at which it begins to.
Holdings(H, P) == {a \in P \X (DOMAIN H) : a[1] \in H[a[2]]}
Beginnings(H, P) == {a \in Holdings(H, P) : ~ Held(a[1], a[2] - 1, H)}

Covers(e, a) == e[1] = a[1] /\ a[2] \in e[2] .. e[3]

LEMMA SpellFields ==
  ASSUME NEW P, NEW n \in Nat, NEW H \in [1 .. n -> SUBSET P], NEW e \in Spells(H, P)
  PROVE  /\ e[1] \in P /\ e[2] \in 1 .. n /\ e[3] \in 1 .. n /\ e = <<e[1], e[2], e[3]>>
         /\ e[2] \in Int /\ e[3] \in Int /\ e[2] <= e[3]
         /\ \A t \in e[2] .. e[3] : Held(e[1], t, H)
         /\ ~ Held(e[1], e[2] - 1, H) /\ ~ Held(e[1], e[3] + 1, H)
BY DEF Spells

\* Whenever an element holds, it does so in a spell.
LEMMA SpellExists ==
  ASSUME NEW P, NEW n \in Nat, NEW H \in [1 .. n -> SUBSET P], NEW p \in P, NEW t \in 1 .. n, p \in H[t]
  PROVE  \E e \in Spells(H, P) : e[1] = p /\ t \in e[2] .. e[3]
<1> DEFINE Back == {k \in Nat : ~ Held(p, t - k, H)}
           On   == {k \in Nat : ~ Held(p, t + k, H)}
<1>1. DOMAIN H = 1 .. n /\ t \in Nat /\ t >= 1 /\ t <= n
  OBVIOUS
<1>2. t \in Back /\ n \in On
  <2>1. t - t \notin 1 .. n /\ t + n \notin 1 .. n
    BY <1>1
  <2>2. QED
    BY <1>1, <2>1 DEF Held
<1>3. 0 \notin Back /\ 0 \notin On
  <2>1. t - 0 = t /\ t + 0 = t
    BY <1>1
  <2>2. QED
    BY <1>1, <2>1 DEF Held
<1>4. PICK b \in Back : \A k \in Back : b <= k
  <2>1. Back \subseteq Nat /\ Back # {}
    BY <1>2
  <2> HIDE DEF Back
  <2>2. QED
    BY <2>1, LeastNumber
<1>5. PICK c \in On : \A k \in On : c <= k
  <2>1. On \subseteq Nat /\ On # {}
    BY <1>2
  <2> HIDE DEF On
  <2>2. QED
    BY <2>1, LeastNumber
<1> DEFINE s == t - b + 1
           l == t + c - 1
<1>6. /\ b \in Nat /\ c \in Nat /\ b # 0 /\ c # 0 /\ b <= t /\ c <= n
      /\ ~ Held(p, t - b, H) /\ ~ Held(p, t + c, H)
  BY <1>2, <1>3, <1>4, <1>5
<1>7. \A u \in s .. l : Held(p, u, H)
  <2>1. TAKE u \in s .. l
  <2>2. CASE u <= t
    <3>1. t - u \in Nat /\ t - u < b /\ t - (t - u) = u
      BY <1>1, <1>6, <2>2
    <3>2. t - u \notin Back
      BY <1>4, <1>6, <3>1
    <3>3. QED
      BY <3>1, <3>2
  <2>3. CASE ~ (u <= t)
    <3>1. u - t \in Nat /\ u - t < c /\ t + (u - t) = u
      BY <1>1, <1>6, <2>3
    <3>2. \A k \in On : c <= k
      BY <1>5
    <3> HIDE DEF On
    <3>3. u - t \notin On
      BY <1>6, <3>1, <3>2
    <3> USE DEF On
    <3>4. QED
      BY <3>1, <3>3
  <2>4. QED
    BY <2>2, <2>3
<1>8. s \in Int /\ l \in Int /\ s <= t /\ t <= l /\ s - 1 = t - b /\ l + 1 = t + c
  BY <1>1, <1>6
<1> HIDE DEF s, l
<1>9. s \in 1 .. n /\ l \in 1 .. n
  <2>1. s \in s .. l /\ l \in s .. l
    BY <1>8
  <2>2. QED
    BY <1>1, <1>7, <2>1 DEF Held
<1>10. ~ Held(p, s - 1, H) /\ ~ Held(p, l + 1, H)
  BY <1>6, <1>8
<1> DEFINE e == <<p, s, l>>
<1>11. e \in P \X (DOMAIN H) \X (DOMAIN H) /\ e[1] = p /\ e[2] = s /\ e[3] = l
  BY <1>1, <1>9
<1> HIDE DEF e
<1>12. e \in Spells(H, P)
  BY <1>7, <1>8, <1>10, <1>11 DEF Spells
<1>13. t \in e[2] .. e[3]
  BY <1>1, <1>8, <1>11
<1>14. QED
  BY <1>11, <1>12, <1>13

\* Two spells of one element do not overlap.
LEMMA SpellsApart ==
  ASSUME NEW P, NEW n \in Nat, NEW H \in [1 .. n -> SUBSET P],
         NEW e \in Spells(H, P), NEW f \in Spells(H, P), e[1] = f[1],
         NEW t \in Int, t \in e[2] .. e[3], t \in f[2] .. f[3]
  PROVE  e = f
<1>1. /\ e[2] \in Int /\ e[3] \in Int /\ e[2] <= e[3] /\ e = <<e[1], e[2], e[3]>>
      /\ \A u \in e[2] .. e[3] : Held(e[1], u, H)
      /\ ~ Held(e[1], e[2] - 1, H) /\ ~ Held(e[1], e[3] + 1, H)
  BY SpellFields
<1>2. /\ f[2] \in Int /\ f[3] \in Int /\ f[2] <= f[3] /\ f = <<f[1], f[2], f[3]>>
      /\ \A u \in f[2] .. f[3] : Held(e[1], u, H)
      /\ ~ Held(e[1], f[2] - 1, H) /\ ~ Held(e[1], f[3] + 1, H)
  BY SpellFields
<1>3. ~ (e[2] < f[2])
  <2>1. e[2] < f[2] => f[2] - 1 \in e[2] .. e[3]
    BY <1>1, <1>2
  <2>2. QED
    BY <1>1, <1>2, <2>1
<1>4. ~ (f[2] < e[2])
  <2>1. f[2] < e[2] => e[2] - 1 \in f[2] .. f[3]
    BY <1>1, <1>2
  <2>2. QED
    BY <1>1, <1>2, <2>1
<1>5. ~ (e[3] < f[3])
  <2>1. e[3] < f[3] => e[3] + 1 \in f[2] .. f[3]
    BY <1>1, <1>2
  <2>2. QED
    BY <1>1, <1>2, <2>1
<1>6. ~ (f[3] < e[3])
  <2>1. f[3] < e[3] => f[3] + 1 \in e[2] .. e[3]
    BY <1>1, <1>2
  <2>2. QED
    BY <1>1, <1>2, <2>1
<1>7. e[2] = f[2] /\ e[3] = f[3]
  BY <1>1, <1>2, <1>3, <1>4, <1>5, <1>6
<1>8. QED
  BY <1>1, <1>2, <1>7

\* There are as many spells as beginnings.
LEMMA SpellsBegin ==
  ASSUME NEW P, IsFiniteSet(P), NEW n \in Nat, NEW H \in [1 .. n -> SUBSET P]
  PROVE  /\ IsFiniteSet(Holdings(H, P)) /\ IsFiniteSet(Beginnings(H, P)) /\ IsFiniteSet(Spells(H, P))
         /\ Cardinality(Spells(H, P)) = Cardinality(Beginnings(H, P))
<1> DEFINE S == Spells(H, P)
           B == Beginnings(H, P)
           start == [e \in S |-> <<e[1], e[2]>>]
<1>1. DOMAIN H = 1 .. n /\ IsFiniteSet(1 .. n)
  <2>1. 1 \in Int /\ n \in Int
    OBVIOUS
  <2>2. QED
    BY <2>1, FS_Interval
<1>2. IsFiniteSet(Holdings(H, P)) /\ IsFiniteSet(B)
  <2>1. IsFiniteSet(P \X (DOMAIN H))
    BY <1>1, FS_Product
  <2>2. Holdings(H, P) \in SUBSET (P \X (DOMAIN H)) /\ B \in SUBSET (P \X (DOMAIN H))
    BY DEF Holdings, Beginnings
  <2>3. QED
    BY <2>1, <2>2, FS_Subset
<1>3. ASSUME NEW e \in S PROVE start[e] \in B /\ start[e] = <<e[1], e[2]>> /\ e[2] \in e[2] .. e[3]
  <2>0. /\ e[1] \in P /\ e[2] \in 1 .. n /\ ~ Held(e[1], e[2] - 1, H)
        /\ e[2] \in Int /\ e[3] \in Int /\ e[2] <= e[3]
        /\ \A t \in e[2] .. e[3] : Held(e[1], t, H)
    <3> HIDE DEF start, B
    <3>1. QED
      BY SpellFields
  <2>1. e[1] \in P /\ e[2] \in 1 .. n /\ e[2] \in e[2] .. e[3] /\ ~ Held(e[1], e[2] - 1, H)
    BY <2>0
  <2>2. Held(e[1], e[2], H)
    BY <2>0, <2>1
  <2>3. <<e[1], e[2]>> \in B
    BY <1>1, <2>1, <2>2 DEF Held, Beginnings, Holdings
  <2>4. QED
    BY <2>1, <2>3
<1>4. ASSUME NEW e \in S, NEW f \in S, start[e] = start[f] PROVE e = f
  <2>1. e[1] = f[1] /\ e[2] = f[2]
    BY <1>3, <1>4
  <2>2. e[2] \in Int /\ e[2] \in e[2] .. e[3] /\ e[2] \in f[2] .. f[3]
    BY <1>3, <2>1, SpellFields
  <2>3. QED
    BY <2>1, <2>2, SpellsApart
<1>5. ASSUME NEW a \in B PROVE \E e \in S : start[e] = a
  <2>1. /\ a[1] \in P /\ a[2] \in 1 .. n /\ a[1] \in H[a[2]] /\ ~ Held(a[1], a[2] - 1, H)
        /\ a = <<a[1], a[2]>>
    BY <1>1 DEF Beginnings, Holdings
  <2>2. PICK e \in S : e[1] = a[1] /\ a[2] \in e[2] .. e[3]
    BY <2>1, SpellExists
  <2>3. e[2] \in Int /\ e[3] \in Int /\ a[2] \in Int /\ \A u \in e[2] .. e[3] : Held(e[1], u, H)
    <3> HIDE DEF start, B
    <3>1. e[2] \in Int /\ e[3] \in Int /\ \A u \in e[2] .. e[3] : Held(e[1], u, H)
      BY SpellFields
    <3>2. QED
      BY <2>1, <3>1
  <2>4. ~ (e[2] < a[2])
    <3>1. e[2] < a[2] => a[2] - 1 \in e[2] .. e[3]
      BY <2>2, <2>3
    <3>2. QED
      BY <2>1, <2>2, <2>3, <3>1
  <2>5. e[2] = a[2]
    BY <2>2, <2>3, <2>4
  <2>6. QED
    BY <1>3, <2>1, <2>2, <2>5
<1> HIDE DEF B, S
<1>6. start \in [S -> B]
  BY <1>3
<1>6a. (\A e, f \in S : start[e] = start[f] => e = f) /\ \A a \in B : \E e \in S : start[e] = a
  BY <1>4, <1>5
<1> HIDE DEF start
<1>7. start \in Injection(S, B)
  BY <1>6, <1>6a, Fun_IsInj
<1>8. start \in Surjection(S, B)
  BY <1>6, <1>6a DEF Surjection
<1>9. IsFiniteSet(S) /\ Cardinality(S) = Cardinality(B)
  BY <1>2, <1>7, <1>8, FS_Injection
<1>10. QED
  BY <1>2, <1>9 DEF S, B

\* The lengths of the spells; together they are the times anything holds.
Lengths(H, P) == [e \in Spells(H, P) |-> e[3] - e[2] + 1]

LEMMA SpellsLast ==
  ASSUME NEW P, IsFiniteSet(P), NEW n \in Nat, NEW H \in [1 .. n -> SUBSET P]
  PROVE  Total(Lengths(H, P), Spells(H, P)) = Cardinality(Holdings(H, P))
<1> DEFINE S == Spells(H, P)
           A == Holdings(H, P)
           home == [a \in A |-> CHOOSE e \in S : Covers(e, a)]
           len == Lengths(H, P)
<1>1. IsFiniteSet(A) /\ IsFiniteSet(S)
  BY SpellsBegin
<1>2. ASSUME NEW a \in A
      PROVE  /\ a[1] \in P /\ a[2] \in Int /\ a = <<a[1], a[2]>>
             /\ home[a] \in S /\ Covers(home[a], a)
  <2>1. a[1] \in P /\ a[2] \in 1 .. n /\ a[1] \in H[a[2]] /\ a = <<a[1], a[2]>>
    BY DEF Holdings
  <2>2. \E e \in S : Covers(e, a)
    BY <2>1, SpellExists DEF Covers
  <2>3. home[a] = CHOOSE e \in S : Covers(e, a)
    OBVIOUS
  <2> HIDE DEF S, A, home
  <2>4. QED
    BY <2>1, <2>2, <2>3
<1>3. ASSUME NEW e \in S PROVE len[e] = Cardinality(Fiber(home, A, e))
  <2> DEFINE R == e[2] .. e[3]
             F == Fiber(home, A, e)
             at == [t \in R |-> <<e[1], t>>]
  <2>1. /\ e[1] \in P /\ e[2] \in 1 .. n /\ e[3] \in 1 .. n /\ e[2] <= e[3]
        /\ \A t \in R : Held(e[1], t, H)
    BY SpellFields
  <2>2. IsFiniteSet(R) /\ Cardinality(R) = e[3] - e[2] + 1
    <3>1. e[2] \in Int /\ e[3] \in Int /\ ~ (e[2] > e[3])
      BY <2>1
    <3> HIDE DEF S
    <3>2. QED
      BY <3>1, FS_Interval
  <2>3. ASSUME NEW t \in R PROVE at[t] \in F /\ at[t] = <<e[1], t>> /\ t \in Int
    <3>1. t \in Int /\ Held(e[1], t, H)
      BY <2>1
    <3>2. <<e[1], t>> \in A
      BY <2>1, <3>1 DEF Holdings, Held
    <3> DEFINE a == <<e[1], t>>
    <3>3. a[1] = e[1] /\ a[2] = t /\ a \in A
      BY <3>2
    <3> HIDE DEF a
    <3>4. home[a] \in S /\ home[a][1] = e[1] /\ t \in home[a][2] .. home[a][3]
      <4> HIDE DEF S, A, home
      <4>1. QED
        BY <1>2, <3>3 DEF Covers
    <3>5. home[a] = e
      <4> DEFINE f == home[a]
      <4>1. f \in Spells(H, P) /\ f[1] = e[1] /\ t \in f[2] .. f[3] /\ t \in e[2] .. e[3]
        BY <3>4
      <4> HIDE DEF f, home
      <4>2. f = e
        BY <3>1, <4>1, SpellsApart
      <4>3. QED
        BY <4>2 DEF f
    <3>6. at[t] = a
      BY DEF a
    <3> HIDE DEF at, home, A, S, R
    <3>7. QED
      BY <3>1, <3>3, <3>5, <3>6 DEF Fiber, a
  <2>4. ASSUME NEW a \in F PROVE \E t \in R : at[t] = a
    <3>1. a \in A /\ home[a] = e
      BY DEF Fiber
    <3>2. a[2] \in R /\ a[1] = e[1] /\ a = <<a[1], a[2]>>
      <4> HIDE DEF home, A, S
      <4>1. QED
        BY <1>2, <3>1 DEF Covers
    <3>3. at[a[2]] = a
      BY <3>2
    <3>4. QED
      BY <3>2, <3>3
  <2>5. len[e] = Cardinality(R)
    BY <2>2 DEF Lengths
  <2> HIDE DEF F, S, len
  <2>6. at \in [R -> F]
    BY <2>3
  <2>7. (\A t, u \in R : at[t] = at[u] => t = u) /\ \A a \in F : \E t \in R : at[t] = a
    BY <2>3, <2>4
  <2> HIDE DEF at, R
  <2>8. at \in Injection(R, F) /\ at \in Surjection(R, F)
    <3>1. at \in Injection(R, F)
      BY <2>6, <2>7, Fun_IsInj
    <3>2. at \in Surjection(R, F)
      BY <2>6, <2>7 DEF Surjection
    <3>3. QED
      BY <3>1, <3>2
  <2>9. ExistsBijection(R, F)
    <3>1. at \in Bijection(R, F)
      BY <2>8 DEF Bijection
    <3>2. QED
      BY <3>1 DEF ExistsBijection
  <2>10. Cardinality(F) = Cardinality(R)
    BY <2>2, <2>9, FS_Bijection
  <2>11. QED
    BY <2>5, <2>10 DEF F
<1> HIDE DEF S, A, home, len
<1>4. Tallies(len, home, A, S)
  BY <1>3 DEF Tallies
<1>5. \A a \in A : home[a] \in S
  BY <1>2
<1>6. Total(len, S) = Cardinality(A)
  BY <1>1, <1>4, <1>5, TalliesAddUp
<1>7. QED
  BY <1>6 DEF len, S, A

\* The elements of the spells are those that ever hold.
LEMMA SpellElements ==
  ASSUME NEW P, NEW n \in Nat, NEW H \in [1 .. n -> SUBSET P], NEW p
  PROVE  p \in {e[1] : e \in Spells(H, P)} <=> \E t \in 1 .. n : p \in H[t]
<1>1. ASSUME NEW e \in Spells(H, P), p = e[1] PROVE \E t \in 1 .. n : p \in H[t]
  <2>1. e[2] \in 1 .. n /\ e[2] \in e[2] .. e[3]
    BY SpellFields
  <2>2. Held(e[1], e[2], H)
    BY <2>1, SpellFields
  <2>3. QED
    BY <1>1, <2>1, <2>2 DEF Held
<1>2. ASSUME NEW t \in 1 .. n, p \in H[t] PROVE \E e \in Spells(H, P) : p = e[1]
  <2>1. p \in P
    BY <1>2
  <2>2. QED
    BY <1>2, <2>1, SpellExists
<1>3. QED
  BY <1>1, <1>2

\* G is H with one more time, at which the elements of Q hold.
Extends(G, H, Q, n, P) ==
  /\ G \in [1 .. n + 1 -> SUBSET P]
  /\ G[n + 1] = Q
  /\ \A t \in 1 .. n : G[t] = H[t]

\* What held at the last time.
Latest(H, n) == IF n = 0 THEN {} ELSE H[n]

\* Pairing the elements of a finite set with one time leaves their number.
LEMMA StampedCount ==
  ASSUME NEW Q, IsFiniteSet(Q), NEW m
  PROVE  IsFiniteSet(Q \X {m}) /\ Cardinality(Q \X {m}) = Cardinality(Q)
<1> DEFINE stamp == [q \in Q |-> <<q, m>>]
<1>1. stamp \in Injection(Q, Q \X {m})
  <2>1. stamp \in [Q -> Q \X {m}] /\ \A p, q \in Q : stamp[p] = stamp[q] => p = q
    OBVIOUS
  <2> HIDE DEF stamp
  <2>2. QED
    BY <2>1, Fun_IsInj
<1>2. stamp \in Surjection(Q, Q \X {m})
  <2>1. stamp \in [Q -> Q \X {m}]
    OBVIOUS
  <2>2. ASSUME NEW a \in Q \X {m} PROVE \E q \in Q : stamp[q] = a
    <3>1. a[1] \in Q /\ a = <<a[1], m>>
      OBVIOUS
    <3>2. stamp[a[1]] = a
      BY <3>1
    <3>3. QED
      BY <3>1, <3>2
  <2> HIDE DEF stamp
  <2>3. QED
    BY <2>1, <2>2 DEF Surjection
<1>3. ExistsBijection(Q, Q \X {m})
  BY <1>1, <1>2 DEF Bijection, ExistsBijection
<1>4. QED
  BY <1>3, FS_Bijection

\* One more time adds its elements to the holdings, and those of them that did
\* not hold just before to the beginnings.
CountsGrow(G, H, Q, n, P) ==
  /\ Cardinality(Holdings(G, P)) = Cardinality(Holdings(H, P)) + Cardinality(Q)
  /\ Cardinality(Beginnings(G, P)) = Cardinality(Beginnings(H, P)) + Cardinality(Q \ Latest(H, n))

LEMMA HoldingsGrow ==
  ASSUME NEW P, IsFiniteSet(P), NEW n \in Nat, NEW H \in [1 .. n -> SUBSET P],
         NEW Q \in SUBSET P, NEW G, Extends(G, H, Q, n, P)
  PROVE  CountsGrow(G, H, Q, n, P)
<1> DEFINE m == n + 1
           R == Q \ Latest(H, n)
<1>1. /\ m \in Nat /\ 1 .. m = 1 .. n \union {m} /\ m \notin 1 .. n /\ m >= 1
      /\ \A t \in 1 .. n : t - 1 \notin {m} /\ t \in Int /\ m \in 1 .. m
  OBVIOUS
<1>2. /\ DOMAIN H = 1 .. n /\ DOMAIN G = 1 .. m /\ G[m] = Q /\ G \in [1 .. m -> SUBSET P]
      /\ \A t \in 1 .. n : G[t] = H[t]
  BY DEF Extends
<1>2a. m - 1 = n /\ (n \in 1 .. n <=> n # 0)
  OBVIOUS
<1> HIDE DEF m
<1>3. \A p, t : (t \in 1 .. n \/ t + 1 \in 1 .. n) => (Held(p, t, G) <=> Held(p, t, H))
  <2>1. \A t : t + 1 \in 1 .. n /\ t \in 1 .. m => t \in 1 .. n
    BY DEF m
  <2>2. QED
    BY <1>1, <1>2, <2>1 DEF Held
<1>4. Holdings(G, P) = Holdings(H, P) \union (Q \X {m})
  <2>1. \A a : a \in Holdings(G, P) <=> a \in P \X (1 .. m) /\ a[1] \in G[a[2]]
    BY <1>2 DEF Holdings
  <2>2. \A a : a \in Holdings(H, P) <=> a \in P \X (1 .. n) /\ a[1] \in H[a[2]]
    BY <1>2 DEF Holdings
  <2>3. \A a : a \in P \X (1 .. m) <=> a \in P \X (1 .. n) \/ a \in P \X {m}
    BY <1>1
  <2>4. \A a \in P \X (1 .. n) : G[a[2]] = H[a[2]]
    BY <1>2
  <2>5. \A a : a \in P \X {m} => G[a[2]] = Q /\ (a[1] \in Q <=> a \in Q \X {m})
    BY <1>2
  <2>6. \A a : a \in Q \X {m} => a \in P \X {m}
    OBVIOUS
  <2>7. \A a : a \in Holdings(G, P) <=> a \in Holdings(H, P) \/ a \in Q \X {m}
    BY <2>1, <2>2, <2>3, <2>4, <2>5, <2>6
  <2>8. QED
    BY <2>7
<1>5. Beginnings(G, P) = Beginnings(H, P) \union (R \X {m})
  <2>1. \A a : a \in Beginnings(G, P) <=> a \in Holdings(G, P) /\ ~ Held(a[1], a[2] - 1, G)
    BY DEF Beginnings
  <2>2. \A a : a \in Beginnings(H, P) <=> a \in Holdings(H, P) /\ ~ Held(a[1], a[2] - 1, H)
    BY DEF Beginnings
  <2>3. ASSUME NEW a \in Holdings(H, P) PROVE Held(a[1], a[2] - 1, G) <=> Held(a[1], a[2] - 1, H)
    <3>1. a[2] \in 1 .. n
      BY <1>2 DEF Holdings
    <3>2. (a[2] - 1) + 1 \in 1 .. n
      BY <3>1
    <3>3. QED
      BY <1>3, <3>2
  <2>4. ASSUME NEW a \in Q \X {m} PROVE a \in R \X {m} <=> ~ Held(a[1], a[2] - 1, G)
    <3>1. a[1] \in Q /\ a[2] = m /\ a[2] - 1 = n /\ (a \in R \X {m} <=> a[1] \notin Latest(H, n))
      BY <1>2a
    <3>2. Held(a[1], n, G) <=> Held(a[1], n, H)
      <4>1. CASE n = 0
        <5>1. n \notin DOMAIN G /\ n \notin DOMAIN H
          BY <1>2, <4>1
        <5>2. QED
          BY <5>1 DEF Held
      <4>2. CASE n # 0
        BY <1>2a, <1>3, <4>2
      <4>3. QED
        BY <4>1, <4>2
    <3>3. Held(a[1], n, H) <=> a[1] \in Latest(H, n)
      BY <1>2, <1>2a DEF Held, Latest
    <3>4. QED
      BY <3>1, <3>2, <3>3
  <2>5. \A a : a \in R \X {m} => a \in Q \X {m}
    OBVIOUS
  <2>6. \A a : a \in Beginnings(G, P) <=> a \in Beginnings(H, P) \/ a \in R \X {m}
    <3> HIDE DEF R
    <3>1. \A a : a \in Holdings(G, P) <=> a \in Holdings(H, P) \/ a \in Q \X {m}
      BY <1>4
    <3>2. QED
      BY <2>1, <2>2, <2>3, <2>4, <2>5, <3>1
  <2>7. QED
    BY <2>6
<1>6. Holdings(H, P) \intersect (Q \X {m}) = {} /\ Beginnings(H, P) \intersect (R \X {m}) = {}
  <2>1. \A a \in Holdings(H, P) : a[2] # m
    BY <1>1, <1>2 DEF Holdings
  <2>2. Beginnings(H, P) \subseteq Holdings(H, P)
    BY DEF Beginnings
  <2>3. QED
    BY <2>1, <2>2
<1>7. IsFiniteSet(Q) /\ IsFiniteSet(R)
  <2>1. R \in SUBSET P
    OBVIOUS
  <2> HIDE DEF R
  <2>2. QED
    BY <2>1, FS_Subset
<1>8. IsFiniteSet(Holdings(H, P)) /\ IsFiniteSet(Beginnings(H, P))
  BY SpellsBegin
<1> HIDE DEF R
<1>9. /\ IsFiniteSet(Q \X {m}) /\ Cardinality(Q \X {m}) = Cardinality(Q)
      /\ IsFiniteSet(R \X {m}) /\ Cardinality(R \X {m}) = Cardinality(R)
  BY <1>7, StampedCount
<1>10. Cardinality(Holdings(H, P) \union (Q \X {m}))
         = Cardinality(Holdings(H, P)) + Cardinality(Q \X {m}) - Cardinality({})
  BY <1>6, <1>8, <1>9, FS_Union
<1>11. Cardinality(Beginnings(H, P) \union (R \X {m}))
         = Cardinality(Beginnings(H, P)) + Cardinality(R \X {m}) - Cardinality({})
  BY <1>6, <1>8, <1>9, FS_Union
<1>12. /\ Cardinality({}) = 0 /\ Cardinality(Q) \in Nat /\ Cardinality(R) \in Nat
       /\ Cardinality(Holdings(H, P)) \in Nat /\ Cardinality(Beginnings(H, P)) \in Nat
  BY <1>7, <1>8, FS_EmptySet, FS_CardinalityType
<1>13. Cardinality(Holdings(G, P)) = Cardinality(Holdings(H, P)) + Cardinality(Q)
  BY <1>4, <1>9, <1>10, <1>12
<1>14. Cardinality(Beginnings(G, P)) = Cardinality(Beginnings(H, P)) + Cardinality(R)
  BY <1>5, <1>9, <1>11, <1>12
<1>15. QED
  BY <1>13, <1>14 DEF R, CountsGrow

\* Before anything has been recorded there is nothing.
LEMMA NothingHeld ==
  ASSUME NEW P, NEW H, H \in [1 .. 0 -> SUBSET P]
  PROVE  Cardinality(Holdings(H, P)) = 0 /\ Cardinality(Beginnings(H, P)) = 0
<1>1. DOMAIN H = {}
  OBVIOUS
<1>2. Holdings(H, P) = {} /\ Beginnings(H, P) = {}
  BY <1>1 DEF Holdings, Beginnings
<1>3. QED
  BY <1>2, FS_EmptySet

===============================================================================
