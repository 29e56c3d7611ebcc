------------------------ MODULE GroupImbalanceProofs ------------------------
(***************************************************************************)
(* Theorems about GroupImbalance: for any number of groups, CPUs and loads *)
(* and however the CPUs that balance interleave, the imbalance computed    *)
(* from their unlocked readings is bounded, no load is lost, no busy CPU   *)
(* is left idle, and the last group of the ring is the one pulled from.    *)
(***************************************************************************)
EXTENDS GroupImbalance, FiniteSetTheorems, TLAPS

USE DEF At, Out

(***************************************************************************)
(* Folds over finite sets exist and sums are what one expects of them, by  *)
(* descent: a set of subsets has a member of least cardinality.            *)
(***************************************************************************)
\* A set of numbers has a least one.
LEMMA LeastNumber ==
  ASSUME NEW T, T \subseteq Nat, T # {}
  PROVE  \E n \in T : \A m \in T : n <= m
<1>1. PICK n \in T : \A m \in T : <<m, n>> \notin OpToRel(<, Nat)
  BY WFMin, NatLessThanWellFounded, Zenon
<1>2. \A m \in T : ~ (m < n)
  BY <1>1 DEF OpToRel
<1>3. QED
  BY <1>2

\* A set that holds 0, and each number's successor with it, holds all numbers.
LEMMA NumberInduction ==
  ASSUME NEW D, 0 \in D, \A n \in Nat : n \in D => n + 1 \in D
  PROVE  Nat \subseteq D
<1>1. SUFFICES ASSUME NEW k \in Nat, k \notin D
               PROVE  FALSE
  OBVIOUS
<1>2. PICK n \in Nat \ D : \A m \in Nat \ D : n <= m
  <2>1. Nat \ D \subseteq Nat /\ Nat \ D # {}
    BY <1>1
  <2>2. QED
    BY <2>1, LeastNumber, Zenon
<1>3. n - 1 \in Nat /\ n - 1 \in D
  BY <1>2
<1>4. QED
  BY <1>2, <1>3

\* A set of subsets has one that is empty or leaves the set when the element
\* that choose picks is taken from it.
LEMMA LeastSubset ==
  ASSUME NEW S, IsFiniteSet(S), NEW choose,
         \A T \in SUBSET S : T # {} => choose[T] \in T,
         NEW D, D \subseteq SUBSET S, D # {}
  PROVE  \E T \in D : T = {} \/ T \ {choose[T]} \notin D
<1> DEFINE N == {Cardinality(T) : T \in D}
<1>1. \A T \in SUBSET S : IsFiniteSet(T) /\ Cardinality(T) \in Nat
  BY FS_Subset, FS_CardinalityType
<1>2. PICK n \in N : \A m \in N : n <= m
  <2>1. N \subseteq Nat /\ N # {}
    BY <1>1
  <2> HIDE DEF N
  <2>2. QED
    BY <2>1, LeastNumber, Zenon
<1>3. PICK T \in D : Cardinality(T) = n
  BY <1>2
<1>4. T # {} => Cardinality(T \ {choose[T]}) = Cardinality(T) - 1
  BY <1>1, FS_RemoveElement
<1>5. T # {} => ~ (n <= Cardinality(T \ {choose[T]}))
  BY <1>1, <1>3, <1>4
<1>6. T \ {choose[T]} \in D => n <= Cardinality(T \ {choose[T]})
  BY <1>2
<1>7. QED
  BY <1>5, <1>6

\* g is the fold over each subset T of S that MapThenFoldSet defines, which
\* takes choose[T] from T last.
IsFold(g, S, base, op, choose) ==
  g = [T \in SUBSET S |->
         IF T = {} THEN base ELSE op[choose[T]][g[T \ {choose[T]}]]]

\* A fold over the subsets of a finite set, of values of one type, exists: what
\* MapThenFoldSet chooses is a fold.
LEMMA FoldExists ==
  ASSUME NEW S, IsFiniteSet(S), NEW V, NEW base, base \in V,
         NEW op, \A x \in S, v \in V : op[x][v] \in V,
         NEW choose, \A T \in SUBSET S : T # {} => choose[T] \in T
  PROVE  \E g \in [SUBSET S -> V] : IsFold(g, S, base, op, choose)
<1> DEFINE Small(n) == {T \in SUBSET S : Cardinality(T) <= n}
           Folds(g, n) ==
             \A T \in Small(n) :
               g[T] = IF T = {} THEN base
                      ELSE op[choose[T]][g[T \ {choose[T]}]]
           N == {n \in Nat : \E g \in [Small(n) -> V] : Folds(g, n)}
<1>1. \A T \in SUBSET S : IsFiniteSet(T) /\ Cardinality(T) \in Nat
  BY FS_Subset, FS_CardinalityType
<1>2. ASSUME NEW T \in SUBSET S, T # {}
      PROVE  /\ choose[T] \in S
             /\ T \ {choose[T]} \in SUBSET S
             /\ Cardinality(T \ {choose[T]}) = Cardinality(T) - 1
  BY <1>1, <1>2, FS_RemoveElement
<1>3. 0 \in N
  <2> DEFINE g == [T \in Small(0) |-> base]
  <2>1. \A T \in Small(0) : T = {}
    BY <1>1, FS_EmptySet
  <2>2. g \in [Small(0) -> V]
    OBVIOUS
  <2>3. Folds(g, 0)
    BY <2>1
  <2>4. QED
    BY <2>2, <2>3
<1>4. ASSUME NEW n \in Nat, n \in N
      PROVE  n + 1 \in N
  <2>1. PICK g \in [Small(n) -> V] : Folds(g, n)
    BY <1>4
  <2> DEFINE h == [T \in Small(n + 1) |->
                     IF T = {} THEN base
                     ELSE op[choose[T]][g[T \ {choose[T]}]]]
  <2>2. ASSUME NEW T \in Small(n + 1), T # {}
        PROVE  T \ {choose[T]} \in Small(n)
    BY <1>1, <1>2, <2>2
  <2>3. h \in [Small(n + 1) -> V]
    <3>1. ASSUME NEW T \in Small(n + 1), T # {}
          PROVE  op[choose[T]][g[T \ {choose[T]}]] \in V
      <4>1. g[T \ {choose[T]}] \in V
        BY <2>1, <2>2, <3>1
      <4>2. choose[T] \in S
        BY <3>1, <1>2
      <4>3. QED
        BY <4>1, <4>2
    <3>2. QED
      BY <3>1
  <2>4. \A T \in Small(n) : T \in Small(n + 1) /\ h[T] = g[T]
    <3>1. \A T \in Small(n) : T \in Small(n + 1)
      BY <1>1
    <3>2. QED
      BY <3>1, <2>1
  <2>5. Folds(h, n + 1)
    <3>1. ASSUME NEW T \in Small(n + 1), T # {}
          PROVE  h[T] = op[choose[T]][h[T \ {choose[T]}]]
      <4>1. h[T \ {choose[T]}] = g[T \ {choose[T]}]
        BY <2>2, <2>4, <3>1
      <4>2. h[T] = op[choose[T]][g[T \ {choose[T]}]]
        BY <3>1
      <4>3. QED
        BY <4>1, <4>2
    <3>2. \A T \in Small(n + 1) : T = {} => h[T] = base
      OBVIOUS
    <3> HIDE DEF h
    <3>3. QED
      BY <3>1, <3>2
  <2>6. QED
    <3>1. \E f \in [Small(n + 1) -> V] : Folds(f, n + 1)
      <4> HIDE DEF h, Folds, Small
      <4>1. QED
        BY <2>3, <2>5
    <3> HIDE DEF Folds, Small
    <3>2. QED
      BY <3>1
<1>5. Cardinality(S) \in N
  <2>1. Nat \subseteq N
    <3> HIDE DEF N
    <3>1. QED
      BY <1>3, <1>4, NumberInduction, Zenon
  <2>2. QED
    BY <2>1, FS_CardinalityType
<1>6. Small(Cardinality(S)) = SUBSET S
  BY FS_Subset
<1>7. PICK g \in [SUBSET S -> V] : Folds(g, Cardinality(S))
  BY <1>5, <1>6
<1>8. IsFold(g, S, base, op, choose)
  BY <1>6, <1>7 DEF IsFold
<1>9. QED
  BY <1>8

-----------------------------------------------------------------------------
\* MapThenSumSet picks elements with this CHOOSE.  g has the sum of f over each
\* subset of S; SumEquation is the recursive definition the model chooses it
\* by.
Picked(T)    == CHOOSE x \in T : TRUE
IsSum(g, f, S) ==
  /\ g \in [SUBSET S -> Nat]
  /\ g[{}] = 0
  /\ \A T \in SUBSET S : T # {} =>
       g[T] = f[Picked(T)] + g[T \ {Picked(T)}]

SumEquation(g, f, S) ==
  g = [T \in SUBSET S |->
         IF T = {} THEN 0
         ELSE f[CHOOSE x \in T : TRUE] + g[T \ {CHOOSE x \in T : TRUE}]]

\* What is picked of a set is in it.
LEMMA PickedInSet ==
  ASSUME NEW S, NEW T \in SUBSET S, T # {}
  PROVE  Picked(T) \in T /\ Picked(T) \in S
BY DEF Picked

\* LeastSubset for the element that the folds of the model pick.
LEMMA LeastPicked ==
  ASSUME NEW S, IsFiniteSet(S), NEW D, D \subseteq SUBSET S, D # {}
  PROVE  \E T \in D : T = {} \/ T \ {Picked(T)} \notin D
<1>1. PICK choose : choose = [T \in SUBSET S |-> Picked(T)]
  OBVIOUS
<1>2. \A T \in SUBSET S : T # {} => choose[T] \in T
  BY <1>1, PickedInSet
<1>3. \E T \in D : T = {} \/ T \ {choose[T]} \notin D
  BY <1>2, LeastSubset
<1>4. QED
  BY <1>1, <1>3

\* The sums of numbers over the subsets of a finite set exist.
LEMMA SumExists ==
  ASSUME NEW S, IsFiniteSet(S), NEW f, \A x \in S : f[x] \in Nat
  PROVE  \E g : SumEquation(g, f, S)
<1>1. PICK choose : choose = [T \in SUBSET S |-> Picked(T)]
  OBVIOUS
<1>2. PICK op : op = [x \in S |-> [n \in Nat |-> f[x] + n]]
  OBVIOUS
<1>3. \A T \in SUBSET S : T # {} => choose[T] \in T
  BY <1>1, PickedInSet
<1>4. \A x \in S, n \in Nat : op[x][n] \in Nat
  BY <1>2
<1>5. PICK g \in [SUBSET S -> Nat] : IsFold(g, S, 0, op, choose)
  <2>1. PICK V, base : V = Nat /\ base = 0
    OBVIOUS
  <2>2. base \in V /\ \A x \in S, v \in V : op[x][v] \in V
    BY <1>4, <2>1
  <2>3. \E g \in [SUBSET S -> V] : IsFold(g, S, base, op, choose)
    BY <1>3, <2>2, FoldExists, Zenon
  <2>4. QED
    BY <2>1, <2>3
<1>6. ASSUME NEW T \in SUBSET S, T # {}
      PROVE  op[choose[T]][g[T \ {choose[T]}]]
               = f[Picked(T)] + g[T \ {Picked(T)}]
  <2>1. g[T \ {Picked(T)}] \in Nat /\ Picked(T) \in S
    BY <1>6, PickedInSet
  <2>2. QED
    BY <1>1, <1>2, <2>1
<1>7. g = [T \in SUBSET S |->
             IF T = {} THEN 0 ELSE f[Picked(T)] + g[T \ {Picked(T)}]]
  BY <1>5, <1>6 DEF IsFold
<1>8. QED
  BY <1>7 DEF SumEquation, Picked

\* Every function with the recursive equation of a sum gives numbers.
LEMMA SumEquationIsSum ==
  ASSUME NEW S, IsFiniteSet(S), NEW f, \A x \in S : f[x] \in Nat,
         NEW g, SumEquation(g, f, S)
  PROVE  IsSum(g, f, S)
<1>1. /\ g[{}] = 0
      /\ \A T \in SUBSET S : T # {} =>
           g[T] = f[Picked(T)] + g[T \ {Picked(T)}]
  BY DEF SumEquation, Picked
<1>2. \A T \in SUBSET S : g[T] \in Nat
  <2> DEFINE D == {T \in SUBSET S : g[T] \notin Nat}
  <2>1. SUFFICES ASSUME D # {}
                 PROVE  FALSE
    OBVIOUS
  <2>2. PICK T \in D : T = {} \/ T \ {Picked(T)} \notin D
    <3>1. D \subseteq SUBSET S
      OBVIOUS
    <3> HIDE DEF D
    <3>2. QED
      BY <2>1, <3>1, LeastPicked
  <2>3. T # {}
    <3>1. g[{}] \in Nat
      BY <1>1
    <3>2. QED
      BY <3>1
  <2>4. Picked(T) \in S /\ T \ {Picked(T)} \in SUBSET S
    BY <2>3, PickedInSet
  <2>5. f[Picked(T)] \in Nat /\ g[T \ {Picked(T)}] \in Nat
    BY <2>2, <2>3, <2>4
  <2>6. g[T] = f[Picked(T)] + g[T \ {Picked(T)}]
    BY <1>1, <2>3
  <2>7. g[T] \notin Nat
    OBVIOUS
  <2> HIDE DEF D
  <2>8. QED
    BY <2>5, <2>6, <2>7
<1>3. QED
  BY <1>1, <1>2 DEF IsSum, SumEquation

\* Sums of functions that differ in one element differ by as much.
LEMMA SumUpdate ==
  ASSUME NEW S, IsFiniteSet(S), NEW f, \A x \in S : f[x] \in Nat,
         NEW h, \A x \in S : h[x] \in Nat,
         NEW x \in S, \A y \in S \ {x} : f[y] = h[y],
         NEW g1, IsSum(g1, f, S), NEW g2, IsSum(g2, h, S)
  PROVE  g1[S] + h[x] = g2[S] + f[x]
<1> DEFINE Wrong == {T \in SUBSET S :
                       ~ (g1[T] + (IF x \in T THEN h[x] ELSE 0)
                            = g2[T] + (IF x \in T THEN f[x] ELSE 0))}
<1>1. SUFFICES ASSUME Wrong # {}
               PROVE  FALSE
  OBVIOUS
<1>2. /\ g1[{}] = 0 /\ g2[{}] = 0
      /\ \A T \in SUBSET S : T # {} =>
           g1[T] = f[Picked(T)] + g1[T \ {Picked(T)}]
      /\ \A T \in SUBSET S : T # {} =>
           g2[T] = h[Picked(T)] + g2[T \ {Picked(T)}]
  BY DEF IsSum
<1>3. PICK T \in Wrong : T = {} \/ T \ {Picked(T)} \notin Wrong
  <2>1. Wrong \subseteq SUBSET S
    OBVIOUS
  <2> HIDE DEF Wrong
  <2>2. QED
    BY <1>1, <2>1, LeastPicked
<1>4. T # {}
  BY <1>2
<1> DEFINE p == Picked(T)
           U == T \ {p}
<1>5. p \in T /\ p \in S /\ U \in SUBSET S
  BY <1>4, PickedInSet
<1>6. g1[U] + (IF x \in U THEN h[x] ELSE 0)
        = g2[U] + (IF x \in U THEN f[x] ELSE 0)
  BY <1>3, <1>4
<1>7. g1[T] = f[p] + g1[U] /\ g2[T] = h[p] + g2[U]
  BY <1>2, <1>4
<1>8. g1[U] \in Nat /\ g2[U] \in Nat
  BY <1>5 DEF IsSum
<1>9. f[p] \in Nat /\ h[p] \in Nat /\ f[x] \in Nat /\ h[x] \in Nat
  BY <1>5
<1>10. CASE p = x
  <2>1. x \in T /\ x \notin U
    BY <1>5, <1>10
  <2>2. QED
    BY <1>6, <1>7, <1>8, <1>9, <1>10, <2>1
<1>11. CASE p # x
  <2>1. f[p] = h[p] /\ (x \in T <=> x \in U)
    BY <1>5, <1>11
  <2>2. QED
    BY <1>6, <1>7, <1>8, <1>9, <2>1
<1>12. QED
  BY <1>10, <1>11

\* Larger numbers have a larger sum.
LEMMA SumMonotonic ==
  ASSUME NEW S, IsFiniteSet(S), NEW f, \A x \in S : f[x] \in Nat,
         NEW h, \A x \in S : h[x] \in Nat,
         \A x \in S : f[x] <= h[x],
         NEW g1, IsSum(g1, f, S), NEW g2, IsSum(g2, h, S)
  PROVE  g1[S] <= g2[S]
<1> DEFINE Wrong == {T \in SUBSET S : ~ (g1[T] <= g2[T])}
<1>1. SUFFICES ASSUME Wrong # {}
               PROVE  FALSE
  OBVIOUS
<1>2. /\ g1[{}] = 0 /\ g2[{}] = 0
      /\ \A T \in SUBSET S : T # {} =>
           g1[T] = f[Picked(T)] + g1[T \ {Picked(T)}]
      /\ \A T \in SUBSET S : T # {} =>
           g2[T] = h[Picked(T)] + g2[T \ {Picked(T)}]
  BY DEF IsSum
<1>3. PICK T \in Wrong : T = {} \/ T \ {Picked(T)} \notin Wrong
  <2>1. Wrong \subseteq SUBSET S
    OBVIOUS
  <2> HIDE DEF Wrong
  <2>2. QED
    BY <1>1, <2>1, LeastPicked
<1>4. T # {}
  <2>1. g1[{}] <= g2[{}]
    BY <1>2
  <2>2. QED
    BY <2>1
<1> DEFINE p == Picked(T)
           U == T \ {p}
<1>5. p \in S /\ U \in SUBSET S
  BY <1>4, PickedInSet
<1>6. g1[U] <= g2[U] /\ g1[T] = f[p] + g1[U] /\ g2[T] = h[p] + g2[U]
  BY <1>2, <1>3, <1>4
<1>7. /\ g1[U] \in Nat /\ g2[U] \in Nat
      /\ f[p] \in Nat /\ h[p] \in Nat /\ f[p] <= h[p]
  BY <1>5 DEF IsSum
<1>8. ~ (g1[T] <= g2[T])
  BY <1>3
<1> HIDE DEF p, U
<1>9. QED
  BY <1>6, <1>7, <1>8

\* No number is larger than the sum it is in.
LEMMA SumElement ==
  ASSUME NEW S, IsFiniteSet(S), NEW f, \A x \in S : f[x] \in Nat, NEW x \in S,
         NEW g, IsSum(g, f, S)
  PROVE  f[x] <= g[S]
<1> DEFINE h == [y \in S |-> IF y = x THEN 0 ELSE f[y]]
<1>1. (\A y \in S : h[y] \in Nat) /\ h[x] = 0 /\ \A y \in S \ {x} : f[y] = h[y]
  OBVIOUS
<1>2. PICK g2 : IsSum(g2, h, S)
  <2> HIDE DEF h
  <2>1. QED
    BY <1>1, SumExists, SumEquationIsSum
<1>3. g[S] + h[x] = g2[S] + f[x]
  <2> HIDE DEF h
  <2>1. QED
    BY <1>1, <1>2, SumUpdate
<1>4. g[S] \in Nat /\ g2[S] \in Nat /\ f[x] \in Nat
  BY <1>2 DEF IsSum
<1>5. QED
  BY <1>1, <1>3, <1>4

-----------------------------------------------------------------------------
(***************************************************************************)
(* The sums of the model: the load and the tasks of a queue, the load of   *)
(* all queues.                                                             *)
(***************************************************************************)
\* cpu_load and nr_running of a queue, and TotalLoad of the queues r of all
\* CPUs.
Load(q)     == MapThenSumSet(LAMBDA l : l * q[l], Loads)
Nr(q)       == MapThenSumSet(LAMBDA l : q[l], Loads)
RunQueue    == [Loads -> Nat]
RunQueues   == [CPU -> RunQueue]
LoadOf(r)   == [c \in CPU |-> Load(r[c])]
Total(r)    == MapThenSumSet(LAMBDA c : Load(r[c]), CPU)
Weighted(q) == [l \in Loads |-> l * q[l]]

\* The load of the tasks of each weight is a number.
LEMMA WeightedType ==
  ASSUME NEW q \in RunQueue
  PROVE  Weighted(q) \in RunQueue
<1>1. \A l \in Loads : l * q[l] \in Nat
  BY DomainAssumption DEF RunQueue
<1>2. QED
  BY <1>1 DEF Weighted, RunQueue

\* cpu_load, as MapThenSumSet computes it, is the sum over the tasks.
LEMMA LoadIsSum ==
  ASSUME NEW q \in RunQueue
  PROVE  \E g : /\ IsSum(g, Weighted(q), Loads)
                /\ Load(q) = g[Loads]
<1> DEFINE E(g) == g = [T \in SUBSET Loads |->
                          IF T = {} THEN 0
                          ELSE ((CHOOSE x \in T : TRUE)
                                  * q[CHOOSE x \in T : TRUE])
                                 + g[T \ {CHOOSE x \in T : TRUE}]]
           iter == CHOOSE g : E(g)
<1>1. ASSUME NEW g
      PROVE  E(g) <=> SumEquation(g, Weighted(q), Loads)
  <2>1. \A T \in SUBSET Loads : T # {} =>
          Weighted(q)[CHOOSE x \in T : TRUE]
            = (CHOOSE x \in T : TRUE) * q[CHOOSE x \in T : TRUE]
    BY PickedInSet DEF Weighted, Picked
  <2>2. QED
    BY <2>1 DEF SumEquation
<1>2. \E g : E(g)
  <2>1. PICK g : SumEquation(g, Weighted(q), Loads)
    BY WeightedType, DomainAssumption, SumExists DEF RunQueue
  <2> HIDE DEF E
  <2>2. QED
    BY <1>1, <2>1
<1>3. E(iter)
  BY <1>2
<1>4. SumEquation(iter, Weighted(q), Loads)
  BY <1>1, <1>3
<1>5. Load(q) = iter[Loads]
  BY DEF Load, MapThenSumSet, MapThenFoldSet
<1>6. IsSum(iter, Weighted(q), Loads)
  <2> HIDE DEF iter
  <2>1. QED
    BY <1>4, WeightedType, DomainAssumption, SumEquationIsSum DEF RunQueue
<1>7. QED
  BY <1>5, <1>6

\* nr_running, as MapThenSumSet computes it, is the sum over the tasks.
LEMMA NrIsSum ==
  ASSUME NEW q \in RunQueue
  PROVE  \E g : /\ IsSum(g, q, Loads)
                /\ Nr(q) = g[Loads]
<1> DEFINE iter == CHOOSE g : SumEquation(g, q, Loads)
<1>1. SumEquation(iter, q, Loads)
  BY DomainAssumption, SumExists DEF RunQueue
<1>2. IsSum(iter, q, Loads)
  BY <1>1, DomainAssumption, SumEquationIsSum DEF RunQueue
<1>3. Nr(q) = iter[Loads]
  BY DEF Nr, MapThenSumSet, MapThenFoldSet, SumEquation
<1>4. QED
  BY <1>2, <1>3

\* Both are numbers.
LEMMA LoadType ==
  ASSUME NEW q \in RunQueue
  PROVE  Load(q) \in Nat /\ Nr(q) \in Nat
<1>1. Load(q) \in Nat
  BY LoadIsSum DEF IsSum
<1>2. Nr(q) \in Nat
  BY NrIsSum DEF IsSum
<1>3. QED
  BY <1>1, <1>2

\* A task has a load of at least 1.
LEMMA LoadAtLeastNr ==
  ASSUME NEW q \in RunQueue
  PROVE  Nr(q) <= Load(q)
<1>1. PICK g : IsSum(g, Weighted(q), Loads) /\ Load(q) = g[Loads]
  BY LoadIsSum
<1>2. PICK h : IsSum(h, q, Loads) /\ Nr(q) = h[Loads]
  BY NrIsSum
<1>3. \A l \in Loads : q[l] <= Weighted(q)[l]
  <2>1. ASSUME NEW l \in Loads
        PROVE  q[l] <= l * q[l]
    <3>1. l \in Nat /\ l >= 1 /\ q[l] \in Nat
      BY DomainAssumption DEF RunQueue
    <3>2. QED
      BY <3>1
  <2>2. QED
    BY <2>1 DEF Weighted
<1>4. Weighted(q) \in [Loads -> Nat] /\ q \in [Loads -> Nat]
  BY WeightedType DEF RunQueue
<1>5. h[Loads] <= g[Loads]
  BY <1>1, <1>2, <1>3, <1>4, DomainAssumption, SumMonotonic
<1>6. QED
  BY <1>1, <1>2, <1>5

\* An idle CPU has no load.
LEMMA NoTaskNoLoad ==
  ASSUME NEW q \in RunQueue, Nr(q) = 0
  PROVE  Load(q) = 0
<1>1. PICK h : IsSum(h, q, Loads) /\ Nr(q) = h[Loads]
  BY NrIsSum
<1>2. \A l \in Loads : q[l] <= h[Loads]
  BY <1>1, DomainAssumption, SumElement DEF RunQueue
<1>3. \A l \in Loads : q[l] = 0
  BY <1>1, <1>2 DEF RunQueue
<1>4. \A l \in Loads : l * q[l] = 0
  BY <1>3, DomainAssumption
<1>5. Weighted(q) = [l \in Loads |-> 0]
  BY <1>4 DEF Weighted
<1> DEFINE zero == [T \in SUBSET Loads |-> 0]
<1>6. IsSum(zero, Weighted(q), Loads)
  <2>1. \A T \in SUBSET Loads : T # {} =>
          Picked(T) \in Loads /\ T \ {Picked(T)} \in SUBSET Loads
    BY PickedInSet
  <2>2. QED
    BY <1>5, <2>1 DEF IsSum
<1>7. PICK g : IsSum(g, Weighted(q), Loads) /\ Load(q) = g[Loads]
  BY LoadIsSum
<1>8. g[Loads] = zero[Loads]
  <2> HIDE DEF zero
  <2>1. Weighted(q) \in [Loads -> Nat]
    BY WeightedType DEF RunQueue
  <2>2. g[Loads] <= zero[Loads] /\ zero[Loads] <= g[Loads]
    <3>1. \A l \in Loads : Weighted(q)[l] <= Weighted(q)[l]
      BY <2>1
    <3>2. QED
      BY <1>6, <1>7, <2>1, <3>1, DomainAssumption, SumMonotonic
  <2>3. g[Loads] \in Nat /\ zero[Loads] \in Nat
    BY <1>6, <1>7 DEF IsSum
  <2>4. QED
    BY <2>2, <2>3
<1>9. QED
  BY <1>7, <1>8

\* Queues that differ in the tasks of one load differ by their load.
LEMMA LoadChanged ==
  ASSUME NEW q \in RunQueue, NEW p \in RunQueue, NEW l \in Loads,
         \A k \in Loads \ {l} : q[k] = p[k]
  PROVE  Load(q) + l * p[l] = Load(p) + l * q[l]
<1>1. PICK g : IsSum(g, Weighted(q), Loads) /\ Load(q) = g[Loads]
  BY LoadIsSum
<1>2. PICK h : IsSum(h, Weighted(p), Loads) /\ Load(p) = h[Loads]
  BY LoadIsSum
<1>3. Weighted(q) \in [Loads -> Nat] /\ Weighted(p) \in [Loads -> Nat]
  BY WeightedType DEF RunQueue
<1>4. \A k \in Loads \ {l} : Weighted(q)[k] = Weighted(p)[k]
  BY DEF Weighted
<1>5. g[Loads] + Weighted(p)[l] = h[Loads] + Weighted(q)[l]
  <2>1. IsFiniteSet(Loads)
    BY DomainAssumption
  <2>2. PICK f1 \in [Loads -> Nat] : f1 = Weighted(q)
    BY <1>3
  <2>3. PICK f2 \in [Loads -> Nat] : f2 = Weighted(p)
    BY <1>3
  <2>4. IsSum(g, f1, Loads) /\ IsSum(h, f2, Loads)
    BY <1>1, <1>2, <2>2, <2>3
  <2>5. \A k \in Loads \ {l} : f1[k] = f2[k]
    BY <1>4, <2>2, <2>3
  <2>6. g[Loads] + f2[l] = h[Loads] + f1[l]
    BY <2>1, <2>4, <2>5, SumUpdate
  <2>7. QED
    BY <2>2, <2>3, <2>6
<1>6. QED
  BY <1>1, <1>2, <1>5 DEF Weighted

\* The loads of all CPUs are numbers.
LEMMA LoadOfType ==
  ASSUME NEW r \in RunQueues
  PROVE  LoadOf(r) \in [CPU -> Nat]
BY LoadType DEF LoadOf, RunQueues

\* TotalLoad, as MapThenSumSet computes it, is the sum over the CPUs.
LEMMA TotalIsSum ==
  ASSUME NEW r \in RunQueues
  PROVE  \E g : IsSum(g, LoadOf(r), CPU) /\ Total(r) = g[CPU]
<1> DEFINE E(g) == g = [T \in SUBSET CPU |->
                          IF T = {} THEN 0
                          ELSE Load(r[CHOOSE x \in T : TRUE])
                                 + g[T \ {CHOOSE x \in T : TRUE}]]
           iter == CHOOSE g : E(g)
<1>1. ASSUME NEW g
      PROVE  E(g) <=> SumEquation(g, LoadOf(r), CPU)
  <2>1. \A T \in SUBSET CPU : T # {} =>
          LoadOf(r)[CHOOSE x \in T : TRUE] = Load(r[CHOOSE x \in T : TRUE])
    BY PickedInSet DEF LoadOf, Picked
  <2>2. QED
    BY <2>1 DEF SumEquation
<1>2. \E g : E(g)
  <2>1. PICK g : SumEquation(g, LoadOf(r), CPU)
    BY LoadOfType, DomainAssumption, SumExists
  <2> HIDE DEF E
  <2>2. QED
    BY <1>1, <2>1
<1>3. E(iter)
  BY <1>2
<1>4. SumEquation(iter, LoadOf(r), CPU)
  BY <1>1, <1>3
<1>5. Total(r) = iter[CPU]
  BY DEF Total, MapThenSumSet, MapThenFoldSet
<1>6. IsSum(iter, LoadOf(r), CPU)
  <2> HIDE DEF iter
  <2>1. QED
    BY <1>4, LoadOfType, DomainAssumption, SumEquationIsSum
<1>7. QED
  BY <1>5, <1>6

\* It is a number and no CPU has more.
LEMMA TotalType ==
  ASSUME NEW r \in RunQueues
  PROVE  /\ Total(r) \in Nat
         /\ \A c \in CPU : Load(r[c]) \in 0 .. Total(r)
<1>1. PICK g : IsSum(g, LoadOf(r), CPU) /\ Total(r) = g[CPU]
  BY TotalIsSum
<1>2. PICK f \in [CPU -> Nat] : f = LoadOf(r)
  BY LoadOfType
<1>3. \A c \in CPU : f[c] <= g[CPU]
  BY <1>1, <1>2, DomainAssumption, SumElement
<1>4. Total(r) \in Nat
  BY <1>1 DEF IsSum
<1>5. \A c \in CPU : f[c] = Load(r[c])
  BY <1>2 DEF LoadOf
<1>6. QED
  BY <1>1, <1>2, <1>3, <1>4, <1>5

\* When one queue changes, the total changes by its load.
LEMMA TotalChanged ==
  ASSUME NEW r \in RunQueues, NEW t \in RunQueues, NEW c \in CPU,
         \A d \in CPU \ {c} : r[d] = t[d]
  PROVE  Total(r) + Load(t[c]) = Total(t) + Load(r[c])
<1>1. PICK g : IsSum(g, LoadOf(r), CPU) /\ Total(r) = g[CPU]
  BY TotalIsSum
<1>2. PICK h : IsSum(h, LoadOf(t), CPU) /\ Total(t) = h[CPU]
  BY TotalIsSum
<1>3. PICK f1 \in [CPU -> Nat] : f1 = LoadOf(r)
  BY LoadOfType
<1>4. PICK f2 \in [CPU -> Nat] : f2 = LoadOf(t)
  BY LoadOfType
<1>5. \A d \in CPU \ {c} : f1[d] = f2[d]
  BY <1>3, <1>4 DEF LoadOf
<1>6. g[CPU] + f2[c] = h[CPU] + f1[c]
  <2>1. IsSum(g, f1, CPU) /\ IsSum(h, f2, CPU)
    BY <1>1, <1>2, <1>3, <1>4
  <2>2. IsFiniteSet(CPU)
    BY DomainAssumption
  <2>3. QED
    BY <1>5, <2>1, <2>2, SumUpdate
<1>7. f1[c] = Load(r[c]) /\ f2[c] = Load(t[c])
  BY <1>3, <1>4 DEF LoadOf
<1>8. QED
  BY <1>1, <1>2, <1>6, <1>7

Moved(r, s, d, l) == [r EXCEPT ![s][l] = @ - 1, ![d][l] = @ + 1]

\* A task that detach_tasks moves to another queue takes its load along.
LEMMA TotalMoved ==
  ASSUME NEW r \in RunQueues, NEW s \in CPU, NEW d \in CPU, s # d,
         NEW l \in Loads, r[s][l] > 0,
         NEW t, t = Moved(r, s, d, l)
  PROVE  t \in RunQueues /\ Total(t) = Total(r)
<1> DEFINE less == [r[s] EXCEPT ![l] = @ - 1]
           more == [r[d] EXCEPT ![l] = @ + 1]
           u    == [r EXCEPT ![s] = less]
<1>1. less \in RunQueue /\ more \in RunQueue
  BY DEF RunQueues, RunQueue
<1>2. t = [u EXCEPT ![d] = more]
  BY DEF Moved, RunQueues, RunQueue
<1>3. u \in RunQueues /\ t \in RunQueues
  BY <1>1, <1>2 DEF RunQueues
<1>4. Load(r[s]) = Load(less) + l
  <2>1. Load(r[s]) + l * less[l] = Load(less) + l * r[s][l]
    <3>1. r[s] \in RunQueue /\ \A k \in Loads \ {l} : r[s][k] = less[k]
      BY DEF RunQueues, RunQueue
    <3> HIDE DEF less
    <3>2. QED
      BY <1>1, <3>1, LoadChanged
  <2>2. less[l] = r[s][l] - 1 /\ r[s][l] \in Nat /\ l \in Nat
    BY DomainAssumption DEF RunQueues, RunQueue
  <2>3. l * less[l] = l * r[s][l] - l
    BY <2>2
  <2>4. Load(r[s]) \in Nat /\ Load(less) \in Nat /\ l * r[s][l] \in Nat
    BY <1>1, <2>2, LoadType DEF RunQueues
  <2>5. PICK a, b, w, v : /\ a = l * less[l] /\ b = l * r[s][l]
                          /\ w = Load(r[s]) /\ v = Load(less)
    OBVIOUS
  <2> HIDE DEF less
  <2>6. /\ w + a = v + b /\ a = b - l
        /\ l \in Nat /\ w \in Nat /\ v \in Nat /\ b \in Nat
    BY <2>1, <2>2, <2>3, <2>4, <2>5
  <2>7. w = v + l
    BY <2>6
  <2>8. QED
    BY <2>5, <2>7
<1>5. Load(more) = Load(r[d]) + l
  <2>1. Load(r[d]) + l * more[l] = Load(more) + l * r[d][l]
    <3>1. r[d] \in RunQueue /\ \A k \in Loads \ {l} : r[d][k] = more[k]
      BY DEF RunQueues, RunQueue
    <3> HIDE DEF more
    <3>2. QED
      BY <1>1, <3>1, LoadChanged
  <2>2. more[l] = r[d][l] + 1 /\ r[d][l] \in Nat /\ l \in Nat
    BY DomainAssumption DEF RunQueues, RunQueue
  <2>3. l * more[l] = l * r[d][l] + l
    BY <2>2
  <2>4. Load(r[d]) \in Nat /\ Load(more) \in Nat /\ l * r[d][l] \in Nat
    BY <1>1, <2>2, LoadType DEF RunQueues
  <2>5. PICK a, b, w, v : /\ a = l * more[l] /\ b = l * r[d][l]
                          /\ w = Load(r[d]) /\ v = Load(more)
    OBVIOUS
  <2> HIDE DEF more
  <2>6. /\ w + a = v + b /\ a = b + l
        /\ l \in Nat /\ w \in Nat /\ v \in Nat /\ b \in Nat
    BY <2>1, <2>2, <2>3, <2>4, <2>5
  <2>7. v = w + l
    BY <2>6
  <2>8. QED
    BY <2>5, <2>7
<1>6. Total(r) + Load(less) = Total(u) + Load(r[s])
  <2>1. u[s] = less /\ \A c \in CPU \ {s} : r[c] = u[c]
    BY DEF RunQueues
  <2> HIDE DEF u, less
  <2>2. QED
    BY <1>3, <2>1, TotalChanged
<1>7. Total(u) + Load(more) = Total(t) + Load(r[d])
  <2>1. t[d] = more /\ u[d] = r[d] /\ \A c \in CPU \ {d} : u[c] = t[c]
    <3>1. DOMAIN u = CPU
      BY DEF RunQueues
    <3>2. u[d] = r[d]
      BY DEF RunQueues
    <3> HIDE DEF u, more
    <3>3. QED
      BY <1>2, <3>1, <3>2
  <2> HIDE DEF u, more
  <2>2. Total(u) + Load(t[d]) = Total(t) + Load(u[d])
    BY <1>3, <2>1, TotalChanged
  <2>3. QED
    BY <2>1, <2>2
<1>8. /\ Total(r) \in Nat /\ Total(u) \in Nat /\ Total(t) \in Nat
      /\ Load(less) \in Nat /\ Load(more) \in Nat
      /\ Load(r[s]) \in Nat /\ Load(r[d]) \in Nat /\ l \in Nat
  <2>1. Load(r[s]) \in Nat /\ Load(r[d]) \in Nat
    BY LoadType DEF RunQueues
  <2> HIDE DEF u, less, more
  <2>2. QED
    BY <1>1, <1>3, <2>1, LoadType, TotalType, DomainAssumption
<1> HIDE DEF u, less, more
<1>9. QED
  BY <1>3, <1>4, <1>5, <1>6, <1>7, <1>8

-----------------------------------------------------------------------------
(***************************************************************************)
(* The group chosen.                                                       *)
(***************************************************************************)
\* A finite set of numbers holds its least and its greatest element.
LEMMA MinMax ==
  ASSUME NEW n \in Nat, NEW S, S \subseteq 0 .. n, S # {}
  PROVE  /\ Min(S) \in S /\ \A x \in S : Min(S) <= x
         /\ Max(S) \in S /\ \A x \in S : Max(S) >= x
<1>1. \E x \in S : \A y \in S : x <= y
  <2>1. S \subseteq Nat
    OBVIOUS
  <2>2. QED
    BY <2>1, LeastNumber
<1>2. \E x \in S : \A y \in S : x >= y
  <2> DEFINE B == {b \in Nat : \A y \in S : y <= b}
  <2>1. PICK b \in B : \A a \in B : b <= a
    <3>1. n \in B
      OBVIOUS
    <3>2. B \subseteq Nat /\ B # {}
      BY <3>1
    <3> HIDE DEF B
    <3>3. QED
      BY <3>2, LeastNumber
  <2>2. b \in S
    <3>1. SUFFICES ASSUME b \notin S
                   PROVE  FALSE
      OBVIOUS
    <3>2. \A y \in S : y \in Nat /\ y <= b /\ y # b
      BY <2>1, <3>1
    <3>3. b \in Nat /\ b > 0
      <4>1. PICK y \in S : y <= b /\ y # b /\ y \in Nat
        BY <3>2
      <4>2. QED
        BY <2>1, <4>1
    <3>4. \A y \in S : y <= b - 1
      BY <3>2, <3>3
    <3>5. b - 1 \in B
      BY <3>3, <3>4
    <3>6. QED
      BY <2>1, <3>3, <3>5
  <2>3. QED
    BY <2>2
<1>3. Min(S) \in S /\ \A x \in S : Min(S) <= x
  BY <1>1 DEF Min
<1>4. Max(S) \in S /\ \A x \in S : Max(S) >= x
  BY <1>2 DEF Max
<1>5. QED
  BY <1>3, <1>4

\* The candidates of the fold: none, or another group than that of c, with its
\* statistics; Kept is what it keeps of candidate b and the k-th group of the
\* ring.
Position   == 1 .. NrGroups - 1
NoGroup    == [group |-> 0, stats |-> NoStats]
Chosen(c, g) == [group |-> g, stats |-> sg_lb_stats(c, g)]
Candidates(c) == {NoGroup} \cup {Chosen(c, g) : g \in Group \ {GroupOf[c]}}
Kept(c, k, b) ==
  IF update_sd_pick_busiest(sg_lb_stats(c, Others(GroupOf[c])[k]), b.stats)
  THEN Chosen(c, Others(GroupOf[c])[k]) ELSE b

\* The ring never comes back to the local group.
LEMMA OthersType ==
  ASSUME NEW c \in CPU, NEW k \in Position
  PROVE  Others(GroupOf[c])[k] \in Group \ {GroupOf[c]}
<1>1. /\ NrGroups \in Nat /\ NrGroups > 0
      /\ GroupOf[c] \in Int /\ 1 <= GroupOf[c] /\ GroupOf[c] <= NrGroups
      /\ k \in Int /\ 1 <= k /\ k <= NrGroups - 1
  BY DomainAssumption DEF Group, CPU, Position
<1>2. PICK m \in Int : m = (GroupOf[c] - 1 + k) % NrGroups
  BY <1>1
<1>3. 0 <= m /\ m < NrGroups
  BY <1>1, <1>2
<1>4. m # GroupOf[c] - 1
  <2>1. PICK a \in Int : a = GroupOf[c] - 1 + k
    BY <1>1
  <2>2. a >= 0 /\ a < 2 * NrGroups /\ m = a % NrGroups
    BY <1>1, <1>2, <2>1
  <2>3. CASE a < NrGroups
    BY <1>1, <2>1, <2>2, <2>3
  <2>4. CASE a >= NrGroups
    <3>1. m = a - NrGroups
      BY <1>1, <2>2, <2>4
    <3>2. QED
      BY <1>1, <2>1, <3>1
  <2>5. QED
    BY <1>1, <2>3, <2>4
<1>5. Others(GroupOf[c])[k] = m + 1
  BY <1>2 DEF Others, Position
<1>6. QED
  BY <1>1, <1>3, <1>4, <1>5 DEF Group

\* The last position of a part of the ring is in it.
LEMMA MaxPosition ==
  ASSUME NEW T \in SUBSET Position, T # {}
  PROVE  Max(T) \in T
<1>1. NrGroups - 1 \in Nat /\ T \subseteq 0 .. (NrGroups - 1)
  BY DomainAssumption DEF Position
<1>2. QED
  BY <1>1, MinMax

\* Busiest, as FoldLeft computes it, goes through the ring from its start and
\* keeps a group or the one before, beginning with none.
LEMMA BusiestFold ==
  ASSUME NEW c \in CPU
  PROVE  \E g \in [SUBSET Position -> Candidates(c)] :
           /\ g[{}] = NoGroup
           /\ \A T \in SUBSET Position : T # {} =>
                g[T] = Kept(c, Max(T), g[T \ {Max(T)}])
           /\ Busiest(c) = g[Position]
<1> DEFINE E(g) == g = [T \in SUBSET Position |->
                          IF T = {} THEN NoGroup
                          ELSE Kept(c, Max(T), g[T \ {Max(T)}])]
           iter == CHOOSE g : E(g)
<1>1. \A k \in Position, b \in Candidates(c) : Kept(c, k, b) \in Candidates(c)
  BY OthersType DEF Kept, Candidates
<1>2. PICK op : op = [k \in Position |->
                        [b \in Candidates(c) |-> Kept(c, k, b)]]
  OBVIOUS
<1>3. PICK max : /\ max = [T \in SUBSET Position |-> Max(T)]
                 /\ \A T \in SUBSET Position : T # {} => max[T] \in T
  <2> DEFINE max == [T \in SUBSET Position |-> Max(T)]
  <2>1. \A T \in SUBSET Position : T # {} => max[T] \in T
    BY MaxPosition
  <2> HIDE DEF max
  <2>2. QED
    BY <2>1 DEF max
<1>4. IsFiniteSet(Position)
  BY FS_Interval, DomainAssumption DEF Position
<1>5. NoGroup \in Candidates(c)
  BY DEF Candidates
<1>6. PICK g \in [SUBSET Position -> Candidates(c)] :
        IsFold(g, Position, NoGroup, op, max)
  <2>1. \A k \in Position, b \in Candidates(c) : op[k][b] \in Candidates(c)
    BY <1>1, <1>2
  <2>2. PICK P, V, none : P = Position /\ V = Candidates(c) /\ none = NoGroup
    OBVIOUS
  <2>3. /\ IsFiniteSet(P) /\ none \in V /\ \A k \in P, b \in V : op[k][b] \in V
        /\ \A T \in SUBSET P : T # {} => max[T] \in T
    BY <1>3, <1>4, <1>5, <2>1, <2>2
  <2>4. PICK g \in [SUBSET P -> V] : IsFold(g, P, none, op, max)
    BY <2>3, FoldExists
  <2>5. /\ g \in [SUBSET Position -> Candidates(c)]
        /\ IsFold(g, Position, NoGroup, op, max)
    BY <2>2, <2>4
  <2>6. QED
    BY <2>5
<1>7. E(g)
  <2>1. ASSUME NEW T \in SUBSET Position, T # {}
        PROVE  op[max[T]][g[T \ {max[T]}]] = Kept(c, Max(T), g[T \ {Max(T)}])
    <3>1. max[T] = Max(T) /\ Max(T) \in Position
      BY <1>3, <2>1, MaxPosition
    <3>2. g[T \ {Max(T)}] \in Candidates(c)
      OBVIOUS
    <3>3. QED
      BY <1>2, <3>1, <3>2
  <2>2. QED
    BY <1>6, <2>1 DEF IsFold
<1>8. E(iter)
  <2> HIDE DEF E
  <2>1. QED
    BY <1>7
<1>9. Busiest(c) = iter[Position]
  <2>1. DOMAIN Others(GroupOf[c]) = Position
    BY DEF Others, Position
  <2>2. QED
    BY <2>1 DEF Busiest, FoldLeft, MapThenFoldSet, Kept, Chosen, NoGroup
<1> HIDE DEF iter
<1>10. iter \in [SUBSET Position -> Candidates(c)]
  <2> DEFINE D == {T \in SUBSET Position : iter[T] \notin Candidates(c)}
  <2>1. SUFFICES ASSUME D # {}
                 PROVE  FALSE
    BY <1>8
  <2>2. PICK T \in D : T = {} \/ T \ {max[T]} \notin D
    <3>1. D \subseteq SUBSET Position
      OBVIOUS
    <3> HIDE DEF D
    <3>2. PICK P : P = Position
      OBVIOUS
    <3>3. /\ IsFiniteSet(P) /\ D \subseteq SUBSET P
          /\ \A T \in SUBSET P : T # {} => max[T] \in T
      BY <1>3, <1>4, <3>1, <3>2
    <3>4. QED
      BY <2>1, <3>3, LeastSubset
  <2>3. T # {}
    BY <1>5, <1>8
  <2>4. iter[T \ {Max(T)}] \in Candidates(c)
    BY <1>3, <2>2, <2>3
  <2>5. Max(T) \in Position
    BY <2>3, MaxPosition
  <2>6. iter[T] = Kept(c, Max(T), iter[T \ {Max(T)}])
    BY <1>8, <2>3
  <2>7. QED
    BY <1>1, <2>4, <2>5, <2>6
<1>11. QED
  BY <1>8, <1>9, <1>10

-----------------------------------------------------------------------------
(***************************************************************************)
(* The inductive invariant: the types, the bound on the imbalance and that *)
(* all the load there is, which no step changes, fits an unsigned long.    *)
(***************************************************************************)
\* The sums over the queues of a state.
LEMMA StateSums ==
  /\ TotalLoad = Total(rq)
  /\ \A c : cpu_load(c) = Load(rq[c]) /\ nr_running(c) = Nr(rq[c])
<1>1. TotalLoad = Total(rq)
  BY DEF TotalLoad, Total, cpu_load, Load
<1>2. ASSUME NEW c
      PROVE  cpu_load(c) = Load(rq[c]) /\ nr_running(c) = Nr(rq[c])
  BY DEF cpu_load, nr_running, Load, Nr
<1>3. QED
  BY <1>1, <1>2

\* The same in the next state.
LEMMA NextSums ==
  /\ TotalLoad' = Total(rq')
  /\ \A c : cpu_load(c)' = Load(rq'[c]) /\ nr_running(c)' = Nr(rq'[c])
<1>1. TotalLoad' = Total(rq')
  <2>1. (TotalLoad = Total(rq))'
    BY StateSums, PTL
  <2>2. QED
    BY <2>1
<1>2. \A c : cpu_load(c)' = Load(rq'[c]) /\ nr_running(c)' = Nr(rq'[c])
  <2>1. (\A c : cpu_load(c) = Load(rq[c]) /\ nr_running(c) = Nr(rq[c]))'
    BY StateSums, PTL
  <2>2. QED
    BY <2>1
<1>3. QED
  BY <1>1, <1>2

\* e is a value env[c] may have while the load is n in all.
Progress(c, e, n) ==
  \/ e = Out
  \/ \E read \in SUBSET CPU :
       e \in [pc : {"stats"}, idle : Idleness,
              seen : [read -> [load : 0 .. n, nr : Nat]]]
  \/ e \in [pc : {"queue"}, idle : Idleness, group : Group \ {GroupOf[c]},
            imbalance : 0 .. ULongMax]
  \/ e \in [pc : {"detach"}, idle : Idleness, src : CPU \ {c},
            curr : Loads, imbalance : Int]

\* TypeOK, CPU by CPU.
LEMMA TypeIsProgress ==
  TypeOK <=> /\ rq \in RunQueues
             /\ imbalanced \subseteq Group
             /\ DOMAIN env = Balancers
             /\ \A c \in Balancers : Progress(c, env[c], TotalLoad)
BY DEF TypeOK, Progress, Reads, RunQueues, RunQueue

\* The bound on the imbalance is a number that no step changes.
IInv == TypeOK /\ ImbalanceBounded /\ TotalLoad <= ULongMax

\* What a balancer reads is in the range of its type.
LEMMA LoadNow ==
  ASSUME TypeOK
  PROVE  /\ TotalLoad \in Nat
         /\ \A c \in CPU : /\ cpu_load(c) \in 0 .. TotalLoad
                           /\ nr_running(c) \in Nat
<1>1. rq \in RunQueues
  BY TypeIsProgress
<1>2. Total(rq) \in Nat /\ \A c \in CPU : Load(rq[c]) \in 0 .. Total(rq)
  BY <1>1, TotalType
<1>3. \A c \in CPU : Nr(rq[c]) \in Nat
  BY <1>1, LoadType DEF RunQueues
<1>4. QED
  BY <1>2, <1>3, StateSums

\* Half of what a CPU has less than another is at most half of all, at whatever
\* moments the two were read.
LEMMA ImbalanceRange ==
  ASSUME NEW c \in Balancers, TypeOK,
         At(c, "stats"), DOMAIN env[c].seen = CPU,
         NEW g \in Group,
         NEW n, n = calculate_imbalance(sg_lb_stats(c, GroupOf[c]),
                                        sg_lb_stats(c, g))
  PROVE  n \in 0 .. (TotalLoad \div 2)
<1>1. \A d \in CPU : env[c].seen[d].load \in 0 .. TotalLoad
  <2>1. PICK read \in SUBSET CPU :
          env[c] \in [pc : {"stats"}, idle : Idleness, seen : [read -> Reads]]
    BY DEF TypeOK
  <2>2. env[c].seen \in [CPU -> Reads]
    BY <2>1
  <2>3. QED
    BY <2>2 DEF Reads
<1>2. ASSUME NEW h \in Group
      PROVE  /\ sg_lb_stats(c, h).min_load \in 0 .. TotalLoad
             /\ sg_lb_stats(c, h).max_load \in 0 .. TotalLoad
  <2>1. LoadsSeen(c, h) \subseteq 0 .. TotalLoad /\ LoadsSeen(c, h) # {}
    <3>1. Cpus(h) \subseteq CPU /\ Cpus(h) # {}
      BY DomainAssumption DEF Cpus
    <3>2. QED
      BY <1>1, <3>1 DEF LoadsSeen
  <2>2. TotalLoad \in Nat
    BY LoadNow
  <2>3. /\ Min(LoadsSeen(c, h)) \in LoadsSeen(c, h)
        /\ Max(LoadsSeen(c, h)) \in LoadsSeen(c, h)
    BY <2>1, <2>2, MinMax
  <2>4. QED
    BY <2>1, <2>3 DEF sg_lb_stats
<1>3. GroupOf[c] \in Group
  BY DomainAssumption
<1>4. TotalLoad \in Nat
  BY LoadNow
<1>5. n = IF sg_lb_stats(c, GroupOf[c]).min_load >= sg_lb_stats(c, g).max_load
          THEN 0
          ELSE (sg_lb_stats(c, g).max_load
                  - sg_lb_stats(c, GroupOf[c]).min_load) \div 2
  BY DEF calculate_imbalance
<1>6. QED
  BY <1>2, <1>3, <1>4, <1>5

\* A step that leaves the load in all as it is and takes one balancer on to a
\* value of its type keeps the invariant.
LEMMA StepType ==
  ASSUME TypeOK, ImbalanceBounded, TotalLoad <= ULongMax,
         rq' \in RunQueues, TotalLoad' = TotalLoad, imbalanced' = imbalanced,
         NEW c \in Balancers, NEW e, env' = [env EXCEPT ![c] = e],
         Progress(c, e, TotalLoad),
         e.pc = "queue" => e.imbalance <= TotalLoad \div 2
  PROVE  TypeOK' /\ ImbalanceBounded' /\ (TotalLoad <= ULongMax)'
<1>1. DOMAIN env = Balancers /\ DOMAIN env' = Balancers
  BY TypeIsProgress
<1>2. ASSUME NEW d \in Balancers
      PROVE  Progress(d, env'[d], TotalLoad')
  BY <1>1, TypeIsProgress
<1>3. TypeOK'
  <2>1. imbalanced' \subseteq Group
    BY TypeIsProgress
  <2>2. TypeOK' <=> /\ rq' \in RunQueues
                    /\ imbalanced' \subseteq Group
                    /\ DOMAIN env' = Balancers
                    /\ \A d \in Balancers : Progress(d, env'[d], TotalLoad')
    BY DEF TypeOK, Progress, Reads, RunQueues, RunQueue
  <2>3. QED
    BY <1>1, <1>2, <2>1, <2>2
<1>4. ImbalanceBounded'
  BY <1>1 DEF ImbalanceBounded
<1>5. QED
  BY <1>3, <1>4

\* The load in all changes only with the queues.
LEMMA TotalStays ==
  ASSUME TypeOK, UNCHANGED rq
  PROVE  rq' \in RunQueues /\ TotalLoad' = TotalLoad
<1>1. TotalLoad = Total(rq) /\ TotalLoad' = Total(rq')
  BY StateSums, NextSums
<1>2. QED
  BY <1>1, TypeIsProgress

\* A busiest group with tasks is one of the other groups, with its statistics.
LEMMA BusiestGroup ==
  ASSUME NEW c \in CPU, Busiest(c).stats.sum_nr_running > 0
  PROVE  \E g \in Group \ {GroupOf[c]} :
           /\ Busiest(c).group = g
           /\ Busiest(c).stats = sg_lb_stats(c, g)
<1>1. Busiest(c) \in Candidates(c)
  <2>1. PICK g \in [SUBSET Position -> Candidates(c)] : Busiest(c) = g[Position]
    BY BusiestFold
  <2>2. QED
    BY <2>1
<1>2. Busiest(c) # NoGroup
  BY DEF NoGroup, NoStats
<1>3. PICK g \in Group \ {GroupOf[c]} : Busiest(c) = Chosen(c, g)
  BY <1>1, <1>2 DEF Candidates
<1>4. QED
  BY <1>3 DEF Chosen

\* The invariant holds at first.
LEMMA InitInvariant ==
  Init => TypeOK /\ ImbalanceBounded /\ TotalLoad <= ULongMax
<1>1. SUFFICES ASSUME Init
               PROVE  TypeOK /\ ImbalanceBounded /\ TotalLoad <= ULongMax
  OBVIOUS
<1>2. TypeOK
  BY <1>1, DomainAssumption, TypeIsProgress
     DEF Init, Progress, RunQueues, RunQueue
<1>3. ImbalanceBounded
  BY <1>1 DEF Init, ImbalanceBounded
<1>4. TotalLoad <= ULongMax
  <2>1. TotalLoad = Total(Queues)
    BY <1>1, StateSums DEF Init
  <2>2. Total(Queues) <= ULongMax
    BY LoadAssumption DEF Total, Load
  <2>3. QED
    BY <2>1, <2>2
<1>5. QED
  BY <1>2, <1>3, <1>4

\* load_balance begins.
LEMMA LoadBalanceStep ==
  ASSUME IInv, NEW c \in Balancers, LoadBalance(c)
  PROVE  IInv'
<1>1. PICK idle \in {"tick", "newly_idle"} :
        env' = [env EXCEPT ![c] =
                  [pc |-> "stats", idle |-> idle, seen |-> <<>>]]
  BY DEF LoadBalance
<1>2. PICK e : e = [pc |-> "stats", idle |-> idle, seen |-> <<>>]
  OBVIOUS
<1>3. Progress(c, e, TotalLoad)
  <2>1. <<>> \in [{} -> [load : 0 .. TotalLoad, nr : Nat]]
    OBVIOUS
  <2>2. e \in [pc : {"stats"}, idle : Idleness,
               seen : [{} -> [load : 0 .. TotalLoad, nr : Nat]]]
    BY <1>2, <2>1 DEF Idleness
  <2>3. QED
    BY <2>2 DEF Progress
<1>4. UNCHANGED <<rq, imbalanced>> /\ e.pc # "queue"
  BY <1>2 DEF LoadBalance
<1>5. QED
  BY <1>1, <1>2, <1>3, <1>4, TotalStays, StepType DEF IInv

\* A CPU is read, whose load is no more than the load in all.
LEMMA ReadCpuStep ==
  ASSUME IInv, NEW c \in Balancers, ReadCpu(c)
  PROVE  IInv'
<1>1. PICK read \in SUBSET CPU :
        env[c] \in [pc : {"stats"}, idle : Idleness, seen : [read -> Reads]]
  BY DEF ReadCpu, IInv, TypeOK
<1>2. PICK d \in CPU :
        env' = [env EXCEPT ![c].seen =
          [x \in DOMAIN @ \cup {d} |->
             IF x = d THEN [load |-> cpu_load(d), nr |-> nr_running(d)]
                      ELSE @[x]]]
  BY DEF ReadCpu
<1>3. PICK e : e = [env[c] EXCEPT !.seen =
                      [x \in DOMAIN env[c].seen \cup {d} |->
                         IF x = d
                         THEN [load |-> cpu_load(d), nr |-> nr_running(d)]
                         ELSE env[c].seen[x]]]
  OBVIOUS
<1>4. env' = [env EXCEPT ![c] = e]
  BY <1>2, <1>3
<1>5. Progress(c, e, TotalLoad)
  <2>1. [load |-> cpu_load(d), nr |-> nr_running(d)] \in Reads
    BY LoadNow DEF IInv, Reads
  <2>2. e.seen \in [read \cup {d} -> Reads]
    BY <1>1, <1>3, <2>1
  <2>3. e \in [pc : {"stats"}, idle : Idleness, seen : [read \cup {d} -> Reads]]
    BY <1>1, <1>3, <2>2
  <2>4. read \cup {d} \in SUBSET CPU
    OBVIOUS
  <2>5. QED
    BY <2>3, <2>4 DEF Progress, Reads
<1>6. UNCHANGED <<rq, imbalanced>> /\ e.pc # "queue"
  BY <1>1, <1>3 DEF ReadCpu
<1>7. QED
  BY <1>4, <1>5, <1>6, TotalStays, StepType DEF IInv

\* find_busiest_group asks for at most half of the load in all.
LEMMA FindBusiestGroupStep ==
  ASSUME IInv, NEW c \in Balancers, find_busiest_group(c)
  PROVE  IInv'
<1> DEFINE local   == sg_lb_stats(c, GroupOf[c])
           busiest == Busiest(c)
           queued  == [pc |-> "queue", idle |-> env[c].idle,
                       group |-> busiest.group,
                       imbalance |-> calculate_imbalance(local, busiest.stats)]
<1>1. PICK e : e = IF ForceBalance(env[c].idle, local, busiest.stats)
                   THEN queued ELSE Out
  OBVIOUS
<1>2. env' = [env EXCEPT ![c] = e] /\ UNCHANGED <<rq, imbalanced>>
  BY <1>1 DEF find_busiest_group
<1>3. At(c, "stats") /\ DOMAIN env[c].seen = CPU /\ env[c].idle \in Idleness
  BY DEF find_busiest_group, IInv, TypeOK
<1>4. /\ c \in CPU /\ TotalLoad \in Nat
      /\ TotalLoad <= ULongMax /\ ULongMax \in Nat
  BY DomainAssumption, LoadNow DEF IInv
<1>5. CASE ForceBalance(env[c].idle, local, busiest.stats)
  <2>1. PICK g \in Group \ {GroupOf[c]} :
          busiest.group = g /\ busiest.stats = sg_lb_stats(c, g)
    BY <1>4, <1>5, BusiestGroup DEF ForceBalance
  <2>2. PICK n : n = calculate_imbalance(local, busiest.stats)
    OBVIOUS
  <2>3. n \in 0 .. (TotalLoad \div 2)
    BY <1>3, <2>1, <2>2, ImbalanceRange DEF IInv
  <2>4. n \in 0 .. ULongMax
    BY <1>4, <2>3
  <2>5. e = [pc |-> "queue", idle |-> env[c].idle, group |-> g, imbalance |-> n]
    BY <1>1, <1>5, <2>1, <2>2
  <2> HIDE DEF local, busiest, queued
  <2>6. Progress(c, e, TotalLoad)
    BY <1>3, <2>4, <2>5 DEF Progress
  <2>7. e.imbalance <= TotalLoad \div 2
    BY <2>3, <2>5
  <2>8. QED
    BY <1>2, <2>6, <2>7, TotalStays, StepType DEF IInv
<1>6. CASE ~ ForceBalance(env[c].idle, local, busiest.stats)
  <2>1. e = Out
    BY <1>1, <1>6
  <2> HIDE DEF local, busiest, queued
  <2>2. Progress(c, e, TotalLoad) /\ e.pc # "queue"
    BY <2>1 DEF Progress
  <2>3. QED
    BY <1>2, <2>2, TotalStays, StepType DEF IInv
<1>7. QED
  BY <1>5, <1>6

\* find_busiest_queue chooses a CPU of another group.
LEMMA LockQueueStep ==
  ASSUME IInv, NEW c \in Balancers, LockQueue(c)
  PROVE  IInv'
<1>1. env[c] \in [pc : {"queue"}, idle : Idleness, group : Group \ {GroupOf[c]},
                  imbalance : 0 .. ULongMax]
  BY DEF LockQueue, IInv, TypeOK
<1>2. PICK d \in BusiestQueues(c), l \in Loads :
        env' = [env EXCEPT ![c] =
                  [pc |-> "detach", idle |-> env[c].idle, src |-> d, curr |-> l,
                   imbalance |-> env[c].imbalance]]
  BY DEF LockQueue
<1>3. d \in CPU \ {c}
  BY <1>1 DEF BusiestQueues, Cpus
<1>4. PICK e : e = [pc |-> "detach", idle |-> env[c].idle, src |-> d,
                    curr |-> l, imbalance |-> env[c].imbalance]
  OBVIOUS
<1>5. env[c].imbalance \in Int
  BY <1>1, DomainAssumption
<1>6. Progress(c, e, TotalLoad) /\ e.pc # "queue"
  BY <1>1, <1>3, <1>4, <1>5 DEF Progress
<1>7. UNCHANGED <<rq, imbalanced>>
  BY DEF LockQueue
<1>8. QED
  BY <1>2, <1>4, <1>6, <1>7, TotalStays, StepType DEF IInv

\* load_balance ends.
LEMMA LeaveStep ==
  ASSUME IInv, NEW c \in Balancers, UNCHANGED <<rq, imbalanced>>,
         env' = [env EXCEPT ![c] = Out]
  PROVE  IInv'
<1>1. PICK e : e = Out
  OBVIOUS
<1>2. Progress(c, e, TotalLoad) /\ e.pc # "queue"
  BY <1>1 DEF Progress
<1>3. QED
  BY <1>1, <1>2, TotalStays, StepType DEF IInv

\* detach_tasks moves a task.
LEMMA DetachTaskStep ==
  ASSUME IInv, NEW c \in Balancers, DetachTask(c)
  PROVE  IInv' /\ TotalLoad' = TotalLoad
<1>1. env[c] \in [pc : {"detach"}, idle : Idleness, src : CPU \ {c},
                  curr : Loads, imbalance : Int]
  BY DEF DetachTask, IInv, TypeOK
<1>2. PICK l \in Loads :
        /\ Movable(c, l)
        /\ rq' = [rq EXCEPT ![env[c].src][l] = @ - 1, ![c][l] = @ + 1]
        /\ env' = [env EXCEPT ![c] =
             IF env[c].idle = "newly_idle" THEN Out
             ELSE [env[c] EXCEPT !.imbalance = @ - l]]
  BY Zenon DEF DetachTask
<1>3. rq \in RunQueues /\ c \in CPU /\ env[c].src \in CPU \ {c}
  BY <1>1, DomainAssumption, TypeIsProgress DEF IInv
<1>4. rq[env[c].src][l] > 0
  <2>1. rq[env[c].src][l] \in Nat
    BY <1>3 DEF RunQueues, RunQueue
  <2>2. QED
    BY <1>2, <2>1 DEF Movable
<1>5. rq' \in RunQueues /\ Total(rq') = Total(rq)
  <2>1. PICK r, s, d, t : r = rq /\ s = env[c].src /\ d = c /\ t = rq'
    OBVIOUS
  <2>2. /\ r \in RunQueues /\ s \in CPU /\ d \in CPU /\ s # d /\ r[s][l] > 0
        /\ t = Moved(r, s, d, l)
    BY <1>2, <1>3, <1>4, <2>1 DEF Moved
  <2>3. t \in RunQueues /\ Total(t) = Total(r)
    BY <2>2, TotalMoved
  <2>4. QED
    BY <2>1, <2>3
<1>6. TotalLoad' = TotalLoad
  BY <1>5, StateSums, NextSums
<1>7. PICK e : e = IF env[c].idle = "newly_idle" THEN Out
                   ELSE [env[c] EXCEPT !.imbalance = @ - l]
  OBVIOUS
<1>8. Progress(c, e, TotalLoad) /\ e.pc # "queue"
  BY <1>1, <1>7, DomainAssumption DEF Progress
<1>9. env' = [env EXCEPT ![c] = e]
  <2>1. PICK f : f = [env[c] EXCEPT !.imbalance = env[c].imbalance - l]
    OBVIOUS
  <2>2. e = IF env[c].idle = "newly_idle" THEN Out ELSE f
    BY <1>7, <2>1, Zenon
  <2>3. env' = [env EXCEPT ![c] = IF env[c].idle = "newly_idle" THEN Out ELSE f]
    BY <1>2, <2>1, Zenon
  <2>4. QED
    BY <2>2, <2>3
<1>10. imbalanced' = imbalanced
  BY DEF DetachTask
<1>11. QED
  BY <1>5, <1>6, <1>8, <1>9, <1>10, StepType DEF IInv

\* Every step keeps the invariant and the load in all.
LEMMA InvariantStep ==
  IInv /\ [Next]_vars => IInv' /\ TotalLoad' = TotalLoad
<1>1. SUFFICES ASSUME IInv, [Next]_vars
               PROVE  IInv' /\ TotalLoad' = TotalLoad
  OBVIOUS
<1>2. ASSUME UNCHANGED rq
      PROVE  TotalLoad' = TotalLoad
  BY <1>1, <1>2, TotalStays DEF IInv
<1>3. ASSUME NEW c \in Balancers, Balance(c)
      PROVE  IInv' /\ TotalLoad' = TotalLoad
  <2>1. CASE LoadBalance(c)
    BY <1>1, <1>2, <2>1, LoadBalanceStep DEF LoadBalance
  <2>2. CASE ReadCpu(c)
    BY <1>1, <1>2, <2>2, ReadCpuStep DEF ReadCpu
  <2>3. CASE find_busiest_group(c)
    <3>1. UNCHANGED rq
      BY <2>3 DEF find_busiest_group
    <3>2. QED
      BY <1>1, <1>2, <2>3, <3>1, FindBusiestGroupStep
  <2>4. CASE LockQueue(c)
    BY <1>1, <1>2, <2>4, LockQueueStep DEF LockQueue
  <2>5. CASE NothingToPull(c)
    BY <1>1, <1>2, <2>5, LeaveStep DEF NothingToPull
  <2>6. CASE DetachTask(c)
    BY <1>1, <2>6, DetachTaskStep
  <2>7. CASE DetachDone(c)
    BY <1>1, <1>2, <2>7, LeaveStep DEF DetachDone
  <2>8. QED
    BY <1>3, <2>1, <2>2, <2>3, <2>4, <2>5, <2>6, <2>7 DEF Balance
<1>4. ASSUME UNCHANGED <<rq, env>>, imbalanced' \subseteq Group
      PROVE  IInv' /\ TotalLoad' = TotalLoad
  <2>1. rq' \in RunQueues /\ TotalLoad' = TotalLoad
    BY <1>1, <1>4, TotalStays DEF IInv
  <2>2. TypeOK'
    <3>1. \A c \in Balancers : Progress(c, env'[c], TotalLoad')
      BY <1>1, <1>4, <2>1, TypeIsProgress DEF IInv
    <3>2. DOMAIN env' = Balancers
      BY <1>1, <1>4, TypeIsProgress DEF IInv
    <3>3. TypeOK' <=> /\ rq' \in RunQueues
                      /\ imbalanced' \subseteq Group
                      /\ DOMAIN env' = Balancers
                      /\ \A c \in Balancers : Progress(c, env'[c], TotalLoad')
      BY DEF TypeOK, Progress, Reads, RunQueues, RunQueue
    <3>4. QED
      BY <1>4, <2>1, <3>1, <3>2, <3>3
  <2>3. ImbalanceBounded'
    BY <1>1, <1>4, <2>1 DEF IInv, ImbalanceBounded
  <2>4. QED
    BY <1>1, <2>1, <2>2, <2>3 DEF IInv
<1>5. ASSUME NEW g \in Group, SgcImbalance(g)
      PROVE  IInv' /\ TotalLoad' = TotalLoad
  <2>1. UNCHANGED <<rq, env>>
    BY <1>5 DEF SgcImbalance
  <2>2. imbalanced' \subseteq Group
    BY <1>1, <1>5 DEF SgcImbalance, IInv, TypeOK
  <2>3. QED
    BY <1>4, <2>1, <2>2
<1>6. CASE UNCHANGED vars
  <2>1. imbalanced' \subseteq Group
    BY <1>1, <1>6 DEF IInv, TypeOK, vars
  <2>2. QED
    BY <1>4, <1>6, <2>1 DEF vars
<1>7. QED
  BY <1>1, <1>3, <1>5, <1>6 DEF Next

\* The inductive invariant holds in every reachable state.
THEOREM Invariant == Spec => []IInv
<1>1. Init => IInv
  BY InitInvariant DEF IInv
<1>2. IInv /\ [Next]_vars => IInv'
  BY InvariantStep
<1>3. QED
  BY <1>1, <1>2, PTL DEF Spec

\* Every variable holds a value of its type: no CPU reads more load than there
\* is, no group but another one is pulled from, no queue falls below zero.
THEOREM TypeCorrect == Spec => []TypeOK
<1>1. IInv => TypeOK
  BY DEF IInv
<1>2. QED
  BY <1>1, Invariant, PTL

\* calculate_imbalance never asks for more than half of all the load: the
\* difference of the unsigned loads, read at different moments, does not wrap.
THEOREM ImbalanceBoundedTheorem == Spec => []ImbalanceBounded
<1>1. IInv => ImbalanceBounded
  BY DEF IInv
<1>2. QED
  BY <1>1, Invariant, PTL

\* However many CPUs balance at once, no task is lost or duplicated: the load
\* in all never changes.
THEOREM LoadConserved == Spec => [][TotalLoad' = TotalLoad]_vars
<1>1. IInv /\ [Next]_vars => [TotalLoad' = TotalLoad]_vars
  BY InvariantStep
<1>2. QED
  BY <1>1, Invariant, PTL DEF Spec

-----------------------------------------------------------------------------
(***************************************************************************)
(* The locks of the queues and the tasks that run.                         *)
(***************************************************************************)
\* A CPU with a task is not idle.
LEMMA NrPositive ==
  ASSUME NEW q \in RunQueue, NEW l \in Loads, q[l] > 0
  PROVE  Nr(q) > 0
<1>1. PICK g : IsSum(g, q, Loads) /\ Nr(q) = g[Loads]
  BY NrIsSum
<1>2. q[l] <= g[Loads]
  BY <1>1, DomainAssumption, SumElement DEF RunQueue
<1>3. q[l] \in Nat /\ g[Loads] \in Nat
  BY <1>1 DEF RunQueue, IsSum
<1>4. QED
  BY <1>1, <1>2, <1>3

\* The lock of a queue has one holder, and the task that runs there stays.
Locked ==
  /\ \A a, b \in Balancers :
       a # b /\ At(a, "detach") /\ At(b, "detach") => env[a].src # env[b].src
  /\ \A c \in Balancers :
       At(c, "detach") => rq[env[c].src][env[c].curr] > 0

\* No CPU that has a task loses its last one.
BusyStays ==
  \A d \in CPU : nr_running(d) > 0 => nr_running(d)' > 0

\* What detach holds of the balancers that are not there.
LEMMA LockedWithout ==
  ASSUME IInv, Locked, NEW c \in Balancers, NEW e, e.pc # "detach",
         env' = [env EXCEPT ![c] = e], UNCHANGED rq
  PROVE  Locked'
<1>1. DOMAIN env = Balancers
  BY DEF IInv, TypeOK
<1>2. QED
  BY <1>1 DEF Locked

\* find_busiest_queue takes a lock nobody holds.
LEMMA LockQueueLocks ==
  ASSUME IInv, Locked, NEW c \in Balancers, LockQueue(c)
  PROVE  Locked'
<1>1. PICK d \in BusiestQueues(c), l \in Loads :
        /\ NotLocked(d)
        /\ rq[d][l] > 0
        /\ env' = [env EXCEPT ![c] =
                  [pc |-> "detach", idle |-> env[c].idle, src |-> d, curr |-> l,
                   imbalance |-> env[c].imbalance]]
  BY DEF LockQueue
<1>2. PICK e : e = [pc |-> "detach", idle |-> env[c].idle, src |-> d,
                    curr |-> l, imbalance |-> env[c].imbalance]
  OBVIOUS
<1>3. DOMAIN env = Balancers /\ UNCHANGED rq
  BY DEF IInv, TypeOK, LockQueue
<1>4. \A b \in Balancers \ {c} : env'[b] = env[b]
  BY <1>1, <1>3
<1>5. env'[c] = e /\ e.src = d /\ e.curr = l
  BY <1>1, <1>2, <1>3
<1>6. \A b \in Balancers : At(b, "detach") => env[b].src # d
  BY <1>1 DEF NotLocked
<1>7. QED
  BY <1>1, <1>3, <1>4, <1>5, <1>6 DEF Locked

\* detach_tasks takes nothing from another queue than the one locked, and there
\* it leaves the task that runs.
LEMMA DetachTaskFacts ==
  ASSUME IInv, Locked, NEW c \in Balancers, DetachTask(c)
  PROVE  /\ \A d \in CPU, k \in Loads :
              d # env[c].src => rq'[d][k] >= rq[d][k]
         /\ rq'[env[c].src][env[c].curr] > 0
         /\ env[c].src \in CPU /\ env[c].curr \in Loads
         /\ rq' \in RunQueues /\ rq \in RunQueues
<1>1. env[c] \in [pc : {"detach"}, idle : Idleness, src : CPU \ {c},
                  curr : Loads, imbalance : Int]
  BY DEF DetachTask, IInv, TypeOK
<1>2. PICK l \in Loads :
        /\ Movable(c, l)
        /\ rq' = [rq EXCEPT ![env[c].src][l] = @ - 1, ![c][l] = @ + 1]
  BY DEF DetachTask
<1>3. rq \in RunQueues /\ rq \in [CPU -> [Loads -> Nat]] /\ c \in CPU
  BY DomainAssumption, TypeIsProgress DEF IInv, RunQueues, RunQueue
<1>4. PICK s \in CPU \ {c}, k \in Loads : s = env[c].src /\ k = env[c].curr
  BY <1>1
<1>5. /\ rq' = [rq EXCEPT ![s][l] = @ - 1, ![c][l] = @ + 1]
      /\ rq[s][l] > IF k = l THEN 1 ELSE 0
      /\ rq[s][k] > 0
  BY <1>2, <1>4 DEF Movable, Locked, DetachTask
<1>6. rq'[s][k] > 0
  BY <1>3, <1>5
<1>7. \A d \in CPU, j \in Loads : d # s => rq'[d][j] >= rq[d][j]
  BY <1>3, <1>5
<1>8. rq' \in RunQueues
  BY DetachTaskStep DEF IInv, TypeOK, RunQueues, RunQueue
<1>9. QED
  BY <1>3, <1>4, <1>6, <1>7, <1>8

\* Every step keeps the locks and the tasks that run.
LEMMA LockedStep ==
  ASSUME IInv, Locked, [Next]_vars
  PROVE  Locked'
<1>1. ASSUME UNCHANGED <<rq, env>>
      PROVE  Locked'
  BY <1>1 DEF Locked
<1>2. ASSUME NEW c \in Balancers, Balance(c)
      PROVE  Locked'
  <2>1. CASE LoadBalance(c)
    <3>1. PICK idle \in {"tick", "newly_idle"} :
            env' = [env EXCEPT ![c] =
                      [pc |-> "stats", idle |-> idle, seen |-> <<>>]]
      BY <2>1 DEF LoadBalance
    <3>2. PICK e : e = [pc |-> "stats", idle |-> idle, seen |-> <<>>]
      OBVIOUS
    <3>3. QED
      BY <2>1, <3>1, <3>2, LockedWithout DEF LoadBalance
  <2>2. CASE ReadCpu(c)
    <3>1. PICK e : env' = [env EXCEPT ![c] = e] /\ e.pc # "detach"
      <4>1. env[c].pc = "stats"
        BY <2>2 DEF ReadCpu
      <4>2. PICK s : env' = [env EXCEPT ![c].seen = s]
        BY <2>2 DEF ReadCpu
      <4>3. env' = [env EXCEPT ![c] = [env[c] EXCEPT !.seen = s]]
        BY <4>2
      <4>4. [env[c] EXCEPT !.seen = s].pc # "detach"
        BY <4>1
      <4>5. QED
        BY <4>3, <4>4
    <3>2. QED
      BY <2>2, <3>1, LockedWithout DEF ReadCpu
  <2>3. CASE find_busiest_group(c)
    <3>1. PICK s : s = Busiest(c)
      OBVIOUS
    <3>2. PICK h : h = [pc |-> "queue", idle |-> env[c].idle, group |-> s.group,
                        imbalance |-> calculate_imbalance(
                                        sg_lb_stats(c, GroupOf[c]), s.stats)]
      OBVIOUS
    <3>3. PICK e \in {h, Out} : env' = [env EXCEPT ![c] = e]
      BY <2>3, <3>1, <3>2 DEF find_busiest_group
    <3>4. e.pc # "detach"
      BY <3>2
    <3>5. QED
      BY <2>3, <3>3, <3>4, LockedWithout DEF find_busiest_group
  <2>4. CASE LockQueue(c)
    BY <2>4, LockQueueLocks
  <2>5. ASSUME env' = [env EXCEPT ![c] = Out], UNCHANGED rq
        PROVE  Locked'
    <3>1. PICK e : e = Out
      OBVIOUS
    <3>2. QED
      BY <2>5, <3>1, LockedWithout
  <2>6. CASE NothingToPull(c)
    BY <2>5, <2>6 DEF NothingToPull
  <2>7. CASE DetachTask(c)
    <3>1. DOMAIN env = Balancers
      BY DEF IInv, TypeOK
    <3>2. \A b \in Balancers \ {c} : env'[b] = env[b]
      BY <2>7, <3>1 DEF DetachTask
    <3>3. At(c, "detach") /\ (env'[c].pc = "detach" =>
            env'[c].src = env[c].src /\ env'[c].curr = env[c].curr)
      BY <2>7, <3>1 DEF DetachTask
    <3>4. \A b \in Balancers \ {c} : At(b, "detach") =>
            /\ env[b].src # env[c].src
            /\ env[b].src \in CPU /\ env[b].curr \in Loads
            /\ rq[env[b].src][env[b].curr] > 0
      BY <3>3 DEF Locked, IInv, TypeOK
    <3>5. \A b \in Balancers \ {c} : At(b, "detach") =>
            rq'[env[b].src][env[b].curr] > 0
      BY <2>7, <3>4, DetachTaskFacts DEF RunQueues, RunQueue
    <3>6. rq'[env[c].src][env[c].curr] > 0
      BY <2>7, DetachTaskFacts
    <3>7. QED
      BY <3>2, <3>3, <3>4, <3>5, <3>6 DEF Locked
  <2>8. CASE DetachDone(c)
    BY <2>5, <2>8 DEF DetachDone
  <2>9. QED
    BY <1>2, <2>1, <2>2, <2>3, <2>4, <2>6, <2>7, <2>8 DEF Balance
<1>3. CASE UNCHANGED vars
  BY <1>1, <1>3 DEF vars
<1>4. ASSUME NEW g \in Group, SgcImbalance(g)
      PROVE  Locked'
  BY <1>1, <1>4 DEF SgcImbalance
<1>5. QED
  BY <1>2, <1>3, <1>4 DEF Next

\* More tasks of every load are more tasks.
LEMMA NrMonotonic ==
  ASSUME NEW q \in RunQueue, NEW p \in RunQueue, \A l \in Loads : q[l] <= p[l]
  PROVE  Nr(q) <= Nr(p)
<1>1. PICK g : IsSum(g, q, Loads) /\ Nr(q) = g[Loads]
  BY NrIsSum
<1>2. PICK h : IsSum(h, p, Loads) /\ Nr(p) = h[Loads]
  BY NrIsSum
<1>3. (\A l \in Loads : q[l] \in Nat) /\ (\A l \in Loads : p[l] \in Nat)
  BY DEF RunQueue
<1>4. g[Loads] <= h[Loads]
  <2>1. IsFiniteSet(Loads)
    BY DomainAssumption
  <2>2. QED
    BY <1>1, <1>2, <1>3, <2>1, SumMonotonic
<1>5. QED
  BY <1>1, <1>2, <1>4

\* No step takes the last task of a CPU.
LEMMA BusyStep ==
  ASSUME IInv, Locked, [Next]_vars
  PROVE  BusyStays
<1>1. ASSUME UNCHANGED rq
      PROVE  BusyStays
  BY <1>1, StateSums, NextSums DEF BusyStays
<1>2. ASSUME NEW c \in Balancers, DetachTask(c)
      PROVE  BusyStays
  <2>1. SUFFICES ASSUME NEW d \in CPU, Nr(rq[d]) > 0
                 PROVE  Nr(rq'[d]) > 0
    BY StateSums, NextSums DEF BusyStays
  <2>2. rq[d] \in RunQueue /\ rq'[d] \in RunQueue
    BY <1>2, DetachTaskFacts DEF RunQueues
  <2>3. CASE d = env[c].src
    <3>1. rq'[d][env[c].curr] > 0 /\ env[c].curr \in Loads
      BY <1>2, <2>3, DetachTaskFacts
    <3>2. PICK q \in RunQueue, l \in Loads : q = rq'[d] /\ l = env[c].curr
      BY <2>2, <3>1
    <3>3. Nr(q) > 0
      BY <3>1, <3>2, NrPositive
    <3>4. QED
      BY <3>2, <3>3
  <2>4. CASE d # env[c].src
    <3>1. PICK q \in RunQueue, p \in RunQueue : q = rq[d] /\ p = rq'[d]
      BY <2>2
    <3>2. \A l \in Loads : q[l] <= p[l]
      BY <1>2, <2>4, <3>1, DetachTaskFacts DEF RunQueue
    <3>3. Nr(q) <= Nr(p) /\ Nr(q) \in Nat /\ Nr(p) \in Nat
      BY <3>2, NrMonotonic, LoadType
    <3>4. QED
      BY <2>1, <3>1, <3>3
  <2>5. QED
    BY <2>3, <2>4
<1>3. ASSUME NEW c \in Balancers, Balance(c)
      PROVE  BusyStays
  <2>1. CASE DetachTask(c)
    BY <1>2, <2>1
  <2>2. CASE UNCHANGED rq
    BY <1>1, <2>2
  <2>3. QED
    BY <1>3, <2>1, <2>2 DEF Balance, LoadBalance, ReadCpu, find_busiest_group,
                            LockQueue, NothingToPull, DetachDone
<1>4. CASE (\E g \in Group : SgcImbalance(g)) \/ UNCHANGED vars
  BY <1>1, <1>4 DEF SgcImbalance, vars
<1>5. QED
  BY <1>3, <1>4 DEF Next

\* Two balancers never detach from one queue, and the task that runs on the
\* queue a balancer has locked is still there.
THEOREM LocksHeld == Spec => []Locked
<1>1. Init => Locked
  BY DEF Init, Locked
<1>2. IInv /\ Locked /\ [Next]_vars => Locked'
  BY LockedStep
<1>3. QED
  BY <1>1, <1>2, Invariant, PTL DEF Spec

\* Balancing makes no busy CPU idle: the task that runs stays, whoever else
\* pulls.
THEOREM BusyStaysBusy == Spec => [][BusyStays]_vars
<1>1. IInv /\ Locked /\ [Next]_vars => [BusyStays]_vars
  BY BusyStep
<1>2. QED
  BY <1>1, Invariant, LocksHeld, PTL DEF Spec

-----------------------------------------------------------------------------
(***************************************************************************)
(* What an idle CPU does about an overloaded group.                        *)
(***************************************************************************)
\* Without SD_ASYM_PACKING the group update_sd_pick_busiest leaves is the last
\* of the ring, whatever the loads of the others are.
THEOREM BusiestIsLast ==
  ASSUME NEW c \in CPU, ~ AsymPacking, NrGroups > 1
  PROVE  Busiest(c) = Chosen(c, LastGroup(c))
<1>1. PICK g \in [SUBSET Position -> Candidates(c)] :
        /\ \A T \in SUBSET Position : T # {} =>
             g[T] = Kept(c, Max(T), g[T \ {Max(T)}])
        /\ Busiest(c) = g[Position]
  BY BusiestFold
<1>2. NrGroups - 1 \in Position /\ Position # {}
  BY DomainAssumption DEF Position
<1>3. Max(Position) = NrGroups - 1
  <2>1. PICK n \in Nat : n = NrGroups - 1
    BY DomainAssumption
  <2>2. Position \subseteq 0 .. n
    BY <2>1 DEF Position
  <2>3. Max(Position) \in Position /\ \A x \in Position : Max(Position) >= x
    BY <1>2, <2>2, MinMax
  <2>4. QED
    BY <1>2, <2>1, <2>3 DEF Position
<1>4. Busiest(c) = Kept(c, NrGroups - 1, g[Position \ {NrGroups - 1}])
  BY <1>1, <1>2, <1>3
<1>5. QED
  BY <1>4 DEF Kept, update_sd_pick_busiest, LastGroup

\* A balancer sees load where it sees tasks, at least 1 for each, and none
\* without.
SeenInv ==
  \A c \in Balancers : At(c, "stats") =>
    \A d \in DOMAIN env[c].seen :
      /\ env[c].seen[d].nr <= env[c].seen[d].load
      /\ env[c].seen[d].nr = 0 => env[c].seen[d].load = 0

\* What one balancer reads is another one's no business.
LEMMA SeenWith ==
  ASSUME IInv, SeenInv, NEW c \in Balancers, NEW e,
         env' = [env EXCEPT ![c] = e],
         e.pc = "stats" =>
           \A d \in DOMAIN e.seen : /\ e.seen[d].nr <= e.seen[d].load
                                    /\ e.seen[d].nr = 0 => e.seen[d].load = 0
  PROVE  SeenInv'
<1>1. DOMAIN env = Balancers
  BY DEF IInv, TypeOK
<1>2. QED
  BY <1>1 DEF SeenInv

\* The tasks and the load that a CPU reads of another, in one step, agree.
LEMMA ReadCpuSees ==
  ASSUME IInv, SeenInv, NEW c \in Balancers, ReadCpu(c)
  PROVE  SeenInv'
<1>1. PICK d \in CPU :
        env' = [env EXCEPT ![c].seen =
          [x \in DOMAIN @ \cup {d} |->
             IF x = d THEN [load |-> cpu_load(d), nr |-> nr_running(d)]
                      ELSE @[x]]]
  BY DEF ReadCpu
<1>2. PICK e : e = [env[c] EXCEPT !.seen =
                      [x \in DOMAIN env[c].seen \cup {d} |->
                         IF x = d
                         THEN [load |-> cpu_load(d), nr |-> nr_running(d)]
                         ELSE env[c].seen[x]]]
  OBVIOUS
<1>3. env' = [env EXCEPT ![c] = e]
  BY <1>1, <1>2
<1>4. PICK read \in SUBSET CPU :
        env[c] \in [pc : {"stats"}, idle : Idleness, seen : [read -> Reads]]
  BY DEF ReadCpu, IInv, TypeOK
<1>5. e.seen = [x \in DOMAIN env[c].seen \cup {d} |->
                  IF x = d THEN [load |-> cpu_load(d), nr |-> nr_running(d)]
                           ELSE env[c].seen[x]]
  BY <1>2, <1>4
<1>6. nr_running(d) <= cpu_load(d) /\ (nr_running(d) = 0 => cpu_load(d) = 0)
  <2>1. PICK q \in RunQueue : q = rq[d]
    BY TypeIsProgress DEF IInv, RunQueues
  <2>2. Nr(q) <= Load(q) /\ (Nr(q) = 0 => Load(q) = 0)
    BY LoadAtLeastNr, NoTaskNoLoad
  <2>3. QED
    BY <2>1, <2>2, StateSums
<1>7. \A x \in DOMAIN env[c].seen :
        /\ env[c].seen[x].nr <= env[c].seen[x].load
        /\ env[c].seen[x].nr = 0 => env[c].seen[x].load = 0
  BY <1>4 DEF SeenInv
<1>8. \A x \in DOMAIN e.seen : /\ e.seen[x].nr <= e.seen[x].load
                               /\ e.seen[x].nr = 0 => e.seen[x].load = 0
  BY <1>5, <1>6, <1>7
<1>9. QED
  BY <1>3, <1>8, SeenWith

\* Every step keeps what was read.
LEMMA SeenStep ==
  ASSUME IInv, SeenInv, [Next]_vars
  PROVE  SeenInv'
<1>1. CASE UNCHANGED env
  BY <1>1 DEF SeenInv
<1>2. ASSUME NEW c \in Balancers, Balance(c)
      PROVE  SeenInv'
  <2>1. CASE LoadBalance(c)
    <3>1. PICK idle \in {"tick", "newly_idle"} :
            env' = [env EXCEPT ![c] =
                      [pc |-> "stats", idle |-> idle, seen |-> <<>>]]
      BY <2>1 DEF LoadBalance
    <3>2. PICK e : e = [pc |-> "stats", idle |-> idle, seen |-> <<>>]
      OBVIOUS
    <3>3. DOMAIN e.seen = {}
      BY <3>2
    <3>4. QED
      BY <3>1, <3>2, <3>3, SeenWith
  <2>2. CASE ReadCpu(c)
    BY <2>2, ReadCpuSees
  <2>3. CASE find_busiest_group(c)
    <3>1. PICK s : s = Busiest(c)
      OBVIOUS
    <3>2. PICK h : h = [pc |-> "queue", idle |-> env[c].idle, group |-> s.group,
                        imbalance |-> calculate_imbalance(
                                        sg_lb_stats(c, GroupOf[c]), s.stats)]
      OBVIOUS
    <3>3. PICK e \in {h, Out} : env' = [env EXCEPT ![c] = e]
      BY <2>3, <3>1, <3>2 DEF find_busiest_group
    <3>4. e.pc # "stats"
      BY <3>2
    <3>5. QED
      BY <3>3, <3>4, SeenWith
  <2>4. CASE LockQueue(c)
    <3>1. PICK d \in BusiestQueues(c), l \in Loads :
            env' = [env EXCEPT ![c] =
                      [pc |-> "detach", idle |-> env[c].idle, src |-> d,
                       curr |-> l, imbalance |-> env[c].imbalance]]
      BY <2>4 DEF LockQueue
    <3>2. PICK e : e = [pc |-> "detach", idle |-> env[c].idle, src |-> d,
                        curr |-> l, imbalance |-> env[c].imbalance]
      OBVIOUS
    <3>3. QED
      BY <3>1, <3>2, SeenWith
  <2>5. CASE env' = [env EXCEPT ![c] = Out]
    <3>1. PICK e : e = Out
      OBVIOUS
    <3>2. QED
      BY <2>5, <3>1, SeenWith
  <2>6. CASE DetachTask(c)
    <3>1. DOMAIN env = Balancers
      BY DEF IInv, TypeOK
    <3>2. /\ \A b \in Balancers \ {c} : env'[b] = env[b]
          /\ env'[c].pc # "stats"
      BY <2>6, <3>1 DEF DetachTask
    <3>3. QED
      BY <3>2 DEF SeenInv
  <2>7. QED
    BY <1>2, <2>1, <2>2, <2>3, <2>4, <2>5, <2>6
       DEF Balance, NothingToPull, DetachDone
<1>3. QED
  BY <1>1, <1>2 DEF Next, SgcImbalance, vars

\* What was read of a CPU shows a task where there is load, at any later time.
LEMMA SeenCorrect == Spec => []SeenInv
<1>1. Init => SeenInv
  BY DEF Init, SeenInv
<1>2. IInv /\ SeenInv /\ [Next]_vars => SeenInv'
  BY SeenStep
<1>3. QED
  BY <1>1, <1>2, Invariant, PTL DEF Spec

\* The last group of the ring is another than the local one.
LEMMA LastGroupType ==
  ASSUME NEW c \in CPU, NrGroups > 1
  PROVE  LastGroup(c) \in Group \ {GroupOf[c]}
<1>1. NrGroups - 1 \in Position
  BY DomainAssumption DEF Position
<1>2. QED
  BY <1>1, OthersType DEF LastGroup

\* A group whose CPUs were all seen with tasks has tasks.
LEMMA SeenTasks ==
  ASSUME NEW c, NEW g \in Group, SawWaiting(c, g),
         \A d \in CPU : env[c].seen[d].nr \in Nat
  PROVE  sg_lb_stats(c, g).sum_nr_running > 0
<1> DEFINE nr == [d \in Cpus(g) |-> env[c].seen[d].nr]
<1>1. PICK S : S = Cpus(g)
  OBVIOUS
<1>2. IsFiniteSet(S) /\ S # {} /\ S \subseteq CPU
  <2>1. Cpus(g) # {} /\ Cpus(g) \subseteq CPU /\ IsFiniteSet(CPU)
    BY DomainAssumption DEF Cpus
  <2>2. QED
    BY <1>1, <2>1, FS_Subset
<1>3. PICK f : f = nr
  OBVIOUS
<1>4. \A d \in S : f[d] \in Nat /\ f[d] > 0
  BY <1>1, <1>2, <1>3 DEF SawWaiting
<1> DEFINE E(s) == s = [T \in SUBSET Cpus(g) |->
                          IF T = {} THEN 0
                          ELSE env[c].seen[CHOOSE x \in T : TRUE].nr
                                 + s[T \ {CHOOSE x \in T : TRUE}]]
           iter == CHOOSE s : E(s)
<1>5. ASSUME NEW s
      PROVE  E(s) <=> SumEquation(s, f, S)
  <2>1. \A T \in SUBSET S : T # {} =>
          f[CHOOSE x \in T : TRUE] = env[c].seen[CHOOSE x \in T : TRUE].nr
    BY <1>1, <1>3, PickedInSet DEF Picked
  <2>2. QED
    BY <1>1, <2>1 DEF SumEquation
<1>6. \E s : E(s)
  <2>1. PICK s : SumEquation(s, f, S)
    BY <1>2, <1>4, SumExists
  <2> HIDE DEF E
  <2>2. QED
    BY <1>5, <2>1
<1>7. E(iter)
  BY <1>6
<1>8. SumEquation(iter, f, S)
  BY <1>5, <1>7
<1>9. sg_lb_stats(c, g).sum_nr_running = iter[S]
  BY <1>1 DEF sg_lb_stats, MapThenSumSet, MapThenFoldSet
<1> HIDE DEF iter, E
<1>10. IsSum(iter, f, S)
  BY <1>2, <1>4, <1>8, SumEquationIsSum
<1>11. PICK d \in S : TRUE
  BY <1>2
<1>12. f[d] <= iter[S] /\ iter[S] \in Nat
  BY <1>2, <1>4, <1>10, <1>11, SumElement DEF IsSum
<1>13. QED
  BY <1>4, <1>9, <1>11, <1>12

\* An idle group's least load is 0 and a waiting group's greatest is 2 or more.
LEMMA IdlePulls ==
  ASSUME IInv, SeenInv, NrGroups > 1, ~ AsymPacking, NEW c \in Balancers,
         find_busiest_group(c), SawIdle(c), SawWaiting(c, LastGroup(c))
  PROVE  Pulls(c, LastGroup(c))'
<1> DEFINE local   == sg_lb_stats(c, GroupOf[c])
           busiest == Busiest(c)
<1>1. c \in CPU /\ GroupOf[c] \in Group /\ LastGroup(c) \in Group
  BY DomainAssumption, LastGroupType
<1>2. PICK g \in Group : g = LastGroup(c) /\ busiest = Chosen(c, g)
  BY <1>1, BusiestIsLast
<1>3. PICK t \in Nat : t = TotalLoad
  BY LoadNow DEF IInv
<1>4. /\ \A d \in CPU : env[c].seen[d].load \in 0 .. t
      /\ \A d \in CPU : env[c].seen[d].nr \in Nat
  <2>1. PICK read \in SUBSET CPU :
          env[c] \in [pc : {"stats"}, idle : Idleness, seen : [read -> Reads]]
    BY DEF find_busiest_group, IInv, TypeOK
  <2>2. env[c].seen \in [CPU -> Reads]
    BY <2>1 DEF find_busiest_group
  <2>3. QED
    BY <1>3, <2>2 DEF Reads
<1>5. \A d \in CPU : /\ env[c].seen[d].nr <= env[c].seen[d].load
                     /\ env[c].seen[d].nr = 0 => env[c].seen[d].load = 0
  BY DEF SeenInv, find_busiest_group
<1>6. ASSUME NEW h \in Group
      PROVE  LoadsSeen(c, h) \subseteq 0 .. t /\ LoadsSeen(c, h) # {}
  <2>1. Cpus(h) \subseteq CPU /\ Cpus(h) # {}
    BY DomainAssumption DEF Cpus
  <2>2. QED
    BY <1>4, <2>1 DEF LoadsSeen
<1>7. local.min_load = 0
  <2>1. PICK d \in Cpus(GroupOf[c]) : env[c].seen[d].nr = 0
    BY DEF SawIdle
  <2>2. env[c].seen[d].load = 0
    BY <1>5, <2>1 DEF Cpus
  <2>3. 0 \in LoadsSeen(c, GroupOf[c])
    BY <2>1, <2>2 DEF LoadsSeen
  <2>4. /\ Min(LoadsSeen(c, GroupOf[c])) \in 0 .. t
        /\ Min(LoadsSeen(c, GroupOf[c])) <= 0
    BY <1>1, <1>6, <2>3, MinMax
  <2>5. QED
    BY <2>4 DEF sg_lb_stats
<1>8. \A x \in LoadsSeen(c, g) : x > 1 /\ x \in Nat
  <2>1. ASSUME NEW d \in Cpus(g)
        PROVE  env[c].seen[d].load > 1 /\ env[c].seen[d].load \in Nat
    <3>1. env[c].seen[d].nr > 1
      BY <1>2 DEF SawWaiting
    <3>2. d \in CPU
      BY DEF Cpus
    <3>3. PICK x, y : x = env[c].seen[d].load /\ y = env[c].seen[d].nr
      OBVIOUS
    <3>4. x \in 0 .. t /\ y \in Nat /\ y <= x /\ y > 1
      BY <1>4, <1>5, <3>1, <3>2, <3>3
    <3>5. x > 1 /\ x \in Nat
      BY <3>4
    <3>6. QED
      BY <3>3, <3>5
  <2>2. QED
    BY <2>1 DEF LoadsSeen
<1>9. PICK m, n : m = busiest.stats.min_load /\ n = busiest.stats.max_load
  OBVIOUS
<1>10. m \in Nat /\ n \in Nat /\ m > 1 /\ n > 1
  <2>1. /\ Min(LoadsSeen(c, g)) \in LoadsSeen(c, g)
        /\ Max(LoadsSeen(c, g)) \in LoadsSeen(c, g)
    BY <1>6, MinMax
  <2>2. m = Min(LoadsSeen(c, g)) /\ n = Max(LoadsSeen(c, g))
    BY <1>2, <1>9 DEF Chosen, sg_lb_stats
  <2>3. QED
    BY <1>8, <2>1, <2>2
<1>11. busiest.stats.sum_nr_running > 0
  BY <1>2, <1>4, SeenTasks DEF Chosen
<1>12. ForceBalance(env[c].idle, local, busiest.stats)
  BY <1>7, <1>9, <1>10, <1>11 DEF ForceBalance, Lighter
<1>13. PICK i : i = calculate_imbalance(local, busiest.stats) /\ i > 0
  <2>1. calculate_imbalance(local, busiest.stats) = n \div 2
    BY <1>7, <1>9, <1>10 DEF calculate_imbalance
  <2>2. n \div 2 > 0
    BY <1>10
  <2>3. QED
    BY <2>1, <2>2
<1>14. busiest.group = LastGroup(c)
  BY <1>2 DEF Chosen
<1>15. env' = [env EXCEPT ![c] =
                 [pc |-> "queue", idle |-> env[c].idle, group |-> busiest.group,
                  imbalance |-> calculate_imbalance(local, busiest.stats)]]
  BY <1>12 DEF find_busiest_group
<1>16. DOMAIN env = Balancers
  BY DEF IInv, TypeOK
<1> HIDE DEF local, busiest
<1>17. /\ env'[c].pc = "queue" /\ env'[c].group = LastGroup(c)
       /\ env'[c].imbalance > 0
  BY <1>13, <1>14, <1>15, <1>16
<1>18. LastGroup(c)' = LastGroup(c)
  BY DEF LastGroup, Others
<1>19. QED
  BY <1>17, <1>18 DEF Pulls

\* What the patch is for: a CPU that saw an idle CPU in its group and waiting
\* tasks on every CPU of the last group goes on to pull from that one and asks
\* for some load, however high its group's average, and whatever has moved
\* since it looked.
THEOREM IdleGroupPullsTheorem == Spec => IdleGroupPulls
<1>1. ASSUME IInv, SeenInv, NrGroups > 1, ~ AsymPacking, NEW c \in Balancers
      PROVE  PullsWhenIdle(c)
  BY <1>1, IdlePulls DEF PullsWhenIdle
<1>2. IInv /\ SeenInv =>
        (NrGroups > 1 /\ ~ AsymPacking => \A c \in Balancers : PullsWhenIdle(c))
  BY <1>1
<1>3. QED
  BY <1>2, Invariant, SeenCorrect, PTL DEF IdleGroupPulls

\* In a group with waiting tasks on every CPU there is a queue to pull from.
QueueFound ==
  \A c \in Balancers :
    At(c, "queue") /\ (\A d \in Cpus(env[c].group) : nr_running(d) > 1)
      => /\ BusiestQueues(c) # {}
         /\ \A d \in BusiestQueues(c) : nr_running(d) > 1

\* Of the queues with waiting tasks, one has the greatest load.
LEMMA QueueFoundNow ==
  ASSUME TypeOK, NEW c \in Balancers, NEW g \in Group,
         At(c, "queue"), env[c].group = g,
         \A d \in Cpus(g) : nr_running(d) > 1
  PROVE  /\ BusiestQueues(c) # {}
         /\ \A d \in BusiestQueues(c) : nr_running(d) > 1
<1>1. Cpus(g) # {} /\ Cpus(g) \subseteq CPU
  BY DomainAssumption DEF Cpus
<1>2. /\ TotalLoad \in Nat
      /\ \A d \in CPU : cpu_load(d) \in 0 .. TotalLoad /\ nr_running(d) \in Nat
  BY LoadNow
<1>3. PICK S : S = {cpu_load(d) : d \in Cpus(g)}
  OBVIOUS
<1>4. S \subseteq 0 .. TotalLoad /\ S # {}
  BY <1>1, <1>2, <1>3
<1>5. Max(S) \in S /\ \A x \in S : Max(S) >= x
  BY <1>2, <1>4, MinMax
<1>6. PICK d \in Cpus(g) : cpu_load(d) = Max(S)
  BY <1>3, <1>5
<1>7. \A e \in Cpus(g) : nr_running(e) > 0 /\ nr_running(e) # 1
  BY <1>1, <1>2
<1>8. \A e \in Cpus(g) : cpu_load(e) <= cpu_load(d)
  <2>1. ASSUME NEW e \in Cpus(g)
        PROVE  cpu_load(e) <= cpu_load(d)
    <3>1. cpu_load(e) \in S /\ cpu_load(e) \in Nat /\ Max(S) \in Nat
      BY <1>1, <1>2, <1>3, <1>4, <1>5
    <3>2. QED
      BY <1>5, <1>6, <3>1
  <2>2. QED
    BY <2>1
<1>9. d \in BusiestQueues(c)
  BY <1>7, <1>8 DEF BusiestQueues, QueueAllowed
<1>10. \A e \in BusiestQueues(c) : e \in Cpus(g)
  BY DEF BusiestQueues
<1>11. QED
  BY <1>9, <1>10

\* There it never gives up: while tasks wait on every CPU of the group, it has
\* a busiest queue, and each of these has a task to pull.
THEOREM OverloadedQueueFound == Spec => []QueueFound
<1>1. IInv => QueueFound
  <2>1. SUFFICES ASSUME IInv, NEW c \in Balancers, At(c, "queue"),
                        \A d \in Cpus(env[c].group) : nr_running(d) > 1
                 PROVE  /\ BusiestQueues(c) # {}
         /\ \A d \in BusiestQueues(c) : nr_running(d) > 1
    BY DEF QueueFound
  <2>2. PICK g \in Group : g = env[c].group
    BY <2>1 DEF IInv, TypeOK
  <2>3. QED
    BY <2>1, <2>2, QueueFoundNow DEF IInv
<1>2. QED
  BY <1>1, Invariant, PTL
=============================================================================
