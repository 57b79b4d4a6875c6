-------------------------- MODULE ArithmeticProofs --------------------------
(***************************************************************************)
(* What the proofs count and calculate with.                               *)
(*                                                                         *)
(* Induction over finite sets, and what follows from it for the sums that  *)
(* FoldFunctionOnSet computes: they do not depend on the order in which it *)
(* picks the elements.  The induction theorems of the library take a       *)
(* predicate as an operator; here a predicate is the set of those for      *)
(* which it holds, and the induction rests on WFMin: a counterexample of   *)
(* least size.                                                             *)
(*                                                                         *)
(* Sorting: an order of a finite set gives each element a place of its own.*)
(*                                                                         *)
(* The arithmetic of exact fractions: Euclid's recursive function exists   *)
(* and computes the greatest common divisor, so that every number has one  *)
(* reduced fraction and equality of numbers is equality of fractions; the  *)
(* operations then obey the laws of a field, and sums, differences and     *)
(* comparisons of fractions are those of numerators over a common          *)
(* denominator.                                                            *)
(*                                                                         *)
(* Folds over sequences: that the function FoldLeft chooses exists, and    *)
(* that its accumulators are a path.                                       *)
(*                                                                         *)
(* And what the simulated exchange computes with them, which the proofs of *)
(* the replay and of the single order share: the levels of a book a taker  *)
(* walks, and the trades that advance a resting order.                     *)
(***************************************************************************)
EXTENDS SimulatedExecution, Sorting, FiniteSets, FiniteSetsExt, Functions, FiniteSetTheorems,
        WellFoundedInduction, TLAPS

-----------------------------------------------------------------------------
(* Sums of integers over finite sets.                                      *)

(* The sum of f[x] over the x in S.                                        *)
Total(f, S) == FoldFunctionOnSet(+, 0, f, S)

(* A set of natural numbers has a least one.                               *)
LEMMA SomeSmallest ==
    ASSUME NEW N \in SUBSET Nat, N # {}
    PROVE  \E n \in N : \A m \in N : n <= m
<1>1. PICK n \in N : \A m \in N : <<m, n>> \notin OpToRel(<, Nat)
  BY NatLessThanWellFounded, WFMin
<1>2. ASSUME NEW m \in N PROVE n <= m
  <2>1. CASE m < n
    <3>1. <<m, n>> \in OpToRel(<, Nat)
      BY <2>1 DEF OpToRel
    <3> QED BY <1>1, <3>1
  <2> QED BY <2>1
<1> QED BY <1>2

(* What holds of a finite set if it holds of all its proper subsets, holds *)
(* of every finite set.                                                    *)
LEMMA FiniteInduction ==
    ASSUME NEW S, IsFiniteSet(S), NEW Good,
           \A T \in SUBSET S :
              (\A U \in SUBSET T : U # T => U \in Good) => T \in Good
    PROVE  S \in Good
<1> DEFINE Bad == {T \in SUBSET S : T \notin Good}
           Sizes == {Cardinality(T) : T \in Bad}
<1> SUFFICES ASSUME Bad # {} PROVE FALSE
  OBVIOUS
<1>1. \A T \in SUBSET S : IsFiniteSet(T) /\ Cardinality(T) \in Nat
  BY FS_Subset, FS_CardinalityType
<1>2. PICK n \in Sizes : \A m \in Sizes : n <= m
  <2>1. Sizes \in SUBSET Nat /\ Sizes # {}
    BY <1>1
  <2> HIDE DEF Sizes
  <2> QED BY <2>1, SomeSmallest
<1>3. PICK T \in Bad : Cardinality(T) = n
  OBVIOUS
<1>4. PICK U \in SUBSET T : U # T /\ U \notin Good
  OBVIOUS
<1>5. Cardinality(U) < Cardinality(T)
  BY <1>1, <1>4, FS_Subset
<1>6. U \in Bad /\ Cardinality(U) \in Sizes
  BY <1>4
<1>7. Cardinality(U) \in Nat /\ n \in Nat /\ n <= Cardinality(U)
  BY <1>1, <1>2, <1>3, <1>4, <1>6
<1> QED BY <1>3, <1>5, <1>7

-----------------------------------------------------------------------------

(* The recursive function inside MapThenFoldSet.                           *)
Iter(g, f, S) == g = [s \in SUBSET S |->
     IF s = {} THEN 0 ELSE f[CHOOSE x \in s : TRUE] + g[s \ {CHOOSE x \in s : TRUE}]]

LEMMA TotalIsChosen == \A f, S : Total(f, S) = (CHOOSE g : Iter(g, f, S))[S]
BY DEF Total, FoldFunctionOnSet, MapThenFoldSet, Iter

First(s) == CHOOSE x \in s : TRUE

(* The recursive function exists, so a sum is what its definition says.     *)
LEMMA TotalUnrolls ==
    ASSUME NEW f, NEW S, IsFiniteSet(S)
    PROVE  Total(f, S) = IF S = {} THEN 0
                         ELSE f[First(S)] + Total(f, S \ {First(S)})
<1> DEFINE Rest(s) == s \ {First(s)}
           Unrolled(T) == Total(f, T) = IF T = {} THEN 0 ELSE f[First(T)] + Total(f, Rest(T))
           Good == {T \in SUBSET S : Unrolled(T)}
<1>1. \A T \in SUBSET S : T # {} => First(T) \in T /\ Rest(T) \in SUBSET T /\ Rest(T) # T
  BY DEF First
<1>2. ASSUME NEW T \in SUBSET S, \A U \in SUBSET T : U # T => U \in Good
      PROVE  T \in Good
  <2> DEFINE h == [s \in SUBSET T |-> IF s = {} THEN 0 ELSE f[First(s)] + Total(f, Rest(s))]
             g == CHOOSE k : Iter(k, f, T)
  <2>1. \A U \in SUBSET T : U # T => h[U] = Total(f, U)
    BY <1>2
  <2>2. \A U \in SUBSET T : U # {} => Rest(U) \in SUBSET T /\ Rest(U) # T
    BY <1>1
  <2>3. h = [s \in SUBSET T |-> IF s = {} THEN 0 ELSE f[First(s)] + h[Rest(s)]]
    <3>1. \A s \in SUBSET T : s # {} => h[Rest(s)] = Total(f, Rest(s))
      BY <2>1, <2>2
    <3> QED BY <3>1
  <2>4. Iter(h, f, T)
    <3> HIDE DEF h
    <3> QED BY <2>3 DEF Iter, First
  <2>5. Iter(g, f, T)
    <3> HIDE DEF h
    <3> QED BY <2>4
  <2>6. g = [s \in SUBSET T |-> IF s = {} THEN 0 ELSE f[First(s)] + g[Rest(s)]]
    BY <2>5 DEF Iter, First
  <2> HIDE DEF g
  <2>7. \A s \in SUBSET T : g[s] = IF s = {} THEN 0 ELSE f[First(s)] + g[Rest(s)]
    BY <2>6
  <2>8. ASSUME NEW V \in SUBSET T, V # T PROVE g[V] = Total(f, V)
    <3> DEFINE Same == {U \in SUBSET V : g[U] = Total(f, U)}
    <3>1. ASSUME NEW U \in SUBSET V, \A W \in SUBSET U : W # U => W \in Same
          PROVE  U \in Same
      <4>1. U \in SUBSET T /\ U # T
        BY <2>8
      <4>2. Unrolled(U)
        BY <1>2, <4>1
      <4>3. CASE U = {}
        BY <2>7, <4>2, <4>3
      <4>4. CASE U # {}
        <5>1. Rest(U) \in Same
          BY <1>1, <3>1, <4>1, <4>4
        <5> QED BY <2>7, <4>1, <4>2, <4>4, <5>1
      <4> QED BY <4>3, <4>4
    <3>2. IsFiniteSet(V)
      BY FS_Subset
    <3> HIDE DEF Same
    <3>3. V \in Same
      BY <3>1, <3>2, FiniteInduction
    <3> QED BY <3>3 DEF Same
  <2>9. Total(f, T) = g[T]
    BY TotalIsChosen DEF g
  <2>10. Unrolled(T)
    BY <2>2, <2>7, <2>8, <2>9
  <2> QED BY <2>10
<1>3. S \in Good
  <2> HIDE DEF Good
  <2> QED BY <1>2, FiniteInduction
<1> QED BY <1>3

LEMMA TotalType ==
    ASSUME NEW f, NEW S, IsFiniteSet(S), \A x \in S : f[x] \in Int
    PROVE  Total(f, S) \in Int
<1> DEFINE Good == {T \in SUBSET S : Total(f, T) \in Int}
<1>1. ASSUME NEW T \in SUBSET S, \A U \in SUBSET T : U # T => U \in Good
      PROVE  T \in Good
  <2>1. IsFiniteSet(T)
    BY FS_Subset
  <2>2. CASE T = {}
    <3>1. Total(f, T) = IF T = {} THEN 0 ELSE f[First(T)] + Total(f, T \ {First(T)})
      BY <2>1, TotalUnrolls
    <3> QED BY <2>2, <3>1
  <2>3. CASE T # {}
    <3>1. First(T) \in T
      BY <2>3 DEF First
    <3>2. f[First(T)] \in Int /\ Total(f, T \ {First(T)}) \in Int
      BY <1>1, <3>1
    <3> QED BY <2>1, <2>3, <3>2, TotalUnrolls
  <2> QED BY <2>2, <2>3
<1> HIDE DEF Good
<1>2. S \in Good
  BY <1>1, FiniteInduction
<1> QED BY <1>2 DEF Good

(* Any element can be taken out first.                                     *)
LEMMA TotalPick ==
    ASSUME NEW f, NEW S, IsFiniteSet(S), \A x \in S : f[x] \in Int, NEW a \in S
    PROVE  Total(f, S) = f[a] + Total(f, S \ {a})
<1> DEFINE Good == {T \in SUBSET S :
                     \A x \in T : Total(f, T) = f[x] + Total(f, T \ {x})}
<1>0. \A T \in SUBSET S : IsFiniteSet(T) /\ Total(f, T) \in Int
  <2>1. \A T \in SUBSET S : IsFiniteSet(T)
    BY FS_Subset
  <2> QED BY <2>1, TotalType
<1>1. ASSUME NEW T \in SUBSET S, \A U \in SUBSET T : U # T => U \in Good
      PROVE  T \in Good
  <2> SUFFICES ASSUME NEW x \in T PROVE Total(f, T) = f[x] + Total(f, T \ {x})
    OBVIOUS
  <2> DEFINE y == First(T)
  <2>1. y \in T
    BY DEF First
  <2> HIDE DEF y
  <2>2. Total(f, T) = f[y] + Total(f, T \ {y})
    BY <1>0, TotalUnrolls DEF y
  <2>3. CASE x = y
    BY <2>2, <2>3
  <2>4. CASE x # y
    <3>1. Total(f, T \ {y}) = f[x] + Total(f, (T \ {y}) \ {x})
      <4>1. T \ {y} \in Good /\ x \in T \ {y}
        BY <1>1, <2>1, <2>4
      <4> QED BY <4>1
    <3>2. Total(f, T \ {x}) = f[y] + Total(f, (T \ {x}) \ {y})
      <4>1. T \ {x} \in Good /\ y \in T \ {x}
        BY <1>1, <2>1, <2>4
      <4> QED BY <4>1
    <3>3. (T \ {y}) \ {x} = (T \ {x}) \ {y} /\ (T \ {x}) \ {y} \in SUBSET S
      OBVIOUS
    <3>4. f[x] \in Int /\ f[y] \in Int /\ Total(f, (T \ {x}) \ {y}) \in Int
      BY <1>0, <2>1, <3>3
    <3> DEFINE rest == Total(f, (T \ {x}) \ {y})
    <3>5. f[x] + (f[y] + rest) = f[y] + (f[x] + rest)
      BY <3>4
    <3> HIDE DEF rest
    <3> QED BY <2>2, <3>1, <3>2, <3>3, <3>5 DEF rest
  <2> QED BY <2>3, <2>4
<1> HIDE DEF Good
<1>2. S \in Good
  BY <1>1, FiniteInduction
<1> QED BY <1>2 DEF Good

(* Only the values on the set matter.                                      *)
LEMMA TotalSame ==
    ASSUME NEW f, NEW g, NEW S, IsFiniteSet(S), \A x \in S : f[x] = g[x]
    PROVE  Total(f, S) = Total(g, S)
<1> DEFINE Good == {T \in SUBSET S : Total(f, T) = Total(g, T)}
<1>1. ASSUME NEW T \in SUBSET S, \A U \in SUBSET T : U # T => U \in Good
      PROVE  T \in Good
  <2>1. IsFiniteSet(T)
    BY FS_Subset
  <2>2. CASE T = {}
    <3>1. Total(f, T) = IF T = {} THEN 0 ELSE f[First(T)] + Total(f, T \ {First(T)})
      BY <2>1, TotalUnrolls
    <3>2. Total(g, T) = IF T = {} THEN 0 ELSE g[First(T)] + Total(g, T \ {First(T)})
      BY <2>1, TotalUnrolls
    <3> QED BY <2>2, <3>1, <3>2
  <2>3. CASE T # {}
    <3>1. First(T) \in T
      BY <2>3 DEF First
    <3>2. Total(f, T \ {First(T)}) = Total(g, T \ {First(T)})
      BY <1>1, <3>1
    <3> QED BY <2>1, <2>3, <3>1, <3>2, TotalUnrolls
  <2> QED BY <2>2, <2>3
<1> HIDE DEF Good
<1>2. S \in Good
  BY <1>1, FiniteInduction
<1> QED BY <1>2 DEF Good

LEMMA TotalEmpty == \A f : Total(f, {}) = 0
BY FS_EmptySet, TotalUnrolls

(* A sum whose summand at a is new, or has changed.                        *)
LEMMA TotalChanges ==
    ASSUME NEW f, NEW g, NEW S, NEW a, IsFiniteSet(S), g[a] \in Int,
           \A x \in S : f[x] \in Int,
           \A x \in S \ {a} : g[x] = f[x]
    PROVE  Total(g, S \cup {a})
             = IF a \in S THEN Total(f, S) + g[a] - f[a] ELSE Total(f, S) + g[a]
<1> DEFINE R == S \ {a}
<1>1. IsFiniteSet(S \cup {a}) /\ IsFiniteSet(R)
  BY FS_AddElement, FS_RemoveElement
<1>2. Total(g, S \cup {a}) = g[a] + Total(g, (S \cup {a}) \ {a})
  <2>1. \A x \in S \cup {a} : g[x] \in Int
    OBVIOUS
  <2> QED BY <1>1, <2>1, TotalPick
<1>3. (S \cup {a}) \ {a} = R
  OBVIOUS
<1>4. Total(g, R) = Total(f, R)
  BY <1>1, TotalSame
<1>5. Total(g, S \cup {a}) = g[a] + Total(f, R) /\ Total(f, R) \in Int
  BY <1>1, <1>2, <1>3, <1>4, TotalType
<1>6. a \in S => Total(f, S) = f[a] + Total(f, R) /\ f[a] \in Int
  BY TotalPick
<1>7. a \notin S => R = S
  OBVIOUS
<1> DEFINE new == Total(g, S \cup {a})
           old == Total(f, S)
           rest == Total(f, R)
<1>8. /\ new = g[a] + rest /\ rest \in Int
      /\ a \in S => old = f[a] + rest /\ f[a] \in Int
      /\ a \notin S => old = rest
  BY <1>5, <1>6, <1>7
<1> HIDE DEF new, old, rest
<1>9. new = IF a \in S THEN old + g[a] - f[a] ELSE old + g[a]
  BY <1>8
<1> QED BY <1>9 DEF new, old

LEMMA TotalAdd ==
    ASSUME NEW f, NEW S, NEW a, IsFiniteSet(S), a \notin S,
           \A x \in S \cup {a} : f[x] \in Int
    PROVE  Total(f, S \cup {a}) = Total(f, S) + f[a]
<1>1. \A x \in S : f[x] \in Int
  OBVIOUS
<1> QED BY <1>1, TotalChanges

(* b pairs the elements of S and T, and f and g agree on the pairs.         *)
Pairing(b, S, T, f, g) ==
    /\ b \in [S -> T]
    /\ \A x, y \in S : b[x] = b[y] => x = y
    /\ \A z \in T : \E x \in S : b[x] = z
    /\ \A x \in S : f[x] \in Int /\ g[b[x]] = f[x]

LEMMA TotalPaired ==
    ASSUME NEW S, IsFiniteSet(S), NEW T, NEW f, NEW g, NEW b, Pairing(b, S, T, f, g)
    PROVE  IsFiniteSet(T) /\ Total(g, T) = Total(f, S)
<1> DEFINE Im(U) == {b[x] : x \in U}
           Good == {U \in SUBSET S : IsFiniteSet(Im(U)) /\ Total(g, Im(U)) = Total(f, U)}
<1>1. ASSUME NEW U \in SUBSET S, \A V \in SUBSET U : V # U => V \in Good
      PROVE  U \in Good
  <2>1. CASE U = {}
    <3>1. Im(U) = {}
      BY <2>1
    <3>2. IsFiniteSet(Im(U)) /\ Total(g, Im(U)) = Total(f, U)
      BY <2>1, <3>1, FS_EmptySet, TotalEmpty
    <3> HIDE DEF Im
    <3> QED BY <3>2
  <2>2. CASE U # {}
    <3>1. PICK a \in U : TRUE
      BY <2>2
    <3> DEFINE V == U \ {a}
    <3>2. V \in SUBSET U /\ V # U
      BY <3>1
    <3>3. V \in Good
      <4> HIDE DEF V, Good
      <4> QED BY <1>1, <3>2
    <3>4. IsFiniteSet(Im(V)) /\ Total(g, Im(V)) = Total(f, V)
      <4> HIDE DEF V, Im
      <4> QED BY <3>3
    <3>5. Im(U) = Im(V) \cup {b[a]}
      BY <3>1
    <3>6. b[a] \notin Im(V)
      BY <3>1 DEF Pairing
    <3>7. \A z \in Im(V) \cup {b[a]} : g[z] \in Int
      BY <3>1 DEF Pairing
    <3>8. /\ IsFiniteSet(Im(V) \cup {b[a]})
          /\ Total(g, Im(V) \cup {b[a]}) = Total(g, Im(V)) + g[b[a]]
      <4>1. PICK W, z : W = Im(V) /\ z = b[a]
        OBVIOUS
      <4> HIDE DEF V, Im
      <4>2. IsFiniteSet(W) /\ z \notin W /\ \A x \in W \cup {z} : g[x] \in Int
        BY <3>4, <3>6, <3>7, <4>1
      <4>3. IsFiniteSet(W \cup {z})
        BY <4>2, FS_AddElement
      <4>4. Total(g, W \cup {z}) = Total(g, W) + g[z]
        BY <4>2, TotalAdd
      <4> QED BY <4>1, <4>3, <4>4
    <3>9. Total(f, U) = f[a] + Total(f, V)
      <4>1. IsFiniteSet(U) /\ \A x \in U : f[x] \in Int
        BY FS_Subset DEF Pairing
      <4> QED BY <3>1, <4>1, TotalPick
    <3>10. g[b[a]] = f[a] /\ f[a] \in Int /\ Total(f, V) \in Int
      <4>1. IsFiniteSet(V) /\ \A x \in V : f[x] \in Int
        BY FS_Subset DEF Pairing
      <4>2. Total(f, V) \in Int
        <5> HIDE DEF V
        <5> QED BY <4>1, TotalType
      <4>3. g[b[a]] = f[a] /\ f[a] \in Int
        BY <3>1 DEF Pairing
      <4> QED BY <4>2, <4>3
    <3>11. IsFiniteSet(Im(U)) /\ Total(g, Im(U)) = Total(f, U)
      <4> HIDE DEF V, Im
      <4> QED BY <3>4, <3>5, <3>8, <3>9, <3>10
    <3> HIDE DEF V, Im
    <3> QED BY <3>11
  <2> QED BY <2>1, <2>2
<1>2. S \in Good
  <2> HIDE DEF Good
  <2> QED BY <1>1, FiniteInduction
<1>3. Im(S) = T
  BY DEF Pairing
<1>4. IsFiniteSet(Im(S)) /\ Total(g, Im(S)) = Total(f, S)
  <2> HIDE DEF Im
  <2> QED BY <1>2
<1> HIDE DEF Im
<1> QED BY <1>3, <1>4

-----------------------------------------------------------------------------
(* Sorting.                                                                *)

(* What a function makes of the elements of a finite set.                  *)
LEMMA ImageIsFinite ==
    ASSUME NEW S, IsFiniteSet(S), NEW f
    PROVE  IsFiniteSet({f[x] : x \in S})
<1> DEFINE g == [x \in S |-> f[x]]
<1>1. g \in Surjection(S, {f[x] : x \in S})
  BY DEF Surjection
<1> HIDE DEF g
<1> QED BY <1>1, FS_Surjection

(* less orders the elements of set, strictly and totally.                  *)
StrictlyOrders(less, set) ==
    /\ \A a \in set : <<a, a>> \notin less
    /\ \A a, b \in set : a # b => <<a, b>> \in less \/ <<b, a>> \in less
    /\ \A a, b, c \in set : <<a, b>> \in less /\ <<b, c>> \in less => <<a, c>> \in less

Preceding(set, less, a) == {b \in set : <<b, a>> \in less}

(* Every element has a rank of its own, and every rank occurs.             *)
LEMMA OrderSorts ==
    ASSUME NEW set, IsFiniteSet(set), NEW less, StrictlyOrders(less, set)
    PROVE  /\ Cardinality(set) \in Nat
           /\ InOrder(set, less) \in [1 .. Cardinality(set) -> set]
           /\ \A a \in set : \E i \in 1 .. Cardinality(set) : InOrder(set, less)[i] = a
           /\ \A i, j \in 1 .. Cardinality(set) :
                 i < j => <<InOrder(set, less)[i], InOrder(set, less)[j]>> \in less
           /\ \A i, j \in 1 .. Cardinality(set) :
                 InOrder(set, less)[i] = InOrder(set, less)[j] => i = j
<1> DEFINE n == Cardinality(set)
           rank(a) == Cardinality(Preceding(set, less, a))
           f == [a \in set |-> rank(a) + 1]
           s == InOrder(set, less)
<1>1. n \in Nat
  BY FS_CardinalityType
<1>2. ASSUME NEW a \in set
      PROVE  /\ a \notin Preceding(set, less, a) /\ IsFiniteSet(Preceding(set, less, a))
             /\ rank(a) \in Nat /\ rank(a) + 1 <= n
  <2>1. Preceding(set, less, a) \in SUBSET set /\ a \notin Preceding(set, less, a)
    BY DEF Preceding, StrictlyOrders
  <2>2. IsFiniteSet(Preceding(set, less, a))
    BY <2>1, FS_Subset
  <2>3. rank(a) \in Nat
    BY <2>2, FS_CardinalityType
  <2>4. Cardinality(Preceding(set, less, a) \union {a}) = rank(a) + 1
    BY <2>1, <2>2, FS_AddElement
  <2>5. Preceding(set, less, a) \union {a} \in SUBSET set
    BY <2>1
  <2>6. Cardinality(Preceding(set, less, a) \union {a}) <= n
    BY <2>5, FS_Subset
  <2> QED BY <2>1, <2>2, <2>3, <2>4, <2>6
<1>3. ASSUME NEW a \in set, NEW b \in set, <<a, b>> \in less PROVE rank(a) < rank(b)
  <2>1. Preceding(set, less, a) \union {a} \in SUBSET Preceding(set, less, b)
    BY <1>3 DEF Preceding, StrictlyOrders
  <2>2. Cardinality(Preceding(set, less, a) \union {a}) = rank(a) + 1
    BY <1>2, FS_AddElement
  <2>3. Cardinality(Preceding(set, less, a) \union {a}) <= rank(b)
    BY <1>2, <2>1, FS_Subset
  <2> QED BY <1>2, <2>2, <2>3
<1>4. \A a, b \in set : rank(a) = rank(b) => a = b
  <2> SUFFICES ASSUME NEW a \in set, NEW b \in set, rank(a) = rank(b) PROVE a = b
    OBVIOUS
  <2> HIDE DEF rank
  <2>1. <<a, b>> \notin less /\ <<b, a>> \notin less
    BY <1>2, <1>3
  <2> QED BY <2>1 DEF StrictlyOrders
<1>5. \A i \in 1 .. n : \E a \in set : rank(a) = i - 1
  <2>1. f \in Injection(set, 1 .. n)
    <3> HIDE DEF rank
    <3>1. \A a \in set : rank(a) + 1 \in 1 .. n
      BY <1>1, <1>2
    <3>2. f \in [set -> 1 .. n]
      BY <3>1
    <3>3. \A a, b \in set : f[a] = f[b] => a = b
      BY <1>2, <1>4
    <3> HIDE DEF f
    <3> QED BY <3>2, <3>3 DEF Injection, IsInjective
  <2>2. IsFiniteSet(1 .. n) /\ Cardinality(1 .. n) = n
    BY <1>1, FS_Interval
  <2>3. f \in Surjection(set, 1 .. n)
    <3> HIDE DEF f
    <3> QED BY <2>1, <2>2, FS_Injection
  <2>4. \A i \in 1 .. n : \E a \in set : f[a] = i
    BY <2>3 DEF Surjection
  <2> HIDE DEF rank
  <2> QED BY <1>2, <2>4
<1>6. s = [i \in 1 .. n |-> CHOOSE a \in set : rank(a) = i - 1]
  BY DEF InOrder, Preceding
<1> HIDE DEF rank, n, s, f
<1>7. \A i \in 1 .. n : s[i] \in set /\ rank(s[i]) = i - 1
  <2> TAKE i \in 1 .. n
  <2>1. s[i] = CHOOSE a \in set : rank(a) = i - 1
    BY <1>6
  <2> QED BY <1>5, <2>1
<1>8. s \in [1 .. n -> set]
  BY <1>6, <1>7
<1>9. ASSUME NEW a \in set PROVE \E i \in 1 .. n : s[i] = a
  <2>1. rank(a) + 1 \in 1 .. n /\ rank(a) \in Nat
    BY <1>1, <1>2
  <2>2. rank(s[rank(a) + 1]) = rank(a) /\ s[rank(a) + 1] \in set
    BY <1>7, <2>1
  <2> QED BY <1>4, <2>1, <2>2
<1>10. \A i, j \in 1 .. n : s[i] = s[j] => i = j
  BY <1>1, <1>7
<1>11. ASSUME NEW i \in 1 .. n, NEW j \in 1 .. n, i < j PROVE <<s[i], s[j]>> \in less
  <2>1. s[i] \in set /\ s[j] \in set /\ rank(s[i]) = i - 1 /\ rank(s[j]) = j - 1
    BY <1>7
  <2>2. ~(rank(s[j]) < rank(s[i]))
    BY <2>1, <1>11, <1>1
  <2>3. <<s[j], s[i]>> \notin less /\ s[i] # s[j]
    BY <2>1, <2>2, <1>3, <1>10, <1>11, <1>1
  <2> QED BY <2>1, <2>3 DEF StrictlyOrders
<1>12. n = Cardinality(set) /\ s = InOrder(set, less)
  BY DEF n, s
<1> QED BY <1>1, <1>8, <1>9, <1>10, <1>11, <1>12

-----------------------------------------------------------------------------
(* Euclid's algorithm.                                                     *)

Pairs == Nat \X Nat

UpTo(n) == {p \in Pairs : p[2] <= n}

EuclidStep(g, p) == IF p[2] = 0 THEN p[1] ELSE g[<<p[2], p[1] % p[2]>>]

(* g is the recursive function as far as n.                                *)
Computes(g, n) ==
    /\ g \in [UpTo(n) -> Nat]
    /\ \A p \in UpTo(n) : g[p] = EuclidStep(g, p)

(* What holds of a number if it holds of all smaller ones, holds of all.   *)
LEMMA CourseOfValues ==
    ASSUME NEW Good, \A n \in Nat : (\A m \in Nat : m < n => m \in Good) => n \in Good
    PROVE  \A n \in Nat : n \in Good
<1> DEFINE Bad == {n \in Nat : n \notin Good}
<1> SUFFICES ASSUME Bad # {} PROVE FALSE
  OBVIOUS
<1>1. PICK n \in Bad : \A m \in Bad : n <= m
  <2>1. Bad \in SUBSET Nat
    OBVIOUS
  <2> HIDE DEF Bad
  <2> QED BY <2>1, SomeSmallest
<1>2. \A m \in Nat : m < n => m \in Good
  BY <1>1
<1> QED BY <1>1, <1>2

LEMMA EuclidDescends ==
    ASSUME NEW p \in Pairs, p[2] # 0
    PROVE  <<p[2], p[1] % p[2]>> \in Pairs /\ p[1] % p[2] < p[2]
BY DEF Pairs

LEMMA EuclidUnique ==
    ASSUME NEW m \in Nat, NEW n \in Nat, NEW g, NEW h, Computes(g, m), Computes(h, n)
    PROVE  \A p \in Pairs : p[2] <= m /\ p[2] <= n => g[p] = h[p]
<1> DEFINE Good == {k \in Nat : \A p \in Pairs : p[2] = k /\ k <= m /\ k <= n => g[p] = h[p]}
<1>1. ASSUME NEW k \in Nat, \A j \in Nat : j < k => j \in Good
      PROVE  k \in Good
  <2> SUFFICES ASSUME NEW p \in Pairs, p[2] = k, k <= m, k <= n PROVE g[p] = h[p]
    OBVIOUS
  <2>1. p \in UpTo(m) /\ p \in UpTo(n)
    BY DEF UpTo
  <2>2. g[p] = EuclidStep(g, p) /\ h[p] = EuclidStep(h, p)
    BY <2>1 DEF Computes
  <2>3. CASE p[2] = 0
    BY <2>2, <2>3 DEF EuclidStep
  <2>4. CASE p[2] # 0
    <3> DEFINE q == <<p[2], p[1] % p[2]>>
    <3>1. q \in Pairs /\ q[2] < k /\ q[2] \in Nat
      BY <2>4, EuclidDescends DEF Pairs
    <3>2. q[2] \in Good /\ q[2] <= m /\ q[2] <= n
      BY <1>1, <3>1
    <3>3. g[q] = h[q]
      BY <3>1, <3>2
    <3> QED BY <2>2, <2>4, <3>3 DEF EuclidStep
  <2> QED BY <2>3, <2>4
<1>2. \A k \in Nat : k \in Good
  <2> HIDE DEF Good
  <2> QED BY <1>1, CourseOfValues
<1> QED BY <1>2 DEF Pairs

LEMMA EuclidExistsUpTo == \A n \in Nat : \E g : Computes(g, n)
<1> DEFINE Good == {n \in Nat : \E g : Computes(g, n)}
<1>1. ASSUME NEW n \in Nat, \A m \in Nat : m < n => m \in Good
      PROVE  n \in Good
  <2>1. CASE n = 0
    <3> DEFINE g == [p \in UpTo(0) |-> p[1]]
    <3>1. \A p \in UpTo(0) : p[2] = 0 /\ p[1] \in Nat
      BY DEF UpTo, Pairs
    <3>2. Computes(g, 0)
      BY <3>1 DEF Computes, EuclidStep
    <3> QED BY <2>1, <3>2
  <2>2. CASE n # 0
    <3>1. n - 1 \in Good
      BY <1>1, <2>2
    <3>2. PICK f : Computes(f, n - 1)
      BY <3>1
    <3> DEFINE g == [p \in UpTo(n) |-> IF p[2] < n THEN f[p] ELSE EuclidStep(f, p)]
    <3>3. ASSUME NEW p \in UpTo(n), p[2] < n
          PROVE  p \in UpTo(n - 1) /\ f[p] \in Nat /\ f[p] = EuclidStep(f, p)
      <4>1. p \in UpTo(n - 1)
        BY <3>3 DEF UpTo, Pairs
      <4> QED BY <4>1, <3>2 DEF Computes
    <3>4. ASSUME NEW p \in UpTo(n), p[2] # 0
          PROVE  LET q == <<p[2], p[1] % p[2]>>
                 IN q \in UpTo(n) /\ q[2] < n /\ g[q] = f[q] /\ f[q] \in Nat
      <4> DEFINE q == <<p[2], p[1] % p[2]>>
      <4>1. p \in Pairs /\ p[2] <= n
        BY DEF UpTo
      <4>2. q \in Pairs /\ q[2] < p[2]
        BY <3>4, <4>1, EuclidDescends
      <4>3. q[2] < n /\ q \in UpTo(n)
        BY <4>1, <4>2 DEF UpTo, Pairs
      <4> QED BY <4>3, <3>3
    <3>5. ASSUME NEW p \in UpTo(n)
          PROVE  g[p] = EuclidStep(g, p) /\ g[p] \in Nat
      <4>1. g[p] = EuclidStep(f, p)
        BY <3>3
      <4>2. CASE p[2] = 0
        <5>1. EuclidStep(f, p) = p[1] /\ EuclidStep(g, p) = p[1] /\ p[1] \in Nat
          BY <4>2 DEF EuclidStep, UpTo, Pairs
        <5> QED BY <4>1, <5>1
      <4>3. CASE p[2] # 0
        <5>1. /\ EuclidStep(f, p) = f[<<p[2], p[1] % p[2]>>]
              /\ EuclidStep(g, p) = g[<<p[2], p[1] % p[2]>>]
          BY <4>3 DEF EuclidStep
        <5> QED BY <4>1, <4>3, <3>4, <5>1
      <4> QED BY <4>2, <4>3
    <3>6. g \in [UpTo(n) -> Nat]
      <4>1. \A p \in UpTo(n) : (IF p[2] < n THEN f[p] ELSE EuclidStep(f, p)) \in Nat
        BY <3>5
      <4> QED BY <4>1
    <3> QED BY <3>5, <3>6 DEF Computes
  <2> QED BY <2>1, <2>2
<1>2. \A n \in Nat : n \in Good
  <2> HIDE DEF Good
  <2> QED BY <1>1, CourseOfValues
<1> QED BY <1>2

(* The recursive function of module Rationals exists.                      *)
LEMMA EuclidUnrolls ==
    \A p \in Pairs : Euclid[p] = IF p[2] = 0 THEN p[1] ELSE Euclid[<<p[2], p[1] % p[2]>>]
<1> DEFINE F(n) == CHOOSE g : Computes(g, n)
           G == [p \in Pairs |-> F(p[2])[p]]
<1>1. \A n \in Nat : Computes(F(n), n)
  BY EuclidExistsUpTo
<1>2. ASSUME NEW p \in Pairs
      PROVE  G[p] = IF p[2] = 0 THEN p[1] ELSE G[<<p[2], p[1] % p[2]>>]
  <2>1. p[2] \in Nat /\ p \in UpTo(p[2])
    BY DEF Pairs, UpTo
  <2>2. F(p[2])[p] = EuclidStep(F(p[2]), p)
    BY <2>1, <1>1 DEF Computes
  <2>3. CASE p[2] = 0
    BY <2>2, <2>3 DEF EuclidStep
  <2>4. CASE p[2] # 0
    <3> DEFINE q == <<p[2], p[1] % p[2]>>
    <3>1. q \in Pairs /\ q[2] < p[2] /\ q[2] \in Nat
      BY <2>4, EuclidDescends DEF Pairs
    <3> HIDE DEF F
    <3>2. Computes(F(p[2]), p[2]) /\ Computes(F(q[2]), q[2])
      BY <1>1, <2>1, <3>1
    <3>3. F(p[2])[q] = F(q[2])[q]
      BY <3>1, <3>2, <2>1, EuclidUnique
    <3>4. EuclidStep(F(p[2]), p) = F(p[2])[q]
      BY <2>4 DEF EuclidStep
    <3> QED BY <2>2, <2>4, <3>1, <3>3, <3>4
  <2> QED BY <2>3, <2>4
<1> HIDE DEF G
<1>3. G = [p \in Pairs |-> IF p[2] = 0 THEN p[1] ELSE G[<<p[2], p[1] % p[2]>>]]
  <2>1. DOMAIN G = Pairs /\ G = [p \in Pairs |-> G[p]]
    BY DEF G
  <2> QED BY <1>2, <2>1
<1>4. Euclid = [p \in Pairs |-> IF p[2] = 0 THEN p[1] ELSE Euclid[<<p[2], p[1] % p[2]>>]]
  BY <1>3 DEF Euclid, Pairs
<1> HIDE DEF Euclid
<1> QED BY <1>4

(* It gives a common divisor, which is a combination of the two.           *)
DividesBoth(g, a, b) ==
    /\ g \in Nat \ {0}
    /\ \E x, y \in Int : a = g * x /\ b = g * y
    /\ \E u, v \in Int : u * a + v * b = g

LEMMA EuclidIsGcd ==
    ASSUME NEW a \in Nat, NEW b \in Nat, a # 0 \/ b # 0
    PROVE  DividesBoth(Euclid[<<a, b>>], a, b)
<1> DEFINE Good == {n \in Nat : \A m \in Nat :
                      m # 0 \/ n # 0 => DividesBoth(Euclid[<<m, n>>], m, n)}
<1>1. ASSUME NEW n \in Nat, \A k \in Nat : k < n => k \in Good
      PROVE  n \in Good
  <2> SUFFICES ASSUME NEW m \in Nat, m # 0 \/ n # 0
               PROVE  DividesBoth(Euclid[<<m, n>>], m, n)
    OBVIOUS
  <2>0. <<m, n>> \in Pairs
    BY DEF Pairs
  <2>1. CASE n = 0
    <3>1. Euclid[<<m, n>>] = m
      BY <2>0, <2>1, EuclidUnrolls
    <3>2. m = m * 1 /\ n = m * 0 /\ 1 * m + 0 * n = m
      BY <2>1
    <3> QED BY <2>1, <3>1, <3>2 DEF DividesBoth
  <2>2. CASE n # 0
    <3> DEFINE r == m % n
               q == m \div n
               g == Euclid[<<n, r>>]
    <3>1. r \in Nat /\ r < n /\ q \in Int /\ m = q * n + r
      BY <2>2
    <3>2. Euclid[<<m, n>>] = g
      BY <2>0, <2>2, EuclidUnrolls
    <3>3. r \in Good
      BY <3>1, <1>1
    <3>4. DividesBoth(g, n, r)
      BY <3>1, <3>3, <2>2
    <3> HIDE DEF r, q, g
    <3>5. PICK x \in Int, y \in Int : n = g * x /\ r = g * y
      BY <3>4 DEF DividesBoth
    <3>6. PICK u \in Int, v \in Int : u * n + v * r = g
      BY <3>4 DEF DividesBoth
    <3>7. g \in Nat \ {0}
      BY <3>4 DEF DividesBoth
    <3>8. m = g * (q * x + y)
      <4>1. q * n = q * (g * x)
        BY <3>5
      <4>2. q * (g * x) + g * y = g * (q * x + y)
        BY <3>1, <3>5, <3>7
      <4> QED BY <3>1, <3>5, <4>1, <4>2
    <3>9. v * m + (u - v * q) * n = g
      <4>1. r = m - q * n
        BY <3>1
      <4>2. u * n + v * (m - q * n) = g
        BY <3>6, <4>1
      <4>3. u * n + v * (m - q * n) = v * m + (u - v * q) * n
        BY <3>1, <3>6
      <4> QED BY <4>2, <4>3
    <3>10. q * x + y \in Int /\ u - v * q \in Int
      BY <3>1, <3>5, <3>6
    <3> QED BY <3>2, <3>5, <3>7, <3>8, <3>9, <3>10 DEF DividesBoth
  <2> QED BY <2>1, <2>2
<1>2. b \in Good
  <2> HIDE DEF Good
  <2> QED BY <1>1, CourseOfValues
<1> QED BY <1>2

-----------------------------------------------------------------------------
(* Reduced fractions.                                                      *)

Fractions ==
    {a \in Int \X (Nat \ {0}) : \E u, v \in Int : u * a[1] + v * a[2] = 1}

LEMMA FractionType ==
    ASSUME NEW a \in Fractions
    PROVE  a[1] \in Int /\ a[2] \in Nat \ {0} /\ a[2] \in Int /\ a[2] > 0 /\ a = <<a[1], a[2]>>
BY DEF Fractions

LEMMA ExactDivision ==
    ASSUME NEW g \in Nat \ {0}, NEW k \in Int
    PROVE  (g * k) \div g = k
<1> DEFINE q == (g * k) \div g
           r == (g * k) % g
<1>1. q \in Int /\ r \in 0 .. g - 1 /\ g * k = g * q + r
  BY g * k \in Int
<1> HIDE DEF q, r
<1>2. r = g * (k - q)
  BY <1>1
<1>3. CASE k - q >= 1
  <2>1. g * (k - q) >= g
    BY <1>1, <1>3
  <2> QED BY <1>1, <1>2, <2>1
<1>4. CASE k - q <= -1
  <2>1. g * (k - q) <= -g
    BY <1>1, <1>4
  <2> QED BY <1>1, <1>2, <2>1
<1>5. CASE k - q = 0
  BY <1>1, <1>5 DEF q
<1> QED BY <1>1, <1>3, <1>4, <1>5

LEMMA Cancels ==
    ASSUME NEW g \in Int, g # 0, NEW a \in Int, NEW b \in Int, g * a = g * b
    PROVE  a = b
<1>1. g * (a - b) = 0
  OBVIOUS
<1> QED BY <1>1

LEMMA NonZeroProduct ==
    ASSUME NEW a \in Int, NEW b \in Int, a # 0, b # 0
    PROVE  a * b \in Int /\ a * b # 0
<1>1. a * b = 0 => a * b = a * 0
  OBVIOUS
<1> QED BY <1>1, Cancels

(* A number of either sign is its size with the sign.                      *)
LEMMA SignedSize ==
    ASSUME NEW n \in Int
    PROVE  /\ Abs(n) \in Nat
           /\ \E s \in {1, -1} : n = s * Abs(n) /\ Abs(n) = s * n
           /\ n # 0 => Abs(n) # 0
BY DEF Abs

(* Ratio gives a reduced fraction of the same value.                       *)
LEMMA RatioReduces ==
    ASSUME NEW n \in Int, NEW d \in Int, d # 0
    PROVE  /\ Ratio(n, d) \in Fractions
           /\ Ratio(n, d)[1] * d = n * Ratio(n, d)[2]
<1> DEFINE g == Euclid[<<Abs(n), Abs(d)>>]
           s == IF d < 0 THEN -1 ELSE 1
<1>1. Abs(n) \in Nat /\ Abs(d) \in Nat /\ Abs(d) # 0
  BY SignedSize
<1>2. PICK t \in {1, -1} : n = t * Abs(n) /\ Abs(n) = t * n
  BY SignedSize
<1>3. s \in {1, -1} /\ d = s * Abs(d) /\ Abs(d) = s * d
  BY DEF Abs
<1>4. DividesBoth(g, Abs(n), Abs(d))
  BY <1>1, EuclidIsGcd
<1>5. Ratio(n, d) = <<(s * n) \div g, (s * d) \div g>>
  BY DEF Ratio
<1> HIDE DEF g, s
<1>6. g \in Nat \ {0}
  BY <1>4 DEF DividesBoth
<1>7. PICK x \in Int, y \in Int : Abs(n) = g * x /\ Abs(d) = g * y
  BY <1>4 DEF DividesBoth
<1>8. PICK u \in Int, v \in Int : u * Abs(n) + v * Abs(d) = g
  BY <1>4 DEF DividesBoth
<1> DEFINE e == s * t
<1>9. e \in {1, -1} /\ e * e = 1
  BY <1>2, <1>3
<1>10. s * n = g * (e * x) /\ n = g * (t * x) /\ d = g * (s * y) /\ s * d = g * y
  <2>1. s * n = s * (t * (g * x)) /\ n = t * (g * x)
    BY <1>2, <1>7
  <2>2. d = s * (g * y) /\ s * d = g * y
    BY <1>3, <1>7
  <2>3. s * (t * (g * x)) = g * (e * x) /\ t * (g * x) = g * (t * x) /\ s * (g * y) = g * (s * y)
    BY <1>2, <1>3, <1>6, <1>7
  <2> QED BY <2>1, <2>2, <2>3
<1> HIDE DEF e
<1>11. e \in Int /\ s \in Int /\ t \in Int
  BY <1>2, <1>3, <1>9
<1>12. e * x \in Int /\ y \in Int
  BY <1>7, <1>11
<1>13. Ratio(n, d) = <<e * x, y>>
  <2>1. (g * (e * x)) \div g = e * x /\ (g * y) \div g = y
    BY <1>6, <1>12, ExactDivision
  <2> QED BY <1>5, <1>10, <2>1
<1>14. y \in Nat \ {0}
  <2>1. g * y > 0
    BY <1>1, <1>7
  <2> QED BY <2>1, <1>6, <1>7
<1>15. u * x + v * y = 1
  <2>1. u * (g * x) + v * (g * y) = g
    BY <1>7, <1>8
  <2>2. u * (g * x) + v * (g * y) = g * (u * x + v * y)
    BY <1>6, <1>7, <1>8
  <2>3. g * (u * x + v * y) = g * 1
    BY <2>1, <2>2, <1>6
  <2>4. u * x + v * y \in Int /\ g \in Int /\ g # 0
    BY <1>6, <1>7, <1>8
  <2> QED BY <2>3, <2>4, Cancels
<1>16. (u * e) * (e * x) + v * y = 1
  <2>1. (u * e) * (e * x) = (e * e) * (u * x)
    BY <1>7, <1>8, <1>11
  <2> QED BY <2>1, <1>9, <1>15, <1>7, <1>8
<1>17. <<e * x, y>> \in Fractions
  <2>1. u * e \in Int
    BY <1>8, <1>11
  <2> QED BY <1>12, <1>14, <1>16, <1>8, <2>1 DEF Fractions
<1>18. (e * x) * d = n * y
  <2>1. (e * x) * (g * (s * y)) = (g * (t * x)) * y
    <3>1. e * s = t
      BY <1>2, <1>3 DEF e
    <3>2. (e * x) * (g * (s * y)) = (e * s) * (x * (g * y))
      BY <1>6, <1>7, <1>11
    <3>3. (g * (t * x)) * y = t * (x * (g * y))
      BY <1>6, <1>7, <1>11
    <3> QED BY <3>1, <3>2, <3>3
  <2> QED BY <1>10, <2>1
<1> QED BY <1>13, <1>17, <1>18

LEMMA DenominatorDivides ==
    ASSUME NEW a \in Fractions, NEW b \in Fractions, a[1] * b[2] = b[1] * a[2]
    PROVE  a[2] <= b[2]
<1>1. PICK u \in Int, v \in Int : u * a[1] + v * a[2] = 1
  BY DEF Fractions
<1>2. /\ a[1] \in Int /\ a[2] \in Int /\ a[2] > 0
      /\ b[1] \in Int /\ b[2] \in Int /\ b[2] > 0
  BY FractionType
<1> DEFINE k == u * b[1] + v * b[2]
<1>3. k \in Int
  BY <1>1, <1>2
<1>4. b[2] = a[2] * k
  <2>1. b[2] = (u * a[1] + v * a[2]) * b[2]
    BY <1>1, <1>2
  <2>2. (u * a[1] + v * a[2]) * b[2] = u * (a[1] * b[2]) + v * (a[2] * b[2])
    BY <1>1, <1>2
  <2>3. u * (b[1] * a[2]) + v * (a[2] * b[2]) = a[2] * k
    BY <1>1, <1>2
  <2> QED BY <2>1, <2>2, <2>3
<1> HIDE DEF k
<1>5. k > 0
  BY <1>2, <1>3, <1>4
<1> QED BY <1>2, <1>3, <1>4, <1>5

(* Reduced fractions of the same value are the same.                       *)
LEMMA SameFraction ==
    ASSUME NEW a \in Fractions, NEW b \in Fractions, a[1] * b[2] = b[1] * a[2]
    PROVE  a = b
<1>1. /\ a[1] \in Int /\ a[2] \in Int /\ a[2] > 0 /\ a = <<a[1], a[2]>>
      /\ b[1] \in Int /\ b[2] \in Int /\ b[2] > 0 /\ b = <<b[1], b[2]>>
  BY FractionType
<1>2. a[2] <= b[2]
  BY DenominatorDivides
<1>3. b[2] <= a[2]
  BY DenominatorDivides
<1>4. a[2] = b[2]
  BY <1>1, <1>2, <1>3
<1>5. a[2] * a[1] = a[2] * b[1]
  BY <1>1, <1>4
<1>6. a[1] = b[1]
  BY <1>1, <1>5, Cancels
<1> QED BY <1>1, <1>4, <1>6

-----------------------------------------------------------------------------
(* A fraction r is the number n / d.                                       *)

Is(r, n, d) == r[1] * d = n * r[2]

LEMMA ScaledOrder ==
    ASSUME NEW d \in Int, d > 0, NEW a \in Int, NEW b \in Int
    PROVE  (d * a <= d * b) <=> (a <= b)
<1>1. CASE a <= b
  <2>1. d * (b - a) >= 0
    BY <1>1
  <2> QED BY <1>1, <2>1
<1>2. CASE a > b
  <2>1. d * (a - b) > 0
    BY <1>2
  <2> QED BY <1>2, <2>1
<1> QED BY <1>1, <1>2

LEMMA RatioIs ==
    ASSUME NEW n \in Int, NEW d \in Int, d # 0
    PROVE  Ratio(n, d) \in Fractions /\ Is(Ratio(n, d), n, d)
BY RatioReduces DEF Is

LEMMA WholeIs ==
    ASSUME NEW n \in Int
    PROVE  Whole(n) \in Fractions /\ \A d \in Int : Is(Whole(n), n * d, d)
<1>1. 0 * n + 1 * 1 = 1
  OBVIOUS
<1> QED BY <1>1 DEF Whole, Fractions, Is

LEMMA IsItself ==
    ASSUME NEW r \in Fractions
    PROVE  Is(r, r[1], r[2])
BY FractionType DEF Is

LEMMA IsScaled ==
    ASSUME NEW r \in Fractions, NEW n \in Int, NEW d \in Int, NEW k \in Int, Is(r, n, d)
    PROVE  Is(r, n * k, d * k)
<1>1. r[1] \in Int /\ r[2] \in Int
  BY FractionType
<1>2. r[1] * (d * k) = (r[1] * d) * k /\ (n * k) * r[2] = (n * r[2]) * k
  BY <1>1
<1> QED BY <1>2 DEF Is

(* Over one denominator, fractions compare like their numerators.          *)
LEMMA SameIs ==
    ASSUME NEW r \in Fractions, NEW s \in Fractions,
           NEW m \in Int, NEW n \in Int, NEW d \in Int, d # 0,
           Is(r, m, d), Is(s, n, d)
    PROVE  r = s <=> m = n
<1>1. /\ r[1] \in Int /\ r[2] \in Int /\ r[2] # 0
      /\ s[1] \in Int /\ s[2] \in Int /\ s[2] # 0
  BY FractionType
<1>2. r[1] * d = m * r[2] /\ s[1] * d = n * s[2]
  BY DEF Is
<1>3. ASSUME r = s PROVE m = n
  <2>1. r[2] * m = r[2] * n
    BY <1>1, <1>2, <1>3
  <2> QED BY <2>1, <1>1, Cancels
<1>4. ASSUME m = n PROVE r = s
  <2>1. d * (r[1] * s[2]) = (r[1] * d) * s[2]
    BY <1>1
  <2>2. d * (s[1] * r[2]) = (s[1] * d) * r[2]
    BY <1>1
  <2>3. (m * r[2]) * s[2] = (m * s[2]) * r[2]
    BY <1>1
  <2>4. d * (r[1] * s[2]) = d * (s[1] * r[2])
    BY <2>1, <2>2, <2>3, <1>2, <1>4
  <2>5. r[1] * s[2] \in Int /\ s[1] * r[2] \in Int
    BY <1>1
  <2>6. r[1] * s[2] = s[1] * r[2]
    BY <2>4, <2>5, Cancels
  <2> QED BY <2>6, SameFraction
<1> QED BY <1>3, <1>4

LEMMA OrderIs ==
    ASSUME NEW r \in Fractions, NEW s \in Fractions,
           NEW m \in Int, NEW n \in Int, NEW d \in Int, d > 0,
           Is(r, m, d), Is(s, n, d)
    PROVE  (AtMost(r, s) <=> m <= n) /\ (Below(r, s) <=> m < n)
<1>1. /\ r[1] \in Int /\ r[2] \in Int /\ r[2] > 0
      /\ s[1] \in Int /\ s[2] \in Int /\ s[2] > 0
  BY FractionType
<1>2. r[1] * d = m * r[2] /\ s[1] * d = n * s[2]
  BY DEF Is
<1> DEFINE a == r[1] * s[2]
           b == s[1] * r[2]
           k == r[2] * s[2]
<1>3. a \in Int /\ b \in Int /\ k \in Int /\ k > 0
  BY <1>1
<1>4. d * a = k * m
  <2>1. d * a = (r[1] * d) * s[2]
    BY <1>1
  <2>2. (m * r[2]) * s[2] = k * m
    BY <1>1
  <2> QED BY <2>1, <2>2, <1>2
<1>5. d * b = k * n
  <2>1. d * b = (s[1] * d) * r[2]
    BY <1>1
  <2>2. (n * s[2]) * r[2] = k * n
    BY <1>1
  <2> QED BY <2>1, <2>2, <1>2
<1>6. (a <= b <=> m <= n) /\ (b <= a <=> n <= m)
  <2> HIDE DEF a, b, k
  <2>1. (d * a <= d * b <=> a <= b) /\ (d * b <= d * a <=> b <= a)
    BY <1>3, ScaledOrder
  <2>2. (k * m <= k * n <=> m <= n) /\ (k * n <= k * m <=> n <= m)
    BY <1>3, ScaledOrder
  <2> QED BY <2>1, <2>2, <1>4, <1>5
<1>7. (AtMost(r, s) <=> a <= b) /\ (Below(r, s) <=> a < b)
  BY DEF AtMost, Below
<1> HIDE DEF a, b
<1> QED BY <1>3, <1>6, <1>7

LEMMA PlusIs ==
    ASSUME NEW r \in Fractions, NEW s \in Fractions,
           NEW m \in Int, NEW n \in Int, NEW d \in Int, d # 0,
           Is(r, m, d), Is(s, n, d)
    PROVE  Plus(r, s) \in Fractions /\ Is(Plus(r, s), m + n, d)
<1>1. /\ r[1] \in Int /\ r[2] \in Int /\ r[2] # 0
      /\ s[1] \in Int /\ s[2] \in Int /\ s[2] # 0
  BY FractionType
<1> DEFINE a == r[1] * s[2] + s[1] * r[2]
           b == r[2] * s[2]
           p == Plus(r, s)
<1>2. a \in Int /\ b \in Int /\ b # 0
  BY <1>1
<1>3. p = Ratio(a, b)
  BY DEF Plus
<1>4. d * a = (m + n) * b
  <2>1. r[1] * d = m * r[2] /\ s[1] * d = n * s[2]
    BY DEF Is
  <2>2. d * a = (r[1] * d) * s[2] + (s[1] * d) * r[2]
    BY <1>1
  <2>3. (m * r[2]) * s[2] + (n * s[2]) * r[2] = (m + n) * b
    BY <1>1
  <2> QED BY <2>1, <2>2, <2>3
<1> HIDE DEF a, b, p
<1>5. p \in Fractions /\ p[1] * b = a * p[2]
  BY <1>2, <1>3, RatioReduces
<1>6. p[1] \in Int /\ p[2] \in Int
  BY <1>5, FractionType
<1>7. b * (p[1] * d) = b * ((m + n) * p[2])
  <2>1. b * (p[1] * d) = (p[1] * b) * d
    BY <1>2, <1>6
  <2>2. (a * p[2]) * d = (d * a) * p[2]
    BY <1>2, <1>6
  <2>3. ((m + n) * b) * p[2] = b * ((m + n) * p[2])
    BY <1>2, <1>6
  <2> QED BY <2>1, <2>2, <2>3, <1>4, <1>5
<1>8. p[1] * d \in Int /\ (m + n) * p[2] \in Int
  BY <1>6
<1>9. p[1] * d = (m + n) * p[2]
  BY <1>2, <1>7, <1>8, Cancels
<1> QED BY <1>5, <1>9 DEF Is, p

LEMMA MinusIs ==
    ASSUME NEW r \in Fractions, NEW s \in Fractions,
           NEW m \in Int, NEW n \in Int, NEW d \in Int, d # 0,
           Is(r, m, d), Is(s, n, d)
    PROVE  Minus(r, s) \in Fractions /\ Is(Minus(r, s), m - n, d)
<1>1. /\ r[1] \in Int /\ r[2] \in Int /\ r[2] # 0
      /\ s[1] \in Int /\ s[2] \in Int /\ s[2] # 0
  BY FractionType
<1> DEFINE a == r[1] * s[2] - s[1] * r[2]
           b == r[2] * s[2]
           p == Minus(r, s)
<1>2. a \in Int /\ b \in Int /\ b # 0
  BY <1>1
<1>3. p = Ratio(a, b)
  BY DEF Minus
<1>4. d * a = (m - n) * b
  <2>1. r[1] * d = m * r[2] /\ s[1] * d = n * s[2]
    BY DEF Is
  <2>2. d * a = (r[1] * d) * s[2] - (s[1] * d) * r[2]
    BY <1>1
  <2>3. (m * r[2]) * s[2] - (n * s[2]) * r[2] = (m - n) * b
    BY <1>1
  <2> QED BY <2>1, <2>2, <2>3
<1> HIDE DEF a, b, p
<1>5. p \in Fractions /\ p[1] * b = a * p[2]
  BY <1>2, <1>3, RatioReduces
<1>6. p[1] \in Int /\ p[2] \in Int
  BY <1>5, FractionType
<1>7. b * (p[1] * d) = b * ((m - n) * p[2])
  <2>1. b * (p[1] * d) = (p[1] * b) * d
    BY <1>2, <1>6
  <2>2. (a * p[2]) * d = (d * a) * p[2]
    BY <1>2, <1>6
  <2>3. ((m - n) * b) * p[2] = b * ((m - n) * p[2])
    BY <1>2, <1>6
  <2> QED BY <2>1, <2>2, <2>3, <1>4, <1>5
<1>8. p[1] * d \in Int /\ (m - n) * p[2] \in Int
  BY <1>6
<1>9. p[1] * d = (m - n) * p[2]
  BY <1>2, <1>7, <1>8, Cancels
<1> QED BY <1>5, <1>9 DEF Is, p

LEMMA TimesIs ==
    ASSUME NEW r \in Fractions, NEW s \in Fractions,
           NEW m \in Int, NEW n \in Int, NEW d \in Int, NEW e \in Int,
           Is(r, m, d), Is(s, n, e)
    PROVE  Times(r, s) \in Fractions /\ Is(Times(r, s), m * n, d * e)
<1>1. /\ r[1] \in Int /\ r[2] \in Int /\ r[2] # 0
      /\ s[1] \in Int /\ s[2] \in Int /\ s[2] # 0
  BY FractionType
<1> DEFINE a == r[1] * s[1]
           b == r[2] * s[2]
           p == Times(r, s)
<1>2. a \in Int /\ b \in Int /\ b # 0
  BY <1>1
<1>3. p = Ratio(a, b)
  BY DEF Times
<1>4. (d * e) * a = (m * n) * b
  <2>1. r[1] * d = m * r[2] /\ s[1] * e = n * s[2]
    BY DEF Is
  <2>2. (d * e) * a = (r[1] * d) * (s[1] * e)
    BY <1>1
  <2>3. (m * r[2]) * (n * s[2]) = (m * n) * b
    BY <1>1
  <2> QED BY <2>1, <2>2, <2>3
<1> HIDE DEF a, b, p
<1>5. p \in Fractions /\ p[1] * b = a * p[2]
  BY <1>2, <1>3, RatioReduces
<1>6. p[1] \in Int /\ p[2] \in Int
  BY <1>5, FractionType
<1>7. b * (p[1] * (d * e)) = b * ((m * n) * p[2])
  <2>1. b * (p[1] * (d * e)) = (p[1] * b) * (d * e)
    BY <1>2, <1>6
  <2>2. (a * p[2]) * (d * e) = ((d * e) * a) * p[2]
    BY <1>2, <1>6
  <2>3. ((m * n) * b) * p[2] = b * ((m * n) * p[2])
    BY <1>2, <1>6
  <2> QED BY <2>1, <2>2, <2>3, <1>4, <1>5
<1>8. p[1] * (d * e) \in Int /\ (m * n) * p[2] \in Int
  BY <1>6
<1>9. p[1] * (d * e) = (m * n) * p[2]
  BY <1>2, <1>7, <1>8, Cancels
<1> QED BY <1>5, <1>9 DEF Is, p

(* A quotient is the number whose product with the divisor is the dividend.*)
LEMMA OverUndoesTimes ==
    ASSUME NEW r \in Fractions, NEW s \in Fractions, s # Zero
    PROVE  Over(r, s) \in Fractions /\ Times(Over(r, s), s) = r
<1>1. /\ r[1] \in Int /\ r[2] \in Int /\ r[2] # 0
      /\ s[1] \in Int /\ s[2] \in Int /\ s[2] # 0
  BY FractionType
<1>2. s[1] # 0
  <2>1. Zero \in Fractions /\ Is(Zero, 0, s[2])
    BY WholeIs, <1>1 DEF Zero
  <2>2. Is(s, s[1], s[2])
    BY IsItself
  <2> QED BY <2>1, <2>2, <1>1, SameIs
<1> DEFINE a == r[1] * s[2]
           b == r[2] * s[1]
           p == Over(r, s)
<1>3. a \in Int /\ b \in Int /\ b # 0
  <2>1. r[2] * s[1] \in Int /\ r[2] * s[1] # 0
    BY <1>1, <1>2, NonZeroProduct
  <2>2. r[1] * s[2] \in Int
    BY <1>1
  <2> QED BY <2>1, <2>2
<1>4. p = Ratio(a, b)
  BY DEF Over
<1>5. p \in Fractions /\ Is(p, a, b)
  BY <1>3, <1>4, RatioIs
<1>6. Is(s, s[1], s[2]) /\ Is(r, r[1], r[2])
  BY IsItself
<1> DEFINE k == s[1] * s[2]
<1>7. Times(p, s) \in Fractions /\ Is(Times(p, s), a * s[1], b * s[2])
  <2> HIDE DEF a, b, p
  <2> QED BY <1>1, <1>3, <1>5, <1>6, TimesIs
<1>8. k \in Int /\ k # 0
  BY <1>1, <1>2, NonZeroProduct
<1>9. a * s[1] = r[1] * k /\ b * s[2] = r[2] * k
  BY <1>1
<1>10. Is(r, r[1] * k, r[2] * k)
  <2> HIDE DEF k
  <2> QED BY <1>1, <1>6, <1>8, IsScaled
<1>11. r[1] * k \in Int /\ r[2] * k \in Int /\ r[2] * k # 0
  <2> HIDE DEF k
  <2> QED BY <1>1, <1>8, NonZeroProduct
<1> HIDE DEF a, b, p, k
<1>12. Times(p, s) = r
  BY <1>7, <1>9, <1>10, <1>11, SameIs
<1> QED BY <1>5, <1>12 DEF p

-----------------------------------------------------------------------------
(* Common denominators.                                                    *)

Over2(a, b, d, w, x) ==
    d \in Int /\ d > 0 /\ w \in Int /\ x \in Int /\ Is(a, w, d) /\ Is(b, x, d)

LEMMA Common2 ==
    ASSUME NEW a \in Fractions, NEW b \in Fractions
    PROVE  \E d, w, x \in Int : Over2(a, b, d, w, x)
<1>1. /\ a[1] \in Int /\ a[2] \in Int /\ a[2] > 0 /\ Is(a, a[1], a[2])
      /\ b[1] \in Int /\ b[2] \in Int /\ b[2] > 0 /\ Is(b, b[1], b[2])
  BY FractionType, IsItself
<1>2. Is(a, a[1] * b[2], a[2] * b[2]) /\ Is(b, b[1] * a[2], b[2] * a[2])
  BY <1>1, IsScaled
<1>3. a[2] * b[2] = b[2] * a[2] /\ a[2] * b[2] \in Int /\ a[2] * b[2] > 0
  BY <1>1
<1>4. a[1] * b[2] \in Int /\ b[1] * a[2] \in Int
  BY <1>1
<1> QED BY <1>2, <1>3, <1>4 DEF Over2

LEMMA Rescaled ==
    ASSUME NEW a \in Fractions, NEW b \in Fractions, NEW d, NEW w, NEW x,
           Over2(a, b, d, w, x), NEW k \in Int, k > 0
    PROVE  Over2(a, b, d * k, w * k, x * k)
<1>1. Is(a, w * k, d * k) /\ Is(b, x * k, d * k)
  BY IsScaled DEF Over2
<1>2. d * k \in Int /\ d * k > 0 /\ w * k \in Int /\ x * k \in Int
  BY DEF Over2
<1> QED BY <1>1, <1>2 DEF Over2

LEMMA Common4 ==
    ASSUME NEW a \in Fractions, NEW b \in Fractions, NEW c \in Fractions, NEW e \in Fractions
    PROVE  \E d, w, x, y, z \in Int : Over2(a, b, d, w, x) /\ Over2(c, e, d, y, z)
<1>1. PICK d \in Int, w \in Int, x \in Int : Over2(a, b, d, w, x)
  BY Common2
<1>2. PICK f \in Int, y \in Int, z \in Int : Over2(c, e, f, y, z)
  BY Common2
<1>3. d > 0 /\ f > 0
  BY <1>1, <1>2 DEF Over2
<1>4. Over2(a, b, d * f, w * f, x * f)
  BY <1>1, <1>3, Rescaled
<1>5. Over2(c, e, f * d, y * d, z * d)
  BY <1>2, <1>3, Rescaled
<1>6. f * d = d * f /\ d * f \in Int /\ w * f \in Int /\ x * f \in Int /\ y * d \in Int /\ z * d \in Int
  OBVIOUS
<1> QED BY <1>4, <1>5, <1>6

LEMMA Common6 ==
    ASSUME NEW a \in Fractions, NEW b \in Fractions, NEW c \in Fractions,
           NEW e \in Fractions, NEW g \in Fractions, NEW h \in Fractions
    PROVE  \E d, u, v, w, x, y, z \in Int :
              Over2(a, b, d, u, v) /\ Over2(c, e, d, w, x) /\ Over2(g, h, d, y, z)
<1>1. PICK d \in Int, u \in Int, v \in Int, w \in Int, x \in Int :
         Over2(a, b, d, u, v) /\ Over2(c, e, d, w, x)
  BY Common4
<1>2. PICK f \in Int, y \in Int, z \in Int : Over2(g, h, f, y, z)
  BY Common2
<1>3. d > 0 /\ f > 0
  BY <1>1, <1>2 DEF Over2
<1>4. Over2(a, b, d * f, u * f, v * f) /\ Over2(c, e, d * f, w * f, x * f)
  BY <1>1, <1>3, Rescaled
<1>5. Over2(g, h, f * d, y * d, z * d)
  BY <1>2, <1>3, Rescaled
<1>6. /\ f * d = d * f /\ d * f \in Int /\ u * f \in Int /\ v * f \in Int
      /\ w * f \in Int /\ x * f \in Int /\ y * d \in Int /\ z * d \in Int
  OBVIOUS
<1> QED BY <1>4, <1>5, <1>6

(* The reduced fractions are those that IsRational accepts.                *)
LEMMA RationalIsFraction ==
    ASSUME NEW a, IsRational(a)
    PROVE  a \in Fractions
<1>1. a[1] \in Int /\ a[2] \in Int /\ a[2] # 0 /\ a = Ratio(a[1], a[2])
  BY DEF IsRational
<1> QED BY <1>1, RatioIs

-----------------------------------------------------------------------------
(* Sums and differences.                                                   *)

LEMMA ZeroIs == Zero \in Fractions /\ \A d \in Int : Is(Zero, 0, d)
BY WholeIs, 0 \in Int DEF Zero

LEMMA PlusType ==
    ASSUME NEW a \in Fractions, NEW b \in Fractions
    PROVE  Plus(a, b) \in Fractions /\ Minus(a, b) \in Fractions
<1>1. PICK d \in Int, w \in Int, x \in Int : Over2(a, b, d, w, x)
  BY Common2
<1> QED BY <1>1, PlusIs, MinusIs DEF Over2

LEMMA PlusCommutes ==
    ASSUME NEW a \in Fractions, NEW b \in Fractions
    PROVE  Plus(a, b) = Plus(b, a)
<1>1. PICK d \in Int, w \in Int, x \in Int : Over2(a, b, d, w, x)
  BY Common2
<1>2. d # 0
  BY <1>1 DEF Over2
<1>3. Plus(a, b) \in Fractions /\ Is(Plus(a, b), w + x, d)
  BY <1>1, <1>2, PlusIs DEF Over2
<1>4. Plus(b, a) \in Fractions /\ Is(Plus(b, a), x + w, d)
  BY <1>1, <1>2, PlusIs DEF Over2
<1>5. w + x = x + w /\ w + x \in Int
  OBVIOUS
<1> QED BY <1>2, <1>3, <1>4, <1>5, SameIs

LEMMA PlusAssociates ==
    ASSUME NEW a \in Fractions, NEW b \in Fractions, NEW c \in Fractions
    PROVE  Plus(Plus(a, b), c) = Plus(a, Plus(b, c))
<1>1. PICK d \in Int, w \in Int, x \in Int, y \in Int, z \in Int :
         Over2(a, b, d, w, x) /\ Over2(c, c, d, y, z)
  BY Common4
<1>2. d # 0 /\ Is(a, w, d) /\ Is(b, x, d) /\ Is(c, y, d)
  BY <1>1 DEF Over2
<1>3. Plus(a, b) \in Fractions /\ Is(Plus(a, b), w + x, d) /\ w + x \in Int
  BY <1>2, PlusIs
<1>4. Plus(b, c) \in Fractions /\ Is(Plus(b, c), x + y, d) /\ x + y \in Int
  BY <1>2, PlusIs
<1>5. /\ Plus(Plus(a, b), c) \in Fractions
      /\ Is(Plus(Plus(a, b), c), (w + x) + y, d)
  BY <1>2, <1>3, PlusIs
<1>6. /\ Plus(a, Plus(b, c)) \in Fractions
      /\ Is(Plus(a, Plus(b, c)), w + (x + y), d)
  BY <1>2, <1>4, PlusIs
<1>7. (w + x) + y = w + (x + y) /\ w + (x + y) \in Int
  OBVIOUS
<1> QED BY <1>2, <1>5, <1>6, <1>7, SameIs

LEMMA PlusZero ==
    ASSUME NEW a \in Fractions
    PROVE  Plus(a, Zero) = a /\ Plus(Zero, a) = a /\ Minus(a, Zero) = a /\ Minus(a, a) = Zero
<1>1. /\ a[1] \in Int /\ a[2] \in Int /\ a[2] # 0 /\ Is(a, a[1], a[2])
      /\ Zero \in Fractions /\ Is(Zero, 0, a[2])
  BY FractionType, IsItself, ZeroIs
<1>2. Plus(a, Zero) \in Fractions /\ Is(Plus(a, Zero), a[1] + 0, a[2])
  BY <1>1, PlusIs
<1>3. Minus(a, Zero) \in Fractions /\ Is(Minus(a, Zero), a[1] - 0, a[2])
  BY <1>1, MinusIs
<1>4. Minus(a, a) \in Fractions /\ Is(Minus(a, a), a[1] - a[1], a[2])
  BY <1>1, MinusIs
<1>5. a[1] + 0 = a[1] /\ a[1] - 0 = a[1] /\ a[1] - a[1] = 0
  BY <1>1
<1>6. Plus(a, Zero) = a
  BY <1>1, <1>2, <1>5, SameIs
<1>7. Minus(a, Zero) = a
  BY <1>1, <1>3, <1>5, SameIs
<1>8. Minus(a, a) = Zero
  BY <1>1, <1>4, <1>5, SameIs
<1> QED BY <1>1, <1>6, <1>7, <1>8, PlusCommutes

LEMMA MinusUndoesPlus ==
    ASSUME NEW a \in Fractions, NEW b \in Fractions
    PROVE  Minus(Plus(a, b), b) = a /\ Plus(Minus(a, b), b) = a
<1>1. PICK d \in Int, w \in Int, x \in Int : Over2(a, b, d, w, x)
  BY Common2
<1>2. d # 0 /\ Is(a, w, d) /\ Is(b, x, d)
  BY <1>1 DEF Over2
<1>3. Plus(a, b) \in Fractions /\ Is(Plus(a, b), w + x, d) /\ w + x \in Int
  BY <1>2, PlusIs
<1>4. Minus(a, b) \in Fractions /\ Is(Minus(a, b), w - x, d) /\ w - x \in Int
  BY <1>2, MinusIs
<1>5. /\ Minus(Plus(a, b), b) \in Fractions
      /\ Is(Minus(Plus(a, b), b), (w + x) - x, d)
  BY <1>2, <1>3, MinusIs
<1>6. /\ Plus(Minus(a, b), b) \in Fractions
      /\ Is(Plus(Minus(a, b), b), (w - x) + x, d)
  BY <1>2, <1>4, PlusIs
<1>7. (w + x) - x = w /\ (w - x) + x = w
  OBVIOUS
<1> QED BY <1>2, <1>5, <1>6, <1>7, SameIs

(* Rearranging sums.                                                       *)
LEMMA PlusSwaps ==
    ASSUME NEW a \in Fractions, NEW b \in Fractions, NEW c \in Fractions
    PROVE  Plus(a, Plus(b, c)) = Plus(b, Plus(a, c))
<1>1. Plus(a, Plus(b, c)) = Plus(Plus(a, b), c) /\ Plus(b, Plus(a, c)) = Plus(Plus(b, a), c)
  BY PlusAssociates
<1> QED BY <1>1, PlusCommutes

LEMMA PlusReplaces ==
    ASSUME NEW a \in Fractions, NEW b \in Fractions, NEW c \in Fractions
    PROVE  Plus(a, b) = Plus(Plus(c, b), Minus(a, c))
<1>1. Plus(c, b) \in Fractions /\ Minus(a, c) \in Fractions
  BY PlusType
<1>2. Plus(Plus(c, b), Minus(a, c)) = Plus(Minus(a, c), Plus(c, b))
  BY <1>1, PlusCommutes
<1>3. Plus(Minus(a, c), Plus(c, b)) = Plus(Plus(Minus(a, c), c), b)
  BY <1>1, PlusAssociates
<1> QED BY <1>2, <1>3, MinusUndoesPlus

LEMMA MinusPairs ==
    ASSUME NEW a \in Fractions, NEW b \in Fractions, NEW c \in Fractions, NEW e \in Fractions
    PROVE  Plus(Minus(a, b), Minus(c, e)) = Minus(Plus(a, c), Plus(b, e))
<1>1. PICK d \in Int, w \in Int, x \in Int, y \in Int, z \in Int :
         Over2(a, b, d, w, x) /\ Over2(c, e, d, y, z)
  BY Common4
<1>2. d # 0 /\ Is(a, w, d) /\ Is(b, x, d) /\ Is(c, y, d) /\ Is(e, z, d)
  BY <1>1 DEF Over2
<1>3. /\ Minus(a, b) \in Fractions /\ Is(Minus(a, b), w - x, d) /\ w - x \in Int
      /\ Minus(c, e) \in Fractions /\ Is(Minus(c, e), y - z, d) /\ y - z \in Int
  BY <1>2, MinusIs
<1>4. /\ Plus(a, c) \in Fractions /\ Is(Plus(a, c), w + y, d) /\ w + y \in Int
      /\ Plus(b, e) \in Fractions /\ Is(Plus(b, e), x + z, d) /\ x + z \in Int
  BY <1>2, PlusIs
<1>5. /\ Plus(Minus(a, b), Minus(c, e)) \in Fractions
      /\ Is(Plus(Minus(a, b), Minus(c, e)), (w - x) + (y - z), d)
  BY <1>2, <1>3, PlusIs
<1>6. /\ Minus(Plus(a, c), Plus(b, e)) \in Fractions
      /\ Is(Minus(Plus(a, c), Plus(b, e)), (w + y) - (x + z), d)
  BY <1>2, <1>4, MinusIs
<1>7. (w - x) + (y - z) = (w + y) - (x + z) /\ (w + y) - (x + z) \in Int
  OBVIOUS
<1> QED BY <1>2, <1>5, <1>6, <1>7, SameIs

LEMMA PlusPairs ==
    ASSUME NEW a \in Fractions, NEW b \in Fractions, NEW c \in Fractions, NEW e \in Fractions
    PROVE  Plus(Plus(a, b), Plus(c, e)) = Plus(Plus(a, c), Plus(b, e))
<1>1. /\ Plus(Plus(a, b), Plus(c, e)) = Plus(a, Plus(b, Plus(c, e)))
      /\ Plus(Plus(a, c), Plus(b, e)) = Plus(a, Plus(c, Plus(b, e)))
  BY PlusAssociates, PlusType
<1> QED BY <1>1, PlusSwaps

-----------------------------------------------------------------------------
(* Products and quotients.                                                 *)

LEMMA TimesType ==
    ASSUME NEW a \in Fractions, NEW b \in Fractions
    PROVE  Times(a, b) \in Fractions
BY TimesIs, IsItself, FractionType

LEMMA TimesCommutes ==
    ASSUME NEW a \in Fractions, NEW b \in Fractions
    PROVE  Times(a, b) = Times(b, a)
<1>1. a[1] \in Int /\ a[2] \in Int /\ b[1] \in Int /\ b[2] \in Int
  BY FractionType
<1>2. a[1] * b[1] = b[1] * a[1] /\ a[2] * b[2] = b[2] * a[2]
  BY <1>1
<1> QED BY <1>2 DEF Times

LEMMA TimesAssociates ==
    ASSUME NEW a \in Fractions, NEW b \in Fractions, NEW c \in Fractions
    PROVE  Times(Times(a, b), c) = Times(a, Times(b, c))
<1>1. /\ a[1] \in Int /\ a[2] \in Int /\ a[2] # 0 /\ Is(a, a[1], a[2])
      /\ b[1] \in Int /\ b[2] \in Int /\ b[2] # 0 /\ Is(b, b[1], b[2])
      /\ c[1] \in Int /\ c[2] \in Int /\ c[2] # 0 /\ Is(c, c[1], c[2])
  BY FractionType, IsItself
<1>2. /\ Times(a, b) \in Fractions /\ Is(Times(a, b), a[1] * b[1], a[2] * b[2])
      /\ a[1] * b[1] \in Int /\ a[2] * b[2] \in Int
  BY <1>1, TimesIs
<1>3. /\ Times(b, c) \in Fractions /\ Is(Times(b, c), b[1] * c[1], b[2] * c[2])
      /\ b[1] * c[1] \in Int /\ b[2] * c[2] \in Int
  BY <1>1, TimesIs
<1>4. /\ Times(Times(a, b), c) \in Fractions
      /\ Is(Times(Times(a, b), c), (a[1] * b[1]) * c[1], (a[2] * b[2]) * c[2])
  BY <1>1, <1>2, TimesIs
<1>5. /\ Times(a, Times(b, c)) \in Fractions
      /\ Is(Times(a, Times(b, c)), a[1] * (b[1] * c[1]), a[2] * (b[2] * c[2]))
  BY <1>1, <1>3, TimesIs
<1>6. /\ (a[1] * b[1]) * c[1] = a[1] * (b[1] * c[1])
      /\ (a[2] * b[2]) * c[2] = a[2] * (b[2] * c[2])
      /\ a[1] * (b[1] * c[1]) \in Int /\ a[2] * (b[2] * c[2]) \in Int
  BY <1>1
<1>7. a[2] * (b[2] * c[2]) # 0
  BY <1>1, NonZeroProduct
<1> QED BY <1>4, <1>5, <1>6, <1>7, SameIs

LEMMA TimesDistributes ==
    ASSUME NEW a \in Fractions, NEW b \in Fractions, NEW c \in Fractions
    PROVE  /\ Times(a, Plus(b, c)) = Plus(Times(a, b), Times(a, c))
           /\ Times(a, Minus(b, c)) = Minus(Times(a, b), Times(a, c))
<1>1. a[1] \in Int /\ a[2] \in Int /\ a[2] # 0 /\ Is(a, a[1], a[2])
  BY FractionType, IsItself
<1>2. PICK d \in Int, x \in Int, y \in Int : Over2(b, c, d, x, y)
  BY Common2
<1>3. d # 0 /\ Is(b, x, d) /\ Is(c, y, d)
  BY <1>2 DEF Over2
<1> DEFINE k == a[2] * d
<1>4. k \in Int /\ k # 0
  BY <1>1, <1>3, NonZeroProduct
<1>5. /\ Times(a, b) \in Fractions /\ Is(Times(a, b), a[1] * x, k)
      /\ Times(a, c) \in Fractions /\ Is(Times(a, c), a[1] * y, k)
      /\ a[1] * x \in Int /\ a[1] * y \in Int
  BY <1>1, <1>3, TimesIs
<1>6. /\ Plus(b, c) \in Fractions /\ Is(Plus(b, c), x + y, d)
      /\ Minus(b, c) \in Fractions /\ Is(Minus(b, c), x - y, d)
  BY <1>3, PlusIs, MinusIs
<1>7. /\ Times(a, Plus(b, c)) \in Fractions /\ Is(Times(a, Plus(b, c)), a[1] * (x + y), k)
      /\ Times(a, Minus(b, c)) \in Fractions /\ Is(Times(a, Minus(b, c)), a[1] * (x - y), k)
  BY <1>1, <1>3, <1>6, TimesIs
<1> HIDE DEF k
<1>8. /\ Plus(Times(a, b), Times(a, c)) \in Fractions
      /\ Is(Plus(Times(a, b), Times(a, c)), a[1] * x + a[1] * y, k)
      /\ Minus(Times(a, b), Times(a, c)) \in Fractions
      /\ Is(Minus(Times(a, b), Times(a, c)), a[1] * x - a[1] * y, k)
  BY <1>4, <1>5, PlusIs, MinusIs
<1>9. /\ a[1] * (x + y) = a[1] * x + a[1] * y /\ a[1] * (x + y) \in Int
      /\ a[1] * (x - y) = a[1] * x - a[1] * y /\ a[1] * (x - y) \in Int
  BY <1>1
<1>10. Times(a, Plus(b, c)) = Plus(Times(a, b), Times(a, c))
  BY <1>4, <1>7, <1>8, <1>9, SameIs
<1>11. Times(a, Minus(b, c)) = Minus(Times(a, b), Times(a, c))
  BY <1>4, <1>7, <1>8, <1>9, SameIs
<1> QED BY <1>10, <1>11

LEMMA TimesUnits ==
    ASSUME NEW a \in Fractions
    PROVE  /\ Times(a, Zero) = Zero /\ Times(Zero, a) = Zero
           /\ Times(Whole(1), a) = a /\ Times(a, Whole(1)) = a
           /\ Times(Whole(-1), a) = Minus(Zero, a)
<1>1. a[1] \in Int /\ a[2] \in Int /\ a[2] # 0 /\ Is(a, a[1], a[2])
  BY FractionType, IsItself
<1>2. Zero \in Fractions /\ Is(Zero, 0, 1) /\ Is(Zero, 0, a[2])
  BY <1>1, ZeroIs
<1>3. /\ Whole(1) \in Fractions /\ Is(Whole(1), 1, 1)
      /\ Whole(-1) \in Fractions /\ Is(Whole(-1), -1, 1)
  BY WholeIs, 1 \in Int, -1 \in Int, 1 * 1 = 1, (-1) * 1 = -1
<1>4. /\ Times(a, Zero) \in Fractions /\ Is(Times(a, Zero), a[1] * 0, a[2] * 1)
      /\ Times(Zero, a) \in Fractions /\ Is(Times(Zero, a), 0 * a[1], 1 * a[2])
      /\ Times(Whole(1), a) \in Fractions /\ Is(Times(Whole(1), a), 1 * a[1], 1 * a[2])
      /\ Times(a, Whole(1)) \in Fractions /\ Is(Times(a, Whole(1)), a[1] * 1, a[2] * 1)
      /\ Times(Whole(-1), a) \in Fractions /\ Is(Times(Whole(-1), a), (-1) * a[1], 1 * a[2])
  BY <1>1, <1>2, <1>3, TimesIs, -1 \in Int
<1>5. /\ a[1] * 0 = 0 /\ 0 * a[1] = 0 /\ 1 * a[1] = a[1] /\ a[1] * 1 = a[1]
      /\ (-1) * a[1] = 0 - a[1] /\ a[2] * 1 = a[2] /\ 1 * a[2] = a[2] /\ 0 - a[1] \in Int
  BY <1>1
<1>6. Minus(Zero, a) \in Fractions /\ Is(Minus(Zero, a), 0 - a[1], a[2])
  BY <1>1, <1>2, MinusIs
<1>7. Times(a, Zero) = Zero /\ Times(Zero, a) = Zero
  BY <1>1, <1>2, <1>4, <1>5, SameIs
<1>8. Times(Whole(1), a) = a /\ Times(a, Whole(1)) = a
  BY <1>1, <1>4, <1>5, SameIs
<1>9. Times(Whole(-1), a) = Minus(Zero, a)
  BY <1>1, <1>4, <1>5, <1>6, SameIs
<1> QED BY <1>7, <1>8, <1>9

-----------------------------------------------------------------------------
(* Signs and order.                                                        *)

LEMMA SignIs ==
    ASSUME NEW a \in Fractions, NEW n \in Int, NEW d \in Int, d > 0, Is(a, n, d)
    PROVE  /\ a[1] > 0 <=> n > 0
           /\ a[1] < 0 <=> n < 0
           /\ a = Zero <=> n = 0
<1>1. a[1] \in Int /\ a[2] \in Int /\ a[2] > 0
  BY FractionType
<1>2. a[1] * d = n * a[2]
  BY DEF Is
<1>3. ASSUME NEW k \in Int, NEW m \in Int, k > 0
      PROVE  (m > 0 => m * k > 0) /\ (m < 0 => m * k < 0) /\ (m = 0 => m * k = 0)
  <2>1. m > 0 => m * k > 0
    BY <1>3
  <2>2. m < 0 => m * k < 0
    <3>1. m < 0 => (-m) * k > 0
      BY <1>3
    <3>2. (-m) * k = -(m * k)
      BY <1>3
    <3> QED BY <3>1, <3>2, <1>3
  <2>3. m = 0 => m * k = 0
    OBVIOUS
  <2> QED BY <2>1, <2>2, <2>3
<1>4. /\ a[1] > 0 => a[1] * d > 0
      /\ a[1] < 0 => a[1] * d < 0
      /\ a[1] = 0 => a[1] * d = 0
  BY <1>1, <1>3
<1>5. /\ n > 0 => n * a[2] > 0
      /\ n < 0 => n * a[2] < 0
      /\ n = 0 => n * a[2] = 0
  BY <1>1, <1>3
<1>6. (a[1] > 0 <=> n > 0) /\ (a[1] < 0 <=> n < 0)
  BY <1>1, <1>2, <1>4, <1>5
<1>7. Zero \in Fractions /\ Is(Zero, 0, d)
  BY ZeroIs
<1> QED BY <1>6, <1>7, SameIs

LEMMA SignOf ==
    ASSUME NEW a \in Fractions
    PROVE  /\ a[1] \in Int /\ a[2] \in Int /\ a[2] > 0
           /\ Below(Zero, a) <=> a[1] > 0
           /\ AtMost(Zero, a) <=> a[1] >= 0
           /\ a = Zero <=> a[1] = 0
<1>1. a[1] \in Int /\ a[2] \in Int /\ a[2] > 0 /\ a[2] # 0 /\ Is(a, a[1], a[2])
  BY FractionType, IsItself
<1>2. Zero \in Fractions /\ Is(Zero, 0, a[2])
  BY <1>1, ZeroIs
<1>3. (AtMost(Zero, a) <=> 0 <= a[1]) /\ (Below(Zero, a) <=> 0 < a[1])
  BY <1>1, <1>2, OrderIs
<1>4. a = Zero <=> a[1] = 0
  BY <1>1, <1>2, SameIs
<1> QED BY <1>1, <1>3, <1>4

LEMMA ProductSigns ==
    ASSUME NEW a \in Fractions, NEW b \in Fractions, AtMost(Zero, a), AtMost(Zero, b)
    PROVE  /\ AtMost(Zero, Times(a, b))
           /\ Below(Zero, a) /\ Below(Zero, b) => Below(Zero, Times(a, b))
<1>1. /\ a[1] \in Int /\ a[2] \in Int /\ a[2] > 0 /\ a[1] >= 0 /\ Is(a, a[1], a[2])
      /\ b[1] \in Int /\ b[2] \in Int /\ b[2] > 0 /\ b[1] >= 0 /\ Is(b, b[1], b[2])
  BY SignOf, IsItself
<1> DEFINE n == a[1] * b[1]
           d == a[2] * b[2]
<1>2. n \in Int /\ n >= 0 /\ d \in Int /\ d > 0
  BY <1>1
<1>3. Times(a, b) \in Fractions /\ Is(Times(a, b), n, d)
  BY <1>1, TimesIs
<1>4. a[1] > 0 /\ b[1] > 0 => n > 0
  BY <1>1
<1> HIDE DEF n, d
<1>5. Zero \in Fractions /\ Is(Zero, 0, d)
  BY <1>2, ZeroIs
<1>6. (AtMost(Zero, Times(a, b)) <=> 0 <= n) /\ (Below(Zero, Times(a, b)) <=> 0 < n)
  BY <1>2, <1>3, <1>5, OrderIs
<1> QED BY <1>2, <1>4, <1>6, SignOf

LEMMA QuotientSigns ==
    ASSUME NEW a \in Fractions, NEW b \in Fractions, AtMost(Zero, a), Below(Zero, b)
    PROVE  /\ Over(a, b) \in Fractions
           /\ AtMost(Zero, Over(a, b))
           /\ Below(Zero, a) => Below(Zero, Over(a, b))
<1>1. /\ a[1] \in Int /\ a[2] \in Int /\ a[2] > 0 /\ a[1] >= 0
      /\ b[1] \in Int /\ b[2] \in Int /\ b[2] > 0 /\ b[1] > 0
  BY SignOf
<1> DEFINE n == a[1] * b[2]
           d == a[2] * b[1]
<1>2. n \in Int /\ n >= 0 /\ d \in Int /\ d > 0 /\ d # 0
  BY <1>1
<1>3. a[1] > 0 => n > 0
  BY <1>1
<1>4. Over(a, b) = Ratio(n, d)
  BY DEF Over
<1> HIDE DEF n, d
<1>5. Over(a, b) \in Fractions /\ Is(Over(a, b), n, d)
  BY <1>2, <1>4, RatioIs
<1>6. Zero \in Fractions /\ Is(Zero, 0, d)
  BY <1>2, ZeroIs
<1>7. (AtMost(Zero, Over(a, b)) <=> 0 <= n) /\ (Below(Zero, Over(a, b)) <=> 0 < n)
  BY <1>2, <1>5, <1>6, OrderIs
<1> QED BY <1>2, <1>3, <1>5, <1>7, SignOf

(* Comparing is comparing with the difference.                             *)
LEMMA OrderByDifference ==
    ASSUME NEW a \in Fractions, NEW b \in Fractions
    PROVE  /\ AtMost(a, b) <=> AtMost(Zero, Minus(b, a))
           /\ Below(a, b) <=> Below(Zero, Minus(b, a))
           /\ AtMost(a, b) <=> ~Below(b, a)
           /\ AtMost(a, b) <=> Below(a, b) \/ a = b
<1>1. PICK d \in Int, w \in Int, x \in Int : Over2(a, b, d, w, x)
  BY Common2
<1>2. d > 0 /\ d # 0 /\ Is(a, w, d) /\ Is(b, x, d)
  BY <1>1 DEF Over2
<1>3. Zero \in Fractions /\ Is(Zero, 0, d)
  BY ZeroIs
<1>4. Minus(b, a) \in Fractions /\ Is(Minus(b, a), x - w, d) /\ x - w \in Int
  BY <1>2, MinusIs
<1>5. (AtMost(a, b) <=> w <= x) /\ (Below(a, b) <=> w < x) /\ (Below(b, a) <=> x < w)
  BY <1>2, OrderIs
<1>6. (AtMost(Zero, Minus(b, a)) <=> 0 <= x - w) /\ (Below(Zero, Minus(b, a)) <=> 0 < x - w)
  BY <1>2, <1>3, <1>4, OrderIs
<1>7. a = b <=> w = x
  BY <1>2, SameIs
<1> QED BY <1>5, <1>6, <1>7

LEMMA AtMostChains ==
    ASSUME NEW a \in Fractions, NEW b \in Fractions, NEW c \in Fractions,
           AtMost(a, b), AtMost(b, c)
    PROVE  AtMost(a, c)
<1>1. PICK d \in Int, w \in Int, x \in Int, y \in Int, z \in Int :
         Over2(a, b, d, w, x) /\ Over2(c, c, d, y, z)
  BY Common4
<1>2. d > 0 /\ Is(a, w, d) /\ Is(b, x, d) /\ Is(c, y, d)
  BY <1>1 DEF Over2
<1>3. w <= x /\ x <= y
  BY <1>2, OrderIs
<1> QED BY <1>2, <1>3, OrderIs

LEMMA SumSigns ==
    ASSUME NEW a \in Fractions, NEW b \in Fractions, AtMost(Zero, a), AtMost(Zero, b)
    PROVE  /\ AtMost(Zero, Plus(a, b))
           /\ Below(Zero, a) \/ Below(Zero, b) => Below(Zero, Plus(a, b))
<1>1. PICK d \in Int, w \in Int, x \in Int : Over2(a, b, d, w, x)
  BY Common2
<1>2. d > 0 /\ d # 0 /\ Is(a, w, d) /\ Is(b, x, d)
  BY <1>1 DEF Over2
<1>3. Zero \in Fractions /\ Is(Zero, 0, d)
  BY ZeroIs
<1>4. Plus(a, b) \in Fractions /\ Is(Plus(a, b), w + x, d) /\ w + x \in Int
  BY <1>2, PlusIs
<1>5. /\ (AtMost(Zero, a) <=> 0 <= w) /\ (Below(Zero, a) <=> 0 < w)
      /\ (AtMost(Zero, b) <=> 0 <= x) /\ (Below(Zero, b) <=> 0 < x)
  BY <1>2, <1>3, OrderIs
<1>6. (AtMost(Zero, Plus(a, b)) <=> 0 <= w + x) /\ (Below(Zero, Plus(a, b)) <=> 0 < w + x)
  BY <1>2, <1>3, <1>4, OrderIs
<1> QED BY <1>5, <1>6

-----------------------------------------------------------------------------
(* Sums of fractions over finite sets.                                     *)

Added(f, S) == FoldFunctionOnSet(Plus, Zero, f, S)

AddIter(g, f, S) == g = [s \in SUBSET S |->
     IF s = {} THEN Zero ELSE Plus(f[CHOOSE x \in s : TRUE], g[s \ {CHOOSE x \in s : TRUE}])]

LEMMA AddedIsChosen == \A f, S : Added(f, S) = (CHOOSE g : AddIter(g, f, S))[S]
BY DEF Added, FoldFunctionOnSet, MapThenFoldSet, AddIter

(* The recursive function exists, so a sum is what its definition says.    *)
LEMMA AddedUnrolls ==
    ASSUME NEW f, NEW S, IsFiniteSet(S)
    PROVE  Added(f, S) = IF S = {} THEN Zero
                         ELSE Plus(f[First(S)], Added(f, S \ {First(S)}))
<1> DEFINE Rest(s) == s \ {First(s)}
           Unrolled(T) == Added(f, T) = IF T = {} THEN Zero ELSE Plus(f[First(T)], Added(f, Rest(T)))
           Good == {T \in SUBSET S : Unrolled(T)}
<1>1. \A T \in SUBSET S : T # {} => First(T) \in T /\ Rest(T) \in SUBSET T /\ Rest(T) # T
  BY DEF First
<1>2. ASSUME NEW T \in SUBSET S, \A U \in SUBSET T : U # T => U \in Good
      PROVE  T \in Good
  <2> DEFINE h == [s \in SUBSET T |-> IF s = {} THEN Zero ELSE Plus(f[First(s)], Added(f, Rest(s)))]
             g == CHOOSE k : AddIter(k, f, T)
  <2>1. \A U \in SUBSET T : U # T => h[U] = Added(f, U)
    BY <1>2
  <2>2. \A U \in SUBSET T : U # {} => Rest(U) \in SUBSET T /\ Rest(U) # T
    BY <1>1
  <2>3. h = [s \in SUBSET T |-> IF s = {} THEN Zero ELSE Plus(f[First(s)], h[Rest(s)])]
    <3>1. \A s \in SUBSET T : s # {} => h[Rest(s)] = Added(f, Rest(s))
      BY <2>1, <2>2
    <3> QED BY <3>1
  <2>4. AddIter(h, f, T)
    <3> HIDE DEF h
    <3> QED BY <2>3 DEF AddIter, First
  <2>5. AddIter(g, f, T)
    <3> HIDE DEF h
    <3> QED BY <2>4
  <2>6. g = [s \in SUBSET T |-> IF s = {} THEN Zero ELSE Plus(f[First(s)], g[Rest(s)])]
    BY <2>5 DEF AddIter, First
  <2> HIDE DEF g
  <2>7. \A s \in SUBSET T : g[s] = IF s = {} THEN Zero ELSE Plus(f[First(s)], g[Rest(s)])
    BY <2>6
  <2>8. ASSUME NEW V \in SUBSET T, V # T PROVE g[V] = Added(f, V)
    <3> DEFINE Same == {U \in SUBSET V : g[U] = Added(f, U)}
    <3>1. ASSUME NEW U \in SUBSET V, \A W \in SUBSET U : W # U => W \in Same
          PROVE  U \in Same
      <4>1. U \in SUBSET T /\ U # T
        BY <2>8
      <4>2. Unrolled(U)
        BY <1>2, <4>1
      <4>3. CASE U = {}
        BY <2>7, <4>2, <4>3
      <4>4. CASE U # {}
        <5>1. Rest(U) \in Same
          BY <1>1, <3>1, <4>1, <4>4
        <5> QED BY <2>7, <4>1, <4>2, <4>4, <5>1
      <4> QED BY <4>3, <4>4
    <3>2. IsFiniteSet(V)
      BY FS_Subset
    <3> HIDE DEF Same
    <3>3. V \in Same
      BY <3>1, <3>2, FiniteInduction
    <3> QED BY <3>3 DEF Same
  <2>9. Added(f, T) = g[T]
    BY AddedIsChosen DEF g
  <2>10. Unrolled(T)
    BY <2>2, <2>7, <2>8, <2>9
  <2> QED BY <2>10
<1>3. S \in Good
  <2> HIDE DEF Good
  <2> QED BY <1>2, FiniteInduction
<1> QED BY <1>3

LEMMA AddedType ==
    ASSUME NEW f, NEW S, IsFiniteSet(S), \A x \in S : f[x] \in Fractions
    PROVE  Added(f, S) \in Fractions
<1> DEFINE Good == {T \in SUBSET S : Added(f, T) \in Fractions}
<1>1. ASSUME NEW T \in SUBSET S, \A U \in SUBSET T : U # T => U \in Good
      PROVE  T \in Good
  <2>1. IsFiniteSet(T)
    BY FS_Subset
  <2>2. CASE T = {}
    BY <2>1, <2>2, AddedUnrolls, ZeroIs
  <2>3. CASE T # {}
    <3>1. First(T) \in T
      BY <2>3 DEF First
    <3>2. f[First(T)] \in Fractions /\ Added(f, T \ {First(T)}) \in Fractions
      BY <1>1, <3>1
    <3> QED BY <2>1, <2>3, <3>2, AddedUnrolls, PlusType
  <2> QED BY <2>2, <2>3
<1> HIDE DEF Good
<1>2. S \in Good
  BY <1>1, FiniteInduction
<1> QED BY <1>2 DEF Good

(* Any element can be taken out first.                                     *)
LEMMA AddedPick ==
    ASSUME NEW f, NEW S, IsFiniteSet(S), \A x \in S : f[x] \in Fractions, NEW a \in S
    PROVE  Added(f, S) = Plus(f[a], Added(f, S \ {a}))
<1> DEFINE Good == {T \in SUBSET S :
                     \A x \in T : Added(f, T) = Plus(f[x], Added(f, T \ {x}))}
<1>0. \A T \in SUBSET S : IsFiniteSet(T) /\ Added(f, T) \in Fractions
  <2>1. \A T \in SUBSET S : IsFiniteSet(T)
    BY FS_Subset
  <2> QED BY <2>1, AddedType
<1>1. ASSUME NEW T \in SUBSET S, \A U \in SUBSET T : U # T => U \in Good
      PROVE  T \in Good
  <2> SUFFICES ASSUME NEW x \in T PROVE Added(f, T) = Plus(f[x], Added(f, T \ {x}))
    OBVIOUS
  <2> DEFINE y == First(T)
  <2>1. y \in T
    BY DEF First
  <2> HIDE DEF y
  <2>2. Added(f, T) = Plus(f[y], Added(f, T \ {y}))
    BY <1>0, AddedUnrolls DEF y
  <2>3. CASE x = y
    BY <2>2, <2>3
  <2>4. CASE x # y
    <3>1. Added(f, T \ {y}) = Plus(f[x], Added(f, (T \ {y}) \ {x}))
      <4>1. T \ {y} \in Good /\ x \in T \ {y}
        BY <1>1, <2>1, <2>4
      <4> QED BY <4>1
    <3>2. Added(f, T \ {x}) = Plus(f[y], Added(f, (T \ {x}) \ {y}))
      <4>1. T \ {x} \in Good /\ y \in T \ {x}
        BY <1>1, <2>1, <2>4
      <4> QED BY <4>1
    <3>3. (T \ {y}) \ {x} = (T \ {x}) \ {y} /\ (T \ {x}) \ {y} \in SUBSET S
      OBVIOUS
    <3>4. f[x] \in Fractions /\ f[y] \in Fractions /\ Added(f, (T \ {x}) \ {y}) \in Fractions
      BY <1>0, <2>1, <3>3
    <3> DEFINE rest == Added(f, (T \ {x}) \ {y})
    <3>5. Plus(f[x], Plus(f[y], rest)) = Plus(f[y], Plus(f[x], rest))
      <4> HIDE DEF rest
      <4>1. f[x] \in Fractions /\ f[y] \in Fractions /\ rest \in Fractions
        BY <3>4 DEF rest
      <4> QED BY <4>1, PlusSwaps
    <3> HIDE DEF rest
    <3> QED BY <2>2, <3>1, <3>2, <3>3, <3>5 DEF rest
  <2> QED BY <2>3, <2>4
<1> HIDE DEF Good
<1>2. S \in Good
  BY <1>1, FiniteInduction
<1> QED BY <1>2 DEF Good

(* Only the values on the set matter.                                      *)
LEMMA AddedSame ==
    ASSUME NEW f, NEW g, NEW S, IsFiniteSet(S), \A x \in S : f[x] = g[x]
    PROVE  Added(f, S) = Added(g, S)
<1> DEFINE Good == {T \in SUBSET S : Added(f, T) = Added(g, T)}
<1>1. ASSUME NEW T \in SUBSET S, \A U \in SUBSET T : U # T => U \in Good
      PROVE  T \in Good
  <2>1. IsFiniteSet(T)
    BY FS_Subset
  <2>2. CASE T = {}
    BY <2>1, <2>2, AddedUnrolls
  <2>3. CASE T # {}
    <3>1. First(T) \in T
      BY <2>3 DEF First
    <3>2. Added(f, T \ {First(T)}) = Added(g, T \ {First(T)})
      BY <1>1, <3>1
    <3> QED BY <2>1, <2>3, <3>1, <3>2, AddedUnrolls
  <2> QED BY <2>2, <2>3
<1> HIDE DEF Good
<1>2. S \in Good
  BY <1>1, FiniteInduction
<1> QED BY <1>2 DEF Good

LEMMA AddedEmpty == \A f : Added(f, {}) = Zero
BY FS_EmptySet, AddedUnrolls

(* A sum whose summand at a is new.                                        *)
LEMMA AddedGrows ==
    ASSUME NEW f, NEW g, NEW S, NEW a, IsFiniteSet(S), a \notin S,
           g[a] \in Fractions,
           \A x \in S : f[x] \in Fractions /\ g[x] = f[x]
    PROVE  Added(g, S \cup {a}) = Plus(Added(f, S), g[a])
<1>1. IsFiniteSet(S \cup {a})
  BY FS_AddElement
<1>2. \A x \in S \cup {a} : g[x] \in Fractions
  OBVIOUS
<1>3. Added(g, S \cup {a}) = Plus(g[a], Added(g, (S \cup {a}) \ {a}))
  BY <1>1, <1>2, AddedPick
<1>4. (S \cup {a}) \ {a} = S
  OBVIOUS
<1>5. Added(g, S) = Added(f, S)
  BY AddedSame
<1>6. Added(f, S) \in Fractions
  BY AddedType
<1> QED BY <1>3, <1>4, <1>5, <1>6, PlusCommutes

(* A sum whose summand at a has changed.                                   *)
LEMMA AddedChanges ==
    ASSUME NEW f, NEW g, NEW S, NEW a \in S, IsFiniteSet(S), g[a] \in Fractions,
           \A x \in S : f[x] \in Fractions,
           \A x \in S \ {a} : g[x] = f[x]
    PROVE  Added(g, S) = Plus(Added(f, S), Minus(g[a], f[a]))
<1> DEFINE R == S \ {a}
           rest == Added(f, R)
<1>1. IsFiniteSet(R)
  BY FS_RemoveElement
<1>2. rest \in Fractions
  BY <1>1, AddedType
<1>3. Added(g, R) = rest
  BY <1>1, AddedSame
<1>4. Added(f, S) = Plus(f[a], rest)
  BY AddedPick
<1>5. Added(g, S) = Plus(g[a], rest)
  <2>1. \A x \in S : g[x] \in Fractions
    OBVIOUS
  <2> QED BY <2>1, <1>3, AddedPick
<1> HIDE DEF rest
<1>6. Plus(g[a], rest) = Plus(Plus(f[a], rest), Minus(g[a], f[a]))
  BY <1>2, PlusReplaces
<1> QED BY <1>4, <1>5, <1>6

(* The sum of differences is the difference of the sums.                   *)
LEMMA AddedMinus ==
    ASSUME NEW f, NEW g, NEW h, NEW S, IsFiniteSet(S),
           \A x \in S : f[x] \in Fractions /\ g[x] \in Fractions /\ h[x] = Minus(f[x], g[x])
    PROVE  Added(h, S) = Minus(Added(f, S), Added(g, S))
<1> DEFINE Good == {T \in SUBSET S : Added(h, T) = Minus(Added(f, T), Added(g, T))}
<1>1. ASSUME NEW T \in SUBSET S, \A U \in SUBSET T : U # T => U \in Good
      PROVE  T \in Good
  <2>1. IsFiniteSet(T)
    BY FS_Subset
  <2>2. CASE T = {}
    BY <2>1, <2>2, AddedUnrolls, ZeroIs, PlusZero
  <2>3. CASE T # {}
    <3> DEFINE y == First(T)
               R == T \ {y}
               a == Added(f, R)
               b == Added(g, R)
    <3>1. y \in T
      BY <2>3 DEF First
    <3>2. IsFiniteSet(R)
      BY <2>1, FS_RemoveElement
    <3>3. Added(h, R) = Minus(a, b)
      BY <1>1, <3>1
    <3>4. a \in Fractions /\ b \in Fractions
      <4>1. \A x \in R : f[x] \in Fractions /\ g[x] \in Fractions
        OBVIOUS
      <4> QED BY <3>2, <4>1, AddedType
    <3>5. /\ Added(f, T) = Plus(f[y], a) /\ Added(g, T) = Plus(g[y], b)
          /\ Added(h, T) = Plus(h[y], Added(h, R))
      BY <2>1, <2>3, AddedUnrolls
    <3> HIDE DEF y, R, a, b
    <3>6. f[y] \in Fractions /\ g[y] \in Fractions /\ h[y] = Minus(f[y], g[y])
      BY <3>1
    <3>7. Plus(Minus(f[y], g[y]), Minus(a, b)) = Minus(Plus(f[y], a), Plus(g[y], b))
      BY <3>4, <3>6, MinusPairs
    <3> QED BY <3>3, <3>5, <3>6, <3>7
  <2> QED BY <2>2, <2>3
<1> HIDE DEF Good
<1>2. S \in Good
  BY <1>1, FiniteInduction
<1> QED BY <1>2 DEF Good

LEMMA AddedZero ==
    ASSUME NEW f, NEW S, IsFiniteSet(S), \A x \in S : f[x] = Zero
    PROVE  Added(f, S) = Zero
<1>1. Zero \in Fractions /\ Minus(Zero, Zero) = Zero
  BY ZeroIs, PlusZero
<1>2. \A x \in S : f[x] \in Fractions /\ f[x] = Minus(f[x], f[x])
  BY <1>1
<1>3. Added(f, S) = Minus(Added(f, S), Added(f, S))
  BY <1>2, AddedMinus
<1>4. Added(f, S) \in Fractions
  BY <1>2, AddedType
<1> QED BY <1>3, <1>4, PlusZero

-----------------------------------------------------------------------------
(* Folds over sequences.  FoldLeft chooses a function on sets of indices   *)
(* that satisfies a recursive equation; there is one when the accumulators *)
(* stay in a set A.                                                        *)

LEMMA MaxOf ==
    ASSUME NEW n \in Nat, NEW s \in SUBSET (1 .. n)
    PROVE  /\ \A k \in s : (\A j \in s : j <= k) => Max(s) = k
<1> SUFFICES ASSUME NEW k \in s, \A j \in s : j <= k PROVE Max(s) = k
  OBVIOUS
<1>1. \A x \in s : (\A y \in s : x >= y) <=> x = k
  OBVIOUS
<1> QED BY <1>1 DEF Max

HasFold(A, step, base, seq, n) ==
    \E g \in [SUBSET (1 .. n) -> A] :
       \A s \in SUBSET (1 .. n) :
          g[s] = IF s = {} THEN base ELSE step[<<g[s \ {Max(s)}], seq[Max(s)]>>]

LEMMA FoldExists ==
    ASSUME NEW A, NEW X, NEW step \in [A \X X -> A], NEW base \in A,
           NEW n \in Nat, NEW seq \in [1 .. n -> X]
    PROVE  HasFold(A, step, base, seq, n)
<1> DEFINE Folds(g, m) ==
             /\ g \in [SUBSET (1 .. m) -> A]
             /\ \A s \in SUBSET (1 .. m) :
                   g[s] = IF s = {} THEN base ELSE step[<<g[s \ {Max(s)}], seq[Max(s)]>>]
           Good == {m \in 0 .. n : \E g : Folds(g, m)}
<1>1. 0 \in Good
  <2> DEFINE g == [s \in SUBSET (1 .. 0) |-> base]
  <2>1. SUBSET (1 .. 0) = {{}}
    OBVIOUS
  <2>2. Folds(g, 0)
    BY <2>1
  <2> HIDE DEF Folds, g
  <2> QED BY <2>2
<1>2. ASSUME NEW m \in Nat, m < n, m \in Good PROVE m + 1 \in Good
  <2>1. PICK f : Folds(f, m)
    BY <1>2
  <2> DEFINE k == m + 1
             S == SUBSET (1 .. k)
             g == [s \in S |-> IF k \in s THEN step[<<f[s \ {k}], seq[k]>>] ELSE f[s]]
  <2>2. \A s \in S : s \ {k} \in SUBSET (1 .. m)
    OBVIOUS
  <2>3. \A s \in S : k \in s => Max(s) = k
    <3> TAKE s \in S
    <3>1. k \in Nat /\ s \in SUBSET (1 .. k) /\ \A j \in s : j <= k
      OBVIOUS
    <3> HIDE DEF k
    <3> QED BY <3>1, MaxOf
  <2>4. g \in [S -> A]
    <3> SUFFICES ASSUME NEW s \in S PROVE (IF k \in s THEN step[<<f[s \ {k}], seq[k]>>] ELSE f[s]) \in A
      OBVIOUS
    <3>1. f[s \ {k}] \in A
      BY <2>1, <2>2
    <3>2. seq[k] \in X
      BY <1>2
    <3>3. k \notin s => s = s \ {k}
      OBVIOUS
    <3> QED BY <3>1, <3>2, <3>3
  <2>5. ASSUME NEW s \in S
        PROVE  g[s] = IF s = {} THEN base ELSE step[<<g[s \ {Max(s)}], seq[Max(s)]>>]
    <3>1. CASE k \in s
      <4>1. g[s] = step[<<f[s \ {k}], seq[k]>>] /\ s # {}
        BY <3>1
      <4>2. g[s \ {k}] = f[s \ {k}]
        OBVIOUS
      <4> QED BY <2>3, <3>1, <4>1, <4>2
    <3>2. CASE k \notin s
      <4>1. s \in SUBSET (1 .. m) /\ g[s] = f[s]
        BY <3>2
      <4>2. CASE s = {}
        BY <2>1, <4>1, <4>2
      <4>3. CASE s # {}
        <5>1. g[s \ {Max(s)}] = f[s \ {Max(s)}]
          BY <3>2
        <5> QED BY <2>1, <4>1, <4>3, <5>1
      <4> QED BY <4>2, <4>3
    <3> QED BY <3>1, <3>2
  <2> HIDE DEF g
  <2>6. Folds(g, k)
    BY <2>4, <2>5
  <2> HIDE DEF Folds
  <2> QED BY <1>2, <2>6
<1> HIDE DEF Good
<1>3. n \in Good
  <2> DEFINE Reached == {m \in Nat : m <= n => m \in Good}
  <2>1. ASSUME NEW m \in Nat, \A j \in Nat : j < m => j \in Reached PROVE m \in Reached
    <3>1. CASE m = 0
      BY <1>1, <3>1
    <3>2. CASE m # 0
      <4>1. m - 1 \in Nat /\ m - 1 < m
        BY <3>2
      <4>2. m <= n => m - 1 \in Good
        BY <2>1, <4>1
      <4>3. m <= n => (m - 1) + 1 \in Good
        BY <1>2, <4>1, <4>2
      <4> QED BY <4>1, <4>3
    <3> QED BY <3>1, <3>2
  <2> HIDE DEF Reached
  <2>2. n \in Reached
    BY <2>1, CourseOfValues
  <2> QED BY <2>2 DEF Reached
<1>4. PICK g : Folds(g, n)
  BY <1>3 DEF Good
<1> QED BY <1>4 DEF HasFold

LEMMA InitialSegments ==
    ASSUME NEW n \in Nat, NEW i \in 1 .. n
    PROVE  /\ 1 .. i \in SUBSET (1 .. n) /\ 1 .. i # {}
           /\ Max(1 .. i) = i
           /\ (1 .. i) \ {i} = 1 .. (i - 1)
<1>1. i \in Nat /\ i \in 1 .. i /\ \A j \in 1 .. i : j <= i
  OBVIOUS
<1>2. 1 .. i \in SUBSET (1 .. n)
  OBVIOUS
<1>3. Max(1 .. i) = i
  BY <1>1, <1>2, MaxOf
<1>4. (1 .. i) \ {i} = 1 .. (i - 1)
  OBVIOUS
<1> QED BY <1>1, <1>2, <1>3, <1>4

(* What holds of the first accumulator and survives every step.            *)
LEMMA StepInduction ==
    ASSUME NEW n \in Nat, NEW Good, 0 \in Good,
           \A i \in 1 .. n : i - 1 \in Good => i \in Good
    PROVE  \A i \in 0 .. n : i \in Good
<1> DEFINE Reached == {m \in Nat : m <= n => m \in Good}
<1>1. ASSUME NEW m \in Nat, \A j \in Nat : j < m => j \in Reached PROVE m \in Reached
  <2>1. CASE m = 0
    BY <2>1
  <2>2. CASE m # 0
    <3>1. m - 1 \in Nat /\ m - 1 < m /\ m - 1 \in Reached
      BY <1>1, <2>2
    <3> QED BY <2>2, <3>1
  <2> QED BY <2>1, <2>2
<1> HIDE DEF Reached
<1>2. \A m \in Nat : m \in Reached
  BY <1>1, CourseOfValues
<1> QED BY <1>2 DEF Reached

LEMMA SomeLast ==
    ASSUME NEW n \in Nat, NEW s \in SUBSET (1 .. n), s # {}
    PROVE  Max(s) \in s /\ \A j \in s : j <= Max(s)
<1> DEFINE Good == {i \in 0 .. n : \A t \in SUBSET (1 .. i) : t # {} => \E k \in t : \A j \in t : j <= k}
<1>1. 0 \in Good
  <2>1. \A t \in SUBSET (1 .. 0) : t = {}
    OBVIOUS
  <2>2. \A t \in SUBSET (1 .. 0) : t # {} => \E k \in t : \A j \in t : j <= k
    BY <2>1
  <2> QED BY <2>2
<1>2. ASSUME NEW i \in 1 .. n, i - 1 \in Good PROVE i \in Good
  <2>1. ASSUME NEW t \in SUBSET (1 .. i), t # {} PROVE \E k \in t : \A j \in t : j <= k
    <3>1. CASE i \in t
      BY <3>1
    <3>2. CASE i \notin t
      <4>1. t \in SUBSET (1 .. (i - 1))
        BY <3>2
      <4> QED BY <1>2, <2>1, <4>1
    <3> QED BY <3>1, <3>2
  <2> QED BY <2>1
<1> HIDE DEF Good
<1>3. n \in Good
  <2>1. \A i \in 0 .. n : i \in Good
    BY <1>1, <1>2, StepInduction
  <2> QED BY <2>1
<1>4. PICK k \in s : \A j \in s : j <= k
  BY <1>3 DEF Good
<1> QED BY <1>4, MaxOf

(* g is a fold over a sequence of n elements; Reach holds the accumulators *)
(* it may have after i of them.                                            *)
LEMMA FoldReaches ==
    ASSUME NEW n \in Nat, NEW g, NEW Reach,
           <<0, g[{}]>> \in Reach,
           \A i \in 1 .. n : <<i - 1, g[(1 .. i) \ {Max(1 .. i)}]>> \in Reach
                              => <<i, g[1 .. i]>> \in Reach
    PROVE  <<n, g[1 .. n]>> \in Reach
<1> DEFINE Good == {i \in 0 .. n : <<i, g[1 .. i]>> \in Reach}
<1>1. 0 \in Good
  <2>1. 1 .. 0 = {}
    OBVIOUS
  <2> QED BY <2>1
<1>2. ASSUME NEW i \in 1 .. n, i - 1 \in Good PROVE i \in Good
  <2>1. (1 .. i) \ {Max(1 .. i)} = 1 .. (i - 1)
    BY InitialSegments
  <2>2. <<i - 1, g[1 .. (i - 1)]>> \in Reach
    BY <1>2
  <2>3. <<i, g[1 .. i]>> \in Reach
    BY <2>1, <2>2
  <2> QED BY <2>3
<1> HIDE DEF Good
<1>3. n \in Good
  <2>1. \A i \in 0 .. n : i \in Good
    BY <1>1, <1>2, StepInduction
  <2> QED BY <2>1
<1> QED BY <1>3 DEF Good

(* A fold as the path of its accumulators: v[i] is what it has made of the *)
(* first i elements.                                                       *)
Unrolls(g, A, step, base, seq, n) ==
    /\ g[{}] = base
    /\ \A i \in 1 .. n : g[1 .. (i - 1)] \in A =>
          g[1 .. i] = step[<<g[1 .. (i - 1)], seq[i]>>]

HasPath(A, step, base, seq, n, last) ==
    \E v \in [0 .. n -> A] :
       /\ v[0] = base /\ v[n] = last
       /\ \A i \in 1 .. n : v[i] = step[<<v[i - 1], seq[i]>>]

LEMMA FoldPath ==
    ASSUME NEW A, NEW X, NEW step \in [A \X X -> A], NEW base \in A,
           NEW n \in Nat, NEW seq \in [1 .. n -> X], NEW g, Unrolls(g, A, step, base, seq, n)
    PROVE  HasPath(A, step, base, seq, n, g[1 .. n])
<1>u. /\ g[{}] = base
      /\ \A i \in 1 .. n : g[1 .. (i - 1)] \in A =>
            g[1 .. i] = step[<<g[1 .. (i - 1)], seq[i]>>]
  BY DEF Unrolls
<1> DEFINE Good == {i \in 0 .. n : g[1 .. i] \in A}
           v == [i \in 0 .. n |-> g[1 .. i]]
<1>1. 1 .. 0 = {}
  OBVIOUS
<1>2. 0 \in Good
  BY <1>1, <1>u
<1>3. ASSUME NEW i \in 1 .. n, i - 1 \in Good PROVE i \in Good
  <2>1. g[1 .. (i - 1)] \in A /\ seq[i] \in X
    BY <1>3
  <2>2. step[<<g[1 .. (i - 1)], seq[i]>>] \in A
    BY <2>1
  <2> QED BY <2>1, <2>2, <1>u
<1>4. \A i \in 0 .. n : i \in Good
  <2> HIDE DEF Good
  <2> QED BY <1>2, <1>3, StepInduction
<1>5. v \in [0 .. n -> A] /\ v[0] = base /\ v[n] = g[1 .. n]
  BY <1>1, <1>4, <1>u
<1>6. ASSUME NEW i \in 1 .. n PROVE v[i] = step[<<v[i - 1], seq[i]>>]
  <2>1. i - 1 \in 0 .. n /\ i \in 0 .. n
    OBVIOUS
  <2>2. g[1 .. (i - 1)] \in A
    BY <1>4, <2>1
  <2>3. v[i] = g[1 .. i] /\ v[i - 1] = g[1 .. (i - 1)]
    BY <2>1
  <2> HIDE DEF v
  <2> QED BY <2>2, <2>3, <1>u
<1> HIDE DEF v
<1> QED BY <1>5, <1>6 DEF HasPath

-----------------------------------------------------------------------------
(* Taker orders.                                                           *)

IsLevel(l) ==
    /\ l.price \in Fractions /\ Below(Zero, l.price)
    /\ l.quantity \in Fractions /\ Below(Zero, l.quantity)

Sums == [remaining : Fractions, notional : Fractions, quantity : Fractions]

LEMMA LeastOf ==
    ASSUME NEW a \in Fractions, NEW b \in Fractions
    PROVE  /\ Least(a, b) \in Fractions
           /\ AtMost(Least(a, b), a) /\ AtMost(Least(a, b), b)
           /\ AtMost(Zero, a) /\ AtMost(Zero, b) => AtMost(Zero, Least(a, b))
           /\ Below(Zero, a) /\ Below(Zero, b) => Below(Zero, Least(a, b))
<1>1. AtMost(a, b) \/ AtMost(b, a)
  BY OrderByDifference
<1>2. AtMost(a, a) /\ AtMost(b, b)
  BY OrderByDifference
<1> QED BY <1>1, <1>2 DEF Least

(* A positive fraction is not negative, and not zero.                      *)
LEMMA PositiveIs ==
    ASSUME NEW a \in Fractions
    PROVE  /\ Below(Zero, a) => AtMost(Zero, a) /\ a # Zero
           /\ AtMost(Zero, a) /\ a # Zero => Below(Zero, a)
           /\ AtMost(Zero, Zero)
BY SignOf, ZeroIs, OrderByDifference

(* One level of the book in an order by quantity, and by notional.         *)
TakeQuantity(acc, l) ==
    LET taken == Least(acc.remaining, l.quantity) IN
    [remaining |-> Minus(acc.remaining, taken),
     notional  |-> Plus(acc.notional, Times(taken, l.price)),
     quantity  |-> Plus(acc.quantity, taken)]

TakeNotional(acc, l) ==
    LET taken == Least(acc.remaining, Times(l.price, l.quantity)) IN
    [remaining |-> Minus(acc.remaining, taken),
     notional  |-> Plus(acc.notional, taken),
     quantity  |-> Plus(acc.quantity, Over(taken, l.price))]

QuantityFolds(g, levels, requested) ==
    g = [s \in SUBSET DOMAIN levels |->
           IF s = {} THEN NothingFilled(requested)
           ELSE TakeQuantity(g[s \ {Max(s)}], levels[Max(s)])]

NotionalFolds(g, levels, requested) ==
    g = [s \in SUBSET DOMAIN levels |->
           IF s = {} THEN NothingFilled(requested)
           ELSE TakeNotional(g[s \ {Max(s)}], levels[Max(s)])]

LEMMA QuantityIsChosen ==
    \A levels, requested :
        QuantityOrder(levels, requested)
          = (CHOOSE g : QuantityFolds(g, levels, requested))[DOMAIN levels]
BY DEF QuantityOrder, FoldLeft, MapThenFoldSet, QuantityFolds, TakeQuantity

LEMMA NotionalIsChosen ==
    \A levels, requested :
        NotionalOrder(levels, requested)
          = (CHOOSE g : NotionalFolds(g, levels, requested))[DOMAIN levels]
BY DEF NotionalOrder, FoldLeft, MapThenFoldSet, NotionalFolds, TakeNotional

LEMMA TakeType ==
    ASSUME NEW a \in Sums, NEW l, IsLevel(l)
    PROVE  TakeQuantity(a, l) \in Sums /\ TakeNotional(a, l) \in Sums
<1>1. a.remaining \in Fractions /\ a.notional \in Fractions /\ a.quantity \in Fractions
  BY DEF Sums
<1>2. /\ l.quantity \in Fractions /\ l.price \in Fractions /\ Below(Zero, l.price)
      /\ Times(l.price, l.quantity) \in Fractions
  BY TimesType DEF IsLevel
<1>3. /\ Least(a.remaining, l.quantity) \in Fractions
      /\ Least(a.remaining, Times(l.price, l.quantity)) \in Fractions
  BY <1>1, <1>2, LeastOf
<1>4. /\ Minus(a.remaining, Least(a.remaining, l.quantity)) \in Fractions
      /\ Plus(a.notional, Times(Least(a.remaining, l.quantity), l.price)) \in Fractions
      /\ Plus(a.quantity, Least(a.remaining, l.quantity)) \in Fractions
  BY <1>1, <1>2, <1>3, PlusType, TimesType
<1>5. /\ l.price # Zero
      /\ Over(Least(a.remaining, Times(l.price, l.quantity)), l.price) \in Fractions
  BY <1>2, <1>3, PositiveIs, OverUndoesTimes
<1>6. /\ Minus(a.remaining, Least(a.remaining, Times(l.price, l.quantity))) \in Fractions
      /\ Plus(a.notional, Least(a.remaining, Times(l.price, l.quantity))) \in Fractions
      /\ Plus(a.quantity, Over(Least(a.remaining, Times(l.price, l.quantity)), l.price)) \in Fractions
  BY <1>1, <1>3, <1>5, PlusType
<1> QED BY <1>4, <1>6 DEF Sums, TakeQuantity, TakeNotional

(* What an order has taken from the first i levels.                        *)
Took(i, acc, requested) ==
    /\ AtMost(Zero, acc.remaining)
    /\ i = 0 => acc = NothingFilled(requested)
    /\ i # 0 => Below(Zero, acc.quantity) /\ Below(Zero, acc.notional)

LEMMA TookNothing ==
    ASSUME NEW requested \in Fractions, Below(Zero, requested)
    PROVE  NothingFilled(requested) \in Sums /\ Took(0, NothingFilled(requested), requested)
BY ZeroIs, PositiveIs DEF Sums, NothingFilled, Took

LEMMA TakeMore ==
    ASSUME NEW requested \in Fractions, Below(Zero, requested),
           NEW i \in Nat, NEW a \in Sums, Took(i, a, requested), NEW l, IsLevel(l)
    PROVE  /\ Took(i + 1, TakeQuantity(a, l), requested)
           /\ Took(i + 1, TakeNotional(a, l), requested)
<1>1. /\ a.remaining \in Fractions /\ a.notional \in Fractions /\ a.quantity \in Fractions
      /\ AtMost(Zero, a.remaining)
  BY DEF Sums, Took
<1>2. /\ l.quantity \in Fractions /\ l.price \in Fractions
      /\ Below(Zero, l.price) /\ Below(Zero, l.quantity)
      /\ AtMost(Zero, l.price) /\ AtMost(Zero, l.quantity)
      /\ Times(l.price, l.quantity) \in Fractions
      /\ Below(Zero, Times(l.price, l.quantity)) /\ AtMost(Zero, Times(l.price, l.quantity))
  BY TimesType, PositiveIs, ProductSigns DEF IsLevel
<1>3. /\ AtMost(Zero, a.quantity) /\ AtMost(Zero, a.notional)
      /\ i = 0 => Below(Zero, a.remaining)
      /\ i # 0 => Below(Zero, a.quantity) /\ Below(Zero, a.notional)
  BY <1>1, PositiveIs, ZeroIs DEF Took, NothingFilled
(* Something is taken from every level while something remains.            *)
<1>4. ASSUME NEW t \in Fractions, NEW u \in Fractions, NEW v \in Fractions,
             AtMost(Zero, t), AtMost(Zero, u), AtMost(Zero, v), AtMost(t, a.remaining),
             i = 0 => Below(Zero, u) /\ Below(Zero, v)
      PROVE  /\ AtMost(Zero, Minus(a.remaining, t))
             /\ Below(Zero, Plus(a.notional, u)) /\ Below(Zero, Plus(a.quantity, v))
  <2>1. AtMost(Zero, Minus(a.remaining, t))
    BY <1>1, <1>4, OrderByDifference
  <2>2. Below(Zero, Plus(a.notional, u))
    BY <1>1, <1>3, <1>4, SumSigns
  <2>3. Below(Zero, Plus(a.quantity, v))
    BY <1>1, <1>3, <1>4, SumSigns
  <2> QED BY <2>1, <2>2, <2>3
<1>5. Took(i + 1, TakeQuantity(a, l), requested)
  <2> DEFINE t == Least(a.remaining, l.quantity)
  <2>1. /\ t \in Fractions /\ AtMost(Zero, t) /\ AtMost(t, a.remaining)
        /\ i = 0 => Below(Zero, t)
    BY <1>1, <1>2, <1>3, LeastOf
  <2>2. /\ Times(t, l.price) \in Fractions /\ AtMost(Zero, Times(t, l.price))
        /\ i = 0 => Below(Zero, Times(t, l.price))
    BY <1>2, <2>1, TimesType, ProductSigns
  <2>3. /\ AtMost(Zero, Minus(a.remaining, t))
        /\ Below(Zero, Plus(a.notional, Times(t, l.price))) /\ Below(Zero, Plus(a.quantity, t))
    BY <1>4, <2>1, <2>2
  <2>4. i + 1 # 0
    OBVIOUS
  <2> QED BY <2>3, <2>4 DEF TakeQuantity, Took
<1>6. Took(i + 1, TakeNotional(a, l), requested)
  <2> DEFINE t == Least(a.remaining, Times(l.price, l.quantity))
  <2>1. /\ t \in Fractions /\ AtMost(Zero, t) /\ AtMost(t, a.remaining)
        /\ i = 0 => Below(Zero, t)
    BY <1>1, <1>2, <1>3, LeastOf
  <2>2. /\ Over(t, l.price) \in Fractions /\ AtMost(Zero, Over(t, l.price))
        /\ i = 0 => Below(Zero, Over(t, l.price))
    BY <1>2, <2>1, QuotientSigns
  <2>3. /\ AtMost(Zero, Minus(a.remaining, t))
        /\ Below(Zero, Plus(a.notional, t)) /\ Below(Zero, Plus(a.quantity, Over(t, l.price)))
    BY <1>4, <2>1, <2>2
  <2>4. i + 1 # 0
    OBVIOUS
  <2> QED BY <2>3, <2>4 DEF TakeNotional, Took
<1> QED BY <1>5, <1>6

LEMMA PartAtMost ==
    ASSUME NEW a \in Fractions, NEW b \in Fractions, AtMost(Zero, b)
    PROVE  AtMost(a, Plus(a, b))
<1>1. Plus(a, b) \in Fractions /\ Minus(Plus(a, b), a) = b
  BY PlusType, PlusCommutes, MinusUndoesPlus
<1> QED BY <1>1, OrderByDifference

LEMMA TakeKeepsWhole ==
    ASSUME NEW a \in Sums, NEW l, IsLevel(l)
    PROVE  Plus(TakeQuantity(a, l).quantity, TakeQuantity(a, l).remaining)
             = Plus(a.quantity, a.remaining)
<1> DEFINE t == Least(a.remaining, l.quantity)
<1>1. a.remaining \in Fractions /\ a.quantity \in Fractions /\ t \in Fractions
  BY LeastOf DEF Sums, IsLevel
<1> HIDE DEF t
<1>2. Minus(a.remaining, t) \in Fractions /\ Plus(t, Minus(a.remaining, t)) = a.remaining
  BY <1>1, PlusType, PlusCommutes, MinusUndoesPlus
<1>3. Plus(Plus(a.quantity, t), Minus(a.remaining, t)) = Plus(a.quantity, a.remaining)
  BY <1>1, <1>2, PlusAssociates
<1> QED BY <1>3 DEF TakeQuantity, t

LEMMA QuantityPath ==
    ASSUME NEW levels, NEW n \in Nat, DOMAIN levels = 1 .. n,
           \A i \in 1 .. n : IsLevel(levels[i]),
           NEW requested \in Fractions
    PROVE  \E v \in [0 .. n -> Sums] :
              /\ v[0] = NothingFilled(requested) /\ QuantityOrder(levels, requested) = v[n]
              /\ \A i \in 1 .. n : v[i] = TakeQuantity(v[i - 1], levels[i])
<1> DEFINE base == NothingFilled(requested)
           X == {levels[i] : i \in 1 .. n}
           step == [p \in Sums \X X |-> TakeQuantity(p[1], p[2])]
           line == [i \in 1 .. n |-> levels[i]]
           g == CHOOSE f : QuantityFolds(f, levels, requested)
<1>1. n \in Nat /\ base \in Sums /\ line \in [1 .. n -> X]
  BY ZeroIs DEF Sums, NothingFilled
<1>2. \A a \in Sums, l \in X : TakeQuantity(a, l) \in Sums
  BY TakeType
<1>3. step \in [Sums \X X -> Sums] /\ \A a \in Sums, l \in X : step[<<a, l>>] = TakeQuantity(a, l)
  BY <1>2
<1>4. QuantityFolds(g, levels, requested)
  <2>1. PICK f \in [SUBSET (1 .. n) -> Sums] :
           \A s \in SUBSET (1 .. n) :
              f[s] = IF s = {} THEN base ELSE step[<<f[s \ {Max(s)}], line[Max(s)]>>]
    <3> HIDE DEF base, X, step, line
    <3>1. HasFold(Sums, step, base, line, n)
      BY <1>1, <1>3, FoldExists
    <3> QED BY <3>1 DEF HasFold
  <2>2. ASSUME NEW s \in SUBSET (1 .. n), s # {}
        PROVE  f[s] = TakeQuantity(f[s \ {Max(s)}], levels[Max(s)])
    <3>1. Max(s) \in s
      BY <2>2, SomeLast, <1>1
    <3>2. f[s \ {Max(s)}] \in Sums /\ levels[Max(s)] \in X /\ line[Max(s)] = levels[Max(s)]
      BY <3>1
    <3>3. f[s] = step[<<f[s \ {Max(s)}], line[Max(s)]>>]
      <4> HIDE DEF step, line
      <4> QED BY <2>1, <2>2
    <3> HIDE DEF step, line, X
    <3> QED BY <3>2, <1>3, <3>3
  <2>3. f = [s \in SUBSET DOMAIN levels |->
               IF s = {} THEN NothingFilled(requested)
               ELSE TakeQuantity(f[s \ {Max(s)}], levels[Max(s)])]
    BY <2>1, <2>2
  <2>4. QuantityFolds(f, levels, requested)
    BY <2>3 DEF QuantityFolds
  <2> HIDE DEF g
  <2> QED BY <2>4 DEF g
<1> HIDE DEF g
<1>5. /\ g[{}] = base
      /\ \A s \in SUBSET (1 .. n) : s # {} =>
            g[s] = TakeQuantity(g[s \ {Max(s)}], levels[Max(s)])
  BY <1>4 DEF QuantityFolds
<1>6. ASSUME NEW i \in 1 .. n, g[1 .. (i - 1)] \in Sums
      PROVE  g[1 .. i] = step[<<g[1 .. (i - 1)], line[i]>>]
  <2>1. g[1 .. i] = TakeQuantity(g[1 .. (i - 1)], levels[i])
    <3>1. /\ 1 .. i \in SUBSET (1 .. n) /\ 1 .. i # {}
          /\ Max(1 .. i) = i /\ (1 .. i) \ {i} = 1 .. (i - 1)
      BY <1>1, InitialSegments
    <3>2. g[1 .. i] = TakeQuantity(g[(1 .. i) \ {Max(1 .. i)}], levels[Max(1 .. i)])
      BY <1>5, <3>1
    <3> QED BY <3>1, <3>2
  <2>2. line[i] = levels[i] /\ levels[i] \in X
    OBVIOUS
  <2> HIDE DEF step, line, X
  <2> QED BY <1>3, <1>6, <2>1, <2>2
<1>7. PICK v \in [0 .. n -> Sums] :
         /\ v[0] = base /\ v[n] = g[1 .. n]
         /\ \A i \in 1 .. n : v[i] = step[<<v[i - 1], line[i]>>]
  <2> HIDE DEF base, X, step, line
  <2>1. g[{}] = base
    BY <1>5
  <2>2. \A i \in 1 .. n : g[1 .. (i - 1)] \in Sums =>
           g[1 .. i] = step[<<g[1 .. (i - 1)], line[i]>>]
    BY <1>6
  <2>u. Unrolls(g, Sums, step, base, line, n)
    BY <2>1, <2>2 DEF Unrolls
  <2>3. step \in [Sums \X X -> Sums]
    BY <1>3
  <2>4. HasPath(Sums, step, base, line, n, g[1 .. n])
    BY <1>1, <2>u, <2>3, FoldPath
  <2> QED BY <2>4 DEF HasPath
<1>8. ASSUME NEW i \in 1 .. n PROVE v[i] = TakeQuantity(v[i - 1], levels[i])
  <2>1. line[i] = levels[i] /\ levels[i] \in X /\ i - 1 \in 0 .. n
    OBVIOUS
  <2>3. v[i - 1] \in Sums
    BY <2>1
  <2>2. v[i] = step[<<v[i - 1], line[i]>>]
    BY <1>7
  <2> HIDE DEF step, line, X
  <2> QED BY <1>3, <2>1, <2>2, <2>3
<1>9. QuantityOrder(levels, requested) = g[1 .. n]
  BY QuantityIsChosen DEF g
<1> QED BY <1>7, <1>8, <1>9

LEMMA QuantityTakes ==
    ASSUME NEW levels, NEW n \in Nat \ {0}, DOMAIN levels = 1 .. n,
           \A i \in 1 .. n : IsLevel(levels[i]),
           NEW requested \in Fractions, Below(Zero, requested)
    PROVE  /\ QuantityOrder(levels, requested) \in Sums
           /\ Below(Zero, QuantityOrder(levels, requested).quantity)
           /\ Below(Zero, QuantityOrder(levels, requested).notional)
           /\ AtMost(QuantityOrder(levels, requested).quantity, requested)
<1>n. n \in Nat
  OBVIOUS
<1>1. PICK v \in [0 .. n -> Sums] :
         /\ v[0] = NothingFilled(requested) /\ QuantityOrder(levels, requested) = v[n]
         /\ \A i \in 1 .. n : v[i] = TakeQuantity(v[i - 1], levels[i])
  BY <1>n, QuantityPath
<1> DEFINE Good == {i \in 0 .. n : /\ Took(i, v[i], requested)
                                /\ Plus(v[i].quantity, v[i].remaining) = requested}
<1>2. 0 \in Good
  BY <1>1, TookNothing, PlusZero DEF NothingFilled
<1>3. ASSUME NEW i \in 1 .. n, i - 1 \in Good PROVE i \in Good
  <2>1. /\ v[i - 1] \in Sums /\ i - 1 \in Nat /\ (i - 1) + 1 = i /\ IsLevel(levels[i])
        /\ Took(i - 1, v[i - 1], requested)
        /\ v[i] = TakeQuantity(v[i - 1], levels[i])
    BY <1>1, <1>3
  <2>2. Plus(v[i].quantity, v[i].remaining) = requested
    BY <1>3, <2>1, TakeKeepsWhole
  <2> QED BY <2>1, <2>2, TakeMore
<1> HIDE DEF Good
<1>4. n \in Good
  <2>1. \A i \in 0 .. n : i \in Good
    BY <1>n, <1>2, <1>3, StepInduction
  <2> QED BY <2>1
<1>5. v[n] \in Sums /\ Took(n, v[n], requested)
  BY <1>4 DEF Good
<1>6. AtMost(v[n].quantity, requested)
  <2>1. /\ v[n].quantity \in Fractions /\ v[n].remaining \in Fractions
        /\ AtMost(Zero, v[n].remaining) /\ Plus(v[n].quantity, v[n].remaining) = requested
    BY <1>4, <1>5 DEF Good, Sums, Took
  <2> QED BY <2>1, PartAtMost
<1> QED BY <1>1, <1>5, <1>6 DEF Took

LEMMA NotionalPath ==
    ASSUME NEW levels, NEW n \in Nat, DOMAIN levels = 1 .. n,
           \A i \in 1 .. n : IsLevel(levels[i]),
           NEW requested \in Fractions
    PROVE  \E v \in [0 .. n -> Sums] :
              /\ v[0] = NothingFilled(requested) /\ NotionalOrder(levels, requested) = v[n]
              /\ \A i \in 1 .. n : v[i] = TakeNotional(v[i - 1], levels[i])
<1> DEFINE base == NothingFilled(requested)
           X == {levels[i] : i \in 1 .. n}
           step == [p \in Sums \X X |-> TakeNotional(p[1], p[2])]
           line == [i \in 1 .. n |-> levels[i]]
           g == CHOOSE f : NotionalFolds(f, levels, requested)
<1>1. n \in Nat /\ base \in Sums /\ line \in [1 .. n -> X]
  BY ZeroIs DEF Sums, NothingFilled
<1>2. \A a \in Sums, l \in X : TakeNotional(a, l) \in Sums
  BY TakeType
<1>3. step \in [Sums \X X -> Sums] /\ \A a \in Sums, l \in X : step[<<a, l>>] = TakeNotional(a, l)
  BY <1>2
<1>4. NotionalFolds(g, levels, requested)
  <2>1. PICK f \in [SUBSET (1 .. n) -> Sums] :
           \A s \in SUBSET (1 .. n) :
              f[s] = IF s = {} THEN base ELSE step[<<f[s \ {Max(s)}], line[Max(s)]>>]
    <3> HIDE DEF base, X, step, line
    <3>1. HasFold(Sums, step, base, line, n)
      BY <1>1, <1>3, FoldExists
    <3> QED BY <3>1 DEF HasFold
  <2>2. ASSUME NEW s \in SUBSET (1 .. n), s # {}
        PROVE  f[s] = TakeNotional(f[s \ {Max(s)}], levels[Max(s)])
    <3>1. Max(s) \in s
      BY <2>2, SomeLast, <1>1
    <3>2. f[s \ {Max(s)}] \in Sums /\ levels[Max(s)] \in X /\ line[Max(s)] = levels[Max(s)]
      BY <3>1
    <3>3. f[s] = step[<<f[s \ {Max(s)}], line[Max(s)]>>]
      <4> HIDE DEF step, line
      <4> QED BY <2>1, <2>2
    <3> HIDE DEF step, line, X
    <3> QED BY <3>2, <1>3, <3>3
  <2>3. f = [s \in SUBSET DOMAIN levels |->
               IF s = {} THEN NothingFilled(requested)
               ELSE TakeNotional(f[s \ {Max(s)}], levels[Max(s)])]
    BY <2>1, <2>2
  <2>4. NotionalFolds(f, levels, requested)
    BY <2>3 DEF NotionalFolds
  <2> HIDE DEF g
  <2> QED BY <2>4 DEF g
<1> HIDE DEF g
<1>5. /\ g[{}] = base
      /\ \A s \in SUBSET (1 .. n) : s # {} =>
            g[s] = TakeNotional(g[s \ {Max(s)}], levels[Max(s)])
  BY <1>4 DEF NotionalFolds
<1>6. ASSUME NEW i \in 1 .. n, g[1 .. (i - 1)] \in Sums
      PROVE  g[1 .. i] = step[<<g[1 .. (i - 1)], line[i]>>]
  <2>1. g[1 .. i] = TakeNotional(g[1 .. (i - 1)], levels[i])
    <3>1. /\ 1 .. i \in SUBSET (1 .. n) /\ 1 .. i # {}
          /\ Max(1 .. i) = i /\ (1 .. i) \ {i} = 1 .. (i - 1)
      BY <1>1, InitialSegments
    <3>2. g[1 .. i] = TakeNotional(g[(1 .. i) \ {Max(1 .. i)}], levels[Max(1 .. i)])
      BY <1>5, <3>1
    <3> QED BY <3>1, <3>2
  <2>2. line[i] = levels[i] /\ levels[i] \in X
    OBVIOUS
  <2> HIDE DEF step, line, X
  <2> QED BY <1>3, <1>6, <2>1, <2>2
<1>7. PICK v \in [0 .. n -> Sums] :
         /\ v[0] = base /\ v[n] = g[1 .. n]
         /\ \A i \in 1 .. n : v[i] = step[<<v[i - 1], line[i]>>]
  <2> HIDE DEF base, X, step, line
  <2>1. g[{}] = base
    BY <1>5
  <2>2. \A i \in 1 .. n : g[1 .. (i - 1)] \in Sums =>
           g[1 .. i] = step[<<g[1 .. (i - 1)], line[i]>>]
    BY <1>6
  <2>u. Unrolls(g, Sums, step, base, line, n)
    BY <2>1, <2>2 DEF Unrolls
  <2>3. step \in [Sums \X X -> Sums]
    BY <1>3
  <2>4. HasPath(Sums, step, base, line, n, g[1 .. n])
    BY <1>1, <2>u, <2>3, FoldPath
  <2> QED BY <2>4 DEF HasPath
<1>8. ASSUME NEW i \in 1 .. n PROVE v[i] = TakeNotional(v[i - 1], levels[i])
  <2>1. line[i] = levels[i] /\ levels[i] \in X /\ i - 1 \in 0 .. n
    OBVIOUS
  <2>3. v[i - 1] \in Sums
    BY <2>1
  <2>2. v[i] = step[<<v[i - 1], line[i]>>]
    BY <1>7
  <2> HIDE DEF step, line, X
  <2> QED BY <1>3, <2>1, <2>2, <2>3
<1>9. NotionalOrder(levels, requested) = g[1 .. n]
  BY NotionalIsChosen DEF g
<1> QED BY <1>7, <1>8, <1>9

LEMMA NotionalTakes ==
    ASSUME NEW levels, NEW n \in Nat \ {0}, DOMAIN levels = 1 .. n,
           \A i \in 1 .. n : IsLevel(levels[i]),
           NEW requested \in Fractions, Below(Zero, requested)
    PROVE  /\ NotionalOrder(levels, requested) \in Sums
           /\ Below(Zero, NotionalOrder(levels, requested).quantity)
           /\ Below(Zero, NotionalOrder(levels, requested).notional)
<1>n. n \in Nat
  OBVIOUS
<1>1. PICK v \in [0 .. n -> Sums] :
         /\ v[0] = NothingFilled(requested) /\ NotionalOrder(levels, requested) = v[n]
         /\ \A i \in 1 .. n : v[i] = TakeNotional(v[i - 1], levels[i])
  BY <1>n, NotionalPath
<1> DEFINE Good == {i \in 0 .. n : /\ Took(i, v[i], requested)}
<1>2. 0 \in Good
  BY <1>1, TookNothing
<1>3. ASSUME NEW i \in 1 .. n, i - 1 \in Good PROVE i \in Good
  <2>1. /\ v[i - 1] \in Sums /\ i - 1 \in Nat /\ (i - 1) + 1 = i /\ IsLevel(levels[i])
        /\ Took(i - 1, v[i - 1], requested)
        /\ v[i] = TakeNotional(v[i - 1], levels[i])
    BY <1>1, <1>3
  <2> QED BY <2>1, TakeMore
<1> HIDE DEF Good
<1>4. n \in Good
  <2>1. \A i \in 0 .. n : i \in Good
    BY <1>n, <1>2, <1>3, StepInduction
  <2> QED BY <2>1
<1>5. v[n] \in Sums /\ Took(n, v[n], requested)
  BY <1>4 DEF Good
<1> QED BY <1>1, <1>5 DEF Took

-----------------------------------------------------------------------------
(* The depth of the book and the size of a scale-in.                       *)

DepthFolds(g, levels) ==
    g = [s \in SUBSET DOMAIN levels |->
           IF s = {} THEN Zero
           ELSE Plus(g[s \ {Max(s)}], Times(levels[Max(s)].price, levels[Max(s)].quantity))]

LEMMA DepthIsChosen ==
    \A levels : BookDepthNotional(levels) = (CHOOSE g : DepthFolds(g, levels))[DOMAIN levels]
BY DEF BookDepthNotional, FoldLeft, MapThenFoldSet, DepthFolds

LEMMA DepthPath ==
    ASSUME NEW levels, NEW n \in Nat, DOMAIN levels = 1 .. n,
           \A i \in 1 .. n : IsLevel(levels[i])
    PROVE  \E v \in [0 .. n -> Fractions] :
              /\ v[0] = Zero /\ BookDepthNotional(levels) = v[n]
              /\ \A i \in 1 .. n : v[i] = Plus(v[i - 1], Times(levels[i].price, levels[i].quantity))
<1> DEFINE base == Zero
           X == {levels[i] : i \in 1 .. n}
           step == [p \in Fractions \X X |-> Plus(p[1], Times(p[2].price, p[2].quantity))]
           line == [i \in 1 .. n |-> levels[i]]
           g == CHOOSE f : DepthFolds(f, levels)
<1>1. n \in Nat /\ base \in Fractions /\ line \in [1 .. n -> X]
  BY ZeroIs
<1>2. \A a \in Fractions, l \in X : Plus(a, Times(l.price, l.quantity)) \in Fractions
  BY TimesType, PlusType DEF IsLevel
<1>3. step \in [Fractions \X X -> Fractions] /\ \A a \in Fractions, l \in X : step[<<a, l>>] = Plus(a, Times(l.price, l.quantity))
  BY <1>2
<1>4. DepthFolds(g, levels)
  <2>1. PICK f \in [SUBSET (1 .. n) -> Fractions] :
           \A s \in SUBSET (1 .. n) :
              f[s] = IF s = {} THEN base ELSE step[<<f[s \ {Max(s)}], line[Max(s)]>>]
    <3> HIDE DEF base, X, step, line
    <3>1. HasFold(Fractions, step, base, line, n)
      BY <1>1, <1>3, FoldExists
    <3> QED BY <3>1 DEF HasFold
  <2>2. ASSUME NEW s \in SUBSET (1 .. n), s # {}
        PROVE  f[s] = Plus(f[s \ {Max(s)}], Times(levels[Max(s)].price, levels[Max(s)].quantity))
    <3>1. Max(s) \in s
      BY <2>2, SomeLast, <1>1
    <3>2. f[s \ {Max(s)}] \in Fractions /\ levels[Max(s)] \in X /\ line[Max(s)] = levels[Max(s)]
      BY <3>1
    <3>3. f[s] = step[<<f[s \ {Max(s)}], line[Max(s)]>>]
      <4> HIDE DEF step, line
      <4> QED BY <2>1, <2>2
    <3> HIDE DEF step, line, X
    <3> QED BY <3>2, <1>3, <3>3
  <2>3. f = [s \in SUBSET DOMAIN levels |->
               IF s = {} THEN Zero
               ELSE Plus(f[s \ {Max(s)}], Times(levels[Max(s)].price, levels[Max(s)].quantity))]
    BY <2>1, <2>2
  <2>4. DepthFolds(f, levels)
    BY <2>3 DEF DepthFolds
  <2> HIDE DEF g
  <2> QED BY <2>4 DEF g
<1> HIDE DEF g
<1>5. /\ g[{}] = base
      /\ \A s \in SUBSET (1 .. n) : s # {} =>
            g[s] = Plus(g[s \ {Max(s)}], Times(levels[Max(s)].price, levels[Max(s)].quantity))
  BY <1>4 DEF DepthFolds
<1>6. ASSUME NEW i \in 1 .. n, g[1 .. (i - 1)] \in Fractions
      PROVE  g[1 .. i] = step[<<g[1 .. (i - 1)], line[i]>>]
  <2>1. g[1 .. i] = Plus(g[1 .. (i - 1)], Times(levels[i].price, levels[i].quantity))
    <3>1. /\ 1 .. i \in SUBSET (1 .. n) /\ 1 .. i # {}
          /\ Max(1 .. i) = i /\ (1 .. i) \ {i} = 1 .. (i - 1)
      BY <1>1, InitialSegments
    <3>2. g[1 .. i] = Plus(g[(1 .. i) \ {Max(1 .. i)}], Times(levels[Max(1 .. i)].price, levels[Max(1 .. i)].quantity))
      BY <1>5, <3>1
    <3> QED BY <3>1, <3>2
  <2>2. line[i] = levels[i] /\ levels[i] \in X
    OBVIOUS
  <2> HIDE DEF step, line, X
  <2> QED BY <1>3, <1>6, <2>1, <2>2
<1>7. PICK v \in [0 .. n -> Fractions] :
         /\ v[0] = base /\ v[n] = g[1 .. n]
         /\ \A i \in 1 .. n : v[i] = step[<<v[i - 1], line[i]>>]
  <2> HIDE DEF base, X, step, line
  <2>1. g[{}] = base
    BY <1>5
  <2>2. \A i \in 1 .. n : g[1 .. (i - 1)] \in Fractions =>
           g[1 .. i] = step[<<g[1 .. (i - 1)], line[i]>>]
    BY <1>6
  <2>u. Unrolls(g, Fractions, step, base, line, n)
    BY <2>1, <2>2 DEF Unrolls
  <2>3. step \in [Fractions \X X -> Fractions]
    BY <1>3
  <2>4. HasPath(Fractions, step, base, line, n, g[1 .. n])
    BY <1>1, <2>u, <2>3, FoldPath
  <2> QED BY <2>4 DEF HasPath
<1>8. ASSUME NEW i \in 1 .. n PROVE v[i] = Plus(v[i - 1], Times(levels[i].price, levels[i].quantity))
  <2>1. line[i] = levels[i] /\ levels[i] \in X /\ i - 1 \in 0 .. n
    OBVIOUS
  <2>3. v[i - 1] \in Fractions
    BY <2>1
  <2>2. v[i] = step[<<v[i - 1], line[i]>>]
    BY <1>7
  <2> HIDE DEF step, line, X
  <2> QED BY <1>3, <2>1, <2>2, <2>3
<1>9. BookDepthNotional(levels) = g[1 .. n]
  BY DepthIsChosen DEF g
<1> QED BY <1>7, <1>8, <1>9

LEMMA DepthPositive ==
    ASSUME NEW levels, NEW n \in Nat, DOMAIN levels = 1 .. n,
           \A i \in 1 .. n : IsLevel(levels[i])
    PROVE  /\ BookDepthNotional(levels) \in Fractions
           /\ AtMost(Zero, BookDepthNotional(levels))
<1>1. PICK v \in [0 .. n -> Fractions] :
         /\ v[0] = Zero /\ BookDepthNotional(levels) = v[n]
         /\ \A i \in 1 .. n : v[i] = Plus(v[i - 1], Times(levels[i].price, levels[i].quantity))
  BY DepthPath
<1> DEFINE Good == {i \in 0 .. n : AtMost(Zero, v[i])}
<1>2. 0 \in Good
  BY <1>1, PositiveIs
<1>3. ASSUME NEW i \in 1 .. n, i - 1 \in Good PROVE i \in Good
  <2>1. /\ levels[i].price \in Fractions /\ AtMost(Zero, levels[i].price)
        /\ levels[i].quantity \in Fractions /\ AtMost(Zero, levels[i].quantity)
    BY PositiveIs DEF IsLevel
  <2>2. /\ Times(levels[i].price, levels[i].quantity) \in Fractions
        /\ AtMost(Zero, Times(levels[i].price, levels[i].quantity))
    BY <2>1, TimesType, ProductSigns
  <2>3. v[i - 1] \in Fractions /\ AtMost(Zero, v[i - 1])
    BY <1>1, <1>3
  <2> QED BY <1>1, <2>2, <2>3, SumSigns
<1> HIDE DEF Good
<1>4. \A i \in 0 .. n : i \in Good
  BY <1>2, <1>3, StepInduction
<1> QED BY <1>1, <1>4 DEF Good

-----------------------------------------------------------------------------
(* Maker orders.                                                           *)

Pendings == [remaining : Fractions, queue : Fractions, filled : Fractions, lastFill : Int]

(* A trade after from and no later than to.                                *)
IsTrade(trade, from, to) ==
    /\ trade.ts \in Int /\ from < trade.ts /\ trade.ts <= to
    /\ trade.quantity \in Fractions /\ Below(Zero, trade.quantity)

AdvanceOne(p, order, trade, ends) ==
    IF FullyFilled(p) \/ \E end \in ends : end < trade.ts
    THEN p ELSE PassTrade(p, order, trade)

AdvanceFolds(g, pending, order, trades, ends) ==
    g = [s \in SUBSET DOMAIN trades |->
           IF s = {} THEN pending
           ELSE AdvanceOne(g[s \ {Max(s)}], order, trades[Max(s)], ends)]

LEMMA AdvanceIsChosen ==
    \A pending, order, trades, ends :
        AdvancePendingMaker(pending, order, trades, ends)
          = (CHOOSE g : AdvanceFolds(g, pending, order, trades, ends))[DOMAIN trades]
BY DEF AdvancePendingMaker, FoldLeft, MapThenFoldSet, AdvanceFolds, AdvanceOne

LEMMA PassType ==
    ASSUME NEW p \in Pendings, NEW order, NEW trade, NEW from \in Int, NEW to \in Int,
           IsTrade(trade, from, to), NEW ends
    PROVE  AdvanceOne(p, order, trade, ends) \in Pendings
<1> DEFINE consumed == Least(p.queue, trade.quantity)
           quantity == Least(p.remaining, Minus(trade.quantity, consumed))
<1>1. /\ p.remaining \in Fractions /\ p.queue \in Fractions /\ p.filled \in Fractions
      /\ p.lastFill \in Int /\ trade.quantity \in Fractions /\ trade.ts \in Int
  BY DEF Pendings, IsTrade
<1>2. consumed \in Fractions
  BY <1>1, LeastOf
<1>3. quantity \in Fractions
  <2> HIDE DEF consumed
  <2> QED BY <1>1, <1>2, PlusType, LeastOf
<1> HIDE DEF consumed, quantity
<1>4. /\ Minus(p.queue, consumed) \in Fractions
      /\ Minus(p.remaining, quantity) \in Fractions
      /\ Plus(p.filled, quantity) \in Fractions
  BY <1>1, <1>2, <1>3, PlusType
<1>5. /\ [p EXCEPT !.queue = Minus(@, consumed)] \in Pendings
      /\ [[p EXCEPT !.queue = Minus(@, consumed)]
            EXCEPT !.remaining = Minus(@, quantity), !.filled = Plus(@, quantity),
                   !.lastFill = trade.ts] \in Pendings
  BY <1>1, <1>4 DEF Pendings
<1>6. PassTrade(p, order, trade) \in Pendings
  BY <1>5 DEF PassTrade, consumed, quantity
<1> QED BY <1>6 DEF AdvanceOne

(* What a resting order can have become of p0 by trades after from: what   *)
(* it filled is what it no longer waits for, and its last fill is dated    *)
(* when it happened.                                                       *)
Advances(p, p0, from, to, ends) ==
    /\ AtMost(Zero, p.remaining) /\ AtMost(Zero, p.queue)
    /\ Plus(p.remaining, p.filled) = Plus(p0.remaining, p0.filled)
    /\ \/ p.filled = p0.filled
       \/ /\ Below(p0.filled, p.filled)
          /\ from < p.lastFill /\ p.lastFill <= to
          /\ \A end \in ends : p.lastFill <= end

LEMMA BelowChains ==
    ASSUME NEW a \in Fractions, NEW b \in Fractions, NEW c \in Fractions,
           AtMost(a, b), AtMost(b, c), Below(a, b) \/ Below(b, c)
    PROVE  Below(a, c)
<1>1. AtMost(a, c)
  BY AtMostChains
<1>2. CASE a = c
  BY <1>2, OrderByDifference
<1> QED BY <1>1, <1>2, OrderByDifference

LEMMA PassAdvances ==
    ASSUME NEW p0 \in Pendings, NEW p \in Pendings, NEW order, NEW trade,
           NEW from \in Int, NEW to \in Int, IsTrade(trade, from, to),
           NEW ends \in SUBSET Int, Advances(p, p0, from, to, ends)
    PROVE  Advances(AdvanceOne(p, order, trade, ends), p0, from, to, ends)
<1> DEFINE consumed == Least(p.queue, trade.quantity)
           quantity == Least(p.remaining, Minus(trade.quantity, consumed))
           behind == [p EXCEPT !.queue = Minus(@, consumed)]
           further == [behind EXCEPT !.remaining = Minus(@, quantity),
                                     !.filled = Plus(@, quantity), !.lastFill = trade.ts]
<1>1. /\ p.remaining \in Fractions /\ p.queue \in Fractions /\ p.filled \in Fractions
      /\ p.lastFill \in Int /\ trade.quantity \in Fractions /\ trade.ts \in Int
      /\ p0.remaining \in Fractions /\ p0.filled \in Fractions
      /\ AtMost(Zero, p.remaining) /\ AtMost(Zero, p.queue) /\ AtMost(Zero, trade.quantity)
  BY PositiveIs DEF Pendings, IsTrade, Advances
<1>2. consumed \in Fractions /\ AtMost(consumed, p.queue) /\ AtMost(consumed, trade.quantity)
  BY <1>1, LeastOf
<1>3. /\ Minus(trade.quantity, consumed) \in Fractions
      /\ AtMost(Zero, Minus(trade.quantity, consumed))
      /\ Minus(p.queue, consumed) \in Fractions /\ AtMost(Zero, Minus(p.queue, consumed))
  <2> HIDE DEF consumed
  <2> QED BY <1>1, <1>2, PlusType, OrderByDifference
<1>4. quantity \in Fractions /\ AtMost(Zero, quantity) /\ AtMost(quantity, p.remaining)
  <2> HIDE DEF consumed
  <2> QED BY <1>1, <1>3, LeastOf
<1> HIDE DEF consumed, quantity
<1>5. /\ behind.queue = Minus(p.queue, consumed) /\ behind.remaining = p.remaining
      /\ behind.filled = p.filled /\ behind.lastFill = p.lastFill
  BY <1>1 DEF Pendings
<1>6. /\ further.queue = Minus(p.queue, consumed) /\ further.lastFill = trade.ts
      /\ further.remaining = Minus(p.remaining, quantity)
      /\ further.filled = Plus(p.filled, quantity)
  BY <1>1 DEF Pendings
<1> HIDE DEF behind, further
<1>7. Advances(behind, p0, from, to, ends)
  BY <1>3, <1>5 DEF Advances
<1>8. ASSUME quantity # Zero, ~ \E end \in ends : end < trade.ts
      PROVE  Advances(further, p0, from, to, ends)
  <2>1. AtMost(Zero, further.remaining) /\ AtMost(Zero, further.queue)
    BY <1>1, <1>3, <1>4, <1>6, OrderByDifference
  <2>2. /\ Minus(p.remaining, quantity) \in Fractions
        /\ Plus(Minus(p.remaining, quantity), quantity) = p.remaining
    BY <1>1, <1>4, PlusType, MinusUndoesPlus
  <2>3. Plus(further.remaining, further.filled) = Plus(p.remaining, p.filled)
    <3>1. Plus(Minus(p.remaining, quantity), Plus(p.filled, quantity))
            = Plus(p.filled, Plus(Minus(p.remaining, quantity), quantity))
      BY <1>1, <1>4, <2>2, PlusSwaps
    <3> QED BY <1>1, <1>6, <2>2, <3>1, PlusCommutes
  <2>4. Below(p0.filled, further.filled)
    <3>1. /\ Plus(p.filled, quantity) \in Fractions
          /\ Minus(Plus(p.filled, quantity), p.filled) = quantity
      BY <1>1, <1>4, PlusType, PlusCommutes, MinusUndoesPlus
    <3>2. Below(p.filled, Plus(p.filled, quantity)) /\ AtMost(p.filled, Plus(p.filled, quantity))
      BY <1>1, <1>4, <1>8, <3>1, OrderByDifference, PositiveIs
    <3>3. AtMost(p0.filled, p.filled)
      BY <1>1, OrderByDifference DEF Advances
    <3> QED BY <1>1, <1>6, <3>1, <3>2, <3>3, BelowChains
  <2>5. /\ from < further.lastFill /\ further.lastFill <= to
        /\ \A end \in ends : further.lastFill <= end
    BY <1>1, <1>6, <1>8 DEF IsTrade
  <2> QED BY <2>1, <2>3, <2>4, <2>5 DEF Advances
<1>9. AdvanceOne(p, order, trade, ends) \in {p, behind}
        \/ /\ quantity # Zero /\ ~ \E end \in ends : end < trade.ts
           /\ AdvanceOne(p, order, trade, ends) = further
  BY DEF AdvanceOne, PassTrade, consumed, quantity, behind, further
<1> QED BY <1>7, <1>8, <1>9

AdvancesBy(pending, order, trades, n, ends) ==
    \E v \in [0 .. n -> Pendings] :
       /\ v[0] = pending /\ AdvancePendingMaker(pending, order, trades, ends) = v[n]
       /\ \A i \in 1 .. n : v[i] = AdvanceOne(v[i - 1], order, trades[i], ends)

LEMMA AdvancePath ==
    ASSUME NEW pending \in Pendings, NEW order, NEW trades, NEW n \in Nat, DOMAIN trades = 1 .. n,
           NEW from \in Int, NEW to \in Int, \A i \in 1 .. n : IsTrade(trades[i], from, to),
           NEW ends
    PROVE  AdvancesBy(pending, order, trades, n, ends)
<1> DEFINE base == pending
           X == {trades[i] : i \in 1 .. n}
           step == [p \in Pendings \X X |-> AdvanceOne(p[1], order, p[2], ends)]
           line == [i \in 1 .. n |-> trades[i]]
           g == CHOOSE f : AdvanceFolds(f, pending, order, trades, ends)
<1>1. n \in Nat /\ base \in Pendings /\ line \in [1 .. n -> X]
  OBVIOUS
<1>2. \A a \in Pendings, l \in X : AdvanceOne(a, order, l, ends) \in Pendings
  BY PassType
<1>3. step \in [Pendings \X X -> Pendings] /\ \A a \in Pendings, l \in X : step[<<a, l>>] = AdvanceOne(a, order, l, ends)
  BY <1>2
<1>4. AdvanceFolds(g, pending, order, trades, ends)
  <2>1. PICK f \in [SUBSET (1 .. n) -> Pendings] :
           \A s \in SUBSET (1 .. n) :
              f[s] = IF s = {} THEN base ELSE step[<<f[s \ {Max(s)}], line[Max(s)]>>]
    <3> HIDE DEF base, X, step, line
    <3>1. HasFold(Pendings, step, base, line, n)
      BY <1>1, <1>3, FoldExists
    <3> QED BY <3>1 DEF HasFold
  <2>2. ASSUME NEW s \in SUBSET (1 .. n), s # {}
        PROVE  f[s] = AdvanceOne(f[s \ {Max(s)}], order, trades[Max(s)], ends)
    <3>1. Max(s) \in s
      BY <2>2, SomeLast, <1>1
    <3>2. f[s \ {Max(s)}] \in Pendings /\ trades[Max(s)] \in X /\ line[Max(s)] = trades[Max(s)]
      BY <3>1
    <3>3. f[s] = step[<<f[s \ {Max(s)}], line[Max(s)]>>]
      <4> HIDE DEF step, line
      <4> QED BY <2>1, <2>2
    <3> HIDE DEF step, line, X
    <3> QED BY <3>2, <1>3, <3>3
  <2>3. f = [s \in SUBSET DOMAIN trades |->
               IF s = {} THEN pending
               ELSE AdvanceOne(f[s \ {Max(s)}], order, trades[Max(s)], ends)]
    BY <2>1, <2>2
  <2>4. AdvanceFolds(f, pending, order, trades, ends)
    BY <2>3 DEF AdvanceFolds
  <2> HIDE DEF g
  <2> QED BY <2>4 DEF g
<1> HIDE DEF g
<1>5. /\ g[{}] = base
      /\ \A s \in SUBSET (1 .. n) : s # {} =>
            g[s] = AdvanceOne(g[s \ {Max(s)}], order, trades[Max(s)], ends)
  BY <1>4 DEF AdvanceFolds
<1>6. ASSUME NEW i \in 1 .. n, g[1 .. (i - 1)] \in Pendings
      PROVE  g[1 .. i] = step[<<g[1 .. (i - 1)], line[i]>>]
  <2>1. g[1 .. i] = AdvanceOne(g[1 .. (i - 1)], order, trades[i], ends)
    <3>1. /\ 1 .. i \in SUBSET (1 .. n) /\ 1 .. i # {}
          /\ Max(1 .. i) = i /\ (1 .. i) \ {i} = 1 .. (i - 1)
      BY <1>1, InitialSegments
    <3>2. g[1 .. i] = AdvanceOne(g[(1 .. i) \ {Max(1 .. i)}], order, trades[Max(1 .. i)], ends)
      BY <1>5, <3>1
    <3> QED BY <3>1, <3>2
  <2>2. line[i] = trades[i] /\ trades[i] \in X
    OBVIOUS
  <2> HIDE DEF step, line, X
  <2> QED BY <1>3, <1>6, <2>1, <2>2
<1>7. PICK v \in [0 .. n -> Pendings] :
         /\ v[0] = base /\ v[n] = g[1 .. n]
         /\ \A i \in 1 .. n : v[i] = step[<<v[i - 1], line[i]>>]
  <2> HIDE DEF base, X, step, line
  <2>1. g[{}] = base
    BY <1>5
  <2>2. \A i \in 1 .. n : g[1 .. (i - 1)] \in Pendings =>
           g[1 .. i] = step[<<g[1 .. (i - 1)], line[i]>>]
    BY <1>6
  <2>u. Unrolls(g, Pendings, step, base, line, n)
    BY <2>1, <2>2 DEF Unrolls
  <2>3. step \in [Pendings \X X -> Pendings]
    BY <1>3
  <2>4. HasPath(Pendings, step, base, line, n, g[1 .. n])
    BY <1>1, <2>u, <2>3, FoldPath
  <2> QED BY <2>4 DEF HasPath
<1>8. ASSUME NEW i \in 1 .. n PROVE v[i] = AdvanceOne(v[i - 1], order, trades[i], ends)
  <2>1. line[i] = trades[i] /\ trades[i] \in X /\ i - 1 \in 0 .. n
    OBVIOUS
  <2>3. v[i - 1] \in Pendings
    BY <2>1
  <2>2. v[i] = step[<<v[i - 1], line[i]>>]
    BY <1>7
  <2> HIDE DEF step, line, X
  <2> QED BY <1>3, <2>1, <2>2, <2>3
<1>9. AdvancePendingMaker(pending, order, trades, ends) = g[1 .. n]
  BY AdvanceIsChosen DEF g
<1> QED BY <1>7, <1>8, <1>9 DEF AdvancesBy

LEMMA MakerAdvances ==
    ASSUME NEW pending \in Pendings, AtMost(Zero, pending.remaining), AtMost(Zero, pending.queue),
           NEW order, NEW trades, NEW n \in Nat, DOMAIN trades = 1 .. n,
           NEW from \in Int, NEW to \in Int, \A i \in 1 .. n : IsTrade(trades[i], from, to),
           NEW ends \in SUBSET Int
    PROVE  /\ AdvancePendingMaker(pending, order, trades, ends) \in Pendings
           /\ Advances(AdvancePendingMaker(pending, order, trades, ends),
                       pending, from, to, ends)
<1>1. PICK v \in [0 .. n -> Pendings] :
         /\ v[0] = pending /\ AdvancePendingMaker(pending, order, trades, ends) = v[n]
         /\ \A i \in 1 .. n : v[i] = AdvanceOne(v[i - 1], order, trades[i], ends)
  <2>1. AdvancesBy(pending, order, trades, n, ends)
    BY AdvancePath
  <2> QED BY <2>1 DEF AdvancesBy
<1> DEFINE Good == {i \in 0 .. n : Advances(v[i], pending, from, to, ends)}
<1>2. 0 \in Good
  BY <1>1 DEF Advances
<1>3. ASSUME NEW i \in 1 .. n, i - 1 \in Good PROVE i \in Good
  <2>1. /\ v[i - 1] \in Pendings /\ Advances(v[i - 1], pending, from, to, ends)
        /\ IsTrade(trades[i], from, to) /\ v[i] = AdvanceOne(v[i - 1], order, trades[i], ends)
    BY <1>1, <1>3
  <2>2. Advances(AdvanceOne(v[i - 1], order, trades[i], ends), pending, from, to, ends)
    BY <2>1, PassAdvances
  <2> QED BY <2>1, <2>2
<1> HIDE DEF Good
<1>4. \A i \in 0 .. n : i \in Good
  BY <1>2, <1>3, StepInduction
<1> QED BY <1>1, <1>4 DEF Good

Directions == {Buy, Sell}

LEMMA MinusTwice ==
    ASSUME NEW a \in Fractions
    PROVE  a = Minus(Zero, Minus(Zero, a))
<1>1. PICK d \in Int, u \in Int, v \in Int :
         Over2(a, a, d, u, v)
  BY Common2
<1>2. d # 0 /\ Is(a, u, d)
  BY <1>1 DEF Over2
<1>3. Zero \in Fractions /\ Is(Zero, 0, d)
  BY ZeroIs
<1>4. /\ Minus(Zero, a) \in Fractions
      /\ Is(Minus(Zero, a), 0 - u, d) /\ 0 - u \in Int
  BY <1>2, <1>3, MinusIs
<1>5. /\ Minus(Zero, Minus(Zero, a)) \in Fractions
      /\ Is(Minus(Zero, Minus(Zero, a)), 0 - (0 - u), d) /\ 0 - (0 - u) \in Int
  BY <1>2, <1>3, <1>4, MinusIs
<1>6. u = 0 - (0 - u)
  OBVIOUS
<1>7. a = Minus(Zero, Minus(Zero, a))
  BY <1>2, <1>5, <1>6, SameIs
<1> QED BY <1>7

LEMMA OppositeSide ==
    ASSUME NEW d \in Directions, NEW x \in Fractions
    PROVE  /\ -d \in Directions /\ d \in Int
           /\ Times(Whole(d), x) \in Fractions
           /\ Times(Whole(-d), x) = Minus(Zero, Times(Whole(d), x))
<1>1. /\ Times(Whole(-1), x) = Minus(Zero, x) /\ Times(Whole(1), x) = x
      /\ x = Minus(Zero, Minus(Zero, x))
  BY TimesUnits, MinusTwice
<1>2. CASE d = 1
  BY <1>1, <1>2, WholeIs, TimesType DEF Directions, Buy, Sell
<1>3. CASE d = -1
  <2>1. -d = 1 /\ d \in Int /\ -d \in Directions
    <3>1. d \in Int /\ d + 1 = 0
      BY <1>3
    <3>2. -d = 1
      BY <3>1
    <3> QED BY <3>1, <3>2 DEF Directions, Buy
  <2>2. Whole(-d) = Whole(1) /\ Whole(d) = Whole(-1) /\ Whole(d) \in Fractions
    BY <1>3, <2>1, WholeIs
  <2>3. Times(Whole(d), x) \in Fractions
    BY <2>2, TimesType
  <2>4. Times(Whole(-d), x) = Minus(Zero, Times(Whole(d), x))
    BY <1>1, <2>2
  <2> QED BY <2>1, <2>3, <2>4
<1> QED BY <1>2, <1>3 DEF Directions, Buy, Sell

-----------------------------------------------------------------------------
(* Order books and resting orders.                                         *)

IsSide(levels) ==
    \E n \in Nat \ {0} : DOMAIN levels = 1 .. n /\ \A i \in 1 .. n : IsLevel(levels[i])

LEMMA BookIs ==
    ASSUME NEW book, ValidBook(book)
    PROVE  IsSide(book.bids) /\ IsSide(book.asks)
<1> SUFFICES ASSUME NEW side \in {book.bids, book.asks} PROVE IsSide(side)
  OBVIOUS
<1>1. /\ Len(side) \in Nat \ {0} /\ DOMAIN side = 1 .. Len(side)
      /\ \A i \in DOMAIN side : IsPositive(side[i].price) /\ IsPositive(side[i].quantity)
  BY DEF ValidBook
<1>2. \A i \in 1 .. Len(side) : IsLevel(side[i])
  BY <1>1, RationalIsFraction DEF IsPositive, IsLevel
<1> QED BY <1>1, <1>2 DEF IsSide

LEMMA BestOf ==
    ASSUME NEW levels, IsSide(levels)
    PROVE  1 \in DOMAIN levels /\ \A i \in DOMAIN levels : IsLevel(levels[i])
BY DEF IsSide

LEMMA QuoteIs ==
    ASSUME NEW book, ValidBook(book), NEW side \in Directions
    PROVE  /\ DefaultMakerPrice(book, side) \in Fractions
           /\ Below(Zero, DefaultMakerPrice(book, side))
           /\ VisibleQuantityAtPrice(book, side, DefaultMakerPrice(book, side)) \in Fractions
           /\ AtMost(Zero, VisibleQuantityAtPrice(book, side, DefaultMakerPrice(book, side)))
<1> DEFINE levels == IF side = Buy THEN book.bids ELSE book.asks
           price == DefaultMakerPrice(book, side)
           At == {i \in DOMAIN levels : levels[i].price = price}
           best == CHOOSE i \in At : \A j \in At : i <= j
<1>1. IsSide(levels)
  BY BookIs
<1>2. price = levels[1].price
  BY DEF DefaultMakerPrice
<1>3. VisibleQuantityAtPrice(book, side, price) = IF At = {} THEN Zero ELSE levels[best].quantity
  BY DEF VisibleQuantityAtPrice
<1>4. \E n \in Nat \ {0} : DOMAIN levels = 1 .. n
  BY <1>1 DEF IsSide
<1> HIDE DEF levels, price
<1>5. 1 \in At /\ \A j \in At : j \in Nat /\ 1 <= j
  BY <1>1, <1>2, <1>4, BestOf
<1>6. best \in At
  BY <1>5
<1>7. best \in DOMAIN levels /\ At # {}
  BY <1>5, <1>6
<1> HIDE DEF At, best
<1>8. IsLevel(levels[best]) /\ IsLevel(levels[1])
  BY <1>1, <1>7, BestOf
<1>9. /\ levels[best].quantity \in Fractions /\ AtMost(Zero, levels[best].quantity)
      /\ levels[1].price \in Fractions /\ Below(Zero, levels[1].price)
  BY <1>8, PositiveIs DEF IsLevel
<1> QED BY <1>2, <1>3, <1>7, <1>9 DEF price
=============================================================================
