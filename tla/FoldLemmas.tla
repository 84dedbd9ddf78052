----------------------------- MODULE FoldLemmas -----------------------------
(* Facts about recursion and about sums over a finite set. Nothing here       *)
(* mentions the service. The library states induction with an operator as     *)
(* parameter; here it is stated with a set of the things that are good, so    *)
(* that it can be cited: what is not good would have a smallest member.       *)
EXTENDS FiniteSetsExt, FiniteSetTheorems, TLAPS

(* A set of naturals with anything in it has a least member.                  *)
LEMMA Least ==
  ASSUME NEW T \in SUBSET Nat, T # {}
  PROVE  \E x \in T : \A y \in T : x <= y
  <1> DEFINE less == OpToRel(<, Nat)
  <1>1. IsWellFoundedOn(less, Nat)
    BY NatLessThanWellFounded
  <1>2. \A m, n \in Nat : m < n => <<m, n>> \in less
    BY DEF OpToRel
  <1> HIDE DEF less
  <1>3. PICK x \in T : \A y \in T : <<y, x>> \notin less
    BY <1>1, WFMin
  <1>4. ASSUME NEW y \in T PROVE x <= y
    <2>1. <<y, x>> \notin less /\ y \in Nat /\ x \in Nat
      BY <1>3
    <2>2. ~(y < x)
      BY <1>2, <2>1
    <2> QED
      BY <2>1, <2>2
  <1> QED
    BY <1>4

(* Some of the numbers up to n have a greatest one.                           *)
LEMMA Greatest ==
  ASSUME NEW n \in Nat, NEW T \in SUBSET (1..n), T # {}
  PROVE  \E x \in T : \A y \in T : x >= y
  <1> DEFINE below == {n - x : x \in T}
  <1>1. below \in SUBSET Nat /\ below # {}
    <2>1. \A x \in T : n - x \in Nat
      OBVIOUS
    <2>2. PICK x \in T : TRUE
      OBVIOUS
    <2>3. n - x \in below
      OBVIOUS
    <2> QED
      BY <2>1, <2>3
  <1>2. PICK b \in below : \A y \in below : b <= y
    <2> HIDE DEF below
    <2> QED
      BY <1>1, Least
  <1>3. PICK x \in T : b = n - x
    BY <1>2
  <1>4. ASSUME NEW y \in T PROVE x >= y
    <2>1. b <= n - y /\ x \in Nat /\ y \in Nat
      BY <1>2
    <2> QED
      BY <1>3, <2>1
  <1> QED
    BY <1>4

(* A set of naturals with 0 and every successor holds them all.               *)
LEMMA NaturalSets ==
  ASSUME NEW D \in SUBSET Nat, 0 \in D, \A n \in D : n + 1 \in D
  PROVE  D = Nat
  <1> DEFINE Missing == Nat \ D
  <1>1. ASSUME Missing # {} PROVE FALSE
    <2>1. PICK n \in Missing : \A m \in Missing : n <= m
      <3>1. Missing \in SUBSET Nat
        OBVIOUS
      <3> HIDE DEF Missing
      <3> QED
        BY <1>1, <3>1, Least
    <2>2. n - 1 \in Nat /\ n - 1 < n
      BY <2>1
    <2>3. n - 1 \notin Missing
      BY <2>1, <2>2
    <2> QED
      BY <2>1, <2>2, <2>3
  <1> QED
    BY <1>1

(* g is defined over the subsets of S by recursion: base on the empty set, F  *)
(* of the element ch takes out and of the value on what is left elsewhere.    *)
Unfolds(g, S, ch, base, F) ==
  g = [s \in SUBSET S |-> IF s = {} THEN base ELSE F[<<ch[s], g[s \ {ch[s]}]>>]]

(* Such a recursion has a solution, with values where base and F have theirs. *)
LEMMA FoldExists ==
  ASSUME NEW S, IsFiniteSet(S), NEW V, NEW base \in V, NEW F \in [S \X V -> V],
         NEW ch, \A s \in SUBSET S : s # {} => ch[s] \in s
  PROVE  \E g \in [SUBSET S -> V] : Unfolds(g, S, ch, base, F)
  <1> DEFINE upTo(n) == {s \in SUBSET S : Cardinality(s) <= n}
             good(g, A) == \A s \in A : g[s] = IF s = {} THEN base ELSE F[<<ch[s], g[s \ {ch[s]}]>>]
             D == {n \in Nat : \E g \in [upTo(n) -> V] : good(g, upTo(n))}
  <1>1. \A s \in SUBSET S :
          /\ IsFiniteSet(s) /\ Cardinality(s) \in Nat /\ (Cardinality(s) = 0 <=> s = {})
          /\ Cardinality(s) <= Cardinality(S)
    BY FS_Subset, FS_CardinalityType, FS_EmptySet
  <1>2. \A s \in SUBSET S : s # {} =>
          /\ ch[s] \in S /\ s \ {ch[s]} \in SUBSET S /\ s \ {ch[s]} # s
          /\ Cardinality(s \ {ch[s]}) = Cardinality(s) - 1
    BY <1>1, FS_RemoveElement
  <1>3. 0 \in D
    <2>1. \A s \in upTo(0) : s = {}
      BY <1>1
    <2>2. [s \in upTo(0) |-> base] \in [upTo(0) -> V] /\ good([s \in upTo(0) |-> base], upTo(0))
      BY <2>1
    <2> QED
      BY <2>2
  <1>4. ASSUME NEW n \in D PROVE n + 1 \in D
    <2>1. n \in Nat
      OBVIOUS
    <2>2. PICK g \in [upTo(n) -> V] : good(g, upTo(n))
      OBVIOUS
    <2> DEFINE h == [s \in upTo(n + 1) |-> IF s \in upTo(n) THEN g[s]
                                           ELSE F[<<ch[s], g[s \ {ch[s]}]>>]]
    <2>a. \A s \in SUBSET S : Cardinality(s) \in Nat /\ (Cardinality(s) = 0 <=> s = {})
      BY <1>1
    <2>3. \A s \in upTo(n + 1) : s # {} => ch[s] \in S /\ s \ {ch[s]} \in upTo(n)
      <3> SUFFICES ASSUME NEW s \in upTo(n + 1), s # {}
                   PROVE  ch[s] \in S /\ s \ {ch[s]} \in upTo(n)
        OBVIOUS
      <3>1. s \in SUBSET S /\ Cardinality(s) <= n + 1 /\ Cardinality(s) \in Nat
        BY <2>a
      <3>2. Cardinality(s \ {ch[s]}) <= n
        BY <3>1, <2>1, <1>2
      <3> QED
        BY <3>1, <3>2, <1>2
    <2>4. upTo(n) \subseteq upTo(n + 1) /\ {} \in upTo(n)
      BY <2>1, <2>a
    <2> HIDE DEF upTo, good
    <2>5. \A s \in upTo(n + 1) : s \notin upTo(n) => F[<<ch[s], g[s \ {ch[s]}]>>] \in V
      BY <2>3, <2>4
    <2>6. h \in [upTo(n + 1) -> V]
      BY <2>5
    <2>7. \A s \in upTo(n) : h[s] = g[s]
      BY <2>4
    <2>8. good(h, upTo(n + 1))
      <3> SUFFICES ASSUME NEW s \in upTo(n + 1)
                   PROVE  h[s] = IF s = {} THEN base ELSE F[<<ch[s], h[s \ {ch[s]}]>>]
        BY DEF good
      <3>1. CASE s \in upTo(n)
        <4>1. h[s] = IF s = {} THEN base ELSE F[<<ch[s], g[s \ {ch[s]}]>>]
          BY <3>1, <2>2, <2>7 DEF good
        <4> HIDE DEF h
        <4> QED
          BY <4>1, <2>3, <2>7
      <3>2. CASE s \notin upTo(n)
        <4>1. h[s] = F[<<ch[s], g[s \ {ch[s]}]>>] /\ s # {}
          BY <3>2, <2>4
        <4> HIDE DEF h
        <4> QED
          BY <4>1, <2>3, <2>7
      <3> QED
        BY <3>1, <3>2
    <2> HIDE DEF h
    <2> QED
      BY <2>1, <2>6, <2>8
  <1>5. Cardinality(S) \in D
    <2>1. D \in SUBSET Nat
      OBVIOUS
    <2> HIDE DEF D
    <2> QED
      BY <1>1, <1>3, <1>4, <2>1, NaturalSets
  <1>6. upTo(Cardinality(S)) = SUBSET S
    BY <1>1
  <1>7. PICK g \in [upTo(Cardinality(S)) -> V] : good(g, upTo(Cardinality(S)))
    BY <1>5
  <1> HIDE DEF upTo
  <1>8. g \in [SUBSET S -> V] /\ good(g, SUBSET S)
    BY <1>6, <1>7
  <1>9. Unfolds(g, S, ch, base, F)
    BY <1>8 DEF Unfolds
  <1> QED
    BY <1>8, <1>9

(* Induction over the subsets of a finite set: if a set is good whenever all  *)
(* sets with one element less are, every subset is.                           *)
LEMMA SubsetInduction ==
  ASSUME NEW S, IsFiniteSet(S), NEW Good \in SUBSET SUBSET S, {} \in Good,
         \A s \in SUBSET S : s # {} /\ (\A x \in s : s \ {x} \in Good) => s \in Good
  PROVE  Good = SUBSET S
  <1> DEFINE D == {n \in Nat : \A s \in SUBSET S : Cardinality(s) <= n => s \in Good}
  <1>1. \A s \in SUBSET S :
          /\ IsFiniteSet(s) /\ Cardinality(s) \in Nat /\ (Cardinality(s) = 0 <=> s = {})
          /\ Cardinality(s) <= Cardinality(S)
          /\ \A x \in s : Cardinality(s \ {x}) = Cardinality(s) - 1
    BY FS_Subset, FS_CardinalityType, FS_EmptySet, FS_RemoveElement
  <1>2. 0 \in D
    <2>1. \A s \in SUBSET S : Cardinality(s) <= 0 => s = {}
      BY <1>1
    <2> QED
      BY <2>1
  <1>3. ASSUME NEW n \in D PROVE n + 1 \in D
    <2>1. n \in Nat /\ \A s \in SUBSET S : Cardinality(s) <= n => s \in Good
      OBVIOUS
    <2>2. ASSUME NEW s \in SUBSET S, Cardinality(s) <= n + 1 PROVE s \in Good
      <3>1. CASE s = {}
        BY <3>1
      <3>2. CASE s # {}
        <4>1. \A x \in s : s \ {x} \in SUBSET S /\ Cardinality(s \ {x}) <= n
          BY <2>1, <2>2, <1>1
        <4> QED
          BY <3>2, <2>1, <4>1
      <3> QED
        BY <3>1, <3>2
    <2> QED
      BY <2>1, <2>2
  <1>4. D = Nat
    <2>1. D \in SUBSET Nat
      OBVIOUS
    <2> HIDE DEF D
    <2> QED
      BY <1>2, <1>3, <2>1, NaturalSets
  <1> QED
    BY <1>1, <1>4

-----------------------------------------------------------------------------
(* SumFunctionOnSet, as the community modules define it.                      *)

(* The element a fold takes out of a set, and what a sum does with it.        *)
chosen(S) == [s \in SUBSET S |-> CHOOSE x \in s : TRUE]

adds(f, S) == [p \in S \X Int |-> f[p[1]] + p[2]]

(* The sum over T is the recursion of the two above.                          *)
LEMMA SumIsFold ==
  ASSUME NEW S, IsFiniteSet(S), NEW f, \A x \in S : f[x] \in Int,
         NEW g \in [SUBSET S -> Int], Unfolds(g, S, chosen(S), 0, adds(f, S)),
         NEW T \in SUBSET S
  PROVE  SumFunctionOnSet(f, T) = g[T]
  <1> DEFINE c(s) == CHOOSE x \in s : TRUE
             Sums(h) == h = [s \in SUBSET T |-> IF s = {} THEN 0 ELSE f[c(s)] + h[s \ {c(s)}]]
             r == [s \in SUBSET T |-> g[s]]
             iter == CHOOSE h : Sums(h)
  <1>1. SumFunctionOnSet(f, T) = iter[T]
    BY DEF SumFunctionOnSet, FoldFunctionOnSet, MapThenFoldSet
  <1>2. \A s \in SUBSET S : s # {} => c(s) \in s
    OBVIOUS
  <1> HIDE DEF c
  <1>3. \A s \in SUBSET S : g[s] = IF s = {} THEN 0 ELSE f[c(s)] + g[s \ {c(s)}]
    BY <1>2 DEF Unfolds, chosen, adds, c
  <1>4. Sums(r)
    BY <1>2, <1>3
  <1>5. Sums(iter)
    <2> HIDE DEF Sums
    <2> QED
      BY <1>4
  <1> HIDE DEF iter
  <1> DEFINE Good == {s \in SUBSET T : iter[s] = g[s]}
  <1>6. {} \in Good
    BY <1>3, <1>5
  <1>7. \A s \in SUBSET T : s # {} /\ (\A x \in s : s \ {x} \in Good) => s \in Good
    <2> SUFFICES ASSUME NEW s \in SUBSET T, s # {}, s \ {c(s)} \in Good PROVE s \in Good
      BY <1>2
    <2> QED
      BY <1>3, <1>5
  <1>8. Good = SUBSET T
    <2>1. Good \in SUBSET SUBSET T /\ IsFiniteSet(T)
      BY FS_Subset
    <2> HIDE DEF Good
    <2> QED
      BY <1>6, <1>7, <2>1, SubsetInduction
  <1> QED
    BY <1>1, <1>8

(* A sum is an integer, 0 over nothing, else some element and the rest.       *)
LEMMA SumStep ==
  ASSUME NEW S, IsFiniteSet(S), NEW f, \A x \in S : f[x] \in Int
  PROVE  /\ SumFunctionOnSet(f, {}) = 0
         /\ \A s \in SUBSET S : SumFunctionOnSet(f, s) \in Int
         /\ \A s \in SUBSET S : s # {} =>
              \E x \in s : SumFunctionOnSet(f, s) = f[x] + SumFunctionOnSet(f, s \ {x})
  <1>1. \A s \in SUBSET S : s # {} => chosen(S)[s] \in s
    BY DEF chosen
  <1>2. adds(f, S) \in [S \X Int -> Int]
    BY DEF adds
  <1>3. PICK g \in [SUBSET S -> Int] : Unfolds(g, S, chosen(S), 0, adds(f, S))
    <2> DEFINE ch == chosen(S)
               F  == adds(f, S)
    <2>1. F \in [S \X Int -> Int] /\ \A s \in SUBSET S : s # {} => ch[s] \in s
      BY <1>1, <1>2
    <2> HIDE DEF ch, F
    <2>2. 0 \in Int
      OBVIOUS
    <2>3. \E g \in [SUBSET S -> Int] : Unfolds(g, S, ch, 0, F)
      BY ONLY <2>1, <2>2, IsFiniteSet(S), FoldExists
    <2> QED
      BY <2>3 DEF ch, F
  <1>4. \A s \in SUBSET S : SumFunctionOnSet(f, s) = g[s]
    BY <1>3, SumIsFold
  <1>5. g[{}] = 0 /\ \A s \in SUBSET S : s # {} => \E x \in s : g[s] = f[x] + g[s \ {x}]
    BY <1>1, <1>3 DEF Unfolds, adds
  <1> QED
    BY <1>4, <1>5

(* Any element can be taken out of a sum: the order does not matter.          *)
LEMMA SumSplit ==
  ASSUME NEW S, IsFiniteSet(S), NEW f, \A x \in S : f[x] \in Int, NEW x \in S
  PROVE  SumFunctionOnSet(f, S) = f[x] + SumFunctionOnSet(f, S \ {x})
  <1> DEFINE sum(s) == SumFunctionOnSet(f, s)
             Good == {s \in SUBSET S : \A y \in s : sum(s) = f[y] + sum(s \ {y})}
  <1>1. /\ \A s \in SUBSET S : sum(s) \in Int
        /\ \A s \in SUBSET S : s # {} => \E y \in s : sum(s) = f[y] + sum(s \ {y})
    BY SumStep
  <1> HIDE DEF sum
  <1>2. {} \in Good
    OBVIOUS
  <1>3. \A s \in SUBSET S : s # {} /\ (\A y \in s : s \ {y} \in Good) => s \in Good
    <2> SUFFICES ASSUME NEW s \in SUBSET S, s # {}, \A y \in s : s \ {y} \in Good,
                        NEW z \in s
                 PROVE  sum(s) = f[z] + sum(s \ {z})
      OBVIOUS
    <2>1. PICK y \in s : sum(s) = f[y] + sum(s \ {y})
      BY <1>1
    <2>2. CASE z = y
      BY <2>1, <2>2
    <2>3. CASE z # y
      <3>1. sum(s \ {y}) = f[z] + sum((s \ {y}) \ {z})
        BY <2>3
      <3>2. sum(s \ {z}) = f[y] + sum((s \ {z}) \ {y})
        BY <2>3
      <3>3. (s \ {y}) \ {z} = (s \ {z}) \ {y}
        OBVIOUS
      <3>4. sum((s \ {y}) \ {z}) \in Int /\ f[y] \in Int /\ f[z] \in Int
        BY <1>1
      <3> QED
        BY <2>1, <3>1, <3>2, <3>3, <3>4
    <2> QED
      BY <2>2, <2>3
  <1>4. Good = SUBSET S
    <2>1. Good \in SUBSET SUBSET S
      OBVIOUS
    <2> HIDE DEF Good
    <2> QED
      BY <1>2, <1>3, <2>1, SubsetInduction
  <1> QED
    BY <1>4 DEF sum

(* Functions that agree on the set have the same sum.                         *)
LEMMA SumAgree ==
  ASSUME NEW S, IsFiniteSet(S), NEW f, NEW g, \A x \in S : f[x] \in Int /\ g[x] = f[x]
  PROVE  SumFunctionOnSet(g, S) = SumFunctionOnSet(f, S)
  <1> DEFINE sum(h, s) == SumFunctionOnSet(h, s)
             Good == {s \in SUBSET S : sum(g, s) = sum(f, s)}
  <1>1. ASSUME NEW s \in SUBSET S
        PROVE  /\ sum(f, s) \in Int /\ sum(g, s) \in Int
               /\ \A x \in s : sum(f, s) = f[x] + sum(f, s \ {x})
               /\ \A x \in s : sum(g, s) = g[x] + sum(g, s \ {x})
    <2>1. IsFiniteSet(s)
      BY FS_Subset
    <2> QED
      BY <2>1, SumStep, SumSplit
  <1>2. sum(f, {}) = 0 /\ sum(g, {}) = 0
    BY SumStep
  <1> HIDE DEF sum
  <1>3. \A s \in SUBSET S : s # {} /\ (\A y \in s : s \ {y} \in Good) => s \in Good
    BY <1>1
  <1>4. Good = SUBSET S
    <2>1. Good \in SUBSET SUBSET S /\ {} \in Good
      BY <1>2
    <2> HIDE DEF Good
    <2> QED
      BY <1>3, <2>1, SubsetInduction
  <1> QED
    BY <1>4 DEF sum

(* Nothing but zeros adds up to zero.                                         *)
LEMMA SumZero ==
  ASSUME NEW S, IsFiniteSet(S), NEW f, \A x \in S : f[x] = 0
  PROVE  SumFunctionOnSet(f, S) = 0
  <1> DEFINE sum(s) == SumFunctionOnSet(f, s)
             Good == {s \in SUBSET S : sum(s) = 0}
  <1>1. /\ sum({}) = 0
        /\ \A s \in SUBSET S : s # {} => \E x \in s : sum(s) = f[x] + sum(s \ {x})
    BY SumStep
  <1> HIDE DEF sum
  <1>2. \A s \in SUBSET S : s # {} /\ (\A y \in s : s \ {y} \in Good) => s \in Good
    <2> SUFFICES ASSUME NEW s \in SUBSET S, s # {}, \A y \in s : s \ {y} \in Good
                 PROVE  sum(s) = 0
      OBVIOUS
    <2>1. PICK x \in s : sum(s) = f[x] + sum(s \ {x})
      BY <1>1
    <2>2. f[x] = 0 /\ sum(s \ {x}) = 0
      OBVIOUS
    <2> QED
      BY <2>1, <2>2
  <1>3. Good = SUBSET S
    <2>1. Good \in SUBSET SUBSET S /\ {} \in Good
      BY <1>1
    <2> HIDE DEF Good
    <2> QED
      BY <1>2, <2>1, SubsetInduction
  <1> QED
    BY <1>3 DEF sum

(* Changing one value changes the sum by the difference.                      *)
LEMMA SumUpdate ==
  ASSUME NEW S, IsFiniteSet(S), NEW f, NEW g, NEW x \in S,
         \A y \in S : f[y] \in Int /\ g[y] \in Int,
         \A y \in S : y # x => g[y] = f[y]
  PROVE  SumFunctionOnSet(g, S) = SumFunctionOnSet(f, S) - f[x] + g[x]
  <1>1. IsFiniteSet(S \ {x})
    BY FS_RemoveElement
  <1>2. /\ SumFunctionOnSet(f, S \ {x}) \in Int
        /\ SumFunctionOnSet(g, S \ {x}) = SumFunctionOnSet(f, S \ {x})
    BY <1>1, SumStep, SumAgree
  <1>3. /\ SumFunctionOnSet(f, S) = f[x] + SumFunctionOnSet(f, S \ {x})
        /\ SumFunctionOnSet(g, S) = g[x] + SumFunctionOnSet(g, S \ {x})
    BY SumSplit
  <1> QED
    BY <1>2, <1>3

(* A function below another has the smaller sum, by at least the difference   *)
(* at any one element.                                                        *)
LEMMA SumOrder ==
  ASSUME NEW S, IsFiniteSet(S), NEW f, NEW g,
         \A y \in S : f[y] \in Int /\ g[y] \in Int /\ f[y] <= g[y]
  PROVE  /\ SumFunctionOnSet(f, S) <= SumFunctionOnSet(g, S)
         /\ \A x \in S : SumFunctionOnSet(f, S) + g[x] <= SumFunctionOnSet(g, S) + f[x]
  <1> DEFINE sum(h, s) == SumFunctionOnSet(h, s)
             Good == {s \in SUBSET S : sum(f, s) <= sum(g, s)}
  <1>1. ASSUME NEW s \in SUBSET S
        PROVE  /\ sum(f, s) \in Int /\ sum(g, s) \in Int
               /\ \A x \in s : sum(f, s) = f[x] + sum(f, s \ {x})
               /\ \A x \in s : sum(g, s) = g[x] + sum(g, s \ {x})
    <2>1. IsFiniteSet(s)
      BY FS_Subset
    <2> QED
      BY <2>1, SumStep, SumSplit
  <1>2. sum(f, {}) = 0 /\ sum(g, {}) = 0
    BY SumStep
  <1> HIDE DEF sum
  <1>3. \A s \in SUBSET S : s # {} /\ (\A y \in s : s \ {y} \in Good) => s \in Good
    <2> SUFFICES ASSUME NEW s \in SUBSET S, s # {}, \A y \in s : s \ {y} \in Good
                 PROVE  sum(f, s) <= sum(g, s)
      OBVIOUS
    <2>1. PICK x \in s : TRUE
      OBVIOUS
    <2>2. sum(f, s \ {x}) <= sum(g, s \ {x}) /\ sum(f, s \ {x}) \in Int /\ sum(g, s \ {x}) \in Int
      BY <1>1
    <2> QED
      BY <1>1, <2>2
  <1>4. Good = SUBSET S
    <2>1. Good \in SUBSET SUBSET S /\ {} \in Good
      BY <1>2
    <2> HIDE DEF Good
    <2> QED
      BY <1>3, <2>1, SubsetInduction
  <1>5. ASSUME NEW x \in S PROVE sum(f, S) + g[x] <= sum(g, S) + f[x]
    <2>1. S \ {x} \in Good /\ S \in SUBSET S
      BY <1>4
    <2>2. sum(f, S \ {x}) \in Int /\ sum(g, S \ {x}) \in Int
      BY <1>1
    <2>3. sum(f, S) = f[x] + sum(f, S \ {x}) /\ sum(g, S) = g[x] + sum(g, S \ {x})
      BY <1>1
    <2> QED
      BY <2>1, <2>2, <2>3
  <1> QED
    BY <1>4, <1>5 DEF sum
=============================================================================
