---------------------------- MODULE SumTheorems ----------------------------
(***************************************************************************)
(* What SumFunctionOnSet computes for every finite set.  It is a recursive *)
(* function over the subsets, which takes the elements in the order of     *)
(* CHOOSE: that there is such a function, and that the order does not      *)
(* matter, is shown by way of smallest counterexamples (WFMin).            *)
(***************************************************************************)
EXTENDS Integers, Functions, FiniteSets, FiniteSetTheorems, WellFoundedInduction, TLAPS

Pick(s) == CHOOSE x \in s : TRUE

(* it has the sums of f over the subsets of S.                             *)
IsSum(f, S, it) == it = [s \in SUBSET S |-> IF s = {} THEN 0 ELSE f[Pick(s)] + it[s \ {Pick(s)}]]

(* A set of finite sets has a smallest one.                                *)
LEMMA Smallest ==
  ASSUME NEW Q, Q # {}, \A s \in Q : IsFiniteSet(s)
  PROVE  \E s \in Q : \A t \in Q : Cardinality(s) <= Cardinality(t)
<1> DEFINE T == {Cardinality(s) : s \in Q}
           R == {p \in Nat \X Nat : p[1] < p[2]}
<1>1. T \subseteq Nat /\ T # {}
  BY FS_CardinalityType
<1>2. IsWellFoundedOn(R, Nat)
  BY NatLessThanWellFounded, Zenon DEF OpToRel
<1>3. \A x, y \in Nat : y < x => <<y, x>> \in R
  OBVIOUS
<1>4. PICK x \in T : \A y \in T : ~(<<y, x>> \in R)
  <2> HIDE DEF T, R
  <2> QED
    BY <1>1, <1>2, WFMin
<1>5. ASSUME NEW y \in T PROVE x <= y
  <2>1. x \in Nat /\ y \in Nat /\ ~(<<y, x>> \in R)
    BY <1>1, <1>4
  <2>2. ~(y < x)
    BY <1>3, <2>1
  <2> QED
    BY <2>1, <2>2
<1> QED
  BY <1>5

(* Without an element a finite set is smaller.                             *)
LEMMA Smaller ==
  ASSUME NEW s, IsFiniteSet(s), s # {}
  PROVE  /\ Pick(s) \in s
         /\ \A x \in s : IsFiniteSet(s \ {x}) /\ Cardinality(s \ {x}) < Cardinality(s)
<1>1. Pick(s) \in s
  BY DEF Pick
<1>2. Cardinality(s) \in Nat
  BY FS_CardinalityType
<1>3. \A x \in s : IsFiniteSet(s \ {x}) /\ Cardinality(s \ {x}) = Cardinality(s) - 1
  BY FS_RemoveElement
<1> QED
  BY <1>1, <1>2, <1>3

(* There is only one sum.                                                  *)
LEMMA SumUnique ==
  ASSUME NEW f, NEW S, NEW U, NEW i, NEW j, IsSum(f, S, i), IsSum(f, U, j),
         NEW s, s \subseteq S, s \subseteq U, IsFiniteSet(s)
  PROVE  i[s] = j[s]
<1> DEFINE Q == {t \in SUBSET s : i[t] # j[t]}
<1>1. \A t \in SUBSET s : IsFiniteSet(t)
  BY FS_Subset
<1>2. ASSUME Q # {} PROVE FALSE
  <2>1. PICK t \in Q : \A u \in Q : Cardinality(t) <= Cardinality(u)
    BY <1>1, <1>2, Smallest
  <2>2. t \in SUBSET S /\ t \in SUBSET U /\ IsFiniteSet(t)
    BY <1>1
  <2>3. /\ i[t] = IF t = {} THEN 0 ELSE f[Pick(t)] + i[t \ {Pick(t)}]
        /\ j[t] = IF t = {} THEN 0 ELSE f[Pick(t)] + j[t \ {Pick(t)}]
    BY <2>2 DEF IsSum
  <2>4. t # {}
    BY <2>3
  <2> DEFINE u == t \ {Pick(t)}
  <2>5. u \in SUBSET s /\ Cardinality(u) < Cardinality(t) /\ Cardinality(t) \in Nat /\ Cardinality(u) \in Nat
    BY <1>1, <2>2, <2>4, Smaller, FS_CardinalityType
  <2>6. u \notin Q
    BY <2>1, <2>5
  <2> QED
    BY <2>3, <2>4, <2>5, <2>6
<1> QED
  BY <1>2

(* There is a sum.                                                         *)
LEMMA SumExists ==
  ASSUME NEW f, NEW S, IsFiniteSet(S)
  PROVE  \E it : IsSum(f, S, it)
<1> DEFINE Good(t) == \E it : IsSum(f, t, it)
           Q == {t \in SUBSET S : ~Good(t)}
           It(t) == CHOOSE it : IsSum(f, t, it)
           V(t) == It(t)[t]
<1>1. \A t \in SUBSET S : IsFiniteSet(t)
  BY FS_Subset
<1>2. ASSUME Q # {} PROVE FALSE
  <2>1. PICK s \in Q : \A u \in Q : Cardinality(s) <= Cardinality(u)
    <3> HIDE DEF Good
    <3> QED
      BY <1>1, <1>2, Smallest
  <2>2. s \in SUBSET S /\ IsFiniteSet(s) /\ ~Good(s)
    BY <1>1
  <2>3. ASSUME NEW t \in SUBSET s, t # s PROVE IsSum(f, t, It(t))
    <3>1. t \in SUBSET S /\ Cardinality(t) < Cardinality(s) /\ Cardinality(s) \in Nat /\ Cardinality(t) \in Nat
      BY <2>2, <2>3, <1>1, FS_Subset, FS_CardinalityType
    <3>2. Good(t)
      <4> HIDE DEF Good
      <4> QED
        BY <2>1, <3>1
    <3> QED
      BY <3>2
  <2> DEFINE full == [t \in SUBSET s |-> IF t = {} THEN 0 ELSE f[Pick(t)] + V(t \ {Pick(t)})]
  <2>4. ASSUME NEW u \in SUBSET s, u # s PROVE V(u) = full[u]
    <3>1. IsSum(f, u, It(u)) /\ IsFiniteSet(u)
      BY <1>1, <2>2, <2>3, <2>4
    <3> HIDE DEF It
    <3>2. V(u) = IF u = {} THEN 0 ELSE f[Pick(u)] + It(u)[u \ {Pick(u)}]
      BY <3>1 DEF IsSum
    <3>3. CASE u = {}
      BY <3>2, <3>3
    <3>4. CASE u # {}
      <4> DEFINE v == u \ {Pick(u)}
      <4>1. v \in SUBSET s /\ v # s /\ IsFiniteSet(v) /\ v \subseteq u
        BY <2>4, <3>1, <3>4, Smaller
      <4>2. IsSum(f, v, It(v))
        BY <2>3, <4>1
      <4>3. It(u)[v] = It(v)[v]
        <5> HIDE DEF v
        <5> QED
          BY <3>1, <4>1, <4>2, SumUnique
      <4> QED
        BY <3>2, <3>4, <4>3
    <3> QED
      BY <3>3, <3>4
  <2>5. ASSUME NEW t \in SUBSET s, t # {} PROVE V(t \ {Pick(t)}) = full[t \ {Pick(t)}]
    <3>1. IsFiniteSet(t) /\ Pick(t) \in t
      BY <1>1, <2>2, <2>5, Smaller
    <3>2. t \ {Pick(t)} \in SUBSET s /\ t \ {Pick(t)} # s
      BY <3>1
    <3> HIDE DEF V, full
    <3> QED
      BY <2>4, <3>2
  <2>6. IsSum(f, s, full)
    <3>1. \A t \in SUBSET s : full[t] = IF t = {} THEN 0 ELSE f[Pick(t)] + full[t \ {Pick(t)}]
      <4> HIDE DEF V
      <4> QED
        BY <2>5
    <3>2. full = [t \in SUBSET s |-> full[t]]
      OBVIOUS
    <3> HIDE DEF full
    <3> QED
      BY <3>1, <3>2 DEF IsSum
  <2> QED
    BY <2>2, <2>6
<1> QED
  BY <1>2

(* The recursion of SumFunctionOnSet.                                      *)
LEMMA SumRec ==
  ASSUME NEW f, NEW S, IsFiniteSet(S)
  PROVE  SumFunctionOnSet(f, S) =
           IF S = {} THEN 0 ELSE f[Pick(S)] + SumFunctionOnSet(f, S \ {Pick(S)})
<1> DEFINE It(t) == CHOOSE it : IsSum(f, t, it)
<1>1. \A t : SumFunctionOnSet(f, t) = It(t)[t]
  BY DEF SumFunctionOnSet, FoldFunctionOnSet, MapThenFoldSet, IsSum, Pick
<1>2. ASSUME NEW t, IsFiniteSet(t) PROVE IsSum(f, t, It(t))
  BY <1>2, SumExists
<1> HIDE DEF It
<1>3. It(S)[S] = IF S = {} THEN 0 ELSE f[Pick(S)] + It(S)[S \ {Pick(S)}]
  BY <1>2 DEF IsSum
<1>4. ASSUME S # {} PROVE It(S)[S \ {Pick(S)}] = It(S \ {Pick(S)})[S \ {Pick(S)}]
  <2> DEFINE u == S \ {Pick(S)}
  <2>1. IsFiniteSet(u) /\ u \subseteq S
    BY <1>4, Smaller
  <2> HIDE DEF u
  <2>2. It(S)[u] = It(u)[u]
    BY <1>2, <2>1, SumUnique
  <2> QED
    BY <2>2 DEF u
<1> QED
  BY <1>1, <1>3, <1>4

(* The sum over no element.                                                *)
LEMMA SumEmpty == \A f : SumFunctionOnSet(f, {}) = 0
BY SumRec, FS_EmptySet

(* Sums of integers are integers.                                          *)
LEMMA SumType ==
  ASSUME NEW f, NEW S, IsFiniteSet(S), \A x \in S : f[x] \in Int
  PROVE  SumFunctionOnSet(f, S) \in Int
<1> DEFINE Q == {t \in SUBSET S : SumFunctionOnSet(f, t) \notin Int}
<1>1. \A t \in SUBSET S : IsFiniteSet(t)
  BY FS_Subset
<1>2. ASSUME Q # {} PROVE FALSE
  <2>1. PICK t \in Q : \A u \in Q : Cardinality(t) <= Cardinality(u)
    BY <1>1, <1>2, Smallest
  <2>2. t \in SUBSET S /\ IsFiniteSet(t)
    BY <1>1
  <2>3. t # {}
    BY <2>1, SumEmpty
  <2> DEFINE u == t \ {Pick(t)}
  <2>4. /\ Pick(t) \in S /\ u \in SUBSET S /\ Cardinality(u) < Cardinality(t)
        /\ Cardinality(t) \in Nat /\ Cardinality(u) \in Nat
    BY <1>1, <2>2, <2>3, Smaller, FS_CardinalityType
  <2>5. SumFunctionOnSet(f, u) \in Int
    BY <2>1, <2>4
  <2>6. SumFunctionOnSet(f, t) = f[Pick(t)] + SumFunctionOnSet(f, u)
    BY <2>2, <2>3, SumRec
  <2> QED
    BY <2>1, <2>4, <2>5, <2>6
<1> QED
  BY <1>2

(* Any element may be taken first.                                         *)
LEMMA SumRemove ==
  ASSUME NEW f, NEW S, IsFiniteSet(S), \A x \in S : f[x] \in Int, NEW x \in S
  PROVE  SumFunctionOnSet(f, S) = f[x] + SumFunctionOnSet(f, S \ {x})
<1> DEFINE Sum(t) == SumFunctionOnSet(f, t)
           Q == {t \in SUBSET S : \E y \in t : Sum(t) # f[y] + Sum(t \ {y})}
<1>1. \A t \in SUBSET S : IsFiniteSet(t) /\ Sum(t) \in Int
  BY FS_Subset, SumType
<1>r. \A t \in SUBSET S : t # {} => Sum(t) = f[Pick(t)] + Sum(t \ {Pick(t)})
  BY <1>1, SumRec
<1> HIDE DEF Sum
<1>2. ASSUME Q # {} PROVE FALSE
  <2>1. PICK t \in Q : \A u \in Q : Cardinality(t) <= Cardinality(u)
    BY <1>1, <1>2, Smallest
  <2>2. PICK y \in t : Sum(t) # f[y] + Sum(t \ {y})
    BY <2>1
  <2>3. t \in SUBSET S /\ IsFiniteSet(t) /\ t # {}
    BY <1>1, <2>2
  <2> DEFINE p == Pick(t)
  <2>4. p \in t /\ Sum(t) = f[p] + Sum(t \ {p})
    BY <1>r, <2>3, Smaller
  <2> HIDE DEF p
  <2>5. p # y
    BY <2>2, <2>4
  <2>6. ASSUME NEW z \in t, NEW w \in t \ {z}
        PROVE  Sum(t \ {z}) = f[w] + Sum((t \ {z}) \ {w})
    <3> DEFINE u == t \ {z}
    <3>1. /\ u \in SUBSET S /\ Cardinality(u) < Cardinality(t)
          /\ Cardinality(t) \in Nat /\ Cardinality(u) \in Nat
      BY <1>1, <2>3, Smaller, FS_CardinalityType
    <3>2. u \notin Q
      BY <2>1, <3>1
    <3> HIDE DEF u
    <3>3. \A v \in u : Sum(u) = f[v] + Sum(u \ {v})
      BY <3>1, <3>2
    <3> QED
      BY <3>3 DEF u
  <2>7. Sum(t \ {p}) = f[y] + Sum((t \ {p}) \ {y})
    BY <2>4, <2>5, <2>6
  <2>8. Sum(t \ {y}) = f[p] + Sum((t \ {y}) \ {p})
    BY <2>4, <2>5, <2>6
  <2>9. (t \ {y}) \ {p} = (t \ {p}) \ {y}
    OBVIOUS
  <2> DEFINE r == Sum((t \ {p}) \ {y})
  <2>10. f[p] \in Int /\ f[y] \in Int /\ r \in Int
    BY <1>1, <2>3, <2>4
  <2>11. Sum(t) = f[p] + (f[y] + r) /\ Sum(t \ {y}) = f[p] + r
    BY <2>4, <2>7, <2>8, <2>9
  <2> HIDE DEF r
  <2> QED
    BY <2>2, <2>10, <2>11
<1>3. S \notin Q
  BY <1>2
<1> QED
  BY <1>3 DEF Sum

(* One more element.                                                       *)
LEMMA SumAdd ==
  ASSUME NEW f, NEW S, IsFiniteSet(S), \A y \in S : f[y] \in Int, NEW x, x \notin S, f[x] \in Int
  PROVE  SumFunctionOnSet(f, S \cup {x}) = SumFunctionOnSet(f, S) + f[x]
<1> DEFINE U == S \cup {x}
<1>1. IsFiniteSet(U) /\ x \in U /\ \A y \in U : f[y] \in Int
  BY FS_AddElement
<1>2. U \ {x} = S
  OBVIOUS
<1>3. SumFunctionOnSet(f, S) \in Int
  BY SumType
<1> HIDE DEF U
<1>4. SumFunctionOnSet(f, U) = f[x] + SumFunctionOnSet(f, U \ {x})
  BY <1>1, SumRemove
<1>5. SumFunctionOnSet(f, U) = f[x] + SumFunctionOnSet(f, S)
  BY <1>2, <1>4, Zenon
<1>6. SumFunctionOnSet(f, U) = SumFunctionOnSet(f, S) + f[x]
  BY <1>3, <1>5
<1> QED
  BY <1>6, Zenon DEF U

(* Only the values on the set matter.                                      *)
LEMMA SumSame ==
  ASSUME NEW f, NEW g, NEW S, IsFiniteSet(S), \A x \in S : f[x] = g[x]
  PROVE  SumFunctionOnSet(f, S) = SumFunctionOnSet(g, S)
<1> DEFINE Q == {t \in SUBSET S : SumFunctionOnSet(f, t) # SumFunctionOnSet(g, t)}
<1>1. \A t \in SUBSET S : IsFiniteSet(t)
  BY FS_Subset
<1>2. ASSUME Q # {} PROVE FALSE
  <2>1. PICK t \in Q : \A u \in Q : Cardinality(t) <= Cardinality(u)
    BY <1>1, <1>2, Smallest
  <2>2. t \in SUBSET S /\ IsFiniteSet(t)
    BY <1>1
  <2>3. t # {}
    BY <2>1, SumEmpty
  <2> DEFINE u == t \ {Pick(t)}
  <2>4. /\ Pick(t) \in S /\ u \in SUBSET S /\ Cardinality(u) < Cardinality(t)
        /\ Cardinality(t) \in Nat /\ Cardinality(u) \in Nat
    BY <1>1, <2>2, <2>3, Smaller, FS_CardinalityType
  <2>5. SumFunctionOnSet(f, u) = SumFunctionOnSet(g, u)
    BY <2>1, <2>4
  <2>6. /\ SumFunctionOnSet(f, t) = f[Pick(t)] + SumFunctionOnSet(f, u)
        /\ SumFunctionOnSet(g, t) = g[Pick(t)] + SumFunctionOnSet(g, u)
    BY <2>2, <2>3, SumRec
  <2> QED
    BY <2>1, <2>4, <2>5, <2>6
<1> QED
  BY <1>2

(* A number is appended to a sequence of them.                             *)
LEMMA SumAppend ==
  ASSUME NEW n \in Nat, NEW f \in [1 .. n -> Int], NEW g \in [1 .. n + 1 -> Int],
         \A i \in 1 .. n : g[i] = f[i]
  PROVE  SumFunctionOnSet(g, 1 .. n + 1) = SumFunctionOnSet(f, 1 .. n) + g[n + 1]
<1>1. IsFiniteSet(1 .. n)
  BY FS_Interval
<1>2. 1 .. n + 1 = (1 .. n) \cup {n + 1} /\ n + 1 \notin 1 .. n
  OBVIOUS
<1>3. SumFunctionOnSet(f, 1 .. n) = SumFunctionOnSet(g, 1 .. n)
  BY <1>1, SumSame
<1>4. (\A i \in 1 .. n : g[i] \in Int) /\ g[n + 1] \in Int
  OBVIOUS
<1>5. SumFunctionOnSet(g, (1 .. n) \cup {n + 1}) = SumFunctionOnSet(g, 1 .. n) + g[n + 1]
  BY <1>1, <1>2, <1>4, SumAdd
<1> QED
  BY <1>2, <1>3, <1>5, Zenon

(* The last number of a sequence is added to the one before it.            *)
LEMMA SumMerge ==
  ASSUME NEW n \in Nat, n > 1, NEW f \in [1 .. n -> Int], NEW g \in [1 .. n - 1 -> Int],
         \A i \in 1 .. n - 2 : g[i] = f[i], g[n - 1] = f[n - 1] + f[n]
  PROVE  SumFunctionOnSet(g, 1 .. n - 1) = SumFunctionOnSet(f, 1 .. n)
<1> DEFINE m == n - 2
           h == [i \in 1 .. m |-> f[i]]
           k == [i \in 1 .. m + 1 |-> f[i]]
<1>1. /\ m \in Nat /\ m + 1 \in Nat /\ m + 1 = n - 1 /\ (m + 1) + 1 = n
      /\ h \in [1 .. m -> Int] /\ k \in [1 .. m + 1 -> Int]
      /\ \A i \in 1 .. m : h[i] = f[i] /\ k[i] = h[i] /\ g[i] = h[i]
      /\ \A i \in 1 .. m + 1 : k[i] = f[i]
      /\ k[m + 1] = f[n - 1] /\ f[n - 1] \in Int /\ f[n] \in Int
  OBVIOUS
<1> HIDE DEF m, h, k
<1>2. g \in [1 .. m + 1 -> Int] /\ f \in [1 .. (m + 1) + 1 -> Int]
  BY <1>1, Zenon
<1>3. SumFunctionOnSet(g, 1 .. m + 1) = SumFunctionOnSet(h, 1 .. m) + g[m + 1]
  BY <1>1, <1>2, SumAppend
<1>4. SumFunctionOnSet(k, 1 .. m + 1) = SumFunctionOnSet(h, 1 .. m) + k[m + 1]
  BY <1>1, SumAppend
<1>5. \A i \in 1 .. m + 1 : f[i] = k[i]
  BY <1>1
<1>6. SumFunctionOnSet(f, 1 .. (m + 1) + 1) = SumFunctionOnSet(k, 1 .. m + 1) + f[(m + 1) + 1]
  BY <1>1, <1>2, <1>5, SumAppend
<1>7. SumFunctionOnSet(h, 1 .. m) \in Int
  <2>1. IsFiniteSet(1 .. m)
    BY <1>1, FS_Interval
  <2>2. \A i \in 1 .. m : h[i] \in Int
    BY <1>1
  <2> QED
    BY <2>1, <2>2, SumType
<1>8. SumFunctionOnSet(g, 1 .. m + 1) = SumFunctionOnSet(f, 1 .. (m + 1) + 1)
  <2>1. g[m + 1] = f[n - 1] + f[n] /\ f[(m + 1) + 1] = f[n]
    BY <1>1
  <2> QED
    BY <1>1, <1>3, <1>4, <1>6, <1>7, <2>1
<1> QED
  BY <1>1, <1>8, Zenon
=============================================================================
