------------------------------ MODULE NatFacts ------------------------------
(***************************************************************************)
(* The least and the greatest element of a set of natural numbers,         *)
(* induction as a fact about sets, and sums over finite sets.              *)
(***************************************************************************)
EXTENDS Integers, Functions, FiniteSetsExt, FiniteSetTheorems, WellFoundedInduction, TLAPS

(* A nonempty set of natural numbers has a least element.                  *)
LEMMA LeastNat ==
  ASSUME NEW S, S \subseteq Nat, S # {}
  PROVE  \E x \in S : \A y \in S : x <= y
<1> DEFINE R == {ss \in Nat \X Nat : ss[1] < ss[2]}
<1>1. OpToRel(<, Nat) = R
  BY DEF OpToRel
<1>2. IsWellFoundedOn(R, Nat)
  BY <1>1, NatLessThanWellFounded
<1>3. \A x, y \in Nat : <<y, x>> \in R <=> y < x
  OBVIOUS
<1> HIDE DEF R
<1>4. PICK x \in S : \A y \in S : ~(<<y, x>> \in R)
  BY <1>2, WFMin
<1>5. ASSUME NEW y \in S PROVE x <= y
  <2>1. x \in Nat /\ y \in Nat
    OBVIOUS
  <2>2. ~(y < x)
    BY <1>3, <1>4, <2>1, Zenon
  <2> QED  BY <2>1, <2>2
<1> QED  BY <1>5

(* Min is that element.                                                    *)
LEMMA MinIsLeast ==
  ASSUME NEW S, S \subseteq Nat, S # {}
  PROVE  Min(S) \in S /\ \A y \in S : Min(S) <= y
  BY LeastNat DEF Min

(* The greatest element of a bounded set of natural numbers.               *)
LEMMA MaxIsGreatest ==
  ASSUME NEW n \in Nat, NEW S, S \subseteq 0 .. n, S # {}
  PROVE  Max(S) \in S /\ \A y \in S : y <= Max(S)
<1> DEFINE R == {n - x : x \in S}
<1>1. R \subseteq Nat /\ R # {}
  <2>1. \A x \in S : x \in Int /\ n - x \in Nat
    OBVIOUS
  <2> QED  BY <2>1
<1>2. PICK r \in R : \A y \in R : r <= y
  <2> HIDE DEF R
  <2> QED  BY <1>1, LeastNat
<1>3. PICK x \in S : r = n - x
  BY <1>2
<1>4. \A y \in S : x >= y
  <2> SUFFICES ASSUME NEW y \in S PROVE x >= y
    OBVIOUS
  <2>1. n - x <= n - y
    BY <1>2, <1>3
  <2> QED  BY <2>1
<1>5. Max(S) \in S /\ \A y \in S : Max(S) >= y
  BY <1>3, <1>4 DEF Max
<1> QED  BY <1>5

(* A set with 0 in it and the successor of every number it has up to n has *)
(* every number up to n.                                                   *)
LEMMA InductionUpTo ==
  ASSUME NEW n \in Nat, NEW S, 0 \in S, \A k \in 1 .. n : k - 1 \in S => k \in S
  PROVE  0 .. n \subseteq S
<1> DEFINE Missing == (0 .. n) \ S
<1> SUFFICES ASSUME Missing # {} PROVE FALSE
  OBVIOUS
<1>0. Missing \subseteq Nat
  OBVIOUS
<1>1. PICK k \in Missing : \A m \in Missing : k <= m
  <2> HIDE DEF Missing
  <2> QED  BY <1>0, LeastNat
<1>2. k \in 1 .. n /\ k - 1 \in 0 .. n /\ ~(k <= k - 1)
  BY <1>1
<1>3. k - 1 \in S
  BY <1>1, <1>2
<1> QED  BY <1>1, <1>2, <1>3

(* g is what one gets from base when step computes value k from the value  *)
(* before it.                                                              *)
StepsOf(n, V) == [(1 .. n) \X V -> V]

Recursion(g, n, V, base, step) ==
  /\ g \in [0 .. n -> V] /\ g[0] = base
  /\ \A k \in 1 .. n : g[k] = step[<<k, g[k - 1]>>]

(* A function defined by recursion on 0 .. n exists.                       *)
LEMMA RecursionUpTo ==
  ASSUME NEW n \in Nat, NEW V, NEW base \in V, NEW step \in StepsOf(n, V)
  PROVE  \E g : Recursion(g, n, V, base, step)
<1> USE DEF StepsOf
<1> DEFINE Solves(g, m) == /\ g \in [0 .. m -> V] /\ g[0] = base
                           /\ \A k \in 1 .. m : g[k] = step[<<k, g[k - 1]>>]
           Done == {m \in 0 .. n : \E g : Solves(g, m)}
<1>1. 0 \in Done
  <2> DEFINE h == [k \in 0 .. 0 |-> base]
  <2>1. Solves(h, 0)
    OBVIOUS
  <2> HIDE DEF h
  <2> QED  BY <2>1
<1>2. ASSUME NEW m \in 1 .. n, m - 1 \in Done PROVE m \in Done
  <2>1. PICK g : Solves(g, m - 1)
    BY <1>2
  <2> DEFINE h == [k \in 0 .. m |-> IF k = m THEN step[<<m, g[m - 1]>>] ELSE g[k]]
  <2>2. /\ m - 1 \in 0 .. m - 1 /\ m # 0 /\ 0 \in 0 .. m
        /\ \A k \in 0 .. m : k # m => k \in 0 .. m - 1
        /\ \A k \in 1 .. m : k - 1 \in 0 .. m /\ k - 1 # m /\ k \in 0 .. m
        /\ \A k \in 1 .. m : k # m => k \in 1 .. m - 1
    OBVIOUS
  <2>3. g[m - 1] \in V /\ step[<<m, g[m - 1]>>] \in V
    BY <2>1, <2>2
  <2>4. h \in [0 .. m -> V]
    BY <2>1, <2>2, <2>3
  <2>5. h[0] = base /\ h[m] = step[<<m, g[m - 1]>>] /\ \A k \in 0 .. m - 1 : h[k] = g[k]
    BY <2>1, <2>2
  <2> HIDE DEF h
  <2>6. ASSUME NEW k \in 1 .. m PROVE h[k] = step[<<k, h[k - 1]>>]
    <3>1. k - 1 \in 0 .. m - 1 /\ h[k - 1] = g[k - 1]
      BY <2>5
    <3>2. CASE k = m
      BY <2>5, <3>1, <3>2
    <3>3. CASE k # m
      BY <2>1, <2>2, <2>5, <3>1, <3>3
    <3> QED  BY <3>2, <3>3
  <2> QED  BY <2>4, <2>5, <2>6
<1>3. n \in Done
  <2>1. 0 .. n \subseteq Done
    <3> HIDE DEF Done
    <3> QED  BY <1>1, <1>2, InductionUpTo
  <2> QED  BY <2>1
<1> QED  BY <1>3 DEF Recursion

-----------------------------------------------------------------------------
(* Sums over finite sets.  g sums f over every subset of S, taking the     *)
(* elements in the order in which CHOOSE gives them.                       *)
Pick(s) == CHOOSE x \in s : TRUE

SumsOf(f, S, h) == [s \in SUBSET S |-> IF s = {} THEN 0 ELSE f[Pick(s)] + h[s \ {Pick(s)}]]

IsSum(g, f, S) == g \in [SUBSET S -> Nat] /\ g = SumsOf(f, S, g)

(* One element less.                                                       *)
LEMMA WithoutOne ==
  ASSUME NEW S, IsFiniteSet(S), NEW s \in SUBSET S, NEW x \in s, NEW k \in Nat,
         Cardinality(s) <= k
  PROVE  /\ s \ {x} \in SUBSET S /\ k # 0 /\ k - 1 \in Nat
         /\ Cardinality(s \ {x}) <= k - 1
<1>1. IsFiniteSet(s)
  BY FS_Subset
<1>2. Cardinality(s \ {x}) = Cardinality(s) - 1 /\ IsFiniteSet(s \ {x})
  BY <1>1, FS_RemoveElement
<1>3. Cardinality(s) \in Nat /\ Cardinality(s \ {x}) \in Nat
  BY <1>1, <1>2, FS_CardinalityType
<1> QED  BY <1>2, <1>3

(* The sums exist: those over sets of at most k elements are computed in k *)
(* rounds.                                                                 *)
LEMMA SumsExist ==
  ASSUME NEW S, IsFiniteSet(S), NEW f, \A x \in S : f[x] \in Nat
  PROVE  \E g : IsSum(g, f, S)
<1> DEFINE n    == Cardinality(S)
           V    == [SUBSET S -> Nat]
           zero == [s \in SUBSET S |-> 0]
           step == [a \in (1 .. n) \X V |-> SumsOf(f, S, a[2])]
<1>0. n \in Nat
  BY FS_CardinalityType
<1>1. \A s \in SUBSET S : s # {} => Pick(s) \in s /\ Pick(s) \in S /\ s \ {Pick(s)} \in SUBSET S
  BY DEF Pick
<1>2. ASSUME NEW h \in V PROVE SumsOf(f, S, h) \in V
  <2>1. \A s \in SUBSET S : s # {} => f[Pick(s)] + h[s \ {Pick(s)}] \in Nat
    <3> SUFFICES ASSUME NEW s \in SUBSET S, s # {} PROVE f[Pick(s)] + h[s \ {Pick(s)}] \in Nat
      OBVIOUS
    <3>1. f[Pick(s)] \in Nat /\ h[s \ {Pick(s)}] \in Nat
      BY <1>1
    <3> QED  BY <3>1
  <2> QED  BY <2>1 DEF SumsOf
<1>3. PICK G : Recursion(G, n, V, zero, step)
  <2>1. zero \in V
    OBVIOUS
  <2>2. step \in StepsOf(n, V)
    <3>1. \A a \in (1 .. n) \X V : SumsOf(f, S, a[2]) \in V
      BY <1>2
    <3> HIDE DEF V, n
    <3> QED  BY <3>1 DEF StepsOf
  <2> HIDE DEF V, n, zero, step
  <2> QED  BY <1>0, <2>1, <2>2, RecursionUpTo
<1>4. /\ G \in [0 .. n -> V] /\ G[0] = zero
      /\ \A k \in 1 .. n : G[k - 1] \in V /\ G[k] = SumsOf(f, S, G[k - 1])
  <2> HIDE DEF V, n, zero
  <2>1. /\ G \in [0 .. n -> V] /\ G[0] = zero
        /\ \A k \in 1 .. n : G[k] = step[<<k, G[k - 1]>>]
    <3> HIDE DEF step
    <3> QED  BY <1>3 DEF Recursion
  <2>2. \A k \in 1 .. n : G[k - 1] \in V
    BY <1>0, <2>1
  <2>3. \A k \in 1 .. n : step[<<k, G[k - 1]>>] = SumsOf(f, S, G[k - 1])
    BY <2>2
  <2> HIDE DEF step
  <2> QED  BY <2>1, <2>2, <2>3
<1> DEFINE Done == {k \in 0 .. n : \A s \in SUBSET S :
                      Cardinality(s) <= k => G[k][s] = SumsOf(f, S, G[k])[s]}
<1>5. 0 \in Done
  <2>1. ASSUME NEW s \in SUBSET S, Cardinality(s) <= 0 PROVE s = {}
    <3>1. \A x \in s : FALSE
      BY <2>1, WithoutOne
    <3> QED  BY <3>1
  <2>2. G[0][{}] = 0 /\ SumsOf(f, S, G[0])[{}] = 0
    BY <1>4 DEF SumsOf
  <2> QED  BY <1>0, <2>1, <2>2
<1>6. ASSUME NEW k \in 1 .. n, k - 1 \in Done PROVE k \in Done
  <2> SUFFICES ASSUME NEW s \in SUBSET S, Cardinality(s) <= k
               PROVE  G[k][s] = SumsOf(f, S, G[k])[s]
    BY <1>0
  <2>1. CASE s = {}
    BY <1>4, <2>1 DEF SumsOf
  <2>2. CASE s # {}
    <3> DEFINE x == Pick(s)
               r == s \ {x}
    <3>1. x \in s /\ r \in SUBSET S
      BY <1>1, <2>2
    <3>2. Cardinality(r) <= k - 1
      <4> HIDE DEF x
      <4> QED  BY <3>1, WithoutOne
    <3>3. G[k][s] = f[x] + G[k - 1][r] /\ SumsOf(f, S, G[k])[s] = f[x] + G[k][r]
      <4>1. \A h : SumsOf(f, S, h)[s] = f[x] + h[r]
        BY <2>2 DEF SumsOf
      <4>2. G[k][s] = SumsOf(f, S, G[k - 1])[s]
        BY <1>4
      <4> HIDE DEF x, r
      <4> QED  BY <4>1, <4>2
    <3>4. G[k - 1][r] = SumsOf(f, S, G[k - 1])[r]
      <4> HIDE DEF r
      <4> QED  BY <1>6, <3>1, <3>2
    <3> QED  BY <1>4, <3>3, <3>4
  <2> QED  BY <2>1, <2>2
<1>7. n \in Done
  <2>1. 0 .. n \subseteq Done
    <3> HIDE DEF Done
    <3> QED  BY <1>0, <1>5, <1>6, InductionUpTo
  <2> QED  BY <1>0, <2>1
<1>8. \A s \in SUBSET S : Cardinality(s) <= n
  BY FS_Subset
<1>9. G[n] \in V /\ \A s \in SUBSET S : G[n][s] = SumsOf(f, S, G[n])[s]
  BY <1>0, <1>4, <1>7, <1>8
<1>10. SumsOf(f, S, G[n]) \in V
  BY <1>2, <1>9
<1>11. G[n] = SumsOf(f, S, G[n])
  BY <1>9, <1>10
<1> QED  BY <1>9, <1>11 DEF IsSum

(* The order does not matter: any element can be taken first.              *)
LEMMA SumsSplit ==
  ASSUME NEW S, IsFiniteSet(S), NEW f, \A x \in S : f[x] \in Nat, NEW g, IsSum(g, f, S),
         NEW x \in S
  PROVE  g[S] = f[x] + g[S \ {x}]
<1> DEFINE n    == Cardinality(S)
           Done == {k \in 0 .. n : \A s \in SUBSET S : \A y \in s :
                      Cardinality(s) <= k => g[s] = f[y] + g[s \ {y}]}
<1>0. n \in Nat
  BY FS_CardinalityType
<1>1. g \in [SUBSET S -> Nat]
  BY DEF IsSum
<1>2. ASSUME NEW s \in SUBSET S, s # {}
      PROVE  Pick(s) \in s /\ g[s] = f[Pick(s)] + g[s \ {Pick(s)}]
  <2>1. Pick(s) \in s
    BY <1>2 DEF Pick
  <2>2. g[s] = SumsOf(f, S, g)[s]
    BY DEF IsSum
  <2> QED  BY <1>2, <2>1, <2>2 DEF SumsOf
<1>3. 0 \in Done
  <2>1. ASSUME NEW s \in SUBSET S, NEW y \in s, Cardinality(s) <= 0 PROVE FALSE
    BY <2>1, WithoutOne
  <2> QED  BY <1>0, <2>1
<1>4. ASSUME NEW k \in 1 .. n, k - 1 \in Done PROVE k \in Done
  <2> SUFFICES ASSUME NEW s \in SUBSET S, NEW y \in s, Cardinality(s) <= k
               PROVE  g[s] = f[y] + g[s \ {y}]
    BY <1>0
  <2>1. PICK z \in s : g[s] = f[z] + g[s \ {z}]
    BY <1>2
  <2>2. CASE y = z
    BY <2>1, <2>2
  <2>3. CASE y # z
    <3> DEFINE a == s \ {y}
               b == s \ {z}
               c == s \ {y, z}
    <3>1. /\ a \in SUBSET S /\ b \in SUBSET S /\ c \in SUBSET S /\ z \in a /\ y \in b
          /\ Cardinality(a) <= k - 1 /\ Cardinality(b) <= k - 1
          /\ a \ {z} = c /\ b \ {y} = c
      <4>1. k \in Nat
        BY <1>0
      <4> QED  BY <2>3, <4>1, WithoutOne
    <3> HIDE DEF a, b, c
    <3>2. g[a] = f[z] + g[c] /\ g[b] = f[y] + g[c]
      BY <1>4, <3>1
    <3>3. g[c] \in Nat /\ f[y] \in Nat /\ f[z] \in Nat
      BY <1>1, <3>1
    <3>4. g[s] = f[z] + g[b]
      BY <2>1 DEF b
    <3>5. g[s] = f[y] + g[a]
      BY <3>2, <3>3, <3>4
    <3> QED  BY <3>5 DEF a
  <2> QED  BY <2>2, <2>3
<1>5. n \in Done
  <2>1. 0 .. n \subseteq Done
    <3> HIDE DEF Done
    <3> QED  BY <1>0, <1>3, <1>4, InductionUpTo
  <2> QED  BY <1>0, <2>1
<1>6. Cardinality(S) <= n /\ S \in SUBSET S
  BY <1>0
<1> QED  BY <1>5, <1>6

(* What is summed over S depends on what f is on S only.                   *)
LEMMA SumsAgree ==
  ASSUME NEW S, NEW T, S \subseteq T, IsFiniteSet(T),
         NEW f, NEW e, \A x \in S : f[x] = e[x],
         NEW g, g = SumsOf(f, S, g), NEW h, h = SumsOf(e, T, h)
  PROVE  \A s \in SUBSET S : g[s] = h[s]
<1> DEFINE n    == Cardinality(S)
           Done == {k \in 0 .. n : \A s \in SUBSET S : Cardinality(s) <= k => g[s] = h[s]}
<1>0. IsFiniteSet(S) /\ n \in Nat
  BY FS_Subset, FS_CardinalityType
<1>1. ASSUME NEW s \in SUBSET S, s # {}
      PROVE  /\ Pick(s) \in s /\ Pick(s) \in S
             /\ g[s] = f[Pick(s)] + g[s \ {Pick(s)}] /\ h[s] = e[Pick(s)] + h[s \ {Pick(s)}]
  <2>1. Pick(s) \in s /\ s \in SUBSET T
    BY <1>1 DEF Pick
  <2>2. g[s] = SumsOf(f, S, g)[s] /\ h[s] = SumsOf(e, T, h)[s]
    OBVIOUS
  <2> QED  BY <1>1, <2>1, <2>2 DEF SumsOf
<1>2. g[{}] = h[{}]
  <2>1. g[{}] = SumsOf(f, S, g)[{}] /\ h[{}] = SumsOf(e, T, h)[{}]
    OBVIOUS
  <2> QED  BY <2>1 DEF SumsOf
<1>3. 0 \in Done
  <2>1. ASSUME NEW s \in SUBSET S, Cardinality(s) <= 0 PROVE s = {}
    <3>1. \A x \in s : FALSE
      BY <1>0, <2>1, WithoutOne
    <3> QED  BY <3>1
  <2> QED  BY <1>0, <1>2, <2>1
<1>4. ASSUME NEW k \in 1 .. n, k - 1 \in Done PROVE k \in Done
  <2> SUFFICES ASSUME NEW s \in SUBSET S, Cardinality(s) <= k PROVE g[s] = h[s]
    BY <1>0
  <2>1. CASE s = {}
    BY <1>2, <2>1
  <2>2. CASE s # {}
    <3>1. PICK z \in s : /\ f[z] = e[z] /\ g[s] = f[z] + g[s \ {z}]
                         /\ h[s] = e[z] + h[s \ {z}]
      BY <1>1, <2>2
    <3>2. s \ {z} \in SUBSET S /\ Cardinality(s \ {z}) <= k - 1
      BY <1>0, WithoutOne
    <3>3. g[s \ {z}] = h[s \ {z}]
      BY <1>4, <3>2
    <3> QED  BY <3>1, <3>3
  <2> QED  BY <2>1, <2>2
<1>5. n \in Done
  <2>1. 0 .. n \subseteq Done
    <3> HIDE DEF Done
    <3> QED  BY <1>0, <1>3, <1>4, InductionUpTo
  <2> QED  BY <1>0, <2>1
<1>6. \A s \in SUBSET S : Cardinality(s) <= n
  BY <1>0, FS_Subset
<1> QED  BY <1>5, <1>6

(* SumFunctionOnSet is such a sum.                                         *)
LEMMA SumIsSum ==
  ASSUME NEW S, IsFiniteSet(S), NEW f, \A x \in S : f[x] \in Nat
  PROVE  \E g : IsSum(g, f, S) /\ SumFunctionOnSet(f, S) = g[S] /\ g[S] \in Nat
<1>1. PICK h : IsSum(h, f, S)
  BY SumsExist
<1> DEFINE F(g) == g = [s \in SUBSET S |->
                          IF s = {} THEN 0
                          ELSE f[CHOOSE x \in s : TRUE] + g[s \ {CHOOSE x \in s : TRUE}]]
<1>2. SumFunctionOnSet(f, S) = (CHOOSE g : F(g))[S]
  BY Zenon DEF SumFunctionOnSet, FoldFunctionOnSet, MapThenFoldSet
<1>3. \A g : F(g) <=> g = SumsOf(f, S, g)
  BY Zenon DEF SumsOf, Pick
<1> HIDE DEF F
<1>4. F(h)
  BY <1>1, <1>3 DEF IsSum
<1>5. PICK g : F(g) /\ SumFunctionOnSet(f, S) = g[S]
  <2>1. F(CHOOSE g : F(g))
    BY <1>4
  <2> QED  BY <1>2, <2>1
<1>6. g = SumsOf(f, S, g)
  BY <1>3, <1>5

<1>7. /\ h \in [SUBSET S -> Nat] /\ h = SumsOf(f, S, h)
      /\ g = [s \in SUBSET S |-> g[s]]
  BY <1>1, <1>6 DEF IsSum, SumsOf
<1>8. \A s \in SUBSET S : g[s] = h[s]
  BY <1>6, <1>7, SumsAgree
<1>9. g \in [SUBSET S -> Nat]
  BY <1>7, <1>8
<1> QED  BY <1>5, <1>6, <1>9 DEF IsSum

(* A sum is a natural number, and 0 over the empty set.                    *)
LEMMA SumType ==
  ASSUME NEW S, IsFiniteSet(S), NEW f, \A x \in S : f[x] \in Nat
  PROVE  SumFunctionOnSet(f, S) \in Nat /\ (S = {} => SumFunctionOnSet(f, S) = 0)
<1>1. PICK g : IsSum(g, f, S) /\ SumFunctionOnSet(f, S) = g[S] /\ g[S] \in Nat
  BY SumIsSum
<1>2. g[{}] = 0
  <2>1. g[{}] = SumsOf(f, S, g)[{}]
    BY <1>1 DEF IsSum
  <2> QED  BY <2>1 DEF SumsOf
<1> QED  BY <1>1, <1>2

(* Functions that agree on a set have the same sum over it.                *)
LEMMA SumSame ==
  ASSUME NEW S, IsFiniteSet(S), NEW f, NEW e, \A x \in S : f[x] \in Nat /\ e[x] = f[x]
  PROVE  SumFunctionOnSet(e, S) = SumFunctionOnSet(f, S)
<1>1. PICK g : IsSum(g, f, S) /\ SumFunctionOnSet(f, S) = g[S]
  BY SumIsSum
<1>2. PICK h : IsSum(h, e, S) /\ SumFunctionOnSet(e, S) = h[S]
  BY SumIsSum
<1>3. g = SumsOf(f, S, g) /\ h = SumsOf(e, S, h)
  BY <1>1, <1>2 DEF IsSum
<1>4. \A s \in SUBSET S : g[s] = h[s]
  BY <1>3, SumsAgree
<1> QED  BY <1>1, <1>2, <1>4

(* One element can be taken out of a sum.                                  *)
LEMMA SumSplit ==
  ASSUME NEW S, IsFiniteSet(S), NEW f, \A x \in S : f[x] \in Nat, NEW x \in S
  PROVE  SumFunctionOnSet(f, S) = f[x] + SumFunctionOnSet(f, S \ {x})
<1> DEFINE T == S \ {x}
<1>0. IsFiniteSet(T) /\ T \subseteq S /\ \A y \in T : f[y] \in Nat
  BY FS_Subset
<1>1. PICK g : IsSum(g, f, S) /\ SumFunctionOnSet(f, S) = g[S]
  BY SumIsSum
<1>2. g[S] = f[x] + g[T]
  BY <1>1, SumsSplit
<1> HIDE DEF T
<1>3. PICK h : IsSum(h, f, T) /\ SumFunctionOnSet(f, T) = h[T]
  BY <1>0, SumIsSum
<1>4. g = SumsOf(f, S, g) /\ h = SumsOf(f, T, h)
  BY <1>1, <1>3 DEF IsSum
<1>5. \A s \in SUBSET T : h[s] = g[s]
  BY <1>0, <1>4, SumsAgree
<1> QED  BY <1>1, <1>2, <1>3, <1>5 DEF T
=============================================================================
