---------------------------- MODULE FoldInduction ----------------------------
(* Induction along a left fold, and along a function defined by recursion on *)
(* the naturals.  The step and what it keeps are parameters: a module that   *)
(* folds or recurs gets the induction for its own step by instantiating this *)
(* one.  a, b and c are what the step needs beside the value so far and the  *)
(* element (of a recursion, the number).                                     *)
EXTENDS Integers, FiniteSets, Sequences, SequencesExt, WellFoundedInduction, TLAPS

CONSTANTS Op(_, _, _, _, _),  \* the step: Op(a, b, c, d, e) is d after the element e
          Keeps(_, _),        \* what every value on the way satisfies, and an origin
          Element(_)          \* what is known of the elements

(* A set of naturals that is not empty has a least element.                  *)
LEMMA LeastNatural ==
  ASSUME NEW T, T \subseteq Nat, T # {}
  PROVE  \E m \in T : \A n \in T : m <= n
<1> DEFINE R == OpToRel(<, Nat)
<1>1. IsWellFoundedOn(R, Nat)
  BY NatLessThanWellFounded
<1> HIDE DEF R
<1>2. PICK m \in T : \A n \in T : ~(<<n, m>> \in R)
  BY <1>1, WFMin
<1>3. \A n \in T : ~(n < m)
  BY <1>2 DEF R, OpToRel
<1> QED  BY <1>3

(* A bounded one has a greatest.                                             *)
LEMMA MaxOfBounded ==
  ASSUME NEW k \in Nat, NEW T, T \subseteq 0..k, T # {}
  PROVE  Max(T) \in T /\ \A x \in T : x <= Max(T)
<1> DEFINE U == {k - x : x \in T}
<1>1. U \subseteq Nat /\ U # {}
  <2>1. \A x \in T : k - x \in Nat
    OBVIOUS
  <2>2. \A u \in U : \E x \in T : u = k - x
    OBVIOUS
  <2>3. PICK x : x \in T
    OBVIOUS
  <2>4. k - x \in U
    BY <2>3
  <2> QED  BY <2>1, <2>2, <2>4
<1>2. PICK m \in U : \A n \in U : m <= n
  <2> HIDE DEF U
  <2> QED  BY <1>1, LeastNatural
<1>3. PICK x \in T : m = k - x
  OBVIOUS
<1>4. \A y \in T : x >= y
  <2> TAKE y \in T
  <2>1. k - x <= k - y
    BY <1>2, <1>3
  <2> QED  BY <2>1
<1> QED  BY <1>4 DEF Max

-----------------------------------------------------------------------------
Fold(a, b, c, base, s) == FoldLeft(LAMBDA d, e : Op(a, b, c, d, e), base, s)

(* The values on the way: g[k] is the value after k elements.                *)
Along(g, a, b, c, base, s, n) ==
  /\ g[0] = base
  /\ \A k \in 1..n : g[k] = Op(a, b, c, g[k - 1], s[k])
  /\ Fold(a, b, c, base, s) = g[n]

(* The fold goes through the elements in order.                              *)
LEMMA FoldUnfolds ==
  ASSUME NEW a, NEW b, NEW c, NEW base, NEW s, NEW n \in Nat, DOMAIN s = 1..n
  PROVE  \E g : Along(g, a, b, c, base, s, n)
<1> DEFINE Body(g, t) == IF t = {} THEN base ELSE Op(a, b, c, g[t \ {Max(t)}], s[Max(t)])
           Iter(g, k) == g = [t \in SUBSET (1..k) |-> Body(g, t)]
<1>1. \A k \in Nat : \E g : Iter(g, k)
  <2> DEFINE Bad == {k \in Nat : ~\E g : Iter(g, k)}
  <2> SUFFICES ASSUME Bad # {} PROVE FALSE
    OBVIOUS
  <2>1. PICK k \in Bad : \A m \in Bad : k <= m
    <3>1. Bad \subseteq Nat
      OBVIOUS
    <3> HIDE DEF Bad
    <3> QED  BY <3>1, LeastNatural
  <2>2. k # 0
    <3> DEFINE g == [t \in SUBSET (1..0) |-> base]
    <3>1. SUBSET (1..0) = {{}}
      OBVIOUS
    <3>2. Iter(g, 0)
      BY <3>1
    <3> QED  BY <2>1, <3>2
  <2>3. PICK g : Iter(g, k - 1)
    <3>1. k \in Nat /\ k - 1 \in Nat
      BY <2>1, <2>2
    <3>2. k - 1 \notin Bad
      <4> HIDE DEF Bad
      <4> QED  BY <2>1, <3>1
    <3> QED  BY <3>1, <3>2
  <2> DEFINE h == [t \in SUBSET (1..k) |-> IF k \in t THEN Op(a, b, c, g[t \ {k}], s[k]) ELSE g[t]]
  <2>4. Iter(h, k)
    <3> SUFFICES ASSUME NEW t \in SUBSET (1..k) PROVE h[t] = Body(h, t)
      OBVIOUS
    <3>0. k \in Nat /\ t \subseteq 0..k
      BY <2>1
    <3>1. CASE k \in t
      <4>1. Max(t) = k
        <5>1. Max(t) \in t /\ \A x \in t : x <= Max(t)
          BY <3>0, <3>1, MaxOfBounded
        <5>2. Max(t) \in 1..k /\ k <= Max(t)
          BY <3>1, <5>1
        <5> QED  BY <2>1, <5>2
      <4>2. t \ {k} \in SUBSET (1..(k - 1)) /\ h[t \ {k}] = g[t \ {k}]
        OBVIOUS
      <4> QED  BY <3>1, <4>1, <4>2
    <3>2. CASE k \notin t
      <4>1. t \in SUBSET (1..(k - 1)) /\ h[t] = g[t]
        BY <3>2
      <4>2. g[t] = Body(g, t)
        BY <2>3, <4>1
      <4>3. CASE t = {}
        BY <4>1, <4>2, <4>3
      <4>4. CASE t # {}
        <5>1. Max(t) \in t
          BY <3>0, <4>4, MaxOfBounded
        <5>2. h[t \ {Max(t)}] = g[t \ {Max(t)}]
          BY <3>2
        <5> QED  BY <4>1, <4>2, <4>4, <5>2
      <4> QED  BY <4>3, <4>4
    <3> QED  BY <3>1, <3>2
  <2> QED  BY <2>1, <2>4
<1> DEFINE iter == CHOOSE g : Iter(g, n)
<1>2. Iter(iter, n)
  BY <1>1
<1>3. Fold(a, b, c, base, s) = iter[1..n]
  BY DEF Fold, FoldLeft, MapThenFoldSet
<1> HIDE DEF iter
<1> DEFINE g == [k \in 0..n |-> iter[1..k]]
<1>4. g[0] = base
  BY <1>2
<1>5. ASSUME NEW k \in 1..n PROVE g[k] = Op(a, b, c, g[k - 1], s[k])
  <2>1. Max(1..k) = k
    <3>1. k \in Nat /\ 1..k \subseteq 0..k /\ 1..k # {} /\ k \in 1..k
      OBVIOUS
    <3>2. Max(1..k) \in 1..k /\ \A x \in 1..k : x <= Max(1..k)
      <4> DEFINE T == 1..k
      <4> HIDE DEF T
      <4> QED  BY <3>1, MaxOfBounded DEF T
    <3> QED  BY <3>1, <3>2
  <2>2. (1..k) \ {k} = 1..(k - 1) /\ 1..k # {} /\ 1..k \in SUBSET (1..n)
    OBVIOUS
  <2>3. iter[1..k] = Body(iter, 1..k)
    BY <1>2, <2>2
  <2>4. iter[1..k] = Op(a, b, c, iter[1..(k - 1)], s[k])
    BY <2>1, <2>2, <2>3
  <2> QED  BY <2>4
<1>6. Fold(a, b, c, base, s) = g[n]
  BY <1>3
<1>7. Along(g, a, b, c, base, s, n)
  BY <1>4, <1>5, <1>6 DEF Along
<1> QED  BY <1>7

(* What the step keeps, the fold keeps.                                      *)
THEOREM FoldKeeps ==
  ASSUME NEW a, NEW b, NEW c, NEW o, NEW base, NEW s, NEW n \in Nat, DOMAIN s = 1..n,
         Keeps(o, base), \A k \in 1..n : Element(s[k]),
         \A d, e : Keeps(o, d) /\ Element(e) => Keeps(o, Op(a, b, c, d, e))
  PROVE  Keeps(o, Fold(a, b, c, base, s))
<1>0. PICK g : Along(g, a, b, c, base, s, n)
  BY FoldUnfolds
<1>1. /\ g[0] = base
      /\ \A k \in 1..n : g[k] = Op(a, b, c, g[k - 1], s[k])
      /\ Fold(a, b, c, base, s) = g[n]
  BY <1>0 DEF Along
<1> DEFINE Bad == {k \in 0..n : ~Keeps(o, g[k])}
<1> SUFFICES ASSUME Bad # {} PROVE FALSE
  BY <1>1
<1>2. PICK k \in Bad : \A m \in Bad : k <= m
  <2>1. Bad \subseteq Nat
    OBVIOUS
  <2> HIDE DEF Bad
  <2> QED  BY <2>1, LeastNatural
<1>3. k # 0
  BY <1>1, <1>2
<1>4. Keeps(o, g[k - 1]) /\ k \in 1..n
  <2>1. k - 1 \in 0..n /\ k - 1 \notin Bad
    BY <1>2, <1>3
  <2> QED  BY <1>3, <2>1
<1> QED  BY <1>1, <1>2, <1>4

-----------------------------------------------------------------------------
(* A function on the naturals defined by recursion, a level from the one     *)
(* below.                                                                    *)
Recursion(a, b, c, base) ==
  CHOOSE f : f = [n \in Nat |-> IF n = 0 THEN base ELSE Op(a, b, c, f[n - 1], n)]

(* What holds at 0 and is kept by each step holds of all naturals.           *)
THEOREM Induction ==
  ASSUME NEW o, Keeps(o, 0), \A n \in Nat : Keeps(o, n) => Keeps(o, n + 1)
  PROVE  \A n \in Nat : Keeps(o, n)
<1> DEFINE Bad == {n \in Nat : ~Keeps(o, n)}
<1> SUFFICES ASSUME Bad # {} PROVE FALSE
  OBVIOUS
<1>1. PICK k \in Bad : \A m \in Bad : k <= m
  <2>1. Bad \subseteq Nat
    OBVIOUS
  <2> HIDE DEF Bad
  <2> QED  BY <2>1, LeastNatural
<1>2. k # 0
  BY <1>1
<1>3. k - 1 \in Nat /\ ~(k <= k - 1)
  BY <1>1, <1>2
<1>4. k - 1 \notin Bad
  <2> HIDE DEF Bad
  <2> QED  BY <1>1, <1>3
<1>5. Keeps(o, (k - 1) + 1)
  BY <1>3, <1>4
<1>6. (k - 1) + 1 = k
  BY <1>1
<1> QED  BY <1>1, <1>5, <1>6

(* There is such a function, whatever the step.                              *)
LEMMA RecursionUnfolds ==
  ASSUME NEW a, NEW b, NEW c, NEW base
  PROVE  /\ Recursion(a, b, c, base)[0] = base
         /\ \A n \in Nat : Recursion(a, b, c, base)[n + 1] = Op(a, b, c, Recursion(a, b, c, base)[n], n + 1)
<1> DEFINE Upto(g, k) == g[0] = base /\ \A j \in 1..k : g[j] = Op(a, b, c, g[j - 1], j)
<1>1. \A k \in Nat : \E g : Upto(g, k)
  <2> DEFINE Bad == {k \in Nat : ~\E g : Upto(g, k)}
  <2> SUFFICES ASSUME Bad # {} PROVE FALSE
    OBVIOUS
  <2>1. PICK k \in Bad : \A m \in Bad : k <= m
    <3>1. Bad \subseteq Nat
      OBVIOUS
    <3> HIDE DEF Bad
    <3> QED  BY <3>1, LeastNatural
  <2>2. k # 0
    <3> DEFINE g == [j \in {0} |-> base]
    <3>1. Upto(g, 0)
      OBVIOUS
    <3> QED  BY <2>1, <3>1
  <2>3. k \in Nat /\ k - 1 \in Nat
    BY <2>1, <2>2
  <2>4. PICK g : Upto(g, k - 1)
    <3>1. k - 1 \notin Bad
      <4> HIDE DEF Bad
      <4> QED  BY <2>1, <2>3
    <3> QED  BY <2>3, <3>1
  <2> DEFINE h == [j \in 0..k |-> IF j < k THEN g[j] ELSE Op(a, b, c, g[k - 1], k)]
  <2>5. Upto(h, k)
    <3>1. h[0] = base
      BY <2>2, <2>3, <2>4
    <3>2. ASSUME NEW j \in 1..k PROVE h[j] = Op(a, b, c, h[j - 1], j)
      <4>1. h[j - 1] = g[j - 1]
        OBVIOUS
      <4>2. CASE j = k
        BY <4>1, <4>2
      <4>3. CASE j # k
        <5>1. j \in 1..(k - 1) /\ h[j] = g[j]
          BY <2>3, <4>3
        <5> QED  BY <2>4, <4>1, <5>1
      <4> QED  BY <4>2, <4>3
    <3> QED  BY <3>1, <3>2
  <2> QED  BY <2>1, <2>5
<1>2. ASSUME NEW k \in Nat, NEW g, NEW h, Upto(g, k), Upto(h, k + 1) PROVE g[k] = h[k]
  <2> DEFINE Bad == {j \in 0..k : g[j] # h[j]}
  <2> SUFFICES ASSUME Bad # {} PROVE FALSE
    OBVIOUS
  <2>1. PICK j \in Bad : \A m \in Bad : j <= m
    <3>1. Bad \subseteq Nat
      OBVIOUS
    <3> HIDE DEF Bad
    <3> QED  BY <3>1, LeastNatural
  <2>2. j \in 1..k /\ j \in 1..(k + 1)
    BY <1>2, <2>1
  <2>3. g[j - 1] = h[j - 1]
    <3>1. j - 1 \in 0..k /\ ~(j <= j - 1)
      BY <2>2
    <3>2. j - 1 \notin Bad
      <4> HIDE DEF Bad
      <4> QED  BY <2>1, <3>1
    <3> QED  BY <3>1, <3>2
  <2> QED  BY <1>2, <2>1, <2>2, <2>3
<1> DEFINE At(k) == CHOOSE g : Upto(g, k)
           f == [n \in Nat |-> At(n)[n]]
           Rec(g) == g = [n \in Nat |-> IF n = 0 THEN base ELSE Op(a, b, c, g[n - 1], n)]
<1>3. \A k \in Nat : Upto(At(k), k)
  BY <1>1
<1> HIDE DEF At
<1>4. ASSUME NEW n \in Nat PROVE f[n] = IF n = 0 THEN base ELSE Op(a, b, c, f[n - 1], n)
  <2>1. CASE n = 0
    BY <1>3, <2>1
  <2>2. CASE n # 0
    <3>1. n - 1 \in Nat /\ (n - 1) + 1 = n /\ n \in 1..n
      BY <2>2
    <3>2. At(n - 1)[n - 1] = At(n)[n - 1]
      <4>1. Upto(At(n - 1), n - 1) /\ Upto(At(n), (n - 1) + 1)
        BY <1>3, <3>1
      <4> HIDE DEF Upto
      <4> QED  BY <1>2, <3>1, <4>1
    <3>3. At(n)[n] = Op(a, b, c, At(n)[n - 1], n)
      BY <1>3, <3>1
    <3> QED  BY <2>2, <3>1, <3>2, <3>3
  <2> QED  BY <2>1, <2>2
<1>5. Rec(f)
  BY <1>4
<1>6. Rec(Recursion(a, b, c, base))
  <2> HIDE DEF f
  <2> QED  BY <1>5 DEF Recursion
<1> DEFINE r == Recursion(a, b, c, base)
<1> HIDE DEF r
<1>7. \A n \in Nat : r[n] = IF n = 0 THEN base ELSE Op(a, b, c, r[n - 1], n)
  BY <1>6 DEF r
<1>8. ASSUME NEW n \in Nat PROVE r[n + 1] = Op(a, b, c, r[n], n + 1)
  <2>1. n + 1 \in Nat /\ n + 1 # 0 /\ (n + 1) - 1 = n
    OBVIOUS
  <2> QED  BY <1>7, <2>1
<1> QED  BY <1>7, <1>8 DEF r
=============================================================================
