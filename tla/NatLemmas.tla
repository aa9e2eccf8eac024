------------------------------ MODULE NatLemmas ------------------------------
(***************************************************************************)
(* Sets of natural numbers and sums, for the proofs.                       *)
(***************************************************************************)
EXTENDS Integers, WellFoundedInduction, TLAPS

(* A set of natural numbers has a least element, a bounded one a greatest. *)
LEMMA Least ==
  ASSUME NEW S \in SUBSET Nat, S # {}
  PROVE  \E x \in S : \A y \in S : x <= y
<1> DEFINE R == OpToRel(<, Nat)
<1>1. IsWellFoundedOn(R, Nat)
  BY NatLessThanWellFounded
<1>2. \A x, y \in Nat : x < y => << x, y >> \in R
  BY DEF OpToRel
<1> HIDE DEF R
<1>3. PICK x \in S : \A y \in S : ~ (<< y, x >> \in R)
  BY <1>1, WFMin
<1>4. x \in Nat /\ S \subseteq Nat
  OBVIOUS
<1>5. ASSUME NEW y \in S PROVE x <= y
  <2>1. y \in Nat /\ ~ (y < x)
    BY <1>2, <1>3, <1>4
  <2> QED
    BY <1>4, <2>1
<1> QED
  BY <1>5

LEMMA Greatest ==
  ASSUME NEW n \in Nat, NEW S \in SUBSET (0 .. n), S # {}
  PROVE  \E x \in S : \A y \in S : y <= x
<1> DEFINE T == {n - x : x \in S}
<1>1. PICK t \in T : \A u \in T : t <= u
  <2>1. T \in SUBSET Nat /\ T # {}
    <3>1. \A x \in S : n - x \in Nat
      OBVIOUS
    <3>2. T \subseteq Nat
      BY <3>1
    <3>3. PICK x \in S : TRUE
      OBVIOUS
    <3>4. n - x \in T
      OBVIOUS
    <3> QED
      BY <3>2, <3>4
  <2> HIDE DEF T
  <2> QED
    BY <2>1, Least
<1>2. PICK x \in S : t = n - x
  OBVIOUS
<1>3. \A y \in S : y <= x
  BY <1>1, <1>2
<1> QED
  BY <1>3
-----------------------------------------------------------------------------
(* f[0] is a, and g[k] makes f[k] of f[k - 1].                             *)
Recurs(f, a, g, N) == f[0] = a /\ \A k \in 1 .. N : f[k] = g[k][f[k - 1]]

(* There is such a function: a least place up to which there is none is    *)
(* impossible.                                                             *)
LEMMA Recursion ==
  ASSUME NEW N \in Nat, NEW D, NEW a \in D, NEW g \in [1 .. N -> [D -> D]]
  PROVE  \E f \in [0 .. N -> D] : Recurs(f, a, g, N)
<1> DEFINE Defined(n) == \E f \in [0 .. n -> D] : Recurs(f, a, g, n)
<1> DEFINE S == {n \in 0 .. N : ~Defined(n)}
<1> SUFFICES ASSUME S # {} PROVE FALSE
  <2>1. N \in 0 .. N
    OBVIOUS
  <2> QED
    BY <2>1, Zenon
<1>1. PICK n \in S : \A m \in S : n <= m
  <2>1. S \in SUBSET Nat
    OBVIOUS
  <2> HIDE DEF S
  <2> QED
    BY <2>1, Least
<1>2. n \in 0 .. N /\ ~Defined(n)
  OBVIOUS
<1>3. CASE n = 0
  <2>1. Recurs([k \in 0 .. 0 |-> a], a, g, 0)
    BY DEF Recurs
  <2> QED
    BY <1>2, <1>3, <2>1
<1>4. CASE n # 0
  <2>1. n - 1 \in 0 .. N /\ n - 1 \notin S
    BY <1>1, <1>2, <1>4
  <2>2. PICK f \in [0 .. (n - 1) -> D] : Recurs(f, a, g, n - 1)
    BY <2>1
  <2> DEFINE t == [k \in 0 .. n |-> IF k = n THEN g[n][f[n - 1]] ELSE f[k]]
  <2>3. t \in [0 .. n -> D] /\ t[0] = a
    <3>1. n \in 1 .. N /\ n - 1 \in 0 .. (n - 1)
      BY <1>2, <1>4
    <3>2. g[n][f[n - 1]] \in D
      BY <3>1
    <3>3. f[0] = a
      BY <2>2 DEF Recurs
    <3> QED
      BY <1>2, <1>4, <3>2, <3>3
  <2>4. \A k \in 1 .. n : t[k] = g[k][t[k - 1]]
    <3> SUFFICES ASSUME NEW k \in 1 .. n PROVE t[k] = g[k][t[k - 1]]
      OBVIOUS
    <3>1. t[k - 1] = f[k - 1]
      BY <1>2
    <3>2. CASE k = n
      BY <1>2, <3>1, <3>2
    <3>3. CASE k # n
      <4>1. k \in 1 .. (n - 1)
        BY <1>2, <3>3
      <4>2. t[k] = f[k] /\ f[k] = g[k][f[k - 1]]
        BY <2>2, <3>3, <4>1 DEF Recurs
      <4> QED
        BY <3>1, <4>2
    <3> QED
      BY <3>2, <3>3
  <2> HIDE DEF t
  <2> QED
    BY <1>2, <2>3, <2>4 DEF Recurs
<1> QED
  BY <1>3, <1>4

(* Whatever satisfies the equations of a recursive function as long as it  *)
(* stays in D, stays in D.                                                 *)
Follows(f, a, g, N, D) ==
  /\ f = [k \in 0 .. N |-> f[k]] /\ f[0] = a
  /\ \A k \in 1 .. N : f[k - 1] \in D => f[k] = g[k][f[k - 1]]

LEMMA RecursionUnique ==
  ASSUME NEW N \in Nat, NEW D, NEW a \in D, NEW g \in [1 .. N -> [D -> D]],
         NEW h, Follows(h, a, g, N, D)
  PROVE  h \in [0 .. N -> D] /\ Recurs(h, a, g, N)
<1>0. /\ h = [k \in 0 .. N |-> h[k]] /\ h[0] = a
      /\ \A k \in 1 .. N : h[k - 1] \in D => h[k] = g[k][h[k - 1]]
  BY DEF Follows
<1>1. \A k \in 0 .. N : h[k] \in D
  <2> DEFINE S == {k \in 0 .. N : h[k] \notin D}
  <2> SUFFICES ASSUME S # {} PROVE FALSE
    OBVIOUS
  <2>1. PICK k \in S : \A m \in S : k <= m
    <3>1. S \in SUBSET Nat
      OBVIOUS
    <3> HIDE DEF S
    <3> QED
      BY <3>1, Least
  <2>2. k \in 0 .. N /\ h[k] \notin D /\ k # 0
    BY <1>0
  <2>3. k - 1 \in 0 .. N /\ k - 1 \notin S /\ k \in 1 .. N
    BY <2>1, <2>2
  <2>4. h[k - 1] \in D
    BY <2>3
  <2>5. h[k] = g[k][h[k - 1]]
    BY <1>0, <2>3, <2>4
  <2> QED
    BY <2>2, <2>3, <2>4, <2>5
<1>2. \A k \in 1 .. N : k - 1 \in 0 .. N
  OBVIOUS
<1> QED
  BY <1>0, <1>1, <1>2 DEF Recurs

-----------------------------------------------------------------------------
(* s[k] is the sum of the first k numbers of w.                            *)
SumsOf(w, N, s) == s \in [0 .. N -> Nat] /\ s[0] = 0 /\ \A k \in 1 .. N : s[k] = s[k - 1] + w[k]

LEMMA SumsExist ==
  ASSUME NEW N \in Nat, NEW w \in [1 .. N -> Nat]
  PROVE  \E s : SumsOf(w, N, s)
<1> DEFINE g == [k \in 1 .. N |-> [x \in Nat |-> x + w[k]]]
<1>1. g \in [1 .. N -> [Nat -> Nat]]
  OBVIOUS
<1>2. \A k \in 1 .. N : \A x \in Nat : g[k][x] = x + w[k]
  OBVIOUS
<1> HIDE DEF g
<1>3. PICK s \in [0 .. N -> Nat] : Recurs(s, 0, g, N)
  BY <1>1, Recursion
<1>4. ASSUME NEW k \in 1 .. N PROVE s[k] = s[k - 1] + w[k]
  <2>1. s[k - 1] \in Nat
    OBVIOUS
  <2>2. s[k] = g[k][s[k - 1]]
    BY <1>3 DEF Recurs
  <2> QED
    BY <1>2, <2>1, <2>2
<1> QED
  BY <1>3, <1>4 DEF Recurs, SumsOf

(* Whatever satisfies the recursive equation of the sums is the sums.      *)
LEMMA SumsUnique ==
  ASSUME NEW N \in Nat, NEW w \in [1 .. N -> Nat], NEW t,
         t = [k \in 0 .. N |-> IF k = 0 THEN 0 ELSE t[k - 1] + w[k]]
  PROVE  SumsOf(w, N, t)
<1> DEFINE g == [k \in 1 .. N |-> [x \in Nat |-> x + w[k]]]
<1>1. g \in [1 .. N -> [Nat -> Nat]]
  OBVIOUS
<1>2. \A k \in 1 .. N : \A x \in Nat : g[k][x] = x + w[k]
  OBVIOUS
<1> HIDE DEF g
<1>3. t[0] = 0 /\ \A k \in 1 .. N : t[k] = t[k - 1] + w[k]
  OBVIOUS
<1>4. t = [k \in 0 .. N |-> t[k]]
  OBVIOUS
<1>5. \A k \in 1 .. N : t[k - 1] \in Nat => t[k] = g[k][t[k - 1]]
  BY <1>2, <1>3
<1>6. Follows(t, 0, g, N, Nat)
  BY <1>3, <1>4, <1>5, Zenon DEF Follows
<1>7. t \in [0 .. N -> Nat]
  BY <1>1, <1>6, RecursionUnique
<1> QED
  BY <1>3, <1>7 DEF SumsOf

(* Sums grow.                                                              *)
LEMMA SumsGrow ==
  ASSUME NEW N \in Nat, NEW w \in [1 .. N -> Nat], NEW s, SumsOf(w, N, s),
         NEW i \in 0 .. N, NEW j \in 0 .. N, i <= j
  PROVE  s[i] <= s[j]
<1> DEFINE S == {k \in i .. N : s[k] < s[i]}
<1>1. \A k \in 0 .. N : s[k] \in Nat
  BY DEF SumsOf
<1>2. ASSUME S # {} PROVE FALSE
  <2>1. PICK k \in S : \A m \in S : k <= m
    <3>1. S \in SUBSET Nat
      OBVIOUS
    <3> HIDE DEF S
    <3> QED
      BY <1>2, <3>1, Least
  <2>2. k \in i .. N /\ s[k] < s[i]
    OBVIOUS
  <2>3. k # i
    BY <1>1, <2>2
  <2>4. k - 1 \in i .. N /\ k - 1 \notin S /\ k \in 1 .. N
    BY <2>1, <2>2, <2>3
  <2>5. s[k] = s[k - 1] + w[k] /\ w[k] \in Nat
    BY <2>4 DEF SumsOf
  <2> QED
    BY <1>1, <2>2, <2>4, <2>5
<1>3. j \in i .. N /\ s[i] \in Nat /\ s[j] \in Nat
  BY <1>1
<1> QED
  BY <1>2, <1>3

(* A number below the last sum lies between two sums.                      *)
LEMMA SumsLocate ==
  ASSUME NEW N \in Nat, NEW w \in [1 .. N -> Nat], NEW s, SumsOf(w, N, s),
         NEW n \in Nat, n < s[N]
  PROVE  \E k \in 0 .. (N - 1) : s[k] <= n /\ n < s[k + 1]
<1> DEFINE S == {k \in 0 .. N : s[k] <= n}
<1>1. \A k \in 0 .. N : s[k] \in Nat
  BY DEF SumsOf
<1>2. PICK k \in S : \A m \in S : m <= k
  <2>1. 0 \in S
    BY DEF SumsOf
  <2>2. S \in SUBSET (0 .. N) /\ S # {}
    BY <2>1
  <2> HIDE DEF S
  <2> QED
    BY <2>2, Greatest
<1>3. k \in 0 .. N /\ s[k] <= n /\ k # N
  BY <1>1
<1>4. k + 1 \in 0 .. N /\ k + 1 \notin S
  BY <1>2, <1>3
<1>5. n < s[k + 1] /\ k \in 0 .. (N - 1)
  BY <1>1, <1>3, <1>4
<1> QED
  BY <1>3, <1>5
=============================================================================
