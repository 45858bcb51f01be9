----------------------------- MODULE SumTheorems -----------------------------
(***************************************************************************)
(* What Sum computes, for every n.  The library's induction theorems take  *)
(* an operator as a parameter; the induction here is over a set of         *)
(* naturals instead, from the well-foundedness of < on Nat.                *)
(***************************************************************************)
EXTENDS Sums, FiniteSets, FiniteSetTheorems, WellFoundedInduction, NaturalsInduction,
        TLAPS

\* Every set of naturals that is not empty has a least element.
LEMMA LeastNatural ==
  ASSUME NEW S \in SUBSET Nat, S # {}
  PROVE  \E n \in S : \A m \in S : n <= m
<1>1. IsWellFoundedOn(OpToRel(<, Nat), Nat)
  BY NatLessThanWellFounded
<1>2. PICK n \in S : \A m \in S : <<m, n>> \notin OpToRel(<, Nat)
  BY <1>1, WFMin
<1>3. \A m \in S : ~(m < n)
  BY <1>2 DEF OpToRel
<1>. QED BY <1>3

\* Induction: a set of naturals with 0 and the successor of each member is Nat.
LEMMA SetInduction ==
  ASSUME NEW S \in SUBSET Nat, 0 \in S, \A n \in S : n + 1 \in S
  PROVE  S = Nat
<1>1. SUFFICES ASSUME Nat \ S # {} PROVE FALSE
  OBVIOUS
<1>2. PICK n \in Nat \ S : \A m \in Nat \ S : n <= m
  BY <1>1, LeastNatural
<1>3. n - 1 \in S
  BY <1>2
<1>. QED BY <1>2, <1>3

IsPrefix(p, f, n) == p = [k \in 0..n |-> IF k = 0 THEN 0 ELSE p[k - 1] + f[k]]

\* The recursive function of Sums exists, so its defining equation holds.
LEMMA PrefixExists ==
  ASSUME NEW f
  PROVE  \A n \in Nat : \E p : IsPrefix(p, f, n)
<1> DEFINE S == {n \in Nat : \E p : IsPrefix(p, f, n)}
<1>1. 0 \in S
  <2>1. IsPrefix([k \in 0..0 |-> 0], f, 0)
    BY DEF IsPrefix
  <2>. QED BY <2>1
<1>2. ASSUME NEW n \in S PROVE n + 1 \in S
  <2>1. PICK p : IsPrefix(p, f, n)
    OBVIOUS
  <2> DEFINE q == [k \in 0..(n + 1) |->
                     IF k = n + 1 THEN p[n] + f[n + 1] ELSE p[k]]
  <2>2. IsPrefix(q, f, n + 1)
    BY <2>1 DEF IsPrefix
  <2> HIDE DEF q
  <2>3. n + 1 \in Nat /\ \E r : IsPrefix(r, f, n + 1)
    BY <2>2
  <2>. QED BY <2>3
<1>3. S \in SUBSET Nat
  OBVIOUS
<1> HIDE DEF S
<1>4. S = Nat
  BY <1>1, <1>2, <1>3, SetInduction
<1>. QED BY <1>4 DEF S

LEMMA PrefixDef ==
  ASSUME NEW n \in Nat, NEW f
  PROVE  Prefix(f, n) = [k \in 0..n |->
           IF k = 0 THEN 0 ELSE Prefix(f, n)[k - 1] + f[k]]
BY PrefixExists DEF Prefix, IsPrefix

\* The running totals do not depend on where they stop.
LEMMA PrefixAgrees ==
  ASSUME NEW f, NEW n \in Nat
  PROVE  \A k \in 0..n : Prefix(f, n + 1)[k] = Prefix(f, n)[k]
<1> DEFINE S == {k \in Nat : k <= n => Prefix(f, n + 1)[k] = Prefix(f, n)[k]}
<1>1. 0 \in S
  BY PrefixDef
<1>2. ASSUME NEW k \in S PROVE k + 1 \in S
  <2>1. CASE k + 1 <= n
    <3>1. Prefix(f, n + 1)[k + 1] = Prefix(f, n + 1)[k] + f[k + 1]
      <4>1. k + 1 \in 0..(n + 1) /\ k + 1 # 0 /\ (k + 1) - 1 = k
        BY <2>1
      <4>2. n + 1 \in Nat
        OBVIOUS
      <4>. HIDE DEF S
      <4>. QED BY <4>1, <4>2, PrefixDef
    <3>2. Prefix(f, n)[k + 1] = Prefix(f, n)[k] + f[k + 1]
      <4>1. k + 1 \in 0..n /\ k + 1 # 0 /\ (k + 1) - 1 = k
        BY <2>1
      <4>. HIDE DEF S
      <4>. QED BY <4>1, PrefixDef
    <3>3. Prefix(f, n + 1)[k] = Prefix(f, n)[k]
      BY <2>1
    <3>. QED BY <3>1, <3>2, <3>3
  <2>2. CASE ~(k + 1 <= n)
    BY <2>2
  <2>. QED BY <2>1, <2>2
<1>3. S \in SUBSET Nat
  OBVIOUS
<1> HIDE DEF S
<1>4. S = Nat
  BY <1>1, <1>2, <1>3, SetInduction
<1>. QED BY <1>4 DEF S

LEMMA SumEmpty == \A f : Sum(f, 0) = 0
BY PrefixDef DEF Sum

LEMMA SumNext ==
  ASSUME NEW f, NEW n \in Nat
  PROVE  Sum(f, n + 1) = Sum(f, n) + f[n + 1]
<1>1. n + 1 \in Nat /\ n + 1 \in 0..(n + 1) /\ n + 1 # 0 /\ (n + 1) - 1 = n
  OBVIOUS
<1>2. Prefix(f, n + 1)[n + 1] = Prefix(f, n + 1)[n] + f[n + 1]
  BY <1>1, PrefixDef
<1>3. Prefix(f, n + 1)[n] = Prefix(f, n)[n]
  BY PrefixAgrees
<1>. QED BY <1>2, <1>3 DEF Sum

-----------------------------------------------------------------------------
(* What follows is by induction on n from SumEmpty and SumNext. *)

\* A sum of integers is an integer, and of naturals a natural no term exceeds.
LEMMA SumInt ==
  ASSUME NEW f, NEW n \in Nat, \A k \in 1..n : f[k] \in Int
  PROVE  Sum(f, n) \in Int
<1> DEFINE S == {m \in Nat : m <= n => Sum(f, m) \in Int}
<1>1. 0 \in S
  BY SumEmpty
<1>2. ASSUME NEW m \in S PROVE m + 1 \in S
  BY SumNext
<1>3. S \in SUBSET Nat
  OBVIOUS
<1> HIDE DEF S
<1>4. S = Nat
  BY <1>1, <1>2, <1>3, SetInduction
<1>. QED BY <1>4 DEF S

LEMMA SumNat ==
  ASSUME NEW f, NEW n \in Nat, \A k \in 1..n : f[k] \in Nat
  PROVE  /\ Sum(f, n) \in Nat
         /\ \A k \in 1..n : f[k] <= Sum(f, n)
<1> DEFINE S == {m \in Nat : m <= n =>
                   /\ Sum(f, m) \in Nat
                   /\ \A k \in 1..m : f[k] <= Sum(f, m)}
<1>1. 0 \in S
  BY SumEmpty
<1>2. ASSUME NEW m \in S PROVE m + 1 \in S
  BY SumNext
<1>3. S \in SUBSET Nat
  OBVIOUS
<1> HIDE DEF S
<1>4. S = Nat
  BY <1>1, <1>2, <1>3, SetInduction
<1>. QED BY <1>4 DEF S

\* Functions that agree on 1..n have the same sum.
LEMMA SumEqual ==
  ASSUME NEW f, NEW g, NEW n \in Nat, \A k \in 1..n : f[k] = g[k]
  PROVE  Sum(f, n) = Sum(g, n)
<1> DEFINE S == {m \in Nat : m <= n => Sum(f, m) = Sum(g, m)}
<1>1. 0 \in S
  BY SumEmpty
<1>2. ASSUME NEW m \in S PROVE m + 1 \in S
  BY SumNext
<1>3. S \in SUBSET Nat
  OBVIOUS
<1> HIDE DEF S
<1>4. S = Nat
  BY <1>1, <1>2, <1>3, SetInduction
<1>. QED BY <1>4 DEF S

\* Changing one term changes the sum by as much.
LEMMA SumChange ==
  ASSUME NEW n \in Nat, NEW u \in 1..n, NEW f, NEW g,
         \A k \in 1..n : f[k] \in Int /\ g[k] \in Int,
         \A k \in 1..n : k # u => g[k] = f[k]
  PROVE  Sum(g, n) = Sum(f, n) - f[u] + g[u]
<1> DEFINE S == {m \in Nat : m <= n =>
                   /\ Sum(f, m) \in Int
                   /\ Sum(g, m) \in Int
                   /\ m < u => Sum(g, m) = Sum(f, m)
                   /\ m >= u => Sum(g, m) = Sum(f, m) - f[u] + g[u]}
<1>1. 0 \in S
  BY SumEmpty
<1>2. ASSUME NEW m \in S PROVE m + 1 \in S
  BY SumNext
<1>3. S \in SUBSET Nat
  OBVIOUS
<1> HIDE DEF S
<1>4. S = Nat
  BY <1>1, <1>2, <1>3, SetInduction
<1>. QED BY <1>4 DEF S

\* A sum grows with its terms.
LEMMA SumMonotone ==
  ASSUME NEW f, NEW g, NEW n \in Nat,
         \A k \in 1..n : f[k] \in Int /\ g[k] \in Int /\ f[k] <= g[k]
  PROVE  Sum(f, n) <= Sum(g, n)
<1> DEFINE S == {m \in Nat : m <= n =>
                   /\ Sum(f, m) \in Int
                   /\ Sum(g, m) \in Int
                   /\ Sum(f, m) <= Sum(g, m)}
<1>1. 0 \in S
  BY SumEmpty
<1>2. ASSUME NEW m \in S PROVE m + 1 \in S
  BY SumNext
<1>3. S \in SUBSET Nat
  OBVIOUS
<1> HIDE DEF S
<1>4. S = Nat
  BY <1>1, <1>2, <1>3, SetInduction
<1>. QED BY <1>4 DEF S

\* The sum of a difference is the difference of the sums.
LEMMA SumMinus ==
  ASSUME NEW f, NEW g, NEW h, NEW n \in Nat,
         \A k \in 1..n : /\ f[k] \in Int /\ g[k] \in Int
                         /\ h[k] = f[k] - g[k]
  PROVE  Sum(h, n) = Sum(f, n) - Sum(g, n)
<1> DEFINE S == {m \in Nat : m <= n =>
                   /\ Sum(f, m) \in Int
                   /\ Sum(g, m) \in Int
                   /\ Sum(h, m) = Sum(f, m) - Sum(g, m)}
<1>1. 0 \in S
  BY SumEmpty
<1>2. ASSUME NEW m \in S PROVE m + 1 \in S
  BY SumNext
<1>3. S \in SUBSET Nat
  OBVIOUS
<1> HIDE DEF S
<1>4. S = Nat
  BY <1>1, <1>2, <1>3, SetInduction
<1>. QED BY <1>4 DEF S

\* Shares: when every x[k] is at most a d/w part of a[k], so are the sums.
LEMMA SumShares ==
  ASSUME NEW x, NEW a, NEW n \in Nat, NEW d \in Nat, NEW w \in Nat,
         \A k \in 1..n : /\ x[k] \in Nat /\ a[k] \in Nat
                         /\ x[k] * w <= a[k] * d
  PROVE  Sum(x, n) * w <= Sum(a, n) * d
<1> DEFINE S == {m \in Nat : m <= n =>
                   /\ Sum(x, m) \in Int
                   /\ Sum(a, m) \in Int
                   /\ Sum(x, m) * w <= Sum(a, m) * d}
<1>1. 0 \in S
  BY SumEmpty
<1>2. ASSUME NEW m \in S PROVE m + 1 \in S
  <2>1. SUFFICES ASSUME m + 1 <= n
                 PROVE  /\ Sum(x, m + 1) \in Int
                        /\ Sum(a, m + 1) \in Int
                        /\ Sum(x, m + 1) * w <= Sum(a, m + 1) * d
    OBVIOUS
  <2>2. /\ Sum(x, m + 1) = Sum(x, m) + x[m + 1]
        /\ Sum(a, m + 1) = Sum(a, m) + a[m + 1]
    BY SumNext
  <2>3. /\ Sum(x, m) \in Int /\ Sum(a, m) \in Int
        /\ Sum(x, m) * w <= Sum(a, m) * d
        /\ x[m + 1] \in Nat /\ a[m + 1] \in Nat
        /\ x[m + 1] * w <= a[m + 1] * d
    BY <2>1
  <2>4. \A p, q, r, s \in Int : p * w <= q * d /\ r * w <= s * d
                               => (p + r) * w <= (q + s) * d
    OBVIOUS
  <2>. QED BY <2>2, <2>3, <2>4
<1>3. S \in SUBSET Nat
  OBVIOUS
<1> HIDE DEF S
<1>4. S = Nat
  BY <1>1, <1>2, <1>3, SetInduction
<1>. QED BY <1>4 DEF S

\* Adding up v over a list of indices, each index counted only where it first
\* occurs, is adding up v over the set of indices listed.
FirstOnly(ids, v, n) ==
  [k \in 1..n |-> IF \E j \in 1..(k - 1) : ids[j] = ids[k] THEN 0
                  ELSE v[ids[k]]]

Listed(ids, v, n, N) ==
  [r \in 1..N |-> IF \E k \in 1..n : ids[k] = r THEN v[r] ELSE 0]

LEMMA SumOfFirsts ==
  ASSUME NEW N \in Nat, NEW n \in Nat, NEW ids, NEW v,
         \A k \in 1..n : ids[k] \in 1..N,
         \A r \in 1..N : v[r] \in Int
  PROVE  Sum(FirstOnly(ids, v, n), n) = Sum(Listed(ids, v, n, N), N)
<1> DEFINE f == [k \in 1..n |->
                   IF \E j \in 1..(k - 1) : ids[j] = ids[k] THEN 0
                   ELSE v[ids[k]]]
           g(m) == [r \in 1..N |->
                      IF \E k \in 1..m : ids[k] = r THEN v[r] ELSE 0]
           S == {m \in Nat : m <= n => Sum(f, m) = Sum(g(m), N)}
<1>1. 0 \in S
  <2> DEFINE zero == [r \in 1..N |-> 0]
  <2>1. g(0) = zero
    OBVIOUS
  <2>2. Sum(zero, N) = 0
    <3> DEFINE Z == {m \in Nat : m <= N => Sum(zero, m) = 0}
    <3>1. 0 \in Z
      BY SumEmpty
    <3>2. ASSUME NEW m \in Z PROVE m + 1 \in Z
      BY SumNext
    <3>3. Z \in SUBSET Nat
      OBVIOUS
    <3> HIDE DEF Z
    <3>4. Z = Nat
      BY <3>1, <3>2, <3>3, SetInduction
    <3>. QED BY <3>4 DEF Z
  <2>. QED BY <2>1, <2>2, SumEmpty
<1>2. ASSUME NEW m \in S PROVE m + 1 \in S
  <2>1. SUFFICES ASSUME m + 1 <= n
                 PROVE  Sum(f, m + 1) = Sum(g(m + 1), N)
    OBVIOUS
  <2>2. Sum(f, m) = Sum(g(m), N) /\ m \in Nat
    BY <2>1
  <2>3. Sum(f, m + 1) = Sum(f, m) + f[m + 1]
    BY SumNext
  <2>4. ids[m + 1] \in 1..N /\ m + 1 \in 1..n
    BY <2>1
  <2>5. \A r \in 1..N : g(m)[r] \in Int /\ g(m + 1)[r] \in Int
    OBVIOUS
  <2>6. CASE \E j \in 1..m : ids[j] = ids[m + 1]
    <3>1. f[m + 1] = 0
      BY <2>4, <2>6
    <3>2. g(m + 1) = g(m)
      <4>1. ASSUME NEW r
            PROVE  (\E k \in 1..(m + 1) : ids[k] = r)
                     <=> (\E k \in 1..m : ids[k] = r)
        <5>1. \A k \in 1..(m + 1) : k \in 1..m \/ k = m + 1
          BY <2>2
        <5>2. \A k \in 1..m : k \in 1..(m + 1)
          BY <2>2
        <5>. QED BY <2>6, <5>1, <5>2
      <4>. QED BY <4>1
    <3>3. Sum(g(m), N) \in Int
      BY <2>5, SumInt
    <3> HIDE DEF f, g
    <3>. QED BY <2>2, <2>3, <3>1, <3>2, <3>3
  <2>7. CASE ~\E j \in 1..m : ids[j] = ids[m + 1]
    <3>1. f[m + 1] = v[ids[m + 1]]
      BY <2>4, <2>7
    <3>2. /\ g(m)[ids[m + 1]] = 0
          /\ g(m + 1)[ids[m + 1]] = v[ids[m + 1]]
      BY <2>2, <2>4, <2>7
    <3>3. \A r \in 1..N : r # ids[m + 1] => g(m + 1)[r] = g(m)[r]
      BY <2>2, <2>4
    <3> HIDE DEF f, g
    <3>4. Sum(g(m + 1), N)
            = Sum(g(m), N) - g(m)[ids[m + 1]] + g(m + 1)[ids[m + 1]]
      BY <2>4, <2>5, <3>3, SumChange
    <3>5. Sum(g(m), N) \in Int /\ v[ids[m + 1]] \in Int
      BY <2>4, <2>5, SumInt
    <3>. QED BY <2>2, <2>3, <3>1, <3>2, <3>4, <3>5
  <2>. QED BY <2>6, <2>7
<1>3. S \in SUBSET Nat
  OBVIOUS
<1> HIDE DEF S
<1>4. S = Nat
  BY <1>1, <1>2, <1>3, SetInduction
<1>5. n \in S
  BY <1>4
<1>6. Sum(f, n) = Sum(g(n), N)
  BY <1>5 DEF S
<1>7. f = FirstOnly(ids, v, n) /\ g(n) = Listed(ids, v, n, N)
  BY DEF FirstOnly, Listed
<1> HIDE DEF f, g
<1>. QED BY <1>6, <1>7

LEMMA SumZero ==
  ASSUME NEW f, NEW n \in Nat, \A k \in 1..n : f[k] = 0
  PROVE  Sum(f, n) = 0
<1>1. \A k \in 1..n : f[k] \in Int /\ f[k] = f[k] - f[k]
  OBVIOUS
<1>2. Sum(f, n) = Sum(f, n) - Sum(f, n)
  BY <1>1, SumMinus
<1>3. Sum(f, n) \in Int
  BY <1>1, SumInt
<1>. QED BY <1>2, <1>3

\* A sum with one term in it.
LEMMA SumOne ==
  ASSUME NEW f, NEW n \in Nat, NEW u \in 1..n, f[u] \in Int,
         \A k \in 1..n : k # u => f[k] = 0
  PROVE  Sum(f, n) = f[u]
<1> DEFINE z == [k \in 1..n |-> 0]
<1>1. \A k \in 1..n : z[k] = 0
  OBVIOUS
<1> HIDE DEF z
<1>2. \A k \in 1..n : z[k] \in Int /\ f[k] \in Int
  BY <1>1
<1>3. \A k \in 1..n : k # u => f[k] = z[k]
  BY <1>1
<1>4. Sum(f, n) = Sum(z, n) - z[u] + f[u]
  BY <1>2, <1>3, SumChange
<1>5. Sum(z, n) = 0
  BY <1>1, SumZero
<1>. QED BY <1>1, <1>4, <1>5

\* Sums of naturals that are equal though no term grows are equal term by term.
LEMMA SumSqueezed ==
  ASSUME NEW f, NEW g, NEW n \in Nat,
         \A k \in 1..n : f[k] \in Nat /\ g[k] \in Nat /\ f[k] <= g[k],
         Sum(f, n) = Sum(g, n)
  PROVE  \A k \in 1..n : f[k] = g[k]
<1> DEFINE h == [k \in 1..n |-> g[k] - f[k]]
<1>1. \A k \in 1..n : h[k] = g[k] - f[k] /\ h[k] \in Nat
  OBVIOUS
<1> HIDE DEF h
<1>2. Sum(h, n) = Sum(g, n) - Sum(f, n)
  BY <1>1, SumMinus
<1>3. Sum(g, n) \in Int
  BY SumInt
<1>4. Sum(h, n) = 0
  BY <1>2, <1>3
<1>5. \A k \in 1..n : h[k] <= 0
  BY <1>1, <1>4, SumNat
<1>. QED BY <1>1, <1>5

LEMMA SumPlus ==
  ASSUME NEW f, NEW g, NEW h, NEW n \in Nat,
         \A k \in 1..n : /\ f[k] \in Int /\ g[k] \in Int
                         /\ h[k] = f[k] + g[k]
  PROVE  Sum(h, n) = Sum(f, n) + Sum(g, n)
<1>1. \A k \in 1..n : h[k] \in Int /\ g[k] \in Int /\ f[k] = h[k] - g[k]
  OBVIOUS
<1>2. Sum(f, n) = Sum(h, n) - Sum(g, n)
  BY <1>1, SumMinus
<1>3. Sum(h, n) \in Int /\ Sum(g, n) \in Int
  BY <1>1, SumInt
<1>. QED BY <1>2, <1>3

\* Adding up ones counts them.
LEMMA SumCount ==
  ASSUME NEW n \in Nat, NEW A \in SUBSET (1..n), NEW f,
         \A k \in 1..n : f[k] = IF k \in A THEN 1 ELSE 0
  PROVE  Sum(f, n) = Cardinality(A)
<1> DEFINE S == {m \in Nat : m <= n => /\ IsFiniteSet(A \cap (1..m))
                                       /\ Sum(f, m) = Cardinality(A \cap (1..m))}
<1>1. 0 \in S
  <2>1. A \cap (1..0) = {}
    OBVIOUS
  <2>. QED BY <2>1, SumEmpty, FS_EmptySet
<1>2. ASSUME NEW m \in S PROVE m + 1 \in S
  <2>1. SUFFICES ASSUME m + 1 <= n
                 PROVE  /\ IsFiniteSet(A \cap (1..(m + 1)))
                        /\ Sum(f, m + 1) = Cardinality(A \cap (1..(m + 1)))
    OBVIOUS
  <2>2. PICK B : B = A \cap (1..m)
    OBVIOUS
  <2>3. /\ m \in Nat /\ IsFiniteSet(B) /\ Sum(f, m) = Cardinality(B)
        /\ Cardinality(B) \in Nat
    BY <2>1, <2>2, FS_CardinalityType
  <2>4. Sum(f, m + 1) = Sum(f, m) + f[m + 1] /\ m + 1 \in 1..n /\ m + 1 \notin B
    BY <2>1, <2>2, <2>3, SumNext
  <2>5. CASE m + 1 \in A
    <3>1. A \cap (1..(m + 1)) = B \cup {m + 1}
      BY <2>2, <2>3, <2>5
    <3>2. /\ IsFiniteSet(B \cup {m + 1})
          /\ Cardinality(B \cup {m + 1}) = Cardinality(B) + 1
      BY <2>3, <2>4, FS_AddElement
    <3>3. f[m + 1] = 1
      BY <2>4, <2>5
    <3>. QED BY <2>3, <2>4, <3>1, <3>2, <3>3
  <2>6. CASE m + 1 \notin A
    <3>1. A \cap (1..(m + 1)) = B
      BY <2>2, <2>3, <2>6
    <3>2. f[m + 1] = 0
      BY <2>4, <2>6
    <3>. QED BY <2>3, <2>4, <3>1, <3>2
  <2>. QED BY <2>5, <2>6
<1>3. S \in SUBSET Nat
  OBVIOUS
<1> HIDE DEF S
<1>4. S = Nat
  BY <1>1, <1>2, <1>3, SetInduction
<1>5. A \cap (1..n) = A
  OBVIOUS
<1>. QED BY <1>4, <1>5 DEF S

=============================================================================
