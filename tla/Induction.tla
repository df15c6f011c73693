------------------------------ MODULE Induction -----------------------------
(***************************************************************************)
(* Induction over the natural numbers, functions defined by recursion over *)
(* them, selections from a sequence, and what is true of a sorted one, of  *)
(* a percentile and of the greatest overlap of intervals (Measures).  The  *)
(* lemmas speak of sets and functions where the library's                  *)
(* NaturalsInduction speaks of operators, so that they can be cited for    *)
(* any predicate P as the set {n \in Nat : P(n)}.                          *)
(***************************************************************************)
EXTENDS Measures, SequenceTheorems, FiniteSetTheorems, WellFoundedInduction, TLAPS

\* Every set of naturals that is not empty has a least element.
LEMMA LeastNatural ==
    ASSUME NEW S, S \subseteq Nat, S # {}
    PROVE  \E m \in S : \A k \in S : m <= k
<1>. DEFINE R == OpToRel(<, Nat)
<1>1. IsWellFoundedOn(R, Nat)
  BY NatLessThanWellFounded
<1>2. \A x, y \in Nat : y < x => <<y, x>> \in R
  BY DEF OpToRel
<1>. HIDE DEF R
<1>3. PICK m \in S : \A k \in S : ~ (<<k, m>> \in R)
  BY <1>1, WFMin
<1>4. \A k \in S : m \in Nat /\ k \in Nat /\ ~ (k < m)
  BY <1>2, <1>3
<1>. QED
  BY <1>4

\* And a greatest, if there is a bound.
LEMMA GreatestNatural ==
    ASSUME NEW n \in Nat, NEW S, S \subseteq 0 .. n, S # {}
    PROVE  \E m \in S : \A k \in S : k <= m
<1>. DEFINE T == {n - k : k \in S}
<1>1. T \subseteq Nat /\ T # {}
  <2>1. \A k \in S : k \in 0 .. n /\ n - k \in Nat
    OBVIOUS
  <2>. QED
    BY <2>1
<1>2. PICK t \in T : \A u \in T : t <= u
  <2>. HIDE DEF T
  <2>. QED
    BY <1>1, LeastNatural
<1>3. PICK m \in S : t = n - m
  OBVIOUS
<1>4. \A k \in S : n - m <= n - k /\ k \in 0 .. n /\ m \in 0 .. n
  BY <1>2, <1>3
<1>. QED
  BY <1>4

\* A set that has 0, and n + 1 with every n, has all naturals.
LEMMA AllNaturals ==
    ASSUME NEW S, 0 \in S, \A n \in Nat : n \in S => n + 1 \in S
    PROVE  \A n \in Nat : n \in S
<1>1. SUFFICES ASSUME Nat \ S # {} PROVE FALSE
  OBVIOUS
<1>2. PICK m \in Nat \ S : \A k \in Nat \ S : m <= k
  BY <1>1, LeastNatural
<1>3. m - 1 \in Nat /\ (m - 1) + 1 = m
  BY <1>2
<1>4. m - 1 \in S
  BY <1>2, <1>3
<1>. QED
  BY <1>2, <1>3, <1>4

\* f is what becomes of z, handed on from each number to the next.
Iterates(f, S, z, next) ==
    f \in [Nat -> S] /\ f[0] = z /\ \A n \in Nat : f[n + 1] = next[f[n]]

\* There is always such a function.
LEMMA Iteration ==
    ASSUME NEW S, NEW z \in S, NEW next \in [S -> S]
    PROVE  \E f : Iterates(f, S, z, next)
<1>. DEFINE
    Upto(n, g) == g[0] = z /\ \A i \in 0 .. n : i < n => g[i + 1] = next[g[i]]
    Begun == {n \in Nat : \E g \in [0 .. n -> S] : Upto(n, g)}
<1>1. \A n \in Nat : \E g \in [0 .. n -> S] : Upto(n, g)
  <2>1. 0 \in Begun
    <3>. DEFINE g == [i \in 0 .. 0 |-> z]
    <3>1. g \in [0 .. 0 -> S] /\ Upto(0, g)
      OBVIOUS
    <3>. QED
      BY <3>1
  <2>2. ASSUME NEW n \in Nat, n \in Begun
        PROVE  n + 1 \in Begun
    <3>1. PICK g \in [0 .. n -> S] : Upto(n, g)
      BY <2>2
    <3>. DEFINE h == [i \in 0 .. n + 1 |-> IF i = n + 1 THEN next[g[n]] ELSE g[i]]
    <3>2. h \in [0 .. n + 1 -> S]
      BY <3>1
    <3>3. h[0] = z
      BY <3>1
    <3>4. ASSUME NEW i \in 0 .. n + 1, i < n + 1
          PROVE  h[i + 1] = next[h[i]]
      <4>1. CASE i = n
        BY <4>1
      <4>2. CASE i < n
        <5>1. i \in 0 .. n /\ i + 1 \in 0 .. n + 1 /\ i + 1 # n + 1 /\ i # n + 1
          BY <4>2
        <5>2. h[i] = g[i] /\ h[i + 1] = g[i + 1]
          BY <5>1
        <5>. QED
          BY <5>1, <5>2, <4>2, <3>1
      <4>. QED
        BY <3>4, <4>1, <4>2
    <3>5. Upto(n + 1, h)
      BY <3>3, <3>4
    <3>. QED
      BY <3>2, <3>5
  <2>. HIDE DEF Begun
  <2>3. \A n \in Nat : n \in Begun
    BY <2>1, <2>2, AllNaturals
  <2>. QED
    BY <2>3 DEF Begun
<1>2. ASSUME NEW n \in Nat, NEW g \in [0 .. n -> S], Upto(n, g),
             NEW h \in [0 .. n + 1 -> S], Upto(n + 1, h)
      PROVE  g[n] = h[n]
  <2>. DEFINE Same == {i \in Nat : i <= n => g[i] = h[i]}
  <2>1. 0 \in Same
    BY <1>2
  <2>2. ASSUME NEW i \in Nat, i \in Same, i + 1 <= n
        PROVE  g[i + 1] = h[i + 1]
    <3>1. i \in 0 .. n /\ i < n /\ i \in 0 .. n + 1 /\ i < n + 1 /\ g[i] = h[i]
      BY <2>2
    <3>. QED
      BY <1>2, <3>1
  <2>3. \A i \in Nat : i \in Same => i + 1 \in Same
    BY <2>2
  <2>. HIDE DEF Same
  <2>4. n \in Same
    BY <2>1, <2>3, AllNaturals
  <2>. QED
    BY <2>4 DEF Same
<1>. DEFINE
    G(n) == CHOOSE g \in [0 .. n -> S] : Upto(n, g)
    f == [n \in Nat |-> G(n)[n]]
<1>3. \A n \in Nat : G(n) \in [0 .. n -> S] /\ Upto(n, G(n))
  BY <1>1
<1>. HIDE DEF G
<1>4. f \in [Nat -> S]
  BY <1>3
<1>5. f[0] = z
  BY <1>3
<1>6. ASSUME NEW n \in Nat
      PROVE  f[n + 1] = next[f[n]]
  <2>1. G(n) \in [0 .. n -> S] /\ Upto(n, G(n))
    BY <1>3
  <2>2. G(n + 1) \in [0 .. n + 1 -> S] /\ Upto(n + 1, G(n + 1))
    BY <1>3
  <2>3. G(n + 1)[n + 1] = next[G(n + 1)[n]]
    BY <2>2
  <2>. HIDE DEF Upto
  <2>4. G(n)[n] = G(n + 1)[n]
    BY <1>2, <2>1, <2>2
  <2>. QED
    BY <2>3, <2>4
<1>7. Iterates(f, S, z, next)
  BY <1>4, <1>5, <1>6 DEF Iterates
<1>. HIDE DEF f
<1>. QED
  BY <1>7

\* The same, where each number has a say in what is handed on.
IndexedIterates(f, S, z, next) ==
    f \in [Nat -> S] /\ f[0] = z /\ \A n \in Nat : f[n + 1] = next[<<n, f[n]>>]

LEMMA IndexedIteration ==
    ASSUME NEW S, NEW z \in S, NEW next \in [Nat \X S -> S]
    PROVE  \E f : IndexedIterates(f, S, z, next)
<1>. DEFINE
    P == Nat \X S
    start == <<0, z>>
    step == [p \in P |-> <<p[1] + 1, next[p]>>]
<1>1. start \in P /\ step \in [P -> P]
  OBVIOUS
<1>2. PICK g : Iterates(g, P, start, step)
  <2>. HIDE DEF P, start, step
  <2>. QED
    BY <1>1, Iteration
<1>3. g \in [Nat -> P] /\ g[0] = start /\ \A n \in Nat : g[n + 1] = step[g[n]]
  BY <1>2 DEF Iterates
<1>. DEFINE Numbered == {n \in Nat : g[n][1] = n}
<1>4. \A n \in Nat : n \in Numbered
  <2>1. 0 \in Numbered
    BY <1>3
  <2>2. ASSUME NEW n \in Nat, n \in Numbered
        PROVE  n + 1 \in Numbered
    <3>1. g[n] \in P /\ g[n + 1] = step[g[n]]
      BY <1>3
    <3>2. g[n + 1][1] = g[n][1] + 1
      BY <3>1
    <3>. QED
      BY <2>2, <3>2
  <2>. HIDE DEF Numbered
  <2>. QED
    BY <2>1, <2>2, AllNaturals
<1>. DEFINE f == [n \in Nat |-> g[n][2]]
<1>5. f \in [Nat -> S] /\ f[0] = z
  BY <1>3
<1>6. ASSUME NEW n \in Nat
      PROVE  f[n + 1] = next[<<n, f[n]>>]
  <2>1. g[n] \in P /\ g[n][1] = n
    BY <1>3, <1>4
  <2>2. g[n] = <<n, f[n]>>
    BY <2>1
  <2>3. g[n + 1] = step[g[n]]
    BY <1>3
  <2>. QED
    BY <2>1, <2>2, <2>3
<1>7. IndexedIterates(f, S, z, next)
  BY <1>5, <1>6 DEF IndexedIterates
<1>. HIDE DEF f
<1>. QED
  BY <1>7

-----------------------------------------------------------------------------
\* Selections from a sequence.
\* What is kept of the first n elements of s, for every n.
KeptUpTo(s, I, upTo) ==
    upTo = [n \in 0 .. Len(s) |->
              IF n = 0 THEN <<>>
              ELSE IF n \in I THEN Append(upTo[n - 1], s[n]) ELSE upTo[n - 1]]

LEMMA KeptStepwise ==
    ASSUME NEW A, NEW s \in Seq(A), NEW I
    PROVE  \E upTo : KeptUpTo(s, I, upTo) /\ Kept(s, I) = upTo[Len(s)]
<1>. DEFINE
    M == Len(s)
    next == [p \in Nat \X Seq(A) |->
               IF p[1] + 1 \in 1 .. M /\ p[1] + 1 \in I THEN Append(p[2], s[p[1] + 1]) ELSE p[2]]
<1>1. M \in Nat /\ \A i \in 1 .. M : s[i] \in A
  BY LenProperties
<1>2. next \in [Nat \X Seq(A) -> Seq(A)]
  <2>1. ASSUME NEW n \in Nat, NEW t \in Seq(A)
        PROVE  (IF n + 1 \in 1 .. M /\ n + 1 \in I THEN Append(t, s[n + 1]) ELSE t) \in Seq(A)
    BY <1>1, AppendProperties
  <2>. QED
    BY <2>1
<1>3. <<>> \in Seq(A)
  OBVIOUS
<1>4. PICK f : IndexedIterates(f, Seq(A), <<>>, next)
  <2>. HIDE DEF next
  <2>. QED
    BY <1>2, <1>3, IndexedIteration
<1>5. f \in [Nat -> Seq(A)] /\ f[0] = <<>> /\ \A n \in Nat : f[n + 1] = next[<<n, f[n]>>]
  BY <1>4 DEF IndexedIterates
<1>. DEFINE g == [n \in 0 .. M |-> f[n]]
<1>6. KeptUpTo(s, I, g)
  <2>1. ASSUME NEW n \in 0 .. M
        PROVE  g[n] = IF n = 0 THEN <<>>
                      ELSE IF n \in I THEN Append(g[n - 1], s[n]) ELSE g[n - 1]
    <3>1. CASE n = 0
      BY <1>1, <1>5, <3>1
    <3>2. CASE n # 0
      <4>1. n - 1 \in Nat /\ n - 1 \in 0 .. M /\ (n - 1) + 1 = n /\ n \in 1 .. M
        BY <1>1, <3>2
      <4>2. g[n] = f[n] /\ g[n - 1] = f[n - 1] /\ f[n - 1] \in Seq(A)
        BY <1>5, <4>1
      <4>3. f[n] = next[<<n - 1, f[n - 1]>>]
        BY <1>5, <4>1
      <4>4. next[<<n - 1, f[n - 1]>>] = IF n \in I THEN Append(f[n - 1], s[n]) ELSE f[n - 1]
        BY <4>1, <4>2
      <4>. QED
        BY <3>2, <4>2, <4>3, <4>4
    <3>. QED
      BY <3>1, <3>2
  <2>2. g = [n \in 0 .. M |-> g[n]]
    OBVIOUS
  <2>. HIDE DEF g
  <2>. QED
    BY <2>1, <2>2 DEF KeptUpTo
<1>. DEFINE h == CHOOSE upTo : KeptUpTo(s, I, upTo)
<1>7. KeptUpTo(s, I, h)
  <2>. HIDE DEF g
  <2>. QED
    BY <1>6
<1>8. Kept(s, I) = h[M]
  BY DEF Kept, KeptUpTo
<1>. HIDE DEF h
<1>. QED
  BY <1>7, <1>8

\* p tells where in s each element of t is: at the positions in I, in their order.
Picks(p, t, s, I) ==
    /\ p \in [1 .. Len(t) -> I]
    /\ \A k \in 1 .. Len(t) : t[k] = s[p[k]]
    /\ \A k, l \in 1 .. Len(t) : k < l => p[k] < p[l]
    /\ \A i \in I : \E k \in 1 .. Len(t) : p[k] = i

\* One position more, behind the others.
LEMMA PicksOneMore ==
    ASSUME NEW A, NEW s \in Seq(A), NEW t \in Seq(A), NEW n \in Nat, NEW I \in SUBSET (1 .. n),
           n + 1 \in 1 .. Len(s), NEW p, Picks(p, t, s, I)
    PROVE  \E q : Picks(q, Append(t, s[n + 1]), s, I \cup {n + 1})
<1>. DEFINE
    u == Append(t, s[n + 1])
    L == Len(t)
    q == [k \in 1 .. L + 1 |-> IF k = L + 1 THEN n + 1 ELSE p[k]]
<1>1. /\ s[n + 1] \in A /\ L \in Nat /\ Len(u) = L + 1
      /\ \A k \in 1 .. L : u[k] = t[k]
      /\ u[L + 1] = s[n + 1]
  BY AppendProperties, LenProperties
<1>2. \A k \in 1 .. L + 1 : k = L + 1 \/ (k \in 1 .. L /\ k # L + 1)
  BY <1>1
<1>3. /\ p \in [1 .. L -> I] /\ \A k \in 1 .. L : t[k] = s[p[k]]
      /\ \A k, l \in 1 .. L : k < l => p[k] < p[l]
      /\ \A i \in I : \E k \in 1 .. L : p[k] = i
  BY DEF Picks
<1>4. \A i \in I : i < n + 1
  OBVIOUS
<1>5. L + 1 \in 1 .. L + 1 /\ q[L + 1] = n + 1 /\ \A k \in 1 .. L : k \in 1 .. L + 1 /\ q[k] = p[k]
  BY <1>1
<1>6. q \in [1 .. L + 1 -> I \cup {n + 1}]
  BY <1>2, <1>3
<1>. HIDE DEF q, u
<1>7. \A k \in 1 .. L + 1 : u[k] = s[q[k]]
  BY <1>1, <1>2, <1>3, <1>5
<1>8. ASSUME NEW k \in 1 .. L + 1, NEW l \in 1 .. L + 1, k < l
      PROVE  q[k] < q[l]
  <2>1. k \in 1 .. L
    BY <1>1, <1>8
  <2>2. q[k] = p[k] /\ p[k] \in I
    BY <1>3, <1>5, <2>1
  <2>3. p[k] < n + 1
    BY <1>4, <2>2
  <2>. QED
    BY <1>2, <1>3, <1>5, <1>8, <2>1, <2>2, <2>3
<1>9. \A i \in I \cup {n + 1} : \E k \in 1 .. L + 1 : q[k] = i
  BY <1>3, <1>5
<1>10. Picks(q, u, s, I \cup {n + 1})
  BY <1>1, <1>6, <1>7, <1>8, <1>9 DEF Picks
<1>. QED
  BY <1>10 DEF u

\* What is kept is what is at these positions, in their order.
LEMMA KeptElements ==
    ASSUME NEW A, NEW s \in Seq(A), NEW I \in SUBSET (1 .. Len(s))
    PROVE  Kept(s, I) \in Seq(A) /\ \E p : Picks(p, Kept(s, I), s, I)
<1>. DEFINE M == Len(s)
<1>1. M \in Nat /\ \A i \in 1 .. M : s[i] \in A
  BY LenProperties
<1>2. PICK upTo : KeptUpTo(s, I, upTo) /\ Kept(s, I) = upTo[M]
  BY KeptStepwise
<1>3. upTo[0] = <<>> /\ \A n \in 1 .. M :
          upTo[n] = IF n \in I THEN Append(upTo[n - 1], s[n]) ELSE upTo[n - 1]
  <2>1. \A n \in 0 .. M :
            upTo[n] = IF n = 0 THEN <<>>
                      ELSE IF n \in I THEN Append(upTo[n - 1], s[n]) ELSE upTo[n - 1]
    BY <1>2, Zenon DEF KeptUpTo
  <2>2. 0 \in 0 .. M /\ \A n \in 1 .. M : n \in 0 .. M /\ n # 0
    BY <1>1
  <2>. QED
    BY <2>1, <2>2
<1>. DEFINE
    Good(n) == upTo[n] \in Seq(A) /\ \E p : Picks(p, upTo[n], s, I \cap 1 .. n)
    AllGood == {n \in Nat : n <= M => Good(n)}
<1>4. 0 \in AllGood
  <2>1. <<>> \in Seq(A) /\ Len(<<>>) = 0 /\ 1 .. 0 = {} /\ I \cap 1 .. 0 = {}
    OBVIOUS
  <2>2. Picks(<<>>, <<>>, s, I \cap 1 .. 0)
    BY <2>1 DEF Picks
  <2>. QED
    BY <1>3, <2>1, <2>2
<1>5. ASSUME NEW n \in Nat, n \in AllGood, n + 1 <= M
      PROVE  Good(n + 1)
  <2>1. Good(n)
    <3>1. n <= M
      BY <1>1, <1>5
    <3>. HIDE DEF Good
    <3>. QED
      BY <1>5, <3>1
  <2>2. n + 1 \in 1 .. M /\ (n + 1) - 1 = n /\ s[n + 1] \in A
    BY <1>1, <1>5
  <2>3. upTo[n + 1] = IF n + 1 \in I THEN Append(upTo[n], s[n + 1]) ELSE upTo[n]
    BY <1>3, <2>2
  <2>4. 1 .. n + 1 = 1 .. n \cup {n + 1}
    OBVIOUS
  <2>5. PICK p : Picks(p, upTo[n], s, I \cap 1 .. n)
    BY <2>1
  <2>6. CASE n + 1 \in I
    <3>1. I \cap 1 .. n + 1 = (I \cap 1 .. n) \cup {n + 1}
      BY <2>4, <2>6
    <3>2. \E q : Picks(q, Append(upTo[n], s[n + 1]), s, (I \cap 1 .. n) \cup {n + 1})
      BY <2>1, <2>2, <2>5, PicksOneMore
    <3>3. Append(upTo[n], s[n + 1]) \in Seq(A)
      BY <2>1, <2>2, AppendProperties
    <3>. QED
      BY <2>3, <2>6, <3>1, <3>2, <3>3
  <2>7. CASE n + 1 \notin I
    <3>1. I \cap 1 .. n + 1 = I \cap 1 .. n
      BY <2>4, <2>7
    <3>. QED
      BY <2>1, <2>3, <2>7, <3>1
  <2>. QED
    BY <2>6, <2>7
<1>6. \A n \in Nat : n \in AllGood => n + 1 \in AllGood
  <2>1. \A n \in Nat : n + 1 \in Nat
    OBVIOUS
  <2>. HIDE DEF Good
  <2>. QED
    BY <1>5, <2>1
<1>7. M \in AllGood
  <2>. HIDE DEF AllGood
  <2>. QED
    BY <1>1, <1>4, <1>6, AllNaturals
<1>8. I \cap 1 .. M = I
  OBVIOUS
<1>9. Good(M)
  <2>. HIDE DEF Good
  <2>. QED
    BY <1>1, <1>7
<1>. QED
  BY <1>2, <1>8, <1>9

-----------------------------------------------------------------------------
\* What is sorted.

\* A set of positions, and a smaller one.
LEMMA PositionsFinite ==
    ASSUME NEW n \in Nat, NEW T \in SUBSET (1 .. n), NEW S \in SUBSET T
    PROVE  /\ IsFiniteSet(T) /\ Cardinality(T) \in 0 .. n
           /\ IsFiniteSet(S) /\ Cardinality(S) \in Nat /\ Cardinality(S) <= Cardinality(T)
           /\ Cardinality(S) = Cardinality(T) => S = T
<1>1. IsFiniteSet(1 .. n) /\ Cardinality(1 .. n) = n
  BY FS_Interval
<1>2. IsFiniteSet(T) /\ Cardinality(T) <= n
  BY <1>1, FS_Subset
<1>3. /\ IsFiniteSet(S) /\ Cardinality(S) <= Cardinality(T)
      /\ Cardinality(T) = Cardinality(S) => T = S
  BY <1>2, FS_Subset
<1>4. Cardinality(T) \in Nat /\ Cardinality(S) \in Nat
  BY <1>2, <1>3, FS_CardinalityType
<1>. QED
  BY <1>2, <1>3, <1>4

\* Two sets whose elements correspond.
LEMMA EquallyMany ==
    ASSUME NEW S, NEW T, NEW f \in [S -> T], IsFiniteSet(S),
           \A x, y \in S : f[x] = f[y] => x = y,
           \A y \in T : \E x \in S : f[x] = y
    PROVE  IsFiniteSet(T) /\ Cardinality(T) = Cardinality(S) /\ Cardinality(S) \in Nat
<1>1. f \in Bijection(S, T)
  BY DEF Bijection, Injection, Surjection, IsInjective
<1>2. ExistsBijection(S, T)
  BY <1>1 DEF ExistsBijection
<1>. QED
  BY <1>2, FS_Bijection, FS_CardinalityType

\* A map of 1 .. n to itself that takes no value twice takes them all.
LEMMA TakesAll ==
    ASSUME NEW n \in Nat, NEW f \in [1 .. n -> 1 .. n],
           \A i, j \in 1 .. n : f[i] = f[j] => i = j
    PROVE  \A k \in 1 .. n : \E i \in 1 .. n : f[i] = k
<1>1. IsFiniteSet(1 .. n)
  BY FS_Interval
<1>2. f \in Injection(1 .. n, 1 .. n)
  BY DEF Injection, IsInjective
<1>3. f \in Surjection(1 .. n, 1 .. n)
  BY <1>1, <1>2, FS_Injection
<1>. QED
  BY <1>3 DEF Surjection

\* down[i] are i and the positions in front of it, all in one line.
InLine(down, n) ==
    /\ down \in [1 .. n -> SUBSET (1 .. n)]
    /\ \A i \in 1 .. n : i \in down[i]
    /\ \A i, j \in 1 .. n : j \in down[i] => down[j] \subseteq down[i]
    /\ \A i, j \in 1 .. n : j \in down[i] /\ j # i => i \notin down[j]
    /\ \A i, j \in 1 .. n : j \in down[i] \/ i \in down[j]

\* How many these are.
Places(down, n) == [i \in 1 .. n |-> Cardinality(down[i])]

\* Counting those in front gives each a place of its own.
LEMMA PlacesFacts ==
    ASSUME NEW n \in Nat, NEW down, InLine(down, n)
    PROVE  LET place == Places(down, n) IN
           /\ place \in [1 .. n -> 1 .. n]
           /\ \A i, j \in 1 .. n : j \in down[i] /\ j # i => place[j] < place[i]
           /\ \A i, j \in 1 .. n : place[i] = place[j] => i = j
           /\ \A k \in 1 .. n : \E i \in 1 .. n : place[i] = k
<1>. DEFINE place == Places(down, n)
<1>1. ASSUME NEW i \in 1 .. n
      PROVE  place[i] \in 1 .. n
  <2>1. down[i] \in SUBSET (1 .. n) /\ i \in down[i] /\ place[i] = Cardinality(down[i])
    BY DEF InLine, Places
  <2>2. IsFiniteSet(down[i]) /\ Cardinality(down[i]) \in 0 .. n
    BY <2>1, PositionsFinite
  <2>3. Cardinality(down[i]) # 0
    BY <2>1, <2>2, FS_EmptySet
  <2>. QED
    BY <2>1, <2>2, <2>3
<1>2. ASSUME NEW i \in 1 .. n, NEW j \in 1 .. n, j \in down[i], j # i
      PROVE  place[j] < place[i]
  <2>1. /\ down[i] \in SUBSET (1 .. n) /\ down[j] \in SUBSET down[i]
        /\ i \in down[i] /\ i \notin down[j]
    BY <1>2 DEF InLine
  <2>2. /\ Cardinality(down[j]) \in Nat /\ Cardinality(down[i]) \in Nat
        /\ Cardinality(down[j]) <= Cardinality(down[i])
        /\ Cardinality(down[j]) # Cardinality(down[i])
        /\ place[i] = Cardinality(down[i]) /\ place[j] = Cardinality(down[j])
    <3>1. place[i] = Cardinality(down[i]) /\ place[j] = Cardinality(down[j])
      BY DEF Places
    <3>. QED
      BY <2>1, <3>1, PositionsFinite
  <2>. QED
    BY <2>2
<1>3. ASSUME NEW i \in 1 .. n, NEW j \in 1 .. n, place[i] = place[j]
      PROVE  i = j
  <2>1. j \in down[i] \/ i \in down[j]
    BY DEF InLine
  <2>2. place[i] \in Nat /\ ~ (place[i] < place[j]) /\ ~ (place[j] < place[i])
    BY <1>1, <1>3
  <2>. QED
    BY <1>2, <2>1, <2>2
<1>4. place \in [1 .. n -> 1 .. n]
  <2>1. place = [i \in 1 .. n |-> place[i]]
    BY DEF Places
  <2>. QED
    BY <1>1, <2>1
<1>5. \A k \in 1 .. n : \E i \in 1 .. n : place[i] = k
  BY <1>3, <1>4, TakesAll
<1>. QED
  BY <1>2, <1>3, <1>4, <1>5

\* Those at these places, one after the other, are in line.
LEMMA ArrangedFacts ==
    ASSUME NEW n \in Nat, NEW down, InLine(down, n), NEW q,
           \A k \in 1 .. n : (\E i \in 1 .. n : Places(down, n)[i] = k)
                              => q[k] \in 1 .. n /\ Places(down, n)[q[k]] = k
    PROVE  /\ \A k \in 1 .. n : q[k] \in 1 .. n
           /\ \A k, l \in 1 .. n : q[k] = q[l] => k = l
           /\ \A i \in 1 .. n : \E k \in 1 .. n : q[k] = i
           /\ \A k, l \in 1 .. n : k < l => q[k] \in down[q[l]]
<1>. DEFINE place == Places(down, n)
<1>1. /\ place \in [1 .. n -> 1 .. n]
      /\ \A i, j \in 1 .. n : j \in down[i] /\ j # i => place[j] < place[i]
      /\ \A i, j \in 1 .. n : place[i] = place[j] => i = j
      /\ \A k \in 1 .. n : \E i \in 1 .. n : place[i] = k
  BY PlacesFacts
<1>2. \A k \in 1 .. n : q[k] \in 1 .. n /\ place[q[k]] = k
  BY <1>1
<1>. HIDE DEF place
<1>3. ASSUME NEW k \in 1 .. n, NEW l \in 1 .. n, q[k] = q[l]
      PROVE  k = l
  <2>1. place[q[k]] = k /\ place[q[l]] = l
    BY <1>2
  <2>. QED
    BY <1>3, <2>1
<1>4. ASSUME NEW i \in 1 .. n PROVE \E k \in 1 .. n : q[k] = i
  <2>1. place[i] \in 1 .. n
    BY <1>1
  <2>2. place[q[place[i]]] = place[i] /\ q[place[i]] \in 1 .. n
    BY <1>2, <2>1
  <2>. QED
    BY <1>1, <2>1, <2>2
<1>5. ASSUME NEW k \in 1 .. n, NEW l \in 1 .. n, k < l
      PROVE  q[k] \in down[q[l]]
  <2>1. place[q[k]] = k /\ place[q[l]] = l /\ q[k] \in 1 .. n /\ q[l] \in 1 .. n
    BY <1>2
  <2>2. q[k] \in down[q[l]] \/ q[l] \in down[q[k]]
    BY <2>1 DEF InLine
  <2>3. ~ (place[q[l]] < place[q[k]]) /\ q[k] # q[l]
    BY <1>5, <2>1
  <2>. QED
    BY <1>1, <2>1, <2>2, <2>3
<1>. QED
  BY <1>2, <1>3, <1>4, <1>5

\* t has the elements of s in the order of their numbers, and no others.
InOrderOf(t, s, numbers) ==
    /\ Len(t) = Len(s)
    /\ \E q : /\ \A k \in 1 .. Len(s) : q[k] \in 1 .. Len(s) /\ t[k] = s[q[k]]
              /\ \A k, l \in 1 .. Len(s) : q[k] = q[l] => k = l
              /\ \A i \in 1 .. Len(s) : \E k \in 1 .. Len(s) : q[k] = i
              /\ \A k, l \in 1 .. Len(s) : k < l => numbers[q[k]] <= numbers[q[l]]

\* The elements of s at these places.
Laid(place, s) == [k \in DOMAIN s |-> s[CHOOSE i \in DOMAIN s : place[i] = k]]

\* t is what Sorted makes of s if what is less is what has the lower number.
SortedBy(t, s, numbers) ==
    t = Laid([i \in DOMAIN s |-> Cardinality({j \in DOMAIN s :
                  numbers[j] < numbers[i] \/ (~ (numbers[i] < numbers[j]) /\ j <= i)})], s)

\* If what is less is what has the lower number, that is what sorting does.
LEMMA SortedFacts ==
    ASSUME NEW A, NEW s \in Seq(A), NEW numbers \in [1 .. Len(s) -> Int],
           NEW t, SortedBy(t, s, numbers)
    PROVE  t \in Seq(A) /\ InOrderOf(t, s, numbers)
<1>. DEFINE
    n == Len(s)
    down == [i \in 1 .. n |-> {j \in 1 .. n : 
                numbers[j] < numbers[i] \/ (~ (numbers[i] < numbers[j]) /\ j <= i)}]
<1>1. /\ n \in Nat /\ DOMAIN s = 1 .. n /\ \A i \in 1 .. n : s[i] \in A
      /\ numbers \in [1 .. n -> Int] /\ n = Len(s)
  BY LenProperties
<1>. DEFINE
    place == [i \in 1 .. n |-> Cardinality({j \in 1 .. n :
                 numbers[j] < numbers[i] \/ (~ (numbers[i] < numbers[j]) /\ j <= i)})]
<1>2. place = Places(down, n)
  BY <1>1 DEF Places
<1>. HIDE DEF n
<1>3. InLine(down, n)
  BY <1>1 DEF InLine
<1>. DEFINE At(k) == CHOOSE i \in 1 .. n : place[i] = k
<1>4. ASSUME NEW k \in 1 .. n, \E i \in 1 .. n : place[i] = k
      PROVE  At(k) \in 1 .. n /\ place[At(k)] = k
  BY <1>4
<1>5. t = [k \in 1 .. n |-> s[At(k)]]
  BY <1>1 DEF SortedBy, Laid
<1>. HIDE DEF At, down, place
<1>. DEFINE q == [k \in 1 .. n |-> At(k)]
<1>6. \A k \in 1 .. n : q[k] = At(k) /\ t[k] = s[At(k)]
  BY <1>5
<1>. HIDE DEF q
<1>7. \A k \in 1 .. n : (\E i \in 1 .. n : Places(down, n)[i] = k)
                          => q[k] \in 1 .. n /\ Places(down, n)[q[k]] = k
  BY <1>2, <1>4, <1>6
<1>8. /\ \A k \in 1 .. n : q[k] \in 1 .. n
      /\ \A k, l \in 1 .. n : q[k] = q[l] => k = l
      /\ \A i \in 1 .. n : \E k \in 1 .. n : q[k] = i
      /\ \A k, l \in 1 .. n : k < l => q[k] \in down[q[l]]
  BY <1>1, <1>3, <1>7, ArrangedFacts
<1>9. ASSUME NEW k \in 1 .. n, NEW l \in 1 .. n, k < l
      PROVE  numbers[q[k]] <= numbers[q[l]]
  <2>1. q[k] \in down[q[l]] /\ q[k] \in 1 .. n /\ q[l] \in 1 .. n
    BY <1>8, <1>9
  <2>2. numbers[q[k]] \in Int /\ numbers[q[l]] \in Int
    BY <1>1, <2>1
  <2>. QED
    BY <2>1, <2>2 DEF down
<1>10. t \in Seq(A) /\ Len(t) = n
  <2>1. \A k \in 1 .. n : s[At(k)] \in A
    BY <1>1, <1>6, <1>8
  <2>. QED
    BY <1>1, <1>5, <2>1, IsASeq
<1>11. /\ \A k \in 1 .. n : q[k] \in 1 .. n /\ t[k] = s[q[k]]
       /\ \A k, l \in 1 .. n : k < l => numbers[q[k]] <= numbers[q[l]]
  BY <1>6, <1>8, <1>9
<1>. QED
  BY <1>1, <1>8, <1>10, <1>11 DEF InOrderOf

\* Numbers in ascending order.
LEMMA SortedNumbers ==
    ASSUME NEW s \in Seq(Int)
    PROVE  Sorted(s, <) \in Seq(Int) /\ InOrderOf(Sorted(s, <), s, s)
<1>1. SortedBy(Sorted(s, <), s, s)
  BY DEF SortedBy, Laid, Sorted
<1>2. s \in [1 .. Len(s) -> Int]
  BY LenProperties
<1>. QED
  BY <1>1, <1>2, SortedFacts

Boundary == [at : Int, delta : {1, -1}]

\* A number that is lower for what comes first.
Key(b) == 2 * b.at + (IF b.delta = 1 THEN 1 ELSE 0)

\* Boundaries in the order of time, ends before starts.
LEMMA SortedBoundaries ==
    ASSUME NEW s \in Seq(Boundary)
    PROVE  /\ Sorted(s, Before) \in Seq(Boundary)
           /\ InOrderOf(Sorted(s, Before), s, [i \in 1 .. Len(s) |-> Key(s[i])])
<1>. DEFINE
    keys == [i \in 1 .. Len(s) |-> Key(s[i])]
    First(i) == {j \in DOMAIN s : Before(s[j], s[i]) \/ (~ Before(s[i], s[j]) /\ j <= i)}
    Lower(i) == {j \in DOMAIN s : keys[j] < keys[i] \/ (~ (keys[i] < keys[j]) /\ j <= i)}
<1>1. DOMAIN s = 1 .. Len(s) /\ \A i \in 1 .. Len(s) : s[i] \in Boundary
  BY LenProperties
<1>2. \A a, b \in Boundary : Key(a) \in Int /\ (Before(a, b) <=> Key(a) < Key(b))
  BY DEF Boundary, Key, Before
<1>3. keys \in [1 .. Len(s) -> Int]
  BY <1>1, <1>2
<1>4. ASSUME NEW i \in DOMAIN s
      PROVE  First(i) = Lower(i)
  <2>1. \A j \in DOMAIN s : /\ Before(s[j], s[i]) <=> keys[j] < keys[i]
                            /\ Before(s[i], s[j]) <=> keys[i] < keys[j]
    BY <1>1, <1>2
  <2>. HIDE DEF keys
  <2>. QED
    BY <2>1
<1>5. Sorted(s, Before) = Laid([i \in DOMAIN s |-> Cardinality(First(i))], s)
  BY DEF Sorted, Laid
<1>. HIDE DEF First
<1>6. [i \in DOMAIN s |-> Cardinality(First(i))] = [i \in DOMAIN s |-> Cardinality(Lower(i))]
  <2>. HIDE DEF Lower
  <2>. QED
    BY <1>4
<1>. HIDE DEF Lower
<1>7. Sorted(s, Before) = Laid([i \in DOMAIN s |-> Cardinality(Lower(i))], s)
  BY <1>5, <1>6
<1>. HIDE DEF keys
<1>8. SortedBy(Sorted(s, Before), s, keys)
  BY <1>7 DEF SortedBy, Lower
<1>9. Sorted(s, Before) \in Seq(Boundary) /\ InOrderOf(Sorted(s, Before), s, keys)
  BY <1>3, <1>8, SortedFacts
<1>. QED
  BY <1>9 DEF keys

\* What is in the set and exceeded by nothing in it is its greatest number.
LEMMA MaxIs ==
    ASSUME NEW S \in SUBSET Int, NEW m \in S, \A k \in S : k <= m
    PROVE  Max(S) = m
<1>1. /\ Max(S) \in S /\ \A k \in S : Max(S) >= k
  <2>1. \A k \in S : m >= k
    OBVIOUS
  <2>. QED
    BY <2>1 DEF Max
<1>2. Max(S) \in Int /\ m \in Int /\ Max(S) >= m /\ Max(S) <= m
  BY <1>1
<1>. QED
  BY <1>2

\* The rank of a percentile.
LEMMA RankFacts ==
    ASSUME NEW n \in Nat \ {0}, NEW ratio \in 1 .. 100
    PROVE  /\ Rank(n, ratio) \in 1 .. n
           /\ ratio * n <= 100 * Rank(n, ratio)
           /\ 100 * Rank(n, ratio) < ratio * n + 100
<1>. DEFINE m == ratio * n
<1>1. m \in Nat /\ 1 <= m /\ m <= 100 * n
  OBVIOUS
<1>2. Rank(n, ratio) = IF m <= 100 THEN 1 ELSE (m + 99) \div 100
  <2>1. m + 100 - 1 = m + 99
    BY <1>1
  <2>. HIDE DEF m
  <2>2. Rank(n, ratio) = IF m <= 100 THEN 1 ELSE (m + 100 - 1) \div 100
    BY DEF Rank, CeilDiv, m
  <2>. QED
    BY <2>1, <2>2
<1>. HIDE DEF m
<1>3. ASSUME NEW r, r = Rank(n, ratio)
      PROVE  r \in 1 .. n /\ m <= 100 * r /\ 100 * r < m + 100
  <2>1. CASE m <= 100
    BY <1>1, <1>2, <1>3, <2>1
  <2>2. CASE m > 100
    <3>1. r = (m + 99) \div 100
      BY <1>1, <1>2, <1>3, <2>2
    <3>2. r \in Int /\ 100 * r <= m + 99 /\ m + 99 < 100 * r + 100
      BY <1>1, <3>1
    <3>. QED
      BY <1>1, <2>2, <3>2
  <2>. QED
    BY <1>1, <2>1, <2>2
<1>. QED
  BY <1>3 DEF m

\* No more than the rest are greater than a percentile, and with those that equal it
\* they are more than the rest.
LEMMA PercentileFacts ==
    ASSUME NEW s \in Seq(Int), s # <<>>, NEW ratio \in 1 .. 100
    PROVE  LET v == Percentile(s, ratio) IN
           /\ v \in Int
           /\ 100 * Cardinality({i \in 1 .. Len(s) : s[i] > v}) <= (100 - ratio) * Len(s)
           /\ 100 * Cardinality({i \in 1 .. Len(s) : s[i] >= v}) > (100 - ratio) * Len(s)
<1>. DEFINE
    n == Len(s)
    t == Sorted(s, <)
    r == Rank(n, ratio)
    v == Percentile(s, ratio)
    Above == {i \in 1 .. n : s[i] > v}
    Least == {i \in 1 .. n : s[i] >= v}
<1>1. n \in Nat /\ n # 0 /\ \A i \in 1 .. n : s[i] \in Int
  BY LenProperties, EmptySeq
<1>2. /\ r \in 1 .. n /\ ratio * n <= 100 * r /\ 100 * r < ratio * n + 100
  BY <1>1, RankFacts
<1>3. t \in Seq(Int) /\ InOrderOf(t, s, s)
  BY SortedNumbers
<1>4. PICK q : /\ \A k \in 1 .. n : q[k] \in 1 .. n /\ t[k] = s[q[k]]
               /\ \A k, l \in 1 .. n : q[k] = q[l] => k = l
               /\ \A i \in 1 .. n : \E k \in 1 .. n : q[k] = i
               /\ \A k, l \in 1 .. n : k < l => s[q[k]] <= s[q[l]]
  BY <1>3 DEF InOrderOf
<1>5. v = t[r]
  BY DEF Percentile
<1>. HIDE DEF n, t, r, v
<1>6. v \in Int /\ v = s[q[r]] /\ q[r] \in 1 .. n
  BY <1>1, <1>2, <1>4, <1>5
<1>. DEFINE
    behind == {q[k] : k \in r + 1 .. n}
    from == {q[k] : k \in r .. n}
<1>7. ASSUME NEW a \in 1 .. n + 1
      PROVE  /\ {q[k] : k \in a .. n} \in SUBSET (1 .. n)
             /\ Cardinality({q[k] : k \in a .. n}) = n - a + 1
  <2>. DEFINE
      T == {q[k] : k \in a .. n}
      f == [k \in a .. n |-> q[k]]
  <2>1. IsFiniteSet(a .. n) /\ Cardinality(a .. n) = n - a + 1
    BY <1>1, FS_Interval
  <2>2. \A k \in a .. n : k \in 1 .. n
    BY <1>1
  <2>3. f \in [a .. n -> T] /\ \A y \in T : \E k \in a .. n : f[k] = y
    OBVIOUS
  <2>4. \A k, l \in a .. n : f[k] = f[l] => k = l
    BY <1>4, <2>2
  <2>5. T \in SUBSET (1 .. n)
    BY <1>4, <2>2
  <2>. HIDE DEF T, f
  <2>6. Cardinality(T) = Cardinality(a .. n)
    BY <2>1, <2>3, <2>4, EquallyMany
  <2>. QED
    BY <2>1, <2>5, <2>6 DEF T
<1>8. r + 1 \in 1 .. n + 1 /\ r \in 1 .. n + 1 /\ n - (r + 1) + 1 = n - r
  BY <1>1, <1>2
<1>9. /\ behind \in SUBSET (1 .. n) /\ Cardinality(behind) = n - r
      /\ from \in SUBSET (1 .. n) /\ Cardinality(from) = n - r + 1
  BY <1>7, <1>8
<1>10. Above \in SUBSET behind
  <2>1. ASSUME NEW i \in Above PROVE i \in behind
    <3>1. i \in 1 .. n /\ s[i] > v
      OBVIOUS
    <3>2. PICK k \in 1 .. n : q[k] = i
      BY <1>4, <3>1
    <3>3. ~ (k < r) /\ k # r
      <4>1. s[i] \in Int
        BY <1>1, <3>1
      <4>2. k < r => s[i] <= v
        BY <1>2, <1>4, <1>6, <3>2
      <4>. QED
        BY <1>6, <3>1, <3>2, <4>1, <4>2
    <3>4. k \in r + 1 .. n
      BY <1>1, <1>2, <3>3
    <3>. QED
      BY <3>2, <3>4
  <2>. QED
    BY <2>1
<1>11. from \in SUBSET Least
  <2>1. ASSUME NEW k \in r .. n PROVE q[k] \in Least
    <3>1. k \in 1 .. n /\ (k = r \/ r < k)
      BY <1>1, <1>2
    <3>2. s[q[k]] >= v /\ q[k] \in 1 .. n
      <4>1. q[k] \in 1 .. n /\ s[q[k]] \in Int /\ (r < k => s[q[r]] <= s[q[k]])
        BY <1>1, <1>2, <1>4, <3>1
      <4>. QED
        BY <1>6, <3>1, <4>1
    <3>. QED
      BY <3>2
  <2>. QED
    BY <2>1
<1>12. Least \in SUBSET (1 .. n)
  OBVIOUS
<1>. HIDE DEF Above, Least, behind, from
<1>13. /\ Cardinality(Above) \in Nat /\ Cardinality(Above) <= n - r
       /\ Cardinality(Least) \in Nat /\ n - r + 1 <= Cardinality(Least)
  BY <1>1, <1>9, <1>10, <1>11, <1>12, PositionsFinite
<1>14. (100 - ratio) * n = 100 * n - ratio * n /\ ratio * n \in Int
  BY <1>1
<1>15. /\ 100 * Cardinality(Above) <= (100 - ratio) * n
       /\ 100 * Cardinality(Least) > (100 - ratio) * n
  BY <1>1, <1>2, <1>13, <1>14
<1>. QED
  BY <1>6, <1>15 DEF Above, Least, n, v

\* The sums of the first numbers.
LEMMA SumsFacts ==
    ASSUME NEW s \in Seq(Int)
    PROVE  /\ DOMAIN PartialSums(s) = 0 .. Len(s)
           /\ \A n \in 0 .. Len(s) : PartialSums(s)[n] \in Int
           /\ PartialSums(s)[0] = 0
           /\ \A n \in 1 .. Len(s) : PartialSums(s)[n] = PartialSums(s)[n - 1] + s[n]
<1>. DEFINE
    M == Len(s)
    Adds(f) == f = [n \in 0 .. M |-> IF n = 0 THEN 0 ELSE f[n - 1] + s[n]]
    next == [p \in Nat \X Int |-> IF p[1] + 1 \in 1 .. M THEN p[2] + s[p[1] + 1] ELSE p[2]]
<1>1. M \in Nat /\ \A i \in 1 .. M : s[i] \in Int
  BY LenProperties
<1>2. next \in [Nat \X Int -> Int]
  BY <1>1
<1>. HIDE DEF next
<1>3. PICK g : IndexedIterates(g, Int, 0, next)
  <2>. DEFINE Z == Int
  <2>1. 0 \in Z /\ next \in [Nat \X Z -> Z]
    BY <1>2
  <2>. HIDE DEF Z
  <2>2. \E g : IndexedIterates(g, Z, 0, next)
    BY <2>1, IndexedIteration
  <2>. QED
    BY <2>2 DEF Z
<1>. DEFINE h == [n \in 0 .. M |-> g[n]]
<1>4. ASSUME NEW n \in 0 .. M
      PROVE  h[n] = IF n = 0 THEN 0 ELSE h[n - 1] + s[n]
  <2>1. CASE n = 0
    BY <1>3, <2>1 DEF IndexedIterates
  <2>2. CASE n # 0
    <3>1. n - 1 \in Nat /\ n - 1 \in 0 .. M /\ (n - 1) + 1 = n /\ n \in 1 .. M
      BY <1>1, <2>2
    <3>2. g[n] = next[<<n - 1, g[n - 1]>>] /\ g[n - 1] \in Int
      BY <1>3, <3>1 DEF IndexedIterates
    <3>3. g[n] = g[n - 1] + s[n]
      BY <3>1, <3>2 DEF next
    <3>. QED
      BY <2>2, <3>1, <3>3
  <2>. QED
    BY <2>1, <2>2
<1>5. Adds(h)
  BY <1>4
<1>. DEFINE c == CHOOSE f : Adds(f)
<1>. HIDE DEF h
<1>6. Adds(c)
  <2>. HIDE DEF Adds
  <2>. QED
    BY <1>5
<1>7. PartialSums(s) = c
  BY DEF PartialSums
<1>. HIDE DEF c
<1>8. /\ DOMAIN c = 0 .. M /\ c[0] = 0
      /\ \A n \in 1 .. M : c[n] = c[n - 1] + s[n]
  <2>1. DOMAIN c = 0 .. M /\ \A n \in 0 .. M : c[n] = IF n = 0 THEN 0 ELSE c[n - 1] + s[n]
    BY <1>6
  <2>. QED
    BY <1>1, <2>1
<1>9. ASSUME NEW n \in 0 .. M PROVE c[n] \in Int
  <2>. DEFINE Q == {k \in Nat : k <= M => c[k] \in Int}
  <2>1. 0 \in Q
    BY <1>8
  <2>2. ASSUME NEW k \in Nat, k \in Q PROVE k + 1 \in Q
    <3>. SUFFICES ASSUME k + 1 <= M PROVE c[k + 1] \in Int
      OBVIOUS
    <3>1. k + 1 \in 1 .. M /\ (k + 1) - 1 = k /\ c[k] \in Int
      BY <1>1, <2>2
    <3>2. c[k + 1] = c[k] + s[k + 1]
      BY <1>8, <3>1
    <3>. QED
      BY <1>1, <3>1, <3>2
  <2>. HIDE DEF Q
  <2>3. \A k \in Nat : k \in Q
    BY <2>1, <2>2, AllNaturals
  <2>4. n \in Nat /\ n <= M /\ n \in Q
    BY <1>1, <2>3
  <2>. QED
    BY <2>4 DEF Q
<1>. QED
  BY <1>7, <1>8, <1>9

Interval == [from : Int, to : Int]

\* The intervals that include a moment.
RunningAt(s, t) == {i \in 1 .. Len(s) : s[i].from <= t /\ t < s[i].to}

\* Those that have begun by then and not ended.
LEMMA RunningFacts ==
    ASSUME NEW s \in Seq(Interval), \A i \in 1 .. Len(s) : s[i].from <= s[i].to, NEW t \in Int
    PROVE  LET begun == {i \in 1 .. Len(s) : s[i].from <= t}
               ended == {i \in 1 .. Len(s) : s[i].to <= t}
           IN  /\ Cardinality(RunningAt(s, t)) = Cardinality(begun) - Cardinality(ended)
               /\ Cardinality(RunningAt(s, t)) \in 0 .. Len(s)
<1>. DEFINE
    begun == {i \in 1 .. Len(s) : s[i].from <= t}
    ended == {i \in 1 .. Len(s) : s[i].to <= t}
<1>1. Len(s) \in Nat /\ \A i \in 1 .. Len(s) : s[i].from \in Int /\ s[i].to \in Int
  <2>1. Len(s) \in Nat /\ \A i \in 1 .. Len(s) : s[i] \in Interval
    BY LenProperties
  <2>. QED
    BY <2>1 DEF Interval
<1>2. RunningAt(s, t) = begun \ ended /\ begun \cap ended = ended
  BY <1>1 DEF RunningAt
<1>3. begun \in SUBSET (1 .. Len(s)) /\ RunningAt(s, t) \in SUBSET (1 .. Len(s))
  BY DEF RunningAt
<1>4. IsFiniteSet(begun) /\ Cardinality(RunningAt(s, t)) \in 0 .. Len(s)
  BY <1>1, <1>3, PositionsFinite
<1>. HIDE DEF begun, ended
<1>5. Cardinality(RunningAt(s, t)) = Cardinality(begun) - Cardinality(ended)
  BY <1>2, <1>4, FS_Difference
<1>. QED
  BY <1>4, <1>5 DEF begun, ended

\* Those of the intervals.
LEMMA BoundariesFacts ==
    ASSUME NEW s \in Seq(Interval)
    PROVE  /\ Boundaries(s) \in Seq(Boundary)
           /\ Len(Boundaries(s)) = Len(s) + Len(s)
           /\ \A i \in 1 .. Len(s) :
                 /\ Boundaries(s)[i] = [at |-> s[i].from, delta |-> 1]
                 /\ Boundaries(s)[Len(s) + i] = [at |-> s[i].to, delta |-> -1]
<1>. DEFINE
    N == Len(s)
    starts == [i \in DOMAIN s |-> [at |-> s[i].from, delta |-> 1]]
    ends == [i \in DOMAIN s |-> [at |-> s[i].to, delta |-> -1]]
<1>1. N \in Nat /\ DOMAIN s = 1 .. N /\ \A i \in 1 .. N : s[i].from \in Int /\ s[i].to \in Int
  <2>1. N \in Nat /\ DOMAIN s = 1 .. N /\ \A i \in 1 .. N : s[i] \in Interval
    BY LenProperties
  <2>. QED
    BY <2>1 DEF Interval
<1>. HIDE DEF N
<1>2. starts \in Seq(Boundary) /\ Len(starts) = N
  <2>1. \A i \in 1 .. N : [at |-> s[i].from, delta |-> 1] \in Boundary
    BY <1>1 DEF Boundary
  <2>. QED
    BY <1>1, <2>1, IsASeq
<1>3. ends \in Seq(Boundary) /\ Len(ends) = N
  <2>1. \A i \in 1 .. N : [at |-> s[i].to, delta |-> -1] \in Boundary
    BY <1>1 DEF Boundary
  <2>. QED
    BY <1>1, <2>1, IsASeq
<1>4. \A i \in 1 .. N : /\ starts[i] = [at |-> s[i].from, delta |-> 1]
                        /\ ends[i] = [at |-> s[i].to, delta |-> -1]
  BY <1>1
<1>5. Boundaries(s) = starts \o ends
  BY DEF Boundaries
<1>. HIDE DEF starts, ends
<1>6. /\ starts \o ends \in Seq(Boundary) /\ Len(starts \o ends) = N + N
      /\ \A i \in 1 .. N : (starts \o ends)[i] = starts[i] /\ (starts \o ends)[N + i] = ends[i]
  <2>1. /\ starts \o ends \in Seq(Boundary) /\ Len(starts \o ends) = N + N
        /\ \A i \in 1 .. N + N : (starts \o ends)[i] = IF i <= N THEN starts[i] ELSE ends[i - N]
    <3>1. /\ starts \o ends \in Seq(Boundary) /\ Len(starts \o ends) = Len(starts) + Len(ends)
          /\ \A i \in 1 .. Len(starts) + Len(ends) :
                (starts \o ends)[i] = IF i <= Len(starts) THEN starts[i] ELSE ends[i - Len(starts)]
      <4>. HIDE DEF Boundary
      <4>. QED
        BY <1>2, <1>3, ConcatProperties
    <3>. QED
      BY <1>2, <1>3, <3>1
  <2>2. \A i \in 1 .. N : /\ i \in 1 .. N + N /\ N + i \in 1 .. N + N
                          /\ i <= N /\ ~ (N + i <= N) /\ (N + i) - N = i
    BY <1>1
  <2>. QED
    BY <2>1, <2>2
<1>. QED
  BY <1>4, <1>5, <1>6 DEF N

\* The greatest overlap is that of some moment, and there is none greater.
LEMMA OverlapFacts ==
    ASSUME NEW s \in Seq(Interval), \A i \in 1 .. Len(s) : s[i].from <= s[i].to
    PROVE  /\ \A t \in Int : Cardinality(RunningAt(s, t)) <= MaxOverlap(s)
           /\ \E t \in Int : MaxOverlap(s) = Cardinality(RunningAt(s, t))
<1>. DEFINE
    N == Len(s)
    M == N + N
    b == Boundaries(s)
    c == Sorted(b, Before)
    d == [i \in DOMAIN c |-> c[i].delta]
    active == PartialSums(d)
    Begun(t) == {i \in 1 .. N : s[i].from <= t}
    Over(t) == {i \in 1 .. N : s[i].to <= t}
<1>1. /\ N \in Nat /\ M \in Nat
      /\ \A i \in 1 .. N : s[i].from \in Int /\ s[i].to \in Int /\ i \in 1 .. M /\ N + i \in 1 .. M
      /\ \A i \in 1 .. M : i \in 1 .. N \/ (i - N \in 1 .. N /\ N + (i - N) = i)
  <2>1. N \in Nat /\ \A i \in 1 .. N : s[i] \in Interval
    BY LenProperties
  <2>. QED
    BY <2>1 DEF Interval
<1>2. /\ b \in Seq(Boundary) /\ Len(b) = M
      /\ \A i \in 1 .. N : /\ b[i] = [at |-> s[i].from, delta |-> 1]
                           /\ b[N + i] = [at |-> s[i].to, delta |-> -1]
  BY BoundariesFacts
<1>. HIDE DEF b, M
<1>3. c \in Seq(Boundary) /\ InOrderOf(c, b, [i \in 1 .. M |-> Key(b[i])])
  BY <1>2, SortedBoundaries
<1>4. PICK q : /\ \A k \in 1 .. M : q[k] \in 1 .. M /\ c[k] = b[q[k]]
               /\ \A k, l \in 1 .. M : q[k] = q[l] => k = l
               /\ \A i \in 1 .. M : \E k \in 1 .. M : q[k] = i
               /\ \A k, l \in 1 .. M : k < l => Key(c[k]) <= Key(c[l])
  <2>1. PICK q : /\ \A k \in 1 .. M : q[k] \in 1 .. M /\ c[k] = b[q[k]]
                 /\ \A k, l \in 1 .. M : q[k] = q[l] => k = l
                 /\ \A i \in 1 .. M : \E k \in 1 .. M : q[k] = i
                 /\ \A k, l \in 1 .. M : k < l =>
                       [i \in 1 .. M |-> Key(b[i])][q[k]] <= [i \in 1 .. M |-> Key(b[i])][q[l]]
    <3>. DEFINE keys == [i \in 1 .. M |-> Key(b[i])]
    <3>. HIDE DEF c, keys
    <3>1. PICK q : /\ \A k \in 1 .. Len(b) : q[k] \in 1 .. Len(b) /\ c[k] = b[q[k]]
                   /\ \A k, l \in 1 .. Len(b) : q[k] = q[l] => k = l
                   /\ \A i \in 1 .. Len(b) : \E k \in 1 .. Len(b) : q[k] = i
                   /\ \A k, l \in 1 .. Len(b) : k < l => keys[q[k]] <= keys[q[l]]
      <4>1. InOrderOf(c, b, keys)
        BY <1>3 DEF keys
      <4>. QED
        BY <4>1 DEF InOrderOf
    <3>. QED
      BY <1>2, <3>1 DEF keys
  <2>2. \A k \in 1 .. M : [i \in 1 .. M |-> Key(b[i])][q[k]] = Key(c[k])
    BY <2>1
  <2>. QED
    BY <2>1, <2>2
<1>5. /\ Len(c) = M /\ DOMAIN c = 1 .. M
      /\ \A k \in 1 .. M : c[k] \in Boundary
  <2>. HIDE DEF c
  <2>. QED
    BY <1>2, <1>3, LenProperties DEF InOrderOf
<1>. HIDE DEF c
<1>6. d \in Seq(Int) /\ Len(d) = M /\ \A k \in 1 .. M : d[k] = c[k].delta
  <2>1. \A k \in 1 .. M : c[k].delta \in Int
    BY <1>5 DEF Boundary
  <2>. QED
    BY <1>1, <1>5, <2>1, IsASeq
<1>. HIDE DEF d
<1>7. /\ DOMAIN active = 0 .. M /\ active[0] = 0
      /\ \A n \in 0 .. M : active[n] \in Int
      /\ \A n \in 1 .. M : active[n] = active[n - 1] + c[n].delta
  BY <1>6, SumsFacts
<1>8. MaxOverlap(s) = Max(Range(active))
  BY DEF MaxOverlap, active, d, c, b
<1>. HIDE DEF active, N
<1>. DEFINE
    Started(n) == {i \in 1 .. N : \E k \in 1 .. n : q[k] = i}
    Ended(n) == {i \in 1 .. N : \E k \in 1 .. n : q[k] = N + i}
\* What each boundary is of, and what its number says of its time.
<1>9. /\ \A k \in 1 .. M : /\ c[k].at \in Int /\ c[k].delta \in {1, -1}
                           /\ Key(c[k]) = 2 * c[k].at + (IF c[k].delta = 1 THEN 1 ELSE 0)
      /\ \A k \in 1 .. M, i \in 1 .. N :
            /\ q[k] = i => c[k].at = s[i].from /\ c[k].delta = 1
            /\ q[k] = N + i => c[k].at = s[i].to /\ c[k].delta = -1
      /\ \A k \in 1 .. M : /\ Key(c[k]) \in Int
                           /\ 2 * c[k].at <= Key(c[k]) /\ Key(c[k]) <= 2 * c[k].at + 1
      /\ \A k \in 1 .. M, i \in 1 .. N : /\ q[k] = i => Key(c[k]) = 2 * s[i].from + 1
                                         /\ q[k] = N + i => Key(c[k]) = 2 * s[i].to
  <2>1. \A k \in 1 .. M : c[k] \in Boundary
    BY <1>5
  <2>2. \A k \in 1 .. M : /\ c[k].at \in Int /\ c[k].delta \in {1, -1}
                          /\ Key(c[k]) = 2 * c[k].at + (IF c[k].delta = 1 THEN 1 ELSE 0)
    BY <2>1 DEF Boundary, Key
  <2>3. \A i \in 1 .. N : /\ b[i].at = s[i].from /\ b[i].delta = 1
                          /\ b[N + i].at = s[i].to /\ b[N + i].delta = -1
    <3>1. ASSUME NEW i \in 1 .. N
          PROVE  /\ b[i].at = s[i].from /\ b[i].delta = 1
                 /\ b[N + i].at = s[i].to /\ b[N + i].delta = -1
      <4>1. b[i] = [at |-> s[i].from, delta |-> 1] /\ b[N + i] = [at |-> s[i].to, delta |-> -1]
        BY <1>2
      <4>2. b[i].at = s[i].from /\ b[i].delta = 1
        BY <4>1
      <4>3. b[N + i].at = s[i].to /\ b[N + i].delta = -1
        BY <4>1
      <4>. QED
        BY <4>2, <4>3
    <3>. QED
      BY <3>1
  <2>4. \A k \in 1 .. M : c[k] = b[q[k]]
    BY <1>4
  <2>5. \A k \in 1 .. M, i \in 1 .. N :
             /\ q[k] = i => c[k].at = s[i].from /\ c[k].delta = 1
             /\ q[k] = N + i => c[k].at = s[i].to /\ c[k].delta = -1
    BY <2>3, <2>4
  <2>6. \A k \in 1 .. M : /\ Key(c[k]) \in Int
                          /\ 2 * c[k].at <= Key(c[k]) /\ Key(c[k]) <= 2 * c[k].at + 1
    BY <2>2
  <2>7. \A k \in 1 .. M, i \in 1 .. N : /\ q[k] = i => Key(c[k]) = 2 * s[i].from + 1
                                        /\ q[k] = N + i => Key(c[k]) = 2 * s[i].to
    <3>1. ASSUME NEW k \in 1 .. M, NEW i \in 1 .. N, q[k] = i
          PROVE  Key(c[k]) = 2 * s[i].from + 1
      <4>1. c[k].at = s[i].from /\ c[k].delta = 1
        BY <2>5, <3>1
      <4>2. Key(c[k]) = 2 * c[k].at + (IF c[k].delta = 1 THEN 1 ELSE 0)
        BY <2>2
      <4>. HIDE DEF c
      <4>. QED
        BY <4>1, <4>2
    <3>2. ASSUME NEW k \in 1 .. M, NEW i \in 1 .. N, q[k] = N + i
          PROVE  Key(c[k]) = 2 * s[i].to
      <4>1. c[k].at = s[i].to /\ c[k].delta = -1
        BY <2>5, <3>2
      <4>2. /\ Key(c[k]) = 2 * c[k].at + (IF c[k].delta = 1 THEN 1 ELSE 0)
            /\ c[k].at \in Int
        BY <2>2
      <4>. HIDE DEF c
      <4>. QED
        BY <4>1, <4>2
    <3>. QED
      BY <3>1, <3>2
  <2>. QED
    BY <2>2, <2>5, <2>6, <2>7
<1>10. ASSUME NEW n \in 0 .. M - 1
      PROVE  \/ /\ c[n + 1].delta = 1 /\ Ended(n + 1) = Ended(n)
                /\ \E i \in 1 .. N : i \notin Started(n) /\ Started(n + 1) = Started(n) \cup {i}
             \/ /\ c[n + 1].delta = -1 /\ Started(n + 1) = Started(n)
                /\ \E i \in 1 .. N : i \notin Ended(n) /\ Ended(n + 1) = Ended(n) \cup {i}
  <2>1. /\ n + 1 \in 1 .. M /\ n \in Nat /\ q[n + 1] \in 1 .. M
        /\ \A k : k \in 1 .. n + 1 <=> k \in 1 .. n \/ k = n + 1
        /\ \A k \in 1 .. n : k \in 1 .. M /\ k # n + 1
    BY <1>1, <1>4
  <2>2. \A k \in 1 .. n : q[k] # q[n + 1]
    BY <1>4, <2>1
  <2>3. CASE q[n + 1] \in 1 .. N
    <3>1. c[n + 1].delta = 1
      BY <1>9, <2>1, <2>3
    <3>2. \A i \in 1 .. N : q[n + 1] # N + i
      BY <1>1, <2>3
    <3>3. Ended(n + 1) = Ended(n)
      BY <2>1, <3>2
    <3>4. q[n + 1] \notin Started(n) /\ Started(n + 1) = Started(n) \cup {q[n + 1]}
      BY <2>1, <2>2, <2>3
    <3>. QED
      BY <2>3, <3>1, <3>3, <3>4
  <2>4. CASE q[n + 1] \notin 1 .. N
    <3>. DEFINE j == q[n + 1] - N
    <3>1. j \in 1 .. N /\ N + j = q[n + 1]
      BY <1>1, <2>1, <2>4
    <3>2. c[n + 1].delta = -1
      BY <1>9, <2>1, <3>1
    <3>3. Started(n + 1) = Started(n)
      BY <2>1, <2>4
    <3>. HIDE DEF j
    <3>4. \A i \in 1 .. N : q[n + 1] = N + i => i = j
      BY <1>1, <3>1
    <3>5. j \notin Ended(n) /\ Ended(n + 1) = Ended(n) \cup {j}
      BY <2>1, <2>2, <3>1, <3>4
    <3>. QED
      BY <3>1, <3>2, <3>3, <3>5
  <2>. QED
    BY <2>3, <2>4
<1>11. \A n \in 0 .. M : /\ IsFiniteSet(Started(n)) /\ Cardinality(Started(n)) \in Nat
                         /\ IsFiniteSet(Ended(n)) /\ Cardinality(Ended(n)) \in Nat
  <2>1. \A n \in 0 .. M : Started(n) \in SUBSET (1 .. N) /\ Ended(n) \in SUBSET (1 .. N)
    OBVIOUS
  <2>. HIDE DEF Started, Ended
  <2>. QED
    BY <1>1, <2>1, PositionsFinite
<1>12. \A n \in 0 .. M : active[n] = Cardinality(Started(n)) - Cardinality(Ended(n))
  <2>. DEFINE Q == {n \in Nat : n <= M =>
                      active[n] = Cardinality(Started(n)) - Cardinality(Ended(n))}
  <2>1. 0 \in Q
    <3>1. Started(0) = {} /\ Ended(0) = {}
      OBVIOUS
    <3>. HIDE DEF Started, Ended
    <3>. QED
      BY <1>7, <3>1, FS_EmptySet
  <2>. HIDE DEF Started, Ended
  <2>2. ASSUME NEW n \in Nat, n \in Q PROVE n + 1 \in Q
    <3>. SUFFICES ASSUME n + 1 <= M
                  PROVE  active[n + 1] = Cardinality(Started(n + 1)) - Cardinality(Ended(n + 1))
      OBVIOUS
    <3>1. /\ n \in 0 .. M - 1 /\ n \in 0 .. M /\ n + 1 \in 1 .. M /\ (n + 1) - 1 = n
          /\ active[n] = Cardinality(Started(n)) - Cardinality(Ended(n))
      BY <1>1, <2>2
    <3>2. active[n + 1] = active[n] + c[n + 1].delta
      BY <1>7, <3>1
    <3>3. /\ IsFiniteSet(Started(n)) /\ Cardinality(Started(n)) \in Nat
          /\ IsFiniteSet(Ended(n)) /\ Cardinality(Ended(n)) \in Nat
      BY <1>11, <3>1
    <3>4. CASE /\ c[n + 1].delta = 1 /\ Ended(n + 1) = Ended(n)
               /\ \E i \in 1 .. N : i \notin Started(n) /\ Started(n + 1) = Started(n) \cup {i}
      <4>1. Cardinality(Started(n + 1)) = Cardinality(Started(n)) + 1
        BY <3>3, <3>4, FS_AddElement
      <4>. QED
        BY <3>1, <3>2, <3>3, <3>4, <4>1
    <3>5. CASE /\ c[n + 1].delta = -1 /\ Started(n + 1) = Started(n)
               /\ \E i \in 1 .. N : i \notin Ended(n) /\ Ended(n + 1) = Ended(n) \cup {i}
      <4>1. Cardinality(Ended(n + 1)) = Cardinality(Ended(n)) + 1
        BY <3>3, <3>5, FS_AddElement
      <4>. QED
        BY <3>1, <3>2, <3>3, <3>5, <4>1
    <3>. QED
      BY <1>10, <3>1, <3>4, <3>5
  <2>. HIDE DEF Q
  <2>3. \A n \in Nat : n \in Q
    BY <2>1, <2>2, AllNaturals
  <2>. QED
    BY <1>1, <2>3 DEF Q
<1>13. ASSUME NEW t \in Int
       PROVE  /\ Cardinality(RunningAt(s, t)) = Cardinality(Begun(t)) - Cardinality(Over(t))
              /\ Cardinality(RunningAt(s, t)) \in 0 .. N
  BY RunningFacts DEF N
<1>14. \A t \in Int : Cardinality(RunningAt(s, t)) \in 0 .. N
  <2>. HIDE DEF Begun, Over
  <2>. QED
    BY <1>13
<1>15. N \in Nat
  BY <1>1
<1>16. \A t : /\ IsFiniteSet(Begun(t)) /\ Cardinality(Begun(t)) \in Nat
              /\ IsFiniteSet(Over(t)) /\ Cardinality(Over(t)) \in Nat
  <2>1. \A t : Begun(t) \in SUBSET (1 .. N) /\ Over(t) \in SUBSET (1 .. N)
    OBVIOUS
  <2>. HIDE DEF Begun, Over
  <2>. QED
    BY <1>1, <2>1, PositionsFinite
\* Each of the sums is of no more than run at some time.
<1>17. ASSUME NEW n \in 0 .. M
       PROVE  \E t \in Int : active[n] <= Cardinality(RunningAt(s, t))
  <2>1. CASE n = 0
    <3>1. active[n] = 0 /\ Cardinality(RunningAt(s, 0)) \in 0 .. N /\ 0 \in Int
      BY <1>7, <1>14, <2>1
    <3>. QED
      BY <1>15, <3>1
  <2>2. CASE n # 0
    <3>1. n \in 1 .. M /\ n \in Nat
      BY <1>1, <2>2
    <3>2. PICK t \in Int : Key(c[n]) \in {2 * t + 1, 2 * t + 2}
      <4>1. CASE c[n].delta = 1
        BY <1>9, <3>1, <4>1
      <4>2. CASE c[n].delta # 1
        <5>1. c[n].at \in Int /\ c[n].at - 1 \in Int /\ Key(c[n]) = 2 * c[n].at
          BY <1>9, <3>1, <4>2
        <5>2. Key(c[n]) = 2 * (c[n].at - 1) + 2
          BY <5>1
        <5>. QED
          BY <5>1, <5>2
      <4>. QED
        BY <4>1, <4>2
    <3>3. Started(n) \subseteq Begun(t)
      <4>1. SUFFICES ASSUME NEW i \in 1 .. N, NEW k \in 1 .. n, q[k] = i
                     PROVE  s[i].from <= t
        OBVIOUS
      <4>2. k \in 1 .. M /\ (k < n \/ k = n)
        BY <1>1, <3>1
      <4>3. Key(c[k]) <= Key(c[n]) /\ Key(c[k]) = 2 * s[i].from + 1 /\ s[i].from \in Int
        <5>1. Key(c[k]) <= Key(c[n])
          <6>1. k < n => Key(c[k]) <= Key(c[n])
            BY <1>4, <3>1, <4>2
          <6>2. Key(c[n]) \in Int
            BY <1>9, <3>1
          <6>. QED
            BY <4>2, <6>1, <6>2
        <5>2. Key(c[k]) = 2 * s[i].from + 1
          BY <1>9, <4>1, <4>2
        <5>. QED
          BY <1>1, <5>1, <5>2
      <4>. QED
        BY <3>2, <4>3
    <3>4. Over(t) \subseteq Ended(n)
      <4>1. SUFFICES ASSUME NEW i \in 1 .. N, s[i].to <= t
                     PROVE  \E k \in 1 .. n : q[k] = N + i
        OBVIOUS
      <4>2. PICK k \in 1 .. M : q[k] = N + i
        BY <1>1, <1>4
      <4>3. Key(c[k]) = 2 * s[i].to /\ s[i].to \in Int
        <5>1. Key(c[k]) = 2 * s[i].to
          BY <1>9, <4>2
        <5>. QED
          BY <1>1, <5>1
      <4>4. Key(c[k]) < Key(c[n])
        BY <3>2, <4>1, <4>3
      <4>5. ~ (n < k)
        <5>1. n < k => Key(c[n]) <= Key(c[k])
          BY <1>4, <3>1
        <5>. QED
          BY <3>2, <4>3, <4>4, <5>1
      <4>6. k \in 1 .. n
        BY <1>1, <3>1, <4>5
      <4>. QED
        BY <4>2, <4>6
    <3>5. Begun(t) \in SUBSET (1 .. N) /\ Ended(n) \in SUBSET (1 .. N)
      OBVIOUS
    <3>. HIDE DEF Started, Ended, Begun, Over
    <3>6. Cardinality(Started(n)) <= Cardinality(Begun(t))
      BY <1>1, <3>3, <3>5, PositionsFinite
    <3>7. Cardinality(Over(t)) <= Cardinality(Ended(n))
      BY <1>1, <3>4, <3>5, PositionsFinite
    <3>. QED
      <4>1. Cardinality(RunningAt(s, t)) = Cardinality(Begun(t)) - Cardinality(Over(t))
        BY <1>13
      <4>2. active[n] = Cardinality(Started(n)) - Cardinality(Ended(n))
        BY <1>12
      <4>3. /\ Cardinality(Started(n)) \in Nat /\ Cardinality(Ended(n)) \in Nat
            /\ Cardinality(Begun(t)) \in Nat /\ Cardinality(Over(t)) \in Nat
        BY <1>11, <1>16
      <4>4. active[n] <= Cardinality(RunningAt(s, t))
        BY <3>6, <3>7, <4>1, <4>2, <4>3
      <4>. QED
        BY <4>4
  <2>. QED
    BY <2>1, <2>2
\* As many as run at a time are one of the sums.
<1>18. ASSUME NEW t \in Int
       PROVE  \E n \in 0 .. M : active[n] = Cardinality(RunningAt(s, t))
  <2>. DEFINE S == {k \in 0 .. M : k = 0 \/ c[k].at <= t}
  <2>1. S \subseteq 0 .. M /\ 0 \in S
    BY <1>1
  <2>2. PICK n \in S : \A k \in S : k <= n
    <3>. HIDE DEF S
    <3>. QED
      BY <1>1, <2>1, GreatestNatural
  <2>3. n \in 0 .. M /\ n \in Nat
    BY <1>1, <2>2
  <2>4. \A k \in 1 .. M : k \in 1 .. n <=> c[k].at <= t
    <3>1. ASSUME NEW k \in 1 .. M, c[k].at <= t PROVE k \in 1 .. n
      <4>1. k \in S
        BY <1>1, <3>1
      <4>. QED
        BY <1>1, <2>2, <2>3, <4>1
    <3>2. ASSUME NEW k \in 1 .. M, k \in 1 .. n PROVE c[k].at <= t
      <4>1. n \in 1 .. M /\ c[n].at <= t
        BY <1>1, <2>2, <2>3, <3>2
      <4>2. k < n \/ k = n
        BY <2>3, <3>2
      <4>3. Key(c[k]) <= Key(c[n])
        <5>1. k < n => Key(c[k]) <= Key(c[n])
          BY <1>4, <4>1
        <5>2. Key(c[n]) \in Int
          BY <1>9, <4>1
        <5>. QED
          BY <4>2, <5>1, <5>2
      <4>4. /\ c[k].at \in Int /\ c[n].at \in Int
            /\ Key(c[k]) \in Int /\ Key(c[k]) >= 2 * c[k].at
            /\ Key(c[n]) \in Int /\ Key(c[n]) <= 2 * c[n].at + 1
        <5>1. /\ c[k].at \in Int
              /\ Key(c[k]) \in Int /\ Key(c[k]) >= 2 * c[k].at
          BY <1>9
        <5>2. /\ c[n].at \in Int
              /\ Key(c[n]) \in Int /\ Key(c[n]) <= 2 * c[n].at + 1
          BY <1>9, <4>1
        <5>. QED
          BY <5>1, <5>2
      <4>. HIDE DEF Begun, Over, Started, Ended, S
      <4>. QED
        BY <4>1, <4>3, <4>4
    <3>. QED
      BY <3>1, <3>2
  <2>. HIDE DEF S
  <2>5. Started(n) = Begun(t)
    <3>1. ASSUME NEW i \in 1 .. N PROVE (\E k \in 1 .. n : q[k] = i) <=> s[i].from <= t
      <4>1. \A k \in 1 .. M : q[k] = i => c[k].at = s[i].from
        BY <1>9
      <4>2. \E k \in 1 .. M : q[k] = i
        BY <1>1, <1>4
      <4>3. \A k \in 1 .. n : k \in 1 .. M
        BY <1>1, <2>3
      <4>. QED
        BY <2>4, <4>1, <4>2, <4>3
    <3>. QED
      BY <3>1
  <2>6. Ended(n) = Over(t)
    <3>1. ASSUME NEW i \in 1 .. N PROVE (\E k \in 1 .. n : q[k] = N + i) <=> s[i].to <= t
      <4>1. \A k \in 1 .. M : q[k] = N + i => c[k].at = s[i].to
        BY <1>9
      <4>2. \E k \in 1 .. M : q[k] = N + i
        BY <1>1, <1>4
      <4>3. \A k \in 1 .. n : k \in 1 .. M
        BY <1>1, <2>3
      <4>. QED
        BY <2>4, <4>1, <4>2, <4>3
    <3>. QED
      BY <3>1
  <2>. QED
    BY <1>12, <1>13, <2>3, <2>5, <2>6
\* The greatest number that run at any time.
<1>. HIDE DEF Begun, Over, Started, Ended
<1>19. PICK m : /\ \E t \in Int : m = Cardinality(RunningAt(s, t))
                /\ \A t \in Int : Cardinality(RunningAt(s, t)) <= m
  <2>. DEFINE T == {Cardinality(RunningAt(s, t)) : t \in Int}
  <2>1. T \subseteq 0 .. N
    BY <1>13
  <2>2. T # {}
    OBVIOUS
  <2>3. PICK m \in T : \A k \in T : k <= m
    <3>. HIDE DEF T
    <3>. QED
      BY <1>1, <2>1, <2>2, GreatestNatural
  <2>. QED
    BY <2>3
<1>20. m \in Nat
  <2>1. \A t \in Int : Cardinality(RunningAt(s, t)) \in Nat
    BY <1>14, <1>15
  <2>. QED
    BY <1>19, <2>1
<1>21. Max(Range(active)) = m
  <2>1. Range(active) = {active[n] : n \in 0 .. M}
    BY <1>7 DEF Range
  <2>2. Range(active) \in SUBSET Int
    BY <1>7, <2>1
  <2>3. m \in Range(active)
    BY <1>18, <1>19, <2>1
  <2>4. \A n \in 0 .. M : active[n] <= m
    <3>1. ASSUME NEW n \in 0 .. M PROVE active[n] <= m
      <4>1. PICK t \in Int : active[n] <= Cardinality(RunningAt(s, t))
        BY <1>17
      <4>2. Cardinality(RunningAt(s, t)) <= m
        BY <1>19
      <4>3. Cardinality(RunningAt(s, t)) \in 0 .. N
        BY <1>14
      <4>4. active[n] \in Int
        BY <1>7
      <4>. QED
        BY <1>15, <1>20, <4>1, <4>2, <4>3, <4>4
    <3>. QED
      BY <3>1
  <2>5. \A k \in Range(active) : k <= m
    BY <2>1, <2>4
  <2>. QED
    BY <2>2, <2>3, <2>5, MaxIs
<1>. QED
  BY <1>8, <1>19, <1>21

=============================================================================
