--------------------------- MODULE SelectionProofs ---------------------------
(* What is known of the elements of a list at some of its positions, for any list. *)
EXTENDS Selection, FiniteSetTheorems, WellFoundedInduction, TLAPS

-----------------------------------------------------------------------------
(* Keep: the elements of a list at some positions, in their order *)

\* A set of numbers that is not empty has a least one.
LEMMA LeastNat ==
  ASSUME NEW S \in SUBSET Nat, S # {}
  PROVE  \E n \in S : \A m \in S : n <= m
<1> DEFINE R == OpToRel(<, Nat)
<1>1. \A x, y \in Nat : <<x, y>> \in R <=> x < y
  BY DEF OpToRel
<1>2. IsWellFoundedOn(R, Nat)
  BY NatLessThanWellFounded
<1> HIDE DEF R
<1>3. PICK n \in S : \A m \in S : ~ (<<m, n>> \in R)
  BY <1>2, WFMin
<1>4. ASSUME NEW m \in S PROVE n <= m
  <2>1. m \in Nat /\ n \in Nat /\ ~ (<<m, n>> \in R)
    BY <1>3
  <2>2. ~ (m < n)
    BY <1>1, <2>1
  <2> QED
    BY <2>1, <2>2
<1> QED
  BY <1>3, <1>4

\* Induction, for the set of the numbers that satisfy the formula.
LEMMA SetInduction ==
  ASSUME NEW S, 0 \in S, \A n \in Nat : n \in S => n + 1 \in S
  PROVE  Nat \subseteq S
<1> SUFFICES ASSUME NEW k \in Nat, k \notin S PROVE FALSE
  OBVIOUS
<1>1. PICK n \in Nat \ S : \A m \in Nat \ S : n <= m
  <2>1. Nat \ S \in SUBSET Nat /\ Nat \ S # {}
    OBVIOUS
  <2> QED
    BY <2>1, LeastNat
<1>2. n # 0 /\ n - 1 \in Nat
  BY <1>1
<1>3. n - 1 \in S
  BY <1>1, <1>2
<1>4. (n - 1) + 1 \in S
  BY <1>2, <1>3
<1> QED
  BY <1>1, <1>4

Enumerates(f, K) ==
  /\ f \in [1 .. Cardinality(K) -> K]
  /\ \A i, j \in DOMAIN f : i < j => f[i] < f[j]

\* A set of positions can be enumerated in increasing order.
LEMMA InOrderExists ==
  ASSUME NEW n \in Nat, NEW K \in SUBSET (1 .. n)
  PROVE  IsFiniteSet(K) /\ Cardinality(K) \in Nat /\ \E f : Enumerates(f, K)
<1> DEFINE Good(L) == IsFiniteSet(L) /\ Cardinality(L) \in Nat /\ \E f : Enumerates(f, L)
           S == {m \in Nat : \A L \in SUBSET (1 .. m) : Good(L)}
<1>1. 0 \in S
  <2>1. SUBSET (1 .. 0) = {{}}
    OBVIOUS
  <2>2. IsFiniteSet({}) /\ Cardinality({}) = 0
    BY FS_EmptySet
  <2>3. Enumerates([i \in 1 .. 0 |-> i], {})
    BY <2>2 DEF Enumerates
  <2>4. Good({})
    BY <2>2, <2>3
  <2> HIDE DEF Good
  <2> QED
    BY <2>1, <2>4
<1>2. ASSUME NEW m \in Nat, m \in S PROVE m + 1 \in S
  <2> SUFFICES ASSUME NEW L \in SUBSET (1 .. m + 1) PROVE Good(L)
    BY <1>2
  <2>1. CASE m + 1 \notin L
    <3>1. L \in SUBSET (1 .. m)
      BY <2>1
    <3> QED
      BY <1>2, <3>1
  <2>2. CASE m + 1 \in L
    <3> DEFINE M == L \ {m + 1}
    <3>1. M \in SUBSET (1 .. m)
      OBVIOUS
    <3>2. IsFiniteSet(M) /\ Cardinality(M) \in Nat /\ \E f : Enumerates(f, M)
      BY <1>2, <3>1
    <3>3. PICK f : Enumerates(f, M)
      BY <3>2
    <3>4. L = M \cup {m + 1} /\ m + 1 \notin M
      BY <2>2
    <3> HIDE DEF M
    <3>5. IsFiniteSet(L) /\ Cardinality(L) = Cardinality(M) + 1
      BY <3>2, <3>4, FS_AddElement
    <3> DEFINE c == Cardinality(M)
               g == [i \in 1 .. c + 1 |-> IF i <= c THEN f[i] ELSE m + 1]
    <3>6. /\ f \in [1 .. c -> M] /\ c \in Nat
          /\ \A i, j \in 1 .. c : i < j => f[i] < f[j]
      BY <3>2, <3>3 DEF Enumerates
    <3>7. g \in [1 .. c + 1 -> L]
      BY <3>4, <3>6
    <3>8. ASSUME NEW i \in 1 .. c + 1, NEW j \in 1 .. c + 1, i < j PROVE g[i] < g[j]
      <4>0. i <= c /\ i \in 1 .. c
        BY <3>6, <3>8
      <4>1. g[i] = f[i] /\ f[i] \in 1 .. m
        BY <3>1, <3>6, <4>0
      <4>2. CASE j <= c
        BY <3>6, <3>8, <4>0, <4>1, <4>2
      <4>3. CASE ~ (j <= c)
        BY <4>1, <4>3
      <4> QED
        BY <4>2, <4>3
    <3>9. Enumerates(g, L)
      BY <3>5, <3>6, <3>7, <3>8 DEF Enumerates
    <3> QED
      BY <3>5, <3>6, <3>9
  <2> QED
    BY <2>1, <2>2
<1>3. n \in S
  <2> HIDE DEF S
  <2> QED
    BY <1>1, <1>2, SetInduction
<1> QED
  BY <1>3

\* InOrder is such an enumeration.
LEMMA InOrderIs ==
  ASSUME NEW n \in Nat, NEW K \in SUBSET (1 .. n)
  PROVE  Cardinality(K) \in Nat /\ Enumerates(InOrder(K), K)
<1>1. Cardinality(K) \in Nat /\ \E f : Enumerates(f, K)
  BY InOrderExists
<1> DEFINE P(f) == \A i, j \in DOMAIN f : i < j => f[i] < f[j]
<1>2. \E f \in [1 .. Cardinality(K) -> K] : P(f)
  BY <1>1 DEF Enumerates
<1>3. InOrder(K) = CHOOSE f \in [1 .. Cardinality(K) -> K] : P(f)
  BY DEF InOrder
<1> HIDE DEF P
<1>4. InOrder(K) \in [1 .. Cardinality(K) -> K] /\ P(InOrder(K))
  BY <1>2, <1>3
<1> QED
  BY <1>1, <1>4 DEF P, Enumerates

\* Keep returns a list of elements of the list, in their order.
LEMMA KeepIs ==
  ASSUME NEW T, NEW s \in Seq(T), NEW K \in SUBSET (DOMAIN s)
  PROVE  /\ Keep(s, K) \in Seq(T)
         /\ Enumerates(InOrder(K), K)
         /\ DOMAIN Keep(s, K) = 1 .. Cardinality(K)
         /\ \A i \in DOMAIN Keep(s, K) : Keep(s, K)[i] = s[InOrder(K)[i]]
<1>1. DOMAIN s = 1 .. Len(s) /\ Len(s) \in Nat /\ \A i \in DOMAIN s : s[i] \in T
  OBVIOUS
<1>2. Cardinality(K) \in Nat /\ Enumerates(InOrder(K), K)
  BY <1>1, InOrderIs
<1>3. \A i \in 1 .. Cardinality(K) : InOrder(K)[i] \in DOMAIN s
  BY <1>2 DEF Enumerates
<1>4. Keep(s, K) = [i \in 1 .. Cardinality(K) |-> s[InOrder(K)[i]]]
  BY DEF Keep
<1>5. Keep(s, K) \in [1 .. Cardinality(K) -> T]
  BY <1>1, <1>3, <1>4
<1>6. Keep(s, K) \in Seq(T)
  BY <1>2, <1>5
<1> QED
  BY <1>2, <1>4, <1>5, <1>6

-----------------------------------------------------------------------------
(* Increasing enumerations are unique *)

\* Two increasing enumerations of all of K are the same.
LEMMA SameEnumeration ==
  ASSUME NEW K \in SUBSET Nat, NEW c \in Nat,
         NEW f \in [1 .. c -> K], NEW g \in [1 .. c -> K],
         \A i, j \in 1 .. c : i < j => f[i] < f[j],
         \A i, j \in 1 .. c : i < j => g[i] < g[j],
         \A k \in K : (\E i \in 1 .. c : f[i] = k) /\ (\E i \in 1 .. c : g[i] = k)
  PROVE  f = g
<1> DEFINE D == {i \in 1 .. c : f[i] # g[i]}
<1>1. SUFFICES ASSUME D # {} PROVE FALSE
  BY DEF D
<1>2. PICK i \in D : \A m \in D : i <= m
  <2>1. D \in SUBSET Nat
    OBVIOUS
  <2> HIDE DEF D
  <2> QED
    BY <1>1, <2>1, LeastNat
<1>3. /\ i \in 1 .. c /\ f[i] \in K /\ g[i] \in K /\ f[i] # g[i]
      /\ f[i] \in Nat /\ g[i] \in Nat
      /\ \A j \in 1 .. c : j < i => f[j] = g[j]
  <2>1. i \in 1 .. c /\ f[i] # g[i] /\ f[i] \in K /\ g[i] \in K
    OBVIOUS
  <2>2. ASSUME NEW j \in 1 .. c, j < i PROVE f[j] = g[j]
    <3>1. ~ (i <= j)
      BY <2>1, <2>2
    <3>2. j \notin D
      BY <1>2, <3>1
    <3> QED
      BY <3>2
  <2> QED
    BY <2>1, <2>2
<1>4. CASE f[i] < g[i]
  <2>1. PICK j \in 1 .. c : g[j] = f[i]
    BY <1>3
  <2>2. j < i
    BY <1>3, <1>4, <2>1
  <2> QED
    BY <1>3, <2>1, <2>2
<1>5. CASE g[i] < f[i]
  <2>1. PICK j \in 1 .. c : f[j] = g[i]
    BY <1>3
  <2>2. j < i
    BY <1>3, <1>5, <2>1
  <2> QED
    BY <1>3, <2>1, <2>2
<1> QED
  BY <1>3, <1>4, <1>5

\* An increasing function takes each value once.
LEMMA IncreasingIsInjection ==
  ASSUME NEW K, NEW c \in Nat, NEW f \in [1 .. c -> K], K \subseteq Nat,
         \A i, j \in 1 .. c : i < j => f[i] < f[j]
  PROVE  f \in Injection(1 .. c, K)
<1>1. ASSUME NEW i \in 1 .. c, NEW j \in 1 .. c, f[i] = f[j] PROVE i = j
  <2>1. f[i] \in Nat /\ f[j] \in Nat
    OBVIOUS
  <2> QED
    BY <1>1, <2>1
<1> QED
  BY <1>1 DEF Injection, IsInjective

\* InOrder(K) goes through all of K.
LEMMA InOrderOnto ==
  ASSUME NEW n \in Nat, NEW K \in SUBSET (1 .. n)
  PROVE  /\ Cardinality(K) \in Nat /\ Enumerates(InOrder(K), K)
         /\ \A k \in K : \E i \in 1 .. Cardinality(K) : InOrder(K)[i] = k
<1> DEFINE c == Cardinality(K)
           f == InOrder(K)
<1>1. c \in Nat /\ Enumerates(f, K) /\ IsFiniteSet(K)
  BY InOrderIs, InOrderExists
<1>2. f \in [1 .. c -> K] /\ \A i, j \in 1 .. c : i < j => f[i] < f[j]
  BY <1>1 DEF Enumerates
<1> HIDE DEF f
<1>3. f \in Injection(1 .. c, K)
  <2>1. K \subseteq Nat
    OBVIOUS
  <2> HIDE DEF c
  <2> QED
    BY <1>1, <1>2, <2>1, IncreasingIsInjection
<1>4. IsFiniteSet(1 .. c) /\ Cardinality(1 .. c) = c
  BY <1>1, FS_Interval
<1>5. f \in Surjection(1 .. c, K)
  BY <1>1, <1>3, <1>4, FS_Injection
<1> QED
  BY <1>1, <1>5 DEF Surjection, f

\* An increasing function onto K is InOrder(K).
LEMMA InOrderUnique ==
  ASSUME NEW n \in Nat, NEW K \in SUBSET (1 .. n), NEW c \in Nat, NEW g \in [1 .. c -> K],
         \A i, j \in 1 .. c : i < j => g[i] < g[j],
         \A k \in K : \E i \in 1 .. c : g[i] = k
  PROVE  Cardinality(K) = c /\ InOrder(K) = g
<1>0. K \subseteq Nat
  OBVIOUS
<1>1. g \in Injection(1 .. c, K) /\ g \in Surjection(1 .. c, K)
  BY <1>0, IncreasingIsInjection DEF Surjection
<1>2. Cardinality(K) = c
  BY <1>1, FS_CountingElements DEF ExistsBijection, Bijection
<1>3. /\ InOrder(K) \in [1 .. c -> K]
      /\ \A i, j \in 1 .. c : i < j => InOrder(K)[i] < InOrder(K)[j]
      /\ \A k \in K : \E i \in 1 .. c : InOrder(K)[i] = k
  <2>1. /\ Enumerates(InOrder(K), K)
        /\ \A k \in K : \E i \in 1 .. c : InOrder(K)[i] = k
    BY <1>2, InOrderOnto
  <2>2. InOrder(K) \in [1 .. c -> K]
    BY <1>2, <2>1 DEF Enumerates
  <2>3. DOMAIN InOrder(K) = 1 .. c
    BY <2>2
  <2> QED
    BY <2>1, <2>2, <2>3 DEF Enumerates
<1> DEFINE f == InOrder(K)
<1> HIDE DEF f
<1>4. f = g
  <2>1. /\ f \in [1 .. c -> K] /\ \A i, j \in 1 .. c : i < j => f[i] < f[j]
        /\ \A k \in K : \E i \in 1 .. c : f[i] = k
    BY <1>3 DEF f
  <2>2. \A k \in K : (\E i \in 1 .. c : f[i] = k) /\ (\E i \in 1 .. c : g[i] = k)
    BY <2>1
  <2>3. K \in SUBSET Nat /\ f \in [1 .. c -> K] /\ g \in [1 .. c -> K]
    BY <1>0, <2>1
  <2> HIDE DEF f
  <2> QED
    BY <2>1, <2>2, <2>3, SameEnumeration
<1> QED
  BY <1>2, <1>4 DEF f

=============================================================================
