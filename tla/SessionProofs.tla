---------------------------- MODULE SessionProofs ----------------------------
(***************************************************************************)
(* Proofs about Session, for any tabs, any number of windows, URLs and     *)
(* starts of the browser.                                                  *)
(***************************************************************************)
EXTENDS Session, FiniteSetTheorems, WellFoundedInduction, TLAPS

-----------------------------------------------------------------------------
(* Loops over a sequence *)

\* A set that has 0, and n + 1 with every natural number n, has all of them.
LEMMA Induction ==
  ASSUME NEW S, 0 \in S, \A n \in Nat : n \in S => n + 1 \in S
  PROVE  \A n \in Nat : n \in S
<1> DEFINE U == {n \in Nat : n \notin S}
<1>1. CASE U = {}
  BY <1>1
<1>2. CASE U # {}
  <2>1. PICK m \in U : \A k \in U : <<k, m>> \notin OpToRel(<, Nat)
    BY <1>2, WFMin, NatLessThanWellFounded, Zenon
  <2>2. \A k \in U : ~(k < m)
    BY <2>1, Zenon DEF OpToRel
  <2>3. m \in Nat /\ m \notin S
    OBVIOUS
  <2> HIDE DEF U
  <2>4. m # 0
    BY <2>3
  <2>5. m - 1 \in Nat /\ m - 1 < m /\ (m - 1) + 1 = m
    BY <2>3, <2>4
  <2>6. m - 1 \notin U
    BY <2>2, <2>5
  <2>7. m - 1 \in S
    BY <2>5, <2>6 DEF U
  <2>8. m \in S
    BY <2>5, <2>7
  <2> QED
    BY <2>3, <2>8
<1> QED
  BY <1>1, <1>2

\* A set of natural numbers has a least one.
LEMMA Least ==
  ASSUME NEW I, I \subseteq Nat, I # {}
  PROVE  \E m \in I : \A k \in I : m <= k
<1>1. PICK m \in I : \A k \in I : <<k, m>> \notin OpToRel(<, Nat)
  BY WFMin, NatLessThanWellFounded, Zenon
<1>2. \A k \in I : ~(k < m)
  BY <1>1, Zenon DEF OpToRel
<1>3. ASSUME NEW k \in I PROVE m <= k
  <2>1. k \in Nat /\ m \in Nat /\ ~(k < m)
    BY <1>2
  <2> QED
    BY <2>1
<1> QED
  BY <1>3

\* What Kept has after n turns.
Turn(s, X, f, n) ==
  IF n = 0 THEN <<>> ELSE IF s[n] \in X THEN Append(f[n - 1], s[n]) ELSE f[n - 1]

\* The recursive function in Kept exists.
LEMMA KeptExists ==
  ASSUME NEW s, NEW X, NEW len \in Nat
  PROVE  \E f : f = [n \in 0 .. len |-> Turn(s, X, f, n)]
<1> DEFINE S == {k \in Nat : \E f : f = [n \in 0 .. k |-> Turn(s, X, f, n)]}
<1>1. 0 \in S
  <2> DEFINE f == [n \in 0 .. 0 |-> <<>>]
  <2>1. \A n \in 0 .. 0 : Turn(s, X, f, n) = <<>>
    BY DEF Turn
  <2>2. f = [n \in 0 .. 0 |-> Turn(s, X, f, n)]
    BY <2>1
  <2> QED
    BY <2>2
<1>2. ASSUME NEW k \in Nat, k \in S PROVE k + 1 \in S
  <2>1. PICK f : f = [n \in 0 .. k |-> Turn(s, X, f, n)]
    BY <1>2
  <2> DEFINE g == [n \in 0 .. k + 1 |-> Turn(s, X, f, n)]
  <2>2. \A n \in 0 .. k : g[n] = f[n]
    <3> SUFFICES ASSUME NEW n \in 0 .. k PROVE g[n] = f[n]
      OBVIOUS
    <3>1. n \in 0 .. k + 1
      OBVIOUS
    <3>2. g[n] = Turn(s, X, f, n)
      BY <3>1
    <3>3. [j \in 0 .. k |-> Turn(s, X, f, j)][n] = Turn(s, X, f, n)
      OBVIOUS
    <3> QED
      BY <2>1, <3>2, <3>3
  <2>3. \A n \in 0 .. k + 1 : Turn(s, X, f, n) = Turn(s, X, g, n)
    <3> SUFFICES ASSUME NEW n \in 0 .. k + 1 PROVE Turn(s, X, f, n) = Turn(s, X, g, n)
      OBVIOUS
    <3>1. CASE n = 0
      BY <3>1 DEF Turn
    <3>2. CASE n # 0
      <4>1. n - 1 \in 0 .. k
        BY <3>2
      <4>2. f[n - 1] = g[n - 1]
        BY <2>2, <4>1
      <4> HIDE DEF g
      <4> QED
        BY <4>2 DEF Turn
    <3> QED
      BY <3>1, <3>2
  <2>4. g = [n \in 0 .. k + 1 |-> Turn(s, X, g, n)]
    <3>1. g = [n \in 0 .. k + 1 |-> Turn(s, X, f, n)]
      OBVIOUS
    <3> HIDE DEF g
    <3> QED
      BY <2>3, <3>1
  <2>5. \E h : h = [n \in 0 .. k + 1 |-> Turn(s, X, h, n)]
    BY <2>4
  <2> QED
    BY <2>5
<1>3. \A k \in Nat : k \in S
  <2> HIDE DEF S
  <2> QED
    BY <1>1, <1>2, Induction
<1> QED
  BY <1>3
\* Kept keeps the elements that are in the set, and no other, each as often.
LEMMA KeptElements ==
  ASSUME NEW C, NEW s \in Seq(C), NEW X
  PROVE  /\ Kept(s, X) \in Seq(C)
         /\ Range(Kept(s, X)) = Range(s) \cap X
         /\ IsInjective(s) => IsInjective(Kept(s, X))
<1> DEFINE F == CHOOSE f : f = [n \in 0 .. Len(s) |-> Turn(s, X, f, n)]
           Parts(n) == {s[k] : k \in 1 .. n}
           Good(n) == /\ F[n] \in Seq(C)
                      /\ Range(F[n]) = Parts(n) \cap X
                      /\ IsInjective(s) => IsInjective(F[n])
           S == {n \in Nat : n <= Len(s) => Good(n)}
<1>1. Len(s) \in Nat /\ DOMAIN s = 1 .. Len(s) /\ \A k \in 1 .. Len(s) : s[k] \in C
  OBVIOUS
<1>2. F = [n \in 0 .. Len(s) |-> Turn(s, X, F, n)]
  BY <1>1, KeptExists
<1>3. Kept(s, X) = F[Len(s)]
  BY DEF Kept, Turn
<1> HIDE DEF F
<1>4. \A n \in 0 .. Len(s) : F[n] = Turn(s, X, F, n)
  BY <1>2
<1>5. 0 \in S
  <2>1. F[0] = <<>>
    BY <1>1, <1>4 DEF Turn
  <2>2. <<>> \in Seq(C) /\ Range(<<>>) = {} /\ IsInjective(<<>>) /\ Parts(0) = {}
    BY DEF Range, IsInjective
  <2> QED
    BY <2>1, <2>2
<1>6. ASSUME NEW n \in Nat, n \in S PROVE n + 1 \in S
  <2> SUFFICES ASSUME n + 1 <= Len(s) PROVE Good(n + 1)
    OBVIOUS
  <2>1. Good(n)
    BY <1>1, <1>6
  <2>2. F[n + 1] = IF s[n + 1] \in X THEN Append(F[n], s[n + 1]) ELSE F[n]
    <3>1. n + 1 \in 0 .. Len(s) /\ n + 1 # 0 /\ (n + 1) - 1 = n
      BY <1>1
    <3> QED
      BY <1>4, <3>1 DEF Turn
  <2>3. s[n + 1] \in C /\ n + 1 \in DOMAIN s
    BY <1>1
  <2>4. Parts(n + 1) = Parts(n) \cup {s[n + 1]}
    OBVIOUS
  <2> DEFINE f == F[n]
             x == s[n + 1]
             g == F[n + 1]
  <2>5. f \in Seq(C) /\ Range(f) = Parts(n) \cap X /\ (IsInjective(s) => IsInjective(f))
    BY <2>1
  <2>6. IsInjective(s) => x \notin Parts(n)
    BY <1>1, <2>3 DEF IsInjective
  <2>7. CASE x \in X
    <3>1. g = Append(f, x)
      BY <2>2, <2>7
    <3> HIDE DEF f, x, g, Parts
    <3>2. /\ g \in Seq(C) /\ DOMAIN g = 1 .. Len(f) + 1 /\ Len(f) \in Nat /\ DOMAIN f = 1 .. Len(f)
          /\ g[Len(f) + 1] = x /\ \A k \in 1 .. Len(f) : g[k] = f[k]
      BY <2>3, <2>5, <3>1 DEF x
    <3>3. Range(g) = Range(f) \cup {x}
      BY <3>2 DEF Range
    <3>4. IsInjective(s) => IsInjective(g)
      <4> SUFFICES ASSUME IsInjective(s), NEW i \in 1 .. Len(f) + 1, NEW j \in 1 .. Len(f) + 1,
                          g[i] = g[j]
                   PROVE  i = j
        BY <3>2 DEF IsInjective
      <4>1. \A k \in 1 .. Len(f) : f[k] # x
        BY <2>5, <2>6, <3>2 DEF Range
      <4>2. \A p, q \in 1 .. Len(f) : f[p] = f[q] => p = q
        BY <2>5, <3>2 DEF IsInjective
      <4> QED
        BY <3>2, <4>1, <4>2
    <3> QED
      BY <2>4, <2>5, <2>7, <3>2, <3>3, <3>4 DEF g, x
  <2>8. CASE x \notin X
    BY <2>2, <2>4, <2>5, <2>8
  <2> QED
    BY <2>7, <2>8
<1>7. \A n \in Nat : n \in S
  <2> HIDE DEF S
  <2> QED
    BY <1>5, <1>6, Induction
<1>8. Good(Len(s))
  <2>1. Len(s) \in S /\ Len(s) <= Len(s)
    <3> HIDE DEF S
    <3> QED
      BY <1>1, <1>7
  <2> HIDE DEF Good
  <2> QED
    BY <2>1
<1>9. Parts(Len(s)) = Range(s)
  BY <1>1 DEF Range
<1> QED
  BY <1>3, <1>8, <1>9
-----------------------------------------------------------------------------
(* Searching and cutting the list of windows *)

\* The first index with element w, or 0.
LEMMA FirstIndex ==
  ASSUME NEW C, NEW s \in Seq(C), NEW w
  PROVE  LET k == SelectInSeq(s, LAMBDA v : v = w)
         IN  IF w \in Range(s) THEN k \in DOMAIN s /\ s[k] = w ELSE k = 0
<1> DEFINE I == {i \in 1 .. Len(s) : s[i] = w}
<1>1. DOMAIN s = 1 .. Len(s) /\ Len(s) \in Nat
  OBVIOUS
<1>2. SelectInSeq(s, LAMBDA v : v = w) = IF I # {} THEN Min(I) ELSE 0
  BY DEF SelectInSeq
<1>3. I # {} <=> w \in Range(s)
  BY <1>1 DEF Range
<1>4. ASSUME I # {} PROVE Min(I) \in I
  <2>1. I \subseteq Nat
    BY <1>1
  <2> HIDE DEF I
  <2> QED
    BY <1>4, <2>1, Least DEF Min
<1> HIDE DEF I
<1>5. CASE w \in Range(s)
  BY <1>1, <1>2, <1>3, <1>4, <1>5 DEF I
<1>6. CASE w \notin Range(s)
  BY <1>2, <1>3, <1>6
<1> QED
  BY <1>5, <1>6

\* getLastActiveWindow finds nothing, or a window of the list that is on the screen and of
\* the kind asked for.
LEMMA LastActiveIs ==
  ASSUME allWindows \in Seq(Nat), NEW b
  PROVE  LastActive(b) # 0 =>
           /\ LastActive(b) \in DOMAIN allWindows
           /\ allWindows[LastActive(b)] \in DOMAIN win
           /\ win[allWindows[LastActive(b)]].incognito = b
<1> DEFINE s == allWindows
           I == {i \in 1 .. Len(s) : s[i] \in DOMAIN win /\ win[s[i]].incognito = b}
           J == {Len(s) - i : i \in I}
<1>1. DOMAIN s = 1 .. Len(s) /\ Len(s) \in Nat
  OBVIOUS
<1>2. LastActive(b) = IF I # {} THEN Max(I) ELSE 0
  BY DEF LastActive, SelectLastInSeq
<1>3. ASSUME I # {} PROVE Max(I) \in I
  <2>1. I \subseteq 1 .. Len(s)
    OBVIOUS
  <2> HIDE DEF I
  <2>2. J \subseteq Nat /\ J # {}
    <3>1. \A i \in I : Len(s) - i \in Nat
      BY <1>1, <2>1
    <3> QED
      BY <1>3, <3>1
  <2>3. PICK j \in J : \A k \in J : j <= k
    <3> HIDE DEF J
    <3> QED
      BY <2>2, Least
  <2>4. PICK i \in I : j = Len(s) - i
    OBVIOUS
  <2>5. ASSUME NEW k \in I PROVE i >= k
    <3>1. j <= Len(s) - k /\ i \in 1 .. Len(s) /\ k \in 1 .. Len(s)
      BY <2>1, <2>3
    <3> QED
      BY <1>1, <2>4, <3>1
  <2> QED
    BY <2>5 DEF Max
<1> HIDE DEF I
<1>4. LastActive(b) # 0 => LastActive(b) \in I
  BY <1>2, <1>3
<1> QED
  BY <1>1, <1>4 DEF I

\* The list without its element at k.
LEMMA RemoveAtElements ==
  ASSUME NEW C, NEW s \in Seq(C), NEW k \in DOMAIN s, IsInjective(s)
  PROVE  /\ RemoveAt(s, k) \in Seq(C)
         /\ Len(RemoveAt(s, k)) = Len(s) - 1
         /\ Range(RemoveAt(s, k)) = Range(s) \ {s[k]}
         /\ IsInjective(RemoveAt(s, k))
<1> DEFINE r == RemoveAt(s, k)
           from(j) == IF j < k THEN j ELSE j + 1
<1>1. DOMAIN s = 1 .. Len(s) /\ Len(s) \in Nat /\ k \in 1 .. Len(s)
  OBVIOUS
<1>2. /\ SubSeq(s, 1, k - 1) \in Seq(C) /\ Len(SubSeq(s, 1, k - 1)) = k - 1
      /\ \A j \in 1 .. k - 1 : SubSeq(s, 1, k - 1)[j] = s[j]
  BY <1>1
<1>3. /\ SubSeq(s, k + 1, Len(s)) \in Seq(C) /\ Len(SubSeq(s, k + 1, Len(s))) = Len(s) - k
      /\ \A j \in 1 .. Len(s) - k : SubSeq(s, k + 1, Len(s))[j] = s[k + j]
  BY <1>1
<1>4. /\ r \in Seq(C) /\ Len(r) = Len(s) - 1 /\ DOMAIN r = 1 .. Len(s) - 1
      /\ \A j \in 1 .. Len(s) - 1 : r[j] = s[from(j)]
  <2> DEFINE a == SubSeq(s, 1, k - 1)
             b == SubSeq(s, k + 1, Len(s))
  <2>1. r = a \o b
    BY DEF RemoveAt
  <2>2. /\ a \in Seq(C) /\ Len(a) = k - 1 /\ \A j \in 1 .. k - 1 : a[j] = s[j]
        /\ b \in Seq(C) /\ Len(b) = Len(s) - k /\ \A j \in 1 .. Len(s) - k : b[j] = s[k + j]
    BY <1>2, <1>3
  <2> HIDE DEF a, b, r
  <2>3. /\ r \in Seq(C) /\ Len(r) = Len(a) + Len(b) /\ DOMAIN r = 1 .. Len(a) + Len(b)
        /\ \A j \in 1 .. Len(a) + Len(b) : r[j] = IF j <= Len(a) THEN a[j] ELSE b[j - Len(a)]
    <3>1. a \in Seq(C) /\ b \in Seq(C)
      BY <2>2
    <3> QED
      BY <2>1, <3>1
  <2>4. ASSUME NEW j \in 1 .. Len(s) - 1 PROVE r[j] = s[from(j)]
    <3>1. CASE j < k
      BY <1>1, <2>2, <2>3, <3>1
    <3>2. CASE ~(j < k)
      <4>1. j - (k - 1) \in 1 .. Len(s) - k /\ k + (j - (k - 1)) = j + 1
        BY <1>1, <3>2
      <4>2. r[j] = b[j - (k - 1)]
        BY <1>1, <2>2, <2>3, <3>2
      <4> QED
        BY <2>2, <3>2, <4>1, <4>2
    <3> QED
      BY <3>1, <3>2
  <2> QED
    BY <1>1, <2>2, <2>3, <2>4
<1> HIDE DEF r
<1>5. \A j \in DOMAIN r : from(j) \in DOMAIN s /\ from(j) # k
  BY <1>1, <1>4
<1>6. \A i \in DOMAIN s : i # k => \E j \in DOMAIN r : from(j) = i
  <2> SUFFICES ASSUME NEW i \in DOMAIN s, i # k PROVE \E j \in DOMAIN r : from(j) = i
    OBVIOUS
  <2>1. CASE i < k
    BY <1>1, <1>4, <2>1
  <2>2. CASE i > k
    <3>1. i - 1 \in DOMAIN r /\ from(i - 1) = i
      BY <1>1, <1>4, <2>2
    <3> QED
      BY <3>1
  <2> QED
    BY <1>1, <2>1, <2>2
<1>7. \A i, j \in DOMAIN r : from(i) = from(j) => i = j
  BY <1>1, <1>4
<1> HIDE DEF from
<1>8. Range(r) = Range(s) \ {s[k]}
  BY <1>4, <1>5, <1>6 DEF Range, IsInjective
<1>9. IsInjective(r)
  BY <1>4, <1>5, <1>7 DEF IsInjective
<1> QED
  BY <1>4, <1>8, <1>9 DEF r

\* The list with another element at the end.
LEMMA AppendElements ==
  ASSUME NEW C, NEW s \in Seq(C), NEW w \in C, IsInjective(s), w \notin Range(s)
  PROVE  /\ Append(s, w) \in Seq(C) /\ Range(Append(s, w)) = Range(s) \cup {w}
         /\ IsInjective(Append(s, w))
<1> DEFINE a == Append(s, w)
<1>1. /\ a \in Seq(C) /\ DOMAIN a = 1 .. Len(s) + 1 /\ Len(s) \in Nat /\ DOMAIN s = 1 .. Len(s)
      /\ a[Len(s) + 1] = w /\ \A k \in 1 .. Len(s) : a[k] = s[k]
  OBVIOUS
<1> HIDE DEF a
<1>2. Range(a) = Range(s) \cup {w}
  BY <1>1 DEF Range
<1>3. IsInjective(a)
  <2> SUFFICES ASSUME NEW i \in 1 .. Len(s) + 1, NEW j \in 1 .. Len(s) + 1, a[i] = a[j]
               PROVE  i = j
    BY <1>1 DEF IsInjective
  <2>1. \A k \in 1 .. Len(s) : s[k] # w
    BY <1>1 DEF Range
  <2>2. \A p, q \in 1 .. Len(s) : s[p] = s[q] => p = q
    BY <1>1 DEF IsInjective
  <2> QED
    BY <1>1, <2>1, <2>2
<1> QED
  BY <1>1, <1>2, <1>3 DEF a
-----------------------------------------------------------------------------
(* The tabs of one window *)

AnyTab == Tab \cup {Private}

\* A model that has tabs of A, one of which is current.
Holds(m, A) ==
  /\ m \in T!Model
  /\ m.tabs \in Seq(A) /\ m.tabs # <<>>
  /\ m.current \in 0 .. Len(m.tabs) - 1

\* What the session says of it, the order of the tabs left aside.
Shows(m) == [tabs |-> Range(m.tabs), shown |-> m.tabs[m.current + 1]]

\* A list, one of its indices and any tab: a model.
LEMMA HoldsWhole ==
  ASSUME NEW A, A \subseteq AnyTab, NEW l \in Seq(A), NEW c \in 0 .. Len(l) - 1,
         NEW b \in AnyTab \cup {NoTab}, NEW m, m = [tabs |-> l, current |-> c, bound |-> b]
  PROVE  Holds(m, A)
<1>1. /\ m.tabs = l /\ m.current = c /\ l # <<>> /\ c \in Int
      /\ l \in Seq(AnyTab)
  OBVIOUS
<1>2. m \in T!Model
  BY <1>1 DEF T!Model, AnyTab
<1> QED
  BY <1>1, <1>2 DEF Holds

LEMMA HoldsParts ==
  ASSUME NEW A, A \subseteq AnyTab, NEW m, Holds(m, A)
  PROVE  /\ m.tabs \in Seq(A) /\ Len(m.tabs) \in Nat /\ Len(m.tabs) > 0
         /\ DOMAIN m.tabs = 1 .. Len(m.tabs)
         /\ m.current \in Int /\ m.current \in 0 .. Len(m.tabs) - 1 /\ m.current # -1
         /\ m.bound \in AnyTab \cup {NoTab}
         /\ T!Count(m) = Len(m.tabs) /\ T!Valid(m, m.current)
         /\ T!CurrentTab(m) \in A
<1>1. /\ m.tabs \in Seq(A) /\ Len(m.tabs) \in Nat /\ Len(m.tabs) > 0
      /\ DOMAIN m.tabs = 1 .. Len(m.tabs)
      /\ m.current \in 0 .. Len(m.tabs) - 1 /\ m.bound \in AnyTab \cup {NoTab}
  BY DEF Holds, T!Model, AnyTab
<1>2. m.tabs[m.current + 1] \in A
  BY <1>1
<1> QED
  BY <1>1, <1>2 DEF T!Count, T!Valid, T!CurrentTab, T!Get

\* setCurrentIndex
LEMMA WithCurrentHolds ==
  ASSUME NEW A, A \subseteq AnyTab, NEW m, Holds(m, A), NEW i \in Int
  PROVE  /\ Holds(T!WithCurrent(m, i), A) /\ T!WithCurrent(m, i).tabs = m.tabs
         /\ T!WithCurrent(m, i).current = m.current => T!WithCurrent(m, i) = m
<1>1. /\ m.tabs \in Seq(A) /\ Len(m.tabs) \in Nat /\ m.current \in Int
  BY HoldsParts
<1>2. CASE T!Valid(m, i) /\ i # m.current
  <2> DEFINE n == [tabs |-> m.tabs, current |-> i, bound |-> m.tabs[i + 1]]
  <2>1. i \in 0 .. Len(m.tabs) - 1
    BY <1>2 DEF T!Valid, T!Count
  <2>2. T!WithCurrent(m, i) = n
    BY <1>2, <2>1 DEF T!WithCurrent, T!Notified
  <2>3. m.tabs[i + 1] \in A
    BY <1>1, <2>1
  <2>4. Holds(n, A)
    BY <1>1, <2>1, <2>3, HoldsWhole
  <2> QED
    BY <1>2, <2>2, <2>4
<1>3. CASE ~(T!Valid(m, i) /\ i # m.current)
  BY <1>3 DEF T!WithCurrent
<1> QED
  BY <1>2, <1>3

\* currentIndex = count - 1
LEMMA AtLastHolds ==
  ASSUME NEW A, A \subseteq AnyTab, NEW m, Holds(m, A)
  PROVE  /\ Holds(AtLast(m), A) /\ AtLast(m).tabs = m.tabs
         /\ AtLast(m).current = m.current => AtLast(m) = m
<1>1. T!Count(m) - 1 \in Int
  BY HoldsParts
<1> QED
  BY <1>1, WithCurrentHolds DEF AtLast

\* Tabs added at the end; an empty list gets a current tab.
LEMMA AddedHolds ==
  ASSUME NEW A, A \subseteq AnyTab, NEW ts \in Seq(A), NEW m,
         Holds(m, A) \/ (m = T!Empty /\ ts # <<>>)
  PROVE  /\ Holds(Added(m, ts), A)
         /\ Len(Added(m, ts).tabs) = Len(m.tabs) + Len(ts)
         /\ ts = <<>> => Added(m, ts) = m
<1> DEFINE l == m.tabs \o ts
           c == IF m.current = -1 THEN 0 ELSE m.current
           b == IF m.current = -1 THEN l[1] ELSE m.bound
           n == [tabs |-> l, current |-> c, bound |-> b]
<1>1. /\ m.tabs \in Seq(A) /\ Len(m.tabs) \in Nat
      /\ m.current = -1 \/ m.current \in 0 .. Len(m.tabs) - 1
      /\ m.bound \in AnyTab \cup {NoTab}
      /\ m.tabs # <<>> \/ ts # <<>>
  <2>1. CASE Holds(m, A)
    BY <2>1, HoldsParts
  <2>2. CASE m = T!Empty /\ ts # <<>>
    <3>1. m.tabs = <<>> /\ m.current = -1 /\ m.bound = NoTab
      BY <2>2 DEF T!Empty, T!Notified
    <3> QED
      BY <2>2, <3>1
  <2> QED
    BY <2>1, <2>2
<1>2. CASE ts = <<>>
  <2>1. Added(m, ts) = m /\ Holds(m, A) /\ Len(ts) = 0
    BY <1>2 DEF Added
  <2> QED
    BY <1>1, <2>1
<1>3. CASE ts # <<>>
  <2>1. l \in Seq(A) /\ Len(l) = Len(m.tabs) + Len(ts) /\ Len(ts) \in Nat /\ Len(ts) > 0
    BY <1>1, <1>3
  <2> HIDE DEF l
  <2>2. c \in 0 .. Len(l) - 1 /\ l[1] \in A
    BY <1>1, <2>1
  <2>3. b \in AnyTab \cup {NoTab}
    BY <1>1, <2>2
  <2>4. Added(m, ts) = n
    <3>1. 0 \in 0 .. Len(l) - 1 /\ 0 + 1 = 1
      BY <2>1, <1>1
    <3>2. CASE m.current = -1
      BY <1>3, <3>1, <3>2 DEF Added, T!Notified, l
    <3>3. CASE m.current # -1
      BY <1>3, <3>3 DEF Added, T!Unnotified, l
    <3> QED
      BY <3>2, <3>3
  <2> HIDE DEF c, b
  <2>5. n = [tabs |-> l, current |-> c, bound |-> b] /\ n.tabs = l
    OBVIOUS
  <2> HIDE DEF n
  <2>6. Holds(n, A)
    BY <2>1, <2>2, <2>3, <2>5, HoldsWhole
  <2> QED
    BY <1>3, <2>1, <2>4, <2>5, <2>6
<1> QED
  BY <1>2, <1>3

\* The URLs of a command line put in a window, one after another: it has them, and
\* one of them is current.
LEMMA OpenedHolds ==
  ASSUME NEW A, A \subseteq AnyTab, NEW ts \in Seq(A), ts # <<>>, NEW m,
         Holds(m, A) \/ m = T!Empty
  PROVE  Holds(AtEnd(m, ts), A) /\ Holds(OnTop(m, ts), A)
<1> DEFINE l == m.tabs \o ts
           r == Reverse(ts)
           k == r \o m.tabs
           last == Len(m.tabs) + Len(ts) - 1
<1>1. m.tabs \in Seq(A) /\ Len(m.tabs) \in Nat
  <2>1. CASE Holds(m, A)
    BY <2>1, HoldsParts
  <2>2. CASE m = T!Empty
    <3>1. m.tabs = <<>>
      BY <2>2 DEF T!Empty, T!Notified
    <3> QED
      BY <3>1
  <2> QED
    BY <2>1, <2>2
<1>2. Len(ts) \in Nat /\ Len(ts) > 0
  OBVIOUS
<1>3. r \in Seq(A) /\ Len(r) = Len(ts)
  <2>1. \A i \in 1 .. Len(ts) : ts[(Len(ts) - i) + 1] \in A
    BY <1>2
  <2>2. r = [i \in 1 .. Len(ts) |-> ts[(Len(ts) - i) + 1]]
    BY DEF Reverse
  <2>3. r \in [1 .. Len(ts) -> A]
    BY <2>1, <2>2
  <2> HIDE DEF r
  <2> QED
    BY <1>2, <2>3
<1> HIDE DEF r
<1>4. /\ l \in Seq(A) /\ Len(l) = Len(m.tabs) + Len(ts)
      /\ k \in Seq(A) /\ Len(k) = Len(ts) + Len(m.tabs)
  BY <1>1, <1>2, <1>3
<1> HIDE DEF l, k
<1>5. last \in 0 .. Len(l) - 1 /\ 0 \in 0 .. Len(k) - 1 /\ l[last + 1] \in A /\ k[1] \in A
  BY <1>1, <1>2, <1>4
<1>6. Holds(AtEnd(m, ts), A)
  <2>1. AtEnd(m, ts) = [tabs |-> l, current |-> last, bound |-> l[last + 1]]
    BY <1>5 DEF AtEnd, T!Notified, l
  <2> HIDE DEF last
  <2> QED
    BY <1>4, <1>5, <2>1, HoldsWhole
<1>7. Holds(OnTop(m, ts), A)
  <2>1. OnTop(m, ts) = [tabs |-> k, current |-> 0, bound |-> k[1]]
    <3>1. OnTop(m, ts) = T!Notified(k, 0)
      BY DEF OnTop, k, r
    <3>2. 0 + 1 = 1
      OBVIOUS
    <3> QED
      BY <1>5, <3>1, <3>2 DEF T!Notified
  <2> QED
    BY <1>4, <1>5, <2>1, HoldsWhole
<1> QED
  BY <1>6, <1>7

\* The list with a tab at index k.
LEMMA ListWithElements ==
  ASSUME NEW A, NEW s \in Seq(A), NEW t \in A, NEW k \in 0 .. Len(s)
  PROVE  /\ T!ListWith(s, t, k) \in Seq(A)
         /\ Len(T!ListWith(s, t, k)) = Len(s) + 1
         /\ DOMAIN T!ListWith(s, t, k) = 1 .. Len(s) + 1
         /\ \A j \in 1 .. Len(s) + 1 : T!ListWith(s, t, k)[j] =
              IF j <= k THEN s[j] ELSE IF j = k + 1 THEN t ELSE s[j - 1]
         /\ Range(T!ListWith(s, t, k)) = Range(s) \cup {t}
<1> DEFINE l == T!ListWith(s, t, k)
<1>1. Len(s) \in Nat /\ DOMAIN s = 1 .. Len(s) /\ \A j \in 1 .. Len(s) : s[j] \in A
  OBVIOUS
<1>2. l \in [1 .. Len(s) + 1 -> A]
  BY <1>1 DEF T!ListWith
<1>3. l \in Seq(A) /\ Len(l) = Len(s) + 1
  BY <1>1, <1>2
<1>4. \A j \in 1 .. Len(s) + 1 :
        l[j] = IF j <= k THEN s[j] ELSE IF j = k + 1 THEN t ELSE s[j - 1]
  BY <1>1 DEF T!ListWith
<1>5. DOMAIN l = 1 .. Len(s) + 1
  BY <1>2
<1> HIDE DEF l
<1>6. Range(l) \subseteq Range(s) \cup {t}
  <2> SUFFICES ASSUME NEW j \in 1 .. Len(s) + 1 PROVE l[j] \in Range(s) \cup {t}
    BY <1>5 DEF Range
  <2>1. CASE j <= k
    BY <1>1, <1>4, <2>1 DEF Range
  <2>2. CASE j = k + 1
    BY <1>4, <2>2
  <2>3. CASE j > k + 1
    <3>1. l[j] = s[j - 1] /\ j - 1 \in 1 .. Len(s)
      BY <1>1, <1>4, <2>3
    <3> QED
      BY <1>1, <3>1 DEF Range
  <2> QED
    BY <2>1, <2>2, <2>3
<1>7. t \in Range(l)
  <2>1. k + 1 \in 1 .. Len(s) + 1 /\ ~(k + 1 <= k)
    BY <1>1
  <2> QED
    BY <1>4, <1>5, <2>1 DEF Range
<1>8. Range(s) \subseteq Range(l)
  <2> SUFFICES ASSUME NEW i \in 1 .. Len(s) PROVE s[i] \in Range(l)
    BY <1>1 DEF Range
  <2>1. CASE i <= k
    <3>1. l[i] = s[i] /\ i \in 1 .. Len(s) + 1
      BY <1>1, <1>4, <2>1
    <3> QED
      BY <1>5, <3>1 DEF Range
  <2>2. CASE i > k
    <3>1. l[i + 1] = s[i] /\ i + 1 \in 1 .. Len(s) + 1
      BY <1>1, <1>4, <2>2
    <3> QED
      BY <1>5, <3>1 DEF Range
  <2> QED
    BY <1>1, <2>1, <2>2
<1> QED
  BY <1>3, <1>4, <1>5, <1>6, <1>7, <1>8 DEF l

\* The list without the tab at index k: with it, it has the tabs that it had.
LEMMA ListWithoutElements ==
  ASSUME NEW A, NEW s \in Seq(A), NEW k \in 0 .. Len(s) - 1
  PROVE  /\ T!ListWithout(s, k) \in Seq(A)
         /\ Len(T!ListWithout(s, k)) = Len(s) - 1
         /\ \A j \in 1 .. Len(s) - 1 : T!ListWithout(s, k)[j] =
              IF j <= k THEN s[j] ELSE s[j + 1]
         /\ Range(T!ListWithout(s, k)) \cup {s[k + 1]} = Range(s)
<1> DEFINE l == T!ListWithout(s, k)
<1>1. /\ Len(s) \in Nat /\ DOMAIN s = 1 .. Len(s) /\ \A j \in 1 .. Len(s) : s[j] \in A
      /\ k + 1 \in 1 .. Len(s)
  OBVIOUS
<1>2. l \in [1 .. Len(s) - 1 -> A]
  BY <1>1 DEF T!ListWithout
<1>3. l \in Seq(A) /\ Len(l) = Len(s) - 1
  <2>1. Len(s) - 1 \in Nat
    BY <1>1
  <2> HIDE DEF l
  <2> QED
    BY <1>2, <2>1
<1>4. \A j \in 1 .. Len(s) - 1 : l[j] = IF j <= k THEN s[j] ELSE s[j + 1]
  BY <1>1 DEF T!ListWithout
<1>5. DOMAIN l = 1 .. Len(s) - 1
  BY <1>2
<1> HIDE DEF l
<1>6. Range(l) \subseteq Range(s)
  <2> SUFFICES ASSUME NEW j \in 1 .. Len(s) - 1 PROVE l[j] \in Range(s)
    BY <1>5 DEF Range
  <2>1. j \in 1 .. Len(s) /\ j + 1 \in 1 .. Len(s)
    BY <1>1
  <2> QED
    BY <1>1, <1>4, <2>1 DEF Range
<1>7. Range(s) \subseteq Range(l) \cup {s[k + 1]}
  <2> SUFFICES ASSUME NEW i \in 1 .. Len(s) PROVE s[i] \in Range(l) \cup {s[k + 1]}
    BY <1>1 DEF Range
  <2>1. CASE i <= k
    <3>1. l[i] = s[i] /\ i \in 1 .. Len(s) - 1
      BY <1>1, <1>4, <2>1
    <3> QED
      BY <1>5, <3>1 DEF Range
  <2>2. CASE i = k + 1
    BY <2>2
  <2>3. CASE i > k + 1
    <3>1. i - 1 \in 1 .. Len(s) - 1 /\ ~(i - 1 <= k) /\ (i - 1) + 1 = i
      BY <1>1, <2>3
    <3>2. l[i - 1] = s[i]
      BY <1>4, <3>1
    <3> QED
      BY <1>5, <3>1, <3>2 DEF Range
  <2> QED
    BY <1>1, <2>1, <2>2, <2>3
<1>8. s[k + 1] \in Range(s)
  BY <1>1 DEF Range
<1> QED
  BY <1>3, <1>4, <1>6, <1>7, <1>8 DEF l
\* move: the same tabs, and the same current one.
LEMMA MoveHolds ==
  ASSUME NEW A, A \subseteq AnyTab, NEW m, Holds(m, A), NEW from \in Int, NEW to \in Int
  PROVE  /\ Holds(T!Move(m, from, to), A) /\ Shows(T!Move(m, from, to)) = Shows(m)
         /\ Len(T!Move(m, from, to).tabs) = Len(m.tabs)
<1> DEFINE s == m.tabs
           c == m.current
           t == s[from + 1]
           r == T!ListWithout(s, from)
           l == T!ListWith(r, t, to)
           d == T!MovedIndex(c, from, to)
           n == [tabs |-> l, current |-> d, bound |-> m.bound]
<1>1. /\ s \in Seq(A) /\ Len(s) \in Nat /\ Len(s) > 0 /\ DOMAIN s = 1 .. Len(s)
      /\ c \in 0 .. Len(s) - 1 /\ c \in Int /\ m.bound \in AnyTab \cup {NoTab}
  BY HoldsParts
<1>2. CASE from = to \/ ~T!Valid(m, from) \/ ~T!Valid(m, to)
  BY <1>2 DEF T!Move
<1>3. CASE ~(from = to \/ ~T!Valid(m, from) \/ ~T!Valid(m, to))
  <2>1. from \in 0 .. Len(s) - 1 /\ to \in 0 .. Len(s) - 1 /\ from # to
    BY <1>3 DEF T!Valid, T!Count
  <2>2. t \in A
    BY <1>1, <2>1
  <2>3. T!Move(m, from, to) = n
    BY <1>3 DEF T!Move, T!Unnotified
  <2>4. /\ r \in Seq(A) /\ Len(r) = Len(s) - 1
        /\ \A j \in 1 .. Len(s) - 1 : r[j] = IF j <= from THEN s[j] ELSE s[j + 1]
        /\ Range(r) \cup {t} = Range(s)
    BY <1>1, <2>1, ListWithoutElements
  <2> HIDE DEF r, t, s
  <2>5. to \in 0 .. Len(r)
    BY <1>1, <2>1, <2>4
  <2>6. /\ l \in Seq(A) /\ Len(l) = Len(r) + 1
        /\ \A j \in 1 .. Len(r) + 1 :
             l[j] = IF j <= to THEN r[j] ELSE IF j = to + 1 THEN t ELSE r[j - 1]
        /\ Range(l) = Range(r) \cup {t}
    <3>1. r \in Seq(A) /\ t \in A /\ to \in 0 .. Len(r)
      BY <2>2, <2>4, <2>5
    <3> QED
      BY <3>1, ListWithElements
  <2> HIDE DEF l, c
  <2>7. d \in 0 .. Len(l) - 1
    BY <1>1, <2>1, <2>4, <2>6 DEF T!MovedIndex
  <2>8. l[d + 1] = s[c + 1]
    <3>1. CASE c = from
      BY <1>1, <2>1, <2>4, <2>6, <3>1 DEF T!MovedIndex, t
    <3>2. CASE c # from /\ c >= to /\ c < from
      <4>1. d = c + 1 /\ d + 1 \in 1 .. Len(r) + 1 /\ d + 1 > to + 1
        BY <1>1, <2>1, <2>4, <3>2 DEF T!MovedIndex
      <4>2. l[d + 1] = r[c + 1] /\ c + 1 \in 1 .. Len(s) - 1 /\ c + 1 <= from
        BY <1>1, <2>1, <2>4, <2>6, <3>2, <4>1
      <4> QED
        BY <2>4, <4>2
    <3>3. CASE c > from /\ c <= to
      BY <1>1, <2>1, <2>4, <2>6, <3>3 DEF T!MovedIndex
    <3>4. CASE c # from /\ ~(c >= to /\ c < from) /\ ~(c > from /\ c <= to)
      <4>1. d = c /\ ((c < from /\ c < to) \/ (c > from /\ c > to))
        BY <1>1, <2>1, <3>4 DEF T!MovedIndex
      <4>2. CASE c < from /\ c < to
        <5>1. l[c + 1] = r[c + 1] /\ c + 1 \in 1 .. Len(s) - 1 /\ c + 1 <= from
          BY <1>1, <2>1, <2>4, <2>6, <4>2
        <5> QED
          BY <2>4, <4>1, <5>1
      <4>3. CASE c > from /\ c > to
        <5>1. l[c + 1] = r[c] /\ c \in 1 .. Len(s) - 1 /\ c > from
          BY <1>1, <2>1, <2>4, <2>6, <4>3
        <5> QED
          BY <2>4, <4>1, <5>1
      <4> QED
        BY <4>1, <4>2, <4>3
    <3> QED
      BY <1>1, <2>1, <3>1, <3>2, <3>3, <3>4
  <2> HIDE DEF d
  <2>9. n = [tabs |-> l, current |-> d, bound |-> m.bound] /\ n.tabs = l /\ n.current = d
    OBVIOUS
  <2> HIDE DEF n
  <2>10. Holds(n, A)
    BY <1>1, <2>6, <2>7, <2>9, HoldsWhole
  <2>11. Range(l) = Range(s)
    BY <2>4, <2>6
  <2>12. Shows(n) = Shows(m)
    BY <2>8, <2>9, <2>11 DEF Shows, s, c
  <2>13. Len(l) = Len(s)
    BY <1>1, <2>4, <2>6
  <2> QED
    BY <2>3, <2>9, <2>10, <2>12, <2>13 DEF s
<1> QED
  BY <1>2, <1>3

\* The handler of currentIndexChanged.
LEMMA StackedHolds ==
  ASSUME NEW A, A \subseteq AnyTab, NEW m, NEW n, Holds(n, A)
  PROVE  Holds(Stacked(m, n), A) /\ Shows(Stacked(m, n)) = Shows(n)
<1>1. n.current \in Int
  BY HoldsParts
<1>2. Holds(T!Move(n, n.current, 0), A) /\ Shows(T!Move(n, n.current, 0)) = Shows(n)
  BY <1>1, MoveHolds
<1> QED
  BY <1>2 DEF Stacked

\* remove, when the tab is not the last one.
LEMMA RemoveHolds ==
  ASSUME NEW A, A \subseteq AnyTab, NEW m, Holds(m, A), NEW i \in Int, T!Valid(m, i),
         T!Count(m) > 1
  PROVE  Holds(T!Remove(m, i), A) /\ T!Count(T!Remove(m, i)) = T!Count(m) - 1
<1> DEFINE s == m.tabs
           c == m.current
           l == T!ListWithout(s, i)
           d == IF i < c THEN c - 1 ELSE c
           e == IF i = Len(l) THEN i - 1 ELSE i
<1>1. /\ s \in Seq(A) /\ Len(s) \in Nat /\ Len(s) > 1 /\ i \in 0 .. Len(s) - 1
      /\ c \in 0 .. Len(s) - 1 /\ c \in Int /\ m.bound \in AnyTab \cup {NoTab}
  BY HoldsParts DEF T!Valid, T!Count
<1>2. l \in Seq(A) /\ Len(l) = Len(s) - 1
  BY <1>1, ListWithoutElements
<1>3. T!Remove(m, i) = IF i = c THEN T!Notified(l, e)
                       ELSE [tabs |-> l, current |-> d, bound |-> m.bound]
  BY DEF T!Remove, T!Unnotified
<1> HIDE DEF l, s, c
<1>4. CASE i = c
  <2> DEFINE n == [tabs |-> l, current |-> e, bound |-> l[e + 1]]
  <2>1. e \in 0 .. Len(l) - 1
    BY <1>1, <1>2
  <2> HIDE DEF e
  <2>2. T!Remove(m, i) = n /\ l[e + 1] \in A
    BY <1>2, <1>3, <1>4, <2>1 DEF T!Notified
  <2>3. n = [tabs |-> l, current |-> e, bound |-> l[e + 1]] /\ n.tabs = l
    OBVIOUS
  <2> HIDE DEF n
  <2>4. Holds(n, A)
    BY <1>2, <2>1, <2>2, <2>3, HoldsWhole
  <2> QED
    BY <1>2, <2>2, <2>3, <2>4 DEF T!Count, s
<1>5. CASE i # c
  <2> DEFINE n == [tabs |-> l, current |-> d, bound |-> m.bound]
  <2>1. d \in 0 .. Len(l) - 1
    BY <1>1, <1>2, <1>5
  <2> HIDE DEF d
  <2>2. T!Remove(m, i) = n
    BY <1>3, <1>5
  <2>3. n = [tabs |-> l, current |-> d, bound |-> m.bound] /\ n.tabs = l
    OBVIOUS
  <2> HIDE DEF n
  <2>4. Holds(n, A)
    BY <1>1, <1>2, <2>1, <2>3, HoldsWhole
  <2> QED
    BY <1>2, <2>2, <2>3, <2>4 DEF T!Count, s
<1> QED
  BY <1>4, <1>5

\* insert at the end, in a list that has tabs.
LEMMA InsertHolds ==
  ASSUME NEW A, A \subseteq AnyTab, NEW m, Holds(m, A), NEW t \in A
  PROVE  /\ Holds(T!Insert(m, t, T!Count(m)), A)
         /\ Len(T!Insert(m, t, T!Count(m)).tabs) = Len(m.tabs) + 1
<1> DEFINE s == m.tabs
           l == T!ListWith(s, t, Len(s))
           n == [tabs |-> l, current |-> m.current, bound |-> m.bound]
<1>1. /\ s \in Seq(A) /\ Len(s) \in Nat /\ m.current \in 0 .. Len(s) - 1
      /\ m.bound \in AnyTab \cup {NoTab} /\ m.current # -1 /\ m.current \in Int
  BY HoldsParts
<1>2. l \in Seq(A) /\ Len(l) = Len(s) + 1
  <2>1. Len(s) \in 0 .. Len(s)
    BY <1>1
  <2>2. s \in Seq(A) /\ t \in A
    BY <1>1
  <2> QED
    BY <2>1, <2>2, ListWithElements
<1>3. T!Clamp(m, T!Count(m)) = Len(s)
  BY <1>1 DEF T!Clamp, T!Count
<1>4. T!Insert(m, t, T!Count(m)) = n
  <2>1. Len(s) # m.current /\ ~(Len(s) < m.current)
    BY <1>1
  <2> QED
    BY <1>1, <1>3, <2>1 DEF T!Insert, T!Unnotified
<1> HIDE DEF l
<1>5. m.current \in 0 .. Len(l) - 1
  BY <1>1, <1>2
<1>6. n = [tabs |-> l, current |-> m.current, bound |-> m.bound] /\ n.tabs = l
  OBVIOUS
<1> HIDE DEF n
<1>7. Holds(n, A)
  BY <1>1, <1>2, <1>5, <1>6, HoldsWhole
<1> QED
  BY <1>2, <1>4, <1>6, <1>7
-----------------------------------------------------------------------------
(* The inductive invariant *)

TabsFor(incognito) == IF incognito THEN {Private} ELSE Tab

\* A window with tabs of its own kind.
GoodWindow(x) == /\ x \in [incognito : BOOLEAN, model : T!Model]
                 /\ Holds(x.model, TabsFor(x.incognito))

SavedWindow == [tabs : Seq(Tab), current : Int]
GoodSession(s) == /\ s \in Seq(SavedWindow)
                  /\ \A i \in DOMAIN s : /\ s[i].tabs # <<>>
                                         /\ s[i].current \in 0 .. Len(s[i].tabs) - 1

\* What the session of a set of windows is, their order left aside.
Matches(s, ids, windows) ==
  /\ Len(s) = Cardinality(ids)
  /\ {Content(s[i]) : i \in DOMAIN s} = {Shows(windows[w].model) : w \in ids}

Types == /\ wide \in BOOLEAN /\ armed \in BOOLEAN
         /\ \A w \in DOMAIN win : GoodWindow(win[w])
         /\ allWindows \in Seq(Nat)
         /\ GoodSession(session)
Listed == state = "running" => Range(allWindows) = DOMAIN win /\ IsInjective(allWindows)
Quiet == state = "running" /\ locked /\ ~armed /\ NormalIds # {} => Matches(session, NormalIds, win)
Traced == state = "running" /\ traces => \E w \in DOMAIN win : win[w].incognito

SessionInv == Types /\ Listed /\ Quiet /\ Traced

LEMMA TabsForAny == ASSUME NEW b \in BOOLEAN PROVE TabsFor(b) \subseteq AnyTab
BY DEF TabsFor, AnyTab

LEMMA NewTabsAre ==
  ASSUME NEW b \in BOOLEAN, NEW ts \in NewTabs(b)
  PROVE  ts \in Seq(TabsFor(b)) /\ ts # <<>>
<1>1. CASE b
  <2>1. ts \in BoundedSeq({Private}, MaxUrls) /\ ts # <<>>
    BY <1>1 DEF NewTabs
  <2>2. PICK n \in 0 .. MaxUrls : ts \in [1 .. n -> {Private}]
    BY <2>1 DEF BoundedSeq, SeqOf
  <2>3. ts \in Seq({Private})
    BY <2>2
  <2> QED
    BY <1>1, <2>1, <2>3 DEF TabsFor
<1>2. CASE ~b
  <2> DEFINE B == Tab \ UNION {Range(win[w].model.tabs) : w \in DOMAIN win}
  <2>1. ts \in BoundedSeq(B, MaxUrls) /\ ts # <<>>
    BY <1>2 DEF NewTabs
  <2> HIDE DEF B
  <2>2. PICK n \in 0 .. MaxUrls : ts \in [1 .. n -> B]
    BY <2>1 DEF BoundedSeq, SeqOf
  <2>3. B \subseteq Tab
    BY DEF B
  <2>4. ts \in Seq(Tab)
    BY <2>2, <2>3
  <2> QED
    BY <1>2, <2>1, <2>4 DEF TabsFor
<1> QED
  BY <1>1, <1>2

\* The properties follow.
LEMMA InvListed == SessionInv => WindowsListed
<1> SUFFICES ASSUME SessionInv, state = "running", NEW w \in DOMAIN win
             PROVE  T!CurrentTab(win[w].model) # NoTab
  BY DEF SessionInv, Listed, WindowsListed
<1>1. GoodWindow(win[w])
  BY DEF SessionInv, Types
<1>2. TabsFor(win[w].incognito) \subseteq AnyTab /\ Holds(win[w].model, TabsFor(win[w].incognito))
  BY <1>1, TabsForAny DEF GoodWindow
<1>3. T!CurrentTab(win[w].model) \in AnyTab
  BY <1>2, HoldsParts
<1> QED
  BY <1>3, SessionAssumption DEF AnyTab

LEMMA InvQuiet == SessionInv => SavedWhenQuiet
BY DEF SessionInv, Quiet, Matches, SavedWhenQuiet, Content, Saved, Shows

LEMMA InvTraces == SessionInv => NoIncognitoTraces
<1> SUFFICES ASSUME SessionInv PROVE Private \notin TabsOf(session)
  BY DEF SessionInv, Traced, NoIncognitoTraces
<1>1. \A i \in DOMAIN session : session[i].tabs \in Seq(Tab)
  <2>1. session \in Seq(SavedWindow)
    BY DEF SessionInv, Types, GoodSession
  <2>2. \A i \in DOMAIN session : session[i] \in SavedWindow
    BY <2>1
  <2> QED
    BY <2>2 DEF SavedWindow
<1>2. \A i \in DOMAIN session : Range(session[i].tabs) \subseteq Tab
  BY <1>1 DEF Range
<1> QED
  BY <1>2, SessionAssumption DEF TabsOf

-----------------------------------------------------------------------------
(* Saving *)

\* What is saved is a session, without incognito windows, whatever windows are listed.
LEMMA SaveTypes ==
  ASSUME SessionInv
  PROVE  GoodSession(Save)
<1> DEFINE X == {w \in Range(allWindows) : w \in DOMAIN win => Normal(win[w])}
           ws == Kept(allWindows, X)
           s == [i \in DOMAIN ws |-> Saved(win[ws[i]])]
<1>1. GoodSession(session) /\ allWindows \in Seq(Nat) /\ \A w \in DOMAIN win : GoodWindow(win[w])
  BY DEF SessionInv, Types
<1>2. Save = IF locked /\ ws # <<>> /\ Range(ws) \subseteq DOMAIN win THEN s ELSE session
  BY DEF Save
<1>3. ws \in Seq(Nat) /\ Range(ws) = Range(allWindows) \cap X
  BY <1>1, KeptElements
<1> HIDE DEF ws
<1>4. ASSUME Range(ws) \subseteq DOMAIN win PROVE GoodSession(s)
  <2>1. ASSUME NEW i \in DOMAIN ws
        PROVE  /\ Saved(win[ws[i]]) \in SavedWindow
               /\ Saved(win[ws[i]]).tabs # <<>>
               /\ Saved(win[ws[i]]).current \in 0 .. Len(Saved(win[ws[i]]).tabs) - 1
    <3>1. ws[i] \in Range(ws)
      BY DEF Range
    <3>2. GoodWindow(win[ws[i]]) /\ Normal(win[ws[i]])
      BY <1>1, <1>3, <1>4, <3>1
    <3>3. Holds(win[ws[i]].model, Tab)
      BY <3>2 DEF GoodWindow, Normal, TabsFor
    <3> QED
      BY <3>3 DEF Holds, Saved, SavedWindow, T!Model
  <2>2. DOMAIN ws = 1 .. Len(ws) /\ Len(ws) \in Nat
    BY <1>3
  <2>3. s \in [1 .. Len(ws) -> SavedWindow]
    BY <2>1, <2>2
  <2>4. s \in Seq(SavedWindow) /\ DOMAIN s = DOMAIN ws
    BY <2>2, <2>3
  <2> QED
    BY <2>1, <2>4 DEF GoodSession
<1> QED
  BY <1>1, <1>2, <1>4

\* While the browser runs, it saves its normal windows.
LEMMA SaveMatches ==
  ASSUME SessionInv, state = "running", locked, NormalIds # {}
  PROVE  Matches(Save, NormalIds, win)
<1> DEFINE X == {w \in Range(allWindows) : w \in DOMAIN win => Normal(win[w])}
           ws == Kept(allWindows, X)
           s == [i \in DOMAIN ws |-> Saved(win[ws[i]])]
<1>1. /\ allWindows \in Seq(Nat) /\ \A w \in DOMAIN win : GoodWindow(win[w])
      /\ Range(allWindows) = DOMAIN win /\ IsInjective(allWindows)
  BY DEF SessionInv, Types, Listed
<1>2. ws \in Seq(Nat) /\ Range(ws) = Range(allWindows) \cap X /\ IsInjective(ws)
  BY <1>1, KeptElements
<1>3. Range(ws) = NormalIds
  BY <1>1, <1>2 DEF NormalIds
<1>4. Save = s
  <2>1. ws # <<>>
    BY <1>3 DEF Range
  <2> HIDE DEF s
  <2> QED
    BY <1>1, <1>2, <2>1 DEF Save, s
<1> HIDE DEF ws
<1>5. DOMAIN ws = 1 .. Len(ws) /\ Len(ws) \in Nat
  BY <1>2
<1>6. Cardinality(NormalIds) = Len(ws)
  <2>1. ws \in Bijection(1 .. Len(ws), NormalIds)
    BY <1>2, <1>3, <1>5 DEF Bijection, Injection, Surjection, IsInjective, Range
  <2>2. ExistsBijection(1 .. Len(ws), NormalIds)
    BY <2>1 DEF ExistsBijection
  <2> QED
    BY <1>5, <2>2, FS_CountingElements
<1>7. Len(s) = Len(ws) /\ DOMAIN s = DOMAIN ws
  BY <1>5
<1>8. {Content(s[i]) : i \in DOMAIN s} = {Shows(win[w].model) : w \in NormalIds}
  <2>1. \A i \in DOMAIN ws : Content(s[i]) = Shows(win[ws[i]].model)
    BY DEF Content, Saved, Shows
  <2> HIDE DEF s
  <2>2. NormalIds = {ws[i] : i \in DOMAIN ws}
    BY <1>3 DEF Range
  <2> QED
    BY <1>7, <2>1, <2>2
<1> QED
  BY <1>4, <1>6, <1>7, <1>8 DEF Matches
-----------------------------------------------------------------------------
(* Steps of one window *)

\* The tabs of window w change: the invariant is kept if the timer is armed, or the session
\* says of the window what it said.
LEMMA ChangeStep ==
  ASSUME SessionInv, state = "running", NEW w \in DOMAIN win, NEW m,
         Holds(m, TabsFor(win[w].incognito)), Changes(w, m),
         UNCHANGED <<wide, allWindows, session, locked, traces, state, runs>>,
         ~armed' /\ Normal(win[w]) => Shows(m) = Shows(win[w].model)
  PROVE  SessionInv'
<1> DEFINE n == Stacked(win[w].model, m)
           x == [win[w] EXCEPT !.model = n]
<1>1. Types /\ Listed /\ Quiet /\ Traced
  BY DEF SessionInv
<1>2. win[w] \in [incognito : BOOLEAN, model : T!Model] /\ win[w].incognito \in BOOLEAN
  BY <1>1 DEF Types, GoodWindow
<1>3. Holds(n, TabsFor(win[w].incognito)) /\ Shows(n) = Shows(m)
  <2>1. TabsFor(win[w].incognito) \subseteq AnyTab
    BY <1>2, TabsForAny
  <2> QED
    BY <2>1, StackedHolds
<1>4. GoodWindow(x) /\ x.incognito = win[w].incognito /\ x.model = n
  <2>1. n \in T!Model
    BY <1>3 DEF Holds
  <2> HIDE DEF n
  <2>2. x \in [incognito : BOOLEAN, model : T!Model] /\ x.incognito = win[w].incognito /\ x.model = n
    BY <1>2, <2>1
  <2> HIDE DEF x
  <2> QED
    BY <1>3, <2>2 DEF GoodWindow, n
<1>5. DOMAIN win' = DOMAIN win /\ \A v \in DOMAIN win : win'[v] = IF v = w THEN x ELSE win[v]
  BY DEF Changes
<1> HIDE DEF x, n
<1>6. Types'
  <2>1. armed' \in BOOLEAN
    BY <1>1 DEF Types, Changes, ArmedBy
  <2>2. \A v \in DOMAIN win' : GoodWindow(win'[v])
    BY <1>1, <1>4, <1>5 DEF Types
  <2> QED
    BY <1>1, <2>1, <2>2 DEF Types
<1>7. Listed'
  BY <1>1, <1>5 DEF Listed
<1>8. \A v \in DOMAIN win : win'[v].incognito = win[v].incognito
  BY <1>4, <1>5
<1>9. Quiet'
  <2> SUFFICES ASSUME locked, ~armed', NormalIds' # {} PROVE Matches(session, NormalIds', win')
    BY DEF Quiet
  <2>1. NormalIds' = NormalIds
    BY <1>5, <1>8 DEF NormalIds, Normal
  <2>2. ~armed
    BY DEF Changes, ArmedBy
  <2>3. Matches(session, NormalIds, win)
    BY <1>1, <2>1, <2>2 DEF Quiet
  <2>4. \A v \in NormalIds : Shows(win'[v].model) = Shows(win[v].model)
    <3> SUFFICES ASSUME NEW v \in NormalIds PROVE Shows(win'[v].model) = Shows(win[v].model)
      OBVIOUS
    <3>1. v \in DOMAIN win /\ Normal(win[v])
      BY DEF NormalIds
    <3>2. CASE v = w
      BY <1>3, <1>4, <1>5, <3>1, <3>2 DEF n
    <3>3. CASE v # w
      BY <1>5, <3>1, <3>3
    <3> QED
      BY <3>2, <3>3
  <2>5. {Shows(win'[v].model) : v \in NormalIds} = {Shows(win[v].model) : v \in NormalIds}
    BY <2>4
  <2> QED
    BY <2>1, <2>3, <2>5 DEF Matches
<1>10. Traced'
  BY <1>1, <1>5, <1>8 DEF Traced
<1> QED
  BY <1>6, <1>7, <1>9, <1>10 DEF SessionInv

\* What the lemmas about a window's tabs need of it.
LEMMA WindowIs ==
  ASSUME SessionInv, NEW w \in DOMAIN win
  PROVE  /\ win[w].incognito \in BOOLEAN /\ TabsFor(win[w].incognito) \subseteq AnyTab
         /\ Holds(win[w].model, TabsFor(win[w].incognito))
<1>1. GoodWindow(win[w])
  BY DEF SessionInv, Types
<1>2. win[w].incognito \in BOOLEAN
  BY <1>1 DEF GoodWindow
<1> QED
  BY <1>1, <1>2, TabsForAny DEF GoodWindow

\* The timer is not armed: as many tabs as before, and the current one where it was.
LEMMA NotArmed ==
  ASSUME NEW w, NEW m, Changes(w, m), ~armed', Normal(win[w])
  PROVE  T!Count(win[w].model) = T!Count(m) /\ win[w].model.current = m.current
BY DEF Changes, ArmedBy, Normal

LEMMA SelectTabStep ==
  ASSUME SessionInv, NEW w \in Ids, NEW i \in Index, SelectTab(w, i)
  PROVE  SessionInv'
<1> DEFINE m == T!WithCurrent(win[w].model, i)
<1>1. state = "running" /\ w \in DOMAIN win /\ Changes(w, m)
      /\ UNCHANGED <<wide, allWindows, session, locked, traces, state, runs>>
  BY DEF SelectTab
<1>2. i \in Int
  BY DEF Index
<1>3. Holds(m, TabsFor(win[w].incognito)) /\ (m.current = win[w].model.current => m = win[w].model)
  BY <1>1, <1>2, WindowIs, WithCurrentHolds
<1> HIDE DEF m
<1>4. ~armed' /\ Normal(win[w]) => Shows(m) = Shows(win[w].model)
  BY <1>1, <1>3, NotArmed
<1> QED
  BY <1>1, <1>3, <1>4, ChangeStep

LEMMA MoveTabStep ==
  ASSUME SessionInv, NEW w \in Ids, NEW i \in Index, NEW j \in Index, MoveTab(w, i, j)
  PROVE  SessionInv'
<1> DEFINE m == T!Move(win[w].model, i, j)
<1>1. state = "running" /\ w \in DOMAIN win /\ Changes(w, m)
      /\ UNCHANGED <<wide, allWindows, session, locked, traces, state, runs>>
  BY DEF MoveTab
<1>2. i \in Int /\ j \in Int
  BY DEF Index
<1>3. Holds(m, TabsFor(win[w].incognito)) /\ Shows(m) = Shows(win[w].model)
  BY <1>1, <1>2, WindowIs, MoveHolds
<1> HIDE DEF m
<1> QED
  BY <1>1, <1>3, ChangeStep

LEMMA OpenLinkStep ==
  ASSUME SessionInv, NEW w \in Ids, NEW b \in BOOLEAN, OpenLinkInNewTab(w, b)
  PROVE  SessionInv'
<1> DEFINE A == TabsFor(win[w].incognito)
           x == win[w].model
<1>1. state = "running" /\ w \in DOMAIN win
      /\ UNCHANGED <<wide, allWindows, session, locked, traces, state, runs>>
  BY DEF OpenLinkInNewTab
<1>2. win[w].incognito \in BOOLEAN /\ A \subseteq AnyTab /\ Holds(x, A)
  BY <1>1, WindowIs
<1>3. PICK ts \in NewTabs(win[w].incognito) :
        LET n == T!Insert(x, ts[1], T!Count(x)) IN Len(ts) = 1 /\ Changes(w, IF b THEN n ELSE AtLast(n))
  BY DEF OpenLinkInNewTab
<1> DEFINE n == T!Insert(x, ts[1], T!Count(x))
           m == IF b THEN n ELSE AtLast(n)
<1>4. ts[1] \in A
  BY <1>2, <1>3, NewTabsAre
<1> HIDE DEF A
<1>5. Holds(n, A) /\ Len(n.tabs) = Len(x.tabs) + 1
  BY <1>2, <1>4, InsertHolds
<1>6. Changes(w, m)
  BY <1>3
<1> HIDE DEF n, x
<1>7. Holds(m, A) /\ m.tabs = n.tabs
  BY <1>2, <1>5, AtLastHolds
<1>8. Len(x.tabs) \in Nat /\ T!Count(x) = Len(x.tabs) /\ T!Count(m) = Len(x.tabs) + 1
  BY <1>2, <1>5, <1>7, HoldsParts
<1> HIDE DEF m
<1>9. ~armed' /\ Normal(win[w]) => FALSE
  <2> SUFFICES ASSUME ~armed', Normal(win[w]) PROVE FALSE
    OBVIOUS
  <2>1. T!Count(x) = T!Count(m)
    BY <1>6, NotArmed DEF x
  <2> QED
    BY <1>8, <2>1
<1> QED
  BY <1>1, <1>6, <1>7, <1>9, ChangeStep DEF A

\* A window whose tabs are new is put in the place of w, or at a new place: the list has all of
\* them, and the timer is armed if the window is not incognito.
LEMMA WindowStep ==
  ASSUME SessionInv, state = "running", NEW w \in Nat, NEW x, GoodWindow(x),
         w \in DOMAIN win => x.incognito = win[w].incognito,
         DOMAIN win' = DOMAIN win \cup {w},
         \A v \in DOMAIN win' : win'[v] = IF v = w THEN x ELSE win[v],
         allWindows' = IF w \in DOMAIN win THEN allWindows ELSE Append(allWindows, w),
         armed' = (armed \/ ~x.incognito),
         UNCHANGED <<wide, session, locked, traces, state, runs>>
  PROVE  SessionInv'
<1>1. Types /\ Listed /\ Quiet /\ Traced
  BY DEF SessionInv
<1>2. allWindows \in Seq(Nat) /\ Range(allWindows) = DOMAIN win /\ IsInjective(allWindows)
  BY <1>1 DEF Types, Listed
<1>3. /\ allWindows' \in Seq(Nat) /\ Range(allWindows') = DOMAIN win'
      /\ IsInjective(allWindows')
  <2>1. CASE w \in DOMAIN win
    BY <1>2, <2>1
  <2>2. CASE w \notin DOMAIN win
    <3>1. w \notin Range(allWindows) /\ allWindows' = Append(allWindows, w)
      BY <1>2, <2>2
    <3> QED
      BY <1>2, <3>1, AppendElements
  <2> QED
    BY <2>1, <2>2
<1>4. armed' \in BOOLEAN
  OBVIOUS
<1>5. Types'
  <2>1. \A v \in DOMAIN win' : GoodWindow(win'[v])
    BY <1>1 DEF Types
  <2> QED
    BY <1>1, <1>3, <1>4, <2>1 DEF Types
<1>6. Listed'
  BY <1>3 DEF Listed
<1>7. Quiet'
  <2> SUFFICES ASSUME locked, ~armed', NormalIds' # {} PROVE Matches(session, NormalIds', win')
    BY DEF Quiet
  <2>1. ~armed /\ x.incognito
    OBVIOUS
  <2>2. NormalIds' = NormalIds
    BY <2>1 DEF NormalIds, Normal
  <2>3. Matches(session, NormalIds, win)
    BY <1>1, <2>1, <2>2 DEF Quiet
  <2>4. \A v \in NormalIds : win'[v] = win[v]
    BY <2>1 DEF NormalIds, Normal
  <2>5. {Shows(win'[v].model) : v \in NormalIds} = {Shows(win[v].model) : v \in NormalIds}
    BY <2>4
  <2> QED
    BY <2>2, <2>3, <2>5 DEF Matches
<1>8. Traced'
  <2> SUFFICES ASSUME traces PROVE \E v \in DOMAIN win' : win'[v].incognito
    BY DEF Traced
  <2>1. PICK v \in DOMAIN win : win[v].incognito
    BY <1>1 DEF Traced
  <2>2. v \in DOMAIN win' /\ win'[v].incognito
    BY <2>1
  <2> QED
    BY <2>2
<1> QED
  BY <1>5, <1>6, <1>7, <1>8 DEF SessionInv

\* The tabs of a window that opens.
LEMMA FirstTabsHold ==
  ASSUME NEW b \in BOOLEAN, NEW ts \in NewTabs(b)
  PROVE  /\ Holds(Added(T!Empty, ts), TabsFor(b))
         /\ GoodWindow([incognito |-> b, model |-> AtLast(Added(T!Empty, ts))])
<1> DEFINE m == Added(T!Empty, ts)
           n == AtLast(m)
           x == [incognito |-> b, model |-> n]
<1>1. ts \in Seq(TabsFor(b)) /\ ts # <<>> /\ TabsFor(b) \subseteq AnyTab
  BY NewTabsAre, TabsForAny
<1>2. Holds(m, TabsFor(b))
  BY <1>1, AddedHolds
<1> HIDE DEF m
<1>3. Holds(n, TabsFor(b))
  BY <1>1, <1>2, AtLastHolds
<1> HIDE DEF n
<1>4. n \in T!Model
  BY <1>3 DEF Holds
<1>5. x \in [incognito : BOOLEAN, model : T!Model] /\ x.incognito = b /\ x.model = n
  BY <1>4
<1> HIDE DEF x
<1>6. GoodWindow(x)
  BY <1>3, <1>5 DEF GoodWindow
<1> QED
  BY <1>2, <1>6 DEF x, n, m

LEMMA NewWindowStep ==
  ASSUME SessionInv, NEW b \in BOOLEAN, NEW ts \in NewTabs(b), NewWindow(b, ts)
  PROVE  SessionInv'
<1> DEFINE x == [incognito |-> b, model |-> AtLast(Added(T!Empty, ts))]
<1>1. PICK w \in Ids \ DOMAIN win :
        /\ win' = [v \in DOMAIN win \cup {w} |-> IF v = w THEN x ELSE win[v]]
        /\ allWindows' = Append(allWindows, w)
  BY DEF NewWindow
<1>2. state = "running" /\ armed' = (armed \/ ~b)
      /\ UNCHANGED <<wide, session, locked, traces, state, runs>>
  BY DEF NewWindow
<1>3. GoodWindow(x) /\ x.incognito = b
  BY FirstTabsHold
<1> HIDE DEF x
<1>4. w \in Nat /\ w \notin DOMAIN win
  BY DEF Ids
<1>5. DOMAIN win' = DOMAIN win \cup {w} /\ \A v \in DOMAIN win' : win'[v] = IF v = w THEN x ELSE win[v]
  BY <1>1
<1> QED
  BY <1>1, <1>2, <1>3, <1>4, <1>5, WindowStep

\* URLs that another process hands over, in a window that is open.
LEMMA OpenedInStep ==
  ASSUME SessionInv, NEW b \in BOOLEAN, NEW ts \in NewTabs(b) \cup {<<>>},
         LastActive(b) # 0, OpenUrls(FALSE, b, ts)
  PROVE  SessionInv'
<1> DEFINE w == allWindows[LastActive(b)]
           x == win[w].model
           n == Added(x, ts)
           m == AtLast(n)
           A == TabsFor(b)
<1>1. state = "running" /\ Changes(w, m)
      /\ UNCHANGED <<wide, allWindows, session, locked, traces, state, runs>>
  BY DEF OpenUrls
<1>2. w \in DOMAIN win /\ win[w].incognito = b
  <2>1. allWindows \in Seq(Nat)
    BY DEF SessionInv, Types
  <2> QED
    BY <2>1, LastActiveIs
<1> HIDE DEF w
<1>3. A \subseteq AnyTab /\ Holds(x, A)
  BY <1>2, WindowIs
<1>4. ts \in Seq(A)
  <2>1. CASE ts = <<>>
    BY <2>1
  <2>2. CASE ts \in NewTabs(b)
    BY <2>2, NewTabsAre
  <2> QED
    BY <2>1, <2>2
<1> HIDE DEF A, x
<1>5. Holds(n, A) /\ Len(n.tabs) = Len(x.tabs) + Len(ts) /\ (ts = <<>> => n = x)
  BY <1>3, <1>4, AddedHolds
<1> HIDE DEF n
<1>6. Holds(m, A) /\ m.tabs = n.tabs /\ (m.current = n.current => m = n)
  BY <1>3, <1>5, AtLastHolds
<1>7. Len(x.tabs) \in Nat /\ T!Count(x) = Len(x.tabs) /\ T!Count(m) = Len(x.tabs) + Len(ts)
  BY <1>3, <1>5, <1>6, HoldsParts
<1> HIDE DEF m
<1>8. ~armed' /\ Normal(win[w]) => Shows(m) = Shows(x)
  <2> SUFFICES ASSUME ~armed', Normal(win[w]) PROVE Shows(m) = Shows(x)
    OBVIOUS
  <2>1. T!Count(x) = T!Count(m) /\ x.current = m.current
    BY <1>1, NotArmed DEF x
  <2>2. ts = <<>>
    BY <1>4, <1>7, <2>1
  <2> QED
    BY <1>5, <1>6, <2>1, <2>2
<1> QED
  BY <1>1, <1>2, <1>6, <1>8, ChangeStep DEF A, x

LEMMA OnNewInstanceStep ==
  ASSUME SessionInv, NEW newWindow \in BOOLEAN, NEW b \in BOOLEAN,
         OnNewInstanceLaunched(newWindow, b)
  PROVE  SessionInv'
<1>1. CASE \E ts \in NewTabs(b) : OpenUrls(newWindow, b, ts)
  <2>1. PICK ts \in NewTabs(b) : OpenUrls(newWindow, b, ts)
    BY <1>1
  <2>2. CASE newWindow \/ LastActive(b) = 0
    <3>1. NewWindow(b, ts)
      BY <2>1, <2>2 DEF OpenUrls
    <3> QED
      BY <3>1, NewWindowStep
  <2>3. CASE ~newWindow /\ LastActive(b) # 0
    <3>1. OpenUrls(FALSE, b, ts)
      BY <2>1, <2>3 DEF OpenUrls
    <3> QED
      BY <2>3, <3>1, OpenedInStep
  <2> QED
    BY <2>2, <2>3
<1>2. CASE LastActive(b) # 0 /\ OpenUrls(FALSE, b, <<>>)
  BY <1>2, OpenedInStep
<1> QED
  BY <1>1, <1>2 DEF OnNewInstanceLaunched

-----------------------------------------------------------------------------
(* Activating and closing windows *)

LEMMA ActivateStep ==
  ASSUME SessionInv, NEW w \in Ids, Activate(w)
  PROVE  SessionInv'
<1> DEFINE k == SelectInSeq(allWindows, LAMBDA v : v = w)
           r == RemoveAt(allWindows, k)
<1>1. /\ state = "running" /\ w \in DOMAIN win /\ k # 0 /\ allWindows' = Append(r, w)
      /\ UNCHANGED <<wide, win, session, locked, armed, traces, state, runs>>
  BY DEF Activate
<1>2. Types /\ Listed /\ Quiet /\ Traced
  BY DEF SessionInv
<1>3. allWindows \in Seq(Nat) /\ Range(allWindows) = DOMAIN win /\ IsInjective(allWindows)
  BY <1>1, <1>2 DEF Types, Listed
<1>4. k \in DOMAIN allWindows /\ allWindows[k] = w
  BY <1>1, <1>3, FirstIndex
<1> HIDE DEF k
<1>5. r \in Seq(Nat) /\ Range(r) = DOMAIN win \ {w} /\ IsInjective(r)
  BY <1>3, <1>4, RemoveAtElements
<1> HIDE DEF r
<1>6. w \in Nat /\ w \notin Range(r)
  BY <1>5 DEF Ids
<1>7. allWindows' \in Seq(Nat) /\ Range(allWindows') = DOMAIN win /\ IsInjective(allWindows')
  <2>1. Append(r, w) \in Seq(Nat) /\ Range(Append(r, w)) = Range(r) \cup {w} /\ IsInjective(Append(r, w))
    BY <1>5, <1>6, AppendElements
  <2> QED
    BY <1>1, <1>5, <2>1
<1>8. Types' /\ Listed'
  BY <1>1, <1>2, <1>7 DEF Types, Listed
<1>9. Quiet' /\ Traced'
  BY <1>1, <1>2 DEF Quiet, Traced, NormalIds
<1> QED
  BY <1>8, <1>9 DEF SessionInv

\* The window is taken out of the list once, though onClosing runs twice when a wide window with
\* tabs closes: it was the last of the list.
LEMMA WindowsWithoutIs ==
  ASSUME allWindows \in Seq(Nat), IsInjective(allWindows), NEW w \in Range(allWindows), NEW hasTabs,
         wide /\ hasTabs => w = Last(allWindows)
  PROVE  /\ WindowsWithout(w, hasTabs) \in Seq(Nat)
         /\ Range(WindowsWithout(w, hasTabs)) = Range(allWindows) \ {w}
         /\ IsInjective(WindowsWithout(w, hasTabs))
<1> DEFINE s == allWindows
           k == SelectInSeq(s, LAMBDA v : v = w)
           r == RemoveAt(s, k)
<1>1. k \in DOMAIN s /\ s[k] = w
  BY FirstIndex
<1>2. DOMAIN s = 1 .. Len(s) /\ Len(s) \in Nat
  OBVIOUS
<1>3. k # 0
  BY <1>1, <1>2
<1>4. WindowsWithout(w, hasTabs) = Spliced(IF wide /\ hasTabs THEN Spliced(s, k) ELSE s, k)
  BY <1>3 DEF WindowsWithout
<1> HIDE DEF k
<1>5. /\ r \in Seq(Nat) /\ Len(r) = Len(s) - 1 /\ Range(r) = Range(s) \ {w} /\ IsInjective(r)
  BY <1>1, RemoveAtElements
<1>6. Spliced(s, k) = r
  BY <1>1 DEF Spliced
<1> HIDE DEF r
<1>7. wide /\ hasTabs => Spliced(r, k) = r
  <2> SUFFICES ASSUME wide, hasTabs PROVE Spliced(r, k) = r
    OBVIOUS
  <2>1. s[Len(s)] = w /\ Len(s) \in DOMAIN s
    BY <1>1, <1>2 DEF Last
  <2>2. k = Len(s)
    BY <1>1, <2>1 DEF IsInjective
  <2>3. k \notin DOMAIN r
    BY <1>2, <1>5, <2>2
  <2> QED
    BY <2>3 DEF Spliced
<1>8. WindowsWithout(w, hasTabs) = r
  <2>1. CASE wide /\ hasTabs
    BY <1>4, <1>6, <1>7, <2>1
  <2>2. CASE ~(wide /\ hasTabs)
    BY <1>4, <1>6, <2>2
  <2> QED
    BY <2>1, <2>2
<1> QED
  BY <1>5, <1>8

LEMMA ClosingStep ==
  ASSUME SessionInv, state = "running", NEW w \in DOMAIN win, NEW hasTabs \in BOOLEAN,
         wide /\ hasTabs => w = Last(allWindows), Closing(w, hasTabs)
  PROVE  SessionInv'
<1>1. Types /\ Listed /\ Quiet /\ Traced
  BY DEF SessionInv
<1>2. allWindows \in Seq(Nat) /\ Range(allWindows) = DOMAIN win /\ IsInjective(allWindows)
  BY <1>1 DEF Types, Listed
<1>3. /\ win' = Restrict(win, DOMAIN win \ {w})
      /\ UNCHANGED <<wide, locked, runs>>
  BY DEF Closing
<1>4. DOMAIN win' = DOMAIN win \ {w} /\ \A v \in DOMAIN win' : win'[v] = win[v]
  BY <1>3 DEF Restrict
<1>5. \A v \in DOMAIN win' : GoodWindow(win'[v])
  BY <1>1, <1>4 DEF Types
<1>6. CASE Len(allWindows) = 1
  <2>1. /\ session' = IF hasTabs THEN Save ELSE IF locked THEN <<>> ELSE session
        /\ state' = IF DOMAIN win = {w} THEN "ending" ELSE state
        /\ UNCHANGED <<allWindows, armed, traces>>
    BY <1>6 DEF Closing
  <2>2. DOMAIN win = {w}
    <3>1. DOMAIN allWindows = {1}
      BY <1>2, <1>6
    <3>2. Range(allWindows) = {allWindows[1]}
      BY <3>1 DEF Range
    <3> QED
      BY <1>2, <3>2
  <2>3. state' # "running"
    BY <2>1, <2>2
  <2>4. GoodSession(session')
    <3>1. GoodSession(Save) /\ GoodSession(session) /\ GoodSession(<<>>)
      BY <1>1, SaveTypes DEF Types, GoodSession
    <3> QED
      BY <2>1, <3>1
  <2>5. Types'
    BY <1>1, <1>3, <1>5, <2>1, <2>4 DEF Types
  <2> QED
    BY <2>3, <2>5 DEF SessionInv, Listed, Quiet, Traced
<1>7. CASE Len(allWindows) # 1
  <2>1. /\ allWindows' = WindowsWithout(w, hasTabs)
        /\ armed' = (armed \/ Normal(win[w]))
        /\ traces' = Pruned(w)
        /\ UNCHANGED <<session, state>>
    BY <1>7 DEF Closing
  <2>2. allWindows' \in Seq(Nat) /\ Range(allWindows') = DOMAIN win' /\ IsInjective(allWindows')
    <3>1. w \in Range(allWindows)
      BY <1>2
    <3>2. /\ WindowsWithout(w, hasTabs) \in Seq(Nat)
          /\ Range(WindowsWithout(w, hasTabs)) = Range(allWindows) \ {w}
          /\ IsInjective(WindowsWithout(w, hasTabs))
      BY <1>2, <3>1, WindowsWithoutIs
    <3> QED
      BY <1>2, <1>4, <2>1, <3>2
  <2>3. Types' /\ Listed'
    <3>1. armed' \in BOOLEAN
      BY <2>1
    <3> QED
      BY <1>1, <1>3, <1>5, <2>1, <2>2, <3>1 DEF Types, Listed
  <2>4. Quiet'
    <3> SUFFICES ASSUME locked, ~armed', NormalIds' # {} PROVE Matches(session, NormalIds', win')
      BY <1>3, <2>1 DEF Quiet
    <3>1. ~armed /\ ~Normal(win[w])
      BY <2>1
    <3>2. NormalIds' = NormalIds
      BY <1>4, <3>1 DEF NormalIds
    <3>3. Matches(session, NormalIds, win)
      BY <1>1, <3>1, <3>2 DEF Quiet
    <3>4. \A v \in NormalIds : win'[v] = win[v]
      BY <1>4, <3>1 DEF NormalIds
    <3>5. {Shows(win'[v].model) : v \in NormalIds} = {Shows(win[v].model) : v \in NormalIds}
      BY <3>4
    <3> QED
      BY <3>2, <3>3, <3>5 DEF Matches
  <2>5. Traced'
    <3> SUFFICES ASSUME traces' PROVE \E v \in DOMAIN win' : win'[v].incognito
      BY DEF Traced
    <3>1. traces /\ ~(win[w].incognito /\ \A v \in Range(allWindows) \ {w} : v \in DOMAIN win => Normal(win[v]))
      BY <2>1 DEF Pruned
    <3>2. PICK v \in DOMAIN win : win[v].incognito
      BY <1>1, <3>1 DEF Traced
    <3>3. CASE v = w
      <4>1. PICK u \in DOMAIN win \ {w} : win[u].incognito
        BY <1>2, <3>1, <3>2, <3>3 DEF Normal
      <4> QED
        BY <1>4, <4>1
    <3>4. CASE v # w
      BY <1>4, <3>2, <3>4
    <3> QED
      BY <3>3, <3>4
  <2> QED
    BY <2>3, <2>4, <2>5 DEF SessionInv
<1> QED
  BY <1>6, <1>7

LEMMA CloseWindowStep ==
  ASSUME SessionInv, ~CloseBackground, NEW w \in Ids, CloseWindow(w)
  PROVE  SessionInv'
BY ClosingStep DEF CloseWindow

LEMMA CloseTabStep ==
  ASSUME SessionInv, NEW w \in Ids, NEW i \in Index, CloseTab(w, i)
  PROVE  SessionInv'
<1> DEFINE x == win[w].model
           A == TabsFor(win[w].incognito)
<1>1. state = "running" /\ w \in DOMAIN win /\ T!Valid(x, i)
  BY DEF CloseTab
<1>2. win[w].incognito \in BOOLEAN /\ A \subseteq AnyTab /\ Holds(x, A)
  BY <1>1, WindowIs
<1>3. CASE T!Count(x) > 1
  <2> DEFINE m == T!Remove(x, i)
  <2>1. Changes(w, m) /\ UNCHANGED <<wide, allWindows, session, locked, traces, state, runs>>
    BY <1>3 DEF CloseTab
  <2> HIDE DEF x, A
  <2>2. Holds(m, A) /\ T!Count(m) = T!Count(x) - 1
    <3>1. i \in Int
      BY DEF Index
    <3> QED
      BY <1>1, <1>2, <1>3, <3>1, RemoveHolds
  <2>3. T!Count(x) \in Nat
    BY <1>2, HoldsParts
  <2> HIDE DEF m
  <2>4. ~armed' /\ Normal(win[w]) => FALSE
    <3> SUFFICES ASSUME ~armed', Normal(win[w]) PROVE FALSE
      OBVIOUS
    <3>1. T!Count(x) = T!Count(m)
      BY <2>1, NotArmed DEF x
    <3> QED
      BY <2>2, <2>3, <3>1
  <2> QED
    BY <1>1, <2>1, <2>2, <2>4, ChangeStep DEF A
<1>4. CASE ~(T!Count(x) > 1) /\ wide
  <2>1. Closing(w, FALSE)
    BY <1>4 DEF CloseTab
  <2> QED
    BY <1>1, <2>1, ClosingStep
<1>5. CASE ~(T!Count(x) > 1) /\ ~wide
  <2>1. PICK ts \in NewTabs(win[w].incognito) :
          win' = [win EXCEPT ![w].model = Added(T!Empty, ts)]
    BY <1>5 DEF CloseTab
  <2>2. armed' = (armed \/ Normal(win[w])) /\ UNCHANGED <<wide, allWindows, session, locked, traces, state, runs>>
    BY <1>5 DEF CloseTab
  <2> DEFINE n == Added(T!Empty, ts)
             y == [win[w] EXCEPT !.model = n]
  <2>3. Holds(n, A)
    BY <1>2, FirstTabsHold
  <2>4. DOMAIN win' = DOMAIN win /\ \A v \in DOMAIN win' : win'[v] = IF v = w THEN y ELSE win[v]
    BY <2>1
  <2> HIDE DEF n
  <2>5. y \in [incognito : BOOLEAN, model : T!Model] /\ y.incognito = win[w].incognito /\ y.model = n
    <3>1. n \in T!Model
      BY <2>3 DEF Holds
    <3>2. win[w] \in [incognito : BOOLEAN, model : T!Model]
      BY <1>1 DEF SessionInv, Types, GoodWindow
    <3> QED
      BY <3>1, <3>2
  <2> HIDE DEF y
  <2>6. GoodWindow(y)
    BY <2>3, <2>5 DEF GoodWindow
  <2>7. w \in Nat
    BY DEF Ids
  <2>8. armed' = (armed \/ ~y.incognito)
    BY <2>2, <2>5 DEF Normal
  <2>9. DOMAIN win' = DOMAIN win \cup {w}
    BY <1>1, <2>4
  <2> QED
    BY <1>1, <2>2, <2>4, <2>5, <2>6, <2>7, <2>8, <2>9, WindowStep
<1> QED
  BY <1>3, <1>4, <1>5

-----------------------------------------------------------------------------
(* Starting and ending *)

\* A window restored from the session has the tabs saved, and the current one.
LEMMA RestoredHolds ==
  ASSUME GoodSession(session), NEW i \in DOMAIN session
  PROVE  Holds(T!Notified(session[i].tabs, session[i].current), Tab)
<1> DEFINE l == session[i].tabs
           c == session[i].current
<1>1. session \in Seq(SavedWindow) /\ l # <<>> /\ c \in 0 .. Len(l) - 1
  BY DEF GoodSession
<1>2. session[i] \in SavedWindow
  BY <1>1
<1>3. l \in Seq(Tab)
  BY <1>2 DEF SavedWindow
<1> HIDE DEF l, c
<1>4. l[c + 1] \in Tab
  BY <1>1, <1>3
<1>5. T!Notified(l, c) = [tabs |-> l, current |-> c, bound |-> l[c + 1]]
  BY <1>1 DEF T!Notified
<1>6. Tab \subseteq AnyTab
  BY DEF AnyTab
<1>7. Holds(T!Notified(l, c), Tab)
  BY <1>1, <1>3, <1>4, <1>5, <1>6, HoldsWhole
<1> QED
  BY <1>7 DEF l, c

\* Windows that are restored are good, and none is with an incognito one.
GoodRestored(ws, b) ==
  /\ DOMAIN ws = 1 .. Len(ws) /\ Len(ws) \in Nat
  /\ \A i \in DOMAIN ws : GoodWindow(ws[i]) /\ ws[i].incognito = FALSE
  /\ b => ws = <<>>

LEMMA RestoredIs ==
  ASSUME GoodSession(session), NEW newSession \in BOOLEAN, NEW b \in BOOLEAN, NEW lock \in BOOLEAN
  PROVE  GoodRestored(Restored(newSession, b, lock), b)
<1> DEFINE ws == Restored(newSession, b, lock)
           rs == [i \in DOMAIN session |->
                    [incognito |-> FALSE, model |-> T!Notified(session[i].tabs, session[i].current)]]
<1>1. CASE newSession \/ b \/ ~lock
  BY <1>1 DEF Restored, GoodRestored
<1>2. CASE ~(newSession \/ b \/ ~lock)
  <2>1. ws = rs
    BY <1>2 DEF Restored
  <2>2. DOMAIN session = 1 .. Len(session) /\ Len(session) \in Nat
    BY DEF GoodSession
  <2>3. ASSUME NEW i \in DOMAIN session PROVE GoodWindow(rs[i]) /\ rs[i].incognito = FALSE
    <3> DEFINE m == T!Notified(session[i].tabs, session[i].current)
               x == [incognito |-> FALSE, model |-> m]
    <3>1. rs[i] = x
      OBVIOUS
    <3>2. Holds(m, Tab)
      BY RestoredHolds
    <3> HIDE DEF m
    <3>3. m \in T!Model
      BY <3>2 DEF Holds
    <3>4. x \in [incognito : BOOLEAN, model : T!Model] /\ x.incognito = FALSE /\ x.model = m
      BY <3>3
    <3> HIDE DEF x
    <3> QED
      BY <3>1, <3>2, <3>4 DEF GoodWindow, TabsFor
  <2>4. DOMAIN rs = DOMAIN session
    OBVIOUS
  <2> HIDE DEF rs, ws
  <2>5. Len(ws) = Len(session)
    <3>1. DOMAIN ws = 1 .. Len(session)
      BY <2>1, <2>2, <2>4
    <3>2. rs = [i \in DOMAIN session |-> rs[i]]
      BY DEF rs
    <3> QED
      BY <2>1, <2>2, <3>2
  <2> QED
    BY <1>2, <2>1, <2>2, <2>3, <2>4, <2>5 DEF ws, GoodRestored
<1> QED
  BY <1>1, <1>2

LEMMA StartStep ==
  ASSUME SessionInv, NEW newSession \in BOOLEAN, NEW b \in BOOLEAN, NEW lock \in BOOLEAN,
         Start(newSession, b, lock)
  PROVE  SessionInv'
<1> DEFINE ws == Restored(newSession, b, lock)
           empty == [incognito |-> b, model |-> T!Empty]
<1>1. PICK ts \in NewTabs(b) \cup {<<>>} :
        /\ ts = <<>> => ws # <<>>
        /\ win' = Opened(ws, b, ts)
        /\ allWindows' = [i \in DOMAIN win' |-> i]
  BY DEF Start
<1>2. traces' = FALSE /\ armed' = (~b) /\ UNCHANGED <<wide, session>>
  BY DEF Start
<1>3. Types
  BY DEF SessionInv
<1>4. /\ DOMAIN ws = 1 .. Len(ws) /\ Len(ws) \in Nat
      /\ \A i \in DOMAIN ws : GoodWindow(ws[i]) /\ ws[i].incognito = FALSE
      /\ b => ws = <<>>
  <2>1. GoodSession(session)
    BY <1>3 DEF Types
  <2>2. GoodRestored(ws, b)
    BY <2>1, RestoredIs
  <2> HIDE DEF ws
  <2> QED
    BY <2>2 DEF GoodRestored
<1> HIDE DEF ws
<1> DEFINE all == IF ws = <<>> THEN <<empty>> ELSE ws
           len == Len(all)
           m == all[len].model
           n == IF ts = <<>> THEN m ELSE IF wide THEN AtEnd(m, ts) ELSE OnTop(m, ts)
           x == [all[len] EXCEPT !.model = n]
<1>5. /\ DOMAIN all = 1 .. len /\ len \in Nat /\ len > 0
      /\ all[len].incognito = b
      /\ \A i \in 1 .. len : i # len => GoodWindow(all[i])
      /\ all[len].incognito \in BOOLEAN
      /\ Holds(m, TabsFor(b)) \/ (m = T!Empty /\ ts # <<>>)
      /\ b => len = 1
      /\ \E y : all[len] = [incognito |-> b, model |-> y]
  <2>1. CASE ws = <<>>
    <3>1. all = <<empty>>
      BY <2>1
    <3> HIDE DEF all
    <3>2. DOMAIN all = 1 .. 1 /\ len = 1 /\ all[1] = empty
      BY <3>1
    <3>3. ts # <<>>
      BY <1>1, <2>1
    <3>4. all[len].incognito = b /\ m = T!Empty /\ \E y : all[len] = [incognito |-> b, model |-> y]
      <4>1. all[len] = [incognito |-> b, model |-> T!Empty]
        BY <3>2
      <4>2. \E y : all[len] = [incognito |-> b, model |-> y]
        BY <4>1
      <4>3. all[len].model = T!Empty
        BY <4>1
      <4>4. all[len].incognito = b
        BY <4>1
      <4> HIDE DEF all, len
      <4> QED
        BY <4>2, <4>3, <4>4
    <3> HIDE DEF m
    <3>5. \A i \in 1 .. len : i = len
      BY <3>2
    <3>6. DOMAIN all = 1 .. len /\ len \in Nat /\ len > 0
      BY <3>2
    <3> HIDE DEF len
    <3> QED
      BY <3>2, <3>3, <3>4, <3>5, <3>6
  <2>2. CASE ws # <<>>
    <3>1. all = ws
      BY <2>2
    <3> HIDE DEF all
    <3>2. len \in DOMAIN ws /\ ~b
      BY <1>4, <2>2, <3>1
    <3>3. GoodWindow(all[len]) /\ all[len].incognito = b
      BY <1>4, <3>1, <3>2
    <3>4. all[len] \in [incognito : BOOLEAN, model : T!Model] /\ Holds(m, TabsFor(b))
      BY <3>3 DEF GoodWindow
    <3>5. \E y : all[len] = [incognito |-> b, model |-> y]
      <4> DEFINE y == all[len].model
      <4>1. all[len] = [incognito |-> b, model |-> y]
        BY <3>3, <3>4
      <4> QED
        BY <4>1
    <3>6. DOMAIN all = 1 .. len /\ len \in Nat /\ len > 0
      BY <1>4, <3>1, <3>2
    <3>7. \A i \in 1 .. len : GoodWindow(all[i])
      BY <1>4, <3>1
    <3> HIDE DEF m, len
    <3> QED
      BY <3>2, <3>3, <3>4, <3>5, <3>6, <3>7
  <2> QED
    BY <2>1, <2>2
<1>6. win' = [all EXCEPT ![len].model = n]
  BY <1>1 DEF Opened
<1> HIDE DEF all, len
<1>7. ts \in Seq(TabsFor(b)) /\ TabsFor(b) \subseteq AnyTab
  <2>1. CASE ts = <<>>
    BY <2>1, TabsForAny
  <2>2. CASE ts \in NewTabs(b)
    BY <2>2, NewTabsAre, TabsForAny
  <2> QED
    BY <2>1, <2>2
<1>9. Holds(n, TabsFor(b))
  <2> HIDE DEF m
  <2>1. CASE ts = <<>>
    BY <1>5, <2>1
  <2>2. CASE ts # <<>>
    BY <1>5, <1>7, <2>2, OpenedHolds
  <2> QED
    BY <2>1, <2>2
<1>10. GoodWindow(x) /\ x.incognito = b
  <2>1. n \in T!Model
    BY <1>9 DEF Holds
  <2> HIDE DEF n
  <2>2. x = [incognito |-> b, model |-> n]
    BY <1>5
  <2>3. x \in [incognito : BOOLEAN, model : T!Model] /\ x.incognito = b /\ x.model = n
    BY <2>1, <2>2
  <2> HIDE DEF x
  <2> QED
    BY <1>9, <2>3 DEF GoodWindow, n
<1>11. /\ DOMAIN win' = 1 .. len
       /\ \A i \in 1 .. len : win'[i] = IF i = len THEN x ELSE all[i]
  BY <1>5, <1>6
<1> HIDE DEF x
<1>12. \A i \in DOMAIN win' : GoodWindow(win'[i])
  BY <1>5, <1>10, <1>11
<1>13. /\ allWindows' \in Seq(Nat) /\ Range(allWindows') = DOMAIN win'
       /\ IsInjective(allWindows')
  <2>1. allWindows' = [i \in 1 .. len |-> i]
    BY <1>1, <1>11
  <2>2. allWindows' \in [1 .. len -> Nat]
    BY <2>1
  <2>3. allWindows' \in Seq(Nat)
    BY <1>5, <2>2
  <2> QED
    BY <1>11, <2>1, <2>3 DEF Range, IsInjective
<1>14. Types' /\ Listed'
  <2>1. armed' \in BOOLEAN
    BY <1>2
  <2> QED
    BY <1>2, <1>3, <1>12, <1>13, <2>1 DEF Types, Listed
<1>15. Quiet'
  <2> SUFFICES ASSUME ~armed', NormalIds' # {} PROVE FALSE
    BY DEF Quiet
  <2>1. b /\ len = 1
    BY <1>2, <1>5
  <2>2. \A i \in DOMAIN win' : win'[i] = x
    <3>1. \A i \in 1 .. len : i = len
      BY <2>1
    <3> QED
      BY <1>11, <3>1
  <2>3. x.incognito
    BY <1>10, <2>1
  <2> QED
    BY <2>2, <2>3 DEF NormalIds, Normal
<1>16. Traced'
  BY <1>2 DEF Traced
<1> QED
  BY <1>14, <1>15, <1>16 DEF SessionInv

\* What does not touch the windows: the session is left alone, or saved.
LEMMA SaveStep ==
  ASSUME SessionInv, session' = Save, armed' \in BOOLEAN,
         UNCHANGED <<wide, win, allWindows, locked, traces, state>>
  PROVE  SessionInv'
<1>1. Types /\ Listed /\ Quiet /\ Traced
  BY DEF SessionInv
<1>2. GoodSession(session')
  BY SaveTypes
<1>3. Types' /\ Listed' /\ Traced'
  BY <1>1, <1>2 DEF Types, Listed, Traced
<1>4. Quiet'
  <2> SUFFICES ASSUME state = "running", locked, NormalIds # {} PROVE Matches(Save, NormalIds, win)
    <3>1. NormalIds' = NormalIds
      BY DEF NormalIds
    <3> QED
      BY <3>1 DEF Quiet
  <2> QED
    BY SaveMatches
<1> QED
  BY <1>3, <1>4 DEF SessionInv

LEMMA PeriodicStep == ASSUME SessionInv, Periodic PROVE SessionInv'
<1>1. armed' = TRUE /\ UNCHANGED <<wide, win, allWindows, session, locked, traces, state>>
  BY DEF Periodic
<1> QED
  BY <1>1 DEF SessionInv, Types, Listed, Quiet, Traced, NormalIds

LEMMA DownloadPrivatelyStep == ASSUME SessionInv, DownloadPrivately PROVE SessionInv'
<1>1. /\ \E w \in DOMAIN win : win[w].incognito
      /\ UNCHANGED <<wide, win, allWindows, session, locked, armed, state>>
  BY DEF DownloadPrivately
<1> QED
  BY <1>1 DEF SessionInv, Types, Listed, Quiet, Traced, NormalIds

\* The process ends: no window is left.
LEMMA DownStep ==
  ASSUME SessionInv, state' = "down", GoodSession(session'), win' = <<>>, allWindows' = <<>>,
         armed' = FALSE, wide' = wide
  PROVE  SessionInv'
<1>1. \A w \in DOMAIN win' : GoodWindow(win'[w])
  OBVIOUS
<1>2. allWindows' \in Seq(Nat) /\ wide' \in BOOLEAN /\ armed' \in BOOLEAN
  <2>1. wide' \in BOOLEAN
    BY DEF SessionInv, Types
  <2>2. armed' \in BOOLEAN
    OBVIOUS
  <2>3. allWindows' \in Seq(Nat)
    OBVIOUS
  <2> QED
    BY <2>1, <2>2, <2>3
<1>3. Types'
  BY <1>1, <1>2 DEF Types
<1>4. Listed' /\ Quiet' /\ Traced'
  BY DEF Listed, Quiet, Traced
<1> QED
  BY <1>3, <1>4 DEF SessionInv

-----------------------------------------------------------------------------

LEMMA SessionInit == Init => SessionInv
<1> SUFFICES ASSUME Init PROVE SessionInv
  OBVIOUS
<1>1. \A w \in DOMAIN win : GoodWindow(win[w])
  BY DEF Init
<1>2. GoodSession(session)
  BY DEF Init, GoodSession
<1>3. allWindows \in Seq(Nat) /\ wide \in BOOLEAN /\ armed \in BOOLEAN
  <2>1. wide \in BOOLEAN /\ allWindows = <<>> /\ armed = FALSE
    BY DEF Init
  <2>2. armed \in BOOLEAN
    BY <2>1
  <2>3. allWindows \in Seq(Nat)
    BY <2>1
  <2> QED
    BY <2>1, <2>2, <2>3
<1>4. Types
  BY <1>1, <1>2, <1>3 DEF Types
<1>5. Listed /\ Quiet /\ Traced
  BY DEF Init, Listed, Quiet, Traced
<1> QED
  BY <1>4, <1>5 DEF SessionInv

LEMMA SessionNext == ~CloseBackground /\ SessionInv /\ [Next]_vars => SessionInv'
<1> SUFFICES ASSUME ~CloseBackground, SessionInv, [Next]_vars PROVE SessionInv'
  OBVIOUS
<1>1. CASE \E newSession, incognito, lock \in BOOLEAN : Start(newSession, incognito, lock)
  BY <1>1, StartStep
<1>2. CASE SaverFires
  <2>1. session' = Save /\ armed' = FALSE /\ UNCHANGED <<wide, win, allWindows, locked, traces, state>>
    BY <1>2 DEF SaverFires
  <2> QED
    BY <2>1, SaveStep
<1>3. CASE Periodic
  BY <1>3, PeriodicStep
<1>4. CASE StateChanged
  <2>1. session' = Save /\ armed' = armed /\ UNCHANGED <<wide, win, allWindows, locked, traces, state>>
    BY <1>4 DEF StateChanged
  <2>2. armed' \in BOOLEAN
    BY <2>1 DEF SessionInv, Types
  <2> QED
    BY <2>1, <2>2, SaveStep
<1>5. CASE Quit
  <2>1. GoodSession(Save) /\ GoodSession(session)
    BY SaveTypes DEF SessionInv, Types
  <2>2. /\ state' = "down" /\ session' = IF allWindows # <<>> THEN Save ELSE session
        /\ win' = <<>> /\ allWindows' = <<>> /\ armed' = FALSE /\ wide' = wide
    BY <1>5 DEF Quit
  <2> QED
    BY <2>1, <2>2, DownStep
<1>6. CASE Crash
  <2>1. GoodSession(session)
    BY DEF SessionInv, Types
  <2>2. /\ state' = "down" /\ session' = session
        /\ win' = <<>> /\ allWindows' = <<>> /\ armed' = FALSE /\ wide' = wide
    BY <1>6 DEF Crash
  <2> QED
    BY <2>1, <2>2, DownStep
<1>7. CASE DownloadPrivately
  BY <1>7, DownloadPrivatelyStep
<1>8. CASE \E newWindow, incognito \in BOOLEAN : OnNewInstanceLaunched(newWindow, incognito)
  BY <1>8, OnNewInstanceStep
<1>9. CASE \E w \in Ids, b \in BOOLEAN : OpenLinkInNewTab(w, b)
  BY <1>9, OpenLinkStep
<1>10. CASE \E w \in Ids : Activate(w) \/ CloseWindow(w)
  BY <1>10, ActivateStep, CloseWindowStep
<1>11. CASE \E w \in Ids, i \in Index : SelectTab(w, i) \/ CloseTab(w, i)
  BY <1>11, SelectTabStep, CloseTabStep
<1>12. CASE \E w \in Ids, i, j \in Index : MoveTab(w, i, j)
  BY <1>12, MoveTabStep
<1>13. CASE UNCHANGED vars
  BY <1>13 DEF vars, SessionInv, Types, Listed, Quiet, Traced, NormalIds
<1> QED
  BY <1>1, <1>2, <1>3, <1>4, <1>5, <1>6, <1>7, <1>8, <1>9, <1>10, <1>11, <1>12, <1>13 DEF Next

LEMMA Invariant == ~CloseBackground => (Spec => []SessionInv)
<1> SUFFICES ASSUME ~CloseBackground PROVE Spec => []SessionInv
  OBVIOUS
<1>1. SessionInv /\ [Next]_vars => SessionInv'
  BY SessionNext
<1> QED
  BY <1>1, SessionInit, PTL DEF Spec

\* Unless a wide window is closed behind the active one, the list of all windows has those on
\* the screen, each once, and each has a current tab: whatever is opened, closed, activated,
\* restored or handed over by other processes.
THEOREM AllWindowsAreListed == ~CloseBackground => (Spec => []WindowsListed)
<1> SUFFICES ASSUME ~CloseBackground PROVE Spec => []WindowsListed
  OBVIOUS
<1>1. SessionInv => WindowsListed
  BY InvListed
<1>2. Spec => []SessionInv
  BY Invariant
<1> QED
  BY <1>1, <1>2, PTL

\* When the timer of the session is not running, the session has the normal windows that are
\* open: each change of their tabs that it would show has armed the timer since the last save.
THEOREM QuietMeansSaved == ~CloseBackground => (Spec => []SavedWhenQuiet)
<1> SUFFICES ASSUME ~CloseBackground PROVE Spec => []SavedWhenQuiet
  OBVIOUS
<1>1. SessionInv => SavedWhenQuiet
  BY InvQuiet
<1>2. Spec => []SessionInv
  BY Invariant
<1> QED
  BY <1>1, <1>2, PTL

\* No tab of an incognito window is ever in the session, and none of its downloads is listed
\* when no incognito window is left.
THEOREM IncognitoLeavesNothing == ~CloseBackground => (Spec => []NoIncognitoTraces)
<1> SUFFICES ASSUME ~CloseBackground PROVE Spec => []NoIncognitoTraces
  OBVIOUS
<1>1. SessionInv => NoIncognitoTraces
  BY InvTraces
<1>2. Spec => []SessionInv
  BY Invariant
<1> QED
  BY <1>1, <1>2, PTL
=============================================================================
