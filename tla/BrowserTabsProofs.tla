-------------------------- MODULE BrowserTabsProofs --------------------------
(***************************************************************************)
(* Proofs about the list of tabs (TabsModel), for any set of tabs, and     *)
(* about the tabs of a window (BrowserTabs), for any modes of the window   *)
(* and any bound on the closed tabs.                                       *)
(***************************************************************************)
EXTENDS MCBrowserTabs, TLAPS

-----------------------------------------------------------------------------
(* The list of tabs *)

Inv == TypeOK /\ CurrentExists /\ BoundIsCurrent /\ NoDuplicate

\* What the inductive invariant says of one model.
Good(m) ==
  /\ m \in Model
  /\ IF m.tabs = <<>> THEN m.current = -1 ELSE Valid(m, m.current)
  /\ m.bound = CurrentTab(m)
  /\ \A i, j \in DOMAIN m.tabs : m.tabs[i] = m.tabs[j] => i = j

-----------------------------------------------------------------------------
(* The two list operators *)

\* ListWith returns a list one longer, and puts t at index k.
LEMMA ListWithType ==
  ASSUME NEW s \in Seq(Tab), NEW t \in Tab, NEW k \in 0 .. Len(s)
  PROVE  /\ ListWith(s, t, k) \in Seq(Tab)
         /\ Len(ListWith(s, t, k)) = Len(s) + 1
         /\ DOMAIN ListWith(s, t, k) = 1 .. Len(s) + 1
         /\ \A j \in 1 .. Len(s) + 1 : ListWith(s, t, k)[j] =
              IF j <= k THEN s[j] ELSE IF j = k + 1 THEN t ELSE s[j - 1]
<1> DEFINE l == ListWith(s, t, k)
<1>1. Len(s) \in Nat /\ \A j \in 1 .. Len(s) : s[j] \in Tab
  OBVIOUS
<1>2. l \in [1 .. Len(s) + 1 -> Tab]
  BY <1>1 DEF ListWith
<1>3. l \in Seq(Tab) /\ Len(l) = Len(s) + 1
  BY <1>1, <1>2
<1> QED
  BY <1>2, <1>3 DEF ListWith

\* ListWithout returns a list one shorter, without the element of index k.
LEMMA ListWithoutType ==
  ASSUME NEW s \in Seq(Tab), NEW k \in 0 .. Len(s) - 1
  PROVE  /\ ListWithout(s, k) \in Seq(Tab)
         /\ Len(ListWithout(s, k)) = Len(s) - 1
         /\ DOMAIN ListWithout(s, k) = 1 .. Len(s) - 1
         /\ \A j \in 1 .. Len(s) - 1 : ListWithout(s, k)[j] =
              IF j <= k THEN s[j] ELSE s[j + 1]
<1> DEFINE l == ListWithout(s, k)
<1>1. Len(s) \in Nat /\ \A j \in 1 .. Len(s) : s[j] \in Tab
  OBVIOUS
<1>2. l \in [1 .. Len(s) - 1 -> Tab]
  BY <1>1 DEF ListWithout
<1>3. l \in Seq(Tab) /\ Len(l) = Len(s) - 1
  BY <1>1, <1>2
<1> QED
  BY <1>2, <1>3 DEF ListWithout

\* A list without repetition has none after a new element is put in it.
LEMMA ListWithDistinct ==
  ASSUME NEW s \in Seq(Tab), NEW t \in Tab, NEW k \in 0 .. Len(s),
         \A i, j \in DOMAIN s : s[i] = s[j] => i = j,
         \A i \in DOMAIN s : s[i] # t
  PROVE  \A i, j \in DOMAIN ListWith(s, t, k) :
           ListWith(s, t, k)[i] = ListWith(s, t, k)[j] => i = j
<1> DEFINE l == ListWith(s, t, k)
           from(j) == IF j <= k THEN j ELSE j - 1
<1>1. DOMAIN s = 1 .. Len(s) /\ Len(s) \in Nat /\ k \in Nat /\ k <= Len(s)
  OBVIOUS
<1>0. /\ DOMAIN l = 1 .. Len(s) + 1
      /\ \A j \in 1 .. Len(s) + 1 :
           l[j] = IF j <= k THEN s[j] ELSE IF j = k + 1 THEN t ELSE s[j - 1]
  BY ListWithType
<1> HIDE DEF l
<1>2. DOMAIN l = 1 .. Len(s) + 1 /\ l[k + 1] = t
  BY <1>1, <1>0
<1>3. \A j \in 1 .. Len(s) + 1 : j # k + 1 => from(j) \in DOMAIN s /\ l[j] = s[from(j)]
  BY <1>1, <1>0
<1>4. ASSUME NEW i \in DOMAIN l, NEW j \in DOMAIN l, l[i] = l[j] PROVE i = j
  <2>1. CASE i = k + 1
    BY <1>1, <1>2, <1>3, <1>4, <2>1
  <2>2. CASE j = k + 1
    BY <1>1, <1>2, <1>3, <1>4, <2>2
  <2>3. CASE i # k + 1 /\ j # k + 1
    <3>1. from(i) = from(j)
      BY <1>2, <1>3, <1>4, <2>3
    <3> QED
      BY <1>1, <1>2, <2>3, <3>1
  <2> QED
    BY <2>1, <2>2, <2>3
<1> QED
  BY <1>4 DEF l

\* A list without repetition has none after one of its elements is removed.
LEMMA ListWithoutDistinct ==
  ASSUME NEW s \in Seq(Tab), NEW k \in 0 .. Len(s) - 1,
         \A i, j \in DOMAIN s : s[i] = s[j] => i = j
  PROVE  /\ \A i, j \in DOMAIN ListWithout(s, k) :
              ListWithout(s, k)[i] = ListWithout(s, k)[j] => i = j
         /\ \A i \in DOMAIN ListWithout(s, k) : ListWithout(s, k)[i] # s[k + 1]
<1> DEFINE l == ListWithout(s, k)
           from(j) == IF j <= k THEN j ELSE j + 1
<1>1. DOMAIN s = 1 .. Len(s) /\ Len(s) \in Nat /\ k \in Nat /\ k < Len(s)
  OBVIOUS
<1>2. DOMAIN l = 1 .. Len(s) - 1
  BY <1>1, ListWithoutType
<1>3. \A j \in 1 .. Len(s) - 1 : from(j) \in DOMAIN s /\ from(j) # k + 1 /\ l[j] = s[from(j)]
  BY <1>1, ListWithoutType
<1>4. k + 1 \in DOMAIN s
  BY <1>1
<1> HIDE DEF l
<1>5. ASSUME NEW i \in DOMAIN l, NEW j \in DOMAIN l, l[i] = l[j] PROVE i = j
  <2>1. from(i) = from(j)
    BY <1>2, <1>3, <1>5
  <2> QED
    BY <1>1, <1>2, <2>1
<1>6. ASSUME NEW i \in DOMAIN l PROVE l[i] # s[k + 1]
  BY <1>2, <1>3, <1>4, <1>6
<1> QED
  BY <1>5, <1>6 DEF l

-----------------------------------------------------------------------------
(* Each operation preserves the invariant. *)

\* What a good model is made of.
LEMMA GoodParts ==
  ASSUME NEW m, Good(m)
  PROVE  /\ m = [tabs |-> m.tabs, current |-> m.current, bound |-> m.bound]
         /\ m.tabs \in Seq(Tab) /\ Len(m.tabs) \in Nat /\ DOMAIN m.tabs = 1 .. Len(m.tabs)
         /\ m.current \in Int /\ m.bound \in Tab \cup {NoTab}
         /\ Len(m.tabs) = 0 => m.tabs = <<>> /\ m.current = -1
         /\ Len(m.tabs) # 0 => /\ m.tabs # <<>>
                               /\ m.current \in 0 .. Len(m.tabs) - 1
                               /\ m.bound = m.tabs[m.current + 1]
         /\ \A i, j \in DOMAIN m.tabs : m.tabs[i] = m.tabs[j] => i = j
<1>1. m.tabs \in Seq(Tab) /\ Len(m.tabs) \in Nat /\ DOMAIN m.tabs = 1 .. Len(m.tabs)
  BY DEF Good, Model
<1>2. Len(m.tabs) = 0 <=> m.tabs = <<>>
  BY <1>1
<1> QED
  BY <1>1, <1>2 DEF Good, Model, Valid, CurrentTab, Get, Count

\* A list without repetition, one of its indices and the tab there: a good model.
LEMMA GoodWhole ==
  ASSUME NEW l \in Seq(Tab), NEW c \in 0 .. Len(l) - 1,
         \A i, j \in DOMAIN l : l[i] = l[j] => i = j
  PROVE  /\ Good([tabs |-> l, current |-> c, bound |-> l[c + 1]])
         /\ Good(Notified(l, c))
<1> DEFINE g == [tabs |-> l, current |-> c, bound |-> l[c + 1]]
<1>1. /\ Len(l) \in Nat /\ l # <<>> /\ l[c + 1] \in Tab /\ c \in Int
      /\ g.tabs = l /\ g.current = c /\ g.bound = l[c + 1]
  OBVIOUS
<1>2. g \in Model
  BY <1>1 DEF Model
<1>3. Notified(l, c) = g
  BY DEF Notified
<1> HIDE DEF g
<1>4. Good(g)
  BY <1>1, <1>2 DEF Good, Valid, CurrentTab, Get, Count
<1> QED
  BY <1>3, <1>4 DEF g

\* The empty model is good.
LEMMA GoodEmpty == Good(Notified(<<>>, -1)) /\ Good(Empty)
<1> DEFINE e == [tabs |-> <<>>, current |-> -1, bound |-> NoTab]
<1>1. Notified(<<>>, -1) = e
  BY DEF Notified
<1>2. e.tabs = <<>> /\ e.current = -1 /\ e.bound = NoTab /\ e \in Model
  BY DEF Model
<1>3. Len(e.tabs) = 0
  BY <1>2
<1> HIDE DEF e
<1>4. Good(e)
  BY <1>2, <1>3 DEF Good, Valid, CurrentTab, Get, Count
<1> QED
  BY <1>1, <1>4 DEF Empty

\* setCurrentIndex leaves a good model.
LEMMA WithCurrentGood ==
  ASSUME NEW m, Good(m), NEW i \in Int
  PROVE  Good(WithCurrent(m, i))
BY GoodParts, GoodWhole DEF WithCurrent, Valid, Count

\* insert leaves a good model when the tab is not in the list, and the same
\* current tab unless it inserts at the current index.
LEMMA InsertGood ==
  ASSUME NEW m, Good(m), NEW t \in Tab \ Tabs(m), NEW i \in Int
  PROVE  /\ Good(Insert(m, t, i))
         /\ m.tabs # <<>> /\ Clamp(m, i) # m.current
              => CurrentTab(Insert(m, t, i)) = CurrentTab(m)
<1> DEFINE k == Clamp(m, i)
           s == m.tabs
           c == m.current
           l == ListWith(s, t, k)
<1>1. /\ s \in Seq(Tab) /\ Len(s) \in Nat /\ DOMAIN s = 1 .. Len(s)
      /\ c \in Int
      /\ Len(s) = 0 => s = <<>> /\ c = -1
      /\ Len(s) # 0 => s # <<>> /\ c \in 0 .. Len(s) - 1 /\ m.bound = s[c + 1]
      /\ \A p, q \in DOMAIN s : s[p] = s[q] => p = q
  BY GoodParts
<1>2. k \in 0 .. Len(s)
  BY <1>1 DEF Clamp, Count
<1>3. t \in Tab /\ \A j \in DOMAIN s : s[j] # t
  BY DEF Tabs
<1> HIDE DEF k, s
<1>4. /\ l \in Seq(Tab) /\ Len(l) = Len(s) + 1 /\ DOMAIN l = 1 .. Len(s) + 1
      /\ \A j \in 1 .. Len(s) + 1 :
           l[j] = IF j <= k THEN s[j] ELSE IF j = k + 1 THEN t ELSE s[j - 1]
  <2>1. s \in Seq(Tab) /\ t \in Tab /\ k \in 0 .. Len(s)
    BY <1>1, <1>2, <1>3
  <2> QED
    BY <2>1, ListWithType
<1>5. \A p, q \in DOMAIN l : l[p] = l[q] => p = q
  BY <1>1, <1>2, <1>3, ListWithDistinct
<1> DEFINE d == IF k < c THEN c + 1 ELSE c
<1>6. Insert(m, t, i) = IF c = -1 THEN Notified(l, 0)
                        ELSE IF k = c THEN Notified(l, k)
                        ELSE [tabs |-> l, current |-> d, bound |-> m.bound]
  BY DEF Insert, Unnotified, k, l, s
<1> HIDE DEF l, c
<1>7. CASE c = -1
  <2>1. Insert(m, t, i) = Notified(l, 0) /\ 0 \in 0 .. Len(l) - 1 /\ s = <<>>
    BY <1>1, <1>4, <1>6, <1>7
  <2>2. Good(Insert(m, t, i))
    BY <1>4, <1>5, <2>1, GoodWhole
  <2> QED
    BY <2>1, <2>2 DEF s
<1>8. CASE c # -1 /\ k = c
  <2>1. Insert(m, t, i) = Notified(l, k) /\ k \in 0 .. Len(l) - 1
    BY <1>1, <1>2, <1>4, <1>6, <1>8
  <2>2. Good(Notified(l, k))
    BY <1>4, <1>5, <2>1, GoodWhole
  <2> QED
    BY <1>8, <2>1, <2>2 DEF c, k
<1>9. CASE c # -1 /\ k # c
  <2>1. d \in 0 .. Len(l) - 1 /\ l[d + 1] = s[c + 1]
    BY <1>1, <1>2, <1>4, <1>9
  <2>2. Insert(m, t, i) = [tabs |-> l, current |-> d, bound |-> l[d + 1]]
    BY <1>1, <1>6, <1>9, <2>1
  <2>3. Good(Insert(m, t, i))
    BY <1>4, <1>5, <2>1, <2>2, GoodWhole
  <2>4. CurrentTab(Insert(m, t, i)) = l[d + 1] /\ CurrentTab(m) = s[c + 1]
    BY <1>1, <1>9, <2>1, <2>2 DEF CurrentTab, Get, Valid, Count, s, c
  <2> QED
    BY <2>1, <2>3, <2>4
<1> QED
  BY <1>7, <1>8, <1>9

\* remove leaves a good model, and the same current tab unless it removes it.
LEMMA RemoveGood ==
  ASSUME NEW m, Good(m), NEW i \in Int
  PROVE  /\ Good(Remove(m, i))
         /\ i # m.current => CurrentTab(Remove(m, i)) = CurrentTab(m)
<1> DEFINE s == m.tabs
           c == m.current
           l == ListWithout(s, i)
<1>1. /\ s \in Seq(Tab) /\ Len(s) \in Nat /\ DOMAIN s = 1 .. Len(s)
      /\ c \in Int
      /\ Len(s) # 0 => s # <<>> /\ c \in 0 .. Len(s) - 1 /\ m.bound = s[c + 1]
      /\ \A p, q \in DOMAIN s : s[p] = s[q] => p = q
  BY GoodParts
<1>2. CASE ~Valid(m, i)
  BY <1>2 DEF Remove
<1>3. CASE Valid(m, i)
  <2>1. i \in 0 .. Len(s) - 1 /\ Len(s) # 0
    BY <1>1, <1>3 DEF Valid, Count
  <2>2. /\ l \in Seq(Tab) /\ Len(l) = Len(s) - 1 /\ DOMAIN l = 1 .. Len(s) - 1
        /\ \A j \in 1 .. Len(s) - 1 : l[j] = IF j <= i THEN s[j] ELSE s[j + 1]
    BY <1>1, <2>1, ListWithoutType
  <2>3. \A p, q \in DOMAIN l : l[p] = l[q] => p = q
    BY <1>1, <2>1, ListWithoutDistinct
  <2> DEFINE d == IF i < c THEN c - 1 ELSE c
             e == IF i = Len(l) THEN i - 1 ELSE i
  <2>4. Remove(m, i) = IF i = c THEN Notified(l, e)
                       ELSE [tabs |-> l, current |-> d, bound |-> m.bound]
    BY <1>3 DEF Remove, Unnotified
  <2> HIDE DEF l, s, c
  <2>5. CASE i = c
    <3>1. CASE Len(l) = 0
      <4>1. l = <<>>
        BY <2>2, <3>1
      <4>2. i = 0
        BY <1>1, <2>1, <2>2, <3>1
      <4>3. Remove(m, i) = Notified(<<>>, -1)
        BY <2>4, <2>5, <3>1, <4>1, <4>2
      <4> QED
        BY <2>5, <4>3, GoodEmpty DEF c
    <3>2. CASE Len(l) # 0
      <4>1. e \in 0 .. Len(l) - 1
        <5>1. Len(l) \in Nat /\ i \in 0 .. Len(l)
          BY <1>1, <2>1, <2>2
        <5> QED
          BY <3>2, <5>1
      <4> HIDE DEF e
      <4> QED
        BY <2>2, <2>3, <2>4, <2>5, <4>1, GoodWhole DEF c
    <3> QED
      BY <3>1, <3>2
  <2>6. CASE i # c
    <3>1. d \in 0 .. Len(l) - 1 /\ l[d + 1] = s[c + 1]
      BY <1>1, <2>1, <2>2, <2>6
    <3>2. Remove(m, i) = [tabs |-> l, current |-> d, bound |-> l[d + 1]]
      BY <1>1, <2>1, <2>4, <2>6, <3>1
    <3>3. Good(Remove(m, i))
      BY <2>2, <2>3, <3>1, <3>2, GoodWhole
    <3>4. CurrentTab(Remove(m, i)) = l[d + 1] /\ CurrentTab(m) = s[c + 1]
      BY <1>1, <2>1, <3>1, <3>2 DEF CurrentTab, Get, Valid, Count, s, c
    <3> QED
      BY <3>1, <3>3, <3>4
  <2> QED
    BY <2>5, <2>6
<1> QED
  BY <1>2, <1>3

\* move leaves a good model and the same current tab.
LEMMA MoveGood ==
  ASSUME NEW m, Good(m), NEW from \in Int, NEW to \in Int
  PROVE  Good(Move(m, from, to)) /\ CurrentTab(Move(m, from, to)) = CurrentTab(m)
<1> DEFINE s == m.tabs
           c == m.current
           t == s[from + 1]
           r == ListWithout(s, from)
           l == ListWith(r, t, to)
           d == MovedIndex(c, from, to)
<1>1. /\ s \in Seq(Tab) /\ Len(s) \in Nat /\ DOMAIN s = 1 .. Len(s)
      /\ c \in Int
      /\ Len(s) # 0 => s # <<>> /\ c \in 0 .. Len(s) - 1 /\ m.bound = s[c + 1]
      /\ \A p, q \in DOMAIN s : s[p] = s[q] => p = q
  BY GoodParts
<1>2. CASE from = to \/ ~Valid(m, from) \/ ~Valid(m, to)
  BY <1>2 DEF Move
<1>3. CASE from # to /\ Valid(m, from) /\ Valid(m, to)
  <2>1. from \in 0 .. Len(s) - 1 /\ to \in 0 .. Len(s) - 1 /\ Len(s) # 0 /\ from # to
    BY <1>1, <1>3 DEF Valid, Count
  <2>2. /\ r \in Seq(Tab) /\ Len(r) = Len(s) - 1 /\ DOMAIN r = 1 .. Len(s) - 1
        /\ \A j \in 1 .. Len(s) - 1 : r[j] = IF j <= from THEN s[j] ELSE s[j + 1]
    BY <1>1, <2>1, ListWithoutType
  <2>3. /\ \A p, q \in DOMAIN r : r[p] = r[q] => p = q
        /\ \A p \in DOMAIN r : r[p] # t
    BY <1>1, <2>1, ListWithoutDistinct
  <2>4. t \in Tab
    BY <1>1, <2>1
  <2> HIDE DEF r, t, s
  <2>5. to \in 0 .. Len(r)
    BY <1>1, <2>1, <2>2
  <2>6. /\ l \in Seq(Tab) /\ Len(l) = Len(r) + 1 /\ DOMAIN l = 1 .. Len(r) + 1
        /\ \A j \in 1 .. Len(r) + 1 :
             l[j] = IF j <= to THEN r[j] ELSE IF j = to + 1 THEN t ELSE r[j - 1]
    <3>1. r \in Seq(Tab) /\ t \in Tab /\ to \in 0 .. Len(r)
      BY <2>2, <2>4, <2>5
    <3> QED
      BY <3>1, ListWithType
  <2>7. \A p, q \in DOMAIN l : l[p] = l[q] => p = q
    BY <2>2, <2>3, <2>4, <2>5, ListWithDistinct
  <2>8. Move(m, from, to) = [tabs |-> l, current |-> d, bound |-> m.bound]
    BY <1>3 DEF Move, Unnotified, l, r, t, s
  <2> HIDE DEF l, c
  <2>9. d \in 0 .. Len(l) - 1
    BY <1>1, <2>1, <2>2, <2>6 DEF MovedIndex
  <2>10. l[d + 1] = s[c + 1]
    <3>1. CASE c = from
      BY <1>1, <2>1, <2>2, <2>6, <3>1 DEF MovedIndex, t
    <3>2. CASE c # from /\ c >= to /\ c < from
      BY <1>1, <2>1, <2>2, <2>6, <3>2 DEF MovedIndex
    <3>3. CASE c > from /\ c <= to
      BY <1>1, <2>1, <2>2, <2>6, <3>3 DEF MovedIndex
    <3>4. CASE c # from /\ ~(c >= to /\ c < from) /\ ~(c > from /\ c <= to)
      BY <1>1, <2>1, <2>2, <2>6, <3>4 DEF MovedIndex
    <3> QED
      BY <1>1, <2>1, <3>1, <3>2, <3>3, <3>4
  <2> HIDE DEF d
  <2>11. Move(m, from, to) = [tabs |-> l, current |-> d, bound |-> l[d + 1]]
    BY <1>1, <2>1, <2>8, <2>10
  <2>12. Good(Move(m, from, to))
    BY <2>6, <2>7, <2>9, <2>11, GoodWhole
  <2>13. CurrentTab(Move(m, from, to)) = l[d + 1] /\ CurrentTab(m) = s[c + 1]
    BY <1>1, <2>1, <2>9, <2>11 DEF CurrentTab, Get, Valid, Count, s, c
  <2> QED
    BY <2>10, <2>12, <2>13
<1> QED
  BY <1>2, <1>3

-----------------------------------------------------------------------------
(* The theorems *)

LEMMA IndexType == ASSUME Good(model) PROVE Index \subseteq Int
BY GoodParts DEF Index, Count

LEMMA InvGood == Inv <=> Good(model)
BY DEF Inv, Good, TypeOK, CurrentExists, BoundIsCurrent, NoDuplicate

\* The list of tabs always has a current tab unless it is empty, its tabs are
\* distinct, and what the bindings hold is the current tab.
THEOREM ModelInvariant == Spec => [](TypeOK /\ CurrentExists /\ BoundIsCurrent /\ NoDuplicate)
<1>1. Init => Inv
  BY GoodEmpty, InvGood DEF Init
<1>2. Inv /\ [Next]_model => Inv'
  <2> SUFFICES ASSUME Inv, [Next]_model
               PROVE  Good(model')
    BY DEF Inv, Good, TypeOK, CurrentExists, BoundIsCurrent, NoDuplicate
  <2>1. Good(model) /\ Index \subseteq Int
    BY InvGood, IndexType
  <2>2. CASE DoInsert
    BY <2>1, <2>2, InsertGood DEF DoInsert
  <2>3. CASE DoRemove
    BY <2>1, <2>3, RemoveGood DEF DoRemove
  <2>4. CASE DoMove
    BY <2>1, <2>4, MoveGood DEF DoMove
  <2>5. CASE DoSetCurrent
    BY <2>1, <2>5, WithCurrentGood DEF DoSetCurrent
  <2>6. CASE UNCHANGED model
    BY <2>1, <2>6
  <2> QED
    BY <2>2, <2>3, <2>4, <2>5, <2>6 DEF Next
<1> QED
  BY <1>1, <1>2, PTL DEF Spec, Inv

\* Only the operations that say so change the current tab.
THEOREM OnlyAskedChanges == Spec => CurrentKept
<1>1. Inv /\ [Next]_model =>
        \/ \E t \in Tab \ Tabs(model) : model' = Insert(model, t, model.current)
        \/ model' = Remove(model, model.current)
        \/ \E i \in Index : model' = WithCurrent(model, i)
        \/ model.tabs = <<>>
        \/ CurrentTab(model') = CurrentTab(model)
        \/ UNCHANGED model
  <2> SUFFICES ASSUME Inv, Next, model.tabs # <<>>
               PROVE  \/ \E t \in Tab \ Tabs(model) : model' = Insert(model, t, model.current)
                      \/ model' = Remove(model, model.current)
                      \/ \E i \in Index : model' = WithCurrent(model, i)
                      \/ CurrentTab(model') = CurrentTab(model)
    OBVIOUS
  <2>1. Good(model) /\ Index \subseteq Int
    BY InvGood, IndexType
  <2>2. CASE DoInsert
    <3>1. PICK t \in Tab \ Tabs(model), i \in Index : model' = Insert(model, t, i)
      BY <2>2 DEF DoInsert
    <3>2. CASE Clamp(model, i) = model.current
      <4>1. Clamp(model, model.current) = model.current
        BY <2>1, GoodParts DEF Clamp, Count
      <4>2. model' = Insert(model, t, model.current)
        BY <3>1, <3>2, <4>1 DEF Insert
      <4> QED
        BY <4>2
    <3>3. CASE Clamp(model, i) # model.current
      BY <2>1, <3>1, <3>3, InsertGood
    <3> QED
      BY <3>2, <3>3
  <2>3. CASE DoRemove
    BY <2>1, <2>3, RemoveGood DEF DoRemove
  <2>4. CASE DoMove
    BY <2>1, <2>4, MoveGood DEF DoMove
  <2>5. CASE DoSetCurrent
    BY <2>5 DEF DoSetCurrent
  <2> QED
    BY <2>2, <2>3, <2>4, <2>5 DEF Next
<1>2. Spec => []Inv
  BY ModelInvariant DEF Inv
<1> QED
  BY <1>1, <1>2, PTL DEF Spec, CurrentKept

-----------------------------------------------------------------------------
(* The tabs of a window *)

\* The inductive invariant: the list of tabs is good and never empty, whether the
\* window is open or has just closed.
WindowInv ==
  /\ WindowTypeOK
  /\ Good(model)
  /\ model.tabs # <<>>

\* What every step of a narrow window does to the index of the current tab.
StackStep == ~wide' => model'.current = 0 \/ (~wide /\ model'.current = model.current)

-----------------------------------------------------------------------------
(* How many tabs an operation leaves, and which is current. *)

\* insert adds one tab; put at the current index, it becomes the current tab.
LEMMA InsertAdds ==
  ASSUME NEW m, Good(m), NEW t \in Tab \ Tabs(m), NEW i \in Int
  PROVE  /\ Count(Insert(m, t, i)) = Count(m) + 1
         /\ Clamp(m, i) \in 0 .. Count(m)
         /\ Clamp(m, i) = m.current => CurrentTab(Insert(m, t, i)) = t
<1> DEFINE k == Clamp(m, i)
           l == ListWith(m.tabs, t, k)
<1>1. m.tabs \in Seq(Tab) /\ Len(m.tabs) \in Nat /\ m.current \in Int
  BY GoodParts
<1>2. k \in 0 .. Len(m.tabs)
  BY <1>1 DEF Clamp, Count
<1>3. /\ Len(l) = Len(m.tabs) + 1
      /\ l[k + 1] = t
  <2>1. m.tabs \in Seq(Tab) /\ t \in Tab /\ k \in 0 .. Len(m.tabs)
    BY <1>1, <1>2
  <2> DEFINE s == m.tabs
  <2> HIDE DEF k, s
  <2>2. /\ Len(ListWith(s, t, k)) = Len(s) + 1
        /\ \A j \in 1 .. Len(s) + 1 :
             ListWith(s, t, k)[j] = IF j <= k THEN s[j] ELSE IF j = k + 1 THEN t ELSE s[j - 1]
    <3>1. s \in Seq(Tab) /\ k \in 0 .. Len(s)
      BY <2>1 DEF s
    <3> QED
      BY <2>1, <3>1, ListWithType
  <2> QED
    BY <1>1, <2>1, <2>2 DEF s
<1>4. Insert(m, t, i).tabs = l
  BY DEF Insert, Notified, Unnotified
<1>5. k = m.current => Insert(m, t, i) = Notified(l, k)
  BY <1>1, <1>2 DEF Insert
<1>6. ASSUME k = m.current PROVE CurrentTab(Insert(m, t, i)) = t
  <2> HIDE DEF k, l
  <2>1. /\ Insert(m, t, i).tabs = l /\ Insert(m, t, i).current = k
    BY <1>5, <1>6 DEF Notified
  <2> QED
    BY <1>1, <1>2, <1>3, <2>1 DEF CurrentTab, Get, Valid, Count
<1> QED
  BY <1>2, <1>3, <1>4, <1>6 DEF Count

\* remove takes one tab away when the index is that of a tab.
LEMMA RemoveTakes ==
  ASSUME NEW m, Good(m), NEW i \in Int, Valid(m, i)
  PROVE  Count(Remove(m, i)) = Count(m) - 1
<1>1. m.tabs \in Seq(Tab) /\ Len(m.tabs) \in Nat /\ i \in 0 .. Len(m.tabs) - 1
  BY GoodParts DEF Valid, Count
<1>2. Len(ListWithout(m.tabs, i)) = Len(m.tabs) - 1
  BY <1>1, ListWithoutType
<1>3. Remove(m, i).tabs = ListWithout(m.tabs, i)
  BY DEF Remove, Notified, Unnotified
<1> QED
  BY <1>2, <1>3 DEF Count

\* move leaves as many tabs, and a tab where it was told to.
LEMMA MoveKeeps ==
  ASSUME NEW m, Good(m), NEW from \in Int, NEW to \in Int
  PROVE  /\ Count(Move(m, from, to)) = Count(m)
         /\ from = m.current /\ Valid(m, to) => Move(m, from, to).current = to
<1>1. m.tabs \in Seq(Tab) /\ Len(m.tabs) \in Nat /\ m.current \in Int
      /\ (Valid(m, m.current) \/ Len(m.tabs) = 0)
  BY GoodParts DEF Valid, Count
<1>2. CASE from = to \/ ~Valid(m, from) \/ ~Valid(m, to)
  <2>1. Move(m, from, to) = m
    BY <1>2 DEF Move
  <2>2. ~(Len(m.tabs) = 0 /\ Valid(m, to))
    BY DEF Valid, Count
  <2> QED
    BY <1>1, <1>2, <2>1, <2>2
<1>3. CASE ~(from = to \/ ~Valid(m, from) \/ ~Valid(m, to))
  <2> DEFINE r == ListWithout(m.tabs, from)
             l == ListWith(r, m.tabs[from + 1], to)
  <2>1. /\ m.tabs \in Seq(Tab) /\ m.tabs[from + 1] \in Tab
        /\ from \in 0 .. Len(m.tabs) - 1 /\ to \in 0 .. Len(m.tabs) - 1
    BY <1>1, <1>3 DEF Valid, Count
  <2>2. r \in Seq(Tab) /\ Len(r) = Len(m.tabs) - 1
    BY <2>1, ListWithoutType
  <2> HIDE DEF r
  <2>3. to \in 0 .. Len(r)
    BY <1>1, <2>1, <2>2
  <2>4. Len(l) = Len(r) + 1
    BY <2>1, <2>2, <2>3, ListWithType
  <2>5. /\ Move(m, from, to).tabs = l
        /\ Move(m, from, to).current = MovedIndex(m.current, from, to)
    BY <1>3 DEF Move, Unnotified, r
  <2>6. Count(Move(m, from, to)) = Count(m)
    BY <1>1, <2>2, <2>4, <2>5 DEF Count
  <2> QED
    BY <2>5, <2>6 DEF MovedIndex
<1> QED
  BY <1>2, <1>3

\* setCurrentIndex leaves as many tabs.
LEMMA WithCurrentKeeps ==
  ASSUME NEW m, NEW i \in Int
  PROVE  Count(WithCurrent(m, i)) = Count(m)
BY DEF WithCurrent, Notified, Count

\* A good model with a tab has a current one; one without any has none.
LEMMA GoodCurrent ==
  ASSUME NEW m, Good(m)
  PROVE  /\ Count(m) \in Nat
         /\ Count(m) = 0 <=> m.tabs = <<>>
         /\ Count(m) > 0 => /\ Valid(m, m.current)
                            /\ CurrentTab(m) \in Tab /\ CurrentTab(m) = m.bound
                            /\ CurrentTab(m) \in Tabs(m)
         /\ \A i \in Int : Get(m, i) \in Tab \cup {NoTab}
         /\ m \in Model
<1>1. /\ m.tabs \in Seq(Tab) /\ Len(m.tabs) \in Nat /\ DOMAIN m.tabs = 1 .. Len(m.tabs)
      /\ Len(m.tabs) # 0 => m.current \in 0 .. Len(m.tabs) - 1
      /\ Len(m.tabs) = 0 <=> m.tabs = <<>>
  BY GoodParts
<1>2. \A i \in Int : Get(m, i) \in Tab \cup {NoTab}
  BY <1>1 DEF Get, Valid, Count
<1>3. Count(m) > 0 => /\ Valid(m, m.current)
                      /\ CurrentTab(m) \in Tab /\ CurrentTab(m) \in Tabs(m)
  BY <1>1 DEF CurrentTab, Get, Valid, Count, Tabs
<1> QED
  BY <1>1, <1>2, <1>3 DEF Good, Count

\* What the handler of currentIndexChanged does to a list: the same tabs, the
\* same current one, which is at the top in a narrow window.
LEMMA StackedGood ==
  ASSUME NEW m, Good(m)
  PROVE  /\ Good(Stacked(m)) /\ Count(Stacked(m)) = Count(m)
         /\ CurrentTab(Stacked(m)) = CurrentTab(m)
         /\ ~wide /\ Count(m) > 0 => Stacked(m).current \in {0, model.current}
<1>1. m.current \in Int /\ 0 \in Int
  BY GoodParts
<1>2. /\ Good(Move(m, m.current, 0)) /\ Count(Move(m, m.current, 0)) = Count(m)
      /\ CurrentTab(Move(m, m.current, 0)) = CurrentTab(m)
      /\ Valid(m, 0) => Move(m, m.current, 0).current = 0
  BY <1>1, MoveGood, MoveKeeps
<1>3. Count(m) > 0 => Valid(m, 0)
  BY GoodCurrent DEF Valid
<1> QED
  BY <1>2, <1>3 DEF Stacked
-----------------------------------------------------------------------------
(* The steps of the window *)

\* The helpers that the actions share keep the types.
LEMMA PointNextTypes ==
  ASSUME WindowInv, NEW m, Good(m), NEW i \in Int, NEW l \in SUBSET Tab, PointNext(m, i, l)
  PROVE  /\ nextTabIndex' \in Int /\ nextTab' \in Tab \cup {NoTab} /\ loaded' \subseteq Tab
         /\ l \subseteq loaded'
<1>1. Get(m, i) \in Tab \cup {NoTab}
  BY GoodCurrent
<1>2. nextTab \in Tab \cup {NoTab}
  BY DEF WindowInv, WindowTypeOK
<1> QED
  BY <1>1, <1>2 DEF PointNext

\* A switch, at once or when a timer expires, leaves a good list, a stack in a
\* narrow window, and the tab it switches to is loaded if it can be.
LEMMA SwitchNowGood ==
  ASSUME WindowInv, NEW i \in Int, NEW seen \in BOOLEAN, SwitchNow(model, i, seen)
  PROVE  /\ Good(model') /\ model'.tabs # <<>>
         /\ ~wide => model'.current \in {0, model.current}
         /\ nextTabIndex' \in Int /\ nextTab' \in Tab \cup {NoTab} /\ loaded' \subseteq Tab
         /\ ~seen /\ CurrentTab(model') \in withUrl => CurrentTab(model') \in loaded'
<1> DEFINE w == WithCurrent(model, i)
           n == Stacked(w)
<1>1. Good(model) /\ Count(model) > 0 /\ Count(model) \in Nat
  BY GoodCurrent DEF WindowInv
<1>2. Good(w) /\ Count(w) > 0
  BY <1>1, WithCurrentGood, WithCurrentKeeps
<1> HIDE DEF w
<1>3. Good(n) /\ Count(n) > 0 /\ (~wide => n.current \in {0, model.current})
  BY <1>2, StackedGood DEF WindowInv
<1>4. n.tabs # <<>> /\ CurrentTab(n) \in Tab
  BY <1>3, GoodCurrent
<1>5. /\ model' = n /\ nextTabIndex' = -1 /\ nextTab' = NoTab
      /\ loaded' = IF ~seen /\ CurrentTab(n) \in withUrl THEN loaded \cup {CurrentTab(n)} ELSE loaded
  BY DEF SwitchNow, w
<1>6. loaded \subseteq Tab
  BY DEF WindowInv, WindowTypeOK
<1> HIDE DEF n
<1> QED
  BY <1>3, <1>4, <1>5, <1>6

\* A tab that is put in the list: the list stays good and a stack, and the
\* current tab is the new one or the one it was.
LEMMA StackedInsert ==
  ASSUME WindowInv, NEW t \in Tab \ Tabs(model), NEW i \in Int
  PROVE  LET n == Stacked(Insert(model, t, i))
         IN  /\ Good(n) /\ n.tabs # <<>> /\ Count(n) = Count(model) + 1
             /\ ~wide => n.current \in {0, model.current}
             /\ CurrentTab(n) = IF Clamp(model, i) = model.current THEN t ELSE CurrentTab(model)
<1> DEFINE m == Insert(model, t, i)
           n == Stacked(m)
<1>1. Good(model) /\ Count(model) > 0 /\ Count(model) \in Nat /\ model.tabs # <<>>
  BY GoodCurrent DEF WindowInv
<1>2. /\ Good(m) /\ Count(m) = Count(model) + 1
      /\ CurrentTab(m) = IF Clamp(model, i) = model.current THEN t ELSE CurrentTab(model)
  BY <1>1, InsertGood, InsertAdds
<1> HIDE DEF m
<1>3. /\ Good(n) /\ Count(n) = Count(m) /\ CurrentTab(n) = CurrentTab(m)
      /\ ~wide => n.current \in {0, model.current}
  BY <1>1, <1>2, StackedGood DEF WindowInv
<1>4. n.tabs # <<>>
  BY <1>1, <1>2, <1>3, GoodCurrent
<1> QED
  BY <1>2, <1>3, <1>4 DEF m

\* Opening a tab.
LEMMA OpenUrlKeeps ==
  ASSUME WindowInv, NEW t \in Tab, NEW url \in BOOLEAN, NEW setCurrent \in BOOLEAN,
         NEW i \in Int, OpenUrlInNewTab(t, url, setCurrent, i), recent' \in BOOLEAN
  PROVE  WindowInv' /\ StackStep
<1> DEFINE n == Stacked(Insert(model, t, i))
           at == Clamp(model, i)
<1>1. t \in Tab \ Tabs(model)
  BY DEF OpenUrlInNewTab, Unused
<1>2. /\ Good(n) /\ n.tabs # <<>> /\ (~wide => n.current \in {0, model.current})
  BY <1>1, StackedInsert
<1>3. at \in Int
  BY <1>1, InsertAdds DEF WindowInv
<1>4. WindowTypeOK /\ n \in Model /\ loaded \cup {t} \in SUBSET Tab
  BY <1>2, GoodCurrent DEF WindowInv, WindowTypeOK
<1> HIDE DEF n, at
<1>5. /\ model' = n
      /\ nextTabIndex' \in Int /\ nextTab' \in Tab \cup {NoTab} /\ loaded' \subseteq Tab
      /\ switcher' \in BOOLEAN
  <2>1. CASE setCurrent
    <3>1. SwitchLater(n, at, loaded \cup {t})
      BY <2>1 DEF OpenUrlInNewTab, n, at
    <3>2. model' = n /\ switcher' = TRUE /\ PointNext(n, at, loaded \cup {t})
      BY <3>1 DEF SwitchLater
    <3>3. /\ nextTabIndex' \in Int /\ nextTab' \in Tab \cup {NoTab} /\ loaded' \subseteq Tab
      BY <1>2, <1>3, <1>4, <3>2, PointNextTypes
    <3> QED
      BY <3>2, <3>3
  <2>2. CASE ~setCurrent
    BY <1>4, <2>2 DEF OpenUrlInNewTab, n, switchVars, WindowTypeOK
  <2> QED
    BY <2>1, <2>2
<1>6. /\ withUrl' \subseteq Tab
      /\ UNCHANGED <<open, wide, dragging, animated, closedTabHistory, elsewhere>>
  BY <1>4 DEF OpenUrlInNewTab, WindowTypeOK
<1>7. WindowTypeOK'
  BY <1>4, <1>5, <1>6 DEF WindowTypeOK
<1> QED
  BY <1>2, <1>5, <1>6, <1>7 DEF WindowInv, StackStep
\* A link opened in a new tab.
LEMMA OpenLinkKeeps ==
  ASSUME WindowInv, NEW t \in Tab, NEW background \in BOOLEAN, OpenLink(t, background)
  PROVE  WindowInv' /\ StackStep
<1> DEFINE m == Stacked(Insert(model, t, Count(model)))
           w == WithCurrent(m, Count(m) - 1)
           n == IF background THEN m ELSE Stacked(w)
<1>1. t \in Tab \ Tabs(model) /\ Count(model) \in Int
  BY GoodCurrent DEF OpenLink, Unused, WindowInv
<1>2. /\ Good(m) /\ m.tabs # <<>> /\ (~wide => m.current \in {0, model.current})
      /\ Count(m) = Count(model) + 1 /\ Count(m) > 0 /\ Count(m) - 1 \in Int
  BY <1>1, StackedInsert, GoodCurrent DEF WindowInv
<1>3. model' = n /\ loaded' = IF background THEN loaded ELSE loaded \cup {CurrentTab(n)}
  BY DEF OpenLink
<1> HIDE DEF m
<1>4. Good(w) /\ Count(w) = Count(m)
  BY <1>2, WithCurrentGood, WithCurrentKeeps
<1> HIDE DEF w
<1>5. Good(Stacked(w)) /\ Count(Stacked(w)) > 0 /\ (~wide => Stacked(w).current \in {0, model.current})
  BY <1>2, <1>4, StackedGood DEF WindowInv
<1>6. Good(n) /\ n.tabs # <<>> /\ (~wide => n.current \in {0, model.current}) /\ Count(n) > 0
  BY <1>2, <1>5, GoodCurrent
<1> HIDE DEF n
<1>7. n \in Model /\ CurrentTab(n) \in Tab
  BY <1>6, GoodCurrent
<1>8. WindowTypeOK'
  BY <1>3, <1>7 DEF WindowInv, WindowTypeOK, OpenLink, viewVars, switchVars
<1> QED
  BY <1>3, <1>6, <1>8 DEF WindowInv, OpenLink, viewVars, StackStep

\* What closing a tab remembers.
LEMMA RememberedTypes ==
  ASSUME WindowInv, NEW t \in Tab, NEW i \in Nat, Remembered(t, i)
  PROVE  closedTabHistory' \in Seq(ClosedTab) /\ Len(closedTabHistory') <= MaxClosed
<1>1. closedTabHistory \in Seq(ClosedTab) /\ Len(closedTabHistory) <= MaxClosed
  BY DEF WindowInv, WindowTypeOK
<1>2. [tab |-> t, index |-> i] \in ClosedTab
  BY DEF ClosedTab
<1>3. MaxClosed \in Nat
  BY BrowserAssumption
<1> QED
  BY <1>1, <1>2, <1>3 DEF Remembered

\* Closing a tab that is not the last one.
LEMMA CloseTabKeeps ==
  ASSUME WindowInv, NEW i \in Int, NEW moving \in BOOLEAN, CloseTab(i, moving),
         elsewhere' \subseteq Tab
  PROVE  WindowInv' /\ StackStep
<1> DEFINE t == Get(model, i)
           r == Remove(model, i)
           m == Stacked(r)
<1>1. t # NoTab /\ Count(m) > 0
  BY DEF CloseTab
<1>2. Good(r)
  BY RemoveGood DEF WindowInv
<1>3. t \in Tab /\ i \in Nat
  BY <1>1, GoodCurrent DEF WindowInv, Get, Valid
<1> HIDE DEF r
<1>4. Good(m) /\ Count(m) = Count(r) /\ (~wide => m.current \in {0, model.current})
  BY <1>1, <1>2, StackedGood DEF WindowInv
<1>5. /\ Remembered(t, i) /\ model' = m /\ loaded' = (loaded \ {t}) \cup {CurrentTab(m)}
      /\ UNCHANGED <<open, wide, dragging, recent, animated, withUrl>>
  BY DEF CloseTab, r, viewVars
<1>5a. IF moving THEN UNCHANGED switchVars ELSE Forget(t)
  BY DEF CloseTab
<1> HIDE DEF t, m
<1>6. m.tabs # <<>> /\ m \in Model /\ CurrentTab(m) \in Tab
  BY <1>1, <1>4, GoodCurrent
<1>7. WindowTypeOK
  BY DEF WindowInv
<1>8. nextTabIndex' \in Int /\ nextTab' \in Tab \cup {NoTab} /\ switcher' \in BOOLEAN
  BY <1>7, <1>5a DEF Forget, switchVars, WindowTypeOK
<1>9. closedTabHistory' \in Seq(ClosedTab) /\ Len(closedTabHistory') <= MaxClosed
  BY <1>3, <1>5, RememberedTypes
<1>10. loaded' \subseteq Tab
  BY <1>5, <1>6, <1>7 DEF WindowTypeOK
<1>11. WindowTypeOK'
  BY <1>5, <1>6, <1>7, <1>8, <1>9, <1>10 DEF WindowTypeOK
<1> QED
  BY <1>4, <1>5, <1>6, <1>11 DEF WindowInv, StackStep

\* Closing the last tab: another takes its place.
LEMMA CloseLastKeeps ==
  ASSUME WindowInv, NEW t \in Tab, NEW moving \in BOOLEAN, CloseLast(t, moving),
         elsewhere' \subseteq Tab
  PROVE  WindowInv' /\ StackStep /\ CurrentTab(model') = t
<1> DEFINE last == Get(model, 0)
           r == Remove(model, 0)
           m == Insert(r, t, 0)
<1>1. Good(model) /\ Count(model) = 1 /\ Valid(model, 0)
  BY DEF CloseLast, WindowInv, Valid
<1>2. Good(r) /\ Count(r) = 0
  BY <1>1, RemoveGood, RemoveTakes
<1>3. last \in Tab
  BY <1>1, GoodParts DEF Get, Valid, Count
<1>4. /\ Remembered(last, 0) /\ model' = m /\ loaded' = (loaded \ {last}) \cup {t}
      /\ switcher' = TRUE /\ nextTabIndex' = 0
      /\ nextTab' = IF nextTabIndex # 0 THEN t
                    ELSE IF nextTab = last /\ ~moving THEN NoTab ELSE nextTab
      /\ open' = ~wide /\ withUrl' = withUrl \ {t} /\ recent' = FALSE
      /\ UNCHANGED <<wide, dragging, animated>>
  BY DEF CloseLast
<1> HIDE DEF last, r
<1>5. r.tabs = <<>> /\ t \in Tab \ Tabs(r)
  BY <1>2, GoodCurrent DEF Tabs
<1>6. Good(m) /\ Count(m) = 1
  BY <1>2, <1>5, InsertGood, InsertAdds
<1>7. m.current = 0 /\ m.tabs # <<>> /\ m \in Model
  BY <1>6, GoodCurrent DEF Valid
<1>8. m.tabs[1] = t
  <2>1. m = Notified(ListWith(<<>>, t, 0), 0)
    BY <1>2, <1>5, GoodParts DEF Insert, Clamp, Count
  <2> QED
    BY <2>1 DEF Notified, ListWith
<1>9. CurrentTab(m) = t
  BY <1>6, <1>7, <1>8 DEF CurrentTab, Get, Valid
<1> HIDE DEF m
<1>10. WindowTypeOK
  BY DEF WindowInv
<1>11. closedTabHistory' \in Seq(ClosedTab) /\ Len(closedTabHistory') <= MaxClosed
  BY <1>3, <1>4, RememberedTypes
<1> USE DEF WindowTypeOK
<1>12. /\ model' \in Model /\ open' \in BOOLEAN /\ wide' \in Modes
       /\ dragging' \in BOOLEAN /\ recent' \in BOOLEAN /\ animated' \in Int
  BY <1>4, <1>7, <1>10
<1>13. /\ nextTabIndex' \in Int /\ switcher' \in BOOLEAN
       /\ nextTab' \in Tab \cup {NoTab}
  BY <1>4, <1>10
<1>14. withUrl' \subseteq Tab /\ loaded' \subseteq Tab
  BY <1>4, <1>10
<1>15. WindowTypeOK'
  BY <1>12, <1>13, <1>14, <1>11
<1> QED
  BY <1>4, <1>6, <1>7, <1>9, <1>15 DEF WindowInv, StackStep
\* Reopening the tab closed last.
LEMMA UndoKeeps ==
  ASSUME WindowInv, UndoCloseTab
  PROVE  WindowInv' /\ StackStep
<1> DEFINE len == Len(closedTabHistory)
           info == closedTabHistory[len]
           n == Stacked(Insert(model, info.tab, info.index))
           at == Clamp(model, info.index)
<1>1. WindowTypeOK /\ Good(model)
  BY DEF WindowInv
<1>2. /\ closedTabHistory \in Seq(ClosedTab) /\ len \in Nat /\ len <= MaxClosed /\ len > 0
      /\ closedTabHistory' = SubSeq(closedTabHistory, 1, len - 1)
      /\ info.tab \notin Tabs(model)
      /\ SwitchLater(n, at, loaded \cup {info.tab})
      /\ UNCHANGED <<open, wide, dragging, recent, animated, withUrl, elsewhere>>
  BY <1>1 DEF UndoCloseTab, WindowTypeOK, viewVars
<1>3. info \in ClosedTab
  BY <1>2
<1>4. info.tab \in Tab \ Tabs(model) /\ info.index \in Int
  BY <1>2, <1>3 DEF ClosedTab
<1>5. /\ closedTabHistory' \in Seq(ClosedTab)
      /\ Len(closedTabHistory') <= MaxClosed
  BY <1>2, BrowserAssumption
<1> HIDE DEF info
<1>6. Good(n) /\ n.tabs # <<>> /\ (~wide => n.current \in {0, model.current}) /\ at \in Int
  <2>1. Good(n) /\ n.tabs # <<>> /\ (~wide => n.current \in {0, model.current})
    BY <1>1, <1>4, StackedInsert, GoodCurrent
  <2>2. at \in 0 .. Count(model)
    BY <1>1, <1>4, InsertAdds
  <2> QED
    BY <2>1, <2>2
<1> HIDE DEF n, at
<1>7. n \in Model /\ loaded \cup {info.tab} \in SUBSET Tab
  BY <1>1, <1>4, <1>6, GoodCurrent DEF WindowTypeOK
<1>8. model' = n /\ switcher' = TRUE /\ PointNext(n, at, loaded \cup {info.tab})
  BY <1>2 DEF SwitchLater
<1>9. nextTabIndex' \in Int /\ nextTab' \in Tab \cup {NoTab} /\ loaded' \subseteq Tab
  BY <1>6, <1>7, <1>8, PointNextTypes
<1>10. WindowTypeOK'
  BY <1>1, <1>2, <1>5, <1>7, <1>8, <1>9 DEF WindowTypeOK
<1> QED
  BY <1>2, <1>6, <1>8, <1>10 DEF WindowInv, StackStep

\* Selecting a tab, which is switched to later.
LEMMA SelectTabKeeps ==
  ASSUME WindowInv, NEW i \in Int, SelectTab(i)
  PROVE  WindowInv' /\ StackStep
<1>1. WindowTypeOK /\ Good(model) /\ loaded \in SUBSET Tab
  BY DEF WindowInv, WindowTypeOK
<1>2. /\ SwitchLater(model, i, loaded)
      /\ UNCHANGED <<open, wide, dragging, recent, animated, closedTabHistory, withUrl, elsewhere>>
  BY DEF SelectTab, viewVars
<1>3. model' = model /\ switcher' = TRUE /\ PointNext(model, i, loaded)
  BY <1>2 DEF SwitchLater
<1>4. nextTabIndex' \in Int /\ nextTab' \in Tab \cup {NoTab} /\ loaded' \subseteq Tab
  BY <1>1, <1>3, PointNextTypes
<1>5. WindowTypeOK'
  BY <1>1, <1>2, <1>3, <1>4 DEF WindowTypeOK
<1> QED
  BY <1>2, <1>3, <1>5 DEF WindowInv, StackStep

\* Selecting a tab in the list of recent ones, which is animated first.
LEMMA SelectRecentKeeps ==
  ASSUME WindowInv, NEW i \in Int, SelectRecent(i)
  PROVE  WindowInv' /\ StackStep
<1>1. WindowTypeOK /\ Good(model) /\ loaded \in SUBSET Tab
  BY DEF WindowInv, WindowTypeOK
<1>2. /\ animated' = i /\ PointNext(model, i, loaded) /\ dragging' \in {dragging, FALSE}
      /\ UNCHANGED <<model, open, wide, recent, switcher, closedTabHistory, withUrl, elsewhere>>
  BY DEF SelectRecent
<1>3. nextTabIndex' \in Int /\ nextTab' \in Tab \cup {NoTab} /\ loaded' \subseteq Tab
  BY <1>1, <1>2, PointNextTypes
<1>4. WindowTypeOK'
  BY <1>1, <1>2, <1>3 DEF WindowTypeOK
<1> QED
  BY <1>2, <1>4 DEF WindowInv, StackStep

\* A switch that completes: when the timer expires, when an animation ends, or
\* at once to the first tab.
LEMMA SwitchedKeeps ==
  ASSUME WindowInv, SwitchTimeout \/ AnimationEnd \/ SelectRecentFirst
  PROVE  WindowInv' /\ StackStep
<1>1. WindowTypeOK
  BY DEF WindowInv
<1>2. PICK i \in Int, seen \in BOOLEAN : SwitchNow(model, i, seen)
  <2>1. nextTabIndex \in Int /\ animated \in Int /\ 0 \in Int
    BY <1>1 DEF WindowTypeOK
  <2>2. RecentVisible \in BOOLEAN /\ dragging \in BOOLEAN /\ (dragging \/ animated # -1) \in BOOLEAN
    BY <1>1 DEF WindowTypeOK, RecentVisible
  <2> QED
    BY <2>1, <2>2 DEF SwitchTimeout, AnimationEnd, SelectRecentFirst
<1>3. /\ Good(model') /\ model'.tabs # <<>>
      /\ ~wide => model'.current \in {0, model.current}
      /\ nextTabIndex' \in Int /\ nextTab' \in Tab \cup {NoTab} /\ loaded' \subseteq Tab
  BY <1>2, SwitchNowGood
<1>4. /\ switcher' \in BOOLEAN /\ recent' \in BOOLEAN /\ animated' \in Int
      /\ UNCHANGED <<open, wide, dragging, closedTabHistory, withUrl, elsewhere>>
  <2>1. CASE SwitchTimeout
    BY <1>1, <2>1 DEF SwitchTimeout, viewVars, WindowTypeOK
  <2>2. CASE AnimationEnd
    <3>1. /\ animated' = -1 /\ recent' = FALSE
          /\ UNCHANGED <<open, wide, dragging, switcher, closedTabHistory, withUrl, elsewhere>>
      BY <2>2 DEF AnimationEnd
    <3>2. animated' \in Int
      BY <3>1
    <3>3. switcher \in BOOLEAN
      BY <1>1 DEF WindowTypeOK
    <3> QED
      BY <3>1, <3>2, <3>3
  <2>3. CASE SelectRecentFirst
    BY <1>1, <2>3 DEF SelectRecentFirst, WindowTypeOK
  <2> QED
    BY <2>1, <2>2, <2>3
<1>5. model' \in Model
  BY <1>3, GoodCurrent
<1>6. WindowTypeOK'
  BY <1>1, <1>3, <1>4, <1>5 DEF WindowTypeOK
<1> QED
  BY <1>3, <1>4, <1>6 DEF WindowInv, StackStep

\* Moving tabs: in the bar of a wide window, and when a window gets narrow.
LEMMA ResizeKeeps ==
  ASSUME WindowInv, Resize
  PROVE  WindowInv' /\ StackStep
<1> DEFINE n == Move(model, model.current, 0)
<1>1. WindowTypeOK /\ Good(model) /\ model.current \in Int /\ model.tabs # <<>> /\ Valid(model, 0)
  BY GoodCurrent, GoodParts DEF WindowInv, Valid
<1>2. Good(n) /\ Count(n) = Count(model) /\ n.current = 0
  BY <1>1, MoveGood, MoveKeeps
<1>3. /\ wide' \in Modes /\ wide' # wide
      /\ recent' = (IF wide THEN recent ELSE FALSE)
      /\ model' = (IF wide THEN n ELSE model)
      /\ UNCHANGED <<open, dragging, animated, nextTabIndex, nextTab, switcher,
                     closedTabHistory, withUrl, loaded, elsewhere>>
  BY DEF Resize, switchVars
<1> HIDE DEF n
<1>4. n.tabs # <<>> /\ n \in Model
  BY <1>1, <1>2, GoodCurrent
<1>5. WindowTypeOK'
  BY <1>1, <1>3, <1>4 DEF WindowTypeOK
<1>6. ~wide' => wide
  BY <1>1, <1>3, BrowserAssumption DEF WindowTypeOK
<1> QED
  BY <1>1, <1>2, <1>3, <1>4, <1>5, <1>6 DEF WindowInv, StackStep

LEMMA DragTabKeeps ==
  ASSUME WindowInv, NEW from \in Int, NEW to \in Int, DragTab(from, to)
  PROVE  WindowInv' /\ StackStep
<1> DEFINE n == Move(model, from, to)
<1>1. WindowTypeOK /\ Good(model) /\ model.tabs # <<>>
  BY DEF WindowInv
<1>2. Good(n) /\ Count(n) = Count(model)
  BY <1>1, MoveGood, MoveKeeps
<1>3. /\ wide /\ model' = n
      /\ UNCHANGED <<open, wide, dragging, recent, animated, nextTabIndex, nextTab, switcher,
                     closedTabHistory, withUrl, loaded, elsewhere>>
  BY DEF DragTab, viewVars, switchVars
<1> HIDE DEF n
<1>4. n.tabs # <<>> /\ n \in Model
  BY <1>1, <1>2, GoodCurrent
<1>5. WindowTypeOK'
  BY <1>1, <1>3, <1>4 DEF WindowTypeOK
<1> QED
  BY <1>2, <1>3, <1>4, <1>5 DEF WindowInv, StackStep

\* Steps that leave the list as it is.
LEMMA OthersKeep ==
  ASSUME WindowInv,
         \/ \E t \in Tab : Navigate(t) \/ Unload(t)
         \/ StartDrag
         \/ EndDrag
         \/ UNCHANGED windowVars
  PROVE  WindowInv' /\ StackStep
<1>1. WindowTypeOK
  BY DEF WindowInv
<1>2. /\ UNCHANGED <<model, open, wide, animated, nextTabIndex, nextTab, switcher,
                     closedTabHistory, elsewhere>>
      /\ dragging' \in BOOLEAN /\ recent' \in BOOLEAN
      /\ withUrl' \subseteq Tab /\ loaded' \subseteq Tab
  <2>1. CASE \E t \in Tab : Navigate(t) \/ Unload(t)
    BY <1>1, <2>1 DEF Navigate, Unload, viewVars, switchVars, WindowTypeOK
  <2>2. CASE StartDrag
    BY <1>1, <2>2 DEF StartDrag, switchVars, WindowTypeOK
  <2>3. CASE EndDrag
    BY <1>1, <2>3 DEF EndDrag, switchVars, WindowTypeOK
  <2>4. CASE UNCHANGED windowVars
    BY <1>1, <2>4 DEF windowVars, viewVars, switchVars, WindowTypeOK
  <2> QED
    BY <2>1, <2>2, <2>3, <2>4
<1>3. WindowTypeOK'
  BY <1>1, <1>2 DEF WindowTypeOK
<1> QED
  BY <1>2, <1>3 DEF WindowInv, StackStep
-----------------------------------------------------------------------------
(* The theorems *)

LEMMA WindowInitInv == WindowInit => WindowInv
<1> SUFFICES ASSUME WindowInit PROVE WindowInv
  OBVIOUS
<1>1. PICK n \in 1 .. MaxMade :
        \E l \in {s \in [1 .. n -> Tab] : \A i, j \in 1 .. n : s[i] = s[j] => i = j},
           c \in 0 .. n - 1 : model = Notified(l, c)
  BY DEF WindowInit
<1>2. PICK l \in [1 .. n -> Tab], c \in 0 .. n - 1 :
        /\ \A i, j \in 1 .. n : l[i] = l[j] => i = j
        /\ model = Notified(l, c)
  BY <1>1
<1>3. n \in Nat /\ n > 0 /\ l \in Seq(Tab) /\ Len(l) = n /\ DOMAIN l = 1 .. n
  BY <1>1, <1>2, BrowserAssumption
<1>4. Good(model)
  BY <1>2, <1>3, GoodWhole
<1>5. model.tabs # <<>> /\ model \in Model
  <2>1. model.tabs = l
    BY <1>2 DEF Notified
  <2> QED
    BY <1>3, <1>4, <2>1, GoodCurrent
<1>6. /\ Tabs(model) \subseteq Tab
      /\ withUrl \subseteq Tab /\ loaded \subseteq Tab
  <2>1. Tabs(model) \subseteq Tab
    BY <1>5 DEF Tabs, Model
  <2> QED
    BY <2>1 DEF WindowInit
<1>7. /\ open = TRUE /\ wide \in Modes /\ dragging = FALSE /\ recent = FALSE /\ animated = -1
      /\ nextTabIndex = -1 /\ nextTab = NoTab /\ switcher = FALSE
      /\ closedTabHistory = <<>> /\ elsewhere = {}
  BY DEF WindowInit
<1>8. /\ closedTabHistory \in Seq(ClosedTab) /\ Len(closedTabHistory) <= MaxClosed
      /\ -1 \in Int
  BY <1>7, BrowserAssumption
<1>9. WindowTypeOK
  BY <1>5, <1>6, <1>7, <1>8 DEF WindowTypeOK
<1> QED
  BY <1>4, <1>5, <1>9 DEF WindowInv

LEMMA WindowStep == WindowInv /\ [WindowNext]_windowVars => WindowInv' /\ StackStep
<1> SUFFICES ASSUME WindowInv, [WindowNext]_windowVars
             PROVE  WindowInv' /\ StackStep
  OBVIOUS
<1>1. WindowTypeOK /\ Count(model) \in Nat /\ WindowIndex \subseteq Int
  BY GoodCurrent DEF WindowInv, WindowIndex
<1>2. ASSUME NEW t \in Tab, NEW url \in BOOLEAN, NEW setCurrent \in BOOLEAN,
             NewTab(t, url, setCurrent)
      PROVE  WindowInv' /\ StackStep
  <2>1. OpenUrlInNewTab(t, url, setCurrent, Count(model)) /\ recent' \in BOOLEAN
    BY <1>1, <1>2 DEF NewTab, WindowTypeOK
  <2> QED
    BY <1>1, <2>1, OpenUrlKeeps
<1>3. ASSUME NEW t \in Tab, NEW i \in WindowIndex, NewTabAfter(t, i)
      PROVE  WindowInv' /\ StackStep
  <2>1. OpenUrlInNewTab(t, FALSE, TRUE, i + 1) /\ recent' = recent
    BY <1>3 DEF NewTabAfter
  <2>2. recent' \in BOOLEAN /\ i + 1 \in Int
    BY <1>1, <2>1 DEF WindowTypeOK
  <2> QED
    BY <2>1, <2>2, OpenUrlKeeps
<1>4. ASSUME NEW i \in WindowIndex, Close(i) \/ MoveToNewWindow(i)
      PROVE  WindowInv' /\ StackStep
  <2>1. elsewhere' \subseteq Tab
    <3>1. CASE Close(i)
      BY <1>1, <3>1 DEF Close, WindowTypeOK
    <3>2. CASE MoveToNewWindow(i)
      <4>1. Get(model, i) \in Tab
        <5>1. CASE \E moving \in BOOLEAN : CloseTab(i, moving)
          BY <1>1, <5>1, GoodCurrent DEF CloseTab, WindowInv
        <5>2. CASE i = 0 /\ \E t \in Tab, moving \in BOOLEAN : CloseLast(t, moving)
          BY <5>2, GoodParts DEF CloseLast, WindowInv, Get, Valid, Count
        <5> QED
          BY <3>2, <5>1, <5>2 DEF MoveToNewWindow
      <4> QED
        BY <1>1, <3>2, <4>1 DEF MoveToNewWindow, WindowTypeOK
    <3> QED
      BY <1>4, <3>1, <3>2
  <2>2. PICK moving \in BOOLEAN : CloseTab(i, moving) \/ \E t \in Tab : CloseLast(t, moving)
    BY <1>4 DEF Close, MoveToNewWindow
  <2>3. CASE CloseTab(i, moving)
    BY <1>1, <2>1, <2>3, CloseTabKeeps
  <2>4. CASE \E t \in Tab : CloseLast(t, moving)
    BY <2>1, <2>4, CloseLastKeeps
  <2> QED
    BY <2>2, <2>3, <2>4
<1>5. CASE OpenNext
  <2>1. PICK t \in Tab : \/ \E url, setCurrent \in BOOLEAN : NewTab(t, url, setCurrent)
                         \/ \E i \in WindowIndex : NewTabAfter(t, i)
                         \/ \E background \in BOOLEAN : OpenLink(t, background)
                         \/ Navigate(t)
    BY <1>5 DEF OpenNext
  <2>2. CASE \E background \in BOOLEAN : OpenLink(t, background)
    BY <2>2, OpenLinkKeeps
  <2>3. CASE Navigate(t)
    BY <2>3, OthersKeep
  <2> QED
    BY <1>2, <1>3, <2>1, <2>2, <2>3
<1>6. CASE CloseNext
  BY <1>4, <1>6, UndoKeeps DEF CloseNext
<1>7. CASE SelectNext
  <2>1. CASE \E i \in WindowIndex : SelectTab(i) \/ SelectRecent(i)
    BY <1>1, <2>1, SelectTabKeeps, SelectRecentKeeps
  <2>2. CASE \E from, to \in WindowIndex : DragTab(from, to)
    BY <1>1, <2>2, DragTabKeeps
  <2> QED
    BY <1>7, <2>1, <2>2, OthersKeep, SwitchedKeeps DEF SelectNext
<1>8. CASE Pending
  BY <1>8, SwitchedKeeps DEF Pending
<1>9. CASE Resize
  BY <1>9, ResizeKeeps
<1>10. CASE (\E t \in Tab : Unload(t)) \/ UNCHANGED windowVars
  BY <1>10, OthersKeep
<1> QED
  BY <1>5, <1>6, <1>7, <1>8, <1>9, <1>10 DEF WindowNext

LEMMA WindowInvariant == WindowSpec => []WindowInv
BY WindowInitInv, WindowStep, PTL DEF WindowSpec

\* However tabs are opened, closed, moved, unloaded, reopened and switched to
\* while a switch is under way, a window that is open has a tab, a current one
\* that the bindings know of, and no tab twice.
THEOREM AlwaysATab == WindowSpec => []WindowHasCurrent
<1>1. WindowInv => WindowHasCurrent
  BY DEF WindowInv, Good, WindowHasCurrent, CurrentExists, BoundIsCurrent, NoDuplicate
<1> QED
  BY <1>1, WindowInvariant, PTL

\* In a narrow window, whatever tabs it was made with, the current tab is at the top
\* from the first change of its index on, and after the window has become narrow.
THEOREM AlwaysAStack == WindowSpec => NarrowStack
<1>1. WindowInv /\ [WindowNext]_windowVars =>
        [ open' /\ ~wide' =>
            model'.current = 0 \/ (~wide /\ model'.current = model.current) ]_windowVars
  BY WindowStep DEF StackStep
<1> QED
  BY <1>1, WindowInvariant, PTL DEF WindowSpec, NarrowStack
-----------------------------------------------------------------------------
(* A wide window shows the page of its current tab. *)

\* In a wide window there is no list of recent tabs; the current tab is loaded
\* if it has a URL.
WideInv ==
  /\ WindowInv
  /\ wide /\ ~dragging /\ ~recent /\ animated = -1
  /\ CurrentTab(model) \in withUrl => CurrentTab(model) \in loaded

\* The tab that is current is one of the list, and the one the bindings hold.
LEMMA WideCurrent ==
  ASSUME WideInv
  PROVE  /\ CurrentTab(model) \in Tabs(model) /\ CurrentTab(model) = model.bound
         /\ Good(model) /\ Count(model) \in Nat /\ model.current < Count(model)
         /\ ~RecentVisible
BY GoodCurrent DEF WideInv, WindowInv, RecentVisible, Valid

\* Opening tabs.
LEMMA WideOpens ==
  ASSUME WideInv, OpenNext
  PROVE  CurrentTab(model') \in withUrl' => CurrentTab(model') \in loaded'
<1>1. /\ CurrentTab(model) \in Tabs(model) /\ Count(model) \in Nat /\ model.current < Count(model)
      /\ Good(model) /\ WindowInv
      /\ CurrentTab(model) \in withUrl => CurrentTab(model) \in loaded
      /\ loaded \subseteq Tab
  BY WideCurrent DEF WideInv, WindowInv, WindowTypeOK
<1>2. ASSUME NEW t \in Tab, NEW url \in BOOLEAN, NEW setCurrent \in BOOLEAN, NEW i \in Int,
             OpenUrlInNewTab(t, url, setCurrent, i)
      PROVE  CurrentTab(model') \in withUrl' => CurrentTab(model') \in loaded'
  <2> DEFINE n == Stacked(Insert(model, t, i))
             at == Clamp(model, i)
  <2>1. t \in Tab \ Tabs(model)
    BY <1>2 DEF OpenUrlInNewTab, Unused
  <2>2. Good(n) /\ CurrentTab(n) \in {t, CurrentTab(model)}
    BY <1>1, <2>1, StackedInsert
  <2>3. at \in Int
    BY <1>1, <2>1, InsertAdds
  <2> HIDE DEF n, at
  <2>4. model' = n /\ loaded \cup {t} \subseteq loaded'
    <3>1. CASE setCurrent
      <4>1. SwitchLater(n, at, loaded \cup {t})
        BY <1>2, <3>1 DEF OpenUrlInNewTab, n, at
      <4>2. model' = n /\ PointNext(n, at, loaded \cup {t})
        BY <4>1 DEF SwitchLater
      <4>3. loaded \cup {t} \in SUBSET Tab
        BY <1>1
      <4> QED
        BY <1>1, <2>2, <2>3, <4>2, <4>3, PointNextTypes
    <3>2. CASE ~setCurrent
      BY <1>2, <3>2 DEF OpenUrlInNewTab, n
    <3> QED
      BY <3>1, <3>2
  <2>5. withUrl' \subseteq withUrl \cup {t}
    BY <1>2 DEF OpenUrlInNewTab
  <2> QED
    BY <1>1, <2>2, <2>4, <2>5
<1>3. ASSUME NEW t \in Tab, NEW background \in BOOLEAN, OpenLink(t, background)
      PROVE  CurrentTab(model') \in withUrl' => CurrentTab(model') \in loaded'
  <2> DEFINE m == Stacked(Insert(model, t, Count(model)))
  <2>1. t \in Tab \ Tabs(model) /\ Clamp(model, Count(model)) # model.current
    BY <1>1, <1>3 DEF OpenLink, Unused, Clamp
  <2>2. CurrentTab(m) = CurrentTab(model)
    BY <1>1, <2>1, StackedInsert
  <2>3. withUrl' = withUrl \cup {t} /\ CurrentTab(model) # t
    BY <1>1, <1>3, <2>1 DEF OpenLink
  <2>4. CASE background
    <3>1. model' = m /\ loaded' = loaded
      BY <1>3, <2>4 DEF OpenLink
    <3> HIDE DEF m
    <3> QED
      BY <1>1, <2>2, <2>3, <3>1
  <2>5. CASE ~background
    BY <1>3, <2>5 DEF OpenLink
  <2> QED
    BY <2>4, <2>5
<1>4. ASSUME NEW t \in Tab, Navigate(t)
      PROVE  CurrentTab(model') \in withUrl' => CurrentTab(model') \in loaded'
  BY <1>1, <1>4 DEF Navigate
<1>5. ASSUME NEW t \in Tab, NEW url \in BOOLEAN, NEW setCurrent \in BOOLEAN,
             NewTab(t, url, setCurrent)
      PROVE  CurrentTab(model') \in withUrl' => CurrentTab(model') \in loaded'
  BY <1>1, <1>2, <1>5 DEF NewTab
<1>6. ASSUME NEW t \in Tab, NEW i \in WindowIndex, NewTabAfter(t, i)
      PROVE  CurrentTab(model') \in withUrl' => CurrentTab(model') \in loaded'
  <2>1. OpenUrlInNewTab(t, FALSE, TRUE, i + 1)
    BY <1>6 DEF NewTabAfter
  <2>2. i + 1 \in Int
    BY <1>1 DEF WindowIndex
  <2> QED
    BY <1>2, <2>1, <2>2
<1> QED
  BY <1>3, <1>4, <1>5, <1>6 DEF OpenNext

\* Closing tabs.
LEMMA WideCloses ==
  ASSUME WideInv, CloseNext, WindowInv'
  PROVE  CurrentTab(model') \in withUrl' => CurrentTab(model') \in loaded'
<1>1. /\ Good(model) /\ WindowInv /\ loaded \subseteq Tab /\ elsewhere' \subseteq Tab
      /\ CurrentTab(model) \in withUrl => CurrentTab(model) \in loaded
  BY DEF WideInv, WindowInv, WindowTypeOK
<1>2. ASSUME NEW i, NEW moving \in BOOLEAN, CloseTab(i, moving)
      PROVE  CurrentTab(model') \in loaded'
  BY <1>2 DEF CloseTab
<1>3. ASSUME NEW t \in Tab, NEW moving \in BOOLEAN, CloseLast(t, moving)
      PROVE  CurrentTab(model') \in loaded'
  <2>1. CurrentTab(model') = t
    BY <1>1, <1>3, CloseLastKeeps
  <2> QED
    BY <1>3, <2>1 DEF CloseLast
<1>4. ASSUME UndoCloseTab
      PROVE  CurrentTab(model') \in withUrl' => CurrentTab(model') \in loaded'
  <2> DEFINE info == closedTabHistory[Len(closedTabHistory)]
             n == Stacked(Insert(model, info.tab, info.index))
             at == Clamp(model, info.index)
  <2>1. /\ info.tab \notin Tabs(model) /\ withUrl' = withUrl
        /\ SwitchLater(n, at, loaded \cup {info.tab})
    BY <1>4 DEF UndoCloseTab
  <2>2. info \in ClosedTab
    BY <1>1, <1>4 DEF UndoCloseTab, WindowInv, WindowTypeOK
  <2>3. info.tab \in Tab \ Tabs(model) /\ info.index \in Int
    BY <2>1, <2>2 DEF ClosedTab
  <2> HIDE DEF info
  <2>4. Good(n) /\ CurrentTab(n) \in {info.tab, CurrentTab(model)} /\ at \in Int
    <3>1. Good(n) /\ CurrentTab(n) \in {info.tab, CurrentTab(model)}
      BY <1>1, <2>3, StackedInsert
    <3>2. at \in 0 .. Count(model)
      BY <1>1, <2>3, InsertAdds
    <3> QED
      BY <3>1, <3>2
  <2> HIDE DEF n, at
  <2>5. model' = n /\ PointNext(n, at, loaded \cup {info.tab})
    BY <2>1 DEF SwitchLater
  <2>6. loaded \cup {info.tab} \in SUBSET Tab
    BY <1>1, <2>3
  <2>7. loaded \cup {info.tab} \subseteq loaded'
    BY <1>1, <2>4, <2>5, <2>6, PointNextTypes
  <2> QED
    BY <1>1, <2>1, <2>4, <2>5, <2>7
<1> QED
  BY <1>2, <1>3, <1>4 DEF CloseNext, Close, MoveToNewWindow

\* Selecting tabs, moving them, and switching to the one selected.
LEMMA WideSelects ==
  ASSUME WideInv, SelectNext \/ Pending
  PROVE  /\ CurrentTab(model') \in withUrl' => CurrentTab(model') \in loaded'
         /\ UNCHANGED <<wide, dragging, recent, animated>>
<1>1. /\ Good(model) /\ WindowInv /\ loaded \in SUBSET Tab /\ nextTabIndex \in Int
      /\ ~RecentVisible /\ wide /\ ~dragging /\ ~recent /\ animated = -1
      /\ CurrentTab(model) \in withUrl => CurrentTab(model) \in loaded
  BY WideCurrent DEF WideInv, WindowInv, WindowTypeOK
<1>1a. WindowIndex \subseteq Int
  BY WideCurrent DEF WindowIndex
<1>2. ASSUME NEW i \in WindowIndex, SelectTab(i)
      PROVE  /\ CurrentTab(model') \in withUrl' => CurrentTab(model') \in loaded'
             /\ UNCHANGED <<wide, dragging, recent, animated>>
  <2>1. SwitchLater(model, i, loaded) /\ UNCHANGED <<wide, dragging, recent, animated, withUrl>>
    BY <1>2 DEF SelectTab, viewVars
  <2>2. model' = model /\ PointNext(model, i, loaded) /\ i \in Int
    BY <1>1a, <2>1 DEF SwitchLater
  <2>3. loaded \subseteq loaded'
    BY <1>1, <2>2, PointNextTypes
  <2> QED
    BY <1>1, <2>1, <2>2, <2>3
<1>3. ASSUME NEW from \in WindowIndex, NEW to \in WindowIndex, DragTab(from, to)
      PROVE  /\ CurrentTab(model') \in withUrl' => CurrentTab(model') \in loaded'
             /\ UNCHANGED <<wide, dragging, recent, animated>>
  <2>1. /\ model' = Move(model, from, to)
        /\ UNCHANGED <<wide, dragging, recent, animated, withUrl, loaded>>
    BY <1>3 DEF DragTab, viewVars
  <2>2. CurrentTab(Move(model, from, to)) = CurrentTab(model)
    BY <1>1, <1>1a, MoveGood
  <2> QED
    BY <1>1, <2>1, <2>2
<1>4. ASSUME SwitchTimeout
      PROVE  /\ CurrentTab(model') \in withUrl' => CurrentTab(model') \in loaded'
             /\ UNCHANGED <<wide, dragging, recent, animated>>
  <2>1. /\ SwitchNow(model, nextTabIndex, RecentVisible)
        /\ UNCHANGED <<wide, dragging, recent, animated, withUrl>>
    BY <1>4 DEF SwitchTimeout, viewVars
  <2>2. RecentVisible \in BOOLEAN
    BY DEF RecentVisible
  <2>3. CurrentTab(model') \in withUrl => CurrentTab(model') \in loaded'
    BY <1>1, <2>1, <2>2, SwitchNowGood
  <2> QED
    BY <2>1, <2>3
<1>5. ~StartDrag /\ ~EndDrag /\ ~SelectRecentFirst /\ ~AnimationEnd
  BY <1>1 DEF StartDrag, EndDrag, SelectRecentFirst, AnimationEnd
<1>6. \A i : ~SelectRecent(i)
  BY <1>1 DEF SelectRecent
<1> QED
  BY <1>2, <1>3, <1>4, <1>5, <1>6 DEF SelectNext, Pending

\* No step of a wide window shows a tab with a URL that is not loaded.
LEMMA WideStep ==
  ASSUME Modes = {TRUE}, WideInv, [WindowNext]_windowVars
  PROVE  WideInv'
<1>1. /\ WindowInv' /\ WindowInv
      /\ wide /\ ~dragging /\ ~recent /\ animated = -1
      /\ CurrentTab(model) \in withUrl => CurrentTab(model) \in loaded
  BY WindowStep DEF WideInv
<1>2. ASSUME CurrentTab(model') \in withUrl' => CurrentTab(model') \in loaded',
             wide', ~dragging', ~recent', animated' = -1
      PROVE  WideInv'
  BY <1>1, <1>2 DEF WideInv
<1>3. CASE OpenNext
  <2>1. /\ wide' = wide /\ dragging' = dragging /\ animated' = animated
        /\ recent' = recent \/ recent' = FALSE
    BY <1>3 DEF OpenNext, NewTab, NewTabAfter, OpenUrlInNewTab, OpenLink, Navigate, viewVars
  <2>2. CurrentTab(model') \in withUrl' => CurrentTab(model') \in loaded'
    BY <1>3, WideOpens
  <2> QED
    BY <1>1, <1>2, <2>1, <2>2
<1>4. CASE CloseNext
  <2>1. /\ wide' = wide /\ dragging' = dragging /\ animated' = animated
        /\ recent' = recent \/ recent' = FALSE
    BY <1>4 DEF CloseNext, Close, MoveToNewWindow, CloseTab, CloseLast, UndoCloseTab, viewVars
  <2>2. CurrentTab(model') \in withUrl' => CurrentTab(model') \in loaded'
    BY <1>1, <1>4, WideCloses
  <2> QED
    BY <1>1, <1>2, <2>1, <2>2
<1>5. CASE SelectNext \/ Pending
  <2>1. /\ CurrentTab(model') \in withUrl' => CurrentTab(model') \in loaded'
        /\ UNCHANGED <<wide, dragging, recent, animated>>
    BY <1>5, WideSelects
  <2> QED
    BY <1>1, <1>2, <2>1
<1>6. CASE Resize
  <2>1. wide = TRUE /\ wide' \in {TRUE} \ {wide}
    BY <1>1, <1>6 DEF Resize, WindowInv, WindowTypeOK
  <2> QED
    BY <2>1
<1>7. CASE \E t \in Tab : Unload(t)
  <2>1. PICK t \in Tab : /\ t # model.bound /\ loaded' = loaded \ {t}
                         /\ UNCHANGED <<model, wide, dragging, recent, animated, withUrl>>
    BY <1>7 DEF Unload, viewVars
  <2>2. CurrentTab(model) = model.bound
    BY WideCurrent
  <2> QED
    BY <1>1, <1>2, <2>1, <2>2
<1>8. CASE UNCHANGED windowVars
  BY <1>1, <1>2, <1>8 DEF windowVars, viewVars
<1> QED
  BY <1>3, <1>4, <1>5, <1>6, <1>7, <1>8 DEF WindowNext

LEMMA WideStart ==
  ASSUME Modes = {TRUE}, WindowInit
  PROVE  WideInv
<1>1. WindowInv
  BY WindowInitInv
<1>2. /\ wide /\ ~dragging /\ ~recent /\ animated = -1
  BY DEF WindowInit
<1>3. CurrentTab(model) \in loaded
  BY DEF WindowInit
<1> QED
  BY <1>1, <1>2, <1>3 DEF WideInv

\* The page of the tab that a wide window shows has been loaded, if the tab has
\* a URL, however the memory was while the tab was in the background.
THEOREM LoadedWhenWide == Modes = {TRUE} => (WindowSpec => []CurrentIsLoaded)
<1> SUFFICES ASSUME Modes = {TRUE} PROVE WindowSpec => []CurrentIsLoaded
  OBVIOUS
<1>1. WindowInit => WideInv
  BY WideStart
<1>2. WideInv /\ [WindowNext]_windowVars => WideInv'
  BY WideStep
<1>3. WideInv => CurrentIsLoaded
  BY DEF WideInv, CurrentIsLoaded
<1> QED
  BY <1>1, <1>2, <1>3, PTL DEF WindowSpec

\* The same of the instance that is model-checked along with another.
THEOREM PartLoadedWhenWide == Modes = {TRUE} => (MCSpec => []WideCurrentIsLoaded)
<1> SUFFICES ASSUME Modes = {TRUE} PROVE MCSpec => []WideCurrentIsLoaded
  OBVIOUS
<1> DEFINE I == part = "wide" => WideInv
<1>1. MCInit => I
  BY WideStart DEF MCInit
<1>2. I /\ [MCNext]_<<windowVars, part>> => I'
  <2>1. ASSUME part = "wide", WideInv, [MCNext]_<<windowVars, part>> PROVE WideInv'
    BY <2>1, WideStep DEF MCNext
  <2>2. [MCNext]_<<windowVars, part>> => part' = part
    BY DEF MCNext
  <2> QED
    BY <2>1, <2>2
<1>3. I => WideCurrentIsLoaded
  BY DEF WideInv, WideCurrentIsLoaded, CurrentIsLoaded
<1> QED
  BY <1>1, <1>2, <1>3, PTL DEF MCSpec
=============================================================================
