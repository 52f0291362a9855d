----------------------------- MODULE ViewsProofs -----------------------------
(***************************************************************************)
(* Proofs about the first rows of a model (LimitProxy), for any rows, any  *)
(* limit and sources of any length; about the icons of pages               *)
(* (FaviconFetcher), for any URLs and bound on redirections; and about the *)
(* lists of the domains and of the days of the history (HistoryViews), for *)
(* any pages, any domain of each and any number of days.                   *)
(***************************************************************************)
EXTENDS MCViews, SelectionProofs

-----------------------------------------------------------------------------
(* The list operators: length and elements of what they return *)

\* A function on 1 .. n is a list of length n.
LEMMA ListIs ==
  ASSUME NEW n \in Nat, NEW f, f \in [1 .. n -> Row]
  PROVE  f \in Seq(Row) /\ Len(f) = n /\ DOMAIN f = 1 .. n
OBVIOUS

LEMMA FirstRowsIs ==
  ASSUME NEW s \in Seq(Row), NEW lim \in Int
  PROVE  /\ FirstRows(s, lim) \in Seq(Row)
         /\ Len(FirstRows(s, lim)) = CountOf(s, lim)
         /\ \A i \in 1 .. CountOf(s, lim) : FirstRows(s, lim)[i] = s[i]
<1>1. Len(s) \in Nat /\ \A i \in 1 .. Len(s) : s[i] \in Row
  OBVIOUS
<1>2. CountOf(s, lim) \in Nat /\ CountOf(s, lim) <= Len(s)
  BY <1>1 DEF CountOf, AtMost
<1>3. FirstRows(s, lim) \in [1 .. CountOf(s, lim) -> Row]
  BY <1>1, <1>2 DEF FirstRows
<1> QED
  BY <1>2, <1>3, ListIs DEF FirstRows

\* A list with the length and the elements of FirstRows is FirstRows.
LEMMA FirstRowsOnly ==
  ASSUME NEW s \in Seq(Row), NEW lim \in Int, NEW v \in Seq(Row),
         Len(v) = CountOf(s, lim), \A i \in 1 .. Len(v) : v[i] = s[i]
  PROVE  v = FirstRows(s, lim)
<1>1. v = [i \in 1 .. Len(v) |-> v[i]]
  OBVIOUS
<1> QED
  BY <1>1 DEF FirstRows

\* t is s with the given rows from index start on.
IsInserted(t, s, start, rows) ==
  /\ t \in Seq(Row) /\ Len(t) = Len(s) + Len(rows)
  /\ \A i \in 1 .. Len(s) + Len(rows) : t[i] =
       IF i <= start THEN s[i]
       ELSE IF i <= start + Len(rows) THEN rows[i - start] ELSE s[i - Len(rows)]

LEMMA InsertedIs ==
  ASSUME NEW s \in Seq(Row), NEW rows \in Seq(Row), NEW start \in 0 .. Len(s)
  PROVE  IsInserted(Inserted(s, start, rows), s, start, rows)
<1>1. /\ Len(s) \in Nat /\ \A i \in 1 .. Len(s) : s[i] \in Row
      /\ Len(rows) \in Nat /\ \A i \in 1 .. Len(rows) : rows[i] \in Row
  OBVIOUS
<1>2. Inserted(s, start, rows) \in [1 .. Len(s) + Len(rows) -> Row]
  BY <1>1 DEF Inserted
<1> QED
  BY <1>1, <1>2, ListIs DEF Inserted, IsInserted

\* t is s without n rows from index start on.
IsRemoved(t, s, start, n) ==
  /\ t \in Seq(Row) /\ Len(t) = Len(s) - n
  /\ \A i \in 1 .. Len(s) - n : t[i] = IF i <= start THEN s[i] ELSE s[i + n]

LEMMA RemovedIs ==
  ASSUME NEW s \in Seq(Row), NEW start \in Nat, NEW n \in Nat, start + n <= Len(s)
  PROVE  IsRemoved(Removed(s, start, start + n - 1), s, start, n)
<1>1. Len(s) \in Nat /\ \A i \in 1 .. Len(s) : s[i] \in Row
  OBVIOUS
<1>2. Size(start, start + n - 1) = n
  BY DEF Size
<1>3. Removed(s, start, start + n - 1) =
        [i \in 1 .. Len(s) - n |-> IF i <= start THEN s[i] ELSE s[i + n]]
  BY <1>2 DEF Removed
<1>4. Removed(s, start, start + n - 1) \in [1 .. Len(s) - n -> Row]
  BY <1>1, <1>3
<1>5. Len(s) - n \in Nat
  BY <1>1
<1>6. /\ Removed(s, start, start + n - 1) \in Seq(Row)
      /\ Len(Removed(s, start, start + n - 1)) = Len(s) - n
  BY <1>4, <1>5, ListIs
<1> QED
  BY <1>3, <1>6 DEF IsRemoved

\* w is the view v after n rows, read from s, are inserted.
IsViewInserted(w, v, s, first, n) ==
  /\ w \in Seq(Row) /\ Len(w) = Len(v) + n
  /\ \A i \in 1 .. Len(v) + n : w[i] =
       IF i <= first THEN v[i] ELSE IF i <= first + n THEN s[i] ELSE v[i - n]

LEMMA ViewInsertsIs ==
  ASSUME NEW v \in Seq(Row), NEW s \in Seq(Row), NEW first \in Nat, NEW n \in Nat,
         first <= Len(v), first + n <= Len(s)
  PROVE  IsViewInserted(ViewInserts(v, s, first, first + n - 1), v, s, first, n)
<1>1. /\ Len(v) \in Nat /\ \A i \in 1 .. Len(v) : v[i] \in Row
      /\ Len(s) \in Nat /\ \A i \in 1 .. Len(s) : s[i] \in Row
  OBVIOUS
<1>2. Size(first, first + n - 1) = n /\ (first + n - 1) + 1 = first + n
  BY DEF Size
<1>3. ViewInserts(v, s, first, first + n - 1) =
        [i \in 1 .. Len(v) + n |->
           IF i <= first THEN v[i] ELSE IF i <= first + n THEN s[i] ELSE v[i - n]]
  BY <1>2 DEF ViewInserts
<1>4. ViewInserts(v, s, first, first + n - 1) \in [1 .. Len(v) + n -> Row]
  <2>1. ASSUME NEW i \in 1 .. Len(v) + n
        PROVE  (IF i <= first THEN v[i] ELSE IF i <= first + n THEN s[i] ELSE v[i - n]) \in Row
    <3>1. CASE i <= first
      BY <1>1, <3>1
    <3>2. CASE ~(i <= first) /\ i <= first + n
      BY <1>1, <3>2
    <3>3. CASE ~(i <= first) /\ ~(i <= first + n)
      <4>1. i - n \in 1 .. Len(v)
        BY <1>1, <3>3
      <4> QED
        BY <1>1, <3>3, <4>1
    <3> QED
      BY <3>1, <3>2, <3>3
  <2> QED
    BY <1>3, <2>1
<1>5. Len(v) + n \in Nat
  BY <1>1
<1>6. /\ ViewInserts(v, s, first, first + n - 1) \in Seq(Row)
      /\ Len(ViewInserts(v, s, first, first + n - 1)) = Len(v) + n
  BY <1>4, <1>5, ListIs
<1> QED
  BY <1>3, <1>6 DEF IsViewInserted

\* w is the view v after the rows first .. last are read again from s.
IsViewRead(w, v, s, first, last) ==
  /\ w \in Seq(Row) /\ Len(w) = Len(v)
  /\ \A i \in 1 .. Len(v) : w[i] = IF first < i /\ i <= last + 1 THEN s[i] ELSE v[i]

LEMMA ViewReadsIs ==
  ASSUME NEW v \in Seq(Row), NEW s \in Seq(Row), NEW first \in Int, NEW last \in Int,
         0 <= first, last < Len(s)
  PROVE  IsViewRead(ViewReads(v, s, first, last), v, s, first, last)
<1>1. /\ Len(v) \in Nat /\ \A i \in 1 .. Len(v) : v[i] \in Row
      /\ Len(s) \in Nat /\ \A i \in 1 .. Len(s) : s[i] \in Row
  OBVIOUS
<1>2. ViewReads(v, s, first, last) \in [1 .. Len(v) -> Row]
  BY <1>1 DEF ViewReads
<1> QED
  BY <1>1, <1>2, ListIs DEF ViewReads, IsViewRead

-----------------------------------------------------------------------------
(* The invariant *)

Shows(v) == v = FirstRows(source, limit)

\* What the proxy has said and kept of the insertion of change.rows.
InsertTold ==
  LET count == Len(source)
      start == change.start
      n == Len(change.rows)
  IN /\ start \in 0 .. count /\ change.rows \in Seq(Row) /\ n > 0
     /\ change.end = start + n - 1
     /\ ~sourceRemoving
     /\ \/ /\ limit < 0 \/ (start < limit /\ count + n <= limit)
           /\ sourceInserting /\ announced = <<start, change.end>> /\ dataChanged = NoRange
        \/ /\ limit >= 0 /\ start >= limit
           /\ ~sourceInserting /\ dataChanged = NoRange
        \/ /\ limit >= 0 /\ start < limit /\ count >= limit
           /\ ~sourceInserting /\ dataChanged = <<start, limit - 1>>
        \/ /\ limit >= 0 /\ start < limit /\ count < limit /\ count + n > limit
           /\ sourceInserting /\ announced = <<start, start + (limit - count) - 1>>
           /\ dataChanged = IF start = count THEN NoRange
                            ELSE <<start + (limit - count), limit - 1>>

\* What the proxy has said and kept of the removal of a range.
RemoveTold ==
  LET count == Len(source)
      start == change.start
      end == change.end
      n == end - start + 1
  IN /\ start \in Nat /\ end \in Nat /\ start <= end /\ end < count
     /\ ~sourceInserting
     /\ \/ /\ limit < 0 \/ (start < limit /\ count <= limit)
           /\ sourceRemoving /\ announced = <<start, end>> /\ dataChanged = NoRange
        \/ /\ limit >= 0 /\ start >= limit
           /\ ~sourceRemoving /\ dataChanged = NoRange
        \/ /\ limit >= 0 /\ start < limit /\ count - n >= limit
           /\ ~sourceRemoving /\ dataChanged = <<start, limit - 1>>
        \/ /\ limit >= 0 /\ start < limit /\ count > limit /\ count - n < limit
           /\ sourceRemoving /\ announced = <<count - n, limit - 1>>
           /\ dataChanged = IF start = count - n THEN NoRange
                            ELSE <<start, count - n - 1>>

NothingTold == ~sourceInserting /\ ~sourceRemoving /\ dataChanged = NoRange

Inv ==
  /\ source \in Seq(Row) /\ limit \in Int
  /\ Shows(view)
  /\ \/ change = NoChange /\ NothingTold
     \/ change.type = "insert" /\ InsertTold
     \/ change.type = "remove" /\ RemoveTold

\* The invariant holds what the properties say.
LEMMA InvImplies ==
  ASSUME Inv
  PROVE  ViewIsFirstRows /\ AnnouncedFits
<1>1. /\ source \in Seq(Row) /\ Len(source) \in Nat /\ limit \in Int
      /\ view = FirstRows(source, limit)
  BY DEF Inv, Shows
<1>2. Len(view) = CountOf(source, limit)
  BY <1>1, FirstRowsIs
<1>3. ViewIsFirstRows
  BY <1>1 DEF ViewIsFirstRows
<1>4. CASE change = NoChange /\ NothingTold
  BY <1>3, <1>4 DEF AnnouncedFits, NothingTold
<1>5. CASE change.type = "insert" /\ InsertTold
  <2>1. Len(change.rows) \in Nat
    BY <1>5 DEF InsertTold
  <2>2. LengthAfter = Len(source) + Len(change.rows)
    BY <1>5 DEF LengthAfter
  <2>3. ~sourceRemoving
    BY <1>5 DEF InsertTold
  <2>4. sourceInserting => 0 <= announced[1] /\ announced[1] <= Len(view)
                           /\ announced[1] <= announced[2]
    BY <1>1, <1>2, <1>5, <2>1 DEF InsertTold, CountOf, AtMost
  <2>5. dataChanged # NoRange => 0 <= dataChanged[1] /\ dataChanged[1] <= dataChanged[2]
                                 /\ dataChanged[2] < LengthAfter
    <3> SUFFICES ASSUME dataChanged # NoRange
                 PROVE  /\ 0 <= dataChanged[1] /\ dataChanged[1] <= dataChanged[2]
                        /\ dataChanged[2] < LengthAfter
      OBVIOUS
    <3>1. /\ change.start \in 0 .. Len(source) /\ limit >= 0 /\ change.start < limit
          /\ \/ dataChanged = <<change.start, limit - 1>> /\ Len(source) >= limit
             \/ /\ dataChanged = <<change.start + (limit - Len(source)), limit - 1>>
                /\ Len(source) < limit /\ Len(source) + Len(change.rows) > limit
                /\ change.start # Len(source)
      BY <1>5 DEF InsertTold
    <3>2. Len(change.rows) > 0
      BY <1>5 DEF InsertTold
    <3> QED
      BY <1>1, <2>1, <2>2, <3>1, <3>2
  <2> QED
    BY <1>3, <2>3, <2>4, <2>5 DEF AnnouncedFits
<1>6. CASE change.type = "remove" /\ RemoveTold
  <2>1. LengthAfter = Len(source) - (change.end - change.start + 1)
    BY <1>6 DEF LengthAfter, Size
  <2>2. ~sourceInserting
    BY <1>6 DEF RemoveTold
  <2>3. sourceRemoving => 0 <= announced[1] /\ announced[1] <= announced[2]
                          /\ announced[2] < Len(view)
    BY <1>1, <1>2, <1>6 DEF RemoveTold, CountOf, AtMost
  <2>4. dataChanged # NoRange => 0 <= dataChanged[1] /\ dataChanged[1] <= dataChanged[2]
                                 /\ dataChanged[2] < LengthAfter
    BY <1>1, <1>6, <2>1 DEF RemoveTold
  <2> QED
    BY <1>3, <2>2, <2>3, <2>4 DEF AnnouncedFits
<1> QED
  BY <1>4, <1>5, <1>6 DEF Inv

LEMMA InitInv == Init => Inv
<1> SUFFICES ASSUME Init PROVE Inv
  OBVIOUS
<1>1. source \in Seq(Row)
  BY DEF Init, Lists
<1>2. Len(source) = CountOf(source, limit)
  BY <1>1 DEF Init, CountOf
<1>3. view = FirstRows(source, limit)
  BY <1>1, <1>2, FirstRowsOnly DEF Init
<1> QED
  BY <1>1, <1>3 DEF Init, Inv, Shows, NothingTold

-----------------------------------------------------------------------------
(* Each step preserves the invariant. *)

\* Showing the first c rows after the first a: rows a .. c - 1 are inserted.
LEMMA GrownIs ==
  ASSUME NEW s \in Seq(Row), NEW v \in Seq(Row), NEW c \in Nat, Len(v) < c, c <= Len(s),
         \A i \in 1 .. Len(v) : v[i] = s[i]
  PROVE  /\ ViewInserts(v, s, Len(v), c - 1) \in Seq(Row)
         /\ Len(ViewInserts(v, s, Len(v), c - 1)) = c
         /\ \A i \in 1 .. c : ViewInserts(v, s, Len(v), c - 1)[i] = s[i]
<1>1. Len(v) \in Nat /\ Len(s) \in Nat /\ \A i \in 1 .. Len(s) : s[i] \in Row
  OBVIOUS
<1>2. Len(v) + Size(Len(v), c - 1) = c
  BY <1>1 DEF Size
<1>3. \A i \in 1 .. c : (c - 1) + 1 = c /\ i <= c
  BY <1>1
<1>4. ViewInserts(v, s, Len(v), c - 1) =
        [i \in 1 .. c |-> IF i <= Len(v) THEN v[i] ELSE IF i <= (c - 1) + 1 THEN s[i]
                          ELSE v[i - Size(Len(v), c - 1)]]
  BY <1>2 DEF ViewInserts
<1>5. ASSUME NEW i \in 1 .. c PROVE ViewInserts(v, s, Len(v), c - 1)[i] = s[i]
  <2>1. i <= (c - 1) + 1
    BY <1>3
  <2>2. ViewInserts(v, s, Len(v), c - 1)[i] = IF i <= Len(v) THEN v[i] ELSE s[i]
    BY <1>4, <2>1
  <2>3. i <= Len(v) => v[i] = s[i]
    BY <1>1
  <2> QED
    BY <2>2, <2>3
<1>6. ViewInserts(v, s, Len(v), c - 1) \in [1 .. c -> Row]
  BY <1>1, <1>3, <1>4
<1> QED
  BY <1>5, <1>6, ListIs

\* Showing only the first c rows: rows c .. Len(v) - 1 are removed.
LEMMA ShrunkIs ==
  ASSUME NEW v \in Seq(Row), NEW c \in Nat, c < Len(v)
  PROVE  /\ Removed(v, c, Len(v) - 1) \in Seq(Row)
         /\ Len(Removed(v, c, Len(v) - 1)) = c
         /\ \A i \in 1 .. c : Removed(v, c, Len(v) - 1)[i] = v[i]
<1>1. Len(v) \in Nat /\ \A i \in 1 .. Len(v) : v[i] \in Row
  OBVIOUS
<1>2. Len(v) - Size(c, Len(v) - 1) = c
  BY <1>1 DEF Size
<1>3. Removed(v, c, Len(v) - 1) =
        [i \in 1 .. c |-> IF i <= c THEN v[i] ELSE v[i + Size(c, Len(v) - 1)]]
  BY <1>2 DEF Removed
<1>4. \A i \in 1 .. c : Removed(v, c, Len(v) - 1)[i] = v[i]
  BY <1>1, <1>3
<1>5. Removed(v, c, Len(v) - 1) \in [1 .. c -> Row]
  BY <1>1, <1>3
<1> QED
  BY <1>4, <1>5, ListIs

LEMMA SetLimitInv ==
  ASSUME Inv, NEW new \in Int, SetLimit(new)
  PROVE  Inv'
<1>1. /\ source \in Seq(Row) /\ Len(source) \in Nat /\ limit \in Int
      /\ view = FirstRows(source, limit)
  BY DEF Inv, Shows
<1>2. /\ view \in Seq(Row) /\ Len(view) = CountOf(source, limit)
      /\ \A i \in 1 .. Len(view) : view[i] = source[i]
  BY <1>1, FirstRowsIs
<1>3. source' = source /\ limit' = new /\ change' = NoChange /\ NothingTold'
  BY DEF SetLimit, Idle, Inv, NothingTold, NoChange
<1>4. CASE Grows(new)
  <2> DEFINE c == CountOf(source, new)
  <2>1. /\ limit \in Nat /\ Len(view) = limit /\ limit < c /\ c \in Nat /\ c <= Len(source)
    BY <1>1, <1>2, <1>4 DEF Grows, CountOf, AtMost
  <2>2. view' = ViewInserts(view, source, Len(view), c - 1)
    BY <1>4, <2>1 DEF SetLimit
  <2>3. view' \in Seq(Row) /\ Len(view') = c /\ \A i \in 1 .. c : view'[i] = source[i]
    <3> HIDE DEF c
    <3>1. source \in Seq(Row) /\ view \in Seq(Row) /\ c \in Nat /\ Len(view) < c /\ c <= Len(source)
      BY <1>1, <1>2, <2>1
    <3>2. \A i \in 1 .. Len(view) : view[i] = source[i]
      BY <1>2
    <3>3. /\ ViewInserts(view, source, Len(view), c - 1) \in Seq(Row)
          /\ Len(ViewInserts(view, source, Len(view), c - 1)) = c
          /\ \A i \in 1 .. c : ViewInserts(view, source, Len(view), c - 1)[i] = source[i]
      BY <3>1, <3>2, GrownIs
    <3> QED
      BY <2>2, <3>3
  <2>4. view' = FirstRows(source, new)
    BY <1>1, <2>3, FirstRowsOnly
  <2> QED
    BY <1>1, <1>3, <2>4 DEF Inv, Shows
<1>5. CASE ~Grows(new) /\ Shrinks(new)
  <2>1. /\ RowCount = Len(view) /\ new \in Nat /\ new < Len(view) /\ Len(view) \in Nat
        /\ new = CountOf(source, new)
    BY <1>1, <1>2, <1>5 DEF Shrinks, RowCount, CountOf, AtMost
  <2>2. view' = Removed(view, new, Len(view) - 1)
    BY <1>5, <2>1 DEF SetLimit
  <2>3. view' \in Seq(Row) /\ Len(view') = new /\ \A i \in 1 .. new : view'[i] = view[i]
    BY <1>2, <2>1, <2>2, ShrunkIs
  <2>4. \A i \in 1 .. Len(view') : view'[i] = source[i]
    BY <1>2, <2>1, <2>3
  <2>5. view' = FirstRows(source, new)
    BY <1>1, <2>1, <2>3, <2>4, FirstRowsOnly
  <2> QED
    BY <1>1, <1>3, <2>5 DEF Inv, Shows
<1>6. CASE ~Grows(new) /\ ~Shrinks(new)
  <2>1. view' = view
    BY <1>6 DEF SetLimit
  <2>2. CountOf(source, limit) = CountOf(source, new)
    BY <1>1, <1>6 DEF Grows, Shrinks, RowCount, CountOf, AtMost
  <2>3. view' = FirstRows(source, new)
    BY <1>1, <1>2, <2>1, <2>2, FirstRowsOnly
  <2> QED
    BY <1>1, <1>3, <2>3 DEF Inv, Shows
<1> QED
  BY <1>4, <1>5, <1>6

\* What the proxy tells before rows are inserted is what InsertTold lists.
LEMMA BeginsInsertInv ==
  ASSUME Inv, NEW n \in Nat \ {0}, NEW rows \in [1 .. n -> Row],
         NEW start \in 0 .. Len(source), SourceBeginsInsert(start, rows)
  PROVE  Inv'
<1>1. /\ source \in Seq(Row) /\ Len(source) \in Nat /\ limit \in Int /\ Shows(view)
      /\ source' = source /\ limit' = limit /\ view' = view
  BY DEF Inv, SourceBeginsInsert
<1>2. ~sourceInserting /\ ~sourceRemoving /\ dataChanged = NoRange
  BY DEF Inv, SourceBeginsInsert, Idle, NothingTold, NoChange
<1>3. rows \in Seq(Row) /\ Len(rows) = n
  BY ListIs
<1>4. /\ change'.type = "insert" /\ change'.start = start
      /\ change'.end = start + n - 1 /\ change'.rows = rows
  BY <1>3 DEF SourceBeginsInsert
<1>5. ~sourceRemoving'
  BY <1>2 DEF SourceBeginsInsert
<1>6. AboutToInsert(start, start + n - 1) /\ Size(start, start + n - 1) = n
  BY <1>3 DEF SourceBeginsInsert, Size
<1>7. start + (limit - Len(source)) > limit - 1 <=> start = Len(source)
  BY <1>1
<1>8. /\ change'.start \in 0 .. Len(source') /\ change'.rows \in Seq(Row)
      /\ Len(change'.rows) = n /\ n > 0 /\ change'.end = change'.start + n - 1
  BY <1>1, <1>3, <1>4
<1>9. InsertTold'
  <2>1. CASE /\ limit < 0 \/ (start < limit /\ Len(source) + n <= limit)
             /\ announced' = <<start, start + n - 1>> /\ sourceInserting'
             /\ UNCHANGED dataChanged
    BY <1>1, <1>2, <1>4, <1>5, <1>8, <2>1 DEF InsertTold, NoRange
  <2>2. CASE limit >= 0 /\ start >= limit /\ UNCHANGED <<sourceInserting, dataChanged>>
    BY <1>1, <1>2, <1>4, <1>5, <1>8, <2>2 DEF InsertTold, NoRange
  <2>3. CASE /\ limit >= 0 /\ start < limit /\ Len(source) >= limit
             /\ dataChanged' = <<start, limit - 1>> /\ UNCHANGED sourceInserting
    BY <1>1, <1>2, <1>4, <1>5, <1>8, <2>3 DEF InsertTold
  <2>4. CASE /\ limit >= 0 /\ start < limit /\ Len(source) < limit /\ Len(source) + n > limit
             /\ Told(start, start + (limit - Len(source)) - 1,
                     start + (limit - Len(source)), limit - 1)
             /\ sourceInserting'
    BY <1>1, <1>4, <1>5, <1>7, <1>8, <2>4 DEF InsertTold, Told, NoRange
  <2> QED
    BY <1>6, <2>1, <2>2, <2>3, <2>4 DEF AboutToInsert
<1> QED
  BY <1>1, <1>4, <1>9 DEF Inv, Shows

\* What the proxy tells before rows are removed is what RemoveTold lists.
LEMMA BeginsRemoveInv ==
  ASSUME Inv, NEW start \in 0 .. Len(source) - 1, NEW end \in 0 .. Len(source) - 1,
         start <= end, SourceBeginsRemove(start, end)
  PROVE  Inv'
<1> DEFINE left == Len(source) - (end - start + 1)
<1>1. /\ source \in Seq(Row) /\ Len(source) \in Nat /\ limit \in Int /\ Shows(view)
      /\ source' = source /\ limit' = limit /\ view' = view
  BY DEF Inv, SourceBeginsRemove
<1>2. ~sourceInserting /\ ~sourceRemoving /\ dataChanged = NoRange
  BY DEF Inv, SourceBeginsRemove, Idle, NothingTold, NoChange
<1>3. /\ change'.type = "remove" /\ change'.start = start /\ change'.end = end
  BY DEF SourceBeginsRemove
<1>4. ~sourceInserting'
  BY <1>2 DEF SourceBeginsRemove
<1>5. AboutToRemove(start, end)
  BY DEF SourceBeginsRemove
<1>6. /\ start \in Nat /\ end \in Nat /\ end < Len(source) /\ left \in Nat /\ start <= left
      /\ start > left - 1 <=> start = left
  BY <1>1
<1>7. RemoveTold'
  <2>1. CASE /\ limit < 0 \/ (start < limit /\ Len(source) <= limit)
             /\ announced' = <<start, end>> /\ sourceRemoving' /\ UNCHANGED dataChanged
    BY <1>1, <1>2, <1>3, <1>4, <1>6, <2>1 DEF RemoveTold, NoRange
  <2>2. CASE limit >= 0 /\ start >= limit /\ UNCHANGED <<sourceRemoving, dataChanged>>
    BY <1>1, <1>2, <1>3, <1>4, <1>6, <2>2 DEF RemoveTold, NoRange
  <2>3. CASE /\ limit >= 0 /\ start < limit /\ left >= limit
             /\ dataChanged' = <<start, limit - 1>> /\ UNCHANGED sourceRemoving
    BY <1>1, <1>2, <1>3, <1>4, <1>6, <2>3 DEF RemoveTold
  <2>4. CASE /\ limit >= 0 /\ start < limit /\ Len(source) > limit /\ left < limit
             /\ Told(left, limit - 1, start, left - 1) /\ sourceRemoving'
    BY <1>1, <1>3, <1>4, <1>6, <2>4 DEF RemoveTold, Told, NoRange
  <2> QED
    BY <1>5, <2>1, <2>2, <2>3, <2>4 DEF AboutToRemove, Size
<1> QED
  BY <1>1, <1>3, <1>7 DEF Inv, Shows

-----------------------------------------------------------------------------
(* What a view shows after the source has inserted rows, in the four cases    *)
(* of InsertTold.  t is the source with the rows, v the view before.          *)

\* v agrees with the beginning of t.
Agrees(v, t) == \A i \in 1 .. Len(v) : v[i] = t[i]

\* w is the first c elements of t.
IsPrefix(w, t, c) == w \in Seq(Row) /\ Len(w) = c /\ Agrees(w, t)

LEMMA InsertAll ==   \* everything is shown
  ASSUME NEW s \in Seq(Row), NEW rows \in Seq(Row), NEW start \in 0 .. Len(s), NEW t, NEW v,
         t = Inserted(s, start, rows), v \in Seq(Row), Len(v) = Len(s), Agrees(v, s)
  PROVE  IsPrefix(ViewInserts(v, t, start, start + Len(rows) - 1), t, Len(t))
<1> DEFINE n == Len(rows)
           w == ViewInserts(v, t, start, start + n - 1)
<1>1. IsInserted(t, s, start, rows)
  BY InsertedIs
<1>2. t \in Seq(Row) /\ Len(t) = Len(s) + n
  BY <1>1 DEF IsInserted
<1>3. \A i \in 1 .. Len(s) + n : t[i] =
        IF i <= start THEN s[i] ELSE IF i <= start + n THEN rows[i - start] ELSE s[i - n]
  BY <1>1 DEF IsInserted
<1>4. Len(s) \in Nat /\ n \in Nat /\ start \in Nat /\ start <= Len(s)
  OBVIOUS
<1>5. start <= Len(v) /\ start + n <= Len(t)
  BY <1>2, <1>4
<1> HIDE DEF n
<1>6. IsViewInserted(w, v, t, start, n)
  BY <1>2, <1>4, <1>5, ViewInsertsIs
<1> HIDE DEF w
<1>7. w \in Seq(Row) /\ Len(w) = Len(v) + n
  BY <1>6 DEF IsViewInserted
<1>8. \A i \in 1 .. Len(v) + n : w[i] =
        IF i <= start THEN v[i] ELSE IF i <= start + n THEN t[i] ELSE v[i - n]
  BY <1>6 DEF IsViewInserted
<1>9. ASSUME NEW i \in 1 .. Len(w) PROVE w[i] = t[i]
  <2>1. i \in 1 .. Len(v) + n /\ i \in 1 .. Len(s) + n /\ i \in Nat
    BY <1>4, <1>7
  <2>2. CASE i <= start
    <3>1. i \in 1 .. Len(v)
      BY <1>4, <2>1, <2>2
    <3> QED
      BY <1>3, <1>8, <2>1, <2>2, <3>1 DEF Agrees
  <2>3. CASE start < i /\ i <= start + n
    BY <1>4, <1>8, <2>1, <2>3
  <2>4. CASE start + n < i
    <3>1. i - n \in 1 .. Len(v)
      BY <1>4, <2>1, <2>4
    <3>2. w[i] = v[i - n] /\ t[i] = s[i - n]
      BY <1>3, <1>4, <1>8, <2>1, <2>4
    <3> QED
      BY <3>1, <3>2 DEF Agrees
  <2> QED
    BY <1>4, <2>1, <2>2, <2>3, <2>4
<1>10. Len(w) = Len(t) /\ Agrees(w, t)
  BY <1>2, <1>7, <1>9 DEF Agrees
<1> QED
  BY <1>7, <1>10 DEF w, n, IsPrefix

LEMMA InsertBeyond ==   \* the rows come after those shown
  ASSUME NEW s \in Seq(Row), NEW rows \in Seq(Row), NEW start \in 0 .. Len(s), NEW t, NEW v,
         t = Inserted(s, start, rows), v \in Seq(Row), Len(v) <= start, Agrees(v, s)
  PROVE  Agrees(v, t)
<1>1. IsInserted(t, s, start, rows)
  BY InsertedIs
<1>2. \A i \in 1 .. Len(s) + Len(rows) : t[i] =
        IF i <= start THEN s[i] ELSE IF i <= start + Len(rows) THEN rows[i - start]
        ELSE s[i - Len(rows)]
  BY <1>1 DEF IsInserted
<1>3. Len(v) \in Nat /\ Len(s) \in Nat /\ Len(rows) \in Nat
  OBVIOUS
<1>4. ASSUME NEW i \in 1 .. Len(v) PROVE t[i] = s[i]
  <2>1. i <= start /\ i \in 1 .. Len(s) + Len(rows)
    BY <1>3
  <2> QED
    BY <1>2, <2>1
<1> QED
  BY <1>4 DEF Agrees

LEMMA InsertOver ==   \* as many rows as before are shown
  ASSUME NEW s \in Seq(Row), NEW rows \in Seq(Row), NEW start \in 0 .. Len(s), NEW t, NEW v,
         t = Inserted(s, start, rows), v \in Seq(Row), start < Len(v), Len(v) <= Len(s),
         Agrees(v, s)
  PROVE  IsPrefix(ViewReads(v, t, start, Len(v) - 1), t, Len(v))
<1> DEFINE n == Len(rows)
           e == Len(v) - 1
           w == ViewReads(v, t, start, e)
<1>1. IsInserted(t, s, start, rows)
  BY InsertedIs
<1>2. t \in Seq(Row) /\ Len(t) = Len(s) + n
  BY <1>1 DEF IsInserted
<1>3. \A i \in 1 .. Len(s) + n : t[i] =
        IF i <= start THEN s[i] ELSE IF i <= start + n THEN rows[i - start] ELSE s[i - n]
  BY <1>1 DEF IsInserted
<1>4. Len(v) \in Nat /\ Len(s) \in Nat /\ n \in Nat /\ start \in Nat
  OBVIOUS
<1>5. e \in Int /\ start \in Int /\ 0 <= start /\ e < Len(t) /\ e + 1 = Len(v)
  BY <1>2, <1>4
<1> HIDE DEF e, n
<1>6. IsViewRead(w, v, t, start, e)
  BY <1>2, <1>5, ViewReadsIs
<1> HIDE DEF w
<1>7. w \in Seq(Row) /\ Len(w) = Len(v)
  BY <1>6 DEF IsViewRead
<1>8. \A i \in 1 .. Len(v) : w[i] = IF start < i /\ i <= e + 1 THEN t[i] ELSE v[i]
  BY <1>6 DEF IsViewRead
<1>9. ASSUME NEW i \in 1 .. Len(w) PROVE w[i] = t[i]
  <2>1. i \in 1 .. Len(v) /\ i \in Nat /\ i <= Len(v) /\ i \in 1 .. Len(s) + n
    BY <1>4, <1>7
  <2>2. CASE i <= start
    <3>1. w[i] = v[i] /\ t[i] = s[i]
      BY <1>3, <1>4, <1>8, <2>1, <2>2
    <3> QED
      BY <2>1, <3>1 DEF Agrees
  <2>3. CASE start < i
    BY <1>5, <1>8, <2>1, <2>3
  <2> QED
    BY <1>4, <2>1, <2>2, <2>3
<1> QED
  BY <1>7, <1>9 DEF w, e, Agrees, IsPrefix

\* There is room for k of the rows: they are inserted, and the rest is read
\* again up to the limit.
LEMMA InsertAcross ==
  ASSUME NEW s \in Seq(Row), NEW rows \in Seq(Row), NEW start \in 0 .. Len(s), NEW t, NEW v,
         NEW k \in Nat, k < Len(rows),
         t = Inserted(s, start, rows), v \in Seq(Row), Len(v) = Len(s), Agrees(v, s)
  PROVE  LET w == ViewInserts(v, t, start, start + k - 1)
             x == ViewReads(w, t, start + k, Len(s) + k - 1)
         IN /\ IsPrefix(x, t, Len(s) + k)
            /\ start = Len(s) => IsPrefix(w, t, Len(s) + k)
<1> DEFINE n == Len(rows)
           w == ViewInserts(v, t, start, start + k - 1)
           b == start + k
           e == Len(s) + k - 1
           x == ViewReads(w, t, b, e)
<1>1. IsInserted(t, s, start, rows)
  BY InsertedIs
<1>2. t \in Seq(Row) /\ Len(t) = Len(s) + n
  BY <1>1 DEF IsInserted
<1>3. \A i \in 1 .. Len(s) + n : t[i] =
        IF i <= start THEN s[i] ELSE IF i <= start + n THEN rows[i - start] ELSE s[i - n]
  BY <1>1 DEF IsInserted
<1>4. Len(s) \in Nat /\ n \in Nat /\ start \in Nat /\ start <= Len(s) /\ k < n
  OBVIOUS
<1>5. start <= Len(v) /\ start + k <= Len(t)
  BY <1>2, <1>4
<1>6. b \in Int /\ e \in Int /\ 0 <= b /\ e < Len(t) /\ e + 1 = Len(s) + k /\ b = start + k
  BY <1>2, <1>4
<1> HIDE DEF n
<1>7. IsViewInserted(w, v, t, start, k)
  BY <1>2, <1>4, <1>5, ViewInsertsIs
<1> HIDE DEF w, b, e
<1>8. w \in Seq(Row) /\ Len(w) = Len(s) + k
  BY <1>7 DEF IsViewInserted
<1>9. \A i \in 1 .. Len(v) + k : w[i] =
        IF i <= start THEN v[i] ELSE IF i <= start + k THEN t[i] ELSE v[i - k]
  BY <1>7 DEF IsViewInserted
<1>10. IsViewRead(x, w, t, b, e)
  BY <1>2, <1>6, <1>8, ViewReadsIs
<1> HIDE DEF x
<1>11. x \in Seq(Row) /\ Len(x) = Len(w)
  BY <1>10 DEF IsViewRead
<1>12. \A i \in 1 .. Len(w) : x[i] = IF b < i /\ i <= e + 1 THEN t[i] ELSE w[i]
  BY <1>10 DEF IsViewRead
<1>13. ASSUME NEW i \in 1 .. Len(w), i <= start + k PROVE w[i] = t[i]
  <2>1. i \in 1 .. Len(v) + k /\ i \in Nat
    BY <1>4, <1>8
  <2>2. CASE i <= start
    <3>1. i \in 1 .. Len(v) /\ i \in 1 .. Len(s) + n
      BY <1>4, <2>1, <2>2
    <3>2. w[i] = v[i] /\ t[i] = s[i]
      BY <1>3, <1>9, <2>1, <2>2, <3>1
    <3> QED
      BY <3>1, <3>2 DEF Agrees
  <2>3. CASE start < i
    BY <1>4, <1>9, <1>13, <2>1, <2>3
  <2> QED
    BY <1>4, <2>1, <2>2, <2>3
<1>14. ASSUME NEW i \in 1 .. Len(x) PROVE x[i] = t[i]
  <2>1. i \in 1 .. Len(w) /\ i \in Nat /\ i <= Len(s) + k
    BY <1>4, <1>8, <1>11
  <2>2. CASE i <= start + k
    BY <1>6, <1>4, <1>12, <1>13, <2>1, <2>2
  <2>3. CASE start + k < i
    BY <1>4, <1>6, <1>12, <2>1, <2>3
  <2> QED
    BY <1>4, <2>1, <2>2, <2>3
<1>15. start = Len(s) => \A i \in 1 .. Len(w) : w[i] = t[i]
  BY <1>4, <1>8, <1>13
<1> QED
  BY <1>8, <1>11, <1>14, <1>15 DEF w, x, b, e, Agrees, IsPrefix

-----------------------------------------------------------------------------
(* What a view shows after the source has removed n rows, in the four cases   *)
(* of RemoveTold.                                                             *)

LEMMA RemoveAll ==   \* everything is shown
  ASSUME NEW s \in Seq(Row), NEW start \in Nat, NEW n \in Nat, start + n <= Len(s), NEW t, NEW v,
         t = Removed(s, start, start + n - 1), v \in Seq(Row), Len(v) = Len(s), Agrees(v, s)
  PROVE  IsPrefix(Removed(v, start, start + n - 1), t, Len(t))
<1>1. Len(s) \in Nat /\ \A i \in 1 .. Len(s) : v[i] = s[i]
  BY DEF Agrees
<1>2. v = s
  BY <1>1
<1>3. IsRemoved(t, s, start, n)
  BY RemovedIs
<1> QED
  BY <1>2, <1>3 DEF IsRemoved, Agrees, IsPrefix

LEMMA RemoveBeyond ==   \* the rows come after those shown
  ASSUME NEW s \in Seq(Row), NEW start \in Nat, NEW n \in Nat, start + n <= Len(s), NEW t, NEW v,
         t = Removed(s, start, start + n - 1), v \in Seq(Row), Len(v) <= start, Agrees(v, s)
  PROVE  Agrees(v, t)
<1>1. IsRemoved(t, s, start, n)
  BY RemovedIs
<1>2. \A i \in 1 .. Len(s) - n : t[i] = IF i <= start THEN s[i] ELSE s[i + n]
  BY <1>1 DEF IsRemoved
<1>3. Len(v) \in Nat /\ Len(s) \in Nat
  OBVIOUS
<1>4. ASSUME NEW i \in 1 .. Len(v) PROVE t[i] = s[i]
  <2>1. i <= start /\ i \in 1 .. Len(s) - n
    BY <1>3
  <2> QED
    BY <1>2, <2>1
<1> QED
  BY <1>4 DEF Agrees

LEMMA RemoveOver ==   \* as many rows as before are shown
  ASSUME NEW s \in Seq(Row), NEW start \in Nat, NEW n \in Nat, start + n <= Len(s), NEW t, NEW v,
         t = Removed(s, start, start + n - 1), v \in Seq(Row), start < Len(v),
         Len(v) <= Len(s) - n, Agrees(v, s)
  PROVE  IsPrefix(ViewReads(v, t, start, Len(v) - 1), t, Len(v))
<1> DEFINE e == Len(v) - 1
           w == ViewReads(v, t, start, e)
<1>1. IsRemoved(t, s, start, n)
  BY RemovedIs
<1>2. t \in Seq(Row) /\ Len(t) = Len(s) - n
  BY <1>1 DEF IsRemoved
<1>3. \A i \in 1 .. Len(s) - n : t[i] = IF i <= start THEN s[i] ELSE s[i + n]
  BY <1>1 DEF IsRemoved
<1>4. Len(v) \in Nat /\ Len(s) \in Nat
  OBVIOUS
<1>5. e \in Int /\ start \in Int /\ 0 <= start /\ e < Len(t) /\ e + 1 = Len(v)
  BY <1>2, <1>4
<1> HIDE DEF e
<1>6. IsViewRead(w, v, t, start, e)
  BY <1>2, <1>5, ViewReadsIs
<1> HIDE DEF w
<1>7. w \in Seq(Row) /\ Len(w) = Len(v)
  BY <1>6 DEF IsViewRead
<1>8. \A i \in 1 .. Len(v) : w[i] = IF start < i /\ i <= e + 1 THEN t[i] ELSE v[i]
  BY <1>6 DEF IsViewRead
<1>9. ASSUME NEW i \in 1 .. Len(w) PROVE w[i] = t[i]
  <2>1. i \in 1 .. Len(v) /\ i \in Nat /\ i <= Len(v) /\ i \in 1 .. Len(s) - n
    BY <1>4, <1>7
  <2>2. CASE i <= start
    <3>1. w[i] = v[i] /\ t[i] = s[i]
      BY <1>3, <1>8, <2>1, <2>2
    <3> QED
      BY <2>1, <3>1 DEF Agrees
  <2>3. CASE start < i
    BY <1>5, <1>8, <2>1, <2>3
  <2> QED
    BY <2>1, <2>2, <2>3
<1> QED
  BY <1>7, <1>9 DEF w, e, Agrees, IsPrefix

\* Fewer rows are left than were shown: the last ones are removed, and the rest
\* is read again.
LEMMA RemoveAcross ==
  ASSUME NEW s \in Seq(Row), NEW start \in Nat, NEW n \in Nat, start + n <= Len(s), NEW t, NEW v,
         t = Removed(s, start, start + n - 1), v \in Seq(Row),
         Len(s) - n < Len(v), Len(v) <= Len(s), Agrees(v, s)
  PROVE  LET left == Len(s) - n
             w == Removed(v, left, Len(v) - 1)
             x == ViewReads(w, t, start, left - 1)
         IN IsPrefix(x, t, left) /\ (start = left => IsPrefix(w, t, left))
<1> DEFINE left == Len(s) - n
           k == Len(v) - left
           e == left - 1
           w == Removed(v, left, Len(v) - 1)
           x == ViewReads(w, t, start, e)
<1>1. IsRemoved(t, s, start, n)
  BY RemovedIs
<1>2. t \in Seq(Row) /\ Len(t) = left
  BY <1>1 DEF IsRemoved
<1>3. \A i \in 1 .. left : t[i] = IF i <= start THEN s[i] ELSE s[i + n]
  BY <1>1 DEF IsRemoved
<1>4. /\ Len(v) \in Nat /\ Len(s) \in Nat /\ left \in Nat /\ k \in Nat /\ start <= left
      /\ left + k <= Len(v) /\ left + k - 1 = Len(v) - 1 /\ Len(v) - k = left
      /\ e \in Int /\ e < left /\ e + 1 = left /\ start \in Int /\ 0 <= start /\ left <= Len(s)
  OBVIOUS
<1> HIDE DEF left, k, e
<1>5. IsRemoved(w, v, left, k)
  <2>1. IsRemoved(Removed(v, left, left + k - 1), v, left, k)
    BY <1>4, RemovedIs
  <2> QED
    BY <1>4, <2>1
<1> HIDE DEF w
<1>6. w \in Seq(Row) /\ Len(w) = left
  BY <1>4, <1>5 DEF IsRemoved
<1>7. \A i \in 1 .. left : w[i] = v[i]
  <2>1. \A i \in 1 .. Len(v) - k : w[i] = IF i <= left THEN v[i] ELSE v[i + k]
    BY <1>5 DEF IsRemoved
  <2> QED
    BY <1>4, <2>1
<1>8. IsViewRead(x, w, t, start, e)
  BY <1>2, <1>4, <1>6, ViewReadsIs
<1> HIDE DEF x
<1>9. x \in Seq(Row) /\ Len(x) = left
  BY <1>6, <1>8 DEF IsViewRead
<1>10. \A i \in 1 .. left : x[i] = IF start < i /\ i <= e + 1 THEN t[i] ELSE w[i]
  BY <1>6, <1>8 DEF IsViewRead
<1>11. ASSUME NEW i \in 1 .. left, i <= start PROVE w[i] = t[i]
  <2>1. t[i] = s[i] /\ w[i] = v[i] /\ i \in 1 .. Len(v)
    BY <1>3, <1>4, <1>7, <1>11
  <2> QED
    BY <2>1 DEF Agrees
<1>12. ASSUME NEW i \in 1 .. left PROVE x[i] = t[i]
  <2>1. CASE i <= start
    BY <1>4, <1>10, <1>11, <2>1
  <2>2. CASE start < i
    BY <1>4, <1>10, <2>2
  <2> QED
    BY <1>4, <2>1, <2>2
<1>13. ASSUME start = left, NEW i \in 1 .. left PROVE w[i] = t[i]
  <2>1. i <= start
    BY <1>4, <1>13
  <2> QED
    BY <1>11, <2>1
<1> QED
  BY <1>6, <1>9, <1>12, <1>13 DEF w, x, e, left, Agrees, IsPrefix

-----------------------------------------------------------------------------
(* The steps in which the source makes its change *)

LEMMA SourceInsertsInv ==
  ASSUME Inv, SourceInserts
  PROVE  Inv'
<1> DEFINE n == Len(change.rows)
           k == limit - Len(source)
           w == ViewInserts(view, source', announced[1], announced[2])
<1>1. InsertTold
  BY DEF Inv, SourceInserts, NoChange
<1>2. /\ source \in Seq(Row) /\ Len(source) \in Nat /\ limit \in Int
      /\ view = FirstRows(source, limit)
  BY DEF Inv, Shows
<1>3. view \in Seq(Row) /\ Len(view) = CountOf(source, limit) /\ Agrees(view, source)
  BY <1>2, FirstRowsIs DEF Agrees
<1>4. /\ change.start \in 0 .. Len(source) /\ change.rows \in Seq(Row) /\ n \in Nat /\ n > 0
      /\ change.end = change.start + n - 1
  BY <1>1 DEF InsertTold
<1>5. /\ source' = Inserted(source, change.start, change.rows)
      /\ limit' = limit /\ change' = NoChange
      /\ view' = ReadAgain(IF sourceInserting THEN w ELSE view, source')
  BY DEF SourceInserts, ChangeMade
<1>6. NothingTold'
  BY <1>1 DEF SourceInserts, ChangeMade, InsertTold, NothingTold, NoRange
<1>7. source' \in Seq(Row) /\ Len(source') = Len(source) + n
  BY <1>2, <1>4, <1>5, InsertedIs DEF IsInserted
<1> HIDE DEF n, w
<1>8. view' \in Seq(Row) /\ Len(view') = CountOf(source', limit) /\ Agrees(view', source')
  <2>1. CASE /\ limit < 0 \/ (change.start < limit /\ Len(source) + n <= limit)
             /\ sourceInserting /\ announced = <<change.start, change.end>>
             /\ dataChanged = NoRange
    <3>1. view' = w
      BY <1>5, <2>1 DEF ReadAgain, NoRange
    <3>2. w = ViewInserts(view, source', change.start, change.start + n - 1)
      BY <1>4, <2>1 DEF w
    <3>3. Len(view) = Len(source) /\ CountOf(source', limit) = Len(source')
      BY <1>2, <1>3, <1>4, <1>7, <2>1 DEF CountOf, AtMost
    <3>4. IsPrefix(w, source', Len(source'))
      <4>1. w = ViewInserts(view, source', change.start, change.start + Len(change.rows) - 1)
        BY <3>2 DEF n
      <4>2. /\ change.rows \in Seq(Row) /\ change.start \in 0 .. Len(source)
            /\ source' = Inserted(source, change.start, change.rows)
            /\ view \in Seq(Row) /\ Len(view) = Len(source) /\ Agrees(view, source)
            /\ source \in Seq(Row)
        BY <1>2, <1>3, <1>4, <1>5, <3>3
      <4>3. IsPrefix(ViewInserts(view, source', change.start,
                                 change.start + Len(change.rows) - 1), source', Len(source'))
        BY <4>2, InsertAll
      <4> QED
        BY <4>1, <4>3
    <3> QED
      BY <3>1, <3>3, <3>4 DEF IsPrefix
  <2>2. CASE limit >= 0 /\ change.start >= limit /\ ~sourceInserting /\ dataChanged = NoRange
    <3>1. view' = view
      BY <1>5, <2>2 DEF ReadAgain, NoRange
    <3>2. Len(view) <= change.start /\ CountOf(source', limit) = Len(view)
      BY <1>2, <1>3, <1>4, <1>7, <2>2 DEF CountOf, AtMost
    <3>3. Agrees(view, source')
      BY <1>2, <1>3, <1>4, <1>5, <3>2, InsertBeyond
    <3> QED
      BY <1>3, <3>1, <3>2, <3>3
  <2>3. CASE /\ limit >= 0 /\ change.start < limit /\ Len(source) >= limit
             /\ ~sourceInserting /\ dataChanged = <<change.start, limit - 1>>
    <3>1. change.start \in Nat /\ limit - 1 \in Nat
      BY <1>2, <1>4, <2>3
    <3>2. /\ Len(view) = limit /\ Len(view) <= Len(source) /\ change.start < Len(view)
          /\ CountOf(source', limit) = Len(view)
      BY <1>2, <1>3, <1>4, <1>7, <2>3 DEF CountOf, AtMost
    <3>3. view' = ViewReads(view, source', change.start, Len(view) - 1)
      BY <1>5, <2>3, <3>1, <3>2 DEF ReadAgain
    <3>4. IsPrefix(ViewReads(view, source', change.start, Len(view) - 1), source', Len(view))
      BY <1>2, <1>3, <1>4, <1>5, <3>2, InsertOver
    <3> QED
      BY <3>2, <3>3, <3>4 DEF IsPrefix
  <2>4. CASE /\ limit >= 0 /\ change.start < limit /\ Len(source) < limit
             /\ Len(source) + n > limit
             /\ sourceInserting
             /\ announced = <<change.start, change.start + (limit - Len(source)) - 1>>
             /\ dataChanged = IF change.start = Len(source) THEN NoRange
                              ELSE <<change.start + (limit - Len(source)), limit - 1>>
    <3> DEFINE b == change.start + k
               e == Len(source) + k - 1
               x == ViewReads(w, source', b, e)
    <3>1. /\ k \in Nat /\ k < n /\ Len(source) + k = limit /\ e = limit - 1
          /\ b \in Nat /\ e \in Nat
      BY <1>2, <1>4, <2>4
    <3>2. Len(view) = Len(source) /\ CountOf(source', limit) = limit
      BY <1>2, <1>3, <1>4, <1>7, <2>4 DEF CountOf, AtMost
    <3>3. w = ViewInserts(view, source', change.start, change.start + k - 1)
      BY <2>4 DEF w
    <3> HIDE DEF k
    <3>4. /\ IsPrefix(x, source', limit)
          /\ change.start = Len(source) => IsPrefix(w, source', limit)
      <4>1. /\ change.rows \in Seq(Row) /\ change.start \in 0 .. Len(source)
            /\ source' = Inserted(source, change.start, change.rows)
            /\ view \in Seq(Row) /\ Len(view) = Len(source) /\ Agrees(view, source)
            /\ source \in Seq(Row) /\ k \in Nat /\ k < Len(change.rows)
        BY <1>2, <1>3, <1>4, <1>5, <3>1, <3>2 DEF n
      <4>2. LET y == ViewInserts(view, source', change.start, change.start + k - 1)
                z == ViewReads(y, source', change.start + k, Len(source) + k - 1)
            IN /\ IsPrefix(z, source', Len(source) + k)
               /\ change.start = Len(source) => IsPrefix(y, source', Len(source) + k)
        BY <4>1, InsertAcross
      <4> QED
        BY <3>1, <3>3, <4>2
    <3>5. CASE change.start = Len(source)
      <4>1. view' = w
        BY <1>5, <2>4, <3>5 DEF ReadAgain, NoRange
      <4> QED
        BY <3>2, <3>4, <3>5, <4>1 DEF IsPrefix
    <3>6. CASE change.start # Len(source)
      <4>1. dataChanged = <<b, e>>
        BY <2>4, <3>1, <3>6 DEF k
      <4> HIDE DEF b, e
      <4>2. view' = ViewReads(w, source', b, e)
        BY <1>5, <2>4, <3>1, <4>1 DEF ReadAgain
      <4> QED
        BY <3>2, <3>4, <4>2 DEF IsPrefix
    <3> QED
      BY <3>5, <3>6
  <2> QED
    BY <1>1, <2>1, <2>2, <2>3, <2>4 DEF InsertTold, n
<1>9. view' = FirstRows(source', limit)
  BY <1>2, <1>7, <1>8, FirstRowsOnly DEF Agrees
<1> QED
  BY <1>2, <1>5, <1>6, <1>7, <1>9 DEF Inv, Shows

LEMMA SourceRemovesInv ==
  ASSUME Inv, SourceRemoves
  PROVE  Inv'
<1> DEFINE start == change.start
           n == change.end - change.start + 1
           left == Len(source) - n
           w == Removed(view, announced[1], announced[2])
<1>1. RemoveTold
  BY DEF Inv, SourceRemoves, NoChange
<1>2. /\ source \in Seq(Row) /\ Len(source) \in Nat /\ limit \in Int
      /\ view = FirstRows(source, limit)
  BY DEF Inv, Shows
<1>3. view \in Seq(Row) /\ Len(view) = CountOf(source, limit) /\ Agrees(view, source)
  BY <1>2, FirstRowsIs DEF Agrees
<1>4. /\ start \in Nat /\ n \in Nat /\ n > 0 /\ start + n <= Len(source)
      /\ change.end = start + n - 1
  BY <1>1, <1>2 DEF RemoveTold
<1>5. /\ source' = Removed(source, start, start + n - 1)
      /\ limit' = limit /\ change' = NoChange
      /\ view' = ReadAgain(IF sourceRemoving THEN w ELSE view, source')
  BY <1>4 DEF SourceRemoves, ChangeMade
<1>6. NothingTold'
  BY <1>1 DEF SourceRemoves, ChangeMade, RemoveTold, NothingTold, NoRange
<1>7. RemoveTold
      <=> /\ start \in Nat /\ change.end \in Nat /\ start <= change.end
          /\ change.end < Len(source) /\ ~sourceInserting
          /\ \/ /\ limit < 0 \/ (start < limit /\ Len(source) <= limit)
                /\ sourceRemoving /\ announced = <<start, change.end>> /\ dataChanged = NoRange
             \/ limit >= 0 /\ start >= limit /\ ~sourceRemoving /\ dataChanged = NoRange
             \/ /\ limit >= 0 /\ start < limit /\ left >= limit
                /\ ~sourceRemoving /\ dataChanged = <<start, limit - 1>>
             \/ /\ limit >= 0 /\ start < limit /\ Len(source) > limit /\ left < limit
                /\ sourceRemoving /\ announced = <<left, limit - 1>>
                /\ dataChanged = IF start = left THEN NoRange ELSE <<start, left - 1>>
  BY DEF RemoveTold
<1> HIDE DEF start, n, w
<1>8. source' \in Seq(Row) /\ Len(source') = left
  BY <1>2, <1>4, <1>5, RemovedIs DEF IsRemoved
<1>9. view' \in Seq(Row) /\ Len(view') = CountOf(source', limit) /\ Agrees(view', source')
  <2>1. CASE /\ limit < 0 \/ (start < limit /\ Len(source) <= limit)
             /\ sourceRemoving /\ announced = <<start, change.end>> /\ dataChanged = NoRange
    <3>1. view' = w
      BY <1>5, <2>1 DEF ReadAgain, NoRange
    <3>2. w = Removed(view, start, start + n - 1)
      BY <1>4, <2>1 DEF w
    <3>3. Len(view) = Len(source) /\ CountOf(source', limit) = Len(source')
      BY <1>2, <1>3, <1>4, <1>8, <2>1 DEF CountOf, AtMost
    <3>4. IsPrefix(Removed(view, start, start + n - 1), source', Len(source'))
      BY <1>2, <1>3, <1>4, <1>5, <3>3, RemoveAll
    <3> QED
      BY <3>1, <3>2, <3>3, <3>4 DEF IsPrefix
  <2>2. CASE limit >= 0 /\ start >= limit /\ ~sourceRemoving /\ dataChanged = NoRange
    <3>1. view' = view
      BY <1>5, <2>2 DEF ReadAgain, NoRange
    <3>2. Len(view) <= start /\ CountOf(source', limit) = Len(view)
      BY <1>2, <1>3, <1>4, <1>8, <2>2 DEF CountOf, AtMost
    <3>3. Agrees(view, source')
      BY <1>2, <1>3, <1>4, <1>5, <3>2, RemoveBeyond
    <3> QED
      BY <1>3, <3>1, <3>2, <3>3
  <2>3. CASE /\ limit >= 0 /\ start < limit /\ left >= limit
             /\ ~sourceRemoving /\ dataChanged = <<start, limit - 1>>
    <3>1. start \in Nat /\ limit - 1 \in Nat
      BY <1>2, <1>4, <2>3
    <3>2. /\ Len(view) = limit /\ Len(view) <= Len(source) - n /\ start < Len(view)
          /\ CountOf(source', limit) = Len(view)
      BY <1>2, <1>3, <1>4, <1>8, <2>3 DEF CountOf, AtMost
    <3>3. view' = ViewReads(view, source', start, Len(view) - 1)
      BY <1>5, <2>3, <3>1, <3>2 DEF ReadAgain
    <3>4. IsPrefix(ViewReads(view, source', start, Len(view) - 1), source', Len(view))
      BY <1>2, <1>3, <1>4, <1>5, <3>2, RemoveOver
    <3> QED
      BY <3>2, <3>3, <3>4 DEF IsPrefix
  <2>4. CASE /\ limit >= 0 /\ start < limit /\ Len(source) > limit /\ left < limit
             /\ sourceRemoving /\ announced = <<left, limit - 1>>
             /\ dataChanged = IF start = left THEN NoRange ELSE <<start, left - 1>>
    <3>1. /\ Len(view) = limit /\ left < Len(view) /\ Len(view) <= Len(source)
          /\ CountOf(source', limit) = left /\ left \in Nat
      BY <1>2, <1>3, <1>4, <1>8, <2>4 DEF CountOf, AtMost
    <3>2. w = Removed(view, left, Len(view) - 1)
      BY <2>4, <3>1 DEF w
    <3>3. LET l == Len(source) - n
              y == Removed(view, l, Len(view) - 1)
              z == ViewReads(y, source', start, l - 1)
          IN IsPrefix(z, source', l) /\ (start = l => IsPrefix(y, source', l))
      BY <1>2, <1>3, <1>4, <1>5, <3>1, RemoveAcross
    <3>4. CASE start = left
      <4>1. view' = w
        BY <1>5, <2>4, <3>4 DEF ReadAgain, NoRange
      <4> QED
        BY <3>1, <3>2, <3>3, <3>4, <4>1 DEF IsPrefix
    <3>5. CASE start # left
      <4>1. dataChanged = <<start, left - 1>>
        BY <2>4, <3>5
      <4>2. start # -1 /\ left - 1 # -1
        BY <1>2, <1>4, <3>1, <3>5
      <4> DEFINE e == left - 1
      <4>3. dataChanged = <<start, e>> /\ e # -1 /\ sourceRemoving
        BY <2>4, <4>1, <4>2
      <4> HIDE DEF e
      <4>4. view' = ViewReads(w, source', start, e)
        BY <1>5, <4>2, <4>3 DEF ReadAgain
      <4> QED
        BY <3>1, <3>2, <3>3, <4>4 DEF IsPrefix, e
    <3> QED
      BY <3>4, <3>5
  <2> QED
    BY <1>7, <1>1, <2>1, <2>2, <2>3, <2>4
<1>10. view' = FirstRows(source', limit)
  BY <1>2, <1>8, <1>9, FirstRowsOnly DEF Agrees
<1> QED
  BY <1>2, <1>5, <1>6, <1>8, <1>10 DEF Inv, Shows

\* New data in one row: a view reads it again if it shows it.
LEMMA SourceChangesRowInv ==
  ASSUME Inv, NEW i \in DOMAIN source, NEW r \in Row, SourceChangesRow(i, r)
  PROVE  Inv'
<1>1. /\ source \in Seq(Row) /\ Len(source) \in Nat /\ limit \in Int
      /\ view = FirstRows(source, limit)
  BY DEF Inv, Shows
<1>2. view \in Seq(Row) /\ Len(view) = CountOf(source, limit) /\ Agrees(view, source)
  BY <1>1, FirstRowsIs DEF Agrees
<1>3. /\ source' \in Seq(Row) /\ Len(source') = Len(source)
      /\ \A j \in 1 .. Len(source) : source'[j] = IF j = i THEN r ELSE source[j]
  BY <1>1 DEF SourceChangesRow
<1>4. i \in Nat /\ i - 1 \in Int /\ 0 <= i - 1 /\ i - 1 < Len(source') /\ (i - 1) + 1 = i
  BY <1>1, <1>3
<1>5. IsViewRead(view', view, source', i - 1, i - 1)
  BY <1>2, <1>3, <1>4, ViewReadsIs DEF SourceChangesRow
<1>6. view' \in Seq(Row) /\ Len(view') = Len(view)
  BY <1>5 DEF IsViewRead
<1>7. limit' = limit /\ CountOf(source', limit) = CountOf(source, limit)
  BY <1>3 DEF SourceChangesRow, CountOf
<1>8. ASSUME NEW j \in 1 .. Len(view') PROVE view'[j] = source'[j]
  <2>1. j \in 1 .. Len(view) /\ j \in 1 .. Len(source) /\ j \in Nat
    BY <1>1, <1>2, <1>6 DEF CountOf, AtMost
  <2>2. view'[j] = IF i - 1 < j /\ j <= i THEN source'[j] ELSE view[j]
    BY <1>4, <1>5, <2>1 DEF IsViewRead
  <2>3. CASE j = i
    BY <1>4, <2>2, <2>3
  <2>4. CASE j # i
    <3>1. ~(i - 1 < j /\ j <= i)
      BY <1>4, <2>1, <2>4
    <3>2. view'[j] = view[j] /\ source'[j] = source[j]
      BY <1>3, <2>1, <2>2, <2>4, <3>1
    <3> QED
      BY <1>2, <2>1, <3>2 DEF Agrees
  <2> QED
    BY <2>3, <2>4
<1>9. view' = FirstRows(source', limit)
  BY <1>1, <1>2, <1>3, <1>6, <1>7, <1>8, FirstRowsOnly
<1>10. change' = NoChange /\ NothingTold'
  BY DEF SourceChangesRow, Idle, Inv, NothingTold, NoChange
<1> QED
  BY <1>1, <1>3, <1>7, <1>9, <1>10 DEF Inv, Shows

LEMMA SourceResetsInv ==
  ASSUME Inv, NEW s \in Lists, SourceResets(s)
  PROVE  Inv'
<1>1. s \in Seq(Row)
  BY DEF Lists
<1>2. change' = NoChange /\ NothingTold'
  BY DEF SourceResets, Idle, Inv, NothingTold, NoChange
<1> QED
  BY <1>1, <1>2 DEF SourceResets, Inv, Shows

LEMMA UnchangedInv ==
  ASSUME Inv, UNCHANGED vars
  PROVE  Inv'
BY DEF Inv, vars, Shows, NothingTold, InsertTold, RemoveTold, NoChange, NoRange,
       FirstRows, CountOf, AtMost

LEMMA NextInv ==
  ASSUME Inv, [Next]_vars
  PROVE  Inv'
<1>1. source \in Seq(Row) /\ Len(source) \in Nat
  BY DEF Inv
<1>2. ASSUME NEW new \in -1 .. MaxLimit, SetLimit(new) PROVE Inv'
  BY <1>2, SetLimitInv
<1>3. ASSUME NEW start \in 0 .. Len(source), NEW n \in 1 .. MaxRows - Len(source),
             NEW rows \in [1 .. n -> Row], SourceBeginsInsert(start, rows)
      PROVE  Inv'
  <2>1. n \in Nat \ {0}
    BY <1>1, LimitAssumption
  <2> QED
    BY <1>3, <2>1, BeginsInsertInv
<1>4. ASSUME NEW start \in 0 .. Len(source) - 1, NEW end \in 0 .. Len(source) - 1,
             start <= end, SourceBeginsRemove(start, end)
      PROVE  Inv'
  BY <1>4, BeginsRemoveInv
<1>5. ASSUME NEW i \in DOMAIN source, NEW r \in Row, SourceChangesRow(i, r) PROVE Inv'
  BY <1>5, SourceChangesRowInv
<1>6. ASSUME NEW s \in Lists, SourceResets(s) PROVE Inv'
  BY <1>6, SourceResetsInv
<1> QED
  BY <1>2, <1>3, <1>4, <1>5, <1>6, SourceInsertsInv, SourceRemovesInv, UnchangedInv DEF Next

\* Whatever the source does and whatever the limit is set to, a view told by
\* the proxy shows the first rows of the source (all the slots of
\* LimitProxyModel and setLimit), and is never told of rows it does not have.
THEOREM LimitedView == Spec => [](ViewIsFirstRows /\ AnnouncedFits)
<1>1. Init => Inv
  BY InitInv
<1>2. Inv /\ [Next]_vars => Inv'
  BY NextInv
<1>3. Inv => ViewIsFirstRows /\ AnnouncedFits
  BY InvImplies
<1> QED
  BY <1>1, <1>2, <1>3, PTL DEF Spec
-----------------------------------------------------------------------------
(* The icon of a page *)

\* A fetcher has nothing to do, has queued the download of its URL, or waits for the reply.  It shows
\* no icon until that has come, and then the one of its URL.
AtRest == reply = 0 /\ DOMAIN replies = {} /\ queued = <<>>
Redirected == reply = 0 /\ DOMAIN replies = {} /\ queued = <<url>>
Waits == reply = 1 /\ DOMAIN replies = {1} /\ replies[1] = url /\ queued = <<>>
Fetches == url \in IconUrl /\ filepath = url /\ localUrl = Icons!NoIcon
IconRight == \/ localUrl = Icons!NoIcon
             \/ localUrl = Icons!Shown("direct", url) /\ url = Direct
             \/ localUrl = Icons!Shown("data", url)
             \/ localUrl = Icons!Shown("cache", url) /\ url \in IconUrl /\ cache[url] \in {url, "old"}
IconsInv == /\ url \in IconUrl \cup {Direct, NoUrl}
            /\ cache \in [IconUrl -> IconUrl \cup {NoUrl, "empty", "old"}] /\ Icons!CacheIsRight
            /\ AtRest \/ ((Redirected \/ Waits) /\ Fetches)
            /\ IconRight

\* The first reply is numbered 1.
LEMMA DownloadIs ==
  ASSUME NEW inFlight, DOMAIN inFlight = {}, NEW u, Icons!Download(inFlight, u)
  PROVE  reply' = 1 /\ DOMAIN replies' = {1} /\ replies'[1] = u
<1> DEFINE P(s) == s \notin DOMAIN inFlight /\ \A t \in 1 .. s - 1 : t \in DOMAIN inFlight
           r == CHOOSE s \in 1 .. 4 : P(s)
<1>1. 1 \in 1 .. 4 /\ P(1)
  OBVIOUS
<1>2. r \in 1 .. 4 /\ P(r)
  <2> HIDE DEF P
  <2> QED
    BY <1>1
<1>3. r = 1
  <2>1. CASE r > 1
    <3>1. 1 \in 1 .. r - 1
      BY <1>2, <2>1
    <3> QED
      BY <1>2, <3>1
  <2> QED
    BY <1>2, <2>1
<1>4. reply' = r /\ replies' = [s \in DOMAIN inFlight \cup {r} |-> IF s = r THEN u ELSE inFlight[s]]
  BY DEF Icons!Download
<1> HIDE DEF r
<1> QED
  BY <1>3, <1>4

LEMMA SetUrlStep ==
  ASSUME IconsInv, NEW u \in IconUrl \cup {Direct, NoUrl}, Icons!SetUrl(u)
  PROVE  IconsInv'
<1>1. /\ url' = u /\ queued = <<>> /\ UNCHANGED <<shouldCache, queued, cache>>
      /\ cache \in [IconUrl -> IconUrl \cup {NoUrl, "empty", "old"}] /\ Icons!CacheIsRight
  BY DEF Icons!SetUrl, IconsInv
<1>2. DOMAIN Icons!Aborted = {}
  BY <1>1 DEF IconsInv, AtRest, Redirected, Waits, Icons!Aborted, Icons!WithoutReply
<1>3. Icons!CacheIsRight' /\ cache' = cache
  BY <1>1 DEF Icons!CacheIsRight
<1>4. CASE u = NoUrl /\ localUrl' = Icons!NoIcon /\ reply' = 0 /\ replies' = Icons!Aborted
  BY <1>1, <1>2, <1>3, <1>4 DEF IconsInv, AtRest, IconRight
<1>5. CASE u = Direct /\ localUrl' = Icons!Shown("direct", u) /\ reply' = 0 /\ replies' = Icons!Aborted
  BY <1>1, <1>2, <1>3, <1>5 DEF IconsInv, AtRest, IconRight
<1>6. CASE /\ u \in IconUrl /\ cache[u] \notin {NoUrl, "old"} /\ reply' = 0 /\ replies' = Icons!Aborted
           /\ localUrl' = IF cache[u] = "empty" THEN Icons!NoIcon ELSE Icons!Shown("cache", u)
  <2>1. cache[u] # "empty" => cache[u] = u
    BY <1>1, <1>6 DEF Icons!CacheIsRight
  <2>2. IconRight'
    BY <1>1, <1>3, <1>6, <2>1 DEF IconRight
  <2> QED
    BY <1>1, <1>2, <1>3, <1>6, <2>2 DEF IconsInv, AtRest
<1>7. CASE /\ u \in IconUrl /\ localUrl' = Icons!NoIcon /\ filepath' = u
           /\ Icons!Download(Icons!Aborted, u)
  <2>1. reply' = 1 /\ DOMAIN replies' = {1} /\ replies'[1] = u
    BY <1>2, <1>7, DownloadIs
  <2> QED
    BY <1>1, <1>3, <1>7, <2>1 DEF IconsInv, Waits, Fetches, IconRight
<1> QED
  BY <1>4, <1>5, <1>6, <1>7 DEF Icons!SetUrl

LEMMA FinishedStep ==
  ASSUME IconsInv, NEW r \in DOMAIN replies, Icons!Answers(r) \/ Icons!Redirects(r)
  PROVE  IconsInv'
<1>1. /\ r = 1 /\ replies[r] = url /\ queued = <<>> /\ url \in IconUrl /\ filepath = url
      /\ localUrl = Icons!NoIcon /\ cache \in [IconUrl -> IconUrl \cup {NoUrl, "empty", "old"}]
      /\ Icons!CacheIsRight /\ DOMAIN replies = {1}
  BY DEF IconsInv, AtRest, Redirected, Waits, Fetches
<1>2. reply' = 0 /\ replies' = Icons!WithoutReply(r) /\ UNCHANGED <<url, filepath>>
  BY DEF Icons!Answers, Icons!Redirects, Icons!Finished
<1>3. DOMAIN replies' = {}
  BY <1>1, <1>2 DEF Icons!WithoutReply
\* what becomes of the cache and the icon
<1>4. \/ cache' = [cache EXCEPT ![url] = url] /\ localUrl' = Icons!Shown("cache", url)
      \/ cache' = cache /\ localUrl' = Icons!Shown("data", url)
      \/ cache' = [cache EXCEPT ![url] = "empty"] /\ localUrl' = localUrl
      \/ cache' = cache /\ localUrl' = localUrl
  BY <1>1 DEF Icons!Answers, Icons!Redirects, Icons!IconReceived, Icons!CacheEmptyFile
<1>5. \/ queued' = <<>>
      \/ queued' = <<url>> /\ localUrl' = localUrl
  <2>1. CASE Icons!Answers(r)
    BY <1>1, <2>1 DEF Icons!Answers
  <2>2. CASE Icons!Redirects(r)
    <3>1. \/ queued' = Append(queued, replies[r]) /\ UNCHANGED <<cache, localUrl>>
          \/ UNCHANGED queued
      BY <2>2 DEF Icons!Redirects
    <3>2. Append(<<>>, url) = <<url>>
      OBVIOUS
    <3> QED
      BY <1>1, <3>1, <3>2
  <2> QED
    BY <2>1, <2>2
<1>6. cache' \in [IconUrl -> IconUrl \cup {NoUrl, "empty", "old"}] /\ Icons!CacheIsRight'
  BY <1>1, <1>4 DEF Icons!CacheIsRight
<1>7. IconRight'
  BY <1>1, <1>2, <1>4 DEF IconRight
<1>8. AtRest' \/ (Redirected' /\ Fetches')
  BY <1>1, <1>2, <1>3, <1>5 DEF AtRest, Redirected, Fetches
<1> QED
  BY <1>1, <1>2, <1>6, <1>7, <1>8 DEF IconsInv

LEMMA IconsStep ==
  ASSUME IconsInv, Icons!Next
  PROVE  IconsInv'
<1>1. CASE \E u \in IconUrl \cup {Direct, NoUrl} : Icons!SetUrl(u)
  BY <1>1, SetUrlStep
<1>2. CASE Icons!SetShouldCache
  BY <1>2 DEF Icons!SetShouldCache, IconsInv, AtRest, Redirected, Waits, Fetches, IconRight, Icons!CacheIsRight
<1>3. CASE Icons!RunQueued
  <2>1. /\ queued # <<>> /\ queued' = Tail(queued) /\ Icons!Download(replies, Head(queued))
        /\ UNCHANGED <<url, localUrl, filepath, cache>>
    BY <1>3 DEF Icons!RunQueued
  <2>2. queued = <<url>> /\ DOMAIN replies = {} /\ Fetches
    BY <2>1 DEF IconsInv, AtRest, Redirected, Waits
  <2>3. Head(<<url>>) = url /\ Tail(<<url>>) = <<>>
    OBVIOUS
  <2>4. reply' = 1 /\ DOMAIN replies' = {1} /\ replies'[1] = url
    BY <2>1, <2>2, <2>3, DownloadIs
  <2> QED
    BY <2>1, <2>2, <2>3, <2>4 DEF IconsInv, Waits, Fetches, IconRight, Icons!CacheIsRight
<1>4. CASE \E r \in DOMAIN replies : Icons!Answers(r) \/ Icons!Redirects(r)
  BY <1>4, FinishedStep
<1>5. CASE \E u \in IconUrl : Icons!Expires(u)
  <2>1. PICK u \in IconUrl : Icons!Expires(u)
    BY <1>5
  <2>2. /\ cache' = [cache EXCEPT ![u] = "old"]
        /\ UNCHANGED <<url, localUrl, filepath, reply, replies, queued>>
    BY <2>1 DEF Icons!Expires
  <2>3. cache' \in [IconUrl -> IconUrl \cup {NoUrl, "empty", "old"}] /\ Icons!CacheIsRight'
    BY <2>2 DEF IconsInv, Icons!CacheIsRight
  <2>4. IconRight'
    BY <2>2 DEF IconsInv, IconRight
  <2> QED
    BY <2>2, <2>3, <2>4 DEF IconsInv, AtRest, Redirected, Waits, Fetches
<1> QED
  BY <1>1, <1>2, <1>3, <1>4, <1>5 DEF Icons!Next
\* m_reply is in flight in every fetcher, whatever the event loop has queued.
LEMMA LiveStep ==
  ASSUME Icons!ReplyIsLive, MCNext
  PROVE  Icons!ReplyIsLive'
<1>1. ASSUME Icons!Next PROVE Icons!ReplyIsLive'
  <2>1. ASSUME NEW f, NEW u, Icons!Download(f, u) PROVE Icons!ReplyIsLive'
    BY <2>1 DEF Icons!Download, Icons!ReplyIsLive
  <2> QED
    BY <1>1, <2>1 DEF Icons!Next, Icons!SetUrl, Icons!SetShouldCache, Icons!RunQueued, Icons!Answers,
                      Icons!Redirects, Icons!Finished, Icons!Expires, Icons!ReplyIsLive
<1>2. ASSUME Hurried!Next PROVE Icons!ReplyIsLive'
  <2>1. ASSUME NEW f, NEW u, Hurried!Download(f, u) PROVE Icons!ReplyIsLive'
    BY <2>1 DEF Hurried!Download, Icons!ReplyIsLive
  <2> QED
    BY <1>2, <2>1 DEF Hurried!Next, Hurried!SetUrl, Hurried!SetShouldCache, Hurried!RunQueued, Hurried!Answers,
                      Hurried!Redirects, Hurried!Finished, Hurried!Expires, Icons!ReplyIsLive
<1>3. ASSUME UNCHANGED iconVars PROVE Icons!ReplyIsLive'
  BY <1>3 DEF iconVars, Icons!ReplyIsLive
<1> QED
  BY <1>1, <1>2, <1>3 DEF MCNext

\* IconsShown (FaviconFetcher): while the URL does not change between a redirection and its
\* download, the icon shown and those of the cache are of their pages, and nothing is in flight
\* but the reply that the fetcher knows.
THEOREM IconsStayRight == MCSpec => []IconsShown
<1> DEFINE FetchersInv == (part = "icons" => IconsInv) /\ Icons!ReplyIsLive
<1>1. MCInit => FetchersInv
  <2> SUFFICES ASSUME MCInit PROVE FetchersInv
    OBVIOUS
  <2>1. /\ url = NoUrl /\ localUrl = Icons!NoIcon /\ reply = 0 /\ replies = <<>> /\ queued = <<>>
        /\ cache = [u \in IconUrl |-> NoUrl]
    BY DEF MCInit, Icons!Init
  <2> QED
    BY <2>1 DEF IconsInv, Icons!CacheIsRight, AtRest, IconRight, Icons!ReplyIsLive
<1>2. FetchersInv /\ [MCNext]_<<part, listVars, iconVars, vars>> => FetchersInv'
  <2> SUFFICES ASSUME FetchersInv, [MCNext]_<<part, listVars, iconVars, vars>> PROVE FetchersInv'
    OBVIOUS
  <2>1. CASE UNCHANGED <<part, iconVars>>
    BY <2>1 DEF iconVars, IconsInv, Icons!CacheIsRight, AtRest, Redirected, Waits, Fetches, IconRight,
                Icons!ReplyIsLive
  <2>2. CASE MCNext
    <3>1. Icons!ReplyIsLive'
      BY <2>2, LiveStep
    <3>2. ASSUME part' = "icons" PROVE IconsInv'
      <4>1. part = "icons" /\ (Icons!Next \/ UNCHANGED iconVars)
        BY <2>2, <3>2 DEF MCNext, Runs
      <4>2. CASE Icons!Next
        BY <4>1, <4>2, IconsStep
      <4>3. CASE UNCHANGED iconVars
        BY <2>1, <3>2, <4>1, <4>3
      <4> QED
        BY <4>1, <4>2, <4>3
    <3> QED
      BY <3>1, <3>2
  <2> QED
    BY <2>1, <2>2
<1>3. FetchersInv => IconsShown
  <2> SUFFICES ASSUME FetchersInv PROVE IconsShown
    OBVIOUS
  <2>1. CASE part = "icons"
    <3>1. IconsInv
      BY <2>1
    <3>2. Icons!OnlyReply
      <4>1. \/ reply = 0 /\ DOMAIN replies = {}
            \/ reply = 1 /\ DOMAIN replies = {1}
        BY <3>1 DEF IconsInv, AtRest, Redirected, Waits
      <4>2. {0} \ {0} = {} /\ {1} \ {0} = {1}
        OBVIOUS
      <4> QED
        BY <4>1, <4>2 DEF Icons!OnlyReply
    <3>3. Icons!IconIsOfUrl
      <4>1. CASE localUrl = Icons!NoIcon
        BY <4>1 DEF Icons!IconIsOfUrl, Icons!NoIcon, Icons!Shown
      <4>2. CASE localUrl = Icons!Shown("direct", url) /\ url = Direct
        BY <4>2 DEF Icons!IconIsOfUrl, Icons!Shown
      <4>3. CASE localUrl = Icons!Shown("data", url)
        BY <4>3 DEF Icons!IconIsOfUrl, Icons!Shown
      <4>4. CASE localUrl = Icons!Shown("cache", url) /\ cache[url] \in {url, "old"}
        BY <4>4 DEF Icons!IconIsOfUrl, Icons!Shown
      <4> QED
        BY <3>1, <4>1, <4>2, <4>3, <4>4 DEF IconsInv, IconRight
    <3> QED
      BY <3>1, <3>2, <3>3 DEF IconsInv, IconsShown
  <2>2. CASE part # "icons"
    BY <2>2 DEF IconsShown
  <2> QED
    BY <2>1, <2>2
<1> HIDE DEF FetchersInv
<1> QED
  BY <1>1, <1>2, <1>3, PTL DEF MCSpec

-----------------------------------------------------------------------------
(* Lists of the history: what they keep, take out and put in *)

\* The list r has all the elements of s at the positions K, in their order.
Selects(r, s, K) ==
  \E f \in [DOMAIN r -> K] : /\ \A i, j \in DOMAIN r : i < j => f[i] < f[j]
                             /\ \A k \in K : \E i \in DOMAIN r : f[i] = k
                             /\ \A i \in DOMAIN r : r[i] = s[f[i]]

\* Keep goes through the positions it is given, in increasing order.
LEMMA KeepElements ==
  ASSUME NEW T, NEW s \in Seq(T), NEW K \in SUBSET (DOMAIN s)
  PROVE  Keep(s, K) \in Seq(T) /\ Selects(Keep(s, K), s, K)
<1>1. /\ Keep(s, K) \in Seq(T) /\ Enumerates(InOrder(K), K)
      /\ DOMAIN Keep(s, K) = 1 .. Cardinality(K)
      /\ \A i \in DOMAIN Keep(s, K) : Keep(s, K)[i] = s[InOrder(K)[i]]
  BY KeepIs
<1>2. PICK n \in Nat : DOMAIN s = 1 .. n
  BY Len(s) \in Nat /\ DOMAIN s = 1 .. Len(s)
<1>3. \A k \in K : \E i \in 1 .. Cardinality(K) : InOrder(K)[i] = k
  BY <1>2, InOrderOnto
<1>4. /\ InOrder(K) \in [DOMAIN Keep(s, K) -> K]
      /\ \A i, j \in DOMAIN Keep(s, K) : i < j => InOrder(K)[i] < InOrder(K)[j]
      /\ \A k \in K : \E i \in DOMAIN Keep(s, K) : InOrder(K)[i] = k
  BY <1>1, <1>3 DEF Enumerates
<1> QED
  BY <1>1, <1>4 DEF Selects

-----------------------------------------------------------------------------
(* The lists of the history: its entries *)

Entry == [url : Pages, day : Nat]
\* The position of the first entry that is in a set, and 0 when there is none.
LEMMA PositionIs ==
  ASSUME NEW n \in Nat, NEW K \in SUBSET (1 .. n)
  PROVE  LET k == IF K # {} THEN DomainLists!Min(K) ELSE 0
         IN /\ k = 0 <=> K = {}
            /\ k # 0 => k \in K /\ \A j \in K : k <= j
<1>1. CASE K = {}
  BY <1>1
<1>2. CASE K # {}
  <2>1. \E k \in K : \A j \in K : k <= j
    BY <1>2, LeastNat
  <2>2. DomainLists!Min(K) = CHOOSE k \in K : \A j \in K : k <= j
    BY DEF DomainLists!Min
  <2>3. PICK m : m = DomainLists!Min(K)
    OBVIOUS
  <2>4. m \in K /\ \A j \in K : m <= j
    BY <2>1, <2>2, <2>3
  <2>5. m # 0
    BY <2>4
  <2> QED
    BY <1>2, <2>3, <2>4, <2>5
<1> QED
  BY <1>1, <1>2

LEMMA IndexIs ==
  ASSUME entries \in Seq(Entry), NEW u
  PROVE  /\ DomainLists!IndexOf(u) = 0 => \A i \in DOMAIN entries : entries[i].url # u
         /\ DomainLists!IndexOf(u) # 0 =>
              DomainLists!IndexOf(u) \in 1 .. Len(entries) /\ entries[DomainLists!IndexOf(u)].url = u
<1> DEFINE K == {i \in 1 .. Len(entries) : entries[i].url = u}
<1>1. DomainLists!IndexOf(u) = IF K # {} THEN DomainLists!Min(K) ELSE 0
  BY DEF DomainLists!IndexOf, DomainLists!SelectInSeq
<1>2. Len(entries) \in Nat /\ DOMAIN entries = 1 .. Len(entries)
  OBVIOUS
<1>3. K \in SUBSET (1 .. Len(entries))
  OBVIOUS
<1>4. /\ DomainLists!IndexOf(u) = 0 <=> K = {}
      /\ DomainLists!IndexOf(u) # 0 => DomainLists!IndexOf(u) \in K
  <2> HIDE DEF K
  <2> QED
    BY <1>1, <1>2, <1>3, PositionIs
<1> QED
  BY <1>2, <1>4

LEMMA PutOnTop ==
  ASSUME NEW T, NEW s \in Seq(T), NEW x \in T
  PROVE  /\ <<x>> \o s \in Seq(T) /\ Len(<<x>> \o s) = Len(s) + 1 /\ DOMAIN (<<x>> \o s) = 1 .. Len(s) + 1
         /\ (<<x>> \o s)[1] = x /\ \A i \in 1 .. Len(s) : (<<x>> \o s)[i + 1] = s[i]
<1>1. Len(s) \in Nat /\ Len(<<x>>) = 1 /\ <<x>> \in Seq(T)
  OBVIOUS
<1>2. <<x>> \o s \in Seq(T) /\ Len(<<x>> \o s) = Len(s) + 1
  BY <1>1
<1>3. \A i \in 1 .. Len(s) + 1 : (<<x>> \o s)[i] = IF i = 1 THEN x ELSE s[i - 1]
  BY <1>1
<1> QED
  BY <1>1, <1>2, <1>3

LEMMA TakenOut ==
  ASSUME NEW T, NEW s \in Seq(T), NEW k \in 1 .. Len(s)
  PROVE  LET t == DomainLists!RemoveAt(s, k)
         IN /\ t \in Seq(T) /\ Len(t) = Len(s) - 1 /\ DOMAIN t = 1 .. Len(s) - 1
            /\ \A i \in 1 .. Len(s) - 1 : t[i] = IF i < k THEN s[i] ELSE s[i + 1]
<1>1. Len(s) \in Nat /\ k \in Nat /\ k >= 1 /\ k <= Len(s)
  OBVIOUS
<1> DEFINE a == SubSeq(s, 1, k - 1)
           b == SubSeq(s, k + 1, Len(s))
<1>2. a \in Seq(T) /\ Len(a) = k - 1 /\ \A i \in 1 .. k - 1 : a[i] = s[i]
  BY <1>1
<1>3. b \in Seq(T) /\ Len(b) = Len(s) - k /\ \A i \in 1 .. Len(s) - k : b[i] = s[i + k]
  BY <1>1
<1> HIDE DEF a, b
<1>4. a \o b \in Seq(T) /\ Len(a \o b) = Len(s) - 1 /\ DOMAIN (a \o b) = 1 .. Len(s) - 1
  <2>1. a \o b \in Seq(T)
    BY <1>2, <1>3
  <2>2. Len(a \o b) = Len(a) + Len(b)
    <3>1. a \in Seq(T) /\ b \in Seq(T)
      BY <1>2, <1>3
    <3> QED
      BY <3>1
  <2>3. Len(a) + Len(b) = Len(s) - 1
    BY <1>1, <1>2, <1>3
  <2> QED
    BY <2>1, <2>2, <2>3
<1>5. \A i \in 1 .. Len(s) - 1 : (a \o b)[i] = IF i <= k - 1 THEN a[i] ELSE b[i - (k - 1)]
  BY <1>1, <1>2, <1>3
<1>6. ASSUME NEW i \in 1 .. Len(s) - 1 PROVE (a \o b)[i] = IF i < k THEN s[i] ELSE s[i + 1]
  <2>1. CASE i < k
    BY <1>1, <1>2, <1>5, <2>1
  <2>2. CASE ~(i < k)
    <3>1. i - (k - 1) \in 1 .. Len(s) - k /\ (i - (k - 1)) + k = i + 1
      BY <1>1, <2>2
    <3>2. ~(i <= k - 1)
      BY <1>1, <2>2
    <3>3. (a \o b)[i] = b[i - (k - 1)]
      BY <1>5, <3>2
    <3>4. b[i - (k - 1)] = s[(i - (k - 1)) + k]
      BY <1>3, <3>1
    <3> QED
      BY <2>2, <3>1, <3>3, <3>4
  <2> QED
    BY <2>1, <2>2
<1> QED
  BY <1>4, <1>6 DEF DomainLists!RemoveAt, a, b
-----------------------------------------------------------------------------
(* The domains of a list of entries, and the first entry of each *)

DomainsIn(es) == {PageDomain[es[i].url] : i \in DOMAIN es}

\* The entry that First returns is the one no other of the domain comes before.
LEMMA FirstIs ==
  ASSUME NEW es \in Seq(Entry), NEW d, NEW k \in DOMAIN es,
         PageDomain[es[k].url] = d, \A j \in DOMAIN es : j < k => PageDomain[es[j].url] # d
  PROVE  DomainLists!First(d, es) = es[k]
<1> DEFINE K == {i \in 1 .. Len(es) : PageDomain[es[i].url] = d}
<1>1. Len(es) \in Nat /\ DOMAIN es = 1 .. Len(es) /\ k \in 1 .. Len(es)
  OBVIOUS
<1>2. DomainLists!First(d, es) = es[IF K # {} THEN DomainLists!Min(K) ELSE 0]
  BY DEF DomainLists!First, DomainLists!SelectInSeq
<1>3. K \in SUBSET (1 .. Len(es)) /\ k \in K /\ \A j \in K : k <= j
  BY <1>1
<1> HIDE DEF K
<1>4. PICK m : m = IF K # {} THEN DomainLists!Min(K) ELSE 0
  OBVIOUS
<1>5. m \in K /\ \A j \in K : m <= j
  BY <1>1, <1>3, <1>4, PositionIs
<1>6. m = k
  BY <1>3, <1>5
<1> QED
  BY <1>2, <1>4, <1>6

\* Every domain has a first entry.
LEMMA FirstExists ==
  ASSUME NEW es \in Seq(Entry), NEW d \in DomainsIn(es)
  PROVE  \E k \in DOMAIN es : PageDomain[es[k].url] = d /\ \A j \in DOMAIN es : j < k => PageDomain[es[j].url] # d
<1> DEFINE K == {i \in DOMAIN es : PageDomain[es[i].url] = d}
<1>1. DOMAIN es = 1 .. Len(es) /\ Len(es) \in Nat
  OBVIOUS
<1>2. K \in SUBSET Nat /\ K # {}
  BY <1>1 DEF DomainsIn
<1>3. \E k \in K : \A j \in K : k <= j
  <2> HIDE DEF K
  <2> QED
    BY <1>2, LeastNat
<1>4. PICK k \in K : \A j \in K : k <= j
  BY <1>3
<1>5. ASSUME NEW j \in DOMAIN es, j < k PROVE PageDomain[es[j].url] # d
  <2>1. ~(k <= j)
    BY <1>1, <1>5
  <2> QED
    BY <1>4, <2>1
<1> QED
  BY <1>4, <1>5

\* A new entry on top changes the first entry of its own domain only.
LEMMA FirstBelowTop ==
  ASSUME NEW es \in Seq(Entry), NEW e \in Entry, NEW d \in DomainsIn(es), d # PageDomain[e.url]
  PROVE  DomainLists!First(d, <<e>> \o es) = DomainLists!First(d, es)
<1>1. PICK k \in DOMAIN es : PageDomain[es[k].url] = d /\ \A j \in DOMAIN es : j < k => PageDomain[es[j].url] # d
  BY FirstExists
<1>2. DomainLists!First(d, es) = es[k]
  BY <1>1, FirstIs
<1>3. PICK fs : fs = <<e>> \o es
  OBVIOUS
<1>4. /\ fs \in Seq(Entry) /\ DOMAIN fs = 1 .. Len(es) + 1 /\ fs[1] = e
      /\ \A i \in 1 .. Len(es) : fs[i + 1] = es[i]
  BY <1>3, PutOnTop
<1>5. Len(es) \in Nat /\ DOMAIN es = 1 .. Len(es) /\ k \in Nat
  OBVIOUS
<1>6. k + 1 \in DOMAIN fs /\ fs[k + 1] = es[k]
  BY <1>4, <1>5
<1>7. ASSUME NEW j \in DOMAIN fs, j < k + 1 PROVE PageDomain[fs[j].url] # d
  <2>1. CASE j = 1
    BY <1>4, <2>1
  <2>2. CASE j # 1
    <3>1. j - 1 \in DOMAIN es /\ j - 1 < k /\ (j - 1) + 1 = j
      BY <1>4, <1>5, <1>7, <2>2
    <3>2. fs[j] = es[j - 1]
      BY <1>4, <1>5, <3>1
    <3> QED
      BY <1>1, <3>1, <3>2
  <2> QED
    BY <2>1, <2>2
<1>8. DomainLists!First(d, fs) = fs[k + 1]
  <2>1. PageDomain[fs[k + 1].url] = d
    BY <1>1, <1>6
  <2>2. fs \in Seq(Entry)
    BY <1>4
  <2>3. \A j \in DOMAIN fs : j < k + 1 => PageDomain[fs[j].url] # d
    BY <1>7
  <2>4. PICK m \in DOMAIN fs : m = k + 1
    BY <1>6
  <2>5. DomainLists!First(d, fs) = fs[m]
    BY <2>1, <2>2, <2>3, <2>4, FirstIs
  <2> QED
    BY <2>4, <2>5
<1> QED
  BY <1>2, <1>3, <1>6, <1>8

LEMMA DomainsBelowTop ==
  ASSUME NEW es \in Seq(Entry), NEW e \in Entry
  PROVE  DomainsIn(<<e>> \o es) = DomainsIn(es) \cup {PageDomain[e.url]}
<1>1. PICK fs : fs = <<e>> \o es
  OBVIOUS
<1>2. /\ DOMAIN fs = 1 .. Len(es) + 1 /\ fs[1] = e
      /\ \A i \in 1 .. Len(es) : fs[i + 1] = es[i]
  BY <1>1, PutOnTop
<1>3. Len(es) \in Nat /\ DOMAIN es = 1 .. Len(es)
  OBVIOUS
<1>4. ASSUME NEW d \in DomainsIn(fs) PROVE d \in DomainsIn(es) \cup {PageDomain[e.url]}
  <2>1. PICK i \in DOMAIN fs : d = PageDomain[fs[i].url]
    BY DEF DomainsIn
  <2>2. CASE i = 1
    BY <1>2, <2>1, <2>2
  <2>3. CASE i # 1
    <3>1. i - 1 \in 1 .. Len(es) /\ (i - 1) + 1 = i
      BY <1>2, <1>3, <2>3
    <3>2. fs[i] = es[i - 1]
      BY <1>2, <3>1
    <3> QED
      BY <1>3, <2>1, <3>1, <3>2 DEF DomainsIn
  <2> QED
    BY <2>2, <2>3
<1>5. PageDomain[e.url] \in DomainsIn(fs)
  <2>1. 1 \in DOMAIN fs
    BY <1>2, <1>3
  <2> QED
    BY <1>2, <2>1 DEF DomainsIn
<1>6. ASSUME NEW d \in DomainsIn(es) PROVE d \in DomainsIn(fs)
  <2>1. PICK i \in DOMAIN es : d = PageDomain[es[i].url]
    BY DEF DomainsIn
  <2>2. i + 1 \in DOMAIN fs /\ fs[i + 1] = es[i]
    BY <1>2, <1>3
  <2> QED
    BY <2>1, <2>2 DEF DomainsIn
<1> QED
  BY <1>1, <1>4, <1>5, <1>6

\* The removal of an entry changes the first entry of its own domain only.
LEMMA FirstAfterRemoval ==
  ASSUME NEW es \in Seq(Entry), NEW k \in 1 .. Len(es), NEW d \in DomainsIn(es), d # PageDomain[es[k].url]
  PROVE  DomainLists!First(d, DomainLists!RemoveAt(es, k)) = DomainLists!First(d, es)
<1>1. PICK m \in DOMAIN es : PageDomain[es[m].url] = d /\ \A j \in DOMAIN es : j < m => PageDomain[es[j].url] # d
  BY FirstExists
<1>2. DomainLists!First(d, es) = es[m]
  BY <1>1, FirstIs
<1>3. PICK fs : fs = DomainLists!RemoveAt(es, k)
  OBVIOUS
<1>4. /\ fs \in Seq(Entry) /\ DOMAIN fs = 1 .. Len(es) - 1
      /\ \A i \in 1 .. Len(es) - 1 : fs[i] = IF i < k THEN es[i] ELSE es[i + 1]
  BY <1>3, TakenOut
<1>5. Len(es) \in Nat /\ DOMAIN es = 1 .. Len(es) /\ m \in Nat /\ k \in Nat /\ m # k
  BY <1>1
<1>6. PICK n : n = IF m < k THEN m ELSE m - 1
  OBVIOUS
<1>7. n \in DOMAIN fs /\ fs[n] = es[m]
  <2>1. CASE m < k
    <3>1. n = m /\ n \in 1 .. Len(es) - 1
      BY <1>5, <1>6, <2>1
    <3> QED
      BY <1>4, <2>1, <3>1
  <2>2. CASE ~(m < k)
    <3>1. n = m - 1 /\ n \in 1 .. Len(es) - 1 /\ ~(n < k) /\ n + 1 = m
      BY <1>5, <1>6, <2>2
    <3> QED
      BY <1>4, <3>1
  <2> QED
    BY <2>1, <2>2
<1>8. ASSUME NEW j \in DOMAIN fs, j < n PROVE PageDomain[fs[j].url] # d
  <2>1. CASE j < k
    <3>1. j \in DOMAIN es /\ j < m
      BY <1>4, <1>5, <1>6, <1>8, <2>1
    <3>2. fs[j] = es[j]
      BY <1>4, <2>1
    <3> QED
      BY <1>1, <3>1, <3>2
  <2>2. CASE ~(j < k)
    <3>1. j + 1 \in DOMAIN es /\ j + 1 < m
      BY <1>4, <1>5, <1>6, <1>8, <2>2
    <3>2. fs[j] = es[j + 1]
      BY <1>4, <2>2
    <3> QED
      BY <1>1, <3>1, <3>2
  <2> QED
    BY <2>1, <2>2
<1>9. DomainLists!First(d, fs) = fs[n]
  <2>1. PageDomain[fs[n].url] = d
    BY <1>1, <1>7
  <2>2. fs \in Seq(Entry) /\ n \in DOMAIN fs
    BY <1>4, <1>7
  <2>3. \A j \in DOMAIN fs : j < n => PageDomain[fs[j].url] # d
    BY <1>8
  <2> QED
    BY <2>1, <2>2, <2>3, FirstIs
<1> QED
  BY <1>2, <1>3, <1>7, <1>9

LEMMA DomainsAfterRemoval ==
  ASSUME NEW es \in Seq(Entry), NEW k \in 1 .. Len(es)
  PROVE  DomainsIn(es) = DomainsIn(DomainLists!RemoveAt(es, k)) \cup {PageDomain[es[k].url]}
<1>1. PICK fs : fs = DomainLists!RemoveAt(es, k)
  OBVIOUS
<1>2. /\ DOMAIN fs = 1 .. Len(es) - 1
      /\ \A i \in 1 .. Len(es) - 1 : fs[i] = IF i < k THEN es[i] ELSE es[i + 1]
  BY <1>1, TakenOut
<1>3. Len(es) \in Nat /\ DOMAIN es = 1 .. Len(es) /\ k \in Nat
  OBVIOUS
<1>4. ASSUME NEW d \in DomainsIn(es) PROVE d \in DomainsIn(fs) \cup {PageDomain[es[k].url]}
  <2>1. PICK i \in DOMAIN es : d = PageDomain[es[i].url]
    BY DEF DomainsIn
  <2>2. CASE i = k
    BY <2>1, <2>2
  <2>3. CASE i < k
    <3>1. i \in DOMAIN fs /\ fs[i] = es[i]
      BY <1>2, <1>3, <2>3
    <3> QED
      BY <2>1, <3>1 DEF DomainsIn
  <2>4. CASE i > k
    <3>1. i - 1 \in 1 .. Len(es) - 1 /\ ~(i - 1 < k) /\ (i - 1) + 1 = i
      BY <1>3, <2>4
    <3>2. i - 1 \in DOMAIN fs /\ fs[i - 1] = es[i]
      BY <1>2, <3>1
    <3> QED
      BY <2>1, <3>2 DEF DomainsIn
  <2> QED
    BY <1>3, <2>2, <2>3, <2>4
<1>5. ASSUME NEW d \in DomainsIn(fs) PROVE d \in DomainsIn(es)
  <2>1. PICK i \in DOMAIN fs : d = PageDomain[fs[i].url]
    BY DEF DomainsIn
  <2>2. i \in DOMAIN es /\ i + 1 \in DOMAIN es /\ (fs[i] = es[i] \/ fs[i] = es[i + 1])
    BY <1>2, <1>3
  <2> QED
    BY <2>1, <2>2 DEF DomainsIn
<1>6. PageDomain[es[k].url] \in DomainsIn(es)
  BY <1>3 DEF DomainsIn
<1> QED
  BY <1>1, <1>4, <1>5, <1>6
\* Keep, as the lists of the history use it.
LEMMA SameKeep ==
  ASSUME NEW s, NEW K
  PROVE  DomainLists!Keep(s, K) = Keep(s, K)
<1>1. DomainLists!Cardinality(K) = Cardinality(K) /\ DomainLists!InOrder(K) = InOrder(K)
  BY Zenon DEF DomainLists!InOrder, InOrder, DomainLists!Cardinality, Cardinality
<1>2. PICK h : h = InOrder(K)
  OBVIOUS
<1> QED
  BY <1>1, <1>2 DEF DomainLists!Keep, Keep

\* The domains of the pages, in a list.
LEMMA DomainOfEntry ==
  ASSUME NEW es \in Seq(Entry)
  PROVE  \A i \in DOMAIN es : PageDomain[es[i].url] \in Nat
<1>1. \A i \in DOMAIN es : es[i] \in Entry
  OBVIOUS
<1>2. PageDomain \in [Pages -> Nat]
  BY DomainAssumption
<1> QED
  BY <1>1, <1>2 DEF Entry

\* populateModel: every domain of an entry, once.
LEMMA DomainsOfIs ==
  ASSUME NEW es \in Seq(Entry)
  PROVE  LET ds == DomainLists!DomainsOf(es)
         IN /\ ds \in Seq(Nat) /\ DomainLists!Range(ds) = DomainsIn(es)
            /\ \A i, j \in DOMAIN ds : ds[i] = ds[j] => i = j
<1> DEFINE xs == [i \in DOMAIN es |-> PageDomain[es[i].url]]
           K == {i \in DOMAIN xs : \A j \in 1 .. i - 1 : xs[j] # xs[i]}
<1>1. DOMAIN es = 1 .. Len(es) /\ Len(es) \in Nat
  OBVIOUS
<1>2. xs \in Seq(Nat) /\ DOMAIN xs = 1 .. Len(es) /\ \A i \in DOMAIN xs : xs[i] = PageDomain[es[i].url]
  <2>1. xs \in [1 .. Len(es) -> Nat]
    BY <1>1, DomainOfEntry
  <2> QED
    BY <1>1, <2>1
<1>3. DomainLists!DomainsOf(es) = Keep(xs, K)
  BY SameKeep DEF DomainLists!DomainsOf
<1>4. K \in SUBSET (DOMAIN xs) /\ \A k \in K : \A j \in 1 .. k - 1 : xs[j] # xs[k]
  OBVIOUS
<1>5. \A i \in DOMAIN xs : \E k \in K : xs[k] = xs[i]
  <2> TAKE i \in DOMAIN xs
  <2>1. xs[i] \in DomainsIn(es)
    BY <1>1, <1>2 DEF DomainsIn
  <2>2. PICK k \in DOMAIN es : /\ PageDomain[es[k].url] = xs[i]
                               /\ \A j \in DOMAIN es : j < k => PageDomain[es[j].url] # xs[i]
    BY <2>1, FirstExists
  <2>3. k \in DOMAIN xs /\ xs[k] = xs[i]
    BY <1>1, <1>2, <2>2
  <2>4. \A j \in 1 .. k - 1 : xs[j] # xs[k]
    <3> TAKE j \in 1 .. k - 1
    <3>1. j \in DOMAIN es /\ j < k /\ j \in DOMAIN xs
      BY <1>1, <1>2
    <3> QED
      BY <1>2, <2>2, <2>3, <3>1
  <2> QED
    BY <2>3, <2>4
<1> HIDE DEF xs, K
<1>6. PICK ds : ds = Keep(xs, K)
  OBVIOUS
<1>7. ds \in Seq(Nat) /\ Selects(ds, xs, K)
  BY <1>2, <1>4, <1>6, KeepElements, Zenon
<1>8. PICK f \in [DOMAIN ds -> K] :
           /\ \A i, j \in DOMAIN ds : i < j => f[i] < f[j]
           /\ \A k \in K : \E i \in DOMAIN ds : f[i] = k
           /\ \A i \in DOMAIN ds : ds[i] = xs[f[i]]
  BY <1>7 DEF Selects
<1>9. ASSUME NEW i \in DOMAIN ds, NEW j \in DOMAIN ds, i < j PROVE ds[i] # ds[j]
  <2>1. f[i] \in K /\ f[j] \in K /\ f[i] < f[j]
    BY <1>8, <1>9
  <2>2. f[i] \in 1 .. f[j] - 1
    BY <1>1, <1>2, <1>4, <2>1
  <2> QED
    BY <1>4, <1>8, <2>1, <2>2
<1>10. \A i, j \in DOMAIN ds : ds[i] = ds[j] => i = j
  <2>1. DOMAIN ds \in SUBSET Nat
    BY <1>7
  <2> QED
    BY <1>9, <2>1
<1>11. DomainLists!Range(ds) = DomainsIn(es)
  <2>1. ASSUME NEW d \in DomainsIn(es) PROVE \E i \in DOMAIN ds : ds[i] = d
    <3>1. PICK i \in DOMAIN xs : xs[i] = d
      BY <1>1, <1>2 DEF DomainsIn
    <3>2. PICK k \in K : xs[k] = xs[i]
      BY <1>5
    <3>3. PICK j \in DOMAIN ds : f[j] = k
      BY <1>8
    <3> QED
      BY <1>8, <3>1, <3>2, <3>3
  <2>2. ASSUME NEW i \in DOMAIN ds PROVE ds[i] \in DomainsIn(es)
    <3>1. f[i] \in DOMAIN xs /\ ds[i] = xs[f[i]]
      BY <1>4, <1>8
    <3> QED
      BY <1>1, <1>2, <3>1 DEF DomainsIn
  <2> QED
    BY <2>1, <2>2 DEF DomainLists!Range
<1> QED
  BY <1>3, <1>6, <1>7, <1>10, <1>11

-----------------------------------------------------------------------------
(* What is listed *)

\* The domains of the entries, each once, with the entry of each visited last.
Listed(es, ds, lv) ==
  /\ ds \in Seq(Nat) /\ DomainLists!Range(ds) = DomainsIn(es)
  /\ \A i, j \in DOMAIN ds : ds[i] = ds[j] => i = j
  /\ \A d \in DomainLists!Range(ds) : lv[d] = DomainLists!First(d, es)

\* What the models of the domains say after some of them have changed.
Said(ds, lv, es, changed) ==
  [d \in DomainLists!Range(ds) |-> IF d \in changed THEN DomainLists!First(d, es) ELSE lv[d]]

\* A list of other domains is appended to, and has a domain removed, without listing one twice.
LEMMA DomainAppended ==
  ASSUME NEW ds \in Seq(Nat), NEW d \in Nat, d \notin DomainLists!Range(ds),
         \A i, j \in DOMAIN ds : ds[i] = ds[j] => i = j
  PROVE  LET gs == Append(ds, d)
         IN /\ gs \in Seq(Nat) /\ DomainLists!Range(gs) = DomainLists!Range(ds) \cup {d}
            /\ \A i, j \in DOMAIN gs : gs[i] = gs[j] => i = j
<1>1. PICK gs : gs = Append(ds, d)
  OBVIOUS
<1>2. Len(ds) \in Nat /\ DOMAIN ds = 1 .. Len(ds)
  OBVIOUS
<1>3. /\ gs \in Seq(Nat) /\ DOMAIN gs = 1 .. Len(ds) + 1 /\ gs[Len(ds) + 1] = d
      /\ \A i \in 1 .. Len(ds) : gs[i] = ds[i]
  BY <1>1
<1>4. \A i \in DOMAIN ds : ds[i] # d
  BY DEF DomainLists!Range
<1>5. \A i \in DOMAIN gs : i \in DOMAIN ds \/ i = Len(ds) + 1
  BY <1>2, <1>3
<1>6. DOMAIN ds \subseteq DOMAIN gs /\ Len(ds) + 1 \in DOMAIN gs
  BY <1>2, <1>3
<1>7. \A i, j \in DOMAIN gs : gs[i] = gs[j] => i = j
  <2> TAKE i, j \in DOMAIN gs
  <2> HAVE gs[i] = gs[j]
  <2>1. CASE i \in DOMAIN ds /\ j \in DOMAIN ds
    BY <1>2, <1>3, <2>1
  <2>2. CASE i = Len(ds) + 1
    BY <1>2, <1>3, <1>4, <1>5, <2>2
  <2>3. CASE j = Len(ds) + 1
    BY <1>2, <1>3, <1>4, <1>5, <2>3
  <2> QED
    BY <1>5, <2>1, <2>2, <2>3
<1>8. DomainLists!Range(gs) = DomainLists!Range(ds) \cup {d}
  <2>1. \A i \in DOMAIN gs : gs[i] \in DomainLists!Range(ds) \cup {d}
    BY <1>2, <1>3, <1>5 DEF DomainLists!Range
  <2>2. \A i \in DOMAIN ds : ds[i] \in DomainLists!Range(gs)
    BY <1>2, <1>3, <1>6 DEF DomainLists!Range
  <2>3. d \in DomainLists!Range(gs)
    BY <1>3, <1>6 DEF DomainLists!Range
  <2>4. DomainLists!Range(gs) = {gs[i] : i \in DOMAIN gs} /\ DomainLists!Range(ds) = {ds[i] : i \in DOMAIN ds}
    BY DEF DomainLists!Range
  <2> QED
    BY <2>1, <2>2, <2>3, <2>4
<1> QED
  BY <1>1, <1>3, <1>7, <1>8

LEMMA DomainTakenOut ==
  ASSUME NEW ds \in Seq(Nat), NEW k \in 1 .. Len(ds),
         \A i, j \in DOMAIN ds : ds[i] = ds[j] => i = j
  PROVE  LET gs == DomainLists!RemoveAt(ds, k)
         IN /\ gs \in Seq(Nat) /\ DomainLists!Range(gs) = DomainLists!Range(ds) \ {ds[k]}
            /\ \A i, j \in DOMAIN gs : gs[i] = gs[j] => i = j
<1>1. PICK gs : gs = DomainLists!RemoveAt(ds, k)
  OBVIOUS
<1>2. Len(ds) \in Nat /\ DOMAIN ds = 1 .. Len(ds) /\ k \in Nat
  OBVIOUS
<1>3. /\ gs \in Seq(Nat) /\ DOMAIN gs = 1 .. Len(ds) - 1
      /\ \A i \in 1 .. Len(ds) - 1 : gs[i] = IF i < k THEN ds[i] ELSE ds[i + 1]
  BY <1>1, TakenOut
<1> DEFINE at(i) == IF i < k THEN i ELSE i + 1
<1>4. ASSUME NEW i \in DOMAIN gs PROVE at(i) \in DOMAIN ds /\ at(i) # k /\ gs[i] = ds[at(i)]
  <2>0. i \in 1 .. Len(ds) - 1
    BY <1>3
  <2>1. CASE i < k
    <3>1. at(i) = i /\ i \in DOMAIN ds /\ i # k
      BY <1>2, <2>0, <2>1
    <3>2. gs[i] = ds[i]
      BY <1>3, <2>0, <2>1
    <3> QED
      BY <3>1, <3>2
  <2>2. CASE ~(i < k)
    <3>1. at(i) = i + 1 /\ i + 1 \in DOMAIN ds /\ i + 1 # k
      BY <1>2, <2>0, <2>2
    <3>2. gs[i] = ds[i + 1]
      BY <1>3, <2>0, <2>2
    <3> QED
      BY <3>1, <3>2
  <2> QED
    BY <2>1, <2>2
<1>5. ASSUME NEW i \in DOMAIN gs, NEW j \in DOMAIN gs, i < j PROVE at(i) < at(j)
  <2>1. i \in Nat /\ j \in Nat
    BY <1>3
  <2> QED
    BY <1>2, <1>5, <2>1
<1>6. \A m \in DOMAIN ds : m # k => \E i \in DOMAIN gs : at(i) = m
  <2> TAKE m \in DOMAIN ds
  <2> HAVE m # k
  <2>1. CASE m < k
    <3>1. m \in DOMAIN gs /\ at(m) = m
      BY <1>2, <1>3, <2>1
    <3> QED
      BY <3>1
  <2>2. CASE ~(m < k)
    <3>1. m - 1 \in 1 .. Len(ds) - 1 /\ ~(m - 1 < k) /\ (m - 1) + 1 = m
      BY <1>2, <2>2
    <3>2. m - 1 \in DOMAIN gs /\ at(m - 1) = m
      BY <1>3, <3>1
    <3> QED
      BY <3>2
  <2> QED
    BY <2>1, <2>2
<1> HIDE DEF at
<1>7. ASSUME NEW i \in DOMAIN gs, NEW j \in DOMAIN gs, gs[i] = gs[j] PROVE i = j
  <2>1. at(i) = at(j) /\ at(i) \in Nat
    BY <1>2, <1>4, <1>7
  <2>2. ~(at(i) < at(j)) /\ ~(at(j) < at(i))
    BY <2>1
  <2>3. i \in Nat /\ j \in Nat /\ ~(i < j) /\ ~(j < i)
    BY <1>3, <1>5, <2>2
  <2> QED
    BY <2>3
<1>8. DomainLists!Range(gs) = {gs[i] : i \in DOMAIN gs} /\ DomainLists!Range(ds) = {ds[i] : i \in DOMAIN ds}
  BY DEF DomainLists!Range
<1>9. \A i \in DOMAIN gs : gs[i] \in DomainLists!Range(ds) /\ gs[i] # ds[k]
  BY <1>2, <1>4, <1>8
<1>10. \A m \in DOMAIN ds : ds[m] # ds[k] => ds[m] \in DomainLists!Range(gs)
  <2> TAKE m \in DOMAIN ds
  <2> HAVE ds[m] # ds[k]
  <2>1. PICK i \in DOMAIN gs : at(i) = m
    BY <1>6
  <2> QED
    BY <1>4, <1>8, <2>1
<1>11. DomainLists!Range(gs) = DomainLists!Range(ds) \ {ds[k]}
  BY <1>8, <1>9, <1>10
<1> QED
  BY <1>1, <1>3, <1>7, <1>11
\* indexOf: where a domain is listed.
PositionOf(ds, d) == DomainLists!SelectInSeq(ds, LAMBDA x : x = d)

\* onRowsInserted and onRowsRemoved of the list of domains, and lastVisitChanged.
LEMMA NewIsListed ==
  ASSUME NEW es \in Seq(Entry), NEW e \in Entry, NEW ds, NEW lv, Listed(es, ds, lv), NEW gs,
         gs = IF PageDomain[e.url] \in DomainLists!Range(ds) THEN ds ELSE Append(ds, PageDomain[e.url])
  PROVE  Listed(<<e>> \o es, gs, Said(gs, lv, <<e>> \o es, {PageDomain[e.url]}))
<1>1. PICK fs, d : fs = <<e>> \o es /\ d = PageDomain[e.url]
  OBVIOUS
<1>2. /\ ds \in Seq(Nat) /\ DomainLists!Range(ds) = DomainsIn(es)
      /\ \A i, j \in DOMAIN ds : ds[i] = ds[j] => i = j
      /\ \A c \in DomainLists!Range(ds) : lv[c] = DomainLists!First(c, es)
  BY DEF Listed
<1>3. d \in Nat
  BY <1>1, DomainAssumption DEF Entry
<1>4. /\ gs \in Seq(Nat) /\ DomainLists!Range(gs) = DomainLists!Range(ds) \cup {d}
      /\ \A i, j \in DOMAIN gs : gs[i] = gs[j] => i = j
  <2>1. CASE d \in DomainLists!Range(ds)
    <3>1. gs = ds /\ DomainLists!Range(ds) = DomainLists!Range(ds) \cup {d}
      BY <1>1, <2>1
    <3> QED
      BY <1>2, <3>1
  <2>2. CASE d \notin DomainLists!Range(ds)
    <3>1. gs = Append(ds, d)
      BY <1>1, <2>2
    <3> QED
      BY <1>2, <1>3, <2>2, <3>1, DomainAppended
  <2> QED
    BY <2>1, <2>2
<1>5. DomainsIn(fs) = DomainsIn(es) \cup {d}
  BY <1>1, DomainsBelowTop
<1>6. ASSUME NEW c \in DomainLists!Range(gs), c # d PROVE lv[c] = DomainLists!First(c, fs)
  <2>1. c \in DomainsIn(es) /\ c \in DomainLists!Range(ds)
    BY <1>2, <1>4, <1>6
  <2>2. DomainLists!First(c, fs) = DomainLists!First(c, es)
    BY <1>1, <1>6, <2>1, FirstBelowTop
  <2> QED
    BY <1>2, <2>1, <2>2
<1>7. \A c \in DomainLists!Range(gs) : Said(gs, lv, fs, {d})[c] = DomainLists!First(c, fs)
  BY <1>6 DEF Said
<1>8. DomainLists!Range(gs) = DomainsIn(fs)
  BY <1>2, <1>4, <1>5
<1> QED
  BY <1>1, <1>4, <1>7, <1>8 DEF Listed

LEMMA MovedIsListed ==
  ASSUME NEW es \in Seq(Entry), NEW e \in Entry, NEW k \in 1 .. Len(es), es[k].url = e.url,
         NEW ds, NEW lv, Listed(es, ds, lv), NEW fs, fs = <<e>> \o DomainLists!RemoveAt(es, k)
  PROVE  Listed(fs, ds, Said(ds, lv, fs, DomainLists!Range(ds)))
<1>1. DomainLists!RemoveAt(es, k) \in Seq(Entry)
  BY TakenOut
<1>2. DomainsIn(fs) = DomainsIn(DomainLists!RemoveAt(es, k)) \cup {PageDomain[e.url]}
  BY <1>1, DomainsBelowTop
<1>3. DomainsIn(fs) = DomainsIn(es)
  <2>1. DomainsIn(es) = DomainsIn(DomainLists!RemoveAt(es, k)) \cup {PageDomain[es[k].url]}
    BY DomainsAfterRemoval
  <2> QED
    BY <1>2, <2>1
<1> QED
  BY <1>3 DEF Listed, Said

LEMMA RemovedIsNotListed ==
  ASSUME NEW es \in Seq(Entry), NEW k \in 1 .. Len(es), NEW ds, NEW lv, Listed(es, ds, lv),
         NEW fs, fs = DomainLists!RemoveAt(es, k), NEW d, d = PageDomain[es[k].url],
         NEW gs, gs = IF DomainLists!Has(fs, d) THEN ds
                      ELSE DomainLists!RemoveAt(ds, PositionOf(ds, d))
  PROVE  Listed(fs, gs, Said(gs, lv, fs, {d} \cap DomainLists!Range(gs)))
<1>1. /\ ds \in Seq(Nat) /\ DomainLists!Range(ds) = DomainsIn(es)
      /\ \A i, j \in DOMAIN ds : ds[i] = ds[j] => i = j
      /\ \A c \in DomainLists!Range(ds) : lv[c] = DomainLists!First(c, es)
  BY DEF Listed
<1>2. fs \in Seq(Entry) /\ DomainsIn(es) = DomainsIn(fs) \cup {d}
  BY TakenOut, DomainsAfterRemoval
<1>3. DomainLists!Has(fs, d) <=> d \in DomainsIn(fs)
  BY DEF DomainLists!Has, DomainLists!Range, DomainsIn
<1>4. /\ gs \in Seq(Nat) /\ DomainLists!Range(gs) = DomainsIn(fs)
      /\ \A i, j \in DOMAIN gs : gs[i] = gs[j] => i = j
  <2>1. CASE d \in DomainsIn(fs)
    <3>1. gs = ds /\ DomainsIn(es) = DomainsIn(fs)
      BY <1>2, <1>3, <2>1
    <3> QED
      BY <1>1, <3>1
  <2>2. CASE d \notin DomainsIn(fs)
    <3> DEFINE K == {i \in 1 .. Len(ds) : ds[i] = d}
    <3>1. Len(ds) \in Nat /\ DOMAIN ds = 1 .. Len(ds) /\ K \in SUBSET (1 .. Len(ds))
      BY <1>1
    <3>2. PositionOf(ds, d) = IF K # {} THEN DomainLists!Min(K) ELSE 0
      BY DEF PositionOf, DomainLists!SelectInSeq
    <3>3. K # {}
      <4>1. d \in DomainLists!Range(ds)
        BY <1>1, <1>2
      <4> QED
        BY <3>1, <4>1 DEF DomainLists!Range
    <3> HIDE DEF K
    <3>4. PICK m : m = PositionOf(ds, d)
      OBVIOUS
    <3>5. m = IF K # {} THEN DomainLists!Min(K) ELSE 0
      BY <3>2, <3>4
    <3>6. m \in K
      BY <3>1, <3>3, <3>5, PositionIs
    <3>7. m \in 1 .. Len(ds) /\ ds[m] = d
      BY <3>6 DEF K
    <3>8. gs = DomainLists!RemoveAt(ds, m)
      BY <1>3, <2>2, <3>4
    <3>9. /\ gs \in Seq(Nat) /\ DomainLists!Range(gs) = DomainLists!Range(ds) \ {ds[m]}
          /\ \A i, j \in DOMAIN gs : gs[i] = gs[j] => i = j
      <4>1. ds \in Seq(Nat) /\ m \in 1 .. Len(ds) /\ \A i, j \in DOMAIN ds : ds[i] = ds[j] => i = j
        BY <1>1, <3>7
      <4>2. LET hs == DomainLists!RemoveAt(ds, m)
            IN /\ hs \in Seq(Nat) /\ DomainLists!Range(hs) = DomainLists!Range(ds) \ {ds[m]}
               /\ \A i, j \in DOMAIN hs : hs[i] = hs[j] => i = j
        BY <4>1, DomainTakenOut
      <4> QED
        BY <3>8, <4>2
    <3>10. DomainsIn(es) \ {d} = DomainsIn(fs)
      BY <1>2, <2>2
    <3> QED
      BY <1>1, <3>7, <3>9, <3>10
  <2> QED
    BY <2>1, <2>2
<1>5. ASSUME NEW c \in DomainLists!Range(gs), c # d PROVE lv[c] = DomainLists!First(c, fs)
  <2>1. c \in DomainsIn(es) /\ c \in DomainLists!Range(ds)
    BY <1>1, <1>2, <1>4
  <2>2. DomainLists!First(c, fs) = DomainLists!First(c, es)
    BY <1>5, <2>1, FirstAfterRemoval
  <2> QED
    BY <1>1, <2>1, <2>2
<1>6. \A c \in DomainLists!Range(gs) :
        Said(gs, lv, fs, {d} \cap DomainLists!Range(gs))[c] = DomainLists!First(c, fs)
  BY <1>5 DEF Said
<1> QED
  BY <1>4, <1>6 DEF Listed

LEMMA ResetIsListed ==
  ASSUME NEW es \in Seq(Entry), NEW lv, NEW ds, ds = DomainLists!DomainsOf(es)
  PROVE  Listed(es, ds, Said(ds, lv, es, DomainLists!Range(ds)))
<1>1. /\ ds \in Seq(Nat) /\ DomainLists!Range(ds) = DomainsIn(es)
      /\ \A i, j \in DOMAIN ds : ds[i] = ds[j] => i = j
  BY DomainsOfIs
<1> QED
  BY <1>1 DEF Listed, Said
-----------------------------------------------------------------------------
(* The steps of the lists *)

DomainsInv == entries \in Seq(Entry) /\ today \in Nat /\ Listed(entries, domains, lastVisits)

\* What the operations of the history do to it and to its domains, whoever lists the days.
Visits(u) == DomainLists!IndexOf(u) = 0 /\ entries' = <<DomainLists!Top(u)>> \o entries
VisitsAgain(u) == /\ DomainLists!IndexOf(u) > 1
                  /\ entries' = <<DomainLists!Top(u)>> \o DomainLists!RemoveAt(entries, DomainLists!IndexOf(u))
Forgets(u) == /\ DomainLists!IndexOf(u) # 0
              /\ entries' = DomainLists!RemoveAt(entries, DomainLists!IndexOf(u))

NewDomain(u) == domains' = IF PageDomain[u] \in DomainLists!Range(domains) THEN domains
                           ELSE Append(domains, PageDomain[u])
OldDomain(u) == domains' = IF DomainLists!Has(entries', PageDomain[u]) THEN domains
                           ELSE DomainLists!RemoveAt(domains, PositionOf(domains, PageDomain[u]))
SaidNow(changed) == lastVisits' = Said(domains', lastVisits, entries', changed)

\* The page on top is visited again on the same day: nothing changes.
OnTopAgain(u) == /\ DomainLists!IndexOf(u) = 1 /\ entries[1].day = today
                 /\ entries' = [entries EXCEPT ![1] = DomainLists!Top(u)] /\ domains' = domains

ListStep ==
  \/ \E u \in Pages : /\ today' = today
                      /\ \/ Visits(u) /\ NewDomain(u) /\ SaidNow({PageDomain[u]})
                         \/ OnTopAgain(u) /\ SaidNow({PageDomain[u]})
                         \/ VisitsAgain(u) /\ domains' = domains /\ SaidNow(DomainLists!Range(domains))
                         \/ Forgets(u) /\ OldDomain(u) /\ SaidNow({PageDomain[u]} \cap DomainLists!Range(domains'))
  \/ /\ today' = today /\ entries' \in {<<>>, entries}
     /\ domains' = DomainLists!DomainsOf(entries') /\ SaidNow(DomainLists!Range(domains'))
  \/ today' \in {today, today + 1} /\ entries' = entries /\ domains' = domains /\ lastVisits' = lastVisits

LEMMA SaysNow ==
  ASSUME NEW es, es = entries', NEW changed, DomainLists!OnModelChanged(es, changed)
  PROVE  SaidNow(changed)
BY DEF DomainLists!OnModelChanged, SaidNow, Said

LEMMA ListsStep == ASSUME DomainLists!Next PROVE ListStep
<1>1. ASSUME NEW u \in Pages, DomainLists!AddNew(u), today' = today PROVE ListStep
  <2>1. DomainLists!OnRowsInserted(PageDomain[u]) /\ DomainLists!OnModelChanged(entries', {PageDomain[u]})
    BY <1>1 DEF DomainLists!AddNew
  <2>2. NewDomain(u)
    BY <2>1 DEF DomainLists!OnRowsInserted, NewDomain
  <2>3. SaidNow({PageDomain[u]})
    BY <2>1, SaysNow
  <2>4. Visits(u)
    BY <1>1 DEF DomainLists!AddNew, Visits
  <2> QED
    BY <1>1, <2>2, <2>3, <2>4 DEF ListStep
<1>2. ASSUME NEW u \in Pages, DomainLists!AddOnTop(u), today' = today PROVE ListStep
  <2>1. DomainLists!OnModelChanged(entries', {PageDomain[u]})
    BY <1>2 DEF DomainLists!AddOnTop
  <2>2. SaidNow({PageDomain[u]})
    BY <2>1, SaysNow
  <2>3. OnTopAgain(u)
    BY <1>2 DEF DomainLists!AddOnTop, OnTopAgain
  <2> QED
    BY <1>2, <2>2, <2>3 DEF ListStep
<1>3. ASSUME NEW u \in Pages, DomainLists!AddMoved(u), today' = today PROVE ListStep
  <2>1. DomainLists!OnModelChanged(entries', DomainLists!Range(domains)) /\ domains' = domains
    BY <1>3 DEF DomainLists!AddMoved
  <2>2. SaidNow(DomainLists!Range(domains))
    BY <2>1, SaysNow
  <2>3. VisitsAgain(u)
    BY <1>3 DEF DomainLists!AddMoved, VisitsAgain
  <2> QED
    BY <1>3, <2>1, <2>2, <2>3 DEF ListStep
<1>4. ASSUME NEW u \in Pages, DomainLists!RemoveEntryByUrl(u) PROVE ListStep
  <2>1. /\ DomainLists!OnDomainRowsRemoved(PageDomain[u], entries')
        /\ DomainLists!OnModelChanged(entries', {PageDomain[u]} \cap DomainLists!Range(domains'))
        /\ today' = today
    BY <1>4 DEF DomainLists!RemoveEntryByUrl
  <2>2. SaidNow({PageDomain[u]} \cap DomainLists!Range(domains'))
    BY <2>1, SaysNow
  <2>3. OldDomain(u)
    BY <2>1 DEF DomainLists!OnDomainRowsRemoved, OldDomain, PositionOf
  <2>4. Forgets(u)
    BY <1>4 DEF DomainLists!RemoveEntryByUrl, Forgets
  <2> QED
    BY <2>1, <2>2, <2>3, <2>4 DEF ListStep
<1>5. ASSUME NEW es, es = entries', es \in {<<>>, entries}, DomainLists!ResetDomains(es), today' = today
      PROVE  ListStep
  <2>1. DomainLists!OnModelChanged(es, DomainLists!Range(domains')) /\ domains' = DomainLists!DomainsOf(entries')
    BY <1>5 DEF DomainLists!ResetDomains
  <2>2. SaidNow(DomainLists!Range(domains'))
    BY <1>5, <2>1, SaysNow
  <2> QED
    BY <1>5, <2>1, <2>2 DEF ListStep
<1>6. CASE DomainLists!ClearAll
  BY <1>5, <1>6 DEF DomainLists!ClearAll
<1>7. CASE DomainLists!SetSourceModel
  BY <1>5, <1>7 DEF DomainLists!SetSourceModel
<1>8. ASSUME NEW m, DomainLists!SetTerms(m) PROVE ListStep
  BY <1>8 DEF DomainLists!SetTerms, ListStep
<1>9. CASE DomainLists!NewDay
  BY <1>9 DEF DomainLists!NewDay, ListStep
<1> QED
  BY <1>1, <1>2, <1>3, <1>4, <1>6, <1>7, <1>8, <1>9 DEF DomainLists!Next, DomainLists!Add
\* The two lists of days follow the same history, with the same domains.
LEMMA SameHistory ==
  ASSUME NEW u, NEW es, NEW ds, NEW changed
  PROVE  /\ Unsorted!IndexOf(u) = DomainLists!IndexOf(u)
         /\ Unsorted!Top(u) = DomainLists!Top(u)
         /\ Unsorted!RemoveAt(es, changed) = DomainLists!RemoveAt(es, changed)
         /\ Unsorted!Range(ds) = DomainLists!Range(ds)
         /\ Unsorted!Has(es, u) = DomainLists!Has(es, u)
         /\ Unsorted!First(u, es) = DomainLists!First(u, es)
         /\ Unsorted!DomainsOf(es) = DomainLists!DomainsOf(es)
<1>1. Unsorted!Cardinality(ds) = Cardinality(ds) /\ DomainLists!Cardinality(ds) = Cardinality(ds)
  BY Zenon DEF Unsorted!Cardinality, DomainLists!Cardinality, Cardinality
<1>2. Unsorted!IndexOf(u) = DomainLists!IndexOf(u)
  BY Zenon DEF Unsorted!IndexOf, DomainLists!IndexOf, Unsorted!SelectInSeq, DomainLists!SelectInSeq, Unsorted!Min, DomainLists!Min
<1>3. Unsorted!Top(u) = DomainLists!Top(u) /\ Unsorted!Range(ds) = DomainLists!Range(ds)
  BY DEF Unsorted!Top, DomainLists!Top, Unsorted!Range, DomainLists!Range
<1>4. Unsorted!RemoveAt(es, changed) = DomainLists!RemoveAt(es, changed)
  BY DEF Unsorted!RemoveAt, DomainLists!RemoveAt
<1>5. Unsorted!Has(es, u) = DomainLists!Has(es, u)
  BY Zenon DEF Unsorted!Has, DomainLists!Has, Unsorted!Range, DomainLists!Range
<1>6. Unsorted!First(u, es) = DomainLists!First(u, es)
  BY Zenon DEF Unsorted!First, DomainLists!First, Unsorted!SelectInSeq, DomainLists!SelectInSeq, Unsorted!Min, DomainLists!Min
<1>8. ASSUME NEW s, NEW K PROVE Unsorted!Keep(s, K) = DomainLists!Keep(s, K)
  <2>1. /\ Unsorted!Cardinality(K) = Cardinality(K) /\ Unsorted!InOrder(K) = InOrder(K)
        /\ DomainLists!Cardinality(K) = Cardinality(K) /\ DomainLists!InOrder(K) = InOrder(K)
    BY Zenon DEF Unsorted!InOrder, DomainLists!InOrder, InOrder,
                 Unsorted!Cardinality, DomainLists!Cardinality, Cardinality
  <2>2. PICK h : h = InOrder(K)
    OBVIOUS
  <2> QED
    BY <2>1, <2>2 DEF Unsorted!Keep, DomainLists!Keep
<1>9. Unsorted!DomainsOf(es) = DomainLists!DomainsOf(es)
  <2>1. PICK xs : xs = [i \in DOMAIN es |-> PageDomain[es[i].url]]
    OBVIOUS
  <2> QED
    BY <1>8, <2>1 DEF Unsorted!DomainsOf, DomainLists!DomainsOf
<1> QED
  BY <1>2, <1>3, <1>4, <1>5, <1>6, <1>9

LEMMA SaysNowUnsorted ==
  ASSUME NEW es, es = entries', NEW changed, Unsorted!OnModelChanged(es, changed)
  PROVE  SaidNow(changed)
<1>1. Unsorted!Range(domains') = DomainLists!Range(domains')
  BY SameHistory
<1>2. \A d : Unsorted!First(d, es) = DomainLists!First(d, es)
  BY SameHistory
<1> QED
  BY <1>1, <1>2 DEF Unsorted!OnModelChanged, SaidNow, Said

LEMMA UnsortedStep == ASSUME Unsorted!Next PROVE ListStep
<1>0. /\ \A u : Unsorted!IndexOf(u) = DomainLists!IndexOf(u) /\ Unsorted!Top(u) = DomainLists!Top(u)
      /\ \A es, k : Unsorted!RemoveAt(es, k) = DomainLists!RemoveAt(es, k)
      /\ \A ds : Unsorted!Range(ds) = DomainLists!Range(ds)
  BY SameHistory
<1>1. ASSUME NEW u \in Pages, Unsorted!AddNew(u), today' = today PROVE ListStep
  <2>1. Unsorted!OnRowsInserted(PageDomain[u]) /\ Unsorted!OnModelChanged(entries', {PageDomain[u]})
    BY <1>1 DEF Unsorted!AddNew
  <2>2. NewDomain(u)
    BY <1>0, <2>1 DEF Unsorted!OnRowsInserted, NewDomain
  <2>3. SaidNow({PageDomain[u]})
    BY <2>1, SaysNowUnsorted
  <2>4. Visits(u)
    BY <1>0, <1>1 DEF Unsorted!AddNew, Visits
  <2> QED
    BY <1>1, <2>2, <2>3, <2>4 DEF ListStep
<1>2. ASSUME NEW u \in Pages, Unsorted!AddOnTop(u), today' = today PROVE ListStep
  <2>1. Unsorted!OnModelChanged(entries', {PageDomain[u]})
    BY <1>2 DEF Unsorted!AddOnTop
  <2>2. SaidNow({PageDomain[u]})
    BY <2>1, SaysNowUnsorted
  <2>3. OnTopAgain(u)
    BY <1>0, <1>2 DEF Unsorted!AddOnTop, OnTopAgain
  <2> QED
    BY <1>2, <2>2, <2>3 DEF ListStep
<1>3. ASSUME NEW u \in Pages, Unsorted!AddMoved(u), today' = today PROVE ListStep
  <2>1. Unsorted!OnModelChanged(entries', Unsorted!Range(domains)) /\ domains' = domains
    BY <1>3 DEF Unsorted!AddMoved
  <2>2. SaidNow(DomainLists!Range(domains))
    BY <1>0, <2>1, SaysNowUnsorted
  <2>3. VisitsAgain(u)
    BY <1>0, <1>3 DEF Unsorted!AddMoved, VisitsAgain
  <2> QED
    BY <1>3, <2>1, <2>2, <2>3 DEF ListStep
<1>4. ASSUME NEW u \in Pages, Unsorted!RemoveEntryByUrl(u) PROVE ListStep
  <2>1. /\ Unsorted!OnDomainRowsRemoved(PageDomain[u], entries')
        /\ Unsorted!OnModelChanged(entries', {PageDomain[u]} \cap Unsorted!Range(domains'))
        /\ today' = today
    BY <1>4 DEF Unsorted!RemoveEntryByUrl
  <2>2. SaidNow({PageDomain[u]} \cap DomainLists!Range(domains'))
    BY <1>0, <2>1, SaysNowUnsorted
  <2>3. OldDomain(u)
    <3>1. PICK d : d = PageDomain[u]
      OBVIOUS
    <3>2. Unsorted!Has(entries', d) = DomainLists!Has(entries', d)
      BY SameHistory
    <3>3. Unsorted!SelectInSeq(domains, LAMBDA x : x = d) = PositionOf(domains, d)
      BY Zenon DEF PositionOf, Unsorted!SelectInSeq, DomainLists!SelectInSeq, Unsorted!Min, DomainLists!Min
    <3>4. domains' = IF Unsorted!Has(entries', d) THEN domains
                     ELSE Unsorted!RemoveAt(domains, Unsorted!SelectInSeq(domains, LAMBDA x : x = d))
      BY <2>1, <3>1 DEF Unsorted!OnDomainRowsRemoved
    <3> QED
      BY <1>0, <3>1, <3>2, <3>3, <3>4 DEF OldDomain
  <2>4. Forgets(u)
    BY <1>0, <1>4 DEF Unsorted!RemoveEntryByUrl, Forgets
  <2> QED
    BY <2>1, <2>2, <2>3, <2>4 DEF ListStep
<1>5. ASSUME NEW es, es = entries', es \in {<<>>, entries}, Unsorted!ResetDomains(es), today' = today
      PROVE  ListStep
  <2>1. Unsorted!OnModelChanged(es, Unsorted!Range(domains')) /\ domains' = Unsorted!DomainsOf(es)
    BY <1>5 DEF Unsorted!ResetDomains
  <2>2. SaidNow(DomainLists!Range(domains'))
    BY <1>0, <1>5, <2>1, SaysNowUnsorted
  <2>3. domains' = DomainLists!DomainsOf(entries')
    BY <1>5, <2>1, SameHistory
  <2> QED
    BY <1>5, <2>2, <2>3 DEF ListStep
<1>6. CASE Unsorted!ClearAll
  BY <1>5, <1>6 DEF Unsorted!ClearAll
<1>7. CASE Unsorted!SetSourceModel
  BY <1>5, <1>7 DEF Unsorted!SetSourceModel
<1>8. ASSUME NEW m, Unsorted!SetTerms(m) PROVE ListStep
  BY <1>8 DEF Unsorted!SetTerms, ListStep
<1>9. CASE Unsorted!NewDay
  BY <1>9 DEF Unsorted!NewDay, ListStep
<1> QED
  BY <1>1, <1>2, <1>3, <1>4, <1>6, <1>7, <1>8, <1>9 DEF Unsorted!Next, Unsorted!Add

-----------------------------------------------------------------------------
(* The theorem about the domains *)

LEMMA ListStepInv == ASSUME DomainsInv, ListStep PROVE DomainsInv'
<1>0. entries \in Seq(Entry) /\ today \in Nat /\ Listed(entries, domains, lastVisits)
  BY DEF DomainsInv
<1>1. ASSUME NEW u \in Pages, today' = today, Visits(u), NewDomain(u), SaidNow({PageDomain[u]})
      PROVE  DomainsInv'
  <2>1. PICK e : e = DomainLists!Top(u)
    OBVIOUS
  <2>2. e \in Entry /\ e.url = u
    BY <1>0, <2>1 DEF DomainLists!Top, Entry
  <2>3. entries' = <<e>> \o entries
    BY <1>1, <2>1 DEF Visits
  <2>4. domains' = IF PageDomain[e.url] \in DomainLists!Range(domains) THEN domains
                   ELSE Append(domains, PageDomain[e.url])
    BY <1>1, <2>2 DEF NewDomain
  <2>5. lastVisits' = Said(domains', lastVisits, <<e>> \o entries, {PageDomain[e.url]})
    BY <1>1, <2>2, <2>3 DEF SaidNow
  <2>6. Listed(<<e>> \o entries, domains', Said(domains', lastVisits, <<e>> \o entries, {PageDomain[e.url]}))
    BY <1>0, <2>2, <2>4, NewIsListed
  <2>7. <<e>> \o entries \in Seq(Entry)
    BY <1>0, <2>2, PutOnTop
  <2> QED
    BY <1>0, <1>1, <2>3, <2>5, <2>6, <2>7 DEF DomainsInv
<1>2. ASSUME NEW u \in Pages, today' = today, OnTopAgain(u), SaidNow({PageDomain[u]}) PROVE DomainsInv'
  <2>1. 1 \in DOMAIN entries /\ entries[1] \in Entry /\ entries[1].url = u
    <3>1. PICK k : k = DomainLists!IndexOf(u)
      OBVIOUS
    <3>2. k = 1
      BY <1>2, <3>1 DEF OnTopAgain
    <3>3. k # 0
      BY <3>2
    <3>4. k \in 1 .. Len(entries) /\ entries[k].url = u
      BY <1>0, <3>1, <3>3, IndexIs
    <3> QED
      BY <1>0, <3>2, <3>4
  <2>2. entries[1] = DomainLists!Top(u)
    BY <1>2, <2>1 DEF OnTopAgain, DomainLists!Top, Entry
  <2>3. entries' = entries /\ domains' = domains
    BY <1>0, <1>2, <2>2 DEF OnTopAgain
  <2>4. lastVisits' = Said(domains, lastVisits, entries, {PageDomain[u]})
    BY <1>2, <2>3 DEF SaidNow
  <2>5. Listed(entries, domains, lastVisits')
    BY <1>0, <2>4 DEF Listed, Said
  <2> QED
    BY <1>0, <1>2, <2>3, <2>5 DEF DomainsInv
<1>3. ASSUME NEW u \in Pages, today' = today, VisitsAgain(u), domains' = domains,
             SaidNow(DomainLists!Range(domains))
      PROVE  DomainsInv'
  <2>1. PICK e, k : e = DomainLists!Top(u) /\ k = DomainLists!IndexOf(u)
    OBVIOUS
  <2>2. e \in Entry /\ e.url = u
    BY <1>0, <2>1 DEF DomainLists!Top, Entry
  <2>3. k \in 1 .. Len(entries) /\ entries[k].url = e.url
    <3>1. k # 0
      BY <1>3, <2>1 DEF VisitsAgain
    <3> QED
      BY <1>0, <2>1, <2>2, <3>1, IndexIs
  <2>4. PICK fs : fs = <<e>> \o DomainLists!RemoveAt(entries, k)
    OBVIOUS
  <2>5. entries' = fs
    BY <1>3, <2>1, <2>4 DEF VisitsAgain
  <2>6. lastVisits' = Said(domains, lastVisits, fs, DomainLists!Range(domains))
    BY <1>3, <2>5 DEF SaidNow
  <2>7. Listed(fs, domains, Said(domains, lastVisits, fs, DomainLists!Range(domains)))
    BY <1>0, <2>2, <2>3, <2>4, MovedIsListed
  <2>8. fs \in Seq(Entry)
    <3>1. DomainLists!RemoveAt(entries, k) \in Seq(Entry)
      BY <1>0, <2>3, TakenOut
    <3> QED
      BY <2>2, <2>4, <3>1, PutOnTop
  <2> QED
    BY <1>0, <1>3, <2>5, <2>6, <2>7, <2>8 DEF DomainsInv
<1>4. ASSUME NEW u \in Pages, today' = today, Forgets(u), OldDomain(u),
             SaidNow({PageDomain[u]} \cap DomainLists!Range(domains'))
      PROVE  DomainsInv'
  <2>1. PICK k, d : k = DomainLists!IndexOf(u) /\ d = PageDomain[u]
    OBVIOUS
  <2>2. k \in 1 .. Len(entries) /\ entries[k].url = u /\ d = PageDomain[entries[k].url]
    <3>1. k # 0
      BY <1>4, <2>1 DEF Forgets
    <3>2. k \in 1 .. Len(entries) /\ entries[k].url = u
      BY <1>0, <2>1, <3>1, IndexIs
    <3> QED
      BY <2>1, <3>2
  <2>3. PICK fs : fs = DomainLists!RemoveAt(entries, k)
    OBVIOUS
  <2>4. entries' = fs
    BY <1>4, <2>1, <2>3 DEF Forgets
  <2>5. domains' = IF DomainLists!Has(fs, d) THEN domains
                   ELSE DomainLists!RemoveAt(domains, PositionOf(domains, d))
    BY <1>4, <2>1, <2>4 DEF OldDomain
  <2>6. lastVisits' = Said(domains', lastVisits, fs, {d} \cap DomainLists!Range(domains'))
    BY <1>4, <2>1, <2>4 DEF SaidNow
  <2>7. Listed(fs, domains', Said(domains', lastVisits, fs, {d} \cap DomainLists!Range(domains')))
    BY <1>0, <2>2, <2>3, <2>5, RemovedIsNotListed
  <2>8. fs \in Seq(Entry)
    BY <1>0, <2>2, <2>3, TakenOut
  <2> QED
    BY <1>0, <1>4, <2>4, <2>6, <2>7, <2>8 DEF DomainsInv
<1>5. ASSUME today' = today, entries' \in {<<>>, entries}, domains' = DomainLists!DomainsOf(entries'),
             SaidNow(DomainLists!Range(domains'))
      PROVE  DomainsInv'
  <2>1. PICK es : es = entries'
    OBVIOUS
  <2>2. es \in Seq(Entry)
    <3>1. <<>> \in Seq(Entry)
      OBVIOUS
    <3> QED
      BY <1>0, <1>5, <2>1, <3>1
  <2>3. lastVisits' = Said(domains', lastVisits, es, DomainLists!Range(domains'))
    BY <1>5, <2>1 DEF SaidNow
  <2>4. Listed(es, domains', Said(domains', lastVisits, es, DomainLists!Range(domains')))
    BY <1>5, <2>1, <2>2, ResetIsListed
  <2> QED
    BY <1>0, <1>5, <2>1, <2>2, <2>3, <2>4 DEF DomainsInv
<1>6. ASSUME today' \in {today, today + 1}, entries' = entries, domains' = domains, lastVisits' = lastVisits
      PROVE  DomainsInv'
  BY <1>0, <1>6 DEF DomainsInv
<1> QED
  BY <1>1, <1>2, <1>3, <1>4, <1>5, <1>6 DEF ListStep

\* onRowsInserted, onRowsRemoved, onModelReset, lastVisitChanged: the domains listed are, each once,
\* those of the pages in the history, with the last visit of each.
THEOREM DomainsStayRight == MCSpec => []DomainsShown
<1>1. MCInit => DomainsInv
  <2> SUFFICES ASSUME MCInit PROVE DomainsInv
    OBVIOUS
  <2>1. entries = <<>> /\ today = 1 /\ domains = <<>> /\ lastVisits = <<>>
    BY DEF MCInit, DomainLists!Init
  <2>2. DomainLists!Range(domains) = {} /\ DomainsIn(entries) = {}
    BY <2>1 DEF DomainLists!Range, DomainsIn
  <2>3. entries \in Seq(Entry) /\ domains \in Seq(Nat) /\ DOMAIN domains = {} /\ today \in Nat
    BY <2>1
  <2> QED
    BY <2>2, <2>3 DEF DomainsInv, Listed
<1>2. DomainsInv /\ [MCNext]_<<part, listVars, iconVars, vars>> => DomainsInv'
  <2> SUFFICES ASSUME DomainsInv, [MCNext]_<<part, listVars, iconVars, vars>> PROVE DomainsInv'
    OBVIOUS
  <2>1. CASE UNCHANGED listVars
    BY <2>1 DEF listVars, DomainsInv
  <2>2. CASE DomainLists!Next
    BY <2>2, ListsStep, ListStepInv
  <2>3. CASE Unsorted!Next
    BY <2>3, UnsortedStep, ListStepInv
  <2> QED
    BY <2>1, <2>2, <2>3 DEF MCNext
<1>3. DomainsInv => DomainsShown
  <2> SUFFICES ASSUME DomainsInv PROVE DomainsShown
    OBVIOUS
  <2>1. /\ entries \in Seq(Entry) /\ domains \in Seq(Nat) /\ DomainLists!Range(domains) = DomainsIn(entries)
        /\ \A i, j \in DOMAIN domains : domains[i] = domains[j] => i = j
        /\ DomainLists!LastVisitRight
    BY DEF DomainsInv, Listed, DomainLists!LastVisitRight
  <2>2. ASSUME NEW u \in Pages, DomainLists!IndexOf(u) # 0 PROVE PageDomain[u] \in DomainLists!Range(domains)
    <3>1. PICK k : k = DomainLists!IndexOf(u)
      OBVIOUS
    <3>2. k \in 1 .. Len(entries) /\ entries[k].url = u
      BY <2>1, <2>2, <3>1, IndexIs
    <3>3. PageDomain[u] \in DomainsIn(entries)
      BY <2>1, <3>2 DEF DomainsIn
    <3> QED
      BY <2>1, <3>3
  <2>3. ASSUME NEW i \in DOMAIN domains PROVE DomainLists!Has(entries, domains[i])
    <3>1. domains[i] \in DomainsIn(entries)
      BY <2>1 DEF DomainLists!Range
    <3> QED
      BY <3>1 DEF DomainsIn, DomainLists!Has, DomainLists!Range
  <2> QED
    BY <2>1, <2>2, <2>3 DEF DomainsShown, DomainLists!DomainsExact
<1> QED
  BY <1>1, <1>2, <1>3, PTL DEF MCSpec

-----------------------------------------------------------------------------
(* The list of days: how it is ordered *)

\* All days first, then the days of S in descending order; nothing when there is no day.
Descends(o, S) ==
  /\ o \in Seq(Nat) /\ S \in SUBSET (Nat \ {0})
  /\ o = <<>> <=> S = {}
  /\ o # <<>> => o[1] = 0 /\ {o[i] : i \in 2 .. Len(o)} = S
  /\ \A i, j \in 2 .. Len(o) : i < j => o[i] > o[j]

\* The days not before x come first.
LEMMA LaterDays ==
  ASSUME NEW o \in Seq(Nat), Len(o) >= 1, \A i, j \in 2 .. Len(o) : i < j => o[i] > o[j], NEW x \in Nat
  PROVE  \E m \in 1 .. Len(o) : {i \in 2 .. Len(o) : o[i] >= x} = 2 .. m
<1> DEFINE L == Len(o)
           K == {m \in 1 .. L : m = L \/ ~(o[m + 1] >= x)}
<1>1. L \in Nat /\ L >= 1 /\ \A i \in 2 .. L : o[i] \in Nat
  OBVIOUS
<1>2. K \in SUBSET Nat /\ K # {}
  BY <1>1
<1>3. PICK m \in K : \A k \in K : m <= k
  <2> HIDE DEF K
  <2> QED
    BY <1>2, LeastNat
<1>4. m \in 1 .. L /\ m \in Nat /\ (m = L \/ ~(o[m + 1] >= x))
  OBVIOUS
<1>5. ASSUME NEW i \in 2 .. L PROVE o[i] >= x <=> i \in 2 .. m
  <2>1. CASE i <= m
    <3>1. i - 1 \in 1 .. L /\ ~(m <= i - 1) /\ i - 1 # L /\ (i - 1) + 1 = i
      BY <1>1, <1>4, <2>1
    <3>2. i - 1 \notin K
      BY <1>3, <3>1
    <3>3. o[i] >= x
      BY <3>1, <3>2
    <3> QED
      BY <1>4, <2>1, <3>3
  <2>2. CASE i = m + 1
    <3>1. ~(o[m + 1] >= x)
      BY <1>1, <1>4, <2>2
    <3> QED
      BY <1>4, <2>2, <3>1
  <2>3. CASE i > m + 1
    <3>1. m + 1 \in 2 .. L /\ m + 1 < i /\ m # L
      BY <1>1, <1>4, <2>3
    <3>2. o[m + 1] > o[i] /\ ~(o[m + 1] >= x)
      BY <1>4, <3>1
    <3>3. o[m + 1] \in Nat /\ o[i] \in Nat
      BY <1>1, <3>1
    <3> QED
      BY <1>4, <2>3, <3>2, <3>3
  <2> QED
    BY <1>4, <2>1, <2>2, <2>3
<1>6. \A i \in 2 .. m : i \in 2 .. L
  BY <1>1, <1>4
<1>7. {i \in 2 .. Len(o) : o[i] >= x} = 2 .. m
  BY <1>5, <1>6
<1> QED
  BY <1>4, <1>7

\* insertNewHistoryEntry: the place of a new day.
LEMMA DayPlace ==
  ASSUME NEW m \in Nat \ {0}, NEW C, C = 2 .. m
  PROVE  DomainLists!Cardinality(C) = m - 1
<1>1. DomainLists!Cardinality(C) = Cardinality(C)
  BY Zenon DEF DomainLists!Cardinality, Cardinality
<1>2. 2 \in Int /\ m \in Int
  OBVIOUS
<1>3. Cardinality(2 .. m) = IF 2 > m THEN 0 ELSE m - 2 + 1
  BY <1>2, FS_Interval
<1>4. Cardinality(2 .. m) = m - 1
  BY <1>3
<1> QED
  BY <1>1, <1>4

\* p is the list o with x after its first m elements.
IsPutIn(p, o, m, x) ==
  /\ p \in Seq(Nat) /\ Len(p) = Len(o) + 1
  /\ \A i \in 1 .. Len(o) + 1 : p[i] = IF i <= m THEN o[i] ELSE IF i = m + 1 THEN x ELSE o[i - 1]

LEMMA PutIn ==
  ASSUME NEW o \in Seq(Nat), NEW x \in Nat, NEW m \in 1 .. Len(o)
  PROVE  IsPutIn(DomainLists!InsertAt(o, m + 1, x), o, m, x)
<1>1. Len(o) \in Nat /\ m \in Nat /\ m >= 1 /\ m <= Len(o)
  OBVIOUS
<1> DEFINE a == SubSeq(o, 1, m)
           b == SubSeq(o, m + 1, Len(o))
           c == <<x>> \o b
<1>2. a \in Seq(Nat) /\ Len(a) = m /\ \A i \in 1 .. m : a[i] = o[i]
  BY <1>1
<1>3. b \in Seq(Nat) /\ Len(b) = Len(o) - m /\ \A i \in 1 .. Len(o) - m : b[i] = o[i + m]
  BY <1>1
<1>4. DomainLists!InsertAt(o, m + 1, x) = a \o <<x>> \o b
  <2>1. (m + 1) - 1 = m
    BY <1>1
  <2> QED
    BY <2>1 DEF DomainLists!InsertAt
<1> HIDE DEF a, b
<1>5. PICK d : d = a \o <<x>>
  OBVIOUS
<1>6. d \in Seq(Nat) /\ Len(d) = m + 1 /\ \A i \in 1 .. m + 1 : d[i] = IF i <= m THEN o[i] ELSE x
  <2>1. a \in Seq(Nat) /\ <<x>> \in Seq(Nat) /\ Len(<<x>>) = 1 /\ <<x>>[1] = x
    BY <1>2
  <2>2. d \in Seq(Nat) /\ Len(d) = m + 1
    BY <1>2, <1>5, <2>1
  <2>3. ASSUME NEW i \in 1 .. m + 1 PROVE d[i] = IF i <= m THEN o[i] ELSE x
    <3>1. CASE i <= m
      BY <1>2, <1>5, <2>1, <3>1
    <3>2. CASE i = m + 1
      BY <1>1, <1>2, <1>5, <2>1, <3>2
    <3> QED
      BY <1>1, <3>1, <3>2
  <2> QED
    BY <2>2, <2>3
<1>7. PICK p : p = d \o b
  OBVIOUS
<1>8. d \in Seq(Nat) /\ b \in Seq(Nat)
  BY <1>3, <1>6
<1>9. p \in Seq(Nat) /\ Len(p) = Len(o) + 1
  <2>1. p \in Seq(Nat) /\ Len(p) = Len(d) + Len(b)
    BY <1>7, <1>8
  <2> QED
    BY <1>1, <1>3, <1>6, <2>1
<1>10. ASSUME NEW i \in 1 .. Len(o) + 1
       PROVE  p[i] = IF i <= m THEN o[i] ELSE IF i = m + 1 THEN x ELSE o[i - 1]
  <2>1. p[i] = IF i <= Len(d) THEN d[i] ELSE b[i - Len(d)]
    <3>1. i \in 1 .. Len(d) + Len(b)
      BY <1>1, <1>3, <1>6
    <3> QED
      BY <1>7, <1>8, <3>1
  <2>2. CASE i <= m + 1
    <3>1. i \in 1 .. m + 1 /\ i <= Len(d)
      BY <1>1, <1>6, <2>2
    <3>2. p[i] = IF i <= m THEN o[i] ELSE x
      BY <1>6, <2>1, <3>1
    <3> QED
      BY <1>1, <2>2, <3>2
  <2>3. CASE ~(i <= m + 1)
    <3>1. i - (m + 1) \in 1 .. Len(o) - m /\ (i - (m + 1)) + m = i - 1 /\ ~(i <= m) /\ i # m + 1
      BY <1>1, <2>3
    <3>2. p[i] = b[i - (m + 1)]
      BY <1>6, <2>1, <2>3
    <3>3. b[i - (m + 1)] = o[(i - (m + 1)) + m]
      BY <1>3, <3>1
    <3> QED
      BY <3>1, <3>2, <3>3
  <2> QED
    BY <2>2, <2>3
<1>11. DomainLists!InsertAt(o, m + 1, x) = p
  BY <1>4, <1>5, <1>7
<1> QED
  BY <1>9, <1>10, <1>11 DEF IsPutIn
\* A day that is not listed is put where the order asks for it.
LEMMA DayInserted ==
  ASSUME NEW o, NEW S, Descends(o, S), NEW x \in Nat \ {0}, x \notin S,
         NEW q, q = IF o = <<>> THEN << 0 >> ELSE o,
         NEW n, n = DomainLists!Cardinality({i \in 2 .. Len(q) : q[i] >= x})
  PROVE  Descends(DomainLists!InsertAt(q, n + 2, x), S \cup {x})
<1>1. /\ q \in Seq(Nat) /\ Len(q) >= 1 /\ q[1] = 0 /\ S \in SUBSET (Nat \ {0})
      /\ \A i, j \in 2 .. Len(q) : i < j => q[i] > q[j]
      /\ {q[i] : i \in 2 .. Len(q)} = S
  <2>1. CASE o = <<>>
    <3>1. q = <<0>> /\ S = {}
      BY <2>1 DEF Descends
    <3>2. q \in Seq(Nat) /\ Len(q) = 1 /\ q[1] = 0
      <4>1. 0 \in Nat
        OBVIOUS
      <4>2. <<0>> \in Seq(Nat) /\ Len(<<0>>) = 1 /\ <<0>>[1] = 0
        BY <4>1
      <4> QED
        BY <3>1, <4>2
    <3>3. \A i \in 2 .. Len(q) : FALSE
      <4>1. PICK k : k = Len(q)
        OBVIOUS
      <4>2. k = 1
        BY <3>2, <4>1
      <4>3. \A i \in 2 .. k : FALSE
        BY <4>2
      <4> QED
        BY <4>1, <4>3
    <3> QED
      BY <3>1, <3>2, <3>3
  <2>2. CASE o # <<>>
    <3>1. q = o
      BY <2>2
    <3> QED
      BY <2>2, <3>1 DEF Descends
  <2> QED
    BY <2>1, <2>2
<1>2. PICK m \in 1 .. Len(q) : {i \in 2 .. Len(q) : q[i] >= x} = 2 .. m
  BY <1>1, LaterDays
<1>3. n = m - 1
  <2>1. PICK C : C = {i \in 2 .. Len(q) : q[i] >= x}
    OBVIOUS
  <2>2. C = 2 .. m
    BY <1>2, <2>1
  <2>3. m \in Nat \ {0}
    BY <1>1
  <2>4. DomainLists!Cardinality(C) = m - 1
    BY <2>2, <2>3, DayPlace
  <2> QED
    BY <2>1, <2>4
<1>4. Len(q) \in Nat /\ m \in Nat /\ m >= 1 /\ m <= Len(q) /\ n + 2 = m + 1
  BY <1>1, <1>3
<1>5. PICK p : p = DomainLists!InsertAt(q, m + 1, x)
  OBVIOUS
<1>6. /\ p \in Seq(Nat) /\ Len(p) = Len(q) + 1
      /\ \A i \in 1 .. Len(q) + 1 : p[i] = IF i <= m THEN q[i] ELSE IF i = m + 1 THEN x ELSE q[i - 1]
  <2>1. q \in Seq(Nat) /\ x \in Nat
    BY <1>1
  <2>2. IsPutIn(DomainLists!InsertAt(q, m + 1, x), q, m, x)
    BY <2>1, PutIn
  <2> QED
    BY <1>5, <2>2 DEF IsPutIn
<1>7. \A i \in 2 .. Len(q) : q[i] \in S /\ q[i] # x /\ q[i] \in Nat
  BY <1>1
<1>8. \A i \in 2 .. m : i \in 2 .. Len(q) /\ q[i] > x
  <2> TAKE i \in 2 .. m
  <2>1. i \in 2 .. Len(q) /\ q[i] >= x
    BY <1>2
  <2> QED
    BY <1>7, <2>1
<1>9. \A i \in m + 1 .. Len(q) : i \in 2 .. Len(q) /\ x > q[i]
  <2> TAKE i \in m + 1 .. Len(q)
  <2>1. i \in 2 .. Len(q) /\ i \notin 2 .. m
    BY <1>4
  <2>2. ~(q[i] >= x)
    BY <1>2, <2>1
  <2> QED
    BY <1>7, <2>1, <2>2
<1>10. p # <<>> /\ p[1] = 0
  BY <1>1, <1>4, <1>6
<1>11. ASSUME NEW i \in 2 .. Len(p), NEW j \in 2 .. Len(p), i < j PROVE p[i] > p[j]
  <2>0. i \in 1 .. Len(q) + 1 /\ j \in 1 .. Len(q) + 1
    BY <1>4, <1>6
  <2>1. CASE j <= m
    <3>1. i <= m /\ i \in 2 .. Len(q) /\ j \in 2 .. Len(q)
      BY <1>4, <1>6, <1>11, <2>0, <2>1
    <3>2. p[i] = q[i] /\ p[j] = q[j]
      BY <1>6, <2>0, <2>1, <3>1
    <3>3. q[i] > q[j]
      BY <1>1, <1>11, <3>1
    <3> QED
      BY <3>2, <3>3
  <2>2. CASE j = m + 1
    <3>1. i \in 2 .. m /\ p[i] = q[i] /\ p[j] = x
      BY <1>4, <1>6, <1>11, <2>0, <2>2
    <3> QED
      BY <1>8, <3>1
  <2>3. CASE j > m + 1
    <3>1. p[j] = q[j - 1] /\ j - 1 \in m + 1 .. Len(q) /\ j - 1 \in 2 .. Len(q)
      BY <1>4, <1>6, <2>0, <2>3
    <3>2. CASE i <= m
      <4>1. p[i] = q[i] /\ i \in 2 .. Len(q) /\ i < j - 1
        BY <1>4, <1>6, <2>0, <2>3, <3>2
      <4> QED
        BY <1>1, <3>1, <4>1
    <3>3. CASE i = m + 1
      <4>1. p[i] = x
        BY <1>4, <1>6, <2>0, <3>3
      <4> QED
        BY <1>9, <3>1, <4>1
    <3>4. CASE i > m + 1
      <4>1. p[i] = q[i - 1] /\ i - 1 \in 2 .. Len(q) /\ i - 1 < j - 1
        BY <1>4, <1>6, <1>11, <2>0, <3>4
      <4> QED
        BY <1>1, <3>1, <4>1
    <3> QED
      BY <1>4, <3>2, <3>3, <3>4
  <2> QED
    BY <1>4, <2>1, <2>2, <2>3
<1>12. ASSUME NEW i \in 2 .. Len(p) PROVE p[i] \in S \cup {x}
  <2>0. i \in 1 .. Len(q) + 1
    BY <1>4, <1>6
  <2>1. CASE i <= m
    <3>1. p[i] = q[i] /\ i \in 2 .. Len(q)
      BY <1>4, <1>6, <2>0, <2>1
    <3> QED
      BY <1>7, <3>1
  <2>2. CASE i = m + 1
    BY <1>4, <1>6, <2>0, <2>2
  <2>3. CASE i > m + 1
    <3>1. p[i] = q[i - 1] /\ i - 1 \in 2 .. Len(q)
      BY <1>4, <1>6, <2>0, <2>3
    <3> QED
      BY <1>7, <3>1
  <2> QED
    BY <1>4, <2>1, <2>2, <2>3
<1>13. ASSUME NEW d \in S \cup {x} PROVE \E i \in 2 .. Len(p) : p[i] = d
  <2>1. CASE d = x
    <3>1. m + 1 \in 2 .. Len(p) /\ p[m + 1] = x
      BY <1>4, <1>6
    <3> QED
      BY <2>1, <3>1
  <2>2. CASE d \in S
    <3>1. PICK k \in 2 .. Len(q) : q[k] = d
      BY <1>1, <2>2
    <3>2. CASE k <= m
      <4>1. k \in 2 .. Len(p) /\ k \in 1 .. Len(q) + 1
        BY <1>4, <1>6
      <4>2. p[k] = q[k]
        BY <1>6, <3>2, <4>1
      <4> QED
        BY <3>1, <4>1, <4>2
    <3>3. CASE ~(k <= m)
      <4>1. k + 1 \in 2 .. Len(p) /\ ~(k + 1 <= m) /\ k + 1 # m + 1 /\ (k + 1) - 1 = k
        BY <1>4, <1>6, <3>3
      <4>2. k + 1 \in 1 .. Len(q) + 1
        BY <1>4, <3>1
      <4>3. p[k + 1] = q[k]
        BY <1>6, <4>1, <4>2
      <4> QED
        BY <3>1, <4>1, <4>3
    <3> QED
      BY <3>2, <3>3
  <2> QED
    BY <2>1, <2>2
<1>14. {p[i] : i \in 2 .. Len(p)} = S \cup {x}
  BY <1>12, <1>13
<1>15. S \cup {x} \in SUBSET (Nat \ {0}) /\ S \cup {x} # {}
  BY <1>1
<1>16. Descends(p, S \cup {x})
  BY <1>6, <1>10, <1>11, <1>14, <1>15 DEF Descends
<1> QED
  BY <1>4, <1>5, <1>16

\* The days that are kept stay in their order, after the entry for all days.
LEMMA DaysKept ==
  ASSUME NEW o, NEW S, Descends(o, S), NEW T \in SUBSET S,
         NEW p, p = IF T = {} THEN <<>> ELSE Keep(o, {i \in DOMAIN o : o[i] \in T \cup {0}})
  PROVE  Descends(p, T)
<1>1. CASE T = {}
  <2>1. p = <<>> /\ p \in Seq(Nat) /\ Len(p) = 0 /\ T \in SUBSET (Nat \ {0})
    BY <1>1
  <2>2. 2 .. 0 = {}
    OBVIOUS
  <2> QED
    BY <1>1, <2>1, <2>2 DEF Descends
<1>2. CASE T # {}
  <2> DEFINE K == {i \in DOMAIN o : o[i] \in T \cup {0}}
  <2>1. /\ o \in Seq(Nat) /\ o # <<>> /\ o[1] = 0 /\ S \in SUBSET (Nat \ {0})
        /\ {o[i] : i \in 2 .. Len(o)} = S
        /\ \A i, j \in 2 .. Len(o) : i < j => o[i] > o[j]
    BY <1>2 DEF Descends
  <2>2. DOMAIN o = 1 .. Len(o) /\ Len(o) \in Nat /\ Len(o) >= 1
    BY <2>1
  <2>3. K \in SUBSET (DOMAIN o) /\ 1 \in K /\ \A i \in K : o[i] \in T \cup {0}
    BY <2>1, <2>2
  <2>4. \A d \in T : \E i \in K : i \in 2 .. Len(o) /\ o[i] = d
    <3> TAKE d \in T
    <3>1. PICK i \in 2 .. Len(o) : o[i] = d
      BY <2>1
    <3>2. i \in DOMAIN o
      BY <2>2
    <3> QED
      BY <3>1, <3>2
  <2>5. p = Keep(o, K)
    BY <1>2
  <2> HIDE DEF K
  <2>6. p \in Seq(Nat) /\ Selects(p, o, K)
    <3>1. o \in Seq(Nat) /\ K \in SUBSET (DOMAIN o)
      BY <2>1, <2>3
    <3>2. Keep(o, K) \in Seq(Nat) /\ Selects(Keep(o, K), o, K)
      BY <3>1, KeepElements, Zenon
    <3> QED
      BY <2>5, <3>2
  <2>7. PICK f \in [DOMAIN p -> K] : /\ \A i, j \in DOMAIN p : i < j => f[i] < f[j]
                                     /\ \A k \in K : \E i \in DOMAIN p : f[i] = k
                                     /\ \A i \in DOMAIN p : p[i] = o[f[i]]
    BY <2>6 DEF Selects
  <2>8. DOMAIN p = 1 .. Len(p) /\ Len(p) \in Nat
    BY <2>6
  <2>9. \A i \in DOMAIN p : f[i] \in 1 .. Len(o) /\ f[i] \in K
    BY <2>2, <2>3, <2>7
  <2>10. 1 \in DOMAIN p /\ f[1] = 1
    <3>1. PICK j \in DOMAIN p : f[j] = 1
      BY <2>3, <2>7
    <3>2. 1 \in DOMAIN p
      BY <2>8, <3>1
    <3>3. CASE j = 1
      BY <3>1, <3>2, <3>3
    <3>4. CASE j # 1
      <4>1. 1 < j
        BY <2>8, <3>1, <3>4
      <4>2. f[1] < f[j] /\ f[1] \in 1 .. Len(o)
        BY <2>7, <2>9, <3>2, <4>1
      <4> QED
        BY <3>1, <4>2
    <3> QED
      BY <3>3, <3>4
  <2>11. \A i \in 2 .. Len(p) : i \in DOMAIN p /\ f[i] \in 2 .. Len(o)
    <3> TAKE i \in 2 .. Len(p)
    <3>1. i \in DOMAIN p /\ 1 < i
      BY <2>8
    <3>2. f[1] < f[i] /\ f[i] \in 1 .. Len(o)
      BY <2>7, <2>9, <2>10, <3>1
    <3> QED
      BY <2>2, <2>10, <3>1, <3>2
  <2>12. p # <<>> /\ p[1] = 0
    <3>1. p[1] = o[1]
      BY <2>7, <2>10
    <3> QED
      BY <2>1, <2>8, <2>10, <3>1
  <2>13. ASSUME NEW i \in 2 .. Len(p), NEW j \in 2 .. Len(p), i < j PROVE p[i] > p[j]
    <3>1. f[i] < f[j] /\ p[i] = o[f[i]] /\ p[j] = o[f[j]]
      BY <2>7, <2>11, <2>13
    <3> QED
      BY <2>1, <2>11, <3>1
  <2>14. ASSUME NEW i \in 2 .. Len(p) PROVE p[i] \in T
    <3>1. p[i] = o[f[i]] /\ f[i] \in K /\ f[i] \in 2 .. Len(o)
      BY <2>7, <2>9, <2>11
    <3>2. p[i] \in T \cup {0} /\ p[i] \in S
      BY <2>1, <2>3, <3>1
    <3> QED
      BY <2>1, <3>2
  <2>15. ASSUME NEW d \in T PROVE \E i \in 2 .. Len(p) : p[i] = d
    <3>1. PICK k \in K : k \in 2 .. Len(o) /\ o[k] = d
      BY <2>4
    <3>2. PICK i \in DOMAIN p : f[i] = k
      BY <2>7
    <3>3. i \in 2 .. Len(p)
      <4>1. i # 1
        BY <2>10, <3>1, <3>2
      <4> QED
        BY <2>8, <4>1
    <3> QED
      BY <2>7, <3>1, <3>2, <3>3
  <2>16. {p[i] : i \in 2 .. Len(p)} = T
    BY <2>14, <2>15
  <2>17. T \in SUBSET (Nat \ {0})
    BY <2>1
  <2> QED
    BY <1>2, <2>6, <2>12, <2>13, <2>16, <2>17 DEF Descends
<1> QED
  BY <1>1, <1>2
-----------------------------------------------------------------------------
(* The list of days: the entries of each *)

Dated(D) == /\ D = [ordered |-> D.ordered, by |-> D.by]
            /\ D.by = [d \in DOMAIN D.by |-> D.by[d]]
            /\ Descends(D.ordered, DOMAIN D.by)

UrlsOn(rows, d) == {e.url : e \in {r \in rows : r.day = d}}
UrlsBy(by, d) == IF d \in DOMAIN by THEN by[d] ELSE {}

\* E is D with a set of rows more.
Adds(E, D, rows) ==
  /\ Dated(E) /\ DOMAIN E.by = DOMAIN D.by \cup {e.day : e \in rows}
  /\ \A d \in DOMAIN E.by : E.by[d] = UrlsBy(D.by, d) \cup UrlsOn(rows, d)

LEMMA NothingAdded ==
  ASSUME NEW D, Dated(D)
  PROVE  Adds(D, D, {})
BY DEF Adds, UrlsBy, UrlsOn

LEMMA NoDatesIs == Dated(DomainLists!NoDates) /\ DOMAIN DomainLists!NoDates.by = {}
<1>1. PICK o, b : o = <<>> /\ b = [d \in {} |-> {}]
  OBVIOUS
<1>2. o \in Seq(Nat) /\ Len(o) = 0 /\ DOMAIN b = {} /\ {} \in SUBSET (Nat \ {0})
  BY <1>1
<1>3. \A i \in 2 .. Len(o) : FALSE
  BY <1>2
<1>4. Descends(o, {})
  BY <1>1, <1>2, <1>3 DEF Descends
<1>5. DomainLists!NoDates = [ordered |-> o, by |-> b]
  BY <1>1 DEF DomainLists!NoDates
<1>6. PICK D : D = DomainLists!NoDates
  OBVIOUS
<1>7. D.ordered = o /\ D.by = b /\ D = [ordered |-> D.ordered, by |-> D.by]
  BY <1>5, <1>6
<1>8. b = [d \in DOMAIN b |-> b[d]]
  BY <1>1
<1> QED
  BY <1>2, <1>4, <1>6, <1>7, <1>8 DEF Dated

LEMMA MoreAdded ==
  ASSUME NEW D, NEW E, NEW F, NEW rows, NEW more, Adds(E, D, rows), Adds(F, E, more)
  PROVE  Adds(F, D, rows \cup more)
<1>1. Dated(F) /\ DOMAIN F.by = DOMAIN E.by \cup {e.day : e \in more}
  BY DEF Adds
<1>2. DOMAIN E.by = DOMAIN D.by \cup {e.day : e \in rows}
  BY DEF Adds
<1>3. DOMAIN F.by = DOMAIN D.by \cup {e.day : e \in rows \cup more}
  <2>1. {e.day : e \in rows \cup more} = {e.day : e \in rows} \cup {e.day : e \in more}
    OBVIOUS
  <2> QED
    BY <1>1, <1>2, <2>1
<1>4. ASSUME NEW d \in DOMAIN F.by PROVE F.by[d] = UrlsBy(D.by, d) \cup UrlsOn(rows \cup more, d)
  <2>1. F.by[d] = UrlsBy(E.by, d) \cup UrlsOn(more, d)
    BY DEF Adds
  <2>2. UrlsOn(rows \cup more, d) = UrlsOn(rows, d) \cup UrlsOn(more, d)
    BY DEF UrlsOn
  <2>3. UrlsBy(E.by, d) = UrlsBy(D.by, d) \cup UrlsOn(rows, d)
    <3>1. CASE d \in DOMAIN E.by
      BY <3>1 DEF Adds, UrlsBy
    <3>2. CASE d \notin DOMAIN E.by
      <4>1. d \notin DOMAIN D.by /\ \A e \in rows : e.day # d
        BY <1>2, <3>2
      <4> QED
        BY <3>2, <4>1 DEF UrlsBy, UrlsOn
    <3> QED
      BY <3>1, <3>2
  <2> QED
    BY <2>1, <2>2, <2>3
<1> QED
  BY <1>1, <1>3, <1>4 DEF Adds

LEMMA EntryInserted ==
  ASSUME NEW D, Dated(D), NEW e \in Entry, e.day # 0
  PROVE  Adds(DomainLists!InsertEntry(D, e), D, {e})
<1>1. PICK E, x : E = DomainLists!InsertEntry(D, e) /\ x = e.day
  OBVIOUS
<1>2. x \in Nat \ {0}
  BY <1>1 DEF Entry
<1>3. /\ D = [ordered |-> D.ordered, by |-> D.by] /\ D.by = [d \in DOMAIN D.by |-> D.by[d]]
      /\ Descends(D.ordered, DOMAIN D.by)
  BY DEF Dated
<1>4. {r.day : r \in {e}} = {x} /\ \A d : UrlsOn({e}, d) = IF d = x THEN {e.url} ELSE {}
  BY <1>1 DEF UrlsOn
<1>5. CASE x \in DOMAIN D.by
  <2>1. E = [D EXCEPT !.by[x] = @ \cup {e.url}]
    BY <1>1, <1>5 DEF DomainLists!InsertEntry
  <2>2. E = [ordered |-> D.ordered, by |-> [D.by EXCEPT ![x] = @ \cup {e.url}]]
    BY <1>3, <2>1
  <2>3. E = [ordered |-> E.ordered, by |-> E.by] /\ E.ordered = D.ordered
        /\ E.by = [D.by EXCEPT ![x] = @ \cup {e.url}]
    BY <2>2
  <2>4. DOMAIN E.by = DOMAIN D.by /\ E.by = [d \in DOMAIN E.by |-> E.by[d]]
    BY <1>3, <2>3
  <2>5. \A d \in DOMAIN E.by : E.by[d] = UrlsBy(D.by, d) \cup UrlsOn({e}, d)
    <3> TAKE d \in DOMAIN E.by
    <3>1. UrlsBy(D.by, d) = D.by[d]
      BY <2>4 DEF UrlsBy
    <3>2. CASE d = x
      BY <1>4, <1>5, <2>3, <3>1, <3>2
    <3>3. CASE d # x
      <4>1. E.by[d] = D.by[d]
        BY <2>3, <2>4, <3>3
      <4> QED
        BY <1>4, <3>1, <3>3, <4>1
    <3> QED
      BY <3>2, <3>3
  <2>6. DOMAIN E.by = DOMAIN D.by \cup {r.day : r \in {e}}
    BY <1>4, <1>5, <2>4
  <2>7. Dated(E)
    BY <1>3, <2>3, <2>4 DEF Dated
  <2> QED
    BY <1>1, <2>5, <2>6, <2>7 DEF Adds
<1>6. CASE x \notin DOMAIN D.by
  <2>1. PICK q, n : /\ q = IF D.ordered = <<>> THEN <<0>> ELSE D.ordered
                    /\ n = DomainLists!Cardinality({i \in 2 .. Len(q) : q[i] >= x})
    OBVIOUS
  <2>2. E = [ordered |-> DomainLists!InsertAt(q, n + 2, x),
             by |-> [d \in DOMAIN D.by \cup {x} |-> IF d = x THEN {e.url} ELSE D.by[d]]]
    BY <1>1, <1>6, <2>1 DEF DomainLists!InsertEntry
  <2>3. /\ E = [ordered |-> E.ordered, by |-> E.by]
        /\ E.ordered = DomainLists!InsertAt(q, n + 2, x)
        /\ E.by = [d \in DOMAIN D.by \cup {x} |-> IF d = x THEN {e.url} ELSE D.by[d]]
    BY <2>2
  <2>4. DOMAIN E.by = DOMAIN D.by \cup {x} /\ E.by = [d \in DOMAIN E.by |-> E.by[d]]
    BY <2>3
  <2>5. Descends(E.ordered, DOMAIN D.by \cup {x})
    BY <1>2, <1>3, <1>6, <2>1, <2>3, DayInserted
  <2>6. \A d \in DOMAIN E.by : E.by[d] = UrlsBy(D.by, d) \cup UrlsOn({e}, d)
    <3> TAKE d \in DOMAIN E.by
    <3>1. CASE d = x
      <4>1. UrlsBy(D.by, d) = {} /\ UrlsOn({e}, d) = {e.url}
        BY <1>4, <1>6, <3>1 DEF UrlsBy
      <4> QED
        BY <2>3, <2>4, <3>1, <4>1
    <3>2. CASE d # x
      <4>1. UrlsBy(D.by, d) = D.by[d] /\ UrlsOn({e}, d) = {}
        BY <1>4, <2>4, <3>2 DEF UrlsBy
      <4>2. E.by[d] = D.by[d]
        BY <2>3, <2>4, <3>2
      <4> QED
        BY <4>1, <4>2
    <3> QED
      BY <3>1, <3>2
  <2>7. Dated(E)
    BY <2>3, <2>4, <2>5 DEF Dated
  <2> QED
    BY <1>1, <1>4, <2>4, <2>6, <2>7 DEF Adds
<1> QED
  BY <1>5, <1>6

\* The days that are kept keep their entries.
LEMMA KeptIs ==
  ASSUME NEW D, Dated(D), NEW T \in SUBSET (DOMAIN D.by)
  PROVE  LET E == DomainLists!Kept(D, T)
         IN Dated(E) /\ DOMAIN E.by = T /\ \A d \in T : E.by[d] = D.by[d]
<1>1. PICK E, o : /\ E = DomainLists!Kept(D, T)
                  /\ o = IF T = {} THEN <<>> ELSE Keep(D.ordered, {i \in DOMAIN D.ordered : D.ordered[i] \in T \cup {0}})
  OBVIOUS
<1>2. E = [ordered |-> o, by |-> [d \in T |-> D.by[d]]]
  BY <1>1, SameKeep DEF DomainLists!Kept
<1>3. E.ordered = o /\ E.by = [d \in T |-> D.by[d]] /\ E = [ordered |-> E.ordered, by |-> E.by]
  BY <1>2
<1>4. DOMAIN E.by = T /\ E.by = [d \in DOMAIN E.by |-> E.by[d]] /\ \A d \in T : E.by[d] = D.by[d]
  BY <1>3
<1>5. Descends(D.ordered, DOMAIN D.by)
  BY DEF Dated
<1>6. Descends(o, T)
  BY <1>1, <1>5, DaysKept
<1> QED
  BY <1>1, <1>3, <1>4, <1>6 DEF Dated

\* E is D without all but the given URLs, and without the days left with none.
Leaves(E, D, valid) ==
  /\ Dated(E) /\ DOMAIN E.by = {d \in DOMAIN D.by : D.by[d] \cap valid # {}}
  /\ \A d \in DOMAIN E.by : E.by[d] = D.by[d] \cap valid

UrlsOf(rows) == {e.url : e \in rows}

\* onRowsRemoved: the days with rows that are left, with those.
LEMMA RowsRemovedIs ==
  ASSUME NEW D, Dated(D), NEW rows
  PROVE  Leaves(DomainLists!RowsRemoved(D, rows), D, UrlsOf(DomainLists!Range(rows)))
<1>0. PICK valid, E : valid = UrlsOf(DomainLists!Range(rows)) /\ E = DomainLists!RowsRemoved(D, rows)
  OBVIOUS
<1>1. PICK b, C, T : /\ b = [d \in DOMAIN D.by |-> D.by[d] \cap valid]
                     /\ C = [D EXCEPT !.by = b]
                     /\ T = {d \in DOMAIN b : b[d] # {}}
  OBVIOUS
<1>2. /\ D = [ordered |-> D.ordered, by |-> D.by] /\ Descends(D.ordered, DOMAIN D.by)
  BY DEF Dated
<1>3. C = [ordered |-> D.ordered, by |-> b]
  BY <1>1, <1>2
<1>4. C.ordered = D.ordered /\ C.by = b /\ C = [ordered |-> C.ordered, by |-> C.by]
  BY <1>3
<1>5. DOMAIN b = DOMAIN D.by /\ b = [d \in DOMAIN b |-> b[d]] /\ \A d \in DOMAIN b : b[d] = D.by[d] \cap valid
  BY <1>1
<1>6. Dated(C)
  BY <1>2, <1>4, <1>5 DEF Dated
<1>7. DomainLists!RowsRemoved(D, rows) = DomainLists!Kept(C, T)
  BY <1>0, <1>1 DEF DomainLists!RowsRemoved, UrlsOf
<1>8. T \in SUBSET (DOMAIN C.by) /\ T = {d \in DOMAIN D.by : D.by[d] \cap valid # {}}
  BY <1>1, <1>4, <1>5
<1>9. E = DomainLists!Kept(C, T)
  BY <1>0, <1>7
<1>10. Dated(E) /\ DOMAIN E.by = T /\ \A d \in T : E.by[d] = C.by[d]
  BY <1>6, <1>8, <1>9, KeptIs
<1>11. \A d \in DOMAIN E.by : E.by[d] = D.by[d] \cap valid
  BY <1>4, <1>5, <1>8, <1>10
<1> QED
  BY <1>0, <1>8, <1>10, <1>11 DEF Leaves
\* onRowsInserted, one row after another.
Turn(D, rows, f, n) == IF n = 0 THEN D ELSE DomainLists!InsertEntry(f[n - 1], rows[n])

LEMMA TurnsExist ==
  ASSUME NEW D, NEW rows, NEW len \in Nat
  PROVE  \E f : f = [n \in 0 .. len |-> Turn(D, rows, f, n)]
<1> DEFINE S == {k \in Nat : \E f : f = [n \in 0 .. k |-> Turn(D, rows, f, n)]}
<1>1. 0 \in S
  <2> DEFINE f == [n \in 0 .. 0 |-> D]
  <2>1. \A n \in 0 .. 0 : Turn(D, rows, f, n) = D
    BY DEF Turn
  <2>2. f = [n \in 0 .. 0 |-> Turn(D, rows, f, n)]
    BY <2>1
  <2> QED
    BY <2>2
<1>2. ASSUME NEW k \in Nat, k \in S PROVE k + 1 \in S
  <2>1. PICK f : f = [n \in 0 .. k |-> Turn(D, rows, f, n)]
    BY <1>2
  <2> DEFINE g == [n \in 0 .. k + 1 |-> Turn(D, rows, f, n)]
  <2>2. \A n \in 0 .. k : g[n] = f[n]
    <3> SUFFICES ASSUME NEW n \in 0 .. k PROVE g[n] = f[n]
      OBVIOUS
    <3>1. n \in 0 .. k + 1
      OBVIOUS
    <3>2. g[n] = Turn(D, rows, f, n)
      BY <3>1
    <3>3. [j \in 0 .. k |-> Turn(D, rows, f, j)][n] = Turn(D, rows, f, n)
      OBVIOUS
    <3> QED
      BY <2>1, <3>2, <3>3
  <2>3. \A n \in 0 .. k + 1 : Turn(D, rows, f, n) = Turn(D, rows, g, n)
    <3> SUFFICES ASSUME NEW n \in 0 .. k + 1 PROVE Turn(D, rows, f, n) = Turn(D, rows, g, n)
      OBVIOUS
    <3>1. CASE n = 0
      BY <3>1 DEF Turn
    <3>2. CASE n # 0
      <4>1. n - 1 \in 0 .. k
        BY <3>2
      <4>2. f[n - 1] = g[n - 1]
        BY <2>2, <4>1
      <4> HIDE DEF g
      <4> QED
        BY <4>2 DEF Turn
    <3> QED
      BY <3>1, <3>2
  <2>4. g = [n \in 0 .. k + 1 |-> Turn(D, rows, g, n)]
    <3>1. g = [n \in 0 .. k + 1 |-> Turn(D, rows, f, n)]
      OBVIOUS
    <3> HIDE DEF g
    <3> QED
      BY <2>3, <3>1
  <2>5. \E h : h = [n \in 0 .. k + 1 |-> Turn(D, rows, h, n)]
    BY <2>4
  <2> QED
    BY <2>5
<1>3. Nat \subseteq S
  <2> HIDE DEF S
  <2> QED
    BY <1>1, <1>2, SetInduction
<1> QED
  BY <1>3

LEMMA EntriesInserted ==
  ASSUME NEW D, Dated(D), NEW rows \in Seq(Entry), \A i \in DOMAIN rows : rows[i].day # 0
  PROVE  Adds(DomainLists!InsertEntries(D, rows), D, DomainLists!Range(rows))
<1> DEFINE F == CHOOSE f : f = [n \in 0 .. Len(rows) |-> Turn(D, rows, f, n)]
           Some(n) == {rows[i] : i \in 1 .. n}
           Good(n) == Adds(F[n], D, Some(n))
           S == {n \in Nat : n <= Len(rows) => Good(n)}
<1>1. Len(rows) \in Nat /\ DOMAIN rows = 1 .. Len(rows)
  OBVIOUS
<1>2. F = [n \in 0 .. Len(rows) |-> Turn(D, rows, F, n)]
  BY <1>1, TurnsExist
<1>3. DomainLists!InsertEntries(D, rows) = F[Len(rows)]
  BY DEF DomainLists!InsertEntries, Turn
<1> HIDE DEF F
<1>4. \A n \in 0 .. Len(rows) : F[n] = Turn(D, rows, F, n)
  BY <1>2
<1>5. 0 \in S
  <2>1. F[0] = D
    BY <1>1, <1>4 DEF Turn
  <2>2. Some(0) = {}
    OBVIOUS
  <2>3. Good(0)
    BY <2>1, <2>2, NothingAdded
  <2> HIDE DEF Good
  <2> QED
    BY <2>3
<1>6. ASSUME NEW n \in Nat, n \in S PROVE n + 1 \in S
  <2> SUFFICES ASSUME n + 1 <= Len(rows) PROVE Good(n + 1)
    OBVIOUS
  <2>1. Adds(F[n], D, Some(n))
    BY <1>1, <1>6
  <2>2. F[n + 1] = DomainLists!InsertEntry(F[n], rows[n + 1])
    <3>1. n + 1 \in 0 .. Len(rows) /\ n + 1 # 0 /\ (n + 1) - 1 = n
      BY <1>1
    <3> QED
      BY <1>4, <3>1 DEF Turn
  <2>3. n + 1 \in DOMAIN rows /\ rows[n + 1] \in Entry /\ rows[n + 1].day # 0
    BY <1>1
  <2>4. Adds(F[n + 1], F[n], {rows[n + 1]})
    <3>1. Dated(F[n])
      BY <2>1 DEF Adds
    <3> QED
      BY <2>2, <2>3, <3>1, EntryInserted
  <2>5. Some(n + 1) = Some(n) \cup {rows[n + 1]}
    OBVIOUS
  <2>6. Adds(F[n + 1], D, Some(n) \cup {rows[n + 1]})
    <3> HIDE DEF Some
    <3> QED
      BY <2>1, <2>4, MoreAdded
  <2> QED
    BY <2>5, <2>6
<1>7. Nat \subseteq S
  <2> HIDE DEF S
  <2> QED
    BY <1>5, <1>6, SetInduction
<1>8. Good(Len(rows))
  <2>1. Len(rows) \in S /\ Len(rows) <= Len(rows)
    <3> HIDE DEF S
    <3> QED
      BY <1>1, <1>7
  <2> HIDE DEF Good
  <2> QED
    BY <2>1
<1>9. Some(Len(rows)) = DomainLists!Range(rows)
  BY <1>1 DEF DomainLists!Range
<1> QED
  BY <1>3, <1>8, <1>9

\* populateModel: the rows, and no other.
LEMMA PopulatedIs ==
  ASSUME NEW rows \in Seq(Entry), \A i \in DOMAIN rows : rows[i].day # 0
  PROVE  Adds(DomainLists!Populated(rows), DomainLists!NoDates, DomainLists!Range(rows))
BY NoDatesIs, EntriesInserted DEF DomainLists!Populated

\* filterAcceptsRow: the rows with a URL of the set.
LEMMA AcceptedIs ==
  ASSUME NEW es \in Seq(Entry), NEW urls
  PROVE  LET rows == DomainLists!Accepted(es, urls)
         IN /\ rows \in Seq(Entry)
            /\ DomainLists!Range(rows) = {e \in DomainLists!Range(es) : e.url \in urls}
<1> DEFINE K == {i \in DOMAIN es : es[i].url \in urls}
<1>1. PICK T, rows : T = Entry /\ rows = DomainLists!Accepted(es, urls)
  OBVIOUS
<1>2. rows = Keep(es, K)
  BY <1>1, SameKeep DEF DomainLists!Accepted
<1>3. es \in Seq(T) /\ K \in SUBSET (DOMAIN es) /\ K = {i \in DOMAIN es : es[i].url \in urls}
  BY <1>1
<1> HIDE DEF K
<1>4. rows \in Seq(T) /\ Selects(rows, es, K)
  BY <1>2, <1>3, KeepElements, Zenon
<1>5. PICK f \in [DOMAIN rows -> K] : /\ \A k \in K : \E i \in DOMAIN rows : f[i] = k
                                      /\ \A i \in DOMAIN rows : rows[i] = es[f[i]]
  BY <1>4 DEF Selects
<1>6. DomainLists!Range(rows) = {rows[i] : i \in DOMAIN rows} /\ DomainLists!Range(es) = {es[i] : i \in DOMAIN es}
  BY DEF DomainLists!Range
<1>7. \A e \in DomainLists!Range(rows) : e \in DomainLists!Range(es) /\ e.url \in urls
  BY <1>3, <1>5, <1>6
<1>8. ASSUME NEW e \in DomainLists!Range(es), e.url \in urls PROVE e \in DomainLists!Range(rows)
  <2>1. PICK k \in DOMAIN es : e = es[k]
    BY <1>6
  <2>2. k \in K
    BY <1>3, <1>8, <2>1
  <2>3. PICK i \in DOMAIN rows : f[i] = k
    BY <1>5, <2>2
  <2> QED
    BY <1>5, <1>6, <2>1, <2>3
<1> QED
  BY <1>1, <1>4, <1>7, <1>8
-----------------------------------------------------------------------------
(* The entries: each page once, the page visited last first *)

Ordered(es, t) ==
  /\ es \in Seq(Entry)
  /\ \A i \in DOMAIN es : es[i].day \in 1 .. t
  /\ \A i, j \in DOMAIN es : i < j => es[i].url # es[j].url /\ es[i].day >= es[j].day

LEMMA OrderedAreOnce ==
  ASSUME NEW es, NEW t, Ordered(es, t)
  PROVE  /\ \A r, s \in DomainLists!Range(es) : r.url = s.url => r = s
         /\ \A r \in DomainLists!Range(es) : r \in Entry /\ r.day # 0
<1>1. es \in Seq(Entry) /\ \A i \in DOMAIN es : es[i].day # 0
  BY DEF Ordered
<1>2. DOMAIN es \in SUBSET Nat /\ \A i \in DOMAIN es : es[i] \in Entry
  BY <1>1
<1>3. \A i, j \in DOMAIN es : i < j => es[i].url # es[j].url
  BY DEF Ordered
<1>4. \A i, j \in DOMAIN es : es[i].url = es[j].url => i = j
  <2> TAKE i, j \in DOMAIN es
  <2>1. i < j \/ j < i \/ i = j
    BY <1>2
  <2> QED
    BY <1>3, <2>1
<1> QED
  BY <1>1, <1>2, <1>4 DEF DomainLists!Range

LEMMA OrderedOnTop ==
  ASSUME NEW es, NEW t \in Nat \ {0}, Ordered(es, t), NEW e \in Entry, e.day = t,
         \A i \in DOMAIN es : es[i].url # e.url,
         NEW fs, fs = <<e>> \o es
  PROVE  Ordered(fs, t) /\ DomainLists!Range(fs) = DomainLists!Range(es) \cup {e}
<1>1. es \in Seq(Entry) /\ Len(es) \in Nat /\ DOMAIN es = 1 .. Len(es)
  <2>1. es \in Seq(Entry)
    BY DEF Ordered
  <2> QED
    BY <2>1
<1>2. /\ fs \in Seq(Entry) /\ DOMAIN fs = 1 .. Len(es) + 1 /\ fs[1] = e
      /\ \A i \in 1 .. Len(es) : fs[i + 1] = es[i]
  BY <1>1, PutOnTop
<1>3. \A i \in DOMAIN fs : i = 1 \/ (i - 1 \in DOMAIN es /\ fs[i] = es[i - 1])
  <2> TAKE i \in DOMAIN fs
  <2>1. CASE i # 1
    <3>1. i - 1 \in 1 .. Len(es) /\ (i - 1) + 1 = i
      BY <1>1, <1>2, <2>1
    <3> QED
      BY <1>1, <1>2, <3>1
  <2> QED
    BY <2>1
<1>4. \A i \in DOMAIN es : i + 1 \in DOMAIN fs /\ fs[i + 1] = es[i]
  BY <1>1, <1>2
<1>5. 1 \in DOMAIN fs
  BY <1>1, <1>2
<1>6. \A i \in DOMAIN es : es[i].day \in 1 .. t /\ es[i].day \in Nat /\ es[i].day <= t
  <2>1. \A i \in DOMAIN es : es[i].day \in 1 .. t
    BY DEF Ordered
  <2> QED
    BY <2>1
<1>7. \A i, j \in DOMAIN es : i < j => es[i].url # es[j].url /\ es[i].day >= es[j].day
  BY DEF Ordered
<1>8. \A i \in DOMAIN fs : fs[i].day \in 1 .. t
  BY <1>2, <1>3, <1>6
<1>9. ASSUME NEW i \in DOMAIN fs, NEW j \in DOMAIN fs, i < j
      PROVE  fs[i].url # fs[j].url /\ fs[i].day >= fs[j].day
  <2>1. j - 1 \in DOMAIN es /\ fs[j] = es[j - 1]
    BY <1>2, <1>3, <1>9
  <2>2. CASE i = 1
    <3>1. fs[i] = e /\ es[j - 1].day \in Nat /\ es[j - 1].day <= t
      BY <1>2, <1>6, <2>1, <2>2
    <3> QED
      BY <2>1, <3>1
  <2>3. CASE i # 1
    <3>1. i - 1 \in DOMAIN es /\ fs[i] = es[i - 1] /\ i - 1 < j - 1
      BY <1>2, <1>3, <1>9, <2>3
    <3> QED
      BY <1>7, <2>1, <3>1
  <2> QED
    BY <2>2, <2>3
<1>10. DomainLists!Range(fs) = DomainLists!Range(es) \cup {e}
  <2>1. \A i \in DOMAIN fs : fs[i] = e \/ \E j \in DOMAIN es : fs[i] = es[j]
    BY <1>2, <1>3
  <2>2. \A j \in DOMAIN es : \E i \in DOMAIN fs : fs[i] = es[j]
    BY <1>4
  <2>3. \E i \in DOMAIN fs : fs[i] = e
    BY <1>2, <1>5
  <2>4. DomainLists!Range(fs) = {fs[i] : i \in DOMAIN fs} /\ DomainLists!Range(es) = {es[j] : j \in DOMAIN es}
    BY DEF DomainLists!Range
  <2>5. DomainLists!Range(fs) \subseteq DomainLists!Range(es) \cup {e}
    BY <2>1, <2>4
  <2>6. DomainLists!Range(es) \subseteq DomainLists!Range(fs)
    BY <2>2, <2>4
  <2>7. e \in DomainLists!Range(fs)
    BY <2>3, <2>4
  <2> QED
    BY <2>5, <2>6, <2>7
<1> QED
  BY <1>2, <1>8, <1>9, <1>10 DEF Ordered

LEMMA OrderedWithout ==
  ASSUME NEW es, NEW t, Ordered(es, t), NEW k \in 1 .. Len(es), NEW fs, fs = DomainLists!RemoveAt(es, k)
  PROVE  /\ Ordered(fs, t) /\ DomainLists!Range(fs) = DomainLists!Range(es) \ {es[k]}
         /\ \A i \in DOMAIN fs : fs[i].url # es[k].url
         /\ \A i \in DOMAIN fs : \E j \in DOMAIN es : j # k /\ fs[i] = es[j]
<1>1. es \in Seq(Entry) /\ Len(es) \in Nat /\ DOMAIN es = 1 .. Len(es)
  <2>1. es \in Seq(Entry)
    BY DEF Ordered
  <2> QED
    BY <2>1
<1>2. /\ fs \in Seq(Entry) /\ DOMAIN fs = 1 .. Len(es) - 1
      /\ \A i \in 1 .. Len(es) - 1 : fs[i] = IF i < k THEN es[i] ELSE es[i + 1]
  BY <1>1, TakenOut
<1> DEFINE at(i) == IF i < k THEN i ELSE i + 1
<1>3. ASSUME NEW i \in DOMAIN fs PROVE at(i) \in DOMAIN es /\ at(i) # k /\ fs[i] = es[at(i)]
  <2>0. i \in 1 .. Len(es) - 1
    BY <1>2
  <2>1. CASE i < k
    <3>1. at(i) = i /\ i \in DOMAIN es /\ i # k
      BY <1>1, <2>0, <2>1
    <3>2. fs[i] = es[i]
      BY <1>2, <2>0, <2>1
    <3> QED
      BY <3>1, <3>2
  <2>2. CASE ~(i < k)
    <3>1. at(i) = i + 1 /\ i + 1 \in DOMAIN es /\ i + 1 # k
      BY <1>1, <2>0, <2>2
    <3>2. fs[i] = es[i + 1]
      BY <1>2, <2>0, <2>2
    <3> QED
      BY <3>1, <3>2
  <2> QED
    BY <2>1, <2>2
<1>4. ASSUME NEW i \in DOMAIN fs, NEW j \in DOMAIN fs, i < j PROVE at(i) < at(j)
  <2>1. i \in Nat /\ j \in Nat
    BY <1>2
  <2> QED
    BY <1>1, <1>4, <2>1
<1>5. \A m \in DOMAIN es : m # k => \E i \in DOMAIN fs : at(i) = m
  <2> TAKE m \in DOMAIN es
  <2> HAVE m # k
  <2>1. CASE m < k
    <3>1. m \in DOMAIN fs /\ at(m) = m
      BY <1>1, <1>2, <2>1
    <3> QED
      BY <3>1
  <2>2. CASE ~(m < k)
    <3>1. m - 1 \in 1 .. Len(es) - 1 /\ ~(m - 1 < k) /\ (m - 1) + 1 = m
      BY <1>1, <2>2
    <3>2. m - 1 \in DOMAIN fs /\ at(m - 1) = m
      BY <1>2, <3>1
    <3> QED
      BY <3>2
  <2> QED
    BY <2>1, <2>2
<1> HIDE DEF at
<1>6. \A i, j \in DOMAIN es : i < j => es[i].url # es[j].url /\ es[i].day >= es[j].day
  BY DEF Ordered
<1>7. \A i \in DOMAIN es : es[i].day \in 1 .. t
  BY DEF Ordered
<1>8. Ordered(fs, t)
  <2>1. \A i \in DOMAIN fs : fs[i].day \in 1 .. t
    BY <1>3, <1>7
  <2>2. \A i, j \in DOMAIN fs : i < j => fs[i].url # fs[j].url /\ fs[i].day >= fs[j].day
    BY <1>3, <1>4, <1>6
  <2> QED
    BY <1>2, <2>1, <2>2 DEF Ordered
<1>9. \A j \in DOMAIN es : j # k => es[j].url # es[k].url
  <2> TAKE j \in DOMAIN es
  <2> HAVE j # k
  <2>1. (j < k \/ k < j) /\ k \in DOMAIN es
    BY <1>1
  <2> QED
    BY <1>6, <2>1
<1>10. \A i \in DOMAIN fs : fs[i].url # es[k].url /\ fs[i] # es[k]
  BY <1>3, <1>9
<1>11. DomainLists!Range(fs) = DomainLists!Range(es) \ {es[k]}
  <2>1. \A i \in DOMAIN fs : \E j \in DOMAIN es : fs[i] = es[j]
    BY <1>3
  <2>2. \A j \in DOMAIN es : es[j] # es[k] => \E i \in DOMAIN fs : fs[i] = es[j]
    <3> TAKE j \in DOMAIN es
    <3> HAVE es[j] # es[k]
    <3>1. PICK i \in DOMAIN fs : at(i) = j
      BY <1>5
    <3> QED
      BY <1>3, <3>1
  <2> QED
    BY <1>10, <2>1, <2>2 DEF DomainLists!Range
<1> QED
  BY <1>3, <1>8, <1>10, <1>11

-----------------------------------------------------------------------------
(* The days that are listed: exactly those of the rows, or those at least *)

Exact(D, rows) == Adds(D, DomainLists!NoDates, rows)
Covers(D, rows) == Dated(D) /\ \A r \in rows : r.day \in DOMAIN D.by /\ r.url \in D.by[r.day]

LEMMA ExactIs ==
  ASSUME NEW D, NEW rows
  PROVE  Exact(D, rows) <=> /\ Dated(D) /\ DOMAIN D.by = {r.day : r \in rows}
                            /\ \A d \in DOMAIN D.by : D.by[d] = UrlsOn(rows, d)
<1>1. \A d : UrlsBy(DomainLists!NoDates.by, d) = {}
  BY NoDatesIs DEF UrlsBy
<1>2. DOMAIN DomainLists!NoDates.by = {}
  BY NoDatesIs
<1> QED
  BY <1>1, <1>2 DEF Exact, Adds

LEMMA ExactCovers ==
  ASSUME NEW D, NEW rows, Exact(D, rows)
  PROVE  Covers(D, rows)
BY ExactIs DEF Covers, UrlsOn

LEMMA CoversMore ==
  ASSUME NEW D, NEW E, NEW rows, NEW more, Covers(D, rows), Adds(E, D, more)
  PROVE  Covers(E, rows \cup more)
<1>1. ASSUME NEW r \in rows PROVE r.day \in DOMAIN E.by /\ r.url \in E.by[r.day]
  <2>1. r.day \in DOMAIN D.by /\ r.url \in D.by[r.day] /\ r.day \in DOMAIN E.by
    BY DEF Covers, Adds
  <2>2. E.by[r.day] = UrlsBy(D.by, r.day) \cup UrlsOn(more, r.day)
    BY <2>1 DEF Adds
  <2> QED
    BY <2>1, <2>2 DEF UrlsBy
<1>2. ASSUME NEW r \in more PROVE r.day \in DOMAIN E.by /\ r.url \in E.by[r.day]
  <2>1. r.day \in DOMAIN E.by /\ r.url \in UrlsOn(more, r.day)
    BY DEF Adds, UrlsOn
  <2>2. E.by[r.day] = UrlsBy(D.by, r.day) \cup UrlsOn(more, r.day)
    BY <2>1 DEF Adds
  <2> QED
    BY <2>1, <2>2
<1> QED
  BY <1>1, <1>2 DEF Covers, Adds

LEMMA ExactAfterRemoval ==
  ASSUME NEW D, NEW rs, Exact(D, rs), \A r, s \in rs : r.url = s.url => r = s,
         NEW rows, NEW left, left = DomainLists!Range(rows), left \subseteq rs
  PROVE  Exact(DomainLists!RowsRemoved(D, rows), left)
<1>1. PICK E, valid : E = DomainLists!RowsRemoved(D, rows) /\ valid = UrlsOf(left)
  OBVIOUS
<1>2. /\ Dated(D) /\ DOMAIN D.by = {r.day : r \in rs}
      /\ \A d \in DOMAIN D.by : D.by[d] = UrlsOn(rs, d)
  BY ExactIs
<1>3. /\ Dated(E) /\ DOMAIN E.by = {d \in DOMAIN D.by : D.by[d] \cap valid # {}}
      /\ \A d \in DOMAIN E.by : E.by[d] = D.by[d] \cap valid
  <2>1. Leaves(E, D, valid)
    BY <1>1, <1>2, RowsRemovedIs
  <2> QED
    BY <2>1 DEF Leaves
<1>4. \A d : UrlsOn(rs, d) \cap valid = UrlsOn(left, d)
  <2> TAKE d
  <2>1. ASSUME NEW x \in UrlsOn(rs, d), x \in valid PROVE x \in UrlsOn(left, d)
    <3>1. PICK r \in rs, s \in left : r.url = x /\ r.day = d /\ s.url = x
      BY <1>1, <2>1 DEF UrlsOn, UrlsOf
    <3>2. r = s
      BY <3>1
    <3> QED
      BY <3>1, <3>2 DEF UrlsOn
  <2>2. ASSUME NEW x \in UrlsOn(left, d) PROVE x \in UrlsOn(rs, d) /\ x \in valid
    BY <1>1 DEF UrlsOn, UrlsOf
  <2> QED
    BY <2>1, <2>2
<1>5. DOMAIN E.by = {r.day : r \in left}
  <2>1. \A d \in DOMAIN E.by : UrlsOn(left, d) # {}
    BY <1>2, <1>3, <1>4
  <2>2. ASSUME NEW r \in left PROVE r.day \in DOMAIN E.by
    <3>1. r.url \in UrlsOn(left, r.day) /\ r.day \in DOMAIN D.by
      BY <1>2 DEF UrlsOn
    <3> QED
      BY <1>2, <1>3, <1>4, <3>1
  <2> QED
    BY <2>1, <2>2 DEF UrlsOn
<1>6. \A d \in DOMAIN E.by : E.by[d] = UrlsOn(left, d)
  BY <1>2, <1>3, <1>4
<1> QED
  BY <1>1, <1>3, <1>5, <1>6, ExactIs

LEMMA CoversAfterRemoval ==
  ASSUME NEW D, NEW rs, Covers(D, rs), NEW rows, NEW left, left = DomainLists!Range(rows), left \subseteq rs
  PROVE  Covers(DomainLists!RowsRemoved(D, rows), left)
<1>1. PICK E, valid : E = DomainLists!RowsRemoved(D, rows) /\ valid = UrlsOf(left)
  OBVIOUS
<1>2. /\ Dated(E) /\ DOMAIN E.by = {d \in DOMAIN D.by : D.by[d] \cap valid # {}}
      /\ \A d \in DOMAIN E.by : E.by[d] = D.by[d] \cap valid
  <2>1. Dated(D)
    BY DEF Covers
  <2>2. Leaves(E, D, valid)
    BY <1>1, <2>1, RowsRemovedIs
  <2> QED
    BY <2>2 DEF Leaves
<1>3. ASSUME NEW r \in left PROVE r.day \in DOMAIN E.by /\ r.url \in E.by[r.day]
  <2>1. r.day \in DOMAIN D.by /\ r.url \in D.by[r.day] /\ r.url \in valid
    BY <1>1 DEF Covers, UrlsOf
  <2> QED
    BY <1>2, <2>1
<1> QED
  BY <1>1, <1>2, <1>3 DEF Covers

\* onRowsMoved: the days of the other rows are outside of the bounds.
LEMMA CoversAfterMove ==
  ASSUME NEW D, NEW es, NEW t \in Nat \ {0}, Ordered(es, t), Covers(D, DomainLists!Range(es)),
         NEW k \in 1 .. Len(es), k > 1, NEW e \in Entry, e.day = t, e.url = es[k].url,
         NEW rows, rows = <<e>> \o DomainLists!RemoveAt(es, k)
  PROVE  Covers(DomainLists!RowsMoved(D, rows, k), DomainLists!Range(rows))
<1>1. es \in Seq(Entry) /\ Len(es) \in Nat /\ DOMAIN es = 1 .. Len(es) /\ k \in Nat
  <2>1. es \in Seq(Entry)
    BY DEF Ordered
  <2> QED
    BY <2>1
<1>2. PICK fs : fs = DomainLists!RemoveAt(es, k)
  OBVIOUS
<1>3. /\ fs \in Seq(Entry) /\ Len(fs) = Len(es) - 1 /\ DOMAIN fs = 1 .. Len(es) - 1
      /\ \A i \in 1 .. Len(es) - 1 : fs[i] = IF i < k THEN es[i] ELSE es[i + 1]
  BY <1>1, <1>2, TakenOut
<1>4. /\ Ordered(fs, t) /\ \A i \in DOMAIN fs : fs[i].url # e.url
      /\ \A i \in DOMAIN fs : \E j \in DOMAIN es : j # k /\ fs[i] = es[j]
  BY <1>2, OrderedWithout
<1>5. DomainLists!Range(rows) = DomainLists!Range(fs) \cup {e}
  <2>1. Ordered(fs, t) /\ (\A i \in DOMAIN fs : fs[i].url # e.url) /\ rows = <<e>> \o fs
    BY <1>2, <1>4
  <2> QED
    BY <2>1, OrderedOnTop
<1>6. /\ Len(rows) = Len(es) /\ rows[1] = e
      /\ \A i \in 1 .. Len(fs) : rows[i + 1] = fs[i]
  <2>1. /\ Len(rows) = Len(fs) + 1 /\ rows[1] = e
        /\ \A i \in 1 .. Len(fs) : rows[i + 1] = fs[i]
    BY <1>2, <1>3, PutOnTop
  <2>2. Len(fs) + 1 = Len(es)
    BY <1>1, <1>3
  <2> QED
    BY <2>1, <2>2
<1>7. rows[k] = es[k - 1] /\ k - 1 \in DOMAIN es
  <2>1. k - 1 \in 1 .. Len(fs) /\ k - 1 < k /\ (k - 1) + 1 = k /\ k - 1 \in DOMAIN es
    BY <1>1, <1>3
  <2>2. rows[k] = fs[k - 1]
    BY <1>6, <2>1
  <2>3. fs[k - 1] = es[k - 1]
    BY <1>3, <2>1
  <2> QED
    BY <2>1, <2>2, <2>3
<1>8. k < Len(es) => rows[k + 1] = es[k + 1] /\ k + 1 \in DOMAIN es
  <2> HAVE k < Len(es)
  <2>1. k \in 1 .. Len(fs) /\ ~(k < k) /\ k + 1 \in DOMAIN es
    BY <1>1, <1>3
  <2>2. rows[k + 1] = fs[k]
    BY <1>6, <2>1
  <2>3. fs[k] = es[k + 1]
    BY <1>3, <2>1
  <2> QED
    BY <2>1, <2>2, <2>3
<1>9. PICK b, T : /\ b = DomainLists!Bounds(rows, k, D)
                  /\ T = {d \in DOMAIN D.by : ~(b.lower < d /\ d < b.upper)}
  OBVIOUS
<1>10. b.upper = es[k - 1].day /\ (k < Len(es) => b.lower = es[k + 1].day)
  BY <1>6, <1>7, <1>8, <1>9 DEF DomainLists!Bounds
<1>11. \A i, j \in DOMAIN es : i < j => es[i].day >= es[j].day
  BY DEF Ordered
<1>12. \A i \in DOMAIN es : es[i].day \in Nat
  <2>1. \A i \in DOMAIN es : es[i] \in Entry
    BY <1>1
  <2> QED
    BY <2>1 DEF Entry
<1>13. ASSUME NEW r \in DomainLists!Range(fs)
       PROVE  r \in DomainLists!Range(es) /\ ~(b.lower < r.day /\ r.day < b.upper)
  <2>1. PICK j \in DOMAIN es : j # k /\ r = es[j]
    BY <1>4 DEF DomainLists!Range
  <2>2. CASE j < k
    <3>1. es[j].day >= es[k - 1].day
      <4>1. j = k - 1 \/ j < k - 1
        BY <1>1, <2>2
      <4> QED
        BY <1>7, <1>11, <1>12, <4>1
    <3>2. es[j].day \in Nat /\ es[k - 1].day \in Nat
      BY <1>7, <1>12
    <3>3. ~(es[j].day < es[k - 1].day)
      BY <3>1, <3>2
    <3> QED
      BY <1>10, <2>1, <3>3 DEF DomainLists!Range
  <2>3. CASE j > k
    <3>1. k < Len(es) /\ (j = k + 1 \/ k + 1 < j)
      BY <1>1, <2>3
    <3>2. es[k + 1].day >= es[j].day
      BY <1>8, <1>11, <1>12, <3>1
    <3>3. es[j].day \in Nat /\ es[k + 1].day \in Nat
      BY <1>8, <1>12, <3>1
    <3>4. ~(es[k + 1].day < es[j].day)
      BY <3>2, <3>3
    <3> QED
      BY <1>10, <2>1, <3>1, <3>4 DEF DomainLists!Range
  <2> QED
    BY <1>1, <2>1, <2>2, <2>3
<1>14. PICK E : E = DomainLists!Kept(D, T)
  OBVIOUS
<1>15. Dated(E) /\ DOMAIN E.by = T /\ \A d \in T : E.by[d] = D.by[d]
  <2>1. Dated(D) /\ T \in SUBSET (DOMAIN D.by)
    BY <1>9 DEF Covers
  <2> QED
    BY <1>14, <2>1, KeptIs
<1>16. Covers(E, DomainLists!Range(fs))
  <2>1. ASSUME NEW r \in DomainLists!Range(fs) PROVE r.day \in DOMAIN E.by /\ r.url \in E.by[r.day]
    <3>1. r.day \in DOMAIN D.by /\ r.url \in D.by[r.day]
      BY <1>13 DEF Covers
    <3>2. r.day \in T
      BY <1>9, <1>13, <3>1
    <3> QED
      BY <1>15, <3>1, <3>2
  <2> QED
    BY <1>15, <2>1 DEF Covers
<1>17. DomainLists!RowsMoved(D, rows, k) = DomainLists!InsertEntry(E, e)
  BY <1>6, <1>9, <1>14 DEF DomainLists!RowsMoved
<1>18. Adds(DomainLists!InsertEntry(E, e), E, {e})
  BY <1>15, EntryInserted
<1>19. Covers(DomainLists!InsertEntry(E, e), DomainLists!Range(fs) \cup {e})
  BY <1>16, <1>18, CoversMore
<1> QED
  BY <1>5, <1>17, <1>19
-----------------------------------------------------------------------------
(* The steps of the history, and the list of days of the browser *)

InOrderNow == Ordered(entries, today) /\ today \in Nat \ {0}
Matches == {e \in DomainLists!Range(entries) : e.url \in matching}

LEMMA TopIs ==
  ASSUME InOrderNow, NEW u \in Pages, NEW e, e = DomainLists!Top(u)
  PROVE  e \in Entry /\ e.url = u /\ e.day = today /\ e.day # 0
BY DEF InOrderNow, DomainLists!Top, Entry

LEMMA VisitsStep ==
  ASSUME InOrderNow, NEW u \in Pages, Visits(u), today' = today, NEW e, e = DomainLists!Top(u)
  PROVE  InOrderNow' /\ DomainLists!Range(entries') = DomainLists!Range(entries) \cup {e}
<1>1. e \in Entry /\ e.url = u /\ e.day = today
  BY TopIs
<1>2. \A i \in DOMAIN entries : entries[i].url # e.url
  <2>1. entries \in Seq(Entry)
    BY DEF InOrderNow, Ordered
  <2>2. DomainLists!IndexOf(u) = 0
    BY DEF Visits
  <2> QED
    BY <1>1, <2>1, <2>2, IndexIs
<1>3. Ordered(entries, today) /\ today \in Nat \ {0} /\ entries' = <<e>> \o entries
  BY DEF InOrderNow, Visits
<1>4. Ordered(entries', today) /\ DomainLists!Range(entries') = DomainLists!Range(entries) \cup {e}
  BY <1>1, <1>2, <1>3, OrderedOnTop
<1> QED
  BY <1>3, <1>4 DEF InOrderNow

LEMMA IndexFound ==
  ASSUME InOrderNow, NEW u, NEW k, k = DomainLists!IndexOf(u), k # 0
  PROVE  k \in 1 .. Len(entries) /\ entries[k].url = u
<1>1. entries \in Seq(Entry)
  BY DEF InOrderNow, Ordered
<1> QED
  BY <1>1, IndexIs

LEMMA VisitsAgainStep ==
  ASSUME InOrderNow, NEW u \in Pages, VisitsAgain(u), today' = today, NEW e, e = DomainLists!Top(u),
         NEW k, k = DomainLists!IndexOf(u)
  PROVE  /\ InOrderNow' /\ k \in 1 .. Len(entries) /\ k > 1 /\ e.url = entries[k].url
         /\ entries' = <<e>> \o DomainLists!RemoveAt(entries, k)
<1>1. e \in Entry /\ e.url = u /\ e.day = today
  BY TopIs
<1>2. k # 0 /\ k > 1 /\ entries' = <<e>> \o DomainLists!RemoveAt(entries, k)
  BY DEF VisitsAgain
<1>3. k \in 1 .. Len(entries) /\ entries[k].url = u
  BY <1>2, IndexFound
<1>4. PICK fs : fs = DomainLists!RemoveAt(entries, k)
  OBVIOUS
<1>5. Ordered(entries, today) /\ today \in Nat \ {0}
  BY DEF InOrderNow
<1>6. Ordered(fs, today) /\ \A i \in DOMAIN fs : fs[i].url # entries[k].url
  BY <1>3, <1>4, <1>5, OrderedWithout
<1>7. (\A i \in DOMAIN fs : fs[i].url # e.url) /\ entries' = <<e>> \o fs
  BY <1>1, <1>2, <1>3, <1>4, <1>6
<1>8. Ordered(entries', today)
  BY <1>1, <1>5, <1>6, <1>7, OrderedOnTop
<1> QED
  BY <1>1, <1>2, <1>3, <1>5, <1>8 DEF InOrderNow

LEMMA ForgetsStep ==
  ASSUME InOrderNow, NEW u \in Pages, Forgets(u), today' = today, NEW k, k = DomainLists!IndexOf(u)
  PROVE  /\ InOrderNow' /\ DomainLists!Range(entries') = DomainLists!Range(entries) \ {entries[k]}
         /\ entries[k].url = u
<1>1. k # 0 /\ entries' = DomainLists!RemoveAt(entries, k)
  BY DEF Forgets
<1>2. k \in 1 .. Len(entries) /\ entries[k].url = u
  BY <1>1, IndexFound
<1>3. Ordered(entries, today) /\ today \in Nat \ {0}
  BY DEF InOrderNow
<1>4. Ordered(entries', today) /\ DomainLists!Range(entries') = DomainLists!Range(entries) \ {entries[k]}
  BY <1>1, <1>2, <1>3, OrderedWithout
<1> QED
  BY <1>2, <1>3, <1>4 DEF InOrderNow

LEMMA OnTopAgainStep ==
  ASSUME InOrderNow, NEW u \in Pages, OnTopAgain(u)
  PROVE  entries' = entries
<1>1. PICK k : k = DomainLists!IndexOf(u)
  OBVIOUS
<1>2. k # 0 /\ k = 1 /\ entries[1].day = today /\ entries' = [entries EXCEPT ![1] = DomainLists!Top(u)]
  BY <1>1 DEF OnTopAgain
<1>3. entries \in Seq(Entry)
  BY DEF InOrderNow, Ordered
<1>4. k \in 1 .. Len(entries) /\ entries[k].url = u
  BY <1>1, <1>2, IndexFound
<1>5. entries[1] \in Entry /\ entries[1].url = u
  BY <1>2, <1>3, <1>4
<1>6. entries[1] = DomainLists!Top(u)
  BY <1>2, <1>5 DEF DomainLists!Top, Entry
<1> QED
  BY <1>2, <1>3, <1>6

\* The rows of entries that are in order can be populated.
LEMMA RowsAre ==
  ASSUME NEW es, NEW t, Ordered(es, t), NEW urls, NEW rows, rows = DomainLists!Accepted(es, urls)
  PROVE  /\ rows \in Seq(Entry) /\ \A i \in DOMAIN rows : rows[i].day # 0
         /\ DomainLists!Range(rows) = {e \in DomainLists!Range(es) : e.url \in urls}
<1>1. es \in Seq(Entry)
  BY DEF Ordered
<1>2. rows \in Seq(Entry) /\ DomainLists!Range(rows) = {e \in DomainLists!Range(es) : e.url \in urls}
  BY <1>1, AcceptedIs
<1>3. \A i \in DOMAIN rows : rows[i] \in DomainLists!Range(es)
  BY <1>2 DEF DomainLists!Range
<1> QED
  BY <1>2, <1>3, OrderedAreOnce

LEMMA PopulatedExact ==
  ASSUME NEW es, NEW t, Ordered(es, t), NEW urls
  PROVE  Exact(DomainLists!Populated(DomainLists!Accepted(es, urls)),
               {e \in DomainLists!Range(es) : e.url \in urls})
<1>1. PICK rows : rows = DomainLists!Accepted(es, urls)
  OBVIOUS
<1>2. /\ rows \in Seq(Entry) /\ \A i \in DOMAIN rows : rows[i].day # 0
      /\ DomainLists!Range(rows) = {e \in DomainLists!Range(es) : e.url \in urls}
  BY <1>1, RowsAre
<1>3. Exact(DomainLists!Populated(rows), DomainLists!Range(rows))
  BY <1>2, PopulatedIs DEF Exact
<1> QED
  BY <1>1, <1>2, <1>3

\* setTerms: the rows that do not match any more go, and those that match now come.
LEMMA SetTermsStep ==
  ASSUME InOrderNow, Exact(dates, Matches), NEW m, DomainLists!SetTerms(m)
  PROVE  InOrderNow' /\ Exact(dates', Matches')
<1>1. /\ entries' = entries /\ today' = today /\ matching' = m
      /\ dates' = DomainLists!InsertEntries(
                    IF \A e \in DomainLists!Range(DomainLists!Rows(entries)) : e.url \in m THEN dates
                    ELSE DomainLists!RowsRemoved(dates, DomainLists!Accepted(DomainLists!Rows(entries), m)),
                    DomainLists!Accepted(entries, m \ matching))
  BY DEF DomainLists!SetTerms
<1>2. PICK rows : rows = DomainLists!Rows(entries)
  OBVIOUS
<1>3. rows = DomainLists!Accepted(entries, matching)
  BY <1>2 DEF DomainLists!Rows
<1>4. Ordered(entries, today)
  BY DEF InOrderNow
<1>5. rows \in Seq(Entry) /\ DomainLists!Range(rows) = Matches
  BY <1>3, <1>4, RowsAre DEF Matches
<1>6. PICK left : left = DomainLists!Accepted(rows, m)
  OBVIOUS
<1>7. PICK stay : stay = {e \in Matches : e.url \in m}
  OBVIOUS
<1>8. DomainLists!Range(left) = stay
  BY <1>5, <1>6, <1>7, AcceptedIs
<1>9. PICK D : D = IF \A e \in Matches : e.url \in m THEN dates ELSE DomainLists!RowsRemoved(dates, left)
  OBVIOUS
<1>10. Exact(D, stay)
  <2>1. CASE \A e \in Matches : e.url \in m
    <3>1. stay = Matches
      BY <1>7, <2>1
    <3> QED
      BY <1>9, <2>1, <3>1
  <2>2. CASE ~(\A e \in Matches : e.url \in m)
    <3>1. D = DomainLists!RowsRemoved(dates, left)
      BY <1>9, <2>2
    <3>2. \A r, s \in Matches : r.url = s.url => r = s
      BY <1>4, OrderedAreOnce DEF Matches
    <3>3. stay \subseteq Matches
      BY <1>7
    <3> QED
      BY <1>8, <3>1, <3>2, <3>3, ExactAfterRemoval
  <2> QED
    BY <2>1, <2>2
<1>11. PICK new : new = DomainLists!Accepted(entries, m \ matching)
  OBVIOUS
<1>12. /\ new \in Seq(Entry) /\ \A i \in DOMAIN new : new[i].day # 0
       /\ DomainLists!Range(new) = {e \in DomainLists!Range(entries) : e.url \in m \ matching}
  BY <1>4, <1>11, RowsAre
<1>13. dates' = DomainLists!InsertEntries(D, new)
  BY <1>1, <1>2, <1>5, <1>6, <1>9, <1>11
<1>14. Adds(dates', D, DomainLists!Range(new))
  <2>1. Dated(D)
    BY <1>10 DEF Exact, Adds
  <2> QED
    BY <1>12, <1>13, <2>1, EntriesInserted
<1>15. Exact(dates', stay \cup DomainLists!Range(new))
  BY <1>10, <1>14, MoreAdded DEF Exact
<1>16. stay \cup DomainLists!Range(new) = {e \in DomainLists!Range(entries) : e.url \in m}
  BY <1>7, <1>12 DEF Matches
<1>17. Matches' = {e \in DomainLists!Range(entries) : e.url \in m}
  BY <1>1 DEF Matches
<1> QED
  BY <1>1, <1>15, <1>16, <1>17 DEF InOrderNow

LEMMA ListsDays ==
  ASSUME InOrderNow, Exact(dates, Matches), DomainLists!Next
  PROVE  InOrderNow' /\ Exact(dates', Matches')
<1>0. Ordered(entries, today) /\ today \in Nat \ {0}
  BY DEF InOrderNow
<1>1. ASSUME NEW u \in Pages, DomainLists!AddNew(u), today' = today, matching' = matching
      PROVE  InOrderNow' /\ Exact(dates', Matches')
  <2>1. PICK e : e = DomainLists!Top(u)
    OBVIOUS
  <2>2. Visits(u)
    BY <1>1 DEF DomainLists!AddNew, Visits
  <2>3. InOrderNow' /\ DomainLists!Range(entries') = DomainLists!Range(entries) \cup {e}
    BY <1>1, <2>1, <2>2, VisitsStep
  <2>4. e \in Entry /\ e.url = u /\ e.day # 0
    BY <2>1, TopIs
  <2>5. dates' = IF u \in matching THEN DomainLists!InsertEntry(dates, e) ELSE dates
    BY <1>1, <2>1 DEF DomainLists!AddNew, DomainLists!Shows
  <2>6. CASE u \in matching
    <3>1. Matches' = Matches \cup {e}
      BY <1>1, <2>3, <2>4, <2>6 DEF Matches
    <3>2. Adds(dates', dates, {e})
      <4>1. Dated(dates)
        BY DEF Exact, Adds
      <4> QED
        BY <2>4, <2>5, <2>6, <4>1, EntryInserted
    <3>3. Exact(dates', Matches \cup {e})
      BY <3>2, MoreAdded DEF Exact
    <3> QED
      BY <2>3, <3>1, <3>3
  <2>7. CASE u \notin matching
    <3>1. Matches' = Matches
      BY <1>1, <2>3, <2>4, <2>7 DEF Matches
    <3> QED
      BY <2>3, <2>5, <2>7, <3>1
  <2> QED
    BY <2>6, <2>7
<1>2. ASSUME NEW u \in Pages, DomainLists!AddOnTop(u), today' = today, matching' = matching
      PROVE  InOrderNow' /\ Exact(dates', Matches')
  <2>1. OnTopAgain(u) /\ dates' = dates
    BY <1>2 DEF DomainLists!AddOnTop, OnTopAgain
  <2>2. entries' = entries
    BY <2>1, OnTopAgainStep
  <2>3. Matches' = Matches
    BY <1>2, <2>2 DEF Matches
  <2> QED
    BY <1>2, <2>1, <2>2, <2>3 DEF InOrderNow
<1>3. ASSUME NEW u \in Pages, DomainLists!AddMoved(u), today' = today, matching' = matching
      PROVE  InOrderNow' /\ Exact(dates', Matches')
  <2>1. VisitsAgain(u)
    BY <1>3 DEF DomainLists!AddMoved, VisitsAgain
  <2>2. InOrderNow'
    BY <1>3, <2>1, VisitsAgainStep
  <2>3. PICK es : es = entries'
    OBVIOUS
  <2>4. Ordered(es, today)
    BY <1>3, <2>2, <2>3 DEF InOrderNow
  <2>5. dates' = DomainLists!Populated(DomainLists!Accepted(es, matching))
    BY <1>3, <2>3 DEF DomainLists!AddMoved, DomainLists!Rows
  <2>6. Exact(dates', {e \in DomainLists!Range(es) : e.url \in matching})
    BY <2>4, <2>5, PopulatedExact
  <2> QED
    BY <1>3, <2>2, <2>3, <2>6 DEF Matches
<1>4. ASSUME NEW u \in Pages, DomainLists!RemoveEntryByUrl(u)
      PROVE  InOrderNow' /\ Exact(dates', Matches')
  <2>1. Forgets(u) /\ today' = today /\ matching' = matching
    BY <1>4 DEF DomainLists!RemoveEntryByUrl, Forgets
  <2>2. PICK k, es : k = DomainLists!IndexOf(u) /\ es = entries'
    OBVIOUS
  <2>3. /\ InOrderNow' /\ DomainLists!Range(es) = DomainLists!Range(entries) \ {entries[k]}
        /\ entries[k].url = u
    BY <2>1, <2>2, ForgetsStep
  <2>4. Ordered(es, today)
    BY <2>1, <2>2, <2>3 DEF InOrderNow
  <2>5. PICK rows : rows = DomainLists!Accepted(es, matching)
    OBVIOUS
  <2>6. dates' = IF u \in matching THEN DomainLists!RowsRemoved(dates, rows) ELSE dates
    BY <1>4, <2>2, <2>5 DEF DomainLists!RemoveEntryByUrl, DomainLists!Shows, DomainLists!Rows
  <2>7. Matches' = {e \in DomainLists!Range(es) : e.url \in matching}
    BY <2>1, <2>2 DEF Matches
  <2>8. DomainLists!Range(rows) = Matches'
    BY <2>4, <2>5, <2>7, RowsAre
  <2>9. CASE u \in matching
    <3>1. Matches' \subseteq Matches
      BY <2>3, <2>7 DEF Matches
    <3>2. \A r, s \in Matches : r.url = s.url => r = s
      BY <1>0, OrderedAreOnce DEF Matches
    <3>3. PICK left : left = Matches'
      OBVIOUS
    <3>4. Exact(DomainLists!RowsRemoved(dates, rows), left)
      BY <2>8, <3>1, <3>2, <3>3, ExactAfterRemoval
    <3> QED
      BY <2>3, <2>6, <2>9, <3>3, <3>4
  <2>10. CASE u \notin matching
    <3>1. Matches' = Matches
      BY <2>3, <2>7, <2>10 DEF Matches
    <3> QED
      BY <2>3, <2>6, <2>10, <3>1
  <2> QED
    BY <2>9, <2>10
<1>5. CASE DomainLists!ClearAll
  <2>1. entries' = <<>> /\ today' = today /\ dates' = DomainLists!NoDates
    BY <1>5 DEF DomainLists!ClearAll
  <2>2. <<>> \in Seq(Entry) /\ DOMAIN <<>> = {}
    OBVIOUS
  <2>3. Ordered(entries', today')
    BY <2>1, <2>2 DEF Ordered
  <2>4. Matches' = {}
    BY <2>1, <2>2 DEF Matches, DomainLists!Range
  <2>5. Exact(dates', {})
    BY <2>1, NoDatesIs, NothingAdded DEF Exact
  <2> QED
    BY <1>0, <2>1, <2>3, <2>4, <2>5 DEF InOrderNow
<1>6. CASE DomainLists!SetSourceModel
  <2>1. /\ entries' = entries /\ today' = today /\ matching' = matching
        /\ dates' = DomainLists!Populated(DomainLists!Accepted(entries, matching))
    BY <1>6 DEF DomainLists!SetSourceModel, DomainLists!Rows
  <2>2. Exact(dates', Matches)
    BY <1>0, <2>1, PopulatedExact DEF Matches
  <2>3. Matches' = Matches
    BY <2>1 DEF Matches
  <2> QED
    BY <2>1, <2>2, <2>3 DEF InOrderNow
<1>7. CASE DomainLists!NewDay
  <2>1. today' = today + 1 /\ entries' = entries /\ matching' = matching /\ dates' = dates
    BY <1>7 DEF DomainLists!NewDay
  <2>2. Matches' = Matches
    BY <2>1 DEF Matches
  <2>3. Ordered(entries, today + 1)
    BY <1>0 DEF Ordered
  <2> QED
    BY <1>0, <2>1, <2>2, <2>3 DEF InOrderNow
<1> QED
  BY <1>1, <1>2, <1>3, <1>4, <1>5, <1>6, <1>7, SetTermsStep DEF DomainLists!Next, DomainLists!Add
-----------------------------------------------------------------------------
(* The list of days on the history itself *)

LEMMA SameInsert == \A D, e : Unsorted!InsertEntry(D, e) = DomainLists!InsertEntry(D, e)
<1>1. \A S : Unsorted!Cardinality(S) = DomainLists!Cardinality(S)
  BY Zenon DEF Unsorted!Cardinality, DomainLists!Cardinality
<1>2. \A s, i, x : Unsorted!InsertAt(s, i, x) = DomainLists!InsertAt(s, i, x)
  BY Zenon DEF Unsorted!InsertAt, DomainLists!InsertAt
<1> QED
  BY <1>1, <1>2, Zenon DEF Unsorted!InsertEntry, DomainLists!InsertEntry

LEMMA SameKept == \A D, days : Unsorted!Kept(D, days) = DomainLists!Kept(D, days)
<1>1. \A s, K : Unsorted!Keep(s, K) = DomainLists!Keep(s, K)
  <2> TAKE s, K
  <2>1. /\ Unsorted!Cardinality(K) = Cardinality(K) /\ Unsorted!InOrder(K) = InOrder(K)
        /\ DomainLists!Cardinality(K) = Cardinality(K) /\ DomainLists!InOrder(K) = InOrder(K)
    BY Zenon DEF Unsorted!InOrder, DomainLists!InOrder, InOrder,
                 Unsorted!Cardinality, DomainLists!Cardinality, Cardinality
  <2>2. PICK h : h = InOrder(K)
    OBVIOUS
  <2> QED
    BY <2>1, <2>2 DEF Unsorted!Keep, DomainLists!Keep
<1> QED
  BY <1>1, Zenon DEF Unsorted!Kept, DomainLists!Kept

LEMMA SameDates ==
  ASSUME NEW D, NEW rows, NEW k
  PROVE  /\ Unsorted!NoDates = DomainLists!NoDates
         /\ Unsorted!RowsRemoved(D, rows) = DomainLists!RowsRemoved(D, rows)
         /\ Unsorted!RowsMoved(D, rows, k) = DomainLists!RowsMoved(D, rows, k)
         /\ Unsorted!Populated(rows) = DomainLists!Populated(rows)
<1>1. Unsorted!NoDates = DomainLists!NoDates
  BY Zenon DEF Unsorted!NoDates, DomainLists!NoDates
<1>2. Unsorted!RowsRemoved(D, rows) = DomainLists!RowsRemoved(D, rows)
  <2>1. Unsorted!Range(rows) = DomainLists!Range(rows)
    BY Zenon DEF Unsorted!Range, DomainLists!Range
  <2> QED
    BY <2>1, SameKept, Zenon DEF Unsorted!RowsRemoved, DomainLists!RowsRemoved
<1>3. Unsorted!RowsMoved(D, rows, k) = DomainLists!RowsMoved(D, rows, k)
  <2>1. Unsorted!Bounds(rows, k, D) = DomainLists!Bounds(rows, k, D)
    BY Zenon DEF Unsorted!Bounds, DomainLists!Bounds, Unsorted!Last, DomainLists!Last
  <2> QED
    BY <2>1, SameKept, SameInsert, Zenon DEF Unsorted!RowsMoved, DomainLists!RowsMoved
<1>4. Unsorted!Populated(rows) = DomainLists!Populated(rows)
  BY <1>1, SameInsert, Zenon DEF Unsorted!Populated, DomainLists!Populated,
     Unsorted!InsertEntries, DomainLists!InsertEntries
<1> QED
  BY <1>1, <1>2, <1>3, <1>4

LEMMA UnsortedDays ==
  ASSUME InOrderNow, Covers(dates, DomainLists!Range(entries)), Unsorted!Next
  PROVE  InOrderNow' /\ Covers(dates', DomainLists!Range(entries'))
<1>0. Ordered(entries, today) /\ today \in Nat \ {0}
  BY DEF InOrderNow
<1>1. /\ \A u : Unsorted!IndexOf(u) = DomainLists!IndexOf(u) /\ Unsorted!Top(u) = DomainLists!Top(u)
      /\ \A es, k : Unsorted!RemoveAt(es, k) = DomainLists!RemoveAt(es, k)
  BY SameHistory
<1>2. ASSUME NEW u \in Pages, Unsorted!AddNew(u), today' = today
      PROVE  InOrderNow' /\ Covers(dates', DomainLists!Range(entries'))
  <2>1. PICK e : e = DomainLists!Top(u)
    OBVIOUS
  <2>2. Visits(u)
    BY <1>1, <1>2 DEF Unsorted!AddNew, Visits
  <2>3. InOrderNow' /\ DomainLists!Range(entries') = DomainLists!Range(entries) \cup {e}
    BY <1>2, <2>1, <2>2, VisitsStep
  <2>4. e \in Entry /\ e.day # 0
    BY <2>1, TopIs
  <2>5. dates' = DomainLists!InsertEntry(dates, e)
    BY <1>1, <1>2, <2>1, SameInsert DEF Unsorted!AddNew, Unsorted!Shows
  <2>6. Adds(dates', dates, {e})
    <3>1. Dated(dates)
      BY DEF Covers
    <3> QED
      BY <2>4, <2>5, <3>1, EntryInserted
  <2>7. Covers(dates', DomainLists!Range(entries) \cup {e})
    BY <2>6, CoversMore
  <2> QED
    BY <2>3, <2>7
<1>3. ASSUME NEW u \in Pages, Unsorted!AddOnTop(u), today' = today
      PROVE  InOrderNow' /\ Covers(dates', DomainLists!Range(entries'))
  <2>1. OnTopAgain(u) /\ dates' = dates
    BY <1>1, <1>3 DEF Unsorted!AddOnTop, OnTopAgain
  <2>2. entries' = entries
    BY <2>1, OnTopAgainStep
  <2> QED
    BY <1>3, <2>1, <2>2 DEF InOrderNow
<1>4. ASSUME NEW u \in Pages, Unsorted!AddMoved(u), today' = today
      PROVE  InOrderNow' /\ Covers(dates', DomainLists!Range(entries'))
  <2>1. VisitsAgain(u)
    BY <1>1, <1>4 DEF Unsorted!AddMoved, VisitsAgain
  <2>2. PICK e, k, rows : e = DomainLists!Top(u) /\ k = DomainLists!IndexOf(u) /\ rows = entries'
    OBVIOUS
  <2>3. /\ InOrderNow' /\ k \in 1 .. Len(entries) /\ k > 1 /\ e.url = entries[k].url
        /\ rows = <<e>> \o DomainLists!RemoveAt(entries, k)
    BY <1>4, <2>1, <2>2, VisitsAgainStep
  <2>4. e \in Entry /\ e.day = today
    BY <2>2, TopIs
  <2>5. dates' = DomainLists!RowsMoved(dates, rows, k)
    BY <1>1, <1>4, <2>2, SameDates DEF Unsorted!AddMoved
  <2>6. Covers(DomainLists!RowsMoved(dates, rows, k), DomainLists!Range(rows))
    BY <1>0, <2>3, <2>4, CoversAfterMove
  <2> QED
    BY <2>2, <2>3, <2>5, <2>6
<1>5. ASSUME NEW u \in Pages, Unsorted!RemoveEntryByUrl(u)
      PROVE  InOrderNow' /\ Covers(dates', DomainLists!Range(entries'))
  <2>1. Forgets(u) /\ today' = today
    BY <1>1, <1>5 DEF Unsorted!RemoveEntryByUrl, Forgets
  <2>2. PICK k, rows, left : k = DomainLists!IndexOf(u) /\ rows = entries' /\ left = DomainLists!Range(rows)
    OBVIOUS
  <2>3. InOrderNow' /\ left = DomainLists!Range(entries) \ {entries[k]}
    BY <2>1, <2>2, ForgetsStep
  <2>4. dates' = DomainLists!RowsRemoved(dates, rows)
    BY <1>5, <2>2, SameDates DEF Unsorted!RemoveEntryByUrl, Unsorted!Shows, Unsorted!Rows
  <2>5. Covers(DomainLists!RowsRemoved(dates, rows), left)
    BY <2>2, <2>3, CoversAfterRemoval
  <2> QED
    BY <2>2, <2>3, <2>4, <2>5
<1>6. CASE Unsorted!ClearAll
  <2>1. entries' = <<>> /\ today' = today /\ dates' = DomainLists!NoDates
    BY <1>6, SameDates DEF Unsorted!ClearAll
  <2>2. <<>> \in Seq(Entry) /\ DOMAIN <<>> = {}
    OBVIOUS
  <2>3. Ordered(entries', today')
    BY <2>1, <2>2 DEF Ordered
  <2>4. DomainLists!Range(entries') = {}
    BY <2>1, <2>2 DEF DomainLists!Range
  <2> QED
    BY <1>0, <2>1, <2>3, <2>4, NoDatesIs DEF InOrderNow, Covers
<1>7. CASE Unsorted!SetSourceModel
  <2>1. entries' = entries /\ today' = today /\ dates' = DomainLists!Populated(entries)
    BY <1>7, SameDates DEF Unsorted!SetSourceModel, Unsorted!Rows
  <2>2. entries \in Seq(Entry) /\ \A i \in DOMAIN entries : entries[i].day # 0
    BY <1>0 DEF Ordered
  <2>3. Exact(dates', DomainLists!Range(entries))
    BY <2>1, <2>2, PopulatedIs DEF Exact
  <2>4. Covers(dates', DomainLists!Range(entries))
    BY <2>3, ExactCovers
  <2> QED
    BY <2>1, <2>4 DEF InOrderNow
<1>8. CASE Unsorted!NewDay
  <2>1. today' = today + 1 /\ entries' = entries /\ dates' = dates
    BY <1>8 DEF Unsorted!NewDay
  <2>2. Ordered(entries, today + 1)
    BY <1>0 DEF Ordered
  <2> QED
    BY <1>0, <2>1, <2>2 DEF InOrderNow
<1>9. ASSUME NEW m PROVE ~Unsorted!SetTerms(m)
  BY DEF Unsorted!SetTerms
<1> QED
  BY <1>2, <1>3, <1>4, <1>5, <1>6, <1>7, <1>8, <1>9 DEF Unsorted!Next, Unsorted!Add

-----------------------------------------------------------------------------
(* The theorem about the days *)

DatesInv == /\ InOrderNow
            /\ part = "lists" => Exact(dates, Matches)
            /\ part # "lists" => Covers(dates, DomainLists!Range(entries))

LEMMA DatesInvStep ==
  ASSUME DatesInv, [MCNext]_<<part, listVars, iconVars, vars>>
  PROVE  DatesInv'
<1>1. CASE UNCHANGED <<part, listVars>>
  <2>1. UNCHANGED <<part, entries, today, matching, dates>>
    BY <1>1 DEF listVars
  <2>2. Matches' = Matches
    BY <2>1 DEF Matches
  <2> QED
    BY <2>1, <2>2 DEF DatesInv, InOrderNow
<1>2. CASE Runs("lists") /\ DomainLists!Next
  <2>1. part = "lists" /\ part' = part
    BY <1>2 DEF Runs
  <2> QED
    BY <1>2, <2>1, ListsDays DEF DatesInv
<1>3. CASE Runs("unsorted") /\ Unsorted!Next
  <2>1. part = "unsorted" /\ part' = part
    BY <1>3 DEF Runs
  <2> QED
    BY <1>3, <2>1, UnsortedDays DEF DatesInv
<1> QED
  BY <1>1, <1>2, <1>3 DEF MCNext, Runs

LEMMA DatesInvImplies == ASSUME DatesInv PROVE DatesShown
<1>1. InOrderNow /\ Ordered(entries, today)
  BY DEF DatesInv, InOrderNow
<1>2. PICK D : D = dates
  OBVIOUS
<1>3. Dated(D) /\ Descends(D.ordered, DOMAIN D.by)
  BY <1>2 DEF DatesInv, Exact, Adds, Covers, Dated
<1>4. DomainLists!DatesSorted
  BY <1>2, <1>3 DEF Descends, DomainLists!DatesSorted
<1>5. PICK rows : rows = DomainLists!Rows(entries)
  OBVIOUS
<1>6. rows = DomainLists!Accepted(entries, matching)
  BY <1>5 DEF DomainLists!Rows
<1>7. DomainLists!Range(rows) = Matches
  BY <1>1, <1>6, RowsAre DEF Matches
<1>8. DomainLists!DaysOf(rows) = {e.day : e \in Matches}
  BY <1>7 DEF DomainLists!DaysOf
<1>9. part = "lists" => DOMAIN D.by = {e.day : e \in Matches}
  BY <1>2, ExactIs DEF DatesInv
<1>10. part # "lists" => {e.day : e \in Matches} \subseteq DOMAIN D.by
  BY <1>2 DEF DatesInv, Covers, Matches
<1>11. DomainLists!DatesCovered /\ (part = "lists" => DomainLists!DatesExact)
  BY <1>2, <1>5, <1>8, <1>9, <1>10 DEF DomainLists!DatesCovered, DomainLists!DatesExact
<1> QED
  BY <1>4, <1>11 DEF DatesShown

\* insertNewHistoryEntry, onRowsInserted, onRowsRemoved, onRowsMoved, setTerms: all days first, then
\* those with a visit that matches, in descending order, each once; in the browser no other.
THEOREM DatesStayRight == MCSpec => []DatesShown
<1>1. MCInit => DatesInv
  <2> SUFFICES ASSUME MCInit PROVE DatesInv
    OBVIOUS
  <2>1. entries = <<>> /\ today = 1 /\ dates = DomainLists!NoDates
    BY DEF MCInit, DomainLists!Init
  <2>2. entries \in Seq(Entry) /\ DOMAIN entries = {} /\ today \in Nat \ {0}
    BY <2>1
  <2>3. InOrderNow
    BY <2>2 DEF InOrderNow, Ordered
  <2>4. DomainLists!Range(entries) = {} /\ Matches = {}
    BY <2>2 DEF DomainLists!Range, Matches
  <2>5. Exact(dates, {}) /\ Covers(dates, {})
    BY <2>1, NoDatesIs, NothingAdded DEF Exact, Covers
  <2> QED
    BY <2>3, <2>4, <2>5 DEF DatesInv
<1>2. DatesInv /\ [MCNext]_<<part, listVars, iconVars, vars>> => DatesInv'
  BY DatesInvStep
<1>3. DatesInv => DatesShown
  BY DatesInvImplies
<1> QED
  BY <1>1, <1>2, <1>3, PTL DEF MCSpec

=============================================================================
