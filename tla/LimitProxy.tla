----------------------------- MODULE LimitProxy -----------------------------
(***************************************************************************)
(* LimitProxyModel (src/src/app/webbrowser/limit-proxy-model.cpp): the     *)
(* first rows of another model.  It translates each change its source      *)
(* announces into what its views must be told.                             *)
(*                                                                         *)
(* A source announces a change, makes it, and announces that it is made;   *)
(* the proxy keeps what it has to say in between in its members.  Rows are *)
(* numbered from 0 in the code and in the ranges, from 1 in the lists.     *)
(***************************************************************************)
EXTENDS Integers, Sequences

CONSTANTS
  Row,       \* the rows of source models
  MaxRows,   \* bound on the length of a source
  MaxLimit   \* bound on the limit

ASSUME LimitAssumption == MaxRows \in Nat /\ MaxLimit \in Nat

VARIABLES
  source,           \* the rows of the source model
  change,           \* the change the source has announced and not yet made
  limit,            \* m_limit
  sourceInserting, sourceRemoving, \* m_sourceInserting, m_sourceRemoving
  announced,        \* the range given to beginInsertRows or beginRemoveRows
  dataChanged,      \* m_dataChangedBegin and m_dataChangedEnd
  view              \* the rows of a view that does what the proxy tells it

vars == <<source, change, limit, sourceInserting, sourceRemoving, announced,
          dataChanged, view>>

NoChange == [type |-> "none"]
NoRange == <<-1, -1>>

\* The lists a source may hold: the rows of a model are all different.
Lists == {s \in UNION {[1 .. n -> Row] : n \in 0 .. MaxRows} :
            \A i, j \in DOMAIN s : s[i] = s[j] => i = j}

Change == {NoChange}
          \cup [type : {"insert"}, start : Nat, end : Nat, rows : Seq(Row)]
          \cup [type : {"remove"}, start : Nat, end : Nat]

TypeOK ==
  /\ source \in Lists /\ change \in Change
  /\ limit \in -1 .. MaxLimit
  /\ sourceInserting \in BOOLEAN /\ sourceRemoving \in BOOLEAN
  /\ announced \in Int \X Int
  /\ dataChanged \in {NoRange} \cup ((0 .. MaxLimit - 1) \X (0 .. MaxLimit - 1))
  /\ view \in Seq(Row)

-----------------------------------------------------------------------------
(* Lists and what a view does to its own *)

Size(first, last) == last - first + 1

Inserted(s, start, rows) ==
  [i \in 1 .. Len(s) + Len(rows) |->
     IF i <= start THEN s[i]
     ELSE IF i <= start + Len(rows) THEN rows[i - start]
     ELSE s[i - Len(rows)]]

Removed(s, start, end) ==
  [i \in 1 .. Len(s) - Size(start, end) |->
     IF i <= start THEN s[i] ELSE s[i + Size(start, end)]]

\* New rows are read from the proxy, which reads them from its source s.
ViewInserts(v, s, first, last) ==
  [i \in 1 .. Len(v) + Size(first, last) |->
     IF i <= first THEN v[i] ELSE IF i <= last + 1 THEN s[i]
     ELSE v[i - Size(first, last)]]

ViewReads(v, s, first, last) ==
  [i \in 1 .. Len(v) |-> IF first < i /\ i <= last + 1 THEN s[i] ELSE v[i]]

AtMost(m, n) == IF m < n THEN m ELSE n

CountOf(s, lim) == IF lim < 0 THEN Len(s) ELSE AtMost(lim, Len(s))

\* rowCount
RowCount == CountOf(source, limit)

FirstRows(s, lim) == [i \in 1 .. CountOf(s, lim) |-> s[i]]

-----------------------------------------------------------------------------

Init ==
  /\ source \in Lists /\ change = NoChange
  /\ limit = -1
  /\ sourceInserting = FALSE /\ sourceRemoving = FALSE
  /\ announced = NoRange /\ dataChanged = NoRange
  /\ view = source

Idle == change = NoChange

\* The arguments of beginInsertRows or beginRemoveRows in setLimit, if called.
Grows(new) == limit >= 0 /\ (new < 0 \/ new > limit) /\ Len(source) > limit
Shrinks(new) == new >= 0 /\ (limit < 0 \/ new < limit) /\ new < RowCount

SetLimit(new) ==
  /\ Idle /\ new # limit
  /\ limit' = new
  /\ view' =
       IF Grows(new) THEN ViewInserts(view, source, limit, CountOf(source, new) - 1)
       ELSE IF Shrinks(new) THEN Removed(view, new, RowCount - 1)
       ELSE view
  /\ UNCHANGED <<source, change, sourceInserting, sourceRemoving, announced, dataChanged>>

\* What the two slots tell before a change: the rows announced and the rows to
\* be read again; NoRange when there are none.
Told(first, last, begin, end) ==
  /\ announced' = <<first, last>>
  /\ dataChanged' = IF begin > end THEN NoRange ELSE <<begin, end>>

AboutToInsertMut(start, end) ==   \* mutant: the rows pushed down are not read again
  LET count == Len(source)
      n == Size(start, end)
  IN \/ /\ limit < 0 \/ (start < limit /\ count + n <= limit)
        /\ announced' = <<start, end>> /\ sourceInserting' = TRUE
        /\ UNCHANGED dataChanged
     \/ /\ limit >= 0 /\ start >= limit
        /\ announced' = NoRange /\ UNCHANGED <<sourceInserting, dataChanged>>
     \/ /\ limit >= 0 /\ start < limit /\ count >= limit
        /\ announced' = NoRange /\ dataChanged' = <<start, limit - 1>>
        /\ UNCHANGED sourceInserting
     \/ /\ limit >= 0 /\ start < limit /\ count < limit /\ count + n > limit
        /\ announced' = <<start, start + (limit - count) - 1>> /\ sourceInserting' = TRUE
        /\ UNCHANGED dataChanged

\* sourceRowsAboutToBeInserted: the rows are all shown, beyond the limit, put
\* in the place of others, or only some of them find room.
AboutToInsert(start, end) ==
  LET count == Len(source)
      n == Size(start, end)
  IN \/ /\ limit < 0 \/ (start < limit /\ count + n <= limit)
        /\ announced' = <<start, end>> /\ sourceInserting' = TRUE
        /\ UNCHANGED dataChanged
     \/ /\ limit >= 0 /\ start >= limit
        /\ announced' = NoRange /\ UNCHANGED <<sourceInserting, dataChanged>>
     \/ /\ limit >= 0 /\ start < limit /\ count >= limit
        /\ announced' = NoRange /\ dataChanged' = <<start, limit - 1>>
        /\ UNCHANGED sourceInserting
     \/ /\ limit >= 0 /\ start < limit /\ count < limit /\ count + n > limit
        /\ Told(start, start + (limit - count) - 1, start + (limit - count), limit - 1)
        /\ sourceInserting' = TRUE

AboutToRemoveMut(start, end) ==   \* mutant: the rows beyond the limit are forgotten
  /\ announced' = IF limit < 0 \/ start < limit THEN <<start, end>> ELSE NoRange
  /\ sourceRemoving' = (limit < 0 \/ start < limit)
  /\ UNCHANGED dataChanged

\* sourceRowsAboutToBeRemoved: all rows are shown, the removed ones are beyond
\* the limit, others take their place, or some rows are lost.
AboutToRemove(start, end) ==
  LET count == Len(source)
      left == count - Size(start, end)
  IN \/ /\ limit < 0 \/ (start < limit /\ count <= limit)
        /\ announced' = <<start, end>> /\ sourceRemoving' = TRUE
        /\ UNCHANGED dataChanged
     \/ /\ limit >= 0 /\ start >= limit
        /\ announced' = NoRange /\ UNCHANGED <<sourceRemoving, dataChanged>>
     \/ /\ limit >= 0 /\ start < limit /\ left >= limit
        /\ announced' = NoRange /\ dataChanged' = <<start, limit - 1>>
        /\ UNCHANGED sourceRemoving
     \/ /\ limit >= 0 /\ start < limit /\ count > limit /\ left < limit
        /\ Told(left, limit - 1, start, left - 1)
        /\ sourceRemoving' = TRUE

SourceBeginsInsert(start, rows) ==
  /\ Idle
  /\ Inserted(source, start, rows) \in Lists
  /\ change' = [type |-> "insert", start |-> start, end |-> start + Len(rows) - 1,
                rows |-> rows]
  /\ AboutToInsert(start, start + Len(rows) - 1)
  /\ UNCHANGED <<source, limit, sourceRemoving, view>>

SourceBeginsRemove(start, end) ==
  /\ Idle
  /\ change' = [type |-> "remove", start |-> start, end |-> end]
  /\ AboutToRemove(start, end)
  /\ UNCHANGED <<source, limit, sourceInserting, view>>

\* dataChanged, emitted when the change has been made and the rows announced.
ReadAgain(v, s) ==
  IF dataChanged[1] # -1 /\ dataChanged[2] # -1
  THEN ViewReads(v, s, dataChanged[1], dataChanged[2]) ELSE v

ChangeMade ==
  /\ change' = NoChange /\ announced' = NoRange /\ dataChanged' = NoRange
  /\ UNCHANGED limit

\* The source inserts its rows; sourceRowsInserted.
SourceInserts ==
  /\ change.type = "insert"
  /\ source' = Inserted(source, change.start, change.rows)
  /\ view' = ReadAgain(IF sourceInserting
                       THEN ViewInserts(view, source', announced[1], announced[2])
                       ELSE view, source')
  /\ sourceInserting' = FALSE
  /\ ChangeMade /\ UNCHANGED sourceRemoving

\* The source removes its rows; sourceRowsRemoved.
SourceRemoves ==
  /\ change.type = "remove"
  /\ source' = Removed(source, change.start, change.end)
  /\ view' = ReadAgain(IF sourceRemoving THEN Removed(view, announced[1], announced[2])
                       ELSE view, source')
  /\ sourceRemoving' = FALSE
  /\ ChangeMade /\ UNCHANGED sourceInserting

\* Forwarded by QIdentityProxyModel: a row of the source has new data.
SourceChangesRow(i, r) ==
  /\ Idle
  /\ source' = [source EXCEPT ![i] = r] /\ source' \in Lists
  /\ view' = ViewReads(view, source', i - 1, i - 1)
  /\ UNCHANGED <<change, limit, sourceInserting, sourceRemoving, announced, dataChanged>>

\* Forwarded by QIdentityProxyModel: a reset (of the source, or to another
\* source) or a new layout (the source is sorted again).
SourceResets(s) ==
  /\ Idle
  /\ source' = s
  /\ view' = FirstRows(s, limit)
  /\ UNCHANGED <<change, limit, sourceInserting, sourceRemoving, announced, dataChanged>>

Next ==
  \/ \E new \in -1 .. MaxLimit : SetLimit(new)
  \/ \E start \in 0 .. Len(source), n \in 1 .. MaxRows - Len(source) :
       \E rows \in [1 .. n -> Row] : SourceBeginsInsert(start, rows)
  \/ \E start, end \in 0 .. Len(source) - 1 : start <= end /\ SourceBeginsRemove(start, end)
  \/ SourceInserts \/ SourceRemoves
  \/ \E i \in DOMAIN source, r \in Row : SourceChangesRow(i, r)
  \/ \E s \in Lists : SourceResets(s)

Spec == Init /\ [][Next]_vars

-----------------------------------------------------------------------------
(* Properties *)

\* "Only the first N entries are returned", and a view that was told of every
\* change on the way to the present rows shows these entries and no others.
ViewIsFirstRows == Idle => view = FirstRows(source, limit)

LengthAfter ==
  IF change.type = "insert" THEN Len(source) + Len(change.rows)
  ELSE Len(source) - Size(change.start, change.end)

\* The rows announced exist (removal) or follow existing ones (insertion), and
\* those read again exist once the change is made: views fail otherwise.
AnnouncedFits ==
  /\ sourceInserting => 0 <= announced[1] /\ announced[1] <= Len(view)
                        /\ announced[1] <= announced[2]
  /\ sourceRemoving => 0 <= announced[1] /\ announced[1] <= announced[2]
                       /\ announced[2] < Len(view)
  /\ dataChanged # NoRange => 0 <= dataChanged[1] /\ dataChanged[1] <= dataChanged[2]
                              /\ dataChanged[2] < LengthAfter
=============================================================================
