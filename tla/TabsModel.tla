------------------------------ MODULE TabsModel ------------------------------
(***************************************************************************)
(* The list of tabs of a window and its current tab                        *)
(* (src/src/app/webbrowser/tabs-model.cpp).                                *)
(*                                                                         *)
(* A model is a record: the tabs, the index of the current one (from 0; -1 *)
(* when there is none) and bound, the tab that the bindings on currentTab  *)
(* hold: they read the property again only when currentTabChanged is       *)
(* emitted.  Each operation of the class is an operator from a model to    *)
(* the model it leaves, so that the windows are built from them.           *)
(***************************************************************************)
EXTENDS Integers, Sequences

CONSTANTS Tab, NoTab   \* the tabs, and the null pointer

ASSUME TabAssumption == NoTab \notin Tab

VARIABLE model

Model == [tabs : Seq(Tab), current : Int, bound : Tab \cup {NoTab}]

Count(m) == Len(m.tabs)
Valid(m, i) == i \in 0 .. Count(m) - 1                  \* checkValidTabIndex
Get(m, i) == IF Valid(m, i) THEN m.tabs[i + 1] ELSE NoTab
CurrentTab(m) == Get(m, m.current)
Tabs(m) == {m.tabs[i] : i \in DOMAIN m.tabs}

\* The list and the index change; currentTabChanged is emitted, and the bindings
\* are evaluated again, or it is not, and they hold what they held.
Notified(l, c) ==
  [tabs |-> l, current |-> c, bound |-> IF c \in 0 .. Len(l) - 1 THEN l[c + 1] ELSE NoTab]
Unnotified(m, l, c) == [tabs |-> l, current |-> c, bound |-> m.bound]

Empty == Notified(<<>>, -1)

-----------------------------------------------------------------------------
(* Operations *)

WithCurrent(m, i) ==                                    \* setCurrentIndex
  IF Valid(m, i) /\ i # m.current THEN Notified(m.tabs, i) ELSE m

\* The index at which insert puts a tab: qMax(qMin(index, count), 0).
Clamp(m, i) == IF i < 0 THEN 0 ELSE IF i > Count(m) THEN Count(m) ELSE i

\* The list with t at index k, and without the tab at index k.
ListWith(s, t, k) ==
  [j \in 1 .. Len(s) + 1 |-> IF j <= k THEN s[j] ELSE IF j = k + 1 THEN t ELSE s[j - 1]]
ListWithout(s, k) ==
  [j \in 1 .. Len(s) - 1 |-> IF j <= k THEN s[j] ELSE s[j + 1]]

InsertMut(m, t, i) ==   \* mutant: no currentTabChanged when inserting at the current index
  LET k == Clamp(m, i)
      l == ListWith(m.tabs, t, k)
  IN IF m.current = -1 THEN Notified(l, 0)
     ELSE Unnotified(m, l, IF k < m.current THEN m.current + 1 ELSE m.current)

Insert(m, t, i) ==
  LET k == Clamp(m, i)
      l == ListWith(m.tabs, t, k)
  IN IF m.current = -1 THEN Notified(l, 0)
     ELSE IF k = m.current THEN Notified(l, k)
     ELSE Unnotified(m, l, IF k < m.current THEN m.current + 1 ELSE m.current)

RemoveMut(m, i) ==   \* mutant: the last tab is not looked for when the current one goes
  LET l == ListWithout(m.tabs, i)
  IN IF ~Valid(m, i) THEN m
     ELSE IF i = m.current THEN Notified(l, i)
     ELSE Unnotified(m, l, IF i < m.current THEN m.current - 1 ELSE m.current)

Remove(m, i) ==
  LET l == ListWithout(m.tabs, i)
  IN IF ~Valid(m, i) THEN m
     ELSE IF i = m.current THEN Notified(l, IF i = Len(l) THEN i - 1 ELSE i)
     ELSE Unnotified(m, l, IF i < m.current THEN m.current - 1 ELSE m.current)

\* The index of the current tab after a move: the tabs in between shift by one.
MovedIndexMut(c, from, to) ==   \* mutant: one comparison is strict
  IF c = from THEN to
  ELSE IF c > to /\ c < from THEN c + 1
  ELSE IF c > from /\ c <= to THEN c - 1
  ELSE c

MovedIndex(c, from, to) ==
  IF c = from THEN to
  ELSE IF c >= to /\ c < from THEN c + 1
  ELSE IF c > from /\ c <= to THEN c - 1
  ELSE c

Move(m, from, to) ==
  IF from = to \/ ~Valid(m, from) \/ ~Valid(m, to) THEN m
  ELSE Unnotified(m, ListWith(ListWithout(m.tabs, from), m.tabs[from + 1], to),
                  MovedIndex(m.current, from, to))

-----------------------------------------------------------------------------
(* The class by itself: any call, with any index. *)

Index == -1 .. Count(model) + 1

Init == model = Empty

\* QML gives each tab an object of its own: none is ever in the list twice.
DoInsert == \E t \in Tab \ Tabs(model), i \in Index : model' = Insert(model, t, i)
DoRemove == \E i \in Index : model' = Remove(model, i)
DoMove == \E from, to \in Index : model' = Move(model, from, to)
DoSetCurrent == \E i \in Index : model' = WithCurrent(model, i)

Next == DoInsert \/ DoRemove \/ DoMove \/ DoSetCurrent

Spec == Init /\ [][Next]_model

-----------------------------------------------------------------------------
(* Properties *)

TypeOK == model \in Model

\* "it should not be possible to have items in the model but no current tab"
\* (insert): the current index is -1 when the model is empty, and otherwise the
\* index of a tab.
CurrentExists ==
  IF model.tabs = <<>> THEN model.current = -1 ELSE Valid(model, model.current)

\* The signals emitted are enough: a binding on currentTab never holds a tab
\* that is not the current one.
BoundIsCurrent == model.bound = CurrentTab(model)

\* A tab is in the list once.
NoDuplicate == \A i, j \in DOMAIN model.tabs : model.tabs[i] = model.tabs[j] => i = j

\* The user only sees another tab when the current one is removed, when another
\* is made current, or when a tab is inserted at the current index: shuffling
\* the list and removing other tabs leave the current tab where it is.
CurrentKept ==
  [][ \/ \E t \in Tab \ Tabs(model) : model' = Insert(model, t, model.current)
      \/ model' = Remove(model, model.current)
      \/ \E i \in Index : model' = WithCurrent(model, i)
      \/ model.tabs = <<>>
      \/ CurrentTab(model') = CurrentTab(model) ]_model
=============================================================================
