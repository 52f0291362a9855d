---------------------------- MODULE HistoryProofs ----------------------------
(***************************************************************************)
(* Proofs about HistoryModel, for any URLs, titles, domains and bounds:    *)
(* first its types, its timer and its order; then what the table holds,    *)
(* now and when the operations under way have been executed.  It           *)
(* implements WriteBehind, and the model shows its last content.           *)
(***************************************************************************)
EXTENDS HistoryModel, SelectionProofs

-----------------------------------------------------------------------------
(* Types *)

\* EntryIndex returns 0, or the position of an entry of that URL.
LEMMA EntryIndexIs ==
  ASSUME entries \in Seq(Entry), NEW u \in Url
  PROVE  /\ EntryIndex(u) \in 0 .. Len(entries)
         /\ EntryIndex(u) # 0 => /\ EntryIndex(u) \in DOMAIN entries
                                 /\ entries[EntryIndex(u)] \in Entry
                                 /\ entries[EntryIndex(u)].url = u
<1>1. DOMAIN entries = 1 .. Len(entries) /\ Len(entries) \in Nat
      /\ \A i \in 1 .. Len(entries) : entries[i] \in Entry
  OBVIOUS
<1>2. CASE At(entries, u) = {}
  BY <1>1, <1>2 DEF EntryIndex
<1>3. CASE At(entries, u) # {}
  <2>1. At(entries, u) \in SUBSET Nat /\ At(entries, u) \subseteq 1 .. Len(entries)
    BY <1>1 DEF At
  <2>2. \E i \in At(entries, u) : \A j \in At(entries, u) : i <= j
    BY <1>3, <2>1, LeastNat
  <2>3. EntryIndex(u) \in At(entries, u)
    BY <1>3, <2>2 DEF EntryIndex
  <2> QED
    BY <1>1, <2>1, <2>3 DEF At
<1> QED
  BY <1>2, <1>3

\* Times and days are natural numbers.
LEMMA DayType == ASSUME NEW t \in Time PROVE t \in Nat /\ Day(t) \in Nat
BY HistoryAssumption DEF Time, Day

\* A statement keeps the table a list of rows.
LEMMA ExecHistoryType ==
  ASSUME NEW op \in Op, NEW t \in Seq(Row)
  PROVE  ExecHistory(op, t) \in Seq(Row)
<1>0. HistoryAssumption
  BY HistoryAssumption
<1>1. CASE op.type = "InsertNewEntry"
  <2>1. op.url \in Url /\ op.domain \in Domain /\ op.title \in Title /\ op.lastVisit \in Time
    BY <1>1 DEF Op
  <2>2. [url |-> op.url, domain |-> op.domain, title |-> op.title,
         visits |-> 1, lastVisit |-> op.lastVisit] \in Row
    BY <2>1 DEF Row
  <2> QED
    BY <1>1, <2>2 DEF ExecHistory
<1>2. CASE op.type = "UpdateExistingEntry"
  <2>1. /\ op.url \in Url /\ op.domain \in Domain /\ op.title \in Title
        /\ op.visits \in Nat /\ op.lastVisit \in Time
    BY <1>2 DEF Op
  <2>2. [url |-> op.url, domain |-> op.domain, title |-> op.title,
         visits |-> op.visits, lastVisit |-> op.lastVisit] \in Row
    BY <2>1 DEF Row
  <2>3. DOMAIN t = 1 .. Len(t) /\ Len(t) \in Nat /\ \A i \in DOMAIN t : t[i] \in Row
    OBVIOUS
  <2>4. ExecHistory(op, t) \in [1 .. Len(t) -> Row]
    BY <1>2, <2>2, <2>3 DEF ExecHistory
  <2> QED
    BY <2>3, <2>4
<1>3. CASE op.type = "RemoveEntryByUrl"
  BY <1>3, KeepIs DEF ExecHistory
<1>4. CASE op.type = "RemoveEntriesByDate"
  BY <1>4, KeepIs DEF ExecHistory
<1>5. CASE op.type = "RemoveEntriesByDomain"
  BY <1>5, KeepIs DEF ExecHistory
<1>6. CASE op.type = "ClearHistory"
  BY <1>6 DEF ExecHistory
<1>7. CASE op.type \in {"InsertNewHiddenEntry", "RemoveHiddenEntryByUrl", "ClearHistoryHidden"}
  BY <1>7 DEF ExecHistory
<1> QED
  BY <1>1, <1>2, <1>3, <1>4, <1>5, <1>6, <1>7 DEF Op

LEMMA ExecHiddenType ==
  ASSUME NEW op \in Op, NEW h \in SUBSET Url
  PROVE  ExecHidden(op, h) \in SUBSET Url
<1>1. op.type \in {"InsertNewHiddenEntry", "RemoveHiddenEntryByUrl"} => op.url \in Url
  BY DEF Op
<1> QED
  BY <1>1 DEF ExecHidden

LEMMA InitType == Init => TypeOK
<1> SUFFICES ASSUME Init PROVE TypeOK
  OBVIOUS
<1>1. \A u \in Url : StoredRow(u) \subseteq Row
  BY HistoryAssumption DEF StoredRow, Row, Time
<1>2. InitialTables \subseteq Seq(Row)
  BY <1>1 DEF InitialTables
<1>3. clock \in Time /\ issued \in 0 .. MaxOps /\ runs \in 0 .. MaxRuns
  BY HistoryAssumption DEF Init, Time
<1>4. /\ entries \in Seq(Entry) /\ toWorker \in Seq(WorkerEvent) /\ toUi \in Seq(UiEvent)
      /\ pending \in Seq(Op)
  BY DEF Init
<1> QED
  BY <1>2, <1>3, <1>4 DEF Init, TypeOK

\* The variables a command leaves alone keep their types.
LEMMA CommandType ==
  ASSUME TypeOK, Command, entries' \in Seq(Entry), hiddenEntries' \in SUBSET Url,
         toWorker' \in Seq(WorkerEvent)
  PROVE  TypeOK'
<1>1. issued' \in 0 .. MaxOps
  BY HistoryAssumption DEF Command, TypeOK
<1> QED
  BY <1>1 DEF Command, TypeOK, workerVars, dbVars

LEMMA EnqueueType ==
  ASSUME TypeOK, NEW op \in Op, Enqueue(op)
  PROVE  toWorker' \in Seq(WorkerEvent)
<1>1. [kind |-> "op", op |-> op] \in WorkerEvent
  BY DEF WorkerEvent
<1> QED
  BY <1>1 DEF TypeOK, Enqueue

\* The statement sent for an entry.
LEMMA UpdateOpType == ASSUME NEW e \in Entry PROVE UpdateOp(e) \in Op
BY DEF Entry, UpdateOp, Op

LEMMA RemoveByIndexType ==
  ASSUME entries \in Seq(Entry), NEW i
  PROVE  RemoveByIndex(entries, i) \in Seq(Entry)
<1>1. DOMAIN entries \ {i} \in SUBSET DOMAIN entries
  OBVIOUS
<1> QED
  BY <1>1, KeepIs DEF RemoveByIndex

\* An entry put at the front of the list.
LEMMA PrependType ==
  ASSUME NEW T, NEW e \in T, NEW s \in Seq(T)
  PROVE  /\ <<e>> \o s \in Seq(T) /\ Len(<<e>> \o s) = Len(s) + 1
         /\ (<<e>> \o s)[1] = e
         /\ \A i \in 2 .. Len(s) + 1 : (<<e>> \o s)[i] = s[i - 1]
OBVIOUS

\* What add, update, hide and unHide make of an entry is an entry.
LEMMA VisitedEntryType ==
  ASSUME NEW x \in Entry, NEW t \in Title, NEW c \in Time
  PROVE  [x EXCEPT !.title = t, !.visits = @ + 1, !.lastVisit = c] \in Entry
<1>1. x.visits + 1 \in Nat
  BY DEF Entry
<1> QED
  BY <1>1 DEF Entry

LEMMA RetitledEntryType ==
  ASSUME NEW x \in Entry, NEW t \in Title
  PROVE  [x EXCEPT !.title = t] \in Entry
BY DEF Entry

LEMMA HiddenEntryType ==
  ASSUME NEW x \in Entry, NEW b \in BOOLEAN
  PROVE  [x EXCEPT !.hidden = b] \in Entry
BY DEF Entry

LEMMA AddType ==
  ASSUME TypeOK, NEW u \in Url, NEW t \in Title, Add(u, t)
  PROVE  TypeOK'
<1>1. entries \in Seq(Entry) /\ hiddenEntries \in SUBSET Url /\ clock \in Time
  BY DEF TypeOK
<1>2. CASE AddNew(u, t)
  <2> DEFINE e == [url |-> u, domain |-> DomainOf[u], title |-> t, visits |-> 1,
                   lastVisit |-> clock, hidden |-> u \in hiddenEntries]
             op == [type |-> "InsertNewEntry", url |-> u, domain |-> DomainOf[u],
                    title |-> t, lastVisit |-> clock]
  <2>1. DomainOf[u] \in Domain
    BY HistoryAssumption
  <2>2. e \in Entry /\ op \in Op
    BY <1>1, <2>1 DEF Entry, Op
  <2>3. entries' = <<e>> \o entries /\ Enqueue(op)
    BY <1>2 DEF AddNew
  <2> HIDE DEF e, op
  <2>4. entries' \in Seq(Entry) /\ toWorker' \in Seq(WorkerEvent)
    BY <1>1, <2>2, <2>3, PrependType, EnqueueType
  <2> QED
    BY <1>1, <2>4, CommandType DEF Add
<1>3. CASE AddKnown(u, t)
  <2> DEFINE i == EntryIndex(u)
             e == [entries[i] EXCEPT !.title = t, !.visits = @ + 1, !.lastVisit = clock]
  <2>1. i # 0 /\ entries' = <<e>> \o RemoveByIndex(entries, i) /\ Enqueue(UpdateOp(e))
    BY <1>3 DEF AddKnown
  <2>2. entries[i] \in Entry
    BY <1>1, <2>1, EntryIndexIs
  <2>3. e \in Entry
    <3> HIDE DEF i
    <3> QED
      BY <1>1, <2>2, VisitedEntryType
  <2> HIDE DEF e, i
  <2>4. UpdateOp(e) \in Op /\ RemoveByIndex(entries, i) \in Seq(Entry)
    BY <1>1, <2>3, UpdateOpType, RemoveByIndexType
  <2>5. entries' \in Seq(Entry) /\ toWorker' \in Seq(WorkerEvent)
    BY <2>1, <2>3, <2>4, PrependType, EnqueueType
  <2> QED
    BY <1>1, <2>5, CommandType DEF Add
<1> QED
  BY <1>2, <1>3 DEF Add

LEMMA UpdateType ==
  ASSUME TypeOK, NEW u \in Url, NEW t \in Title, Update(u, t)
  PROVE  TypeOK'
<1> DEFINE i == EntryIndex(u)
           e == [entries[i] EXCEPT !.title = t]
<1>1. entries \in Seq(Entry) /\ hiddenEntries \in SUBSET Url
  BY DEF TypeOK
<1>2. i # 0 /\ entries' = [entries EXCEPT ![i] = e] /\ Enqueue(UpdateOp(e))
  BY DEF Update
<1>3. entries[i] \in Entry /\ i \in DOMAIN entries
  BY <1>1, <1>2, EntryIndexIs
<1>4. e \in Entry
  <2> HIDE DEF i
  <2> QED
    BY <1>3, RetitledEntryType
<1> HIDE DEF e, i
<1>5. entries' \in Seq(Entry)
  BY <1>1, <1>2, <1>3, <1>4
<1>6. toWorker' \in Seq(WorkerEvent)
  BY <1>2, <1>4, UpdateOpType, EnqueueType
<1> QED
  BY <1>1, <1>5, <1>6, CommandType DEF Update

LEMMA RemoveType ==
  ASSUME TypeOK
  PROVE  /\ \A u \in Url : RemoveEntryByUrl(u) => TypeOK'
         /\ \A d \in Nat : RemoveEntriesByDate(d) => TypeOK'
         /\ \A d \in Domain : RemoveEntriesByDomain(d) => TypeOK'
<1>1. entries \in Seq(Entry) /\ hiddenEntries \in SUBSET Url
  BY DEF TypeOK
<1>2. ASSUME NEW u \in Url, RemoveEntryByUrl(u) PROVE TypeOK'
  <2>1. entries' \in Seq(Entry)
    BY <1>1, <1>2, RemoveByIndexType DEF RemoveEntryByUrl
  <2>2. [type |-> "RemoveEntryByUrl", url |-> u] \in Op
    BY DEF Op
  <2>3. toWorker' \in Seq(WorkerEvent)
    BY <1>2, <2>2, EnqueueType DEF RemoveEntryByUrl
  <2> QED
    BY <1>1, <1>2, <2>1, <2>3, CommandType DEF RemoveEntryByUrl
<1>3. ASSUME NEW d \in Nat, RemoveEntriesByDate(d) PROVE TypeOK'
  <2>1. entries' \in Seq(Entry)
    BY <1>1, <1>3, KeepIs DEF RemoveEntriesByDate
  <2>2. [type |-> "RemoveEntriesByDate", day |-> d] \in Op
    BY DEF Op
  <2>3. toWorker' \in Seq(WorkerEvent)
    BY <1>3, <2>2, EnqueueType DEF RemoveEntriesByDate
  <2> QED
    BY <1>1, <1>3, <2>1, <2>3, CommandType DEF RemoveEntriesByDate
<1>4. ASSUME NEW d \in Domain, RemoveEntriesByDomain(d) PROVE TypeOK'
  <2>1. entries' \in Seq(Entry)
    BY <1>1, <1>4, KeepIs DEF RemoveEntriesByDomain
  <2>2. [type |-> "RemoveEntriesByDomain", domain |-> d] \in Op
    BY DEF Op
  <2>3. toWorker' \in Seq(WorkerEvent)
    BY <1>4, <2>2, EnqueueType DEF RemoveEntriesByDomain
  <2> QED
    BY <1>1, <1>4, <2>1, <2>3, CommandType DEF RemoveEntriesByDomain
<1> QED
  BY <1>2, <1>3, <1>4
LEMMA ClearAllType == TypeOK /\ ClearAll => TypeOK'
<1> SUFFICES ASSUME TypeOK, ClearAll PROVE TypeOK'
  OBVIOUS
<1> DEFINE a == [kind |-> "op", op |-> [type |-> "ClearHistory"]]
           b == [kind |-> "op", op |-> [type |-> "ClearHistoryHidden"]]
<1>1. a \in WorkerEvent /\ b \in WorkerEvent
  BY DEF WorkerEvent, Op
<1>2. toWorker' = toWorker \o <<a, b>>
  BY DEF ClearAll
<1> HIDE DEF a, b
<1>3. toWorker' \in Seq(WorkerEvent)
  BY <1>1, <1>2 DEF TypeOK
<1>4. entries' \in Seq(Entry) /\ hiddenEntries' \in SUBSET Url
  BY DEF ClearAll
<1> QED
  BY <1>3, <1>4, CommandType DEF ClearAll

LEMMA SetHiddenType ==
  ASSUME TypeOK, NEW u \in Url, NEW b \in BOOLEAN, SetHidden(u, b)
  PROVE  entries' \in Seq(Entry)
<1>1. DOMAIN entries = 1 .. Len(entries) /\ Len(entries) \in Nat
      /\ \A i \in DOMAIN entries : entries[i] \in Entry
  BY DEF TypeOK
<1>2. \A i \in DOMAIN entries : [entries[i] EXCEPT !.hidden = b] \in Entry
  BY <1>1, HiddenEntryType
<1>3. entries' \in [1 .. Len(entries) -> Entry]
  BY <1>1, <1>2 DEF SetHidden
<1> QED
  BY <1>1, <1>3

LEMMA HideType ==
  ASSUME TypeOK, NEW u \in Url, Hide(u) \/ UnHide(u)
  PROVE  TypeOK'
<1>1. hiddenEntries \in SUBSET Url
  BY DEF TypeOK
<1>2. CASE Hide(u)
  <2>1. entries' \in Seq(Entry)
    BY <1>2, SetHiddenType DEF Hide
  <2>2. [type |-> "InsertNewHiddenEntry", url |-> u] \in Op
    BY DEF Op
  <2>3. toWorker' \in Seq(WorkerEvent)
    BY <1>2, <2>2, EnqueueType DEF Hide
  <2> QED
    BY <1>1, <1>2, <2>1, <2>3, CommandType DEF Hide
<1>3. CASE UnHide(u)
  <2>1. entries' \in Seq(Entry)
    BY <1>3, SetHiddenType DEF UnHide
  <2>2. [type |-> "RemoveHiddenEntryByUrl", url |-> u] \in Op
    BY DEF Op
  <2>3. toWorker' \in Seq(WorkerEvent)
    BY <1>3, <2>2, EnqueueType DEF UnHide
  <2> QED
    BY <1>1, <1>3, <2>1, <2>3, CommandType DEF UnHide
<1> QED
  BY <1>2, <1>3

LEMMA UserType == TypeOK /\ UserNext => TypeOK'
<1>1. \A t \in Time : Day(t) \in Nat
  BY DayType
<1> QED
  BY <1>1, AddType, UpdateType, RemoveType, ClearAllType, HideType DEF UserNext

\* The row or the URL that the next signal to the UI thread carries.
LEMMA DeliverType ==
  ASSUME TypeOK, NEW kind, Deliver(kind)
  PROVE  /\ toUi' \in Seq(UiEvent)
         /\ kind = "hidden" => Head(toUi).url \in Url
         /\ kind = "entry" => Head(toUi).row \in Row
<1>1. toUi # <<>> /\ toUi \in Seq(UiEvent) /\ Head(toUi).kind = kind /\ toUi' = Tail(toUi)
  BY DEF TypeOK, Deliver
<1>2. Head(toUi) \in UiEvent /\ toUi' \in Seq(UiEvent)
  BY <1>1
<1> QED
  BY <1>1, <1>2 DEF UiEvent

LEMMA UiType == TypeOK /\ UiNext => TypeOK'
<1> SUFFICES ASSUME TypeOK, UiNext PROVE TypeOK'
  OBVIOUS
<1>1. CASE SetDatabasePath
  <2> DEFINE a == [kind |-> "reset"]
             b == [kind |-> "fetch"]
  <2>1. a \in WorkerEvent /\ b \in WorkerEvent
    BY DEF WorkerEvent
  <2>2. toWorker' = toWorker \o <<a, b>>
    BY <1>1 DEF SetDatabasePath
  <2> HIDE DEF a, b
  <2>3. toWorker' \in Seq(WorkerEvent)
    BY <2>1, <2>2 DEF TypeOK
  <2> QED
    BY <1>1, <2>3 DEF SetDatabasePath, TypeOK, workerVars, dbVars, boundVars
<1>2. CASE OnHiddenEntryFetched
  <2>1. Head(toUi).url \in Url /\ toUi' \in Seq(UiEvent)
    BY <1>2, DeliverType DEF OnHiddenEntryFetched
  <2> QED
    BY <1>2, <2>1 DEF OnHiddenEntryFetched, Deliver, TypeOK, workerVars, dbVars, boundVars
<1>3. CASE OnEntryFetched
  <2> DEFINE r == Head(toUi).row
             e == [url |-> r.url, domain |-> FetchedDomain(r), title |-> r.title,
                   visits |-> r.visits, lastVisit |-> r.lastVisit,
                   hidden |-> r.url \in hiddenEntries]
  <2>1. r \in Row /\ toUi' \in Seq(UiEvent)
    BY <1>3, DeliverType DEF OnEntryFetched
  <2>2. entries' = Append(entries, e) /\ UNCHANGED <<uiLoaded, hiddenEntries>> /\ Deliver("entry")
    BY <1>3 DEF OnEntryFetched
  <2>3. e \in Entry
    <3> HIDE DEF r
    <3>1. FetchedDomain(r) \in Domain
      BY <2>1, HistoryAssumption DEF FetchedDomain, Row
    <3> QED
      BY <2>1, <3>1 DEF Row, Entry
  <2> HIDE DEF e
  <2>4. entries' \in Seq(Entry)
    BY <2>2, <2>3 DEF TypeOK
  <2> QED
    BY <2>1, <2>2, <2>4 DEF Deliver, TypeOK, workerVars, dbVars, boundVars
<1>4. CASE OnLoaded
  <2>1. toUi' \in Seq(UiEvent)
    BY <1>4, DeliverType DEF OnLoaded
  <2> QED
    BY <1>4, <2>1 DEF OnLoaded, Deliver, TypeOK, workerVars, dbVars, boundVars
<1> QED
  BY <1>1, <1>2, <1>3, <1>4 DEF UiNext

LEMMA DispatchType ==
  ASSUME TypeOK, NEW kind, Dispatch(kind)
  PROVE  toWorker' \in Seq(WorkerEvent) /\ (kind = "op" => Head(toWorker).op \in Op)
<1>1. /\ toWorker # <<>> /\ toWorker \in Seq(WorkerEvent)
      /\ Head(toWorker).kind = kind /\ toWorker' = Tail(toWorker)
  BY DEF TypeOK, Dispatch
<1>2. Head(toWorker) \in WorkerEvent /\ toWorker' \in Seq(WorkerEvent)
  BY <1>1
<1> QED
  BY <1>1, <1>2 DEF WorkerEvent
\* A list made of lists.
LEMMA ConcatType ==
  ASSUME NEW T, NEW a \in Seq(T), NEW b \in Seq(T)
  PROVE  a \o b \in Seq(T)
OBVIOUS

LEMMA FetchType == TypeOK /\ DoFetchEntries => TypeOK'
<1> SUFFICES ASSUME TypeOK, DoFetchEntries PROVE TypeOK'
  OBVIOUS
<1> DEFINE Hs(h) == [i \in DOMAIN h |-> [kind |-> "hidden", url |-> h[i]]]
           Es(p) == [i \in DOMAIN p |-> [kind |-> "entry", row |-> history[p[i]]]]
           L == <<[kind |-> "loaded"]>>
<1>1. PICK p \in Listings, h \in HiddenListings : toUi' = toUi \o Hs(h) \o Es(p) \o L
  BY DEF DoFetchEntries
<1>2. Hs(h) \in Seq(UiEvent)
  <2>1. IsFiniteSet(historyHidden)
    BY HistoryAssumption, FS_Subset DEF TypeOK
  <2>2. Cardinality(historyHidden) \in Nat
    BY <2>1, FS_CardinalityType
  <2>3. h \in [1 .. Cardinality(historyHidden) -> Url]
    BY DEF HiddenListings, TypeOK
  <2>4. \A u \in Url : [kind |-> "hidden", url |-> u] \in UiEvent
    BY DEF UiEvent
  <2>5. Hs(h) \in [1 .. Cardinality(historyHidden) -> UiEvent]
    BY <2>3, <2>4
  <2> HIDE DEF Hs
  <2> QED
    BY <2>2, <2>5
<1>3. Es(p) \in Seq(UiEvent)
  <2>1. /\ DOMAIN history = 1 .. Len(history) /\ Len(history) \in Nat
        /\ \A i \in DOMAIN history : history[i] \in Row
    BY DEF TypeOK
  <2>2. p \in [1 .. Len(history) -> 1 .. Len(history)]
    BY <2>1 DEF Listings
  <2>3. \A r \in Row : [kind |-> "entry", row |-> r] \in UiEvent
    BY DEF UiEvent
  <2>4. Es(p) \in [1 .. Len(history) -> UiEvent]
    BY <2>1, <2>2, <2>3
  <2> HIDE DEF Es
  <2> QED
    BY <2>1, <2>4
<1>4. L \in Seq(UiEvent) /\ toUi \in Seq(UiEvent)
  BY DEF UiEvent, TypeOK
<1> HIDE DEF Hs, Es, L
<1>5. toUi' \in Seq(UiEvent)
  BY <1>1, <1>2, <1>3, <1>4, ConcatType
<1>6. Dispatch("fetch") /\ UNCHANGED <<pending, flushTimer>>
  BY DEF DoFetchEntries
<1>7. toWorker' \in Seq(WorkerEvent)
  BY <1>6, DispatchType
<1> QED
  BY <1>5, <1>6, <1>7 DEF Dispatch, TypeOK, uiVars, dbVars, boundVars

\* The statement that is executed next, and those that remain.
LEMMA PendingType ==
  ASSUME TypeOK, pending # <<>>
  PROVE  Head(pending) \in Op /\ Tail(pending) \in Seq(Op)
BY DEF TypeOK

LEMMA EmptyType == \A T : <<>> \in Seq(T)
OBVIOUS

LEMMA VolatileType ==
  ASSUME NEW state \in {"running", "quitting", "down"}, Volatile(state)
  PROVE  /\ app' \in {"running", "quitting", "down"}
         /\ pathSet' \in BOOLEAN /\ uiLoaded' \in BOOLEAN
         /\ entries' \in Seq(Entry) /\ hiddenEntries' \in SUBSET Url
         /\ toWorker' \in Seq(WorkerEvent) /\ toUi' \in Seq(UiEvent)
         /\ pending' \in Seq(Op) /\ flushTimer' \in BOOLEAN
         /\ worker' \in {"idle", "flushing", "closing"}
<1>1. /\ entries' = <<>> /\ toWorker' = <<>> /\ toUi' = <<>> /\ pending' = <<>>
      /\ hiddenEntries' = {}
  BY DEF Volatile
<1>2. /\ entries' \in Seq(Entry) /\ toWorker' \in Seq(WorkerEvent)
      /\ toUi' \in Seq(UiEvent) /\ pending' \in Seq(Op)
  BY <1>1, EmptyType
<1> QED
  BY <1>1, <1>2 DEF Volatile

LEMMA WorkerType == TypeOK /\ WorkerNext => TypeOK'
<1> SUFFICES ASSUME TypeOK, WorkerNext PROVE TypeOK'
  OBVIOUS
<1>1. CASE DoResetDatabase
  <2>1. toWorker' \in Seq(WorkerEvent)
    BY <1>1, DispatchType DEF DoResetDatabase
  <2> QED
    BY <1>1, <2>1 DEF DoResetDatabase, Dispatch, TypeOK, uiVars, dbVars, boundVars
<1>2. CASE DoEnqueue
  <2>1. toWorker' \in Seq(WorkerEvent) /\ Head(toWorker).op \in Op
    BY <1>2, DispatchType DEF DoEnqueue
  <2>2. pending' \in Seq(Op)
    BY <1>2, <2>1 DEF DoEnqueue, TypeOK
  <2> QED
    BY <1>2, <2>1, <2>2 DEF DoEnqueue, Dispatch, TypeOK, uiVars, dbVars, boundVars
<1>3. CASE FlushTimeout \/ FlushEnd
  BY <1>3 DEF FlushTimeout, FlushEnd, TypeOK, uiVars, dbVars, boundVars
<1>4. CASE FlushNext
  <2>1. Head(pending) \in Op /\ pending' \in Seq(Op)
    BY <1>4, PendingType DEF FlushNext
  <2>2. history' \in Seq(Row) /\ historyHidden' \in SUBSET Url
    BY <1>4, <2>1, ExecHistoryType, ExecHiddenType DEF FlushNext, TypeOK
  <2> QED
    BY <1>4, <2>1, <2>2 DEF FlushNext, TypeOK, uiVars, boundVars
<1>5. CASE FlushFails
  <2>1. pending' \in Seq(Op)
    BY <1>5, PendingType DEF FlushFails
  <2> QED
    BY <1>5, <2>1 DEF FlushFails, TypeOK, uiVars, dbVars, boundVars
<1>6. CASE ThreadFinish
  <2>1. toWorker' = <<>>
    BY <1>6 DEF ThreadFinish
  <2>2. toWorker' \in Seq(WorkerEvent)
    BY <2>1, EmptyType
  <2> QED
    BY <1>6, <2>2 DEF ThreadFinish, TypeOK, uiVars, dbVars, boundVars
<1>7. CASE Exit
  <2>1. Volatile("down")
    BY <1>7 DEF Exit
  <2> QED
    BY <1>7, <2>1, VolatileType DEF Exit, TypeOK, dbVars, boundVars
<1> QED
  BY <1>1, <1>2, <1>3, <1>4, <1>5, <1>6, <1>7, FetchType DEF WorkerNext

LEMMA ProcessType == TypeOK /\ (Quit \/ Crash \/ Start \/ Tick) => TypeOK'
<1> SUFFICES ASSUME TypeOK, Quit \/ Crash \/ Start \/ Tick PROVE TypeOK'
  OBVIOUS
<1>1. CASE Quit
  BY <1>1 DEF Quit, TypeOK, uiVars, workerVars, dbVars, boundVars
<1>2. CASE Crash
  <2>1. Volatile("down")
    BY <1>2 DEF Crash
  <2> QED
    BY <1>2, <2>1, VolatileType DEF Crash, TypeOK, dbVars, boundVars
<1>3. CASE Start
  <2>1. runs' \in 0 .. MaxRuns
    BY <1>3, HistoryAssumption DEF Start, TypeOK
  <2>2. Volatile("running")
    BY <1>3 DEF Start
  <2> QED
    BY <1>3, <2>1, <2>2, VolatileType DEF Start, TypeOK, dbVars
<1>4. CASE Tick
  <2>1. clock' \in Time
    BY <1>4, HistoryAssumption DEF Tick, TypeOK, Time
  <2> QED
    BY <1>4, <2>1 DEF Tick, TypeOK, uiVars, workerVars, dbVars
<1> QED
  BY <1>1, <1>2, <1>3, <1>4

LEMMA NextType == TypeOK /\ [Next]_vars => TypeOK'
<1>1. TypeOK /\ UNCHANGED vars => TypeOK'
  BY DEF TypeOK, vars, uiVars, workerVars, dbVars, boundVars
<1> QED
  BY <1>1, UserType, UiType, WorkerType, ProcessType DEF Next

\* The two threads exchange only signals of the declared forms, whatever the
\* order in which they run, crash and start again.
THEOREM TypeCorrect == Spec => []TypeOK
<1>1. Init => TypeOK
  BY InitType
<1>2. TypeOK /\ [Next]_vars => TypeOK'
  BY NextType
<1> QED
  BY <1>1, <1>2, PTL DEF Spec
-----------------------------------------------------------------------------
(* Nothing waits without a timer.  DoResetDatabase stops the timer, so the *)
(* invariant needs that nothing can be pending when "reset" is delivered:  *)
(* it is the first signal of a run, and it is sent once.                   *)

ResetFirst ==
  \A i \in DOMAIN toWorker : toWorker[i].kind = "reset" => i = 1 /\ pending = <<>>
NothingUnset == ~pathSet => toWorker = <<>> /\ pending = <<>>
ArmInv == TypeOK /\ PendingIsArmed /\ ResetFirst /\ NothingUnset

LEMMA ArmInit == Init => ArmInv
BY InitType DEF Init, ArmInv, PendingIsArmed, ResetFirst, NothingUnset

\* A command adds one signal that is not "reset", or two.
LEMMA CommandSends ==
  ASSUME UserNext
  PROVE  /\ Command
         /\ (\E op : Enqueue(op)) \/ ClearAll
BY DEF UserNext, Add, AddNew, AddKnown, Update, RemoveEntryByUrl, RemoveEntriesByDate,
       RemoveEntriesByDomain, Hide, UnHide, ClearAll

LEMMA SentIsNotReset ==
  ASSUME ArmInv, NEW T, NEW s \in Seq(T), \A i \in DOMAIN s : s[i].kind # "reset",
         toWorker' = toWorker \o s, pending' = pending
  PROVE  ResetFirst'
<1>1. toWorker \in Seq(WorkerEvent)
  BY DEF ArmInv, TypeOK
<1>2. /\ DOMAIN toWorker' = 1 .. Len(toWorker) + Len(s)
      /\ \A i \in 1 .. Len(toWorker) + Len(s) :
           toWorker'[i] = IF i <= Len(toWorker) THEN toWorker[i] ELSE s[i - Len(toWorker)]
      /\ Len(toWorker) \in Nat /\ Len(s) \in Nat
  BY <1>1
<1> SUFFICES ASSUME NEW i \in DOMAIN toWorker', toWorker'[i].kind = "reset"
             PROVE  i = 1 /\ pending' = <<>>
  BY DEF ResetFirst
<1>3. CASE i <= Len(toWorker)
  BY <1>1, <1>2, <1>3 DEF ArmInv, ResetFirst
<1>4. CASE ~ (i <= Len(toWorker))
  <2>1. i - Len(toWorker) \in DOMAIN s
    BY <1>2, <1>4
  <2> QED
    BY <1>2, <1>4, <2>1
<1> QED
  BY <1>3, <1>4

LEMMA UserArm == ArmInv /\ UserNext => ArmInv'
<1> SUFFICES ASSUME ArmInv, UserNext PROVE ArmInv'
  OBVIOUS
<1>0. TypeOK' /\ toWorker \in Seq(WorkerEvent)
  BY UserType DEF ArmInv, TypeOK
<1>1. Command /\ ((\E op : Enqueue(op)) \/ ClearAll)
  BY CommandSends
<1>2. pathSet /\ UNCHANGED <<pathSet, pending, flushTimer, worker>>
  BY <1>1 DEF Command, workerVars
<1>3. ResetFirst'
  <2>1. CASE \E op : Enqueue(op)
    <3>1. PICK op : Enqueue(op)
      BY <2>1
    <3> DEFINE e == [kind |-> "op", op |-> op]
    <3>2. toWorker' = Append(toWorker, e) /\ e.kind # "reset"
      BY <3>1 DEF Enqueue
    <3> HIDE DEF e
    <3>3. toWorker' \in Seq(WorkerEvent)
      BY <1>0 DEF TypeOK
    <3>4. /\ DOMAIN toWorker' = 1 .. Len(toWorker) + 1
          /\ \A i \in 1 .. Len(toWorker) : toWorker'[i] = toWorker[i]
          /\ toWorker'[Len(toWorker) + 1] = e
          /\ DOMAIN toWorker = 1 .. Len(toWorker) /\ Len(toWorker) \in Nat
      BY <1>0, <3>2
    <3> QED
      BY <1>2, <3>2, <3>4 DEF ArmInv, ResetFirst
  <2>2. CASE ClearAll
    <3> DEFINE s == <<[kind |-> "op", op |-> [type |-> "ClearHistory"]],
                      [kind |-> "op", op |-> [type |-> "ClearHistoryHidden"]]>>
    <3>1. toWorker' = toWorker \o s
      BY <2>2 DEF ClearAll
    <3>2. s \in Seq(WorkerEvent) /\ \A i \in DOMAIN s : s[i].kind # "reset"
      BY DEF WorkerEvent, Op
    <3> HIDE DEF s
    <3> QED
      BY <1>2, <3>1, <3>2, SentIsNotReset
  <2> QED
    BY <1>1, <2>1, <2>2
<1> QED
  BY <1>0, <1>2, <1>3 DEF ArmInv, PendingIsArmed, NothingUnset

LEMMA UiArm == ArmInv /\ UiNext => ArmInv'
<1> SUFFICES ASSUME ArmInv, UiNext PROVE ArmInv'
  OBVIOUS
<1>0. TypeOK'
  BY UiType DEF ArmInv
<1>1. CASE SetDatabasePath
  <2>1. toWorker = <<>> /\ pending = <<>> /\ UNCHANGED workerVars /\ pathSet'
    BY <1>1 DEF SetDatabasePath, ArmInv, NothingUnset
  <2>2. toWorker' = <<[kind |-> "reset"], [kind |-> "fetch"]>>
    BY <1>1, <2>1 DEF SetDatabasePath
  <2>3. ResetFirst'
    BY <2>1, <2>2 DEF ResetFirst, workerVars
  <2> QED
    BY <1>0, <2>1, <2>3 DEF ArmInv, PendingIsArmed, NothingUnset, workerVars
<1>2. CASE OnHiddenEntryFetched \/ OnEntryFetched \/ OnLoaded
  <2>1. UNCHANGED <<pathSet, toWorker, workerVars>>
    BY <1>2 DEF OnHiddenEntryFetched, OnEntryFetched, OnLoaded, Deliver
  <2> QED
    BY <1>0, <2>1 DEF ArmInv, PendingIsArmed, NothingUnset, ResetFirst, workerVars
<1> QED
  BY <1>1, <1>2 DEF UiNext

\* After one signal is taken from the queue, no "reset" is left.
LEMMA DispatchLeavesNoReset ==
  ASSUME ArmInv, NEW kind, Dispatch(kind)
  PROVE  /\ \A i \in DOMAIN toWorker' : toWorker'[i].kind # "reset"
         /\ kind = "reset" => pending = <<>>
         /\ pathSet'
<1>1. /\ toWorker \in Seq(WorkerEvent) /\ toWorker # <<>> /\ toWorker' = Tail(toWorker)
      /\ Head(toWorker).kind = kind /\ UNCHANGED pathSet
  BY DEF Dispatch, ArmInv, TypeOK, uiVars
<1>2. /\ DOMAIN toWorker = 1 .. Len(toWorker) /\ Len(toWorker) \in Nat \ {0}
      /\ DOMAIN toWorker' = 1 .. Len(toWorker) - 1
      /\ \A i \in DOMAIN toWorker' : toWorker'[i] = toWorker[i + 1]
      /\ Head(toWorker) = toWorker[1]
  BY <1>1
<1>3. ASSUME NEW i \in DOMAIN toWorker' PROVE toWorker'[i].kind # "reset"
  <2>1. i + 1 \in DOMAIN toWorker /\ i + 1 # 1
    BY <1>2
  <2> QED
    BY <1>2, <2>1 DEF ArmInv, ResetFirst
<1> QED
  BY <1>1, <1>2, <1>3 DEF ArmInv, ResetFirst, NothingUnset

LEMMA WorkerArm == ArmInv /\ WorkerNext => ArmInv'
<1> SUFFICES ASSUME ArmInv, WorkerNext PROVE ArmInv'
  OBVIOUS
<1>0. TypeOK' /\ TypeOK
  BY WorkerType DEF ArmInv
<1>1. CASE DoResetDatabase
  <2>1. /\ \A i \in DOMAIN toWorker' : toWorker'[i].kind # "reset"
        /\ pending = <<>> /\ pathSet'
    BY <1>1, DispatchLeavesNoReset DEF DoResetDatabase
  <2> QED
    BY <1>0, <1>1, <2>1
       DEF DoResetDatabase, ArmInv, PendingIsArmed, ResetFirst, NothingUnset
<1>2. CASE DoFetchEntries
  <2>1. /\ \A i \in DOMAIN toWorker' : toWorker'[i].kind # "reset"
        /\ pathSet' /\ UNCHANGED <<pending, flushTimer, worker>>
    BY <1>2, DispatchLeavesNoReset DEF DoFetchEntries, Dispatch
  <2> QED
    BY <1>0, <2>1 DEF ArmInv, PendingIsArmed, ResetFirst, NothingUnset
<1>3. CASE DoEnqueue
  <2>1. /\ \A i \in DOMAIN toWorker' : toWorker'[i].kind # "reset"
        /\ pathSet' /\ flushTimer' = TRUE
    BY <1>3, DispatchLeavesNoReset DEF DoEnqueue
  <2> QED
    BY <1>0, <2>1 DEF ArmInv, PendingIsArmed, ResetFirst, NothingUnset
<1>4. CASE FlushTimeout
  BY <1>0, <1>4 DEF FlushTimeout, ArmInv, PendingIsArmed, ResetFirst, NothingUnset, uiVars
<1>5. CASE FlushNext \/ FlushFails
  <2>1. /\ pending # <<>> /\ worker' # "idle"
        /\ UNCHANGED <<pathSet, toWorker>>
    BY <1>5 DEF FlushNext, FlushFails, uiVars
  <2> QED
    BY <1>0, <2>1 DEF ArmInv, PendingIsArmed, ResetFirst, NothingUnset
<1>6. CASE FlushEnd
  BY <1>0, <1>6 DEF FlushEnd, ArmInv, PendingIsArmed, ResetFirst, NothingUnset, uiVars
<1>7. CASE ThreadFinish
  BY <1>0, <1>7 DEF ThreadFinish, ArmInv, PendingIsArmed, ResetFirst, NothingUnset, uiVars
<1>8. CASE Exit
  BY <1>0, <1>8 DEF Exit, Volatile, ArmInv, PendingIsArmed, ResetFirst, NothingUnset
<1> QED
  BY <1>1, <1>2, <1>3, <1>4, <1>5, <1>6, <1>7, <1>8 DEF WorkerNext

LEMMA NextArm == ArmInv /\ [Next]_vars => ArmInv'
<1> SUFFICES ASSUME ArmInv, [Next]_vars PROVE ArmInv'
  OBVIOUS
<1>0. TypeOK'
  BY NextType DEF ArmInv
<1>1. CASE Crash \/ Start
  BY <1>0, <1>1
     DEF Crash, Start, Volatile, ArmInv, PendingIsArmed, ResetFirst, NothingUnset
<1>2. CASE Quit \/ Tick \/ UNCHANGED vars
  <2>1. UNCHANGED <<pathSet, toWorker, pending, flushTimer, worker>>
    BY <1>2 DEF Quit, Tick, vars, uiVars, workerVars
  <2> QED
    BY <1>0, <2>1 DEF ArmInv, PendingIsArmed, ResetFirst, NothingUnset
<1> QED
  BY <1>1, <1>2, UserArm, UiArm, WorkerArm DEF Next

\* Whenever the worker is back in its event loop with operations to execute,
\* its timer runs, in any interleaving of the threads and the timer.
THEOREM PendingArmed == Spec => []PendingIsArmed
<1>1. Init => ArmInv
  BY ArmInit
<1>2. ArmInv /\ [Next]_vars => ArmInv'
  BY NextArm
<1>3. ArmInv => PendingIsArmed
  BY DEF ArmInv
<1> QED
  BY <1>1, <1>2, <1>3, PTL DEF Spec
-----------------------------------------------------------------------------
(* The model is sorted by date.  The stored rows arrive one by one, while  *)
(* the user may already visit pages: what makes this work is that they are *)
(* listed before any operation of this run is executed.                    *)

Sorted(s) == \A i, j \in DOMAIN s : i < j => s[i].lastVisit >= s[j].lastVisit

\* A sorted list whose times are those of another list, or now.
From(new, old, now) ==
  /\ Sorted(new)
  /\ \A i \in DOMAIN new :
       new[i].lastVisit = now \/ \E j \in DOMAIN old : new[i].lastVisit = old[j].lastVisit

\* No statement writes a time of the future.
Past(op) == op.type \in {"InsertNewEntry", "UpdateExistingEntry"} => op.lastVisit <= clock

PastTimes ==
  /\ \A i \in DOMAIN entries : entries[i].lastVisit <= clock
  /\ \A i \in DOMAIN history : history[i].lastVisit <= clock
  /\ \A i \in DOMAIN pending : Past(pending[i])
  /\ \A i \in DOMAIN toWorker : toWorker[i].kind = "op" => Past(toWorker[i].op)

\* The rows on their way to the model come after its entries, in order.
RowsOnTheirWay ==
  \A j \in DOMAIN toUi : toUi[j].kind = "entry" =>
    /\ toUi[j].row.lastVisit <= clock
    /\ \A i \in DOMAIN entries : entries[i].lastVisit >= toUi[j].row.lastVisit
    /\ \A i \in DOMAIN toUi :
         i < j /\ toUi[i].kind = "entry" => toUi[i].row.lastVisit >= toUi[j].row.lastVisit

\* Until the rows are listed nothing of this run has reached the table.
FetchFirst ==
  \A i \in DOMAIN toWorker : toWorker[i].kind = "fetch" =>
    /\ \A j \in DOMAIN toWorker : toWorker[j].kind = "fetch" => j = i
    /\ \A j \in DOMAIN toWorker : toWorker[j].kind = "op" => i < j
    /\ pending = <<>> /\ toUi = <<>>
    /\ \A e \in DOMAIN entries, r \in DOMAIN history :
         entries[e].lastVisit >= history[r].lastVisit

EmptyUnset ==
  ~pathSet => toWorker = <<>> /\ pending = <<>> /\ toUi = <<>> /\ entries = <<>>

SortInv ==
  TypeOK /\ Sorted(entries) /\ PastTimes /\ RowsOnTheirWay /\ FetchFirst /\ EmptyUnset

LEMMA SortInit == Init => SortInv
<1> SUFFICES ASSUME Init PROVE SortInv
  OBVIOUS
<1>1. TypeOK
  BY InitType
<1>2. \A i \in DOMAIN history : history[i].lastVisit = 0
  BY DEF Init, InitialTables, StoredRow
<1>3. entries = <<>> /\ toUi = <<>> /\ toWorker = <<>> /\ pending = <<>> /\ clock = 0
  BY DEF Init
<1> QED
  BY <1>1, <1>2, <1>3 DEF SortInv, Sorted, PastTimes, RowsOnTheirWay, FetchFirst, EmptyUnset

\* The times of entries and rows are numbers.
LEMMA TimesAreNumbers ==
  ASSUME TypeOK
  PROVE  /\ clock \in Nat
         /\ \A i \in DOMAIN entries : entries[i].lastVisit \in Nat
         /\ \A i \in DOMAIN history : history[i].lastVisit \in Nat
         /\ \A i \in DOMAIN toUi : toUi[i].kind = "entry" => toUi[i].row \in Row
         /\ DOMAIN entries = 1 .. Len(entries) /\ Len(entries) \in Nat
<1>1. \A i \in DOMAIN entries : entries[i] \in Entry
  BY DEF TypeOK
<1>2. \A i \in DOMAIN history : history[i] \in Row
  BY DEF TypeOK
<1>3. \A i \in DOMAIN toUi : toUi[i] \in UiEvent
  BY DEF TypeOK
<1>4. \A x \in Entry : x.lastVisit \in Nat
  BY HistoryAssumption DEF Entry, Time
<1>5. \A x \in Row : x.lastVisit \in Nat
  BY HistoryAssumption DEF Row, Time
<1>6. clock \in Nat
  BY HistoryAssumption DEF TypeOK, Time
<1>7. \A x \in UiEvent : x.kind = "entry" => x.row \in Row
  BY DEF UiEvent
<1>8. DOMAIN entries = 1 .. Len(entries) /\ Len(entries) \in Nat
  BY DEF TypeOK
<1> QED
  BY <1>1, <1>2, <1>3, <1>4, <1>5, <1>6, <1>7, <1>8

\* Removing positions keeps a list sorted.
LEMMA KeepFrom ==
  ASSUME NEW T, NEW s \in Seq(T), NEW K \in SUBSET (DOMAIN s), Sorted(s), NEW now
  PROVE  From(Keep(s, K), s, now)
<1>1. /\ Enumerates(InOrder(K), K)
      /\ DOMAIN Keep(s, K) = 1 .. Cardinality(K)
      /\ \A i \in DOMAIN Keep(s, K) : Keep(s, K)[i] = s[InOrder(K)[i]]
  BY KeepIs
<1>2. /\ \A i \in 1 .. Cardinality(K) : InOrder(K)[i] \in DOMAIN s
      /\ \A i, j \in 1 .. Cardinality(K) : i < j => InOrder(K)[i] < InOrder(K)[j]
  BY <1>1 DEF Enumerates
<1> QED
  BY <1>1, <1>2 DEF From, Sorted

\* So does putting an entry of now at the front.
LEMMA PrependFrom ==
  ASSUME NEW T, NEW e \in T, NEW s \in Seq(T), NEW old, NEW now \in Nat,
         From(s, old, now), e.lastVisit = now,
         \A i \in DOMAIN old : old[i].lastVisit \in Nat /\ old[i].lastVisit <= now
  PROVE  From(<<e>> \o s, old, now)
<1> DEFINE new == <<e>> \o s
<1>1. /\ new \in Seq(T) /\ Len(new) = Len(s) + 1 /\ new[1] = e
      /\ \A i \in 2 .. Len(s) + 1 : new[i] = s[i - 1]
  BY PrependType
<1> HIDE DEF new
<1>2. /\ DOMAIN new = 1 .. Len(s) + 1 /\ DOMAIN s = 1 .. Len(s) /\ Len(s) \in Nat
      /\ \A i \in 2 .. Len(s) + 1 : i - 1 \in DOMAIN s
  BY <1>1
<1>3. \A i \in DOMAIN s : s[i].lastVisit \in Nat /\ s[i].lastVisit <= now
  BY DEF From
<1>4. ASSUME NEW i \in DOMAIN new, NEW j \in DOMAIN new, i < j
      PROVE  new[i].lastVisit >= new[j].lastVisit
  <2>1. j \in 2 .. Len(s) + 1 /\ j - 1 \in DOMAIN s /\ new[j] = s[j - 1]
    BY <1>1, <1>2, <1>4
  <2>2. CASE i = 1
    BY <1>1, <1>3, <2>1, <2>2
  <2>3. CASE i # 1
    <3>1. i - 1 \in DOMAIN s /\ new[i] = s[i - 1] /\ i - 1 < j - 1
      BY <1>1, <1>2, <1>4, <2>3
    <3> QED
      BY <2>1, <3>1 DEF From, Sorted
  <2> QED
    BY <2>2, <2>3
<1>5. ASSUME NEW i \in DOMAIN new
      PROVE  new[i].lastVisit = now \/ \E j \in DOMAIN old : new[i].lastVisit = old[j].lastVisit
  <2>1. CASE i = 1
    BY <1>1, <2>1
  <2>2. CASE i # 1
    <3>1. i - 1 \in DOMAIN s /\ new[i] = s[i - 1]
      BY <1>1, <1>2, <2>2
    <3> QED
      BY <3>1 DEF From
  <2> QED
    BY <2>1, <2>2
<1>6. From(new, old, now)
  BY <1>4, <1>5 DEF From, Sorted
<1> QED
  BY <1>6 DEF new
\* A list with the times of the entries is as good as theirs.
LEMMA SameTimesFrom ==
  ASSUME NEW s, NEW now, Sorted(entries), DOMAIN s = DOMAIN entries,
         \A i \in DOMAIN s : s[i].lastVisit = entries[i].lastVisit
  PROVE  From(s, entries, now)
BY DEF From, Sorted

LEMMA RetitledTime ==
  ASSUME NEW x \in Entry
  PROVE  /\ \A t : [x EXCEPT !.title = t].lastVisit = x.lastVisit
         /\ \A b : [x EXCEPT !.hidden = b].lastVisit = x.lastVisit
BY DEF Entry

LEMMA VisitedTime ==
  ASSUME NEW x \in Entry, NEW t, NEW c
  PROVE  [x EXCEPT !.title = t, !.visits = @ + 1, !.lastVisit = c].lastVisit = c
BY DEF Entry

\* The operation sent for an entry has its time.
LEMMA UpdateOpPast ==
  ASSUME NEW e, e.lastVisit <= clock
  PROVE  Past(UpdateOp(e))
BY DEF Past, UpdateOp

\* What the user does to the entries, and the operation sent.
UserEffect ==
  /\ From(entries', entries, clock)
  /\ ClearAll \/ \E op : Enqueue(op) /\ Past(op)

LEMMA AddEffect ==
  ASSUME SortInv, NEW u \in Url, NEW t \in Title, Add(u, t)
  PROVE  UserEffect
<1>1. /\ entries \in Seq(Entry) /\ Sorted(entries) /\ clock \in Nat /\ clock \in Time
      /\ \A i \in DOMAIN entries : entries[i].lastVisit \in Nat /\ entries[i].lastVisit <= clock
  BY TimesAreNumbers DEF SortInv, TypeOK, PastTimes
<1>2. CASE AddNew(u, t)
  <2> DEFINE e == [url |-> u, domain |-> DomainOf[u], title |-> t, visits |-> 1,
                   lastVisit |-> clock, hidden |-> u \in hiddenEntries]
             op == [type |-> "InsertNewEntry", url |-> u, domain |-> DomainOf[u],
                    title |-> t, lastVisit |-> clock]
  <2>1. entries' = <<e>> \o entries /\ Enqueue(op)
    BY <1>2 DEF AddNew
  <2>2. e \in Entry /\ e.lastVisit = clock /\ Past(op)
    BY <1>1, HistoryAssumption DEF Entry, Past
  <2> HIDE DEF e, op
  <2>3. From(entries, entries, clock)
    BY <1>1, SameTimesFrom
  <2>4. From(<<e>> \o entries, entries, clock)
    BY <1>1, <2>2, <2>3, PrependFrom
  <2> QED
    BY <2>1, <2>2, <2>4 DEF UserEffect
<1>3. CASE AddKnown(u, t)
  <2> DEFINE i == EntryIndex(u)
             e == [entries[i] EXCEPT !.title = t, !.visits = @ + 1, !.lastVisit = clock]
             rest == RemoveByIndex(entries, i)
  <2>1. i # 0 /\ entries' = <<e>> \o rest /\ Enqueue(UpdateOp(e))
    BY <1>3 DEF AddKnown
  <2>2. entries[i] \in Entry
    BY <1>1, <2>1, EntryIndexIs
  <2>3. e \in Entry
    <3> HIDE DEF i
    <3> QED
      BY <1>1, <2>2, VisitedEntryType
  <2>4. e.lastVisit = clock
    <3> HIDE DEF i
    <3> QED
      BY <2>2, VisitedTime
  <2>5. rest \in Seq(Entry)
    BY <1>1, RemoveByIndexType
  <2>6. From(rest, entries, clock)
    <3>1. DOMAIN entries \ {i} \in SUBSET DOMAIN entries
      OBVIOUS
    <3> HIDE DEF i
    <3> QED
      BY <1>1, <3>1, KeepFrom DEF RemoveByIndex
  <2> HIDE DEF e, i, rest
  <2>7. From(<<e>> \o rest, entries, clock)
    BY <1>1, <2>3, <2>4, <2>5, <2>6, PrependFrom
  <2>8. Past(UpdateOp(e))
    BY <1>1, <2>4, UpdateOpPast
  <2> QED
    BY <2>1, <2>7, <2>8 DEF UserEffect
<1> QED
  BY <1>2, <1>3 DEF Add

LEMMA UpdateEffect ==
  ASSUME SortInv, NEW u \in Url, NEW t \in Title, Update(u, t)
  PROVE  UserEffect
<1> DEFINE i == EntryIndex(u)
           e == [entries[i] EXCEPT !.title = t]
<1>1. /\ entries \in Seq(Entry) /\ Sorted(entries)
      /\ \A j \in DOMAIN entries : entries[j].lastVisit <= clock
  BY DEF SortInv, TypeOK, PastTimes
<1>2. i # 0 /\ entries' = [entries EXCEPT ![i] = e] /\ Enqueue(UpdateOp(e))
  BY DEF Update
<1>3. entries[i] \in Entry /\ i \in DOMAIN entries
  BY <1>1, <1>2, EntryIndexIs
<1>4. e.lastVisit = entries[i].lastVisit
  <2> HIDE DEF i
  <2> QED
    BY <1>3, RetitledTime
<1> HIDE DEF e, i
<1>5. DOMAIN entries' = DOMAIN entries
      /\ \A j \in DOMAIN entries' : entries'[j].lastVisit = entries[j].lastVisit
  BY <1>1, <1>2, <1>3, <1>4
<1>6. From(entries', entries, clock)
  BY <1>1, <1>5, SameTimesFrom
<1>7. Past(UpdateOp(e))
  BY <1>1, <1>3, <1>4, UpdateOpPast
<1> QED
  BY <1>2, <1>6, <1>7 DEF UserEffect

LEMMA RemoveEffect ==
  ASSUME SortInv
  PROVE  /\ \A u \in Url : RemoveEntryByUrl(u) => UserEffect
         /\ \A d : RemoveEntriesByDate(d) => UserEffect
         /\ \A d : RemoveEntriesByDomain(d) => UserEffect
<1>1. entries \in Seq(Entry) /\ Sorted(entries)
  BY DEF SortInv, TypeOK
<1>2. ASSUME NEW u \in Url, RemoveEntryByUrl(u) PROVE UserEffect
  <2>1. DOMAIN entries \ {EntryIndex(u)} \in SUBSET DOMAIN entries
    OBVIOUS
  <2>2. From(RemoveByIndex(entries, EntryIndex(u)), entries, clock)
    BY <1>1, <2>1, KeepFrom DEF RemoveByIndex
  <2>3. From(entries, entries, clock)
    BY <1>1, SameTimesFrom
  <2>4. From(entries', entries, clock)
    BY <1>2, <2>2, <2>3 DEF RemoveEntryByUrl
  <2>5. Past([type |-> "RemoveEntryByUrl", url |-> u])
    BY DEF Past
  <2> QED
    BY <1>2, <2>4, <2>5 DEF RemoveEntryByUrl, UserEffect
<1>3. ASSUME NEW d, RemoveEntriesByDate(d) PROVE UserEffect
  <2>1. From(entries', entries, clock)
    BY <1>1, <1>3, KeepFrom DEF RemoveEntriesByDate
  <2>2. Past([type |-> "RemoveEntriesByDate", day |-> d])
    BY DEF Past
  <2> QED
    BY <1>3, <2>1, <2>2 DEF RemoveEntriesByDate, UserEffect
<1>4. ASSUME NEW d, RemoveEntriesByDomain(d) PROVE UserEffect
  <2>1. From(entries', entries, clock)
    BY <1>1, <1>4, KeepFrom DEF RemoveEntriesByDomain
  <2>2. Past([type |-> "RemoveEntriesByDomain", domain |-> d])
    BY DEF Past
  <2> QED
    BY <1>4, <2>1, <2>2 DEF RemoveEntriesByDomain, UserEffect
<1> QED
  BY <1>2, <1>3, <1>4

LEMMA HideEffect ==
  ASSUME SortInv, NEW u \in Url, Hide(u) \/ UnHide(u)
  PROVE  UserEffect
<1>1. /\ Sorted(entries) /\ \A i \in DOMAIN entries : entries[i] \in Entry
  BY DEF SortInv, TypeOK
<1>2. ASSUME NEW b, SetHidden(u, b) PROVE From(entries', entries, clock)
  <2>1. \A i \in DOMAIN entries : [entries[i] EXCEPT !.hidden = b].lastVisit = entries[i].lastVisit
    BY <1>1, RetitledTime
  <2>2. DOMAIN entries' = DOMAIN entries
        /\ \A i \in DOMAIN entries' : entries'[i].lastVisit = entries[i].lastVisit
    BY <1>2, <2>1 DEF SetHidden
  <2> QED
    BY <1>1, <2>2, SameTimesFrom
<1>3. From(entries', entries, clock)
  BY <1>2 DEF Hide, UnHide
<1>4. /\ Past([type |-> "InsertNewHiddenEntry", url |-> u])
      /\ Past([type |-> "RemoveHiddenEntryByUrl", url |-> u])
  BY DEF Past
<1> QED
  BY <1>3, <1>4 DEF Hide, UnHide, UserEffect

LEMMA UserEffects == SortInv /\ UserNext => UserEffect
<1>1. SortInv /\ ClearAll => UserEffect
  BY DEF ClearAll, UserEffect, From, Sorted
<1> QED
  BY <1>1, AddEffect, UpdateEffect, RemoveEffect, HideEffect DEF UserNext

\* The queue after a command: what it held, then operations of the past.
LEMMA UserQueue ==
  ASSUME SortInv, UserNext
  PROVE  /\ DOMAIN toWorker \subseteq DOMAIN toWorker'
         /\ \A i \in DOMAIN toWorker : toWorker'[i] = toWorker[i]
         /\ \A i \in DOMAIN toWorker' \ DOMAIN toWorker :
              /\ toWorker'[i].kind = "op" /\ Past(toWorker'[i].op)
              /\ \A j \in DOMAIN toWorker : j < i
<1>1. toWorker \in Seq(WorkerEvent) /\ toWorker' \in Seq(WorkerEvent)
  BY UserType DEF SortInv, TypeOK
<1>2. CASE \E op : Enqueue(op) /\ Past(op)
  <2>1. PICK op : Enqueue(op) /\ Past(op)
    BY <1>2
  <2> DEFINE e == [kind |-> "op", op |-> op]
  <2>2. toWorker' = Append(toWorker, e) /\ e.kind = "op" /\ Past(e.op)
    BY <2>1 DEF Enqueue
  <2> HIDE DEF e
  <2>3. /\ DOMAIN toWorker' = 1 .. Len(toWorker) + 1
        /\ DOMAIN toWorker = 1 .. Len(toWorker) /\ Len(toWorker) \in Nat
        /\ \A i \in 1 .. Len(toWorker) : toWorker'[i] = toWorker[i]
        /\ toWorker'[Len(toWorker) + 1] = e
    BY <1>1, <2>2
  <2>4. ASSUME NEW i \in DOMAIN toWorker' \ DOMAIN toWorker PROVE i = Len(toWorker) + 1
    BY <2>3, <2>4
  <2> QED
    BY <2>2, <2>3, <2>4
<1>3. CASE ClearAll
  <2> DEFINE a == [kind |-> "op", op |-> [type |-> "ClearHistory"]]
             b == [kind |-> "op", op |-> [type |-> "ClearHistoryHidden"]]
  <2>1. toWorker' = toWorker \o <<a, b>>
    BY <1>3 DEF ClearAll
  <2>2. /\ a.kind = "op" /\ Past(a.op) /\ b.kind = "op" /\ Past(b.op)
    BY DEF Past
  <2> HIDE DEF a, b
  <2>3. /\ DOMAIN toWorker' = 1 .. Len(toWorker) + 2
        /\ DOMAIN toWorker = 1 .. Len(toWorker) /\ Len(toWorker) \in Nat
        /\ \A i \in 1 .. Len(toWorker) : toWorker'[i] = toWorker[i]
        /\ toWorker'[Len(toWorker) + 1] = a /\ toWorker'[Len(toWorker) + 2] = b
    BY <1>1, <2>1
  <2>4. ASSUME NEW i \in DOMAIN toWorker' \ DOMAIN toWorker
        PROVE  i = Len(toWorker) + 1 \/ i = Len(toWorker) + 2
    BY <2>3, <2>4
  <2> QED
    BY <2>2, <2>3, <2>4
<1> QED
  BY <1>2, <1>3, UserEffects DEF UserEffect

LEMMA UserSort == SortInv /\ UserNext => SortInv'
<1> SUFFICES ASSUME SortInv, UserNext PROVE SortInv'
  OBVIOUS
<1>1. TypeOK /\ TypeOK'
  BY UserType DEF SortInv
<1>2. Command
  BY CommandSends
<1>3. pathSet /\ UNCHANGED <<pathSet, toUi, pending, history, clock>>
  BY <1>2 DEF Command, workerVars, dbVars
<1>4. From(entries', entries, clock)
  BY UserEffects DEF UserEffect
<1>5. /\ DOMAIN toWorker \subseteq DOMAIN toWorker'
      /\ \A i \in DOMAIN toWorker : toWorker'[i] = toWorker[i]
      /\ \A i \in DOMAIN toWorker' \ DOMAIN toWorker :
           /\ toWorker'[i].kind = "op" /\ Past(toWorker'[i].op)
           /\ \A j \in DOMAIN toWorker : j < i
  BY UserQueue
<1>6. /\ clock \in Nat
      /\ \A i \in DOMAIN entries : entries[i].lastVisit \in Nat
      /\ \A i \in DOMAIN history : history[i].lastVisit \in Nat
      /\ \A i \in DOMAIN toUi : toUi[i].kind = "entry" => toUi[i].row.lastVisit \in Nat
  BY <1>1, TimesAreNumbers, HistoryAssumption DEF Row, Time
<1>7. Sorted(entries')
  BY <1>4 DEF From
\* No entry is older than all entries were.
<1>8. ASSUME NEW t \in Nat, t <= clock, \A i \in DOMAIN entries : entries[i].lastVisit >= t,
             NEW i \in DOMAIN entries'
      PROVE  entries'[i].lastVisit >= t
  BY <1>4, <1>6, <1>8 DEF From
<1>9. PastTimes'
  <2>1. \A i \in DOMAIN entries' : entries'[i].lastVisit <= clock
    BY <1>4, <1>6 DEF From, SortInv, PastTimes
  <2>2. \A op : Past(op)' <=> Past(op)
    BY <1>3 DEF Past
  <2>3. \A i \in DOMAIN toWorker' : toWorker'[i].kind = "op" => Past(toWorker'[i].op)
    BY <1>5 DEF SortInv, PastTimes
  <2> QED
    BY <1>3, <2>1, <2>2, <2>3 DEF SortInv, PastTimes
<1>10. RowsOnTheirWay'
  <2>1. ASSUME NEW j \in DOMAIN toUi, toUi[j].kind = "entry", NEW i \in DOMAIN entries'
        PROVE  entries'[i].lastVisit >= toUi[j].row.lastVisit
    BY <1>6, <1>8, <2>1 DEF SortInv, RowsOnTheirWay
  <2> QED
    BY <1>3, <2>1 DEF SortInv, RowsOnTheirWay
<1>11. FetchFirst'
  <2> SUFFICES ASSUME NEW i \in DOMAIN toWorker', toWorker'[i].kind = "fetch"
               PROVE  /\ \A j \in DOMAIN toWorker' : toWorker'[j].kind = "fetch" => j = i
                      /\ \A j \in DOMAIN toWorker' : toWorker'[j].kind = "op" => i < j
                      /\ pending = <<>> /\ toUi = <<>>
                      /\ \A e \in DOMAIN entries', r \in DOMAIN history :
                           entries'[e].lastVisit >= history[r].lastVisit
    BY <1>3 DEF FetchFirst
  <2>1. i \in DOMAIN toWorker /\ toWorker[i].kind = "fetch"
    BY <1>5
  <2>2. /\ \A j \in DOMAIN toWorker : toWorker[j].kind = "fetch" => j = i
        /\ \A j \in DOMAIN toWorker : toWorker[j].kind = "op" => i < j
        /\ pending = <<>> /\ toUi = <<>>
        /\ \A e \in DOMAIN entries, r \in DOMAIN history :
             entries[e].lastVisit >= history[r].lastVisit
    BY <2>1 DEF SortInv, FetchFirst
  <2>3. \A j \in DOMAIN toWorker' : toWorker'[j].kind = "fetch" => j = i
    BY <1>5, <2>2
  <2>4. \A j \in DOMAIN toWorker' : toWorker'[j].kind = "op" => i < j
    BY <1>5, <2>1, <2>2
  <2>5. \A e \in DOMAIN entries', r \in DOMAIN history :
          entries'[e].lastVisit >= history[r].lastVisit
    BY <1>6, <1>8, <2>2 DEF SortInv, PastTimes
  <2> QED
    BY <2>2, <2>3, <2>4, <2>5
<1>12. EmptyUnset'
  BY <1>3 DEF EmptyUnset
<1> QED
  BY <1>1, <1>7, <1>9, <1>10, <1>11, <1>12 DEF SortInv

\* The queue after a signal was delivered.
LEMMA DeliverQueue ==
  ASSUME TypeOK, NEW kind, Deliver(kind)
  PROVE  /\ 1 \in DOMAIN toUi /\ Head(toUi) = toUi[1] /\ toUi[1].kind = kind
         /\ \A i \in DOMAIN toUi' : i + 1 \in DOMAIN toUi /\ toUi'[i] = toUi[i + 1]
         /\ \A i \in DOMAIN toUi' : i \in Nat \ {0}
         /\ toUi # <<>>
BY DEF TypeOK, Deliver

LEMMA UiSort == SortInv /\ UiNext => SortInv'
<1> SUFFICES ASSUME SortInv, UiNext PROVE SortInv'
  OBVIOUS
<1>0. TypeOK /\ TypeOK'
  BY UiType DEF SortInv
<1>1. CASE SetDatabasePath
  <2>1. /\ toWorker = <<>> /\ pending = <<>> /\ toUi = <<>>
        /\ entries' = <<>> /\ pathSet' = TRUE
        /\ UNCHANGED <<toUi, pending, history, clock>>
    BY <1>1 DEF SetDatabasePath, SortInv, EmptyUnset, workerVars, dbVars, boundVars
  <2>2. toWorker' = <<[kind |-> "reset"], [kind |-> "fetch"]>>
    BY <1>1, <2>1 DEF SetDatabasePath
  <2>3. PastTimes'
    BY <2>1, <2>2 DEF SortInv, PastTimes, Past
  <2>4. FetchFirst'
    BY <2>1, <2>2 DEF FetchFirst
  <2> QED
    BY <1>0, <2>1, <2>3, <2>4 DEF SortInv, Sorted, RowsOnTheirWay, EmptyUnset
<1>2. CASE OnHiddenEntryFetched \/ OnEntryFetched \/ OnLoaded
  <2>1. PICK kind : Deliver(kind) /\ (kind = "entry" => OnEntryFetched)
                    /\ (kind # "entry" => UNCHANGED entries)
    BY <1>2 DEF OnHiddenEntryFetched, OnEntryFetched, OnLoaded
  <2>2. UNCHANGED <<pathSet, toWorker, pending, history, clock>>
    BY <2>1 DEF Deliver, workerVars, dbVars, boundVars
  <2>3. /\ 1 \in DOMAIN toUi /\ Head(toUi) = toUi[1] /\ toUi[1].kind = kind
        /\ \A i \in DOMAIN toUi' : i + 1 \in DOMAIN toUi /\ toUi'[i] = toUi[i + 1]
        /\ \A i \in DOMAIN toUi' : i \in Nat \ {0}
        /\ toUi # <<>>
    BY <1>0, <2>1, DeliverQueue
  <2>4. FetchFirst' /\ EmptyUnset'
    BY <2>2, <2>3 DEF SortInv, FetchFirst, EmptyUnset
  <2>5. \A op : Past(op)' <=> Past(op)
    BY <2>2 DEF Past
  <2>6. \A j \in DOMAIN toUi' : toUi'[j].kind = "entry" =>
          /\ toUi'[j].row.lastVisit <= clock
          /\ \A i \in DOMAIN entries : entries[i].lastVisit >= toUi'[j].row.lastVisit
          /\ \A i \in DOMAIN toUi' :
               i < j /\ toUi'[i].kind = "entry" => toUi'[i].row.lastVisit >= toUi'[j].row.lastVisit
          /\ toUi[1].kind = "entry" => toUi[1].row.lastVisit >= toUi'[j].row.lastVisit
    <3> SUFFICES ASSUME NEW j \in DOMAIN toUi', toUi'[j].kind = "entry"
                 PROVE  /\ toUi'[j].row.lastVisit <= clock
                        /\ \A i \in DOMAIN entries :
                             entries[i].lastVisit >= toUi'[j].row.lastVisit
                        /\ \A i \in DOMAIN toUi' : i < j /\ toUi'[i].kind = "entry"
                             => toUi'[i].row.lastVisit >= toUi'[j].row.lastVisit
                        /\ toUi[1].kind = "entry"
                             => toUi[1].row.lastVisit >= toUi'[j].row.lastVisit
      OBVIOUS
    <3>1. /\ j + 1 \in DOMAIN toUi /\ toUi'[j] = toUi[j + 1] /\ 1 < j + 1
          /\ \A i \in DOMAIN toUi' : i < j => i + 1 < j + 1
      BY <2>3
    <3>2. /\ toUi[j + 1].row.lastVisit <= clock
          /\ \A i \in DOMAIN entries : entries[i].lastVisit >= toUi[j + 1].row.lastVisit
          /\ \A i \in DOMAIN toUi : i < j + 1 /\ toUi[i].kind = "entry"
                                    => toUi[i].row.lastVisit >= toUi[j + 1].row.lastVisit
      BY <3>1 DEF SortInv, RowsOnTheirWay
    <3> QED
      BY <2>3, <3>1, <3>2
  <2>7. CASE kind # "entry"
    <3>1. UNCHANGED entries
      BY <2>1, <2>7
    <3> QED
      BY <1>0, <2>2, <2>4, <2>5, <2>6, <3>1 DEF SortInv, Sorted, PastTimes, RowsOnTheirWay
  <2>8. CASE kind = "entry"
    <3> DEFINE r == Head(toUi).row
               e == [url |-> r.url, domain |-> FetchedDomain(r), title |-> r.title,
                     visits |-> r.visits, lastVisit |-> r.lastVisit,
                     hidden |-> r.url \in hiddenEntries]
    <3>1. entries' = Append(entries, e)
      BY <2>1, <2>8 DEF OnEntryFetched
    <3>2. e.lastVisit = toUi[1].row.lastVisit
      BY <2>3
    <3> HIDE DEF e, r
    <3>3. entries \in Seq(Entry) /\ entries' \in Seq(Entry)
      BY <1>0 DEF TypeOK
    <3>4. /\ DOMAIN entries' = 1 .. Len(entries) + 1
          /\ DOMAIN entries = 1 .. Len(entries) /\ Len(entries) \in Nat
          /\ \A i \in 1 .. Len(entries) : entries'[i] = entries[i]
          /\ entries'[Len(entries) + 1] = e
      BY <3>1, <3>3
    <3>5. /\ e.lastVisit <= clock
          /\ \A i \in DOMAIN entries : entries[i].lastVisit >= e.lastVisit
      BY <2>3, <2>8, <3>2 DEF SortInv, RowsOnTheirWay
    <3>6. Sorted(entries')
      <4> SUFFICES ASSUME NEW i \in DOMAIN entries', NEW j \in DOMAIN entries', i < j
                   PROVE  entries'[i].lastVisit >= entries'[j].lastVisit
        BY DEF Sorted
      <4>1. i \in DOMAIN entries /\ entries'[i] = entries[i]
        BY <3>4
      <4>2. CASE j \in DOMAIN entries
        BY <3>4, <4>1, <4>2 DEF SortInv, Sorted
      <4>3. CASE j \notin DOMAIN entries
        <5>1. entries'[j] = e
          BY <3>4, <4>3
        <5> QED
          BY <3>5, <4>1, <5>1
      <4> QED
        BY <4>2, <4>3
    <3>7. \A i \in DOMAIN entries' : entries'[i] = e \/ (i \in DOMAIN entries /\ entries'[i] = entries[i])
      BY <3>4
    <3>8. PastTimes'
      BY <2>2, <2>5, <3>5, <3>7 DEF SortInv, PastTimes
    <3>9. RowsOnTheirWay'
      BY <2>2, <2>3, <2>6, <2>8, <3>2, <3>7 DEF RowsOnTheirWay
    <3> QED
      BY <1>0, <2>4, <3>6, <3>8, <3>9 DEF SortInv
  <2> QED
    BY <2>7, <2>8
<1> QED
  BY <1>1, <1>2 DEF UiNext

LEMMA ProcessSort ==
  SortInv /\ (Quit \/ Crash \/ Start \/ Tick \/ Exit \/ UNCHANGED vars) => SortInv'
<1> SUFFICES ASSUME SortInv, Quit \/ Crash \/ Start \/ Tick \/ Exit \/ UNCHANGED vars
             PROVE  SortInv'
  OBVIOUS
<1>0. TypeOK /\ TypeOK'
  BY NextType DEF SortInv, Next, WorkerNext
<1>1. CASE Crash \/ Start \/ Exit
  <2>1. /\ entries' = <<>> /\ toWorker' = <<>> /\ toUi' = <<>> /\ pending' = <<>>
        /\ UNCHANGED <<history, clock>>
    BY <1>1 DEF Crash, Start, Exit, Volatile, dbVars, boundVars
  <2> QED
    BY <1>0, <2>1
       DEF SortInv, Sorted, PastTimes, RowsOnTheirWay, FetchFirst, EmptyUnset
<1>2. CASE Tick
  <2>1. /\ UNCHANGED <<entries, toWorker, toUi, pending, history, pathSet>>
        /\ clock' = clock + 1
    BY <1>2 DEF Tick, uiVars, workerVars, dbVars
  <2>2. /\ clock \in Nat
        /\ \A i \in DOMAIN entries : entries[i].lastVisit \in Nat
        /\ \A i \in DOMAIN history : history[i].lastVisit \in Nat
        /\ \A i \in DOMAIN toUi : toUi[i].kind = "entry" => toUi[i].row.lastVisit \in Nat
    BY <1>0, TimesAreNumbers, HistoryAssumption DEF Row, Time
  <2>3. ASSUME NEW op \in Op, Past(op) PROVE Past(op)'
    <3>1. op.type \in {"InsertNewEntry", "UpdateExistingEntry"} => op.lastVisit \in Nat
      BY HistoryAssumption DEF Op, Time
    <3> QED
      BY <2>1, <2>2, <2>3, <3>1 DEF Past
  <2>4. /\ \A i \in DOMAIN pending : pending[i] \in Op
        /\ \A i \in DOMAIN toWorker : toWorker[i].kind = "op" => toWorker[i].op \in Op
    <3>1. \A e \in WorkerEvent : e.kind = "op" => e.op \in Op
      BY DEF WorkerEvent
    <3> QED
      BY <1>0, <3>1 DEF TypeOK
  <2>5. PastTimes'
    BY <2>1, <2>2, <2>3, <2>4 DEF SortInv, PastTimes
  <2>6. RowsOnTheirWay'
    BY <2>1, <2>2 DEF SortInv, RowsOnTheirWay
  <2> QED
    BY <1>0, <2>1, <2>5, <2>6 DEF SortInv, Sorted, FetchFirst, EmptyUnset
<1>3. CASE Quit \/ UNCHANGED vars
  <2>1. UNCHANGED <<entries, toWorker, toUi, pending, history, pathSet, clock>>
    BY <1>3 DEF Quit, vars, uiVars, workerVars, dbVars, boundVars
  <2>2. \A op : Past(op)' <=> Past(op)
    BY <2>1 DEF Past
  <2> QED
    BY <1>0, <2>1, <2>2
       DEF SortInv, Sorted, PastTimes, RowsOnTheirWay, FetchFirst, EmptyUnset
<1> QED
  BY <1>1, <1>2, <1>3

\* A statement that writes no time of the future leaves none in the table.
LEMMA ExecHistoryPast ==
  ASSUME NEW op \in Op, NEW t \in Seq(Row), Past(op),
         \A i \in DOMAIN t : t[i].lastVisit <= clock
  PROVE  \A i \in DOMAIN ExecHistory(op, t) : ExecHistory(op, t)[i].lastVisit <= clock
<1>0. DOMAIN t = 1 .. Len(t) /\ Len(t) \in Nat
  OBVIOUS
<1>1. ASSUME NEW K \in SUBSET (DOMAIN t)
      PROVE  \A i \in DOMAIN Keep(t, K) : Keep(t, K)[i].lastVisit <= clock
  <2>1. /\ Enumerates(InOrder(K), K)
        /\ DOMAIN Keep(t, K) = 1 .. Cardinality(K)
        /\ \A i \in DOMAIN Keep(t, K) : Keep(t, K)[i] = t[InOrder(K)[i]]
    BY KeepIs
  <2>2. \A i \in 1 .. Cardinality(K) : InOrder(K)[i] \in DOMAIN t
    BY <2>1 DEF Enumerates
  <2> QED
    BY <2>1, <2>2
<1>2. CASE op.type = "InsertNewEntry"
  <2> DEFINE r == [url |-> op.url, domain |-> op.domain, title |-> op.title,
                   visits |-> 1, lastVisit |-> op.lastVisit]
  <2>1. ExecHistory(op, t) = Append(t, r) /\ r.lastVisit <= clock
    BY <1>2 DEF ExecHistory, Past
  <2> HIDE DEF r
  <2>2. \A i \in DOMAIN Append(t, r) : Append(t, r)[i] = r \/ (i \in DOMAIN t /\ Append(t, r)[i] = t[i])
    BY <1>0
  <2> QED
    BY <2>1, <2>2
<1>3. CASE op.type = "UpdateExistingEntry"
  BY <1>3 DEF ExecHistory, Past
<1>4. CASE op.type = "RemoveEntryByUrl"
  BY <1>1, <1>4 DEF ExecHistory
<1>5. CASE op.type = "RemoveEntriesByDate"
  BY <1>1, <1>5 DEF ExecHistory
<1>6. CASE op.type = "RemoveEntriesByDomain"
  BY <1>1, <1>6 DEF ExecHistory
<1>7. CASE op.type = "ClearHistory"
  BY <1>7 DEF ExecHistory
<1>8. CASE op.type \in {"InsertNewHiddenEntry", "RemoveHiddenEntryByUrl", "ClearHistoryHidden"}
  BY <1>8 DEF ExecHistory
<1> QED
  BY <1>2, <1>3, <1>4, <1>5, <1>6, <1>7, <1>8 DEF Op

\* The queue after the worker took a signal: no "fetch" is behind an operation
\* or behind another "fetch".
LEMMA DispatchQueue ==
  ASSUME SortInv, NEW kind, Dispatch(kind)
  PROVE  /\ pathSet'
         /\ kind \in {"op", "fetch"} =>
              \A i \in DOMAIN toWorker' : toWorker'[i].kind # "fetch"
         /\ \A i \in DOMAIN toWorker' : toWorker'[i].kind = "fetch" =>
              /\ \A j \in DOMAIN toWorker' : toWorker'[j].kind = "fetch" => j = i
              /\ \A j \in DOMAIN toWorker' : toWorker'[j].kind = "op" => i < j
              /\ pending = <<>> /\ toUi = <<>>
              /\ \A e \in DOMAIN entries, r \in DOMAIN history :
                   entries[e].lastVisit >= history[r].lastVisit
         /\ \A i \in DOMAIN toWorker' : toWorker'[i].kind = "op" => Past(toWorker'[i].op)
         /\ kind = "op" => Past(Head(toWorker).op)
         /\ kind = "fetch" =>
              /\ pending = <<>> /\ toUi = <<>>
              /\ \A e \in DOMAIN entries, r \in DOMAIN history :
                   entries[e].lastVisit >= history[r].lastVisit
<1>1. /\ toWorker \in Seq(WorkerEvent) /\ toWorker # <<>> /\ toWorker' = Tail(toWorker)
      /\ Head(toWorker).kind = kind /\ UNCHANGED pathSet
  BY DEF Dispatch, SortInv, TypeOK, uiVars
<1>2. /\ 1 \in DOMAIN toWorker /\ Head(toWorker) = toWorker[1] /\ toWorker[1].kind = kind
      /\ \A i \in DOMAIN toWorker' : /\ i \in Nat \ {0} /\ i + 1 \in DOMAIN toWorker
                                     /\ toWorker'[i] = toWorker[i + 1]
  BY <1>1
<1>3. FetchFirst /\ pathSet
  BY <1>1 DEF SortInv, EmptyUnset
<1>4. ASSUME kind \in {"op", "fetch"}, NEW i \in DOMAIN toWorker'
      PROVE  toWorker'[i].kind # "fetch"
  <2>1. i + 1 # 1 /\ ~ (i + 1 < 1) /\ i + 1 \in DOMAIN toWorker /\ toWorker'[i] = toWorker[i + 1]
    BY <1>2
  <2> QED
    BY <1>2, <1>3, <1>4, <2>1 DEF FetchFirst
<1>5. ASSUME NEW i \in DOMAIN toWorker', toWorker'[i].kind = "fetch"
      PROVE  /\ \A j \in DOMAIN toWorker' : toWorker'[j].kind = "fetch" => j = i
             /\ \A j \in DOMAIN toWorker' : toWorker'[j].kind = "op" => i < j
             /\ pending = <<>> /\ toUi = <<>>
             /\ \A e \in DOMAIN entries, r \in DOMAIN history :
                  entries[e].lastVisit >= history[r].lastVisit
  <2>1. i + 1 \in DOMAIN toWorker /\ toWorker[i + 1].kind = "fetch"
    BY <1>2, <1>5
  <2>2. /\ \A j \in DOMAIN toWorker : toWorker[j].kind = "fetch" => j = i + 1
        /\ \A j \in DOMAIN toWorker : toWorker[j].kind = "op" => i + 1 < j
        /\ pending = <<>> /\ toUi = <<>>
        /\ \A e \in DOMAIN entries, r \in DOMAIN history :
             entries[e].lastVisit >= history[r].lastVisit
    BY <1>3, <2>1 DEF FetchFirst
  <2>3. ASSUME NEW j \in DOMAIN toWorker', toWorker'[j].kind = "fetch" PROVE j = i
    <3>1. j + 1 = i + 1
      BY <1>2, <2>2, <2>3
    <3> QED
      BY <1>2, <3>1
  <2>4. ASSUME NEW j \in DOMAIN toWorker', toWorker'[j].kind = "op" PROVE i < j
    <3>1. i + 1 < j + 1
      BY <1>2, <2>2, <2>4
    <3> QED
      BY <1>2, <3>1
  <2> QED
    BY <2>2, <2>3, <2>4
<1>6. /\ \A i \in DOMAIN toWorker' : toWorker'[i].kind = "op" => Past(toWorker'[i].op)
      /\ kind = "op" => Past(Head(toWorker).op)
  BY <1>2 DEF SortInv, PastTimes
<1>7. kind = "fetch" =>
        /\ pending = <<>> /\ toUi = <<>>
        /\ \A e \in DOMAIN entries, r \in DOMAIN history :
             entries[e].lastVisit >= history[r].lastVisit
  BY <1>2, <1>3 DEF FetchFirst
<1> QED
  BY <1>1, <1>3, <1>4, <1>5, <1>6, <1>7

\* Where each element of the queue that doFetchEntries leaves comes from.
LEMMA ThreeParts ==
  ASSUME NEW T, NEW a \in Seq(T), NEW b \in Seq(T), NEW c \in T,
         NEW q, q = <<>> \o a \o b \o <<c>>,
         NEW i \in DOMAIN q
  PROVE  \/ i \in DOMAIN a /\ q[i] = a[i]
         \/ i - Len(a) \in DOMAIN b /\ q[i] = b[i - Len(a)]
         \/ q[i] = c
<1>1. /\ DOMAIN q = 1 .. Len(a) + Len(b) + 1 /\ Len(a) \in Nat /\ Len(b) \in Nat
      /\ DOMAIN a = 1 .. Len(a) /\ DOMAIN b = 1 .. Len(b)
      /\ \A j \in 1 .. Len(a) : q[j] = a[j]
      /\ q[Len(a) + Len(b) + 1] = c
  OBVIOUS
<1>2. \A j \in 1 .. Len(b) : q[Len(a) + j] = b[j]
  OBVIOUS
<1>3. CASE i <= Len(a)
  BY <1>1, <1>3
<1>4. CASE ~ (i <= Len(a)) /\ i <= Len(a) + Len(b)
  <2>1. i - Len(a) \in 1 .. Len(b) /\ Len(a) + (i - Len(a)) = i
    BY <1>1, <1>4
  <2> QED
    BY <1>1, <1>2, <2>1
<1>5. CASE ~ (i <= Len(a) + Len(b))
  BY <1>1, <1>5
<1> QED
  BY <1>3, <1>4, <1>5

LEMMA FetchSort == SortInv /\ DoFetchEntries => SortInv'
<1> SUFFICES ASSUME SortInv, DoFetchEntries PROVE SortInv'
  OBVIOUS
<1> DEFINE Hs(h) == [i \in DOMAIN h |-> [kind |-> "hidden", url |-> h[i]]]
           Es(p) == [i \in DOMAIN p |-> [kind |-> "entry", row |-> history[p[i]]]]
           c == [kind |-> "loaded"]
<1>0. TypeOK /\ TypeOK'
  BY FetchType DEF SortInv
<1>1. PICK p \in Listings, h \in HiddenListings : toUi' = toUi \o Hs(h) \o Es(p) \o <<c>>
  BY DEF DoFetchEntries
<1>2. Dispatch("fetch") /\ UNCHANGED pending
  BY DEF DoFetchEntries
<1>3. /\ pathSet' /\ pending = <<>> /\ toUi = <<>>
      /\ \A i \in DOMAIN toWorker' : toWorker'[i].kind # "fetch"
      /\ \A i \in DOMAIN toWorker' : toWorker'[i].kind = "op" => Past(toWorker'[i].op)
      /\ \A e \in DOMAIN entries, r \in DOMAIN history :
           entries[e].lastVisit >= history[r].lastVisit
  BY <1>2, DispatchQueue
<1>4. UNCHANGED <<entries, history, clock>>
  BY <1>2 DEF Dispatch, uiVars, dbVars, boundVars
<1>5. /\ DOMAIN history = 1 .. Len(history) /\ Len(history) \in Nat
      /\ p \in [DOMAIN history -> DOMAIN history]
      /\ \A i, j \in DOMAIN history :
           i < j => history[p[i]].lastVisit >= history[p[j]].lastVisit
  BY <1>0 DEF TypeOK, Listings
<1>6. Hs(h) \in Seq({x \in UiEvent : x.kind = "hidden"})
      /\ Es(p) \in Seq({x \in UiEvent : x.kind = "entry"})
  <2>1. IsFiniteSet(historyHidden)
    BY <1>0, HistoryAssumption, FS_Subset DEF TypeOK
  <2>2. Cardinality(historyHidden) \in Nat
    BY <2>1, FS_CardinalityType
  <2>3. h \in [1 .. Cardinality(historyHidden) -> Url]
    BY <1>0 DEF HiddenListings, TypeOK
  <2>4. \A u \in Url : [kind |-> "hidden", url |-> u] \in {x \in UiEvent : x.kind = "hidden"}
    BY DEF UiEvent
  <2>5. Hs(h) \in [1 .. Cardinality(historyHidden) -> {x \in UiEvent : x.kind = "hidden"}]
    BY <2>3, <2>4
  <2>6. \A i \in DOMAIN history : history[i] \in Row
    BY <1>0 DEF TypeOK
  <2>7. \A r \in Row : [kind |-> "entry", row |-> r] \in {x \in UiEvent : x.kind = "entry"}
    BY DEF UiEvent
  <2>8. Es(p) \in [1 .. Len(history) -> {x \in UiEvent : x.kind = "entry"}]
    BY <1>5, <2>6, <2>7
  <2> HIDE DEF Hs, Es
  <2> QED
    BY <1>5, <2>2, <2>5, <2>8
<1>7. Hs(h) \in Seq(UiEvent) /\ Es(p) \in Seq(UiEvent) /\ c \in UiEvent
      /\ \A i \in DOMAIN Hs(h) : Hs(h)[i].kind # "entry"
  <2>1. c \in UiEvent
    BY DEF UiEvent
  <2> HIDE DEF Hs, Es, c
  <2> QED
    BY <1>6, <2>1
<1>8. /\ DOMAIN Es(p) = DOMAIN history
      /\ \A i \in DOMAIN history : Es(p)[i].row = history[p[i]]
  BY <1>5
<1>9. c.kind # "entry"
  OBVIOUS
<1> DEFINE n == Len(Hs(h))
<1>10. n \in Nat
  <2> HIDE DEF Hs
  <2> QED
    BY <1>7
<1> HIDE DEF Hs, Es, c, n
<1>11. ASSUME NEW i \in DOMAIN toUi', toUi'[i].kind = "entry"
       PROVE  /\ i - n \in DOMAIN history /\ p[i - n] \in DOMAIN history
              /\ toUi'[i].row = history[p[i - n]]
  <2>1. toUi' = <<>> \o Hs(h) \o Es(p) \o <<c>>
    BY <1>1, <1>3
  <2>2. \/ i \in DOMAIN Hs(h) /\ toUi'[i] = Hs(h)[i]
        \/ i - n \in DOMAIN Es(p) /\ toUi'[i] = Es(p)[i - n]
        \/ toUi'[i] = c
    BY <1>7, <2>1, ThreeParts DEF n
  <2>3. i - n \in DOMAIN Es(p) /\ toUi'[i] = Es(p)[i - n]
    BY <1>7, <1>9, <1>11, <2>2
  <2> QED
    BY <1>5, <1>8, <2>3
<1>12. \A i \in DOMAIN toUi' : i \in Nat
  BY <1>0 DEF TypeOK
<1>13. RowsOnTheirWay'
  <2> SUFFICES ASSUME NEW j \in DOMAIN toUi', toUi'[j].kind = "entry"
               PROVE  /\ toUi'[j].row.lastVisit <= clock
                      /\ \A i \in DOMAIN entries : entries[i].lastVisit >= toUi'[j].row.lastVisit
                      /\ \A i \in DOMAIN toUi' : i < j /\ toUi'[i].kind = "entry"
                           => toUi'[i].row.lastVisit >= toUi'[j].row.lastVisit
    BY <1>4 DEF RowsOnTheirWay
  <2>1. /\ j - n \in DOMAIN history /\ p[j - n] \in DOMAIN history
        /\ toUi'[j].row = history[p[j - n]]
    BY <1>11
  <2>2. toUi'[j].row.lastVisit <= clock
    BY <2>1 DEF SortInv, PastTimes
  <2>3. \A i \in DOMAIN entries : entries[i].lastVisit >= toUi'[j].row.lastVisit
    BY <1>3, <2>1
  <2>4. ASSUME NEW i \in DOMAIN toUi', i < j, toUi'[i].kind = "entry"
        PROVE  toUi'[i].row.lastVisit >= toUi'[j].row.lastVisit
    <3>1. i - n \in DOMAIN history /\ toUi'[i].row = history[p[i - n]]
      BY <1>11, <2>4
    <3>2. i - n < j - n
      BY <1>10, <1>12, <2>4
    <3> QED
      BY <1>5, <2>1, <3>1, <3>2
  <2> QED
    BY <2>2, <2>3, <2>4
<1>14. \A op : Past(op)' <=> Past(op)
  BY <1>4 DEF Past
<1>15. PastTimes'
  BY <1>2, <1>3, <1>4, <1>14 DEF SortInv, PastTimes
<1> QED
  BY <1>0, <1>3, <1>4, <1>13, <1>15 DEF SortInv, Sorted, FetchFirst, EmptyUnset

LEMMA WorkerSort == SortInv /\ WorkerNext => SortInv'
<1> SUFFICES ASSUME SortInv, WorkerNext PROVE SortInv'
  OBVIOUS
<1>0. TypeOK /\ TypeOK'
  BY WorkerType DEF SortInv
\* All steps of the worker leave the model and the clock alone.
<1>1. ASSUME UNCHANGED <<entries, clock, toUi>>
      PROVE  /\ Sorted(entries') /\ RowsOnTheirWay' /\ \A op : Past(op)' <=> Past(op)
             /\ \A i \in DOMAIN entries' : entries'[i].lastVisit <= clock'
  BY <1>1 DEF SortInv, Sorted, RowsOnTheirWay, Past, PastTimes
<1>2. CASE DoResetDatabase \/ DoEnqueue
  <2>1. PICK kind \in {"reset", "op"} :
          /\ Dispatch(kind)
          /\ kind = "reset" => pending' = pending
          /\ kind = "op" => pending' = Append(pending, Head(toWorker).op)
    BY <1>2 DEF DoResetDatabase, DoEnqueue
  <2>2. UNCHANGED <<entries, clock, toUi, history>>
    BY <1>2 DEF DoResetDatabase, DoEnqueue, Dispatch, uiVars, dbVars, boundVars
  <2>3. /\ pathSet'
        /\ \A i \in DOMAIN toWorker' : toWorker'[i].kind = "op" => Past(toWorker'[i].op)
        /\ kind = "op" => Past(Head(toWorker).op)
    BY <2>1, DispatchQueue
  <2>4. FetchFirst'
    <3>1. CASE kind = "op"
      <4>1. \A i \in DOMAIN toWorker' : toWorker'[i].kind # "fetch"
        BY <2>1, <3>1, DispatchQueue
      <4> QED
        BY <4>1 DEF FetchFirst
    <3>2. CASE kind = "reset"
      <4>1. \A i \in DOMAIN toWorker' : toWorker'[i].kind = "fetch" =>
              /\ \A j \in DOMAIN toWorker' : toWorker'[j].kind = "fetch" => j = i
              /\ \A j \in DOMAIN toWorker' : toWorker'[j].kind = "op" => i < j
              /\ pending = <<>> /\ toUi = <<>>
              /\ \A e \in DOMAIN entries, r \in DOMAIN history :
                   entries[e].lastVisit >= history[r].lastVisit
        BY <2>1, DispatchQueue
      <4> QED
        BY <2>1, <2>2, <3>2, <4>1 DEF FetchFirst
    <3> QED
      BY <3>1, <3>2
  <2>5. \A i \in DOMAIN pending' : Past(pending'[i])
    <3>1. CASE kind = "reset"
      BY <2>1, <3>1 DEF SortInv, PastTimes
    <3>2. CASE kind = "op"
      <4> DEFINE op == Head(toWorker).op
      <4>1. pending' = Append(pending, op) /\ Past(op) /\ pending \in Seq(Op)
        BY <1>0, <2>1, <2>3, <3>2 DEF TypeOK
      <4> HIDE DEF op
      <4>2. \A i \in DOMAIN pending' :
              pending'[i] = op \/ (i \in DOMAIN pending /\ pending'[i] = pending[i])
        BY <4>1
      <4> QED
        BY <4>1, <4>2 DEF SortInv, PastTimes
    <3> QED
      BY <3>1, <3>2
  <2>6. PastTimes'
    BY <1>1, <2>2, <2>3, <2>5 DEF SortInv, PastTimes
  <2> QED
    BY <1>0, <1>1, <2>2, <2>3, <2>4, <2>6 DEF SortInv, EmptyUnset
<1>3. CASE FlushTimeout \/ FlushEnd
  <2>1. UNCHANGED <<entries, clock, toUi, history, pathSet, toWorker, pending>>
    BY <1>3 DEF FlushTimeout, FlushEnd, uiVars, dbVars, boundVars
  <2> QED
    BY <1>0, <1>1, <2>1 DEF SortInv, PastTimes, FetchFirst, EmptyUnset
<1>4. CASE FlushNext \/ FlushFails
  <2>1. /\ pending # <<>> /\ pending' = Tail(pending)
        /\ history' = history \/ history' = ExecHistory(Head(pending), history)
        /\ UNCHANGED <<entries, clock, toUi, pathSet, toWorker>>
    BY <1>4 DEF FlushNext, FlushFails, uiVars, dbVars, boundVars
  <2>2. /\ Head(pending) \in Op /\ history \in Seq(Row)
        /\ 1 \in DOMAIN pending /\ Head(pending) = pending[1]
        /\ \A i \in DOMAIN pending' : i + 1 \in DOMAIN pending /\ pending'[i] = pending[i + 1]
    BY <1>0, <2>1 DEF TypeOK
  <2>3. /\ Past(Head(pending)) /\ \A i \in DOMAIN history : history[i].lastVisit <= clock
        /\ \A i \in DOMAIN pending' : Past(pending'[i])
    BY <2>2 DEF SortInv, PastTimes
  <2>4. \A i \in DOMAIN history' : history'[i].lastVisit <= clock
    BY <2>1, <2>2, <2>3, ExecHistoryPast
  <2>5. PastTimes'
    BY <1>1, <2>1, <2>3, <2>4 DEF SortInv, PastTimes
  <2>6. pathSet' /\ FetchFirst'
    BY <2>1 DEF SortInv, FetchFirst, EmptyUnset
  <2> QED
    BY <1>0, <1>1, <2>1, <2>5, <2>6 DEF SortInv, EmptyUnset
<1>5. CASE ThreadFinish
  <2>1. toWorker' = <<>> /\ UNCHANGED <<entries, clock, toUi, history, pathSet, pending>>
    BY <1>5 DEF ThreadFinish, uiVars, dbVars, boundVars
  <2> QED
    BY <1>0, <1>1, <2>1 DEF SortInv, PastTimes, FetchFirst, EmptyUnset
<1>6. CASE Exit
  BY <1>6, ProcessSort
<1> QED
  BY <1>2, <1>3, <1>4, <1>5, <1>6, FetchSort DEF WorkerNext

\* "The model is sorted chronologically at all times (most recent visit first)",
\* also while the stored rows arrive among visits, and whatever fails or stops.
THEOREM StaysChronological == Spec => []Chronological
<1>1. Init => SortInv
  BY SortInit
<1>2. SortInv /\ [Next]_vars => SortInv'
  BY UserSort, UiSort, WorkerSort, ProcessSort DEF Next
<1>3. SortInv => Chronological
  BY DEF SortInv, Sorted, Chronological
<1> QED
  BY <1>1, <1>2, <1>3, PTL DEF Spec

-----------------------------------------------------------------------------
(* The operations in a queue *)

OpsAt(q) == {j \in DOMAIN q : q[j].kind = "op"}

LEMMA OpsIs ==
  ASSUME NEW q \in Seq(WorkerEvent)
  PROVE  /\ OpsAt(q) \in SUBSET (1 .. Len(q)) /\ Len(q) \in Nat
         /\ Cardinality(OpsAt(q)) \in Nat
         /\ Ops(q) = [i \in 1 .. Cardinality(OpsAt(q)) |-> q[InOrder(OpsAt(q))[i]].op]
         /\ Ops(q) \in Seq(Op)
<1>1. OpsAt(q) \in SUBSET (1 .. Len(q)) /\ Len(q) \in Nat
  BY DEF OpsAt
<1> DEFINE c == Cardinality(OpsAt(q))
<1>2. c \in Nat /\ Enumerates(InOrder(OpsAt(q)), OpsAt(q))
  BY <1>1, InOrderIs
<1>3. Ops(q) = [i \in 1 .. c |-> q[InOrder(OpsAt(q))[i]].op]
  BY DEF Ops, OpsAt
<1>4. ASSUME NEW i \in 1 .. c PROVE q[InOrder(OpsAt(q))[i]].op \in Op
  <2>1. InOrder(OpsAt(q))[i] \in OpsAt(q)
    BY <1>2 DEF Enumerates
  <2> DEFINE j == InOrder(OpsAt(q))[i]
  <2>2. j \in DOMAIN q /\ q[j].kind = "op"
    BY <2>1 DEF OpsAt
  <2> HIDE DEF j
  <2>3. q[j] \in WorkerEvent
    BY <2>2
  <2>4. q[j].op \in Op
    BY <2>2, <2>3 DEF WorkerEvent
  <2> QED
    BY <2>4 DEF j
<1>5. Ops(q) \in [1 .. c -> Op]
  BY <1>3, <1>4
<1>6. Ops(q) \in Seq(Op)
  <2> HIDE DEF c
  <2> QED
    BY <1>2, <1>5
<1> QED
  BY <1>1, <1>2, <1>3, <1>6

\* No operation in the queue.
LEMMA OpsNone ==
  ASSUME NEW q \in Seq(WorkerEvent), \A i \in DOMAIN q : q[i].kind # "op"
  PROVE  Ops(q) = <<>>
<1>1. OpsAt(q) = {}
  BY DEF OpsAt
<1>2. Cardinality(OpsAt(q)) = 0
  BY <1>1, FS_EmptySet
<1>3. Ops(q) \in Seq(Op) /\ DOMAIN Ops(q) = 1 .. 0
  BY <1>2, OpsIs
<1> QED
  BY <1>3

\* An operation put at the end of the queue.
LEMMA OpsAppend ==
  ASSUME NEW q \in Seq(WorkerEvent), NEW op \in Op
  PROVE  Ops(Append(q, [kind |-> "op", op |-> op])) = Append(Ops(q), op)
<1> DEFINE e == [kind |-> "op", op |-> op]
           r == Append(q, e)
           n == Len(q)
           c == Cardinality(OpsAt(q))
           f == InOrder(OpsAt(q))
           g == [i \in 1 .. c + 1 |-> IF i <= c THEN f[i] ELSE n + 1]
<1>1. e \in WorkerEvent /\ e.kind = "op" /\ e.op = op
  BY DEF WorkerEvent
<1> HIDE DEF e
<1>2. /\ r \in Seq(WorkerEvent) /\ n \in Nat /\ Len(r) = n + 1 /\ DOMAIN r = 1 .. n + 1
      /\ r[n + 1] = e /\ \A i \in 1 .. n : r[i] = q[i]
  BY <1>1
<1>3. OpsAt(r) = OpsAt(q) \cup {n + 1} /\ OpsAt(q) \in SUBSET (1 .. n)
  BY <1>1, <1>2 DEF OpsAt
<1>4. /\ c \in Nat /\ f \in [1 .. c -> OpsAt(q)]
      /\ \A i, j \in 1 .. c : i < j => f[i] < f[j]
      /\ \A k \in OpsAt(q) : \E i \in 1 .. c : f[i] = k
  BY <1>2, <1>3, InOrderOnto DEF Enumerates
<1>5. /\ Ops(q) = [i \in 1 .. c |-> q[f[i]].op] /\ Ops(q) \in Seq(Op)
      /\ Ops(r) = [i \in 1 .. Cardinality(OpsAt(r)) |-> r[InOrder(OpsAt(r))[i]].op]
  BY <1>2, OpsIs
<1> HIDE DEF c, f, n, r
<1>6. g \in [1 .. c + 1 -> OpsAt(r)]
  BY <1>3, <1>4
<1>7. ASSUME NEW i \in 1 .. c + 1, NEW j \in 1 .. c + 1, i < j PROVE g[i] < g[j]
  <2>1. i <= c /\ i \in 1 .. c /\ g[i] = f[i] /\ f[i] \in 1 .. n
    BY <1>3, <1>4, <1>7
  <2> QED
    BY <1>2, <1>4, <1>7, <2>1
<1>8. ASSUME NEW k \in OpsAt(r) PROVE \E i \in 1 .. c + 1 : g[i] = k
  <2>1. CASE k = n + 1
    BY <1>4, <2>1
  <2>2. CASE k \in OpsAt(q)
    <3>1. PICK i \in 1 .. c : f[i] = k
      BY <1>4, <2>2
    <3>2. i \in 1 .. c + 1 /\ g[i] = k
      BY <1>4, <3>1
    <3> QED
      BY <3>2
  <2> QED
    BY <1>3, <2>1, <2>2
<1>9. Cardinality(OpsAt(r)) = c + 1 /\ InOrder(OpsAt(r)) = g
  <2>1. OpsAt(r) \in SUBSET (1 .. n + 1) /\ n + 1 \in Nat /\ c + 1 \in Nat
    BY <1>2, <1>3, <1>4
  <2> HIDE DEF g
  <2> QED
    BY <1>6, <1>7, <1>8, <2>1, InOrderUnique
<1>10. Ops(r) = [i \in 1 .. c + 1 |-> r[g[i]].op]
  BY <1>5, <1>9
<1>11. ASSUME NEW i \in 1 .. c + 1
       PROVE  r[g[i]].op = IF i <= c THEN q[f[i]].op ELSE op
  <2>1. CASE i <= c
    <3>1. g[i] = f[i] /\ f[i] \in 1 .. n
      BY <1>3, <1>4, <2>1
    <3> QED
      BY <1>2, <2>1, <3>1
  <2>2. CASE ~ (i <= c)
    BY <1>1, <1>2, <2>2
  <2> QED
    BY <2>1, <2>2
<1>12. Append(Ops(q), op) = [i \in 1 .. c + 1 |-> IF i <= c THEN q[f[i]].op ELSE op]
  <2>1. Len(Ops(q)) = c
    BY <1>4, <1>5
  <2> QED
    BY <1>4, <1>5, <2>1
<1> HIDE DEF g
<1>13. Ops(r) = Append(Ops(q), op)
  BY <1>10, <1>11, <1>12
<1> QED
  BY <1>13 DEF r, e

\* A signal taken from the front of the queue: the operation it carries, if it
\* carries one, was the first.
LEMMA OpsTail ==
  ASSUME NEW q \in Seq(WorkerEvent), q # <<>>
  PROVE  /\ Head(q).kind # "op" => Ops(q) = Ops(Tail(q))
         /\ Head(q).kind = "op" => Ops(q) = <<Head(q).op>> \o Ops(Tail(q))
<1> DEFINE r == Tail(q)
           n == Len(q)
           c == Cardinality(OpsAt(r))
           f == InOrder(OpsAt(r))
           d == IF Head(q).kind = "op" THEN 1 ELSE 0
           g == [i \in 1 .. c + d |-> IF i <= d THEN 1 ELSE f[i - d] + 1]
<1>1. /\ r \in Seq(WorkerEvent) /\ n \in Nat \ {0} /\ Len(r) = n - 1 /\ DOMAIN r = 1 .. n - 1
      /\ DOMAIN q = 1 .. n /\ Head(q) = q[1] /\ \A i \in 1 .. n - 1 : r[i] = q[i + 1]
  OBVIOUS
<1>2. /\ d \in {0, 1} /\ (d = 1 <=> 1 \in OpsAt(q))
      /\ OpsAt(q) \in SUBSET (1 .. n) /\ OpsAt(r) \in SUBSET (1 .. n - 1)
      /\ \A k \in 1 .. n - 1 : k \in OpsAt(r) <=> k + 1 \in OpsAt(q)
  BY <1>1 DEF OpsAt
<1>3. /\ c \in Nat /\ f \in [1 .. c -> OpsAt(r)]
      /\ \A i, j \in 1 .. c : i < j => f[i] < f[j]
      /\ \A k \in OpsAt(r) : \E i \in 1 .. c : f[i] = k
  <2>1. Len(r) \in Nat /\ OpsAt(r) \in SUBSET (1 .. Len(r))
    BY <1>1, <1>2
  <2> HIDE DEF r
  <2> QED
    BY <2>1, InOrderOnto DEF Enumerates
<1>4. /\ Ops(r) = [i \in 1 .. c |-> r[f[i]].op] /\ Ops(r) \in Seq(Op)
      /\ Ops(q) = [i \in 1 .. Cardinality(OpsAt(q)) |-> q[InOrder(OpsAt(q))[i]].op]
  <2> HIDE DEF r
  <2> QED
    BY <1>1, OpsIs
<1>5. Head(q).kind = "op" <=> d = 1
  OBVIOUS
<1> HIDE DEF c, f, n, r, d
<1>6. \A i \in 1 .. c : f[i] \in 1 .. n - 1 /\ f[i] \in OpsAt(r)
  BY <1>2, <1>3
<1>7. g \in [1 .. c + d -> OpsAt(q)]
  <2>1. ASSUME NEW i \in 1 .. c + d, ~ (i <= d) PROVE f[i - d] + 1 \in OpsAt(q)
    <3>1. i - d \in 1 .. c
      BY <1>2, <1>3, <2>1
    <3> QED
      BY <1>2, <1>6, <3>1
  <2>2. ASSUME NEW i \in 1 .. c + d, i <= d PROVE 1 \in OpsAt(q)
    BY <1>2, <2>2
  <2> QED
    BY <2>1, <2>2
<1>8. ASSUME NEW i \in 1 .. c + d, NEW j \in 1 .. c + d, i < j PROVE g[i] < g[j]
  <2>1. ~ (j <= d) /\ j - d \in 1 .. c /\ g[j] = f[j - d] + 1
    BY <1>2, <1>3, <1>8
  <2>2. CASE i <= d
    <3>1. g[i] = 1 /\ f[j - d] \in 1 .. n - 1
      BY <1>6, <2>1, <2>2
    <3> QED
      BY <1>1, <2>1, <3>1
  <2>3. CASE ~ (i <= d)
    <3>1. i - d \in 1 .. c /\ g[i] = f[i - d] + 1 /\ i - d < j - d
      BY <1>2, <1>3, <1>8, <2>3
    <3>2. f[i - d] < f[j - d] /\ f[i - d] \in 1 .. n - 1 /\ f[j - d] \in 1 .. n - 1
      BY <1>3, <1>6, <2>1, <3>1
    <3> QED
      BY <1>1, <2>1, <3>1, <3>2
  <2> QED
    BY <2>2, <2>3
<1>9. ASSUME NEW k \in OpsAt(q) PROVE \E i \in 1 .. c + d : g[i] = k
  <2>1. CASE k = 1
    <3>1. d = 1 /\ 1 \in 1 .. c + d /\ g[1] = 1
      BY <1>2, <1>3, <2>1
    <3> QED
      BY <2>1, <3>1
  <2>2. CASE k # 1
    <3>1. k - 1 \in 1 .. n - 1 /\ (k - 1) + 1 = k
      BY <1>1, <1>2, <2>2
    <3>2. k - 1 \in OpsAt(r)
      BY <1>2, <3>1
    <3>3. PICK i \in 1 .. c : f[i] = k - 1
      BY <1>3, <3>2
    <3>4. i + d \in 1 .. c + d /\ ~ (i + d <= d) /\ (i + d) - d = i
      BY <1>2, <1>3
    <3>5. g[i + d] = k
      BY <3>1, <3>3, <3>4
    <3> QED
      BY <3>4, <3>5
  <2> QED
    BY <2>1, <2>2
<1>10. Cardinality(OpsAt(q)) = c + d /\ InOrder(OpsAt(q)) = g
  <2>1. n \in Nat /\ c + d \in Nat
    BY <1>1, <1>2, <1>3
  <2> HIDE DEF g
  <2> QED
    BY <1>2, <1>7, <1>8, <1>9, <2>1, InOrderUnique
<1>11. Ops(q) = [i \in 1 .. c + d |-> q[g[i]].op]
  BY <1>4, <1>10
<1>12. ASSUME NEW i \in 1 .. c + d
       PROVE  q[g[i]].op = IF i <= d THEN Head(q).op ELSE Ops(r)[i - d]
  <2>1. CASE i <= d
    BY <1>1, <2>1
  <2>2. CASE ~ (i <= d)
    <3>1. i - d \in 1 .. c /\ g[i] = f[i - d] + 1
      BY <1>2, <1>3, <2>2
    <3>2. f[i - d] \in 1 .. n - 1 /\ Ops(r)[i - d] = r[f[i - d]].op
      BY <1>4, <1>6, <3>1
    <3>3. r[f[i - d]] = q[f[i - d] + 1]
      BY <1>1, <3>2
    <3> QED
      BY <2>2, <3>1, <3>2, <3>3
  <2> QED
    BY <2>1, <2>2
<1> HIDE DEF g
<1>13. Ops(q) = [i \in 1 .. c + d |-> IF i <= d THEN Head(q).op ELSE Ops(r)[i - d]]
  BY <1>11, <1>12
<1>14. Len(Ops(r)) = c /\ DOMAIN Ops(r) = 1 .. c
  BY <1>3, <1>4
<1>15. CASE Head(q).kind = "op"
  <2>1. d = 1
    BY <1>5, <1>15
  <2>2. <<Head(q).op>> \o Ops(r)
          = [i \in 1 .. c + 1 |-> IF i <= 1 THEN Head(q).op ELSE Ops(r)[i - 1]]
    BY <1>3, <1>4, <1>14
  <2> QED
    BY <1>13, <1>15, <2>1, <2>2 DEF r
<1>16. CASE Head(q).kind # "op"
  <2>1. d = 0
    BY <1>2, <1>5, <1>16
  <2>2. Ops(q) = [i \in 1 .. c |-> Ops(r)[i]]
    BY <1>3, <1>13, <2>1
  <2>3. Ops(q) = Ops(r)
    BY <1>4, <1>14, <2>2
  <2> QED
    BY <1>16, <2>3 DEF r
<1> QED
  BY <1>15, <1>16

-----------------------------------------------------------------------------
(* The contents of the file, one operation after another *)

File == [history : Seq(Row), hidden : SUBSET Url]

LEMMA ExecType == ASSUME NEW op \in Op, NEW x \in File PROVE Exec(op, x) \in File
<1>1. x.history \in Seq(Row) /\ x.hidden \in SUBSET Url
  BY DEF File
<1>2. ExecHistory(op, x.history) \in Seq(Row) /\ ExecHidden(op, x.hidden) \in SUBSET Url
  BY <1>1, ExecHistoryType, ExecHiddenType
<1> QED
  BY <1>2 DEF Exec, File

\* The recursive definition of the contents has a solution: each one is the
\* one before it, after one operation.
LEMMA ContentsAre ==
  ASSUME NEW x, NEW ops \in Seq(Op)
  PROVE  /\ DOMAIN Contents(x, ops) = 1 .. Len(ops) + 1 /\ Len(ops) \in Nat
         /\ Contents(x, ops)[1] = x
         /\ \A n \in 1 .. Len(ops) : Contents(x, ops)[n + 1] = Exec(ops[n], Contents(x, ops)[n])
<1> DEFINE k == Len(ops)
           After(f, m) == f = [n \in 0 .. m |-> IF n = 0 THEN x ELSE Exec(ops[n], f[n - 1])]
           S == {m \in Nat : \E f : After(f, m)}
<1>0. k \in Nat
  OBVIOUS
<1> HIDE DEF k
<1>1. 0 \in S
  <2> DEFINE f == [n \in 0 .. 0 |-> x]
  <2>1. f = [n \in 0 .. 0 |-> IF n = 0 THEN x ELSE Exec(ops[n], f[n - 1])]
    OBVIOUS
  <2> HIDE DEF f
  <2> QED
    BY <2>1
<1>2. ASSUME NEW m \in Nat, m \in S PROVE m + 1 \in S
  <2>1. PICK f : After(f, m)
    BY <1>2
  <2> DEFINE g == [n \in 0 .. m + 1 |-> IF n <= m THEN f[n] ELSE Exec(ops[m + 1], f[m])]
             h == [n \in 0 .. m + 1 |-> IF n = 0 THEN x ELSE Exec(ops[n], g[n - 1])]
  <2>2. DOMAIN f = 0 .. m /\ \A n \in 0 .. m : f[n] = IF n = 0 THEN x ELSE Exec(ops[n], f[n - 1])
    BY <2>1
  <2>3. ASSUME NEW n \in 0 .. m + 1 PROVE g[n] = h[n]
    <3>1. CASE n = 0
      BY <2>2, <3>1
    <3>2. CASE n # 0 /\ n <= m
      <4>1. n - 1 \in 0 .. m + 1 /\ n - 1 <= m /\ n \in 0 .. m
        BY <3>2
      <4>2. g[n - 1] = f[n - 1]
        BY <4>1
      <4> QED
        BY <2>2, <3>2, <4>1, <4>2
    <3>3. CASE n = m + 1
      <4>1. n - 1 = m /\ m \in 0 .. m + 1 /\ n # 0 /\ ~ (n <= m)
        BY <3>3
      <4>2. g[n - 1] = f[m] /\ g[n] = Exec(ops[m + 1], f[m])
        BY <3>3, <4>1
      <4> QED
        BY <3>3, <4>1, <4>2
    <3> QED
      BY <3>1, <3>2, <3>3
  <2>4. g = h
    BY <2>3
  <2>5. After(g, m + 1)
    BY <2>4
  <2> HIDE DEF g, After
  <2> QED
    BY <2>5
<1>3. k \in S
  <2> HIDE DEF S
  <2> QED
    BY <1>0, <1>1, <1>2, SetInduction
<1> DEFINE after == CHOOSE f : After(f, k)
<1>4. \E f : After(f, k)
  BY <1>3
<1>5. After(after, k)
  <2> HIDE DEF After
  <2> QED
    BY <1>4
<1>6. Contents(x, ops) = [n \in 1 .. k + 1 |-> after[n - 1]]
  BY DEF Contents, k
<1> HIDE DEF after
<1>7. \A n \in 0 .. k : after[n] = IF n = 0 THEN x ELSE Exec(ops[n], after[n - 1])
  BY <1>5
<1>8. DOMAIN Contents(x, ops) = 1 .. k + 1 /\ Contents(x, ops)[1] = x
  BY <1>0, <1>6, <1>7
<1>9. ASSUME NEW n \in 1 .. k
      PROVE  Contents(x, ops)[n + 1] = Exec(ops[n], Contents(x, ops)[n])
  <2>1. n \in 0 .. k /\ n # 0 /\ n + 1 \in 1 .. k + 1 /\ n \in 1 .. k + 1 /\ (n + 1) - 1 = n
    BY <1>0
  <2>2. Contents(x, ops)[n + 1] = after[n] /\ Contents(x, ops)[n] = after[n - 1]
    BY <1>6, <2>1
  <2> QED
    BY <1>7, <2>1, <2>2
<1> QED
  BY <1>0, <1>8, <1>9 DEF k

LEMMA ContentsType ==
  ASSUME NEW x \in File, NEW ops \in Seq(Op)
  PROVE  Contents(x, ops) \in Seq(File) /\ Len(Contents(x, ops)) = Len(ops) + 1
<1> DEFINE v == Contents(x, ops)
           k == Len(ops)
           S == {m \in Nat : m <= k => v[m + 1] \in File}
<1>1. /\ DOMAIN v = 1 .. k + 1 /\ k \in Nat /\ v[1] = x
      /\ \A n \in 1 .. k : v[n + 1] = Exec(ops[n], v[n]) /\ ops[n] \in Op
  BY ContentsAre
<1>0. v = [n \in 1 .. k + 1 |-> v[n]]
  BY DEF Contents
<1> HIDE DEF v, k
<1>2. 0 \in S
  BY <1>1
<1>3. ASSUME NEW m \in Nat, m \in S PROVE m + 1 \in S
  <2>1. SUFFICES ASSUME m + 1 <= k PROVE v[(m + 1) + 1] \in File
    OBVIOUS
  <2>2. m + 1 \in 1 .. k /\ v[m + 1] \in File
    BY <1>1, <1>3, <2>1
  <2> QED
    BY <1>1, <2>2, ExecType
<1>4. Nat \subseteq S
  <2> HIDE DEF S
  <2> QED
    BY <1>2, <1>3, SetInduction
<1>5. ASSUME NEW n \in 1 .. k + 1 PROVE v[n] \in File
  <2>1. n - 1 \in Nat /\ n - 1 <= k /\ (n - 1) + 1 = n
    BY <1>1
  <2>2. n - 1 \in S
    BY <1>4, <2>1
  <2> QED
    BY <2>1, <2>2
<1>6. v \in [1 .. k + 1 -> File]
  BY <1>0, <1>5
<1>7. v \in Seq(File) /\ Len(v) = k + 1
  BY <1>1, <1>6
<1> QED
  BY <1>7 DEF v, k

\* The list s is what t has after its first k elements, as far as both go.
Agree(s, t, k) == \A i \in DOMAIN s : i + k \in DOMAIN t => s[i] = t[i + k]

\* Two lists of operations that agree so give contents that agree.
LEMMA ContentsShift ==
  ASSUME NEW x, NEW y, NEW a \in Seq(Op), NEW b \in Seq(Op), NEW k \in 0 .. Len(b),
         x = Contents(y, b)[k + 1], Agree(a, b, k)
  PROVE  Agree(Contents(x, a), Contents(y, b), k)
<1> DEFINE v == Contents(x, a)
           w == Contents(y, b)
           Same(m) == m <= Len(a) /\ m + k <= Len(b) => v[m + 1] = w[(m + 1) + k]
           S == {m \in Nat : Same(m)}
<1>1. /\ Len(a) \in Nat /\ v[1] = x /\ DOMAIN v = 1 .. Len(a) + 1
      /\ \A n \in 1 .. Len(a) : v[n + 1] = Exec(a[n], v[n])
  BY ContentsAre
<1>2. /\ Len(b) \in Nat /\ DOMAIN w = 1 .. Len(b) + 1
      /\ \A n \in 1 .. Len(b) : w[n + 1] = Exec(b[n], w[n])
  BY ContentsAre
<1>3. w[k + 1] = x
  OBVIOUS
<1> HIDE DEF v, w
<1>4. 0 \in S
  BY <1>1, <1>3
<1>5. ASSUME NEW m \in Nat, m \in S PROVE m + 1 \in S
  <2>1. SUFFICES ASSUME m + 1 <= Len(a), (m + 1) + k <= Len(b)
                 PROVE  v[(m + 1) + 1] = w[((m + 1) + 1) + k]
    OBVIOUS
  <2>2. m + 1 \in 1 .. Len(a) /\ (m + 1) + k \in 1 .. Len(b) /\ m <= Len(a) /\ m + k <= Len(b)
    BY <1>1, <1>2, <2>1
  <2>3. v[m + 1] = w[(m + 1) + k]
    BY <1>5, <2>2
  <2>4. a[m + 1] = b[(m + 1) + k]
    <3>1. m + 1 \in DOMAIN a /\ (m + 1) + k \in DOMAIN b
      BY <2>2
    <3> QED
      BY <3>1 DEF Agree
  <2>5. ((m + 1) + 1) + k = ((m + 1) + k) + 1
    OBVIOUS
  <2> QED
    BY <1>1, <1>2, <2>2, <2>3, <2>4, <2>5
<1>6. Nat \subseteq S
  <2> HIDE DEF S
  <2> QED
    BY <1>4, <1>5, SetInduction
<1>7. ASSUME NEW i \in DOMAIN v, i + k \in DOMAIN w PROVE v[i] = w[i + k]
  <2>1. i - 1 \in Nat /\ i - 1 <= Len(a) /\ (i - 1) + k <= Len(b) /\ (i - 1) + 1 = i
    BY <1>1, <1>2, <1>7
  <2>2. i - 1 \in S
    BY <1>6, <2>1
  <2> QED
    BY <2>1, <2>2
<1> QED
  BY <1>7 DEF Agree, v, w

\* The first operations of a list give the first contents.
LEMMA ContentsPrefix ==
  ASSUME NEW x \in File, NEW a \in Seq(Op), NEW b \in Seq(Op), Len(a) <= Len(b),
         \A i \in 1 .. Len(a) : a[i] = b[i]
  PROVE  Contents(x, a) = SubSeq(Contents(x, b), 1, Len(a) + 1)
<1> DEFINE v == Contents(x, a)
           w == Contents(x, b)
<1>1. /\ v \in Seq(File) /\ Len(v) = Len(a) + 1 /\ w \in Seq(File) /\ Len(w) = Len(b) + 1
      /\ w[1] = x /\ Len(a) \in Nat /\ Len(b) \in Nat
  BY ContentsType, ContentsAre
<1>2. Agree(v, w, 0)
  <2>1. 0 \in 0 .. Len(b) /\ x = Contents(x, b)[0 + 1]
    BY <1>1
  <2>2. Agree(a, b, 0)
    BY <1>1 DEF Agree
  <2> QED
    BY <2>1, <2>2, ContentsShift
<1> HIDE DEF v, w
<1>3. ASSUME NEW i \in 1 .. Len(a) + 1 PROVE v[i] = w[i]
  <2>1. i \in DOMAIN v /\ i + 0 \in DOMAIN w /\ i + 0 = i
    BY <1>1
  <2>2. v[i] = w[i + 0]
    BY <1>2, <2>1 DEF Agree
  <2> QED
    BY <2>1, <2>2
<1>4. v = SubSeq(w, 1, Len(a) + 1)
  BY <1>1, <1>3
<1> QED
  BY <1>4 DEF v, w

\* When the first operation has been executed, the others give the contents
\* that are left.
LEMMA ContentsTail ==
  ASSUME NEW x \in File, NEW b \in Seq(Op), b # <<>>
  PROVE  Contents(Exec(Head(b), x), Tail(b)) = Tail(Contents(x, b))
<1> DEFINE y == Exec(Head(b), x)
           a == Tail(b)
           v == Contents(y, a)
           w == Contents(x, b)
<1>0. Head(b) = b[1] /\ b[1] \in Op /\ a \in Seq(Op) /\ Len(a) = Len(b) - 1 /\ Len(b) \in Nat \ {0}
      /\ \A j \in 1 .. Len(a) : a[j] = b[j + 1]
  OBVIOUS
<1>1. y \in File
  BY <1>0, ExecType
<1> HIDE DEF a
<1>2. v \in Seq(File) /\ Len(v) = Len(a) + 1
  <2> HIDE DEF y
  <2> QED
    BY <1>0, <1>1, ContentsType
<1>6. /\ w \in Seq(File) /\ Len(w) = Len(b) + 1
      /\ w[1] = x /\ w[1 + 1] = Exec(b[1], w[1])
  <2>1. 1 \in 1 .. Len(b)
    BY <1>0
  <2> QED
    BY <2>1, ContentsType, ContentsAre
<1>3. y = w[1 + 1]
  BY <1>0, <1>6
<1>4. Agree(v, w, 1)
  <2>1. 1 \in 0 .. Len(b) /\ y = Contents(x, b)[1 + 1]
    BY <1>0, <1>3
  <2>2. Agree(a, b, 1)
    BY <1>0 DEF Agree
  <2> HIDE DEF y
  <2> QED
    BY <1>0, <2>1, <2>2, ContentsShift
<1> HIDE DEF v, w
<1>8. DOMAIN v = 1 .. Len(a) + 1
  BY <1>2
<1>9. \A i \in 1 .. Len(a) + 1 : i + 1 \in DOMAIN w
  BY <1>0, <1>6
<1>7. \A i \in 1 .. Len(a) + 1 : v[i] = w[i + 1]
  BY <1>4, <1>8, <1>9 DEF Agree
<1>5. v = Tail(w)
  BY <1>0, <1>2, <1>6, <1>7
<1> QED
  BY <1>5 DEF v, w, a

-----------------------------------------------------------------------------
(* The table and the two threads implement WriteBehind *)

LEMMA VersionsAre ==
  ASSUME TypeOK
  PROVE  /\ Disk \in File /\ Backlog \in Seq(Op) /\ Ops(toWorker) \in Seq(Op)
         /\ Versions = Contents(Disk, Backlog)
         /\ Versions \in Seq(File) /\ Len(Versions) = Len(Backlog) + 1
<1>1. Disk \in File
  BY DEF Disk, File, TypeOK
<1>2. Ops(toWorker) \in Seq(Op) /\ pending \in Seq(Op)
  BY OpsIs DEF TypeOK
<1>3. Backlog \in Seq(Op)
  BY <1>2 DEF Backlog
<1>4. Versions = Contents(Disk, Backlog)
  BY DEF Versions
<1> QED
  BY <1>1, <1>2, <1>3, <1>4, ContentsType

\* A step that leaves the table and the operations under way alone.
LEMMA SameVersions ==
  ASSUME TypeOK, Backlog' = Backlog, UNCHANGED dbVars
  PROVE  Versions' = Versions
<1>1. Disk' = Disk
  BY DEF Disk, dbVars
<1>2. Versions' = Contents(Disk', Backlog')
  BY DEF Versions, Disk
<1> QED
  BY <1>1, <1>2, VersionsAre

\* A step that adds operations to those under way.
LEMMA GiveStep ==
  ASSUME TypeOK, NEW more \in Seq(Op), more # <<>>,
         Backlog' = Backlog \o more, UNCHANGED dbVars
  PROVE  WB!Give
<1> DEFINE a == Backlog
           b == Backlog \o more
<1>1. /\ Disk \in File /\ a \in Seq(Op) /\ Versions = Contents(Disk, a)
      /\ Versions \in Seq(File) /\ Len(Versions) = Len(a) + 1
  BY VersionsAre
<1>2. Versions' = Contents(Disk, b)
  <2>1. Versions' = Contents(Disk', Backlog') /\ Disk' = Disk
    BY DEF Versions, Disk, dbVars
  <2> QED
    BY <2>1
<1> HIDE DEF a
<1>3. /\ b \in Seq(Op) /\ Len(a) < Len(b) /\ Len(a) <= Len(b) /\ Len(a) \in Nat
      /\ \A i \in 1 .. Len(a) : a[i] = b[i]
  BY <1>1 DEF a
<1> HIDE DEF b
<1>4. Contents(Disk, a) = SubSeq(Contents(Disk, b), 1, Len(a) + 1)
  BY <1>1, <1>3, ContentsPrefix
<1>5. Len(Contents(Disk, b)) = Len(b) + 1 /\ Len(b) \in Nat
  BY <1>1, <1>3, ContentsType
<1> QED
  BY <1>1, <1>2, <1>3, <1>4, <1>5 DEF WB!Give

\* A step that drops the last ones of the operations under way.
LEMMA LoseStep ==
  ASSUME TypeOK, NEW n \in 0 .. Len(Backlog),
         Backlog' = SubSeq(Backlog, 1, n), UNCHANGED dbVars
  PROVE  WB!Lose
<1> DEFINE b == Backlog
           a == SubSeq(Backlog, 1, n)
<1>1. /\ Disk \in File /\ b \in Seq(Op) /\ Versions = Contents(Disk, b)
      /\ Versions \in Seq(File) /\ Len(Versions) = Len(b) + 1
  BY VersionsAre
<1>2. Versions' = Contents(Disk, a)
  <2>1. Versions' = Contents(Disk', Backlog') /\ Disk' = Disk
    BY DEF Versions, Disk, dbVars
  <2> QED
    BY <2>1
<1> HIDE DEF b
<1>3. a \in Seq(Op) /\ Len(a) = n /\ Len(a) <= Len(b) /\ n \in Nat /\ Len(b) \in Nat
      /\ \A i \in 1 .. Len(a) : a[i] = b[i]
  BY <1>1 DEF b
<1> HIDE DEF a
<1>4. Contents(Disk, a) = SubSeq(Contents(Disk, b), 1, n + 1)
  BY <1>1, <1>3, ContentsPrefix
<1>5. n + 1 \in 1 .. Len(Versions)
  BY <1>1, <1>3
<1> QED
  BY <1>1, <1>2, <1>4, <1>5 DEF WB!Lose

\* The operations a command sends.
LEMMA UserGives ==
  ASSUME TypeOK, UserNext
  PROVE  /\ UNCHANGED <<pending, dbVars>>
         /\ \/ \E op \in Op : toWorker' = Append(toWorker, [kind |-> "op", op |-> op])
            \/ \E op1, op2 \in Op :
                 toWorker' = Append(Append(toWorker, [kind |-> "op", op |-> op1]),
                                    [kind |-> "op", op |-> op2])
<1>0. entries \in Seq(Entry) /\ hiddenEntries \in SUBSET Url /\ clock \in Time
      /\ toWorker \in Seq(WorkerEvent)
  BY DEF TypeOK
<1>1. Command /\ UNCHANGED <<pending, dbVars>>
  BY CommandSends DEF Command, workerVars
<1>2. ASSUME NEW u \in Url, NEW t \in Title, Add(u, t)
      PROVE  \E op \in Op : Enqueue(op)
  <2>1. CASE AddNew(u, t)
    <3>1. [type |-> "InsertNewEntry", url |-> u, domain |-> DomainOf[u],
           title |-> t, lastVisit |-> clock] \in Op
      BY <1>0, HistoryAssumption DEF Op
    <3> QED
      BY <2>1, <3>1 DEF AddNew
  <2>2. CASE AddKnown(u, t)
    <3> DEFINE i == EntryIndex(u)
               e == [entries[i] EXCEPT !.title = t, !.visits = @ + 1, !.lastVisit = clock]
    <3>1. i # 0 /\ Enqueue(UpdateOp(e))
      BY <2>2 DEF AddKnown
    <3>2. entries[i] \in Entry
      BY <1>0, <3>1, EntryIndexIs
    <3> HIDE DEF i
    <3>3. e \in Entry
      BY <1>0, <3>2, VisitedEntryType
    <3> HIDE DEF e
    <3> QED
      BY <3>1, <3>3, UpdateOpType
  <2> QED
    BY <1>2, <2>1, <2>2 DEF Add
<1>3. ASSUME NEW u \in Url, NEW t \in Title, Update(u, t)
      PROVE  \E op \in Op : Enqueue(op)
  <2> DEFINE i == EntryIndex(u)
             e == [entries[i] EXCEPT !.title = t]
  <2>1. i # 0 /\ Enqueue(UpdateOp(e))
    BY <1>3 DEF Update
  <2>2. entries[i] \in Entry
    BY <1>0, <2>1, EntryIndexIs
  <2> HIDE DEF i
  <2>3. e \in Entry
    BY <2>2, RetitledEntryType
  <2> HIDE DEF e
  <2> QED
    BY <2>1, <2>3, UpdateOpType
<1>4. ASSUME NEW u \in Url, RemoveEntryByUrl(u) \/ Hide(u) \/ UnHide(u)
      PROVE  \E op \in Op : Enqueue(op)
  <2>1. /\ [type |-> "RemoveEntryByUrl", url |-> u] \in Op
        /\ [type |-> "InsertNewHiddenEntry", url |-> u] \in Op
        /\ [type |-> "RemoveHiddenEntryByUrl", url |-> u] \in Op
    BY DEF Op
  <2> QED
    BY <1>4, <2>1 DEF RemoveEntryByUrl, Hide, UnHide
<1>5. ASSUME NEW d \in Nat, RemoveEntriesByDate(d) PROVE \E op \in Op : Enqueue(op)
  <2>1. [type |-> "RemoveEntriesByDate", day |-> d] \in Op
    BY DEF Op
  <2> QED
    BY <1>5, <2>1 DEF RemoveEntriesByDate
<1>6. ASSUME NEW d \in Domain, RemoveEntriesByDomain(d) PROVE \E op \in Op : Enqueue(op)
  <2>1. [type |-> "RemoveEntriesByDomain", domain |-> d] \in Op
    BY DEF Op
  <2> QED
    BY <1>6, <2>1 DEF RemoveEntriesByDomain
<1>7. ASSUME ClearAll
      PROVE  \E op1, op2 \in Op :
               toWorker' = Append(Append(toWorker, [kind |-> "op", op |-> op1]),
                                  [kind |-> "op", op |-> op2])
  <2> DEFINE op1 == [type |-> "ClearHistory"]
             op2 == [type |-> "ClearHistoryHidden"]
             e1 == [kind |-> "op", op |-> op1]
             e2 == [kind |-> "op", op |-> op2]
  <2>1. op1 \in Op /\ op2 \in Op
    BY DEF Op
  <2>2. toWorker' = toWorker \o <<e1, e2>>
    BY <1>7 DEF ClearAll
  <2>3. e1 \in WorkerEvent /\ e2 \in WorkerEvent
    BY <2>1 DEF WorkerEvent
  <2> HIDE DEF e1, e2
  <2>4. toWorker' = Append(Append(toWorker, e1), e2)
    BY <1>0, <2>2, <2>3
  <2> QED
    BY <2>1, <2>4 DEF e1, e2
<1>8. (\E op \in Op : Enqueue(op)) \/ ClearAll
  <2>1. \A t \in Time : Day(t) \in Nat
    BY DayType
  <2> QED
    BY <1>2, <1>3, <1>4, <1>5, <1>6, <2>1 DEF UserNext
<1> QED
  BY <1>1, <1>7, <1>8 DEF Enqueue

\* Lists put one after another: it does not matter which two first.
LEMMA ConcatAssociates ==
  ASSUME NEW T, NEW a \in Seq(T), NEW b \in Seq(T), NEW c \in Seq(T)
  PROVE  a \o (b \o c) = (a \o b) \o c
<1> DEFINE l == a \o (b \o c)
           r == (a \o b) \o c
<1>1. l \in Seq(T) /\ r \in Seq(T) /\ Len(l) = Len(r)
  OBVIOUS
<1>2. ASSUME NEW i \in 1 .. Len(l) PROVE l[i] = r[i]
  OBVIOUS
<1> HIDE DEF l, r
<1>4. l = [i \in 1 .. Len(l) |-> l[i]] /\ r = [i \in 1 .. Len(l) |-> r[i]]
  BY <1>1
<1>3. l = r
  BY <1>2, <1>4
<1> QED
  BY <1>3 DEF l, r

LEMMA OpsAssociate == \A a, b, c \in Seq(Op) : a \o (b \o c) = (a \o b) \o c
<1> SUFFICES ASSUME NEW a \in Seq(Op), NEW b \in Seq(Op), NEW c \in Seq(Op)
             PROVE  a \o (b \o c) = (a \o b) \o c
  OBVIOUS
<1> QED
  BY ConcatAssociates

LEMMA AppendIsConcat ==
  ASSUME NEW T, NEW a \in Seq(T), NEW x \in T
  PROVE  /\ Append(a, x) = a \o <<x>> /\ <<x>> \in Seq(T) /\ <<x>> # <<>>
         /\ Append(a, x) \in Seq(T)
<1>1. Append(a, x) \in Seq(T) /\ a \o <<x>> \in Seq(T) /\ Len(Append(a, x)) = Len(a \o <<x>>)
  OBVIOUS
<1>2. ASSUME NEW i \in 1 .. Len(Append(a, x)) PROVE Append(a, x)[i] = (a \o <<x>>)[i]
  OBVIOUS
<1> QED
  BY <1>1, <1>2

LEMMA UserFile == TypeOK /\ UserNext => WB!Give
<1> SUFFICES ASSUME TypeOK, UserNext PROVE WB!Give
  OBVIOUS
<1>0. /\ toWorker \in Seq(WorkerEvent) /\ Ops(toWorker) \in Seq(Op) /\ pending \in Seq(Op)
      /\ UNCHANGED <<pending, dbVars>>
  BY VersionsAre, UserGives DEF TypeOK
<1>1. ASSUME NEW op \in Op, toWorker' = Append(toWorker, [kind |-> "op", op |-> op])
      PROVE  WB!Give
  <2>1. Ops(toWorker') = Append(Ops(toWorker), op)
    BY <1>0, <1>1, OpsAppend
  <2>2. Ops(toWorker') = Ops(toWorker) \o <<op>> /\ <<op>> \in Seq(Op) /\ <<op>> # <<>>
    BY <1>0, <2>1, AppendIsConcat
  <2>3. Backlog' = Backlog \o <<op>>
    BY <1>0, <2>2, OpsAssociate DEF Backlog
  <2> QED
    BY <1>0, <2>2, <2>3, GiveStep
<1>2. ASSUME NEW op1 \in Op, NEW op2 \in Op,
             toWorker' = Append(Append(toWorker, [kind |-> "op", op |-> op1]),
                                [kind |-> "op", op |-> op2])
      PROVE  WB!Give
  <2> DEFINE q == Append(toWorker, [kind |-> "op", op |-> op1])
  <2>1. q \in Seq(WorkerEvent)
    BY <1>0 DEF WorkerEvent
  <2>2. Ops(q) = Append(Ops(toWorker), op1)
    BY <1>0, OpsAppend
  <2> HIDE DEF q
  <2>3. Ops(toWorker') = Append(Ops(q), op2)
    BY <1>2, <2>1, OpsAppend DEF q
  <2> DEFINE more == <<op1>> \o <<op2>>
  <2>4. <<op1>> \in Seq(Op) /\ <<op2>> \in Seq(Op) /\ more \in Seq(Op) /\ more # <<>>
    OBVIOUS
  <2>5. Ops(q) = Ops(toWorker) \o <<op1>> /\ Ops(q) \in Seq(Op)
    BY <1>0, <2>2, AppendIsConcat
  <2>6. Ops(toWorker') = Ops(q) \o <<op2>>
    BY <2>3, <2>5, AppendIsConcat
  <2>7. Ops(toWorker') = Ops(toWorker) \o more
    BY <1>0, <2>4, <2>5, <2>6, OpsAssociate
  <2> HIDE DEF more
  <2>8. Backlog' = Backlog \o more
    <3>1. Backlog' = pending \o (Ops(toWorker) \o more)
      BY <1>0, <2>7 DEF Backlog
    <3>2. pending \in Seq(Op) /\ Ops(toWorker) \in Seq(Op)
      BY <1>0
    <3> QED
      BY <2>4, <3>1, <3>2, OpsAssociate DEF Backlog
  <2> QED
    BY <1>0, <2>4, <2>8, GiveStep
<1> QED
  BY <1>1, <1>2, UserGives

\* Nothing is left to execute.
LEMMA NothingLeft ==
  ASSUME TypeOK, pending' = <<>>, toWorker' = <<>>, UNCHANGED dbVars
  PROVE  WB!Lose
<1>1. Ops(toWorker') = <<>>
  <2>1. toWorker' \in Seq(WorkerEvent) /\ \A i \in DOMAIN toWorker' : toWorker'[i].kind # "op"
    OBVIOUS
  <2> QED
    BY <2>1, OpsNone
<1>2. Backlog' = <<>>
  BY <1>1 DEF Backlog
<1>3. Backlog \in Seq(Op) /\ 0 \in 0 .. Len(Backlog)
  BY VersionsAre
<1>4. Backlog' = SubSeq(Backlog, 1, 0)
  BY <1>2, <1>3
<1> QED
  BY <1>3, <1>4, LoseStep

LEMMA UiFile == ArmInv /\ UiNext => Versions' = Versions
<1> SUFFICES ASSUME ArmInv, UiNext PROVE Versions' = Versions
  OBVIOUS
<1>0. TypeOK
  BY DEF ArmInv
<1>1. CASE SetDatabasePath
  <2>1. toWorker = <<>> /\ UNCHANGED <<pending, dbVars>>
    BY <1>1 DEF SetDatabasePath, ArmInv, NothingUnset, workerVars
  <2>2. toWorker' = <<[kind |-> "reset"], [kind |-> "fetch"]>>
    BY <1>1, <2>1 DEF SetDatabasePath
  <2>3. /\ toWorker \in Seq(WorkerEvent) /\ \A i \in DOMAIN toWorker : toWorker[i].kind # "op"
        /\ toWorker' \in Seq(WorkerEvent) /\ \A i \in DOMAIN toWorker' : toWorker'[i].kind # "op"
    BY <2>1, <2>2 DEF WorkerEvent
  <2>4. Ops(toWorker) = <<>> /\ Ops(toWorker') = <<>>
    BY <2>3, OpsNone
  <2>5. Backlog' = Backlog
    BY <2>1, <2>4 DEF Backlog
  <2> QED
    BY <1>0, <2>1, <2>5, SameVersions
<1>2. CASE OnHiddenEntryFetched \/ OnEntryFetched \/ OnLoaded
  <2>1. UNCHANGED <<toWorker, pending, dbVars>>
    BY <1>2 DEF OnHiddenEntryFetched, OnEntryFetched, OnLoaded, Deliver, workerVars
  <2>2. Backlog' = Backlog
    BY <2>1 DEF Backlog
  <2> QED
    BY <1>0, <2>1, <2>2, SameVersions
<1> QED
  BY <1>1, <1>2 DEF UiNext

\* One statement is executed.
LEMMA FlushPersists == TypeOK /\ FlushNext => WB!Persist
<1> SUFFICES ASSUME TypeOK, FlushNext PROVE WB!Persist
  OBVIOUS
<1> DEFINE b == Backlog
<1>1. /\ Disk \in File /\ b \in Seq(Op) /\ Versions = Contents(Disk, b) /\ Ops(toWorker) \in Seq(Op)
      /\ Versions \in Seq(File) /\ Len(Versions) = Len(b) + 1
  BY VersionsAre
<1>2. pending \in Seq(Op) /\ pending # <<>> /\ pending' = Tail(pending) /\ UNCHANGED toWorker
  BY DEF FlushNext, TypeOK
<1>3. b # <<>> /\ Head(b) = Head(pending) /\ Tail(b) = Tail(pending) \o Ops(toWorker)
  <2>1. /\ Tail(pending) \in Seq(Op) /\ Len(Tail(pending)) = Len(pending) - 1
        /\ Len(b) = Len(pending) + Len(Ops(toWorker)) /\ Len(pending) \in Nat \ {0}
        /\ b[1] = pending[1]
    BY <1>1, <1>2 DEF Backlog
  <2>2. b # <<>> /\ Head(b) = Head(pending)
    BY <1>1, <1>2, <2>1
  <2> DEFINE l == Tail(b)
             r == Tail(pending) \o Ops(toWorker)
  <2>3. l \in Seq(Op) /\ r \in Seq(Op) /\ Len(l) = Len(r)
    BY <1>1, <1>2, <2>1, <2>2
  <2>4. ASSUME NEW i \in 1 .. Len(l) PROVE l[i] = r[i]
    <3>1. l[i] = b[i + 1] /\ i \in 1 .. Len(b) - 1 /\ i + 1 \in 1 .. Len(b)
      BY <1>1, <2>1, <2>2
    <3>2. CASE i + 1 <= Len(pending)
      <4>1. b[i + 1] = pending[i + 1]
        BY <1>1, <1>2, <2>1, <3>1, <3>2 DEF Backlog
      <4>2. r[i] = Tail(pending)[i] /\ Tail(pending)[i] = pending[i + 1]
        <5>1. i \in 1 .. Len(pending) - 1
          BY <2>1, <3>1, <3>2
        <5>2. r[i] = Tail(pending)[i]
          BY <1>1, <2>1, <5>1
        <5>3. Tail(pending)[i] = pending[i + 1]
          BY <1>2, <5>1
        <5> QED
          BY <5>2, <5>3
      <4> QED
        BY <3>1, <4>1, <4>2
    <3>3. CASE ~(i + 1 <= Len(pending))
      <4>1. b[i + 1] = Ops(toWorker)[i + 1 - Len(pending)]
        BY <1>1, <1>2, <2>1, <3>1, <3>3 DEF Backlog
      <4>2. r[i] = Ops(toWorker)[i - (Len(pending) - 1)]
        BY <1>1, <1>2, <2>1, <3>1, <3>3
      <4>3. i + 1 - Len(pending) = i - (Len(pending) - 1)
        BY <2>1, <3>1
      <4> QED
        BY <3>1, <4>1, <4>2, <4>3
    <3> QED
      BY <3>2, <3>3
  <2> HIDE DEF l, r
  <2>5. l = r
    BY <2>3, <2>4
  <2> QED
    BY <2>2, <2>5 DEF l, r
<1>4. Backlog' = Tail(b)
  BY <1>2, <1>3 DEF Backlog
<1>5. Disk' = Exec(Head(b), Disk)
  BY <1>3 DEF FlushNext, Disk, Exec
<1>6. Versions' = Contents(Disk', Backlog')
  BY DEF Versions, Disk
<1> HIDE DEF b
<1>7. Versions' = Tail(Versions)
  BY <1>1, <1>3, <1>4, <1>5, <1>6, ContentsTail
<1>8. Len(Versions) > 1
  BY <1>1, <1>3
<1> QED
  BY <1>7, <1>8 DEF WB!Persist

LEMMA WorkerFile ==
  ASSUME ~ Failures, TypeOK, WorkerNext
  PROVE  \/ Versions' = Versions
         \/ FlushNext /\ WB!Persist
         \/ WB!Lose /\ app' # "running"
<1>0. /\ toWorker \in Seq(WorkerEvent) /\ Ops(toWorker) \in Seq(Op) /\ pending \in Seq(Op)
      /\ Backlog \in Seq(Op)
  BY VersionsAre DEF TypeOK
<1>1. CASE DoResetDatabase \/ DoFetchEntries
  <2>1. /\ toWorker # <<>> /\ Head(toWorker).kind # "op" /\ toWorker' = Tail(toWorker)
        /\ UNCHANGED <<pending, dbVars>>
    BY <1>1 DEF DoResetDatabase, DoFetchEntries, Dispatch
  <2>2. Ops(toWorker) = Ops(toWorker')
    BY <1>0, <2>1, OpsTail
  <2>3. Backlog' = Backlog
    BY <2>1, <2>2 DEF Backlog
  <2> QED
    BY <2>1, <2>3, SameVersions
<1>2. CASE DoEnqueue
  <2> DEFINE op == Head(toWorker).op
             rest == Ops(toWorker')
  <2>1. /\ toWorker # <<>> /\ Head(toWorker).kind = "op" /\ toWorker' = Tail(toWorker)
        /\ pending' = Append(pending, op) /\ UNCHANGED dbVars
    BY <1>2 DEF DoEnqueue, Dispatch
  <2>2. op \in Op /\ toWorker' \in Seq(WorkerEvent)
    BY <1>2, DispatchType DEF DoEnqueue
  <2>3. Ops(toWorker) = <<op>> \o rest /\ rest \in Seq(Op)
    BY <1>0, <2>1, <2>2, OpsTail, OpsIs
  <2> HIDE DEF op, rest
  <2>4. pending' = pending \o <<op>> /\ <<op>> \in Seq(Op)
    BY <1>0, <2>1, <2>2, AppendIsConcat
  <2>5. pending \o (<<op>> \o rest) = (pending \o <<op>>) \o rest
    BY <1>0, <2>3, <2>4, OpsAssociate
  <2>6. Backlog' = Backlog
    BY <2>3, <2>4, <2>5 DEF Backlog, rest
  <2> QED
    BY <2>1, <2>6, SameVersions
<1>3. CASE FlushTimeout \/ FlushEnd
  <2>1. UNCHANGED <<toWorker, pending, dbVars>>
    BY <1>3 DEF FlushTimeout, FlushEnd
  <2>2. Backlog' = Backlog
    BY <2>1 DEF Backlog
  <2> QED
    BY <2>1, <2>2, SameVersions
<1>4. CASE FlushNext
  BY <1>4, FlushPersists
<1>5. CASE FlushFails
  BY <1>5 DEF FlushFails
<1>6. CASE ThreadFinish
  <2>1. toWorker' = <<>> /\ UNCHANGED <<pending, dbVars>> /\ app' # "running"
    BY <1>6 DEF ThreadFinish
  <2>2. toWorker' \in Seq(WorkerEvent) /\ \A i \in DOMAIN toWorker' : toWorker'[i].kind # "op"
    BY <2>1
  <2>3. Ops(toWorker') = <<>>
    BY <2>2, OpsNone
  <2>4. Backlog' = pending
    BY <1>0, <2>1, <2>3 DEF Backlog
  <2>5. Len(pending) \in 0 .. Len(Backlog) /\ pending = SubSeq(Backlog, 1, Len(pending))
    BY <1>0 DEF Backlog
  <2> QED
    BY <2>1, <2>4, <2>5, LoseStep
<1>7. CASE Exit
  BY <1>7, NothingLeft DEF Exit, Volatile
<1> QED
  BY <1>1, <1>2, <1>3, <1>4, <1>5, <1>6, <1>7 DEF WorkerNext

\* What each step does to the contents that are on disk and under way.
LEMMA NextFile ==
  ASSUME ~ Failures, ArmInv, [Next]_vars
  PROVE  \/ Versions' = Versions
         \/ UserNext /\ WB!Give
         \/ FlushNext /\ WB!Persist
         \/ WB!Lose /\ ~ (app' = "running" /\ pathSet')
<1>0. TypeOK
  BY DEF ArmInv
<1>1. CASE Crash \/ Start
  BY <1>0, <1>1, NothingLeft DEF Crash, Start, Volatile
<1>2. CASE Quit \/ Tick \/ UNCHANGED vars
  <2>1. UNCHANGED <<toWorker, pending, dbVars>>
    BY <1>2 DEF Quit, Tick, vars, workerVars, dbVars
  <2>2. Backlog' = Backlog
    BY <2>1 DEF Backlog
  <2> QED
    BY <1>0, <2>1, <2>2, SameVersions
<1> QED
  BY <1>0, <1>1, <1>2, UserFile, UiFile, WorkerFile DEF Next

LEMMA InitFile == Init => WB!Init
<1> SUFFICES ASSUME Init PROVE WB!Init
  OBVIOUS
<1>1. TypeOK /\ toWorker = <<>> /\ pending = <<>>
  BY InitType DEF Init
<1>2. toWorker \in Seq(WorkerEvent) /\ \A i \in DOMAIN toWorker : toWorker[i].kind # "op"
  BY <1>1
<1>3. Ops(toWorker) = <<>>
  BY <1>2, OpsNone
<1>4. Backlog = <<>>
  BY <1>1, <1>3 DEF Backlog
<1>5. Len(Versions) = 1
  BY <1>1, <1>4, VersionsAre
<1> QED
  BY <1>5 DEF WB!Init

\* When no statement fails, DbWorker implements a write-behind store, for any
\* number of URLs, operations and restarts, and also when the user acts before
\* the history is loaded: contents reach the file in the order of the commands,
\* none skipped or repeated, and a crash or an exit only loses the last ones
\* (doEnqueue, doFlush, ~DbWorker).
THEOREM FileFollows == ~ Failures => (Spec => FileFollowsModel)
<1> SUFFICES ASSUME ~ Failures PROVE Spec => FileFollowsModel
  OBVIOUS
<1>1. Init => ArmInv /\ WB!Init
  BY ArmInit, InitFile
<1>2. ArmInv /\ [Next]_vars => ArmInv' /\ [WB!Next]_Versions
  BY NextArm, NextFile DEF WB!Next
<1> QED
  BY <1>1, <1>2, PTL DEF Spec, FileFollowsModel, WB!Spec

-----------------------------------------------------------------------------
(* The worker implements StatementLog, also when statements fail. *)

\* A list that an element is put at the end of.
LEMMA FrontOfAppend ==
  ASSUME NEW T, NEW s \in Seq(T), NEW x \in T
  PROVE  Append(s, x) # <<>> /\ SL!Front(Append(s, x)) = s
<1> DEFINE a == Append(s, x)
           f == SubSeq(a, 1, Len(a) - 1)
<1>1. a \in Seq(T) /\ Len(a) = Len(s) + 1 /\ Len(s) \in Nat
  OBVIOUS
<1>2. \A i \in 1 .. Len(s) : a[i] = s[i]
  OBVIOUS
<1> HIDE DEF a
<1>3. f \in Seq(T) /\ Len(f) = Len(s) /\ \A i \in 1 .. Len(s) : f[i] = a[i]
  BY <1>1
<1> HIDE DEF f
<1>4. f = s
  BY <1>2, <1>3
<1>5. SL!Front(a) = f
  BY DEF SL!Front, f
<1>6. a # <<>> /\ SL!Front(a) = s
  BY <1>1, <1>4, <1>5
<1> QED
  BY <1>6 DEF a

\* Commands and what arrives at the UI thread do not touch the worker.
LEMMA UserNextLog == UserNext \/ UiNext => UNCHANGED <<Disk, pending>>
<1> SUFFICES ASSUME UserNext \/ UiNext PROVE UNCHANGED <<pending, dbVars>>
  BY DEF Disk, dbVars
<1>1. CASE UserNext
  BY <1>1 DEF UserNext, Add, Update, RemoveEntryByUrl, RemoveEntriesByDate,
     RemoveEntriesByDomain, ClearAll, Hide, UnHide, Command, workerVars
<1>2. CASE UiNext
  BY <1>2 DEF UiNext, SetDatabasePath, OnHiddenEntryFetched, OnEntryFetched, OnLoaded,
     Deliver, workerVars
<1> QED
  BY <1>1, <1>2

LEMMA WorkerLog == TypeOK /\ WorkerNext => SL!Next \/ UNCHANGED <<Disk, pending>>
<1> SUFFICES ASSUME TypeOK, WorkerNext PROVE SL!Next \/ UNCHANGED <<Disk, pending>>
  OBVIOUS
<1>1. CASE DoResetDatabase \/ DoFetchEntries \/ FlushTimeout \/ FlushEnd \/ ThreadFinish
  <2>1. UNCHANGED <<pending, dbVars>>
    BY <1>1 DEF DoResetDatabase, DoFetchEntries, FlushTimeout, FlushEnd, ThreadFinish, Dispatch
  <2> QED
    BY <2>1 DEF Disk, dbVars
<1>2. CASE DoEnqueue
  <2>1. /\ pending \in Seq(Op) /\ Head(toWorker).op \in Op
        /\ pending' = Append(pending, Head(toWorker).op) /\ UNCHANGED dbVars
    BY <1>2, DispatchType DEF DoEnqueue, Dispatch, TypeOK
  <2>2. pending' # <<>> /\ SL!Front(pending') = pending
    BY <2>1, FrontOfAppend
  <2>3. UNCHANGED Disk
    BY <2>1 DEF Disk, dbVars
  <2> QED
    BY <2>2, <2>3 DEF SL!Next, SL!Give
<1>3. CASE FlushNext
  <2>1. pending # <<>> /\ pending' = Tail(pending) /\ Disk' = Exec(Head(pending), Disk)
    BY <1>3 DEF FlushNext, Disk, Exec
  <2> QED
    BY <2>1 DEF SL!Next, SL!Execute
<1>4. CASE FlushFails
  <2>1. Failures /\ pending # <<>> /\ pending' = Tail(pending) /\ UNCHANGED Disk
    BY <1>4 DEF FlushFails, Disk, dbVars
  <2> QED
    BY <2>1 DEF SL!Next, SL!Skip
<1>5. CASE Exit
  <2>1. pending' = <<>> /\ UNCHANGED Disk
    BY <1>5 DEF Exit, Volatile, Disk, dbVars
  <2> QED
    BY <2>1 DEF SL!Next, SL!Lose
<1> QED
  BY <1>1, <1>2, <1>3, <1>4, <1>5 DEF WorkerNext

LEMMA NextLog == TypeOK /\ [Next]_vars => [SL!Next]_<<Disk, pending>>
<1> SUFFICES ASSUME TypeOK, [Next]_vars PROVE SL!Next \/ UNCHANGED <<Disk, pending>>
  OBVIOUS
<1>1. CASE Crash \/ Start
  <2>1. pending' = <<>> /\ UNCHANGED Disk
    BY <1>1 DEF Crash, Start, Volatile, Disk, dbVars
  <2> QED
    BY <2>1 DEF SL!Next, SL!Lose
<1>2. CASE Quit \/ Tick \/ UNCHANGED vars
  BY <1>2 DEF Quit, Tick, vars, workerVars, dbVars, Disk
<1> QED
  BY <1>1, <1>2, UserNextLog, WorkerLog DEF Next

\* DbWorker implements a statement log, for any number of URLs, operations and
\* restarts, early use and failing statements included: it tries what it was
\* given in order and once, a statement that fails leaves the file as it was,
\* and nothing else writes to it (doEnqueue, doFlush, ~DbWorker).
THEOREM StatementsStayInOrder == Spec => StatementsInOrder
<1>1. Init => TypeOK /\ SL!Init
  BY InitType DEF Init, SL!Init
<1>2. TypeOK /\ [Next]_vars => TypeOK' /\ [SL!Next]_<<Disk, pending>>
  BY NextType, NextLog
<1> QED
  BY <1>1, <1>2, PTL DEF Spec, StatementsInOrder, SL!Spec

-----------------------------------------------------------------------------
(* Loading.  When the UI waits for loaded() before it uses the history,    *)
(* nothing is sent to the worker before, and the hidden URLs all arrive    *)
(* before the first entry: each entry finds its flag when it is made.      *)

Of(kind) == {i \in DOMAIN toUi : toUi[i].kind = kind}

Fetching == \E i \in DOMAIN toWorker : toWorker[i].kind = "fetch"

Unset == ~ pathSet => ~ uiLoaded /\ hiddenEntries = {}

WaitsToLoad ==
  ~ uiLoaded => pending = <<>> /\ \A i \in DOMAIN toWorker : toWorker[i].kind # "op"

FetchedIntoEmpty == Fetching => ~ uiLoaded /\ entries = <<>> /\ hiddenEntries = {}

LoadedLast ==
  /\ uiLoaded => toUi = <<>>
  /\ \A i \in DOMAIN toUi : toUi[i].kind = "loaded" => i = Len(toUi)

HiddenEarlier == \A j \in Of("hidden") : entries = <<>> /\ \A i \in Of("entry") : j < i

LoadInv ==
  /\ SortInv /\ HiddenFlags
  /\ Unset /\ WaitsToLoad /\ FetchedIntoEmpty /\ LoadedLast /\ HiddenEarlier

\* Keep returns the elements at these positions and no others.
LEMMA KeepImage ==
  ASSUME NEW T, NEW s \in Seq(T), NEW K \in SUBSET (DOMAIN s)
  PROVE  /\ \A i \in DOMAIN Keep(s, K) : \E j \in K : Keep(s, K)[i] = s[j]
         /\ \A j \in K : \E i \in DOMAIN Keep(s, K) : Keep(s, K)[i] = s[j]
<1>1. /\ DOMAIN Keep(s, K) = 1 .. Cardinality(K)
      /\ \A i \in DOMAIN Keep(s, K) : Keep(s, K)[i] = s[InOrder(K)[i]]
  BY KeepIs
<1>2. K \in SUBSET (1 .. Len(s)) /\ Len(s) \in Nat
  OBVIOUS
<1>3. /\ \A i \in 1 .. Cardinality(K) : InOrder(K)[i] \in K
      /\ \A k \in K : \E i \in 1 .. Cardinality(K) : InOrder(K)[i] = k
  BY <1>2, InOrderOnto DEF Enumerates
<1> QED
  BY <1>1, <1>3

\* The flags of a list of entries are those of the set of hidden URLs.
FlagsOf(s, h) == \A i \in DOMAIN s : s[i].hidden <=> s[i].url \in h

LEMMA KeepFlags ==
  ASSUME entries \in Seq(Entry), NEW K \in SUBSET (DOMAIN entries), NEW h, FlagsOf(entries, h)
  PROVE  FlagsOf(Keep(entries, K), h)
<1>1. \A i \in DOMAIN Keep(entries, K) : \E j \in K : Keep(entries, K)[i] = entries[j]
  BY KeepImage
<1> QED
  BY <1>1 DEF FlagsOf

LEMMA PrependFlags ==
  ASSUME NEW s \in Seq(Entry), NEW e \in Entry, NEW h, FlagsOf(s, h), e.hidden <=> e.url \in h
  PROVE  FlagsOf(<<e>> \o s, h)
<1> DEFINE new == <<e>> \o s
<1>1. /\ new \in Seq(Entry) /\ Len(new) = Len(s) + 1 /\ new[1] = e
      /\ \A i \in 2 .. Len(s) + 1 : new[i] = s[i - 1]
  BY PrependType
<1> HIDE DEF new
<1>2. ASSUME NEW i \in DOMAIN new PROVE new[i].hidden <=> new[i].url \in h
  <2>1. CASE i = 1
    BY <1>1, <2>1
  <2>2. CASE i # 1
    <3>1. i \in 2 .. Len(s) + 1 /\ i - 1 \in DOMAIN s
      BY <1>1, <2>2
    <3> QED
      BY <1>1, <3>1 DEF FlagsOf
  <2> QED
    BY <2>1, <2>2
<1> QED
  BY <1>2 DEF FlagsOf, new

\* A command leaves each flag as the set of hidden URLs says.
LEMMA UserFlags == TypeOK /\ HiddenFlags /\ UserNext => HiddenFlags'
<1> SUFFICES ASSUME TypeOK, HiddenFlags, UserNext PROVE FlagsOf(entries, hiddenEntries)'
  BY DEF HiddenFlags, FlagsOf
<1>0. /\ entries \in Seq(Entry) /\ hiddenEntries \in SUBSET Url /\ clock \in Time
      /\ FlagsOf(entries, hiddenEntries)
      /\ DOMAIN entries = 1 .. Len(entries) /\ \A i \in DOMAIN entries : entries[i] \in Entry
  BY DEF TypeOK, HiddenFlags, FlagsOf
<1>1. ASSUME NEW u \in Url, NEW t \in Title, Add(u, t)
      PROVE  FlagsOf(entries, hiddenEntries)'
  <2>0. UNCHANGED hiddenEntries
    BY <1>1 DEF Add
  <2>1. CASE AddNew(u, t)
    <3> DEFINE e == [url |-> u, domain |-> DomainOf[u], title |-> t, visits |-> 1,
                     lastVisit |-> clock, hidden |-> u \in hiddenEntries]
    <3>1. DomainOf[u] \in Domain
      BY HistoryAssumption
    <3>2. e \in Entry
      BY <1>0, <3>1 DEF Entry
    <3>3. e.hidden = (u \in hiddenEntries) /\ e.url = u
      OBVIOUS
    <3>4. entries' = <<e>> \o entries
      BY <2>1 DEF AddNew
    <3> HIDE DEF e
    <3> QED
      BY <1>0, <2>0, <3>2, <3>3, <3>4, PrependFlags
  <2>2. CASE AddKnown(u, t)
    <3> DEFINE i == EntryIndex(u)
               e == [entries[i] EXCEPT !.title = t, !.visits = @ + 1, !.lastVisit = clock]
               rest == RemoveByIndex(entries, i)
    <3>1. i # 0 /\ entries' = <<e>> \o rest
      BY <2>2 DEF AddKnown
    <3>2. entries[i] \in Entry /\ i \in DOMAIN entries
      BY <1>0, <3>1, EntryIndexIs
    <3> HIDE DEF i
    <3>3. e \in Entry /\ e.url = entries[i].url /\ e.hidden = entries[i].hidden
      BY <1>0, <3>2, VisitedEntryType DEF Entry
    <3>4. e.hidden <=> e.url \in hiddenEntries
      BY <1>0, <3>2, <3>3 DEF FlagsOf
    <3>5. rest \in Seq(Entry) /\ FlagsOf(rest, hiddenEntries)
      <4>1. DOMAIN entries \ {i} \in SUBSET DOMAIN entries
        OBVIOUS
      <4> QED
        BY <1>0, <4>1, KeepFlags, RemoveByIndexType DEF RemoveByIndex
    <3> HIDE DEF e, rest
    <3> QED
      BY <2>0, <3>1, <3>3, <3>4, <3>5, PrependFlags
  <2> QED
    BY <1>1, <2>1, <2>2 DEF Add
<1>2. ASSUME NEW u \in Url, NEW t \in Title, Update(u, t)
      PROVE  FlagsOf(entries, hiddenEntries)'
  <2> DEFINE i == EntryIndex(u)
             e == [entries[i] EXCEPT !.title = t]
  <2>1. i # 0 /\ entries' = [entries EXCEPT ![i] = e] /\ UNCHANGED hiddenEntries
    BY <1>2 DEF Update
  <2>2. entries[i] \in Entry /\ i \in DOMAIN entries
    BY <1>0, <2>1, EntryIndexIs
  <2> HIDE DEF i
  <2>3. e.url = entries[i].url /\ e.hidden = entries[i].hidden
    BY <2>2 DEF Entry
  <2> HIDE DEF e
  <2> QED
    BY <1>0, <2>1, <2>2, <2>3 DEF FlagsOf
<1>3. ASSUME NEW u \in Url, RemoveEntryByUrl(u) PROVE FlagsOf(entries, hiddenEntries)'
  <2>1. DOMAIN entries \ {EntryIndex(u)} \in SUBSET DOMAIN entries
    OBVIOUS
  <2>2. FlagsOf(RemoveByIndex(entries, EntryIndex(u)), hiddenEntries)
    BY <1>0, <2>1, KeepFlags DEF RemoveByIndex
  <2> QED
    BY <1>0, <1>3, <2>2 DEF RemoveEntryByUrl
<1>4. ASSUME NEW d, RemoveEntriesByDate(d) \/ RemoveEntriesByDomain(d)
      PROVE  FlagsOf(entries, hiddenEntries)'
  BY <1>0, <1>4, KeepFlags DEF RemoveEntriesByDate, RemoveEntriesByDomain
<1>5. ASSUME ClearAll PROVE FlagsOf(entries, hiddenEntries)'
  BY <1>5 DEF ClearAll, FlagsOf
<1>6. ASSUME NEW u \in Url, NEW b \in BOOLEAN, SetHidden(u, b),
             hiddenEntries' = IF b THEN hiddenEntries \cup {u} ELSE hiddenEntries \ {u}
      PROVE  FlagsOf(entries, hiddenEntries)'
  <2>1. ASSUME NEW i \in DOMAIN entries
        PROVE  entries'[i].hidden <=> entries'[i].url \in hiddenEntries'
    <3>1. entries'[i] = IF entries[i].url = u THEN [entries[i] EXCEPT !.hidden = b] ELSE entries[i]
      BY <1>6 DEF SetHidden
    <3>2. entries[i] \in Entry /\ (entries[i].hidden <=> entries[i].url \in hiddenEntries)
      BY <1>0 DEF FlagsOf
    <3>3. CASE entries[i].url = u
      <4>1. entries'[i].url = u /\ entries'[i].hidden = b
        BY <3>1, <3>2, <3>3 DEF Entry
      <4> QED
        BY <1>6, <4>1
    <3>4. CASE entries[i].url # u
      BY <1>6, <3>1, <3>2, <3>4
    <3> QED
      BY <3>3, <3>4
  <2> QED
    BY <1>6, <2>1 DEF FlagsOf, SetHidden
<1>7. ASSUME NEW u \in Url, Hide(u) \/ UnHide(u) PROVE FlagsOf(entries, hiddenEntries)'
  BY <1>6, <1>7 DEF Hide, UnHide
<1> QED
  BY <1>1, <1>2, <1>3, <1>4, <1>5, <1>7 DEF UserNext

LEMMA LoadInit == Init => LoadInv
<1> SUFFICES ASSUME Init PROVE LoadInv
  OBVIOUS
<1>1. SortInv
  BY SortInit
<1>2. /\ entries = <<>> /\ toUi = <<>> /\ toWorker = <<>> /\ pending = <<>>
      /\ ~ uiLoaded /\ hiddenEntries = {}
  BY DEF Init
<1> QED
  BY <1>1, <1>2 DEF LoadInv, HiddenFlags, Unset, WaitsToLoad, FetchedIntoEmpty, Fetching,
                    LoadedLast, HiddenEarlier, Of

\* While a signal is on its way to the UI, nothing is loaded or asked for.
LEMMA WhileLoading ==
  ASSUME LoadInv, toUi # <<>>
  PROVE  ~ uiLoaded /\ ~ Fetching
BY DEF LoadInv, LoadedLast, SortInv, FetchFirst, Fetching

\* A command is given when everything has been delivered.
LEMMA UserLoad == ~ EarlyUse /\ LoadInv /\ UserNext => LoadInv'
<1> SUFFICES ASSUME ~ EarlyUse, LoadInv, UserNext PROVE LoadInv'
  OBVIOUS
<1>0. TypeOK
  BY DEF LoadInv, SortInv
<1>1. SortInv' /\ HiddenFlags'
  BY <1>0, UserSort, UserFlags DEF LoadInv
<1>2. Command /\ uiLoaded /\ UNCHANGED <<pathSet, uiLoaded, toUi>> /\ pathSet
  BY CommandSends DEF Command
<1>3. toUi' = <<>> /\ ~ Fetching
  BY <1>2 DEF LoadInv, LoadedLast, FetchedIntoEmpty
<1>4. ~ Fetching'
  <2> SUFFICES ASSUME NEW i \in DOMAIN toWorker' PROVE toWorker'[i].kind # "fetch"
    BY DEF Fetching
  <2>1. CASE i \in DOMAIN toWorker
    BY <1>3, <2>1, UserQueue DEF Fetching, LoadInv
  <2>2. CASE i \notin DOMAIN toWorker
    BY <2>2, UserQueue DEF LoadInv
  <2> QED
    BY <2>1, <2>2
<1> QED
  BY <1>1, <1>2, <1>3, <1>4
     DEF LoadInv, Unset, WaitsToLoad, FetchedIntoEmpty, LoadedLast, HiddenEarlier, Of

LEMMA UiLoad == LoadInv /\ UiNext => LoadInv'
<1> SUFFICES ASSUME LoadInv, UiNext PROVE LoadInv'
  OBVIOUS
<1>0. TypeOK /\ SortInv'
  BY UiSort DEF LoadInv, SortInv
<1>1. CASE SetDatabasePath
  <2>1. /\ toWorker = <<>> /\ pending' = <<>> /\ toUi' = <<>> /\ ~ uiLoaded'
        /\ entries' = <<>> /\ hiddenEntries' = {} /\ pathSet'
    BY <1>1 DEF SetDatabasePath, LoadInv, SortInv, EmptyUnset, Unset, workerVars
  <2>2. toWorker' = <<[kind |-> "reset"], [kind |-> "fetch"]>>
    BY <1>1, <2>1 DEF SetDatabasePath
  <2> QED
    BY <1>0, <2>1, <2>2 DEF LoadInv, HiddenFlags, Unset, WaitsToLoad, FetchedIntoEmpty,
                            LoadedLast, HiddenEarlier, Of
<1>2. CASE OnHiddenEntryFetched \/ OnEntryFetched \/ OnLoaded
  <2>1. PICK kind : /\ Deliver(kind)
                    /\ kind = "hidden" => OnHiddenEntryFetched
                    /\ kind = "entry" => OnEntryFetched
                    /\ kind = "loaded" => OnLoaded
                    /\ kind \in {"hidden", "entry", "loaded"}
    BY <1>2 DEF OnHiddenEntryFetched, OnEntryFetched, OnLoaded
  <2>2. UNCHANGED <<pathSet, toWorker, pending>>
    BY <2>1 DEF Deliver, workerVars
  <2>3. /\ 1 \in DOMAIN toUi /\ Head(toUi) = toUi[1] /\ toUi[1].kind = kind
        /\ \A i \in DOMAIN toUi' : i + 1 \in DOMAIN toUi /\ toUi'[i] = toUi[i + 1]
        /\ \A i \in DOMAIN toUi' : i \in Nat \ {0}
        /\ toUi # <<>>
    BY <1>0, <2>1, DeliverQueue
  <2>4. ~ uiLoaded /\ ~ Fetching /\ ~ Fetching' /\ pathSet
    <3>1. ~ uiLoaded /\ ~ Fetching
      BY <2>3, WhileLoading
    <3> QED
      BY <2>2, <2>3, <3>1 DEF Fetching, LoadInv, SortInv, EmptyUnset
  <2>5. /\ toUi' = Tail(toUi) /\ Len(toUi') = Len(toUi) - 1 /\ Len(toUi) \in Nat \ {0}
        /\ DOMAIN toUi' = 1 .. Len(toUi) - 1 /\ DOMAIN toUi = 1 .. Len(toUi)
    BY <1>0, <2>1 DEF Deliver, TypeOK
  <2>6. \A i \in DOMAIN toUi' : toUi'[i].kind = "loaded" => i = Len(toUi')
    <3> SUFFICES ASSUME NEW i \in DOMAIN toUi', toUi'[i].kind = "loaded" PROVE i = Len(toUi')
      OBVIOUS
    <3>1. i + 1 = Len(toUi)
      BY <2>3 DEF LoadInv, LoadedLast
    <3> QED
      BY <2>3, <2>5, <3>1
  <2>7. Unset' /\ FetchedIntoEmpty'
    BY <2>2, <2>4 DEF Unset, FetchedIntoEmpty
  <2>8. \A j \in Of("hidden")' : entries = <<>> /\ \A i \in Of("entry")' : j < i
    <3> SUFFICES ASSUME NEW j \in DOMAIN toUi', toUi'[j].kind = "hidden"
                 PROVE  /\ entries = <<>>
                        /\ \A i \in DOMAIN toUi' : toUi'[i].kind = "entry" => j < i
      BY DEF Of
    <3>1. /\ entries = <<>>
          /\ \A i \in DOMAIN toUi : toUi[i].kind = "entry" => j + 1 < i
      BY <2>3 DEF LoadInv, HiddenEarlier, Of
    <3>2. ASSUME NEW i \in DOMAIN toUi', toUi'[i].kind = "entry" PROVE j < i
      <4>1. j + 1 < i + 1
        BY <2>3, <3>1, <3>2
      <4> QED
        BY <2>3, <4>1
    <3> QED
      BY <3>1, <3>2
  <2>9. CASE kind = "hidden"
    <3>1. UNCHANGED <<uiLoaded, entries>>
      BY <2>1, <2>9 DEF OnHiddenEntryFetched
    <3>2. entries = <<>>
      BY <2>3, <2>9 DEF LoadInv, HiddenEarlier, Of
    <3>3. HiddenFlags' /\ HiddenEarlier'
      BY <2>8, <3>1, <3>2 DEF HiddenFlags, HiddenEarlier
    <3>4. WaitsToLoad' /\ LoadedLast'
      BY <2>2, <2>4, <2>6, <3>1 DEF LoadInv, WaitsToLoad, LoadedLast
    <3> QED
      BY <1>0, <2>7, <3>3, <3>4 DEF LoadInv
  <2>10. CASE kind = "entry"
    <3> DEFINE r == Head(toUi).row
               e == [url |-> r.url, domain |-> FetchedDomain(r), title |-> r.title,
                     visits |-> r.visits, lastVisit |-> r.lastVisit,
                     hidden |-> r.url \in hiddenEntries]
    <3>1. entries' = Append(entries, e) /\ UNCHANGED <<uiLoaded, hiddenEntries>>
      BY <2>1, <2>10 DEF OnEntryFetched
    <3>2. e.hidden = (e.url \in hiddenEntries)
      OBVIOUS
    <3> HIDE DEF e, r
    <3>3. /\ entries \in Seq(Entry) /\ DOMAIN entries' = 1 .. Len(entries) + 1
          /\ DOMAIN entries = 1 .. Len(entries) /\ Len(entries) \in Nat
          /\ \A i \in 1 .. Len(entries) : entries'[i] = entries[i]
          /\ entries'[Len(entries) + 1] = e
      BY <1>0, <3>1 DEF TypeOK
    <3>4. HiddenFlags'
      <4> SUFFICES ASSUME NEW i \in DOMAIN entries'
                   PROVE  entries'[i].hidden <=> entries'[i].url \in hiddenEntries
        BY <3>1 DEF HiddenFlags
      <4>1. CASE i \in DOMAIN entries
        BY <3>3, <4>1 DEF LoadInv, HiddenFlags
      <4>2. CASE i \notin DOMAIN entries
        <5>1. entries'[i] = e
          BY <3>3, <4>2
        <5> QED
          BY <3>2, <5>1
      <4> QED
        BY <4>1, <4>2
    <3>5. HiddenEarlier'
      <4> SUFFICES ASSUME NEW j \in Of("hidden")' PROVE FALSE
        BY DEF HiddenEarlier
      <4>1. j + 1 \in Of("hidden") /\ j + 1 > 1
        BY <2>3 DEF Of
      <4>2. 1 \in Of("entry")
        BY <2>3, <2>10 DEF Of
      <4>3. j + 1 < 1
        BY <4>1, <4>2 DEF LoadInv, HiddenEarlier
      <4> QED
        BY <2>3, <4>1, <4>3 DEF Of
    <3>6. WaitsToLoad' /\ LoadedLast'
      BY <2>2, <2>4, <2>6, <3>1 DEF LoadInv, WaitsToLoad, LoadedLast
    <3> QED
      BY <1>0, <2>7, <3>4, <3>5, <3>6 DEF LoadInv
  <2>11. CASE kind = "loaded"
    <3>1. uiLoaded' = TRUE /\ UNCHANGED <<entries, hiddenEntries>>
      BY <2>1, <2>11 DEF OnLoaded
    <3>2. Len(toUi) = 1
      BY <2>3, <2>11 DEF LoadInv, LoadedLast
    <3>3. toUi' = <<>>
      BY <1>0, <2>5, <3>2 DEF TypeOK
    <3>4. HiddenFlags' /\ HiddenEarlier'
      BY <3>1, <3>3 DEF LoadInv, HiddenFlags, HiddenEarlier, Of
    <3>5. WaitsToLoad' /\ LoadedLast'
      BY <3>1, <3>3 DEF WaitsToLoad, LoadedLast
    <3> QED
      BY <1>0, <2>7, <3>4, <3>5 DEF LoadInv
  <2> QED
    BY <2>1, <2>9, <2>10, <2>11
<1> QED
  BY <1>1, <1>2 DEF UiNext

\* A queue of n hidden URLs, then each of the m rows once, then "loaded".
Listing(q, n, m, h, p) ==
  /\ DOMAIN q = 1 .. n + m + 1 /\ Len(q) = n + m + 1
  /\ \A i \in 1 .. n : q[i] = [kind |-> "hidden", url |-> h[i]]
  /\ \A i \in 1 .. m : q[n + i] = [kind |-> "entry", row |-> history[p[i]]]
  /\ q[n + m + 1] = [kind |-> "loaded"]
  /\ historyHidden = {h[i] : i \in 1 .. n}
  /\ DOMAIN history = 1 .. m /\ p \in [1 .. m -> 1 .. m]
  /\ \A i, j \in 1 .. m : p[i] = p[j] => i = j
  /\ \A j \in 1 .. m : \E i \in 1 .. m : p[i] = j

LEMMA ThreePlaces ==
  ASSUME NEW a \in Seq(UiEvent), NEW b \in Seq(UiEvent), NEW c \in UiEvent,
         NEW q, q = <<>> \o a \o b \o <<c>>
  PROVE  /\ DOMAIN q = 1 .. Len(a) + Len(b) + 1 /\ Len(q) = Len(a) + Len(b) + 1
         /\ \A j \in 1 .. Len(a) : q[j] = a[j]
         /\ \A j \in 1 .. Len(b) : q[Len(a) + j] = b[j]
         /\ q[Len(a) + Len(b) + 1] = c
<1>1. Len(q) = Len(a) + Len(b) + 1 /\ DOMAIN q = 1 .. Len(a) + Len(b) + 1
  OBVIOUS
<1>2. \A j \in 1 .. Len(a) : q[j] = a[j]
  OBVIOUS
<1>3. \A j \in 1 .. Len(b) : q[Len(a) + j] = b[j]
  OBVIOUS
<1>4. q[Len(a) + Len(b) + 1] = c
  OBVIOUS
<1> QED
  BY <1>1, <1>2, <1>3, <1>4

\* What doFetchEntries sends.
LEMMA FetchSends ==
  ASSUME SortInv, DoFetchEntries
  PROVE  /\ toUi = <<>> /\ ~ Fetching' /\ UNCHANGED <<uiVars, pending, dbVars, app>>
         /\ \E n \in Nat, m \in Nat : \E h, p : Listing(toUi', n, m, h, p)
<1> DEFINE Hs(h) == [i \in DOMAIN h |-> [kind |-> "hidden", url |-> h[i]]]
           Es(p) == [i \in DOMAIN p |-> [kind |-> "entry", row |-> history[p[i]]]]
           c == [kind |-> "loaded"]
           n == Cardinality(historyHidden)
           m == Len(history)
<1>0. TypeOK
  BY DEF SortInv
<1>1. PICK p \in Listings, h \in HiddenListings : toUi' = toUi \o Hs(h) \o Es(p) \o <<c>>
  BY DEF DoFetchEntries
<1>2. Dispatch("fetch") /\ UNCHANGED <<uiVars, pending, dbVars, app>>
  BY DEF DoFetchEntries, Dispatch
<1>3. toUi = <<>> /\ ~ Fetching'
  BY <1>2, DispatchQueue DEF Fetching
<1>4. IsFiniteSet(historyHidden) /\ n \in Nat /\ historyHidden \subseteq Url
  <2>1. IsFiniteSet(historyHidden) /\ historyHidden \subseteq Url
    BY <1>0, HistoryAssumption, FS_Subset DEF TypeOK
  <2> QED
    BY <2>1, FS_CardinalityType
<1>5. /\ h \in [1 .. n -> historyHidden]
      /\ \A i, j \in 1 .. n : h[i] = h[j] => i = j
  BY DEF HiddenListings
<1>6. /\ DOMAIN history = 1 .. m /\ m \in Nat
      /\ p \in [1 .. m -> 1 .. m] /\ \A i, j \in 1 .. m : p[i] = p[j] => i = j
      /\ \A j \in 1 .. m : history[j] \in Row
  <2>1. history \in Seq(Row)
    BY <1>0 DEF TypeOK
  <2>2. DOMAIN history = 1 .. m /\ m \in Nat /\ \A j \in 1 .. m : history[j] \in Row
    BY <2>1
  <2>3. /\ p \in [DOMAIN history -> DOMAIN history]
        /\ \A i, j \in DOMAIN history : p[i] = p[j] => i = j
    BY DEF Listings
  <2> HIDE DEF m
  <2>4. p \in [1 .. m -> 1 .. m] /\ \A i, j \in 1 .. m : p[i] = p[j] => i = j
    BY <2>2, <2>3
  <2> QED
    BY <2>2, <2>4
<1> HIDE DEF n, m
<1>7. historyHidden = {h[i] : i \in 1 .. n}
  <2>1. h \in Injection(1 .. n, historyHidden)
    BY <1>5 DEF Injection, IsInjective
  <2>2. Cardinality(1 .. n) = Cardinality(historyHidden)
    BY <1>4, FS_Interval DEF n
  <2>3. h \in Surjection(1 .. n, historyHidden)
    BY <1>4, <2>1, <2>2, FS_Injection
  <2> QED
    BY <1>5, <2>3 DEF Surjection
<1>8. \A j \in 1 .. m : \E i \in 1 .. m : p[i] = j
  <2>1. p \in Injection(1 .. m, 1 .. m)
    BY <1>6 DEF Injection, IsInjective
  <2>2. IsFiniteSet(1 .. m)
    BY <1>6, FS_Interval
  <2>3. p \in Surjection(1 .. m, 1 .. m)
    BY <2>1, <2>2, FS_Injection
  <2> QED
    BY <2>3 DEF Surjection
<1>9. /\ Hs(h) \in [1 .. n -> UiEvent]
      /\ \A i \in 1 .. n : Hs(h)[i] = [kind |-> "hidden", url |-> h[i]]
  <2>1. \A i \in 1 .. n : [kind |-> "hidden", url |-> h[i]] \in UiEvent
    BY <1>4, <1>5 DEF UiEvent
  <2> QED
    BY <1>5, <2>1
<1>10. /\ Es(p) \in [1 .. m -> UiEvent]
       /\ \A i \in 1 .. m : Es(p)[i] = [kind |-> "entry", row |-> history[p[i]]]
  <2>1. \A i \in 1 .. m : [kind |-> "entry", row |-> history[p[i]]] \in UiEvent
    BY <1>6 DEF UiEvent
  <2> QED
    BY <1>6, <2>1
<1> DEFINE a == Hs(h)
           b == Es(p)
<1>11. toUi' = <<>> \o a \o b \o <<c>>
  BY <1>1, <1>3
<1>12. c \in UiEvent
  BY DEF UiEvent
<1>13. /\ a \in [1 .. n -> UiEvent] /\ \A i \in 1 .. n : a[i] = [kind |-> "hidden", url |-> h[i]]
       /\ b \in [1 .. m -> UiEvent]
       /\ \A i \in 1 .. m : b[i] = [kind |-> "entry", row |-> history[p[i]]]
       /\ c = [kind |-> "loaded"]
  BY <1>9, <1>10
<1> HIDE DEF a, b, c, Hs, Es
<1>14. a \in Seq(UiEvent) /\ Len(a) = n /\ b \in Seq(UiEvent) /\ Len(b) = m
  BY <1>4, <1>6, <1>13
<1>15. /\ DOMAIN toUi' = 1 .. n + m + 1 /\ Len(toUi') = n + m + 1
       /\ \A i \in 1 .. n : toUi'[i] = a[i]
       /\ \A i \in 1 .. m : toUi'[n + i] = b[i]
       /\ toUi'[n + m + 1] = c
  <2> DEFINE q == toUi'
  <2>1. q = <<>> \o a \o b \o <<c>>
    BY <1>11
  <2> HIDE DEF q
  <2>2. /\ DOMAIN q = 1 .. n + m + 1 /\ Len(q) = n + m + 1
        /\ \A i \in 1 .. n : q[i] = a[i]
        /\ \A i \in 1 .. m : q[n + i] = b[i]
        /\ q[n + m + 1] = c
    <3>1. /\ DOMAIN q = 1 .. Len(a) + Len(b) + 1 /\ Len(q) = Len(a) + Len(b) + 1
          /\ \A j \in 1 .. Len(a) : q[j] = a[j]
          /\ \A j \in 1 .. Len(b) : q[Len(a) + j] = b[j]
          /\ q[Len(a) + Len(b) + 1] = c
      <4>1. a \in Seq(UiEvent) /\ b \in Seq(UiEvent) /\ c \in UiEvent
        BY <1>12, <1>14
      <4>2. \A x : x = <<>> \o a \o b \o <<c>> =>
              /\ DOMAIN x = 1 .. Len(a) + Len(b) + 1 /\ Len(x) = Len(a) + Len(b) + 1
              /\ \A j \in 1 .. Len(a) : x[j] = a[j]
              /\ \A j \in 1 .. Len(b) : x[Len(a) + j] = b[j]
              /\ x[Len(a) + Len(b) + 1] = c
        BY <4>1, ThreePlaces
      <4> QED
        BY <2>1, <4>2
    <3> QED
      BY <1>14, <3>1, Zenon
  <2> QED
    BY <2>2 DEF q
<1>16. Listing(toUi', n, m, h, p)
  BY <1>6, <1>7, <1>8, <1>13, <1>15 DEF Listing
<1> QED
  BY <1>2, <1>3, <1>4, <1>6, <1>16

LEMMA ListingKinds ==
  ASSUME NEW n \in Nat, NEW m \in Nat, NEW h, NEW p, NEW q, Listing(q, n, m, h, p)
  PROVE  /\ DOMAIN q = 1 .. n + m + 1 /\ Len(q) = n + m + 1
         /\ \A i \in DOMAIN q : /\ q[i].kind = "hidden" <=> i \in 1 .. n
                                /\ q[i].kind = "loaded" <=> i = n + m + 1
                                /\ q[i].kind = "entry" <=> i - n \in 1 .. m
<1>1. /\ DOMAIN q = 1 .. n + m + 1 /\ Len(q) = n + m + 1
      /\ \A i \in 1 .. n : q[i].kind = "hidden"
      /\ \A i \in 1 .. m : q[n + i].kind = "entry"
      /\ q[n + m + 1].kind = "loaded"
  <2>1. DOMAIN q = 1 .. n + m + 1 /\ Len(q) = n + m + 1
    BY DEF Listing
  <2>2. \A i \in 1 .. n : q[i] = [kind |-> "hidden", url |-> h[i]]
    BY DEF Listing
  <2>3. \A i \in 1 .. m : q[n + i] = [kind |-> "entry", row |-> history[p[i]]]
    BY DEF Listing
  <2>4. q[n + m + 1] = [kind |-> "loaded"]
    BY DEF Listing
  <2>5. ASSUME NEW i \in 1 .. n PROVE q[i].kind = "hidden"
    <3>1. q[i] = [kind |-> "hidden", url |-> h[i]]
      BY <2>2
    <3> QED
      BY <3>1
  <2>6. ASSUME NEW i \in 1 .. m PROVE q[n + i].kind = "entry"
    <3>1. q[n + i] = [kind |-> "entry", row |-> history[p[i]]]
      BY <2>3
    <3> QED
      BY <3>1
  <2>7. q[n + m + 1].kind = "loaded"
    BY <2>4
  <2> QED
    BY <2>1, <2>5, <2>6, <2>7
<1>2. ASSUME NEW i \in DOMAIN q
      PROVE  /\ q[i].kind = "hidden" <=> i \in 1 .. n
             /\ q[i].kind = "loaded" <=> i = n + m + 1
             /\ q[i].kind = "entry" <=> i - n \in 1 .. m
  <2>1. CASE i \in 1 .. n
    BY <1>1, <2>1
  <2>2. CASE i = n + m + 1
    BY <1>1, <2>2
  <2>3. CASE i \notin 1 .. n /\ i # n + m + 1
    <3>1. i - n \in 1 .. m /\ n + (i - n) = i
      BY <1>1, <2>3
    <3>2. q[i].kind = "entry"
      BY <1>1, <3>1
    <3> QED
      BY <2>3, <3>1, <3>2
  <2> QED
    BY <2>1, <2>2, <2>3
<1> QED
  BY <1>1, <1>2

LEMMA WorkerLoad == LoadInv /\ WorkerNext => LoadInv'
<1> SUFFICES ASSUME LoadInv, WorkerNext PROVE LoadInv'
  OBVIOUS
<1>0. TypeOK /\ SortInv' /\ SortInv
  BY WorkerSort DEF LoadInv, SortInv
<1>1. CASE DoResetDatabase \/ DoEnqueue
  <2>1. /\ UNCHANGED <<pathSet, uiLoaded, entries, hiddenEntries, toUi>>
        /\ toWorker' = Tail(toWorker) /\ toWorker # <<>> /\ toWorker \in Seq(WorkerEvent)
    BY <1>0, <1>1 DEF DoResetDatabase, DoEnqueue, Dispatch, uiVars, TypeOK
  <2>2. \A i \in DOMAIN toWorker' : i + 1 \in DOMAIN toWorker /\ toWorker'[i] = toWorker[i + 1]
    BY <2>1
  <2>3. Fetching' => Fetching
    BY <2>2 DEF Fetching
  <2>4. WaitsToLoad'
    <3>1. CASE DoResetDatabase
      BY <2>1, <2>2, <3>1 DEF LoadInv, WaitsToLoad, DoResetDatabase
    <3>2. CASE DoEnqueue
      <4>1. 1 \in DOMAIN toWorker /\ toWorker[1].kind = "op"
        BY <2>1, <3>2 DEF DoEnqueue, Dispatch
      <4> QED
        BY <2>1, <4>1 DEF LoadInv, WaitsToLoad
    <3> QED
      BY <1>1, <3>1, <3>2
  <2> QED
    BY <1>0, <2>1, <2>3, <2>4 DEF LoadInv, HiddenFlags, Unset, FetchedIntoEmpty,
                                  LoadedLast, HiddenEarlier, Of
<1>2. CASE DoFetchEntries
  <2>1. toUi = <<>> /\ ~ Fetching' /\ UNCHANGED <<pathSet, uiLoaded, entries, hiddenEntries, pending>>
    BY <1>0, <1>2, FetchSends DEF uiVars
  <2>0. PICK n \in Nat, m \in Nat : \E h, p : Listing(toUi', n, m, h, p)
    BY <1>0, <1>2, FetchSends
  <2>2. PICK h, p : Listing(toUi', n, m, h, p)
    BY <2>0
  <2>3. /\ toWorker' = Tail(toWorker) /\ toWorker # <<>> /\ toWorker \in Seq(WorkerEvent)
        /\ Head(toWorker).kind = "fetch"
    BY <1>0, <1>2 DEF DoFetchEntries, Dispatch, TypeOK
  <2>4. /\ \A i \in DOMAIN toWorker' : i + 1 \in DOMAIN toWorker /\ toWorker'[i] = toWorker[i + 1]
        /\ Fetching
    BY <2>3 DEF Fetching
  <2>5. ~ uiLoaded /\ entries = <<>>
    BY <2>4 DEF LoadInv, FetchedIntoEmpty
  <2>6. /\ DOMAIN toUi' = 1 .. n + m + 1 /\ Len(toUi') = n + m + 1
        /\ \A i \in DOMAIN toUi' : /\ toUi'[i].kind = "hidden" <=> i \in 1 .. n
                                   /\ toUi'[i].kind = "loaded" <=> i = n + m + 1
    <3> DEFINE q == toUi'
    <3>1. Listing(q, n, m, h, p)
      BY <2>2
    <3> HIDE DEF q
    <3>2. /\ DOMAIN q = 1 .. n + m + 1 /\ Len(q) = n + m + 1
          /\ \A i \in DOMAIN q : /\ q[i].kind = "hidden" <=> i \in 1 .. n
                                 /\ q[i].kind = "loaded" <=> i = n + m + 1
      BY <3>1, ListingKinds
    <3> QED
      BY <3>2 DEF q
  <2>7. HiddenEarlier'
    <3> SUFFICES ASSUME NEW j \in DOMAIN toUi', toUi'[j].kind = "hidden",
                        NEW i \in DOMAIN toUi', toUi'[i].kind = "entry"
                 PROVE  j < i
      BY <2>1, <2>5 DEF HiddenEarlier, Of
    <3>1. j \in 1 .. n /\ i \notin 1 .. n
      BY <2>6
    <3> QED
      BY <2>6, <3>1
  <2>8. LoadedLast'
    BY <2>1, <2>5, <2>6 DEF LoadedLast
  <2>9. WaitsToLoad'
    BY <2>1, <2>4 DEF LoadInv, WaitsToLoad
  <2> QED
    BY <1>0, <2>1, <2>7, <2>8, <2>9 DEF LoadInv, HiddenFlags, Unset, FetchedIntoEmpty
<1>3. CASE FlushTimeout \/ FlushEnd
  <2>1. UNCHANGED <<pathSet, uiLoaded, entries, hiddenEntries, toUi, toWorker, pending>>
    BY <1>3 DEF FlushTimeout, FlushEnd, uiVars
  <2> QED
    BY <1>0, <2>1 DEF LoadInv, HiddenFlags, Unset, WaitsToLoad, FetchedIntoEmpty, Fetching,
                      LoadedLast, HiddenEarlier, Of
<1>4. CASE FlushNext \/ FlushFails
  <2>1. UNCHANGED <<pathSet, uiLoaded, entries, hiddenEntries, toUi, toWorker>> /\ pending # <<>>
    BY <1>4 DEF FlushNext, FlushFails, uiVars
  <2> QED
    BY <1>0, <2>1 DEF LoadInv, HiddenFlags, Unset, WaitsToLoad, FetchedIntoEmpty, Fetching,
                      LoadedLast, HiddenEarlier, Of
<1>5. CASE ThreadFinish
  <2>1. /\ UNCHANGED <<pathSet, uiLoaded, entries, hiddenEntries, toUi, pending>>
        /\ toWorker' = <<>>
    BY <1>5 DEF ThreadFinish, uiVars
  <2> QED
    BY <1>0, <2>1 DEF LoadInv, HiddenFlags, Unset, WaitsToLoad, FetchedIntoEmpty, Fetching,
                      LoadedLast, HiddenEarlier, Of
<1>6. CASE Exit
  BY <1>0, <1>6 DEF Exit, Volatile, LoadInv, HiddenFlags, Unset, WaitsToLoad, FetchedIntoEmpty,
                    Fetching, LoadedLast, HiddenEarlier, Of
<1> QED
  BY <1>1, <1>2, <1>3, <1>4, <1>5, <1>6 DEF WorkerNext

LEMMA NextLoad == ~ EarlyUse /\ LoadInv /\ [Next]_vars => LoadInv'
<1> SUFFICES ASSUME ~ EarlyUse, LoadInv, [Next]_vars PROVE LoadInv'
  OBVIOUS
<1>0. Quit \/ Crash \/ Start \/ Tick \/ UNCHANGED vars => SortInv'
  BY ProcessSort DEF LoadInv
<1>1. CASE Crash \/ Start
  BY <1>0, <1>1 DEF Crash, Start, Volatile, LoadInv, HiddenFlags, Unset, WaitsToLoad,
                    FetchedIntoEmpty, Fetching, LoadedLast, HiddenEarlier, Of
<1>2. CASE Quit \/ Tick \/ UNCHANGED vars
  <2>1. UNCHANGED <<pathSet, uiLoaded, entries, hiddenEntries, toUi, toWorker, pending>>
    BY <1>2 DEF Quit, Tick, vars, uiVars, workerVars
  <2> QED
    BY <1>0, <1>2, <2>1 DEF LoadInv, HiddenFlags, Unset, WaitsToLoad, FetchedIntoEmpty,
                            Fetching, LoadedLast, HiddenEarlier, Of
<1> QED
  BY <1>1, <1>2, UserLoad, UiLoad, WorkerLoad DEF Next

\* When the UI only uses the history once it is loaded (morph-browser.qml), an
\* entry is flagged hidden exactly when its URL is hidden, whatever statements
\* fail and wherever the process stops.
THEOREM FlagsAreRight == ~ EarlyUse => (Spec => []HiddenFlags)
<1> SUFFICES ASSUME ~ EarlyUse PROVE Spec => []HiddenFlags
  OBVIOUS
<1>1. Init => LoadInv
  BY LoadInit
<1>2. LoadInv /\ [Next]_vars => LoadInv'
  BY NextLoad
<1>3. LoadInv => HiddenFlags
  BY DEF LoadInv
<1> QED
  BY <1>1, <1>2, <1>3, PTL DEF Spec
-----------------------------------------------------------------------------
(* What the model and the table hold, whatever the order *)

Datum(x) == [url |-> x.url, domain |-> x.domain, title |-> x.title, visits |-> x.visits,
             lastVisit |-> x.lastVisit]

Data(s) == {Datum(s[i]) : i \in DOMAIN s}

Unique(s) == \A i, j \in DOMAIN s : s[i].url = s[j].url => i = j

Without(s, u) == \A i \in DOMAIN s : s[i].url # u

LEMMA DatumOf ==
  ASSUME NEW x
  PROVE  /\ Datum(x).url = x.url /\ Datum(x).domain = x.domain /\ Datum(x).title = x.title
         /\ Datum(x).visits = x.visits /\ Datum(x).lastVisit = x.lastVisit
BY DEF Datum

\* An element put at the front, or at the end.
LEMMA DataPrepend ==
  ASSUME NEW T, NEW s \in Seq(T), NEW e \in T
  PROVE  /\ Data(<<e>> \o s) = {Datum(e)} \cup Data(s)
         /\ Unique(s) /\ Without(s, e.url) => Unique(<<e>> \o s)
<1> DEFINE new == <<e>> \o s
<1>1. /\ DOMAIN s = 1 .. Len(s) /\ Len(s) \in Nat /\ DOMAIN new = 1 .. Len(s) + 1
      /\ new[1] = e /\ \A i \in 2 .. Len(s) + 1 : new[i] = s[i - 1]
  BY PrependType
<1> HIDE DEF new
<1>2. \A i \in DOMAIN s : i + 1 \in DOMAIN new /\ new[i + 1] = s[i]
  <2> SUFFICES ASSUME NEW i \in DOMAIN s PROVE i + 1 \in DOMAIN new /\ new[i + 1] = s[i]
    OBVIOUS
  <2>1. i + 1 \in 2 .. Len(s) + 1 /\ (i + 1) - 1 = i
    BY <1>1
  <2> QED
    BY <1>1, <2>1
<1>3. \A i \in DOMAIN new : i = 1 \/ (i - 1 \in DOMAIN s /\ new[i] = s[i - 1])
  BY <1>1
<1>4. Data(new) = {Datum(e)} \cup Data(s)
  BY <1>1, <1>2, <1>3 DEF Data
<1>5. ASSUME Unique(s), Without(s, e.url) PROVE Unique(new)
  BY <1>1, <1>3, <1>5 DEF Unique, Without
<1> QED
  BY <1>4, <1>5 DEF new

LEMMA DataAppend ==
  ASSUME NEW T, NEW s \in Seq(T), NEW e
  PROVE  /\ Data(Append(s, e)) = Data(s) \cup {Datum(e)}
         /\ Unique(s) /\ Without(s, e.url) => Unique(Append(s, e))
<1> DEFINE new == Append(s, e)
<1>1. /\ DOMAIN s = 1 .. Len(s) /\ Len(s) \in Nat /\ DOMAIN new = 1 .. Len(s) + 1
      /\ new[Len(s) + 1] = e /\ \A i \in DOMAIN s : new[i] = s[i]
  OBVIOUS
<1> HIDE DEF new
<1>2. /\ DOMAIN new = DOMAIN s \cup {Len(s) + 1} /\ Len(s) + 1 \notin DOMAIN s
  BY <1>1
<1>3. Data(new) = Data(s) \cup {Datum(e)}
  BY <1>1, <1>2 DEF Data
<1>4. ASSUME Unique(s), Without(s, e.url) PROVE Unique(new)
  BY <1>1, <1>2, <1>4 DEF Unique, Without
<1> QED
  BY <1>3, <1>4 DEF new

\* Some of the elements.
LEMMA DataKeep ==
  ASSUME NEW T, NEW s \in Seq(T), NEW K \in SUBSET (DOMAIN s)
  PROVE  /\ Data(Keep(s, K)) = {Datum(s[j]) : j \in K}
         /\ Unique(s) => Unique(Keep(s, K))
         /\ \A i \in DOMAIN Keep(s, K) : \E j \in K : Keep(s, K)[i] = s[j]
<1> DEFINE k == Keep(s, K)
           f == InOrder(K)
<1>1. /\ \A i \in DOMAIN k : \E j \in K : k[i] = s[j]
      /\ \A j \in K : \E i \in DOMAIN k : k[i] = s[j]
  BY KeepImage
<1>2. /\ Enumerates(f, K) /\ DOMAIN k = 1 .. Cardinality(K)
      /\ \A i \in DOMAIN k : k[i] = s[f[i]]
  BY KeepIs
<1>3. /\ \A i \in DOMAIN k : f[i] \in K
      /\ \A i, j \in DOMAIN k : i < j => f[i] < f[j]
  BY <1>2 DEF Enumerates
<1>4. DOMAIN k \subseteq Int /\ K \subseteq Int /\ K \subseteq DOMAIN s
  BY <1>2
<1> HIDE DEF k, f
<1>5. Data(k) = {Datum(s[j]) : j \in K}
  BY <1>1 DEF Data
<1>6. ASSUME Unique(s), NEW i \in DOMAIN k, NEW j \in DOMAIN k, k[i].url = k[j].url
      PROVE  i = j
  <2>1. f[i] = f[j]
    BY <1>2, <1>3, <1>4, <1>6 DEF Unique
  <2>2. f[i] \in Int /\ f[j] \in Int /\ i \in Int /\ j \in Int
    BY <1>3, <1>4
  <2> QED
    BY <1>3, <2>1, <2>2
<1> QED
  BY <1>1, <1>5, <1>6 DEF Unique, k

\* A list without two elements of the same URL is as long as it has data.
LEMMA UniqueLength ==
  ASSUME NEW T, NEW s \in Seq(T), Unique(s)
  PROVE  Cardinality(Data(s)) = Len(s)
<1> DEFINE f == [i \in 1 .. Len(s) |-> Datum(s[i])]
<1>1. DOMAIN s = 1 .. Len(s) /\ Len(s) \in Nat
  OBVIOUS
<1>2. f \in [1 .. Len(s) -> Data(s)]
  BY <1>1 DEF Data
<1>3. ASSUME NEW i \in 1 .. Len(s), NEW j \in 1 .. Len(s), f[i] = f[j] PROVE i = j
  <2>1. Datum(s[i]) = Datum(s[j])
    BY <1>3
  <2>2. s[i].url = s[j].url
    BY <2>1, DatumOf
  <2> QED
    BY <1>1, <2>2 DEF Unique
<1>4. \A d \in Data(s) : \E i \in 1 .. Len(s) : f[i] = d
  BY <1>1 DEF Data
<1> HIDE DEF f
<1>5. f \in Bijection(1 .. Len(s), Data(s))
  BY <1>2, <1>3, <1>4 DEF Bijection, Injection, IsInjective, Surjection
<1> QED
  BY <1>1, <1>5, FS_CountingElements DEF ExistsBijection
-----------------------------------------------------------------------------
(* A statement does the same to the data of any list *)

Inserted(op) == [url |-> op.url, domain |-> op.domain, title |-> op.title,
                 visits |-> 1, lastVisit |-> op.lastVisit]
Updated(op) == [url |-> op.url, domain |-> op.domain, title |-> op.title,
                visits |-> op.visits, lastVisit |-> op.lastVisit]

ExecData(op, D) ==
  CASE op.type = "InsertNewEntry" -> D \cup {Inserted(op)}
    [] op.type = "UpdateExistingEntry" ->
         {d \in D : d.url # op.url}
         \cup {x \in {Updated(op)} : \E d \in D : d.url = op.url}
    [] op.type = "RemoveEntryByUrl" -> {d \in D : d.url # op.url}
    [] op.type = "RemoveEntriesByDate" -> {d \in D : Day(d.lastVisit) # op.day}
    [] op.type = "RemoveEntriesByDomain" -> {d \in D : d.domain # op.domain}
    [] op.type = "ClearHistory" -> {}
    [] OTHER -> D

\* No two rows have the same URL, and each has its domain.
Good(t) == Unique(t) /\ \A i \in DOMAIN t : t[i].domain # NoDomain

\* A row is only inserted for a URL the list does not have.
Fresh(op, t) == op.type = "InsertNewEntry" => Without(t, op.url)

LEMMA ExecUpdate ==
  ASSUME NEW op \in Op, op.type = "UpdateExistingEntry", NEW t \in Seq(Row), Good(t)
  PROVE  Data(ExecHistory(op, t)) = ExecData(op, Data(t)) /\ Good(ExecHistory(op, t))
<1> DEFINE r == ExecHistory(op, t)
           x == Updated(op)
<1>1. /\ DOMAIN r = DOMAIN t
      /\ \A i \in DOMAIN t : r[i] = IF t[i].url = op.url THEN x ELSE t[i]
  BY DEF ExecHistory, Updated
<1>2. x.url = op.url /\ x.domain = op.domain /\ Datum(x) = x
  BY DEF Updated, Datum
<1>3. op.domain # NoDomain
  BY HistoryAssumption DEF Op
<1>4. ExecData(op, Data(t)) = {d \in Data(t) : d.url # op.url}
                              \cup {y \in {x} : \E d \in Data(t) : d.url = op.url}
  BY DEF ExecData
<1> HIDE DEF r, x
<1>5. ASSUME NEW d \in Data(r) PROVE d \in ExecData(op, Data(t))
  <2>1. PICK i \in DOMAIN t : d = Datum(r[i])
    BY <1>1 DEF Data
  <2>2. Datum(t[i]) \in Data(t) /\ Datum(t[i]).url = t[i].url
    BY DatumOf DEF Data
  <2>3. CASE t[i].url = op.url
    BY <1>1, <1>2, <1>4, <2>1, <2>2, <2>3
  <2>4. CASE t[i].url # op.url
    BY <1>1, <1>4, <2>1, <2>2, <2>4
  <2> QED
    BY <2>3, <2>4
<1>6. ASSUME NEW d \in ExecData(op, Data(t)) PROVE d \in Data(r)
  <2>1. CASE d \in Data(t) /\ d.url # op.url
    <3>1. PICK i \in DOMAIN t : d = Datum(t[i])
      BY <2>1 DEF Data
    <3>2. r[i] = t[i]
      BY <1>1, <2>1, <3>1, DatumOf
    <3> QED
      BY <1>1, <3>1, <3>2 DEF Data
  <2>2. CASE d = x /\ \E y \in Data(t) : y.url = op.url
    <3>1. PICK i \in DOMAIN t : t[i].url = op.url
      BY <2>2, DatumOf DEF Data
    <3>2. Datum(r[i]) = d
      BY <1>1, <1>2, <2>2, <3>1
    <3> QED
      BY <1>1, <3>2 DEF Data
  <2> QED
    BY <1>4, <2>1, <2>2
<1>7. Data(r) = ExecData(op, Data(t))
  BY <1>5, <1>6
<1>8. \A i \in DOMAIN t : r[i].url = t[i].url /\ r[i].domain # NoDomain
  BY <1>1, <1>2, <1>3 DEF Good
<1>9. Good(r)
  BY <1>1, <1>8 DEF Good, Unique
<1> QED
  BY <1>7, <1>9 DEF r

\* The statements that remove rows.
LEMMA ExecKeep ==
  ASSUME NEW t \in Seq(Row), Good(t), NEW K \in SUBSET (DOMAIN t)
  PROVE  Data(Keep(t, K)) = {Datum(t[j]) : j \in K} /\ Good(Keep(t, K))
<1>1. /\ Data(Keep(t, K)) = {Datum(t[j]) : j \in K} /\ Unique(Keep(t, K))
      /\ \A i \in DOMAIN Keep(t, K) : \E j \in K : Keep(t, K)[i] = t[j]
  BY DataKeep DEF Good
<1>2. \A i \in DOMAIN Keep(t, K) : Keep(t, K)[i].domain # NoDomain
  BY <1>1 DEF Good
<1> QED
  BY <1>1, <1>2 DEF Good

LEMMA ExecHistoryData ==
  ASSUME NEW op \in Op, NEW t \in Seq(Row), Good(t), Fresh(op, t)
  PROVE  Data(ExecHistory(op, t)) = ExecData(op, Data(t)) /\ Good(ExecHistory(op, t))
<1>1. CASE op.type = "InsertNewEntry"
  <2> DEFINE x == Inserted(op)
  <2>1. ExecHistory(op, t) = Append(t, x) /\ ExecData(op, Data(t)) = Data(t) \cup {x}
    BY <1>1 DEF ExecHistory, ExecData, Inserted
  <2>2. Datum(x) = x /\ x.url = op.url /\ x.domain = op.domain
    BY DEF Datum, Inserted
  <2>3. op.domain # NoDomain
    BY <1>1, HistoryAssumption DEF Op
  <2> HIDE DEF x
  <2>4. Data(Append(t, x)) = Data(t) \cup {x} /\ Unique(Append(t, x))
    BY <1>1, <2>2, DataAppend DEF Good, Fresh
  <2>5. \A i \in DOMAIN Append(t, x) : Append(t, x)[i].domain # NoDomain
    BY <2>2, <2>3 DEF Good
  <2> QED
    BY <2>1, <2>4, <2>5 DEF Good
<1>2. CASE op.type = "UpdateExistingEntry"
  BY <1>2, ExecUpdate
<1>3. CASE op.type = "RemoveEntryByUrl"
  <2> DEFINE K == {i \in DOMAIN t : t[i].url # op.url}
  <2>1. ExecHistory(op, t) = Keep(t, K) /\ ExecData(op, Data(t)) = {d \in Data(t) : d.url # op.url}
    BY <1>3 DEF ExecHistory, ExecData
  <2>2. K \in SUBSET (DOMAIN t)
    OBVIOUS
  <2>3. {d \in Data(t) : d.url # op.url} = {Datum(t[j]) : j \in K}
    BY DatumOf DEF Data
  <2> HIDE DEF K
  <2> QED
    BY <2>1, <2>2, <2>3, ExecKeep
<1>4. CASE op.type = "RemoveEntriesByDate"
  <2> DEFINE K == {i \in DOMAIN t : Day(t[i].lastVisit) # op.day}
  <2>1. /\ ExecHistory(op, t) = Keep(t, K)
        /\ ExecData(op, Data(t)) = {d \in Data(t) : Day(d.lastVisit) # op.day}
    BY <1>4 DEF ExecHistory, ExecData
  <2>2. K \in SUBSET (DOMAIN t)
    OBVIOUS
  <2>3. {d \in Data(t) : Day(d.lastVisit) # op.day} = {Datum(t[j]) : j \in K}
    BY DatumOf DEF Data
  <2> HIDE DEF K
  <2> QED
    BY <2>1, <2>2, <2>3, ExecKeep
<1>5. CASE op.type = "RemoveEntriesByDomain"
  <2> DEFINE K == {i \in DOMAIN t : t[i].domain # op.domain}
  <2>1. /\ ExecHistory(op, t) = Keep(t, K)
        /\ ExecData(op, Data(t)) = {d \in Data(t) : d.domain # op.domain}
    BY <1>5 DEF ExecHistory, ExecData
  <2>2. K \in SUBSET (DOMAIN t)
    OBVIOUS
  <2>3. {d \in Data(t) : d.domain # op.domain} = {Datum(t[j]) : j \in K}
    BY DatumOf DEF Data
  <2> HIDE DEF K
  <2> QED
    BY <2>1, <2>2, <2>3, ExecKeep
<1>6. CASE op.type = "ClearHistory"
  BY <1>6 DEF ExecHistory, ExecData, Data, Good, Unique
<1>7. CASE op.type \in {"InsertNewHiddenEntry", "RemoveHiddenEntryByUrl", "ClearHistoryHidden"}
  BY <1>7 DEF ExecHistory, ExecData
<1> QED
  BY <1>1, <1>2, <1>3, <1>4, <1>5, <1>6, <1>7 DEF Op

\* EntryIndex returns 0 for a URL that is not there, and only then.
LEMMA EntryIndexZero ==
  ASSUME entries \in Seq(Entry), NEW u \in Url, EntryIndex(u) = 0
  PROVE  Without(entries, u)
<1>1. DOMAIN entries = 1 .. Len(entries) /\ Len(entries) \in Nat
  OBVIOUS
<1>2. At(entries, u) = {}
  <2> SUFFICES ASSUME At(entries, u) # {} PROVE FALSE
    OBVIOUS
  <2>1. At(entries, u) \in SUBSET Nat /\ At(entries, u) \subseteq 1 .. Len(entries)
    BY <1>1 DEF At
  <2>2. \E i \in At(entries, u) : \A j \in At(entries, u) : i <= j
    BY <2>1, LeastNat
  <2>3. EntryIndex(u) \in At(entries, u)
    BY <2>2 DEF EntryIndex
  <2> QED
    BY <2>1, <2>3
<1> QED
  BY <1>2 DEF At, Without
-----------------------------------------------------------------------------
(* A command does to the entries what its statements do to the table *)

Sends(op) == toWorker' = Append(toWorker, [kind |-> "op", op |-> op])

\* The command sends op, and has its effect on the entries.
Mirrors(op) ==
  /\ Sends(op) /\ Fresh(op, entries) /\ Unique(entries')
  /\ Data(entries') = ExecData(op, Data(entries))
  /\ hiddenEntries' = ExecHidden(op, hiddenEntries)

\* The effect of an updated entry, put in the place of the one it was made of.
LEMMA UpdateMirrors ==
  ASSUME entries \in Seq(Entry), Unique(entries), NEW i \in DOMAIN entries,
         NEW e \in Entry, e.url = entries[i].url, UNCHANGED hiddenEntries, Enqueue(UpdateOp(e)),
         Data(entries') = {Datum(e)} \cup {Datum(entries[j]) : j \in DOMAIN entries \ {i}},
         Unique(entries')
  PROVE  UpdateOp(e) \in Op /\ Mirrors(UpdateOp(e))
<1> DEFINE op == UpdateOp(e)
<1>1. op \in Op /\ op.type = "UpdateExistingEntry" /\ op.url = e.url /\ Updated(op) = Datum(e)
  BY UpdateOpType DEF UpdateOp, Updated, Datum
<1>2. Sends(op)
  BY DEF Enqueue, Sends
<1> HIDE DEF op
<1>3. ExecData(op, Data(entries)) =
        {d \in Data(entries) : d.url # e.url}
        \cup {x \in {Datum(e)} : \E d \in Data(entries) : d.url = e.url}
  BY <1>1 DEF ExecData
<1>4. \E d \in Data(entries) : d.url = e.url
  BY DatumOf DEF Data
<1>5. {d \in Data(entries) : d.url # e.url} = {Datum(entries[j]) : j \in DOMAIN entries \ {i}}
  <2>1. \A j \in DOMAIN entries : j # i <=> entries[j].url # e.url
    BY DEF Unique
  <2>2. \A j \in DOMAIN entries : j # i <=> Datum(entries[j]).url # e.url
    BY <2>1, DatumOf
  <2> QED
    BY <2>2 DEF Data
<1>6. ExecData(op, Data(entries)) = {Datum(e)} \cup {Datum(entries[j]) : j \in DOMAIN entries \ {i}}
  BY <1>3, <1>4, <1>5
<1>7. ExecHidden(op, hiddenEntries) = hiddenEntries /\ Fresh(op, entries)
  BY <1>1 DEF ExecHidden, Fresh
<1> QED
  BY <1>1, <1>2, <1>6, <1>7 DEF Mirrors, op

LEMMA AddMirrors ==
  ASSUME TypeOK, Unique(entries), NEW u \in Url, NEW t \in Title, Add(u, t)
  PROVE  \E op \in Op : Mirrors(op)
<1>0. /\ entries \in Seq(Entry) /\ hiddenEntries \in SUBSET Url /\ clock \in Time
      /\ UNCHANGED hiddenEntries
  BY DEF TypeOK, Add
<1>1. CASE AddNew(u, t)
  <2> DEFINE e == [url |-> u, domain |-> DomainOf[u], title |-> t, visits |-> 1,
                   lastVisit |-> clock, hidden |-> u \in hiddenEntries]
             op == [type |-> "InsertNewEntry", url |-> u, domain |-> DomainOf[u],
                    title |-> t, lastVisit |-> clock]
  <2>1. DomainOf[u] \in Domain
    BY HistoryAssumption
  <2>2. e \in Entry /\ op \in Op
    BY <1>0, <2>1 DEF Entry, Op
  <2>3. entries' = <<e>> \o entries /\ Sends(op) /\ EntryIndex(u) = 0
    BY <1>1 DEF AddNew, Enqueue, Sends
  <2>4. Inserted(op) = Datum(e) /\ op.type = "InsertNewEntry" /\ op.url = u /\ e.url = u
    BY DEF Inserted, Datum
  <2> HIDE DEF e, op
  <2>5. Without(entries, u)
    BY <1>0, <2>3, EntryIndexZero
  <2>6. Data(entries') = {Datum(e)} \cup Data(entries) /\ Unique(entries')
    BY <1>0, <2>2, <2>3, <2>4, <2>5, DataPrepend
  <2>7. ExecData(op, Data(entries)) = Data(entries) \cup {Datum(e)}
    BY <2>4 DEF ExecData
  <2>8. ExecHidden(op, hiddenEntries) = hiddenEntries /\ Fresh(op, entries)
    BY <2>4, <2>5 DEF ExecHidden, Fresh
  <2> QED
    BY <1>0, <2>2, <2>3, <2>6, <2>7, <2>8 DEF Mirrors
<1>2. CASE AddKnown(u, t)
  <2> DEFINE i == EntryIndex(u)
             e == [entries[i] EXCEPT !.title = t, !.visits = @ + 1, !.lastVisit = clock]
             K == DOMAIN entries \ {i}
             rest == Keep(entries, K)
  <2>1. i # 0 /\ entries' = <<e>> \o rest /\ Enqueue(UpdateOp(e))
    BY <1>2 DEF AddKnown, RemoveByIndex
  <2>2. entries[i] \in Entry /\ i \in DOMAIN entries
    BY <1>0, <2>1, EntryIndexIs
  <2> HIDE DEF i
  <2>3. e \in Entry /\ e.url = entries[i].url
    BY <1>0, <2>2, VisitedEntryType DEF Entry
  <2> HIDE DEF e
  <2>4. K \in SUBSET (DOMAIN entries)
    OBVIOUS
  <2>5. /\ rest \in Seq(Entry) /\ Data(rest) = {Datum(entries[j]) : j \in K} /\ Unique(rest)
        /\ \A k \in DOMAIN rest : \E j \in K : rest[k] = entries[j]
    <3>1. rest \in Seq(Entry)
      BY <1>0, <2>4, KeepIs
    <3>2. /\ Data(rest) = {Datum(entries[j]) : j \in K} /\ Unique(rest)
          /\ \A k \in DOMAIN rest : \E j \in K : rest[k] = entries[j]
      <4> HIDE DEF K
      <4> QED
        BY <1>0, <2>4, DataKeep
    <3> QED
      BY <3>1, <3>2
  <2>6. Without(rest, e.url)
    BY <2>2, <2>3, <2>5 DEF Unique, Without
  <2> HIDE DEF rest
  <2>7. Data(entries') = {Datum(e)} \cup {Datum(entries[j]) : j \in K} /\ Unique(entries')
    BY <2>1, <2>3, <2>5, <2>6, DataPrepend
  <2> QED
    BY <1>0, <2>1, <2>2, <2>3, <2>7, UpdateMirrors
<1> QED
  BY <1>1, <1>2 DEF Add

LEMMA RetitleMirrors ==
  ASSUME TypeOK, Unique(entries), NEW u \in Url, NEW t \in Title, Update(u, t)
  PROVE  \E op \in Op : Mirrors(op)
<1> DEFINE i == EntryIndex(u)
           e == [entries[i] EXCEPT !.title = t]
<1>0. entries \in Seq(Entry)
  BY DEF TypeOK
<1>1. i # 0 /\ entries' = [entries EXCEPT ![i] = e] /\ UNCHANGED hiddenEntries /\ Enqueue(UpdateOp(e))
  BY DEF Update
<1>2. entries[i] \in Entry /\ i \in DOMAIN entries
  BY <1>0, <1>1, EntryIndexIs
<1> HIDE DEF i
<1>3. e \in Entry /\ e.url = entries[i].url
  BY <1>2, RetitledEntryType DEF Entry
<1> HIDE DEF e
<1>4. /\ DOMAIN entries' = DOMAIN entries /\ entries'[i] = e
      /\ \A j \in DOMAIN entries \ {i} : entries'[j] = entries[j]
  BY <1>0, <1>1, <1>2
<1>5. Data(entries') = {Datum(e)} \cup {Datum(entries[j]) : j \in DOMAIN entries \ {i}}
  BY <1>2, <1>4 DEF Data
<1>6. Unique(entries')
  BY <1>2, <1>3, <1>4 DEF Unique
<1> QED
  BY <1>0, <1>1, <1>2, <1>3, <1>5, <1>6, UpdateMirrors

LEMMA RemoveMirrors ==
  ASSUME TypeOK, Unique(entries),
         \/ \E u \in Url : RemoveEntryByUrl(u)
         \/ \E d \in Nat : RemoveEntriesByDate(d)
         \/ \E d \in Domain : RemoveEntriesByDomain(d)
  PROVE  \E op \in Op : Mirrors(op)
<1>0. entries \in Seq(Entry)
  BY DEF TypeOK
<1>1. ASSUME NEW op \in Op, NEW K \in SUBSET (DOMAIN entries), Sends(op),
             op.type \in {"RemoveEntryByUrl", "RemoveEntriesByDate", "RemoveEntriesByDomain"},
             entries' = Keep(entries, K), UNCHANGED hiddenEntries,
             ExecData(op, Data(entries)) = {Datum(entries[j]) : j \in K}
      PROVE  Mirrors(op)
  <2>1. Data(entries') = {Datum(entries[j]) : j \in K} /\ Unique(entries')
    BY <1>0, <1>1, DataKeep
  <2>2. ExecHidden(op, hiddenEntries) = hiddenEntries /\ Fresh(op, entries)
    BY <1>1 DEF ExecHidden, Fresh
  <2> QED
    BY <1>1, <2>1, <2>2 DEF Mirrors
<1>2. ASSUME NEW u \in Url, RemoveEntryByUrl(u) PROVE \E op \in Op : Mirrors(op)
  <2> DEFINE op == [type |-> "RemoveEntryByUrl", url |-> u]
             i == EntryIndex(u)
  <2>1. op \in Op /\ Sends(op) /\ UNCHANGED hiddenEntries
    BY <1>2 DEF RemoveEntryByUrl, Enqueue, Sends, Op
  <2>2. ExecData(op, Data(entries)) = {d \in Data(entries) : d.url # u}
    BY DEF ExecData
  <2>3. op.type = "RemoveEntryByUrl"
    OBVIOUS
  <2>4. CASE i = 0
    <3>1. Without(entries, u) /\ entries' = entries
      BY <1>0, <1>2, <2>4, EntryIndexZero DEF RemoveEntryByUrl
    <3>2. \A d \in Data(entries) : d.url # u
      BY <3>1, DatumOf DEF Data, Without
    <3>3. ExecData(op, Data(entries)) = Data(entries)
      BY <2>2, <3>2
    <3>4. ExecHidden(op, hiddenEntries) = hiddenEntries /\ Fresh(op, entries)
      BY <2>3 DEF ExecHidden, Fresh
    <3> QED
      BY <2>1, <3>1, <3>3, <3>4 DEF Mirrors
  <2>5. CASE i # 0
    <3> DEFINE K == DOMAIN entries \ {i}
    <3>1. i \in DOMAIN entries /\ entries[i].url = u
      BY <1>0, <2>5, EntryIndexIs
    <3>2. entries' = Keep(entries, K) /\ K \in SUBSET (DOMAIN entries)
      BY <1>2, <2>5 DEF RemoveEntryByUrl, RemoveByIndex
    <3> HIDE DEF i
    <3>3. \A j \in DOMAIN entries : j # i <=> Datum(entries[j]).url # u
      BY <3>1, DatumOf DEF Unique
    <3>4. {d \in Data(entries) : d.url # u} = {Datum(entries[j]) : j \in K}
      BY <3>3 DEF Data
    <3> HIDE DEF K
    <3> QED
      BY <1>1, <2>1, <2>2, <2>3, <3>2, <3>4
  <2> QED
    BY <2>4, <2>5
<1>3. ASSUME NEW d \in Nat, RemoveEntriesByDate(d) PROVE \E op \in Op : Mirrors(op)
  <2> DEFINE op == [type |-> "RemoveEntriesByDate", day |-> d]
             K == {i \in DOMAIN entries : Day(entries[i].lastVisit) # d}
  <2>1. op \in Op /\ Sends(op) /\ UNCHANGED hiddenEntries /\ entries' = Keep(entries, K)
    BY <1>3 DEF RemoveEntriesByDate, Enqueue, Sends, Op
  <2>2. ExecData(op, Data(entries)) = {x \in Data(entries) : Day(x.lastVisit) # d}
    BY DEF ExecData
  <2>3. {x \in Data(entries) : Day(x.lastVisit) # d} = {Datum(entries[j]) : j \in K}
    BY DatumOf DEF Data
  <2>4. op.type = "RemoveEntriesByDate" /\ K \in SUBSET (DOMAIN entries)
    OBVIOUS
  <2> HIDE DEF K, op
  <2> QED
    BY <1>1, <2>1, <2>2, <2>3, <2>4
<1>4. ASSUME NEW d \in Domain, RemoveEntriesByDomain(d) PROVE \E op \in Op : Mirrors(op)
  <2> DEFINE op == [type |-> "RemoveEntriesByDomain", domain |-> d]
             K == {i \in DOMAIN entries : entries[i].domain # d}
  <2>1. op \in Op /\ Sends(op) /\ UNCHANGED hiddenEntries /\ entries' = Keep(entries, K)
    BY <1>4 DEF RemoveEntriesByDomain, Enqueue, Sends, Op
  <2>2. ExecData(op, Data(entries)) = {x \in Data(entries) : x.domain # d}
    BY DEF ExecData
  <2>3. {x \in Data(entries) : x.domain # d} = {Datum(entries[j]) : j \in K}
    BY DatumOf DEF Data
  <2>4. op.type = "RemoveEntriesByDomain" /\ K \in SUBSET (DOMAIN entries)
    OBVIOUS
  <2> HIDE DEF K, op
  <2> QED
    BY <1>1, <2>1, <2>2, <2>3, <2>4
<1> QED
  BY <1>2, <1>3, <1>4

LEMMA HideMirrors ==
  ASSUME TypeOK, Unique(entries), NEW u \in Url, Hide(u) \/ UnHide(u)
  PROVE  \E op \in Op : Mirrors(op)
<1>0. entries \in Seq(Entry)
  BY DEF TypeOK
<1>1. ASSUME NEW b, SetHidden(u, b)
      PROVE  Data(entries') = Data(entries) /\ Unique(entries')
  <2>1. /\ DOMAIN entries' = DOMAIN entries
        /\ \A i \in DOMAIN entries : entries'[i] =
             IF entries[i].url = u THEN [entries[i] EXCEPT !.hidden = b] ELSE entries[i]
    BY <1>1 DEF SetHidden
  <2>2. ASSUME NEW i \in DOMAIN entries
        PROVE  Datum(entries'[i]) = Datum(entries[i]) /\ entries'[i].url = entries[i].url
    <3>1. entries[i] \in Entry
      BY <1>0
    <3>2. \/ entries'[i] = entries[i]
          \/ entries'[i] = [entries[i] EXCEPT !.hidden = b]
      BY <2>1
    <3> QED
      BY <3>1, <3>2 DEF Datum, Entry
  <2> QED
    BY <2>1, <2>2 DEF Data, Unique
<1>2. CASE Hide(u)
  <2> DEFINE op == [type |-> "InsertNewHiddenEntry", url |-> u]
  <2>1. op \in Op /\ Sends(op) /\ SetHidden(u, TRUE) /\ hiddenEntries' = hiddenEntries \cup {u}
    BY <1>2 DEF Hide, Enqueue, Sends, Op
  <2>2. /\ ExecData(op, Data(entries)) = Data(entries) /\ Fresh(op, entries)
        /\ ExecHidden(op, hiddenEntries) = hiddenEntries \cup {u}
    BY DEF ExecData, ExecHidden, Fresh
  <2> QED
    BY <1>1, <2>1, <2>2 DEF Mirrors
<1>3. CASE UnHide(u)
  <2> DEFINE op == [type |-> "RemoveHiddenEntryByUrl", url |-> u]
  <2>1. op \in Op /\ Sends(op) /\ SetHidden(u, FALSE) /\ hiddenEntries' = hiddenEntries \ {u}
    BY <1>3 DEF UnHide, Enqueue, Sends, Op
  <2>2. /\ ExecData(op, Data(entries)) = Data(entries) /\ Fresh(op, entries)
        /\ ExecHidden(op, hiddenEntries) = hiddenEntries \ {u}
    BY DEF ExecData, ExecHidden, Fresh
  <2> QED
    BY <1>1, <2>1, <2>2 DEF Mirrors
<1> QED
  BY <1>2, <1>3

\* clearAll sends two statements.
ClearsAll ==
  /\ toWorker' = Append(Append(toWorker, [kind |-> "op", op |-> [type |-> "ClearHistory"]]),
                        [kind |-> "op", op |-> [type |-> "ClearHistoryHidden"]])
  /\ entries' = <<>> /\ hiddenEntries' = {}

LEMMA UserMirrors ==
  ASSUME TypeOK, Unique(entries), UserNext
  PROVE  (\E op \in Op : Mirrors(op)) \/ ClearsAll
<1>1. \A t \in Time : Day(t) \in Nat
  BY DayType
<1>2. ClearAll => ClearsAll
  <2> SUFFICES ASSUME ClearAll PROVE ClearsAll
    OBVIOUS
  <2> DEFINE e1 == [kind |-> "op", op |-> [type |-> "ClearHistory"]]
             e2 == [kind |-> "op", op |-> [type |-> "ClearHistoryHidden"]]
  <2>1. /\ toWorker' = toWorker \o <<e1, e2>> /\ toWorker \in Seq(WorkerEvent)
        /\ entries' = <<>> /\ hiddenEntries' = {}
    BY DEF ClearAll, TypeOK
  <2>2. e1 \in WorkerEvent /\ e2 \in WorkerEvent
    BY DEF WorkerEvent, Op
  <2> HIDE DEF e1, e2
  <2>3. toWorker' = Append(Append(toWorker, e1), e2)
    BY <2>1, <2>2
  <2> QED
    BY <2>1, <2>3 DEF ClearsAll, e1, e2
<1> QED
  BY <1>1, <1>2, AddMirrors, RetitleMirrors, RemoveMirrors, HideMirrors DEF UserNext
-----------------------------------------------------------------------------
(* What is shown is what will be stored *)

\* The content of the file when all the operations under way are executed.
Final == Versions[Len(Versions)]

\* One more operation gives one more content.
LEMMA ContentsAppend ==
  ASSUME NEW x \in File, NEW a \in Seq(Op), NEW op \in Op
  PROVE  Contents(x, Append(a, op)) =
           Append(Contents(x, a), Exec(op, Contents(x, a)[Len(Contents(x, a))]))
<1> DEFINE b == Append(a, op)
           v == Contents(x, a)
           w == Contents(x, b)
           k == Len(a)
<1>1. /\ b \in Seq(Op) /\ Len(b) = k + 1 /\ k \in Nat /\ b[k + 1] = op
      /\ Len(a) <= Len(b) /\ \A i \in 1 .. Len(a) : a[i] = b[i]
  OBVIOUS
<1> HIDE DEF b
<1>2. v = SubSeq(w, 1, k + 1)
  BY <1>1, ContentsPrefix
<1>3. v \in Seq(File) /\ Len(v) = k + 1 /\ w \in Seq(File) /\ Len(w) = k + 2
  BY <1>1, ContentsType
<1>4. w[(k + 1) + 1] = Exec(op, w[k + 1])
  BY <1>1, ContentsAre
<1>5. Exec(op, w[k + 1]) \in File
  BY <1>1, <1>3, ExecType
<1> HIDE DEF v, w
<1> DEFINE e == Exec(op, w[k + 1])
<1> HIDE DEF e
<1>6. v[k + 1] = w[k + 1]
  BY <1>1, <1>2, <1>3
<1>7. w = Append(v, e)
  <2>1. Append(v, e) \in Seq(File) /\ Len(Append(v, e)) = k + 2
    BY <1>1, <1>3, <1>5 DEF e
  <2>2. \A i \in 1 .. k + 2 : w[i] = Append(v, e)[i]
    BY <1>1, <1>2, <1>3, <1>4 DEF e
  <2> QED
    BY <1>1, <1>3, <2>1, <2>2
<1> QED
  BY <1>1, <1>3, <1>6, <1>7 DEF b, v, w, e

\* What a command that sends one statement, or two, does to the contents.
LEMMA SendsOne ==
  ASSUME TypeOK, NEW op \in Op, Sends(op), UNCHANGED <<pending, dbVars>>
  PROVE  Versions' = Append(Versions, Exec(op, Final))
<1>0. /\ toWorker \in Seq(WorkerEvent) /\ Ops(toWorker) \in Seq(Op) /\ pending \in Seq(Op)
      /\ Disk \in File /\ Backlog \in Seq(Op) /\ Versions = Contents(Disk, Backlog)
  BY VersionsAre DEF TypeOK
<1>1. Ops(toWorker') = Append(Ops(toWorker), op)
  BY <1>0, OpsAppend DEF Sends
<1>2. Backlog' = Append(Backlog, op)
  <2>1. Ops(toWorker') = Ops(toWorker) \o <<op>> /\ <<op>> \in Seq(Op)
    BY <1>0, <1>1, AppendIsConcat
  <2>2. Backlog' = Backlog \o <<op>>
    BY <1>0, <2>1, OpsAssociate DEF Backlog
  <2> QED
    BY <1>0, <2>2, AppendIsConcat
<1>3. Versions' = Contents(Disk, Append(Backlog, op))
  <2>1. Versions' = Contents(Disk', Backlog') /\ Disk' = Disk
    BY DEF Versions, Disk, dbVars
  <2> QED
    BY <1>2, <2>1
<1> QED
  BY <1>0, <1>3, ContentsAppend DEF Final

LEMMA SendsTwo ==
  ASSUME TypeOK, NEW op1 \in Op, NEW op2 \in Op, UNCHANGED <<pending, dbVars>>,
         toWorker' = Append(Append(toWorker, [kind |-> "op", op |-> op1]),
                            [kind |-> "op", op |-> op2])
  PROVE  Versions' = Append(Append(Versions, Exec(op1, Final)), Exec(op2, Exec(op1, Final)))
<1> DEFINE q == Append(toWorker, [kind |-> "op", op |-> op1])
           a == Append(Backlog, op1)
<1>0. /\ toWorker \in Seq(WorkerEvent) /\ Ops(toWorker) \in Seq(Op) /\ pending \in Seq(Op)
      /\ Disk \in File /\ Backlog \in Seq(Op) /\ Versions = Contents(Disk, Backlog)
      /\ Versions \in Seq(File) /\ Len(Versions) = Len(Backlog) + 1
  BY VersionsAre DEF TypeOK
<1>1. q \in Seq(WorkerEvent) /\ Ops(q) = Append(Ops(toWorker), op1)
  <2>1. [kind |-> "op", op |-> op1] \in WorkerEvent
    BY DEF WorkerEvent
  <2>2. q \in Seq(WorkerEvent)
    BY <1>0, <2>1
  <2>3. Ops(q) = Append(Ops(toWorker), op1)
    BY <1>0, OpsAppend
  <2> QED
    BY <2>2, <2>3
<1> HIDE DEF q
<1>2. pending \o Ops(q) = a /\ a \in Seq(Op)
  <2>1. Ops(q) = Ops(toWorker) \o <<op1>> /\ <<op1>> \in Seq(Op)
    BY <1>0, <1>1, AppendIsConcat
  <2>2. pending \o Ops(q) = Backlog \o <<op1>>
    <3>1. pending \o (Ops(toWorker) \o <<op1>>) = (pending \o Ops(toWorker)) \o <<op1>>
      BY <1>0, <2>1, OpsAssociate
    <3> QED
      BY <2>1, <3>1 DEF Backlog
  <2> QED
    BY <1>0, <2>2, AppendIsConcat
<1>3. Ops(toWorker') = Append(Ops(q), op2) /\ Ops(q) \in Seq(Op)
  BY <1>1, OpsAppend, OpsIs DEF q
<1> HIDE DEF a
<1>4. Backlog' = Append(a, op2)
  <2>1. Ops(toWorker') = Ops(q) \o <<op2>> /\ <<op2>> \in Seq(Op)
    BY <1>3, AppendIsConcat
  <2>2. Backlog' = a \o <<op2>>
    <3>1. pending \o (Ops(q) \o <<op2>>) = (pending \o Ops(q)) \o <<op2>>
      <4>1. pending \in Seq(Op) /\ Ops(q) \in Seq(Op) /\ <<op2>> \in Seq(Op)
        BY <1>0, <1>3, <2>1
      <4> QED
        BY <4>1, OpsAssociate
    <3> QED
      BY <1>2, <2>1, <3>1 DEF Backlog
  <2> QED
    BY <1>2, <2>2, AppendIsConcat
<1>5. Contents(Disk, a) = Append(Versions, Exec(op1, Final))
  BY <1>0, ContentsAppend DEF Final, a
<1> DEFINE w == Append(Versions, Exec(op1, Final))
<1>6. w[Len(w)] = Exec(op1, Final)
  BY <1>0
<1>7. Versions' = Contents(Disk, Append(a, op2))
  <2>1. Versions' = Contents(Disk', Backlog') /\ Disk' = Disk
    BY DEF Versions, Disk, dbVars
  <2> QED
    BY <1>4, <2>1
<1>8. Versions' = Append(w, Exec(op2, w[Len(w)]))
  BY <1>0, <1>2, <1>5, <1>7, ContentsAppend
<1> QED
  BY <1>6, <1>8

\* The first content is the one on disk.
LEMMA VersionsFirst == TypeOK => Versions[1] = Disk /\ 1 \in 1 .. Len(Versions)
<1> SUFFICES ASSUME TypeOK PROVE Versions[1] = Disk /\ 1 \in 1 .. Len(Versions)
  OBVIOUS
<1>1. /\ Versions = Contents(Disk, Backlog) /\ Backlog \in Seq(Op)
      /\ Len(Versions) = Len(Backlog) + 1
  BY VersionsAre
<1>2. Contents(Disk, Backlog)[1] = Disk
  BY <1>1, ContentsAre
<1> QED
  BY <1>1, <1>2

\* Nothing is under way.
LEMMA NothingUnderWay ==
  ASSUME TypeOK, pending = <<>>, \A i \in DOMAIN toWorker : toWorker[i].kind # "op"
  PROVE  Final = Disk /\ Len(Versions) = 1 /\ Versions[1] = Disk
<1>1. Ops(toWorker) = <<>>
  BY OpsNone DEF TypeOK
<1>2. Backlog = <<>>
  BY <1>1 DEF Backlog
<1>3. Len(Versions) = 1 /\ Versions[1] = Disk
  <2>1. Versions = Contents(Disk, <<>>) /\ Len(Versions) = Len(<<>>) + 1 /\ <<>> \in Seq(Op)
    BY <1>2, VersionsAre
  <2>2. Contents(Disk, <<>>)[1] = Disk
    BY <2>1, ContentsAre
  <2> QED
    BY <2>1, <2>2
<1> QED
  BY <1>3 DEF Final
\* The rows on their way to the model.
Arriving == {Datum(toUi[i].row) : i \in Of("entry")}

\* In every content, now or to come, one row for each URL.
Goods == \A n \in 1 .. Len(Versions) : Good(Versions[n].history)

\* One entry for each URL, when the rows on their way have arrived.
Distinct ==
  /\ Unique(entries)
  /\ \A j \in Of("entry") :
       /\ Without(entries, toUi[j].row.url)
       /\ \A i \in Of("entry") : toUi[i].row.url = toUi[j].row.url => i = j

\* The model shows the last content; while it is loading, the content on disk
\* is what it has and what is on its way.
Mirror ==
  app = "running" =>
    /\ uiLoaded => Data(entries) = Data(Final.history) /\ hiddenEntries = Final.hidden
    /\ ~ uiLoaded /\ pathSet /\ ~ Fetching =>
         /\ Data(entries) \cup Arriving = Data(history)
         /\ hiddenEntries \cup {toUi[i].url : i \in Of("hidden")} = historyHidden

StoreInv == ArmInv /\ LoadInv /\ Goods /\ Distinct /\ Mirror

LEMMA StoreInit == ~ LegacyRows /\ Init => StoreInv
<1> SUFFICES ASSUME ~ LegacyRows, Init PROVE StoreInv
  OBVIOUS
<1>1. ArmInv /\ LoadInv /\ TypeOK
  BY ArmInit, LoadInit, InitType
<1>2. /\ entries = <<>> /\ toUi = <<>> /\ toWorker = <<>> /\ pending = <<>>
      /\ ~ pathSet /\ ~ uiLoaded /\ history \in InitialTables
  BY DEF Init
<1>3. Good(history)
  <2>1. Unique(history)
    BY <1>2 DEF InitialTables, Unique
  <2>2. ASSUME NEW i \in DOMAIN history PROVE history[i].domain # NoDomain
    <3>1. PICK u \in Url : history[i] \in StoredRow(u)
      BY <1>2 DEF InitialTables
    <3>2. history[i].domain = DomainOf[u]
      BY <3>1 DEF StoredRow
    <3> QED
      BY <3>2, HistoryAssumption
  <2> QED
    BY <2>1, <2>2 DEF Good
<1>4. Len(Versions) = 1 /\ Versions[1] = Disk
  BY <1>1, <1>2, NothingUnderWay
<1>5. Goods
  BY <1>3, <1>4 DEF Goods, Disk
<1>6. Distinct /\ Mirror
  BY <1>2 DEF Distinct, Mirror, Of, Unique
<1> QED
  BY <1>1, <1>5, <1>6 DEF StoreInv

LEMMA SameUrls ==
  ASSUME NEW s, NEW t, NEW u, Data(s) = Data(t), Without(s, u)
  PROVE  Without(t, u)
<1>1. \A d \in Data(s) : d.url # u
  BY DatumOf DEF Data, Without
<1> QED
  BY <1>1, DatumOf DEF Data, Without

\* A statement executed on the file the model shows.
LEMMA ExecShown ==
  ASSUME NEW op \in Op, NEW f \in File, Good(f.history), NEW s, Fresh(op, s),
         Data(s) = Data(f.history)
  PROVE  /\ Exec(op, f) \in File /\ Good(Exec(op, f).history)
         /\ Data(Exec(op, f).history) = ExecData(op, Data(s))
         /\ Exec(op, f).hidden = ExecHidden(op, f.hidden)
<1>1. f.history \in Seq(Row)
  BY DEF File
<1>2. Fresh(op, f.history)
  BY SameUrls DEF Fresh
<1>3. /\ Exec(op, f).history = ExecHistory(op, f.history)
      /\ Exec(op, f).hidden = ExecHidden(op, f.hidden)
  BY DEF Exec
<1> QED
  BY <1>1, <1>2, <1>3, ExecType, ExecHistoryData

LEMMA TailEnds ==
  ASSUME NEW T, NEW s \in Seq(T), Len(s) > 1, NEW r, r = Tail(s)
  PROVE  /\ r[Len(r)] = s[Len(s)]
         /\ \A n \in 1 .. Len(r) : n + 1 \in 1 .. Len(s) /\ r[n] = s[n + 1]
<1>1. Len(s) \in Nat /\ Len(r) = Len(s) - 1 /\ r \in Seq(T)
  OBVIOUS
<1>2. \A n \in 1 .. Len(r) : n + 1 \in 1 .. Len(s) /\ r[n] = s[n + 1]
  BY <1>1
<1>3. Len(r) \in 1 .. Len(r) /\ Len(r) + 1 = Len(s)
  BY <1>1
<1> QED
  BY <1>2, <1>3

LEMMA AppendTwice ==
  ASSUME NEW T, NEW s \in Seq(T), NEW x \in T, NEW y \in T, NEW r, r = Append(Append(s, x), y)
  PROVE  /\ r[Len(r)] = y
         /\ \A n \in 1 .. Len(r) : \/ n \in 1 .. Len(s) /\ r[n] = s[n]
                                   \/ r[n] = x
                                   \/ r[n] = y
<1> DEFINE q == Append(s, x)
<1>1. /\ q \in Seq(T) /\ Len(q) = Len(s) + 1 /\ Len(s) \in Nat /\ q[Len(s) + 1] = x
      /\ \A n \in 1 .. Len(s) : q[n] = s[n]
  OBVIOUS
<1> HIDE DEF q
<1>2. /\ Len(r) = Len(q) + 1 /\ r[Len(q) + 1] = y
      /\ \A n \in 1 .. Len(q) : r[n] = q[n]
  BY <1>1 DEF q
<1> QED
  BY <1>1, <1>2

LEMMA UserShown ==
  ASSUME TypeOK, Goods, Unique(entries), UserNext,
         Data(entries) = Data(Final.history), hiddenEntries = Final.hidden
  PROVE  /\ Goods' /\ Unique(entries')
         /\ Data(entries') = Data(Final'.history) /\ hiddenEntries' = Final'.hidden
<1>0. /\ Versions \in Seq(File) /\ Len(Versions) \in Nat \ {0}
      /\ Final \in File /\ Good(Final.history) /\ UNCHANGED <<pending, dbVars>>
  <2>1. Versions \in Seq(File) /\ Backlog \in Seq(Op) /\ Len(Versions) = Len(Backlog) + 1
    BY VersionsAre
  <2>2. Len(Versions) \in 1 .. Len(Versions)
    BY <2>1
  <2> QED
    BY <2>1, <2>2, UserGives DEF Final, Goods
<1>1. ASSUME NEW op \in Op, Mirrors(op)
      PROVE  /\ Goods' /\ Unique(entries')
             /\ Data(entries') = Data(Final'.history) /\ hiddenEntries' = Final'.hidden
  <2> DEFINE f == Exec(op, Final)
  <2>1. Versions' = Append(Versions, f)
    BY <1>0, <1>1, SendsOne DEF Mirrors
  <2>2. /\ f \in File /\ Good(f.history)
        /\ Data(f.history) = ExecData(op, Data(entries))
        /\ f.hidden = ExecHidden(op, hiddenEntries)
    BY <1>0, <1>1, ExecShown DEF Mirrors
  <2> HIDE DEF f
  <2>3. Final' = f /\ Len(Versions') = Len(Versions) + 1
    BY <1>0, <2>1, <2>2 DEF Final
  <2>4. \A n \in 1 .. Len(Versions') : Good(Versions'[n].history)
    BY <1>0, <2>1, <2>2, <2>3 DEF Goods
  <2> QED
    BY <1>1, <2>2, <2>3, <2>4 DEF Mirrors, Goods, Good, Unique
<1>2. ASSUME ClearsAll
      PROVE  /\ Goods' /\ Unique(entries')
             /\ Data(entries') = Data(Final'.history) /\ hiddenEntries' = Final'.hidden
  <2> DEFINE op1 == [type |-> "ClearHistory"]
             op2 == [type |-> "ClearHistoryHidden"]
             f == Exec(op1, Final)
             g == Exec(op2, f)
  <2>1. op1 \in Op /\ op2 \in Op
    BY DEF Op
  <2>2. f.history = <<>> /\ g.history = <<>> /\ g.hidden = {}
    BY DEF Exec, ExecHistory, ExecHidden
  <2>3. f \in File /\ g \in File
    BY <1>0, <2>1, ExecType
  <2>4. Versions' = Append(Append(Versions, f), g)
    BY <1>0, <1>2, <2>1, SendsTwo DEF ClearsAll
  <2> HIDE DEF f, g, op1, op2
  <2>5. /\ Final' = g
        /\ \A n \in 1 .. Len(Versions') : \/ n \in 1 .. Len(Versions) /\ Versions'[n] = Versions[n]
                                          \/ Versions'[n] = f
                                          \/ Versions'[n] = g
    <3>1. \A r : r = Append(Append(Versions, f), g) =>
            /\ r[Len(r)] = g
            /\ \A n \in 1 .. Len(r) : \/ n \in 1 .. Len(Versions) /\ r[n] = Versions[n]
                                      \/ r[n] = f
                                      \/ r[n] = g
      BY <1>0, <2>3, AppendTwice
    <3>2. /\ Versions'[Len(Versions')] = g
          /\ \A n \in 1 .. Len(Versions') : \/ n \in 1 .. Len(Versions) /\ Versions'[n] = Versions[n]
                                            \/ Versions'[n] = f
                                            \/ Versions'[n] = g
      BY <2>4, <3>1, Zenon
    <3>3. Final' = g
      BY <3>2 DEF Final
    <3> QED
      BY <3>2, <3>3, Zenon
  <2>6. Good(<<>>) /\ Unique(<<>>) /\ Data(<<>>) = {}
    BY DEF Good, Unique, Data
  <2>7. ASSUME NEW n \in 1 .. Len(Versions') PROVE Good(Versions'[n].history)
    BY <2>2, <2>5, <2>6 DEF Goods
  <2> QED
    BY <1>2, <2>2, <2>5, <2>6, <2>7 DEF ClearsAll, Goods, Good, Unique
<1> QED
  BY <1>1, <1>2, UserMirrors

\* The contents left after an execution, or a stop, were there before.
LEMMA GoodsKept ==
  ASSUME TypeOK, Goods, Versions' = Versions \/ WB!Persist \/ WB!Lose
  PROVE  /\ Goods'
         /\ Versions' = Versions \/ WB!Persist => Final' = Final
<1>1. /\ Versions \in Seq(File) /\ Len(Versions) \in Nat \ {0}
  <2>1. Versions \in Seq(File) /\ Backlog \in Seq(Op) /\ Len(Versions) = Len(Backlog) + 1
    BY VersionsAre
  <2> QED
    BY <2>1
<1>2. CASE Versions' = Versions
  BY <1>2 DEF Goods, Good, Unique, Final
<1>3. CASE WB!Persist
  <2>1. /\ Versions'[Len(Versions')] = Versions[Len(Versions)]
        /\ \A n \in 1 .. Len(Versions') :
             n + 1 \in 1 .. Len(Versions) /\ Versions'[n] = Versions[n + 1]
    BY <1>1, <1>3, TailEnds DEF WB!Persist
  <2>2. Final' = Final
    BY <2>1 DEF Final
  <2>3. \A n \in 1 .. Len(Versions') : Good(Versions'[n].history)
    BY <2>1 DEF Goods
  <2> QED
    BY <2>2, <2>3 DEF Goods, Good, Unique
<1>4. CASE WB!Lose /\ Versions' # Versions /\ ~ WB!Persist
  <2>1. PICK n \in 1 .. Len(Versions) : Versions' = SubSeq(Versions, 1, n)
    BY <1>4 DEF WB!Lose
  <2>2. \A i \in 1 .. Len(Versions') : i \in 1 .. Len(Versions) /\ Versions'[i] = Versions[i]
    BY <1>1, <2>1
  <2>3. \A i \in 1 .. Len(Versions') : Good(Versions'[i].history)
    BY <2>2 DEF Goods
  <2> QED
    BY <1>4, <2>3 DEF Goods, Good, Unique
<1> QED
  BY <1>2, <1>3, <1>4
\* What is left on its way to the model when it has received a signal.
LEMMA DeliverRest ==
  ASSUME TypeOK, NEW kind, Deliver(kind)
  PROVE  /\ toUi[1].kind = kind /\ 1 \in DOMAIN toUi /\ Head(toUi) = toUi[1]
         /\ \A i \in DOMAIN toUi' : /\ i + 1 \in DOMAIN toUi /\ i + 1 # 1
                                    /\ toUi'[i] = toUi[i + 1]
         /\ \A i \in DOMAIN toUi : i # 1 => i - 1 \in DOMAIN toUi' /\ toUi[i] = toUi'[i - 1]
         /\ \A i, j \in DOMAIN toUi' : i + 1 = j + 1 => i = j
<1>1. /\ toUi \in Seq(UiEvent) /\ toUi # <<>> /\ toUi' = Tail(toUi) /\ Head(toUi).kind = kind
  BY DEF Deliver, TypeOK
<1> DEFINE q == toUi'
<1>2. /\ Head(toUi) = toUi[1] /\ Len(toUi) \in Nat \ {0} /\ DOMAIN toUi = 1 .. Len(toUi)
      /\ DOMAIN q = 1 .. Len(toUi) - 1
      /\ \A i \in 1 .. Len(toUi) - 1 : q[i] = toUi[i + 1]
  BY <1>1
<1> HIDE DEF q
<1>3. /\ \A i \in DOMAIN q : i + 1 \in DOMAIN toUi /\ i + 1 # 1 /\ q[i] = toUi[i + 1]
      /\ \A i, j \in DOMAIN q : i + 1 = j + 1 => i = j
  BY <1>2
<1>4. ASSUME NEW i \in DOMAIN toUi, i # 1 PROVE i - 1 \in DOMAIN q /\ toUi[i] = q[i - 1]
  <2>1. i - 1 \in 1 .. Len(toUi) - 1 /\ (i - 1) + 1 = i
    BY <1>2, <1>4
  <2> QED
    BY <1>2, <2>1
<1>5. toUi[1].kind = kind /\ 1 \in DOMAIN toUi
  BY <1>1, <1>2
<1>6. \A i \in DOMAIN toUi : i # 1 => i - 1 \in DOMAIN q /\ toUi[i] = q[i - 1]
  BY <1>4
<1>7. Head(toUi) = toUi[1]
  BY <1>2
<1> QED
  BY <1>3, <1>5, <1>6, <1>7, Zenon DEF q

\* The same for each kind of signal.
LEMMA DeliverKinds ==
  ASSUME TypeOK, NEW kind, Deliver(kind)
  PROVE  /\ kind = "hidden" => /\ {toUi[i].url : i \in Of("hidden")} =
                                    {Head(toUi).url} \cup {toUi'[i].url : i \in Of("hidden")'}
                               /\ Arriving = Arriving'
         /\ kind = "entry" => /\ Arriving = {Datum(Head(toUi).row)} \cup Arriving'
                              /\ {toUi[i].url : i \in Of("hidden")} =
                                   {toUi'[i].url : i \in Of("hidden")'}
<1>1. /\ toUi[1].kind = kind /\ 1 \in DOMAIN toUi /\ Head(toUi) = toUi[1]
      /\ \A i \in DOMAIN toUi' : i + 1 \in DOMAIN toUi /\ i + 1 # 1 /\ toUi'[i] = toUi[i + 1]
      /\ \A i \in DOMAIN toUi : i # 1 => i - 1 \in DOMAIN toUi' /\ toUi[i] = toUi'[i - 1]
  BY DeliverRest
<1> DEFINE H == {toUi[i].url : i \in {j \in DOMAIN toUi : toUi[j].kind = "hidden"}}
           Hn == {toUi'[i].url : i \in {j \in DOMAIN toUi' : toUi'[j].kind = "hidden"}}
           A == {Datum(toUi[i].row) : i \in {j \in DOMAIN toUi : toUi[j].kind = "entry"}}
           An == {Datum(toUi'[i].row) : i \in {j \in DOMAIN toUi' : toUi'[j].kind = "entry"}}
<1>2. /\ H = {toUi[i].url : i \in Of("hidden")} /\ Hn = {toUi'[i].url : i \in Of("hidden")'}
      /\ A = Arriving /\ An = Arriving'
  BY DEF Of, Arriving, Datum
<1>3. CASE kind = "hidden"
  <2>1. H = {toUi[1].url} \cup Hn
    BY <1>1, <1>3
  <2>2. A = An
    BY <1>1, <1>3
  <2> QED
    BY <1>1, <1>2, <1>3, <2>1, <2>2
<1>4. CASE kind = "entry"
  <2>1. A = {Datum(toUi[1].row)} \cup An
    BY <1>1, <1>4
  <2>2. H = Hn
    BY <1>1, <1>4
  <2> QED
    BY <1>1, <1>2, <1>4, <2>1, <2>2
<1> QED
  BY <1>3, <1>4

LEMMA UiShown ==
  ASSUME StoreInv, UiNext, LoadInv'
  PROVE  Distinct' /\ Mirror'
<1>0. TypeOK /\ LoadInv
  BY DEF StoreInv, LoadInv, SortInv
<1>1. CASE SetDatabasePath
  <2>1. /\ toUi' = <<>> /\ entries' = <<>> /\ ~ uiLoaded' /\ toWorker = <<>>
    BY <1>0, <1>1 DEF SetDatabasePath, LoadInv, SortInv, EmptyUnset, Unset
  <2>2. toWorker' = <<[kind |-> "reset"], [kind |-> "fetch"]>>
    BY <1>1, <2>1 DEF SetDatabasePath
  <2>3. Fetching'
    BY <2>2 DEF Fetching
  <2> QED
    BY <2>1, <2>3 DEF Distinct, Mirror, Of, Unique
<1>2. CASE OnHiddenEntryFetched \/ OnEntryFetched \/ OnLoaded
  <2>1. PICK kind : /\ Deliver(kind)
                    /\ kind = "hidden" => OnHiddenEntryFetched
                    /\ kind = "entry" => OnEntryFetched
                    /\ kind = "loaded" => OnLoaded
                    /\ kind \in {"hidden", "entry", "loaded"}
    BY <1>2 DEF OnHiddenEntryFetched, OnEntryFetched, OnLoaded
  <2>2. /\ toUi[1].kind = kind /\ 1 \in DOMAIN toUi /\ Head(toUi) = toUi[1]
        /\ \A i \in DOMAIN toUi' : i + 1 \in DOMAIN toUi /\ i + 1 # 1 /\ toUi'[i] = toUi[i + 1]
        /\ \A i, j \in DOMAIN toUi' : i + 1 = j + 1 => i = j
    BY <1>0, <2>1, DeliverRest
  <2>3. /\ toUi # <<>> /\ UNCHANGED <<toWorker, pathSet, pending, dbVars>> /\ app = "running"
    BY <2>1 DEF Deliver, workerVars
  <2>4. ~ uiLoaded /\ ~ Fetching /\ pathSet /\ ~ Fetching'
    <3>1. ~ uiLoaded /\ ~ Fetching
      BY <1>0, <2>3, WhileLoading
    <3> QED
      BY <1>0, <2>3, <3>1 DEF Fetching, LoadInv, SortInv, EmptyUnset
  <2>5. /\ Data(entries) \cup Arriving = Data(history)
        /\ hiddenEntries \cup {toUi[i].url : i \in Of("hidden")} = historyHidden
    BY <2>3, <2>4 DEF StoreInv, Mirror
  <2>6. \A j \in Of("entry")' :
          /\ Without(entries, toUi'[j].row.url)
          /\ \A i \in Of("entry")' : toUi'[i].row.url = toUi'[j].row.url => i = j
    <3> SUFFICES ASSUME NEW j \in DOMAIN toUi', toUi'[j].kind = "entry"
                 PROVE  /\ Without(entries, toUi'[j].row.url)
                        /\ \A i \in DOMAIN toUi' :
                             /\ toUi'[i].kind = "entry"
                             /\ toUi'[i].row.url = toUi'[j].row.url
                             => i = j
      BY DEF Of
    <3>1. j + 1 \in DOMAIN toUi /\ toUi[j + 1].kind = "entry" /\ toUi'[j] = toUi[j + 1]
      BY <2>2
    <3>2. /\ Without(entries, toUi[j + 1].row.url)
          /\ \A i \in DOMAIN toUi :
               toUi[i].kind = "entry" /\ toUi[i].row.url = toUi[j + 1].row.url => i = j + 1
      BY <3>1 DEF StoreInv, Distinct, Of
    <3> QED
      BY <2>2, <3>1, <3>2
  <2>7. UNCHANGED <<history, historyHidden>>
    BY <2>3 DEF dbVars
  <2>8. CASE kind = "hidden"
    <3>1. /\ UNCHANGED <<uiLoaded, entries>> /\ hiddenEntries' = hiddenEntries \cup {Head(toUi).url}
      BY <2>1, <2>8 DEF OnHiddenEntryFetched
    <3>2. Distinct'
      BY <2>6, <3>1 DEF StoreInv, Distinct, Unique, Without
    <3>3. /\ {toUi[i].url : i \in Of("hidden")} =
               {Head(toUi).url} \cup {toUi'[i].url : i \in Of("hidden")'}
          /\ Arriving = Arriving'
      BY <1>0, <2>1, <2>8, DeliverKinds
    <3>4. /\ Data(entries') \cup Arriving' = Data(history')
          /\ hiddenEntries' \cup {toUi'[i].url : i \in Of("hidden")'} = historyHidden'
      BY <2>5, <2>7, <3>1, <3>3
    <3> QED
      BY <2>4, <3>1, <3>2, <3>4 DEF Mirror, Data, Datum
  <2>9. CASE kind = "entry"
    <3> DEFINE r == Head(toUi).row
               e == [url |-> r.url, domain |-> FetchedDomain(r), title |-> r.title,
                     visits |-> r.visits, lastVisit |-> r.lastVisit,
                     hidden |-> r.url \in hiddenEntries]
    <3>1. entries' = Append(entries, e) /\ UNCHANGED <<uiLoaded, hiddenEntries>>
      BY <2>1, <2>9 DEF OnEntryFetched
    <3>2. 1 \in Of("entry") /\ r = toUi[1].row
      BY <2>2, <2>9 DEF Of
    <3>3. /\ {toUi[i].url : i \in Of("hidden")} = {toUi'[i].url : i \in Of("hidden")'}
          /\ Arriving = {Datum(r)} \cup Arriving'
      BY <1>0, <2>1, <2>9, DeliverKinds
    <3> HIDE DEF r
    <3>4. r.domain # NoDomain
      <4>1. Datum(r) \in Data(history)
        BY <2>5, <3>3
      <4>2. PICK k \in DOMAIN history : Datum(r) = Datum(history[k])
        BY <4>1 DEF Data
      <4>3. r.domain = history[k].domain
        BY <4>2, DatumOf
      <4>4. Good(history)
        <5>1. Versions[1] = Disk /\ 1 \in 1 .. Len(Versions)
          BY <1>0, VersionsFirst
        <5> QED
          BY <5>1 DEF StoreInv, Goods, Disk
      <4> QED
        BY <4>3, <4>4 DEF Good
    <3>5. Datum(e) = Datum(r) /\ e.url = r.url
      BY <3>4 DEF Datum, FetchedDomain
    <3> HIDE DEF e
    <3>6. /\ Without(entries, r.url)
          /\ \A i \in Of("entry") : toUi[i].row.url = r.url => i = 1
      BY <3>2 DEF StoreInv, Distinct
    <3>7. /\ Data(entries') = Data(entries) \cup {Datum(e)} /\ Unique(entries')
      <4>1. entries \in Seq(Entry) /\ Unique(entries)
        BY <1>0 DEF TypeOK, StoreInv, Distinct
      <4> QED
        BY <3>1, <3>5, <3>6, <4>1, DataAppend
    <3>8. ASSUME NEW j \in Of("entry")' PROVE Without(entries', toUi'[j].row.url)
      <4>1. /\ toUi'[j].row.url # r.url
        <5>1. j + 1 \in Of("entry") /\ j + 1 # 1 /\ toUi'[j] = toUi[j + 1]
          BY <2>2, <3>8 DEF Of
        <5> QED
          BY <3>6, <5>1
      <4>2. Without(entries, toUi'[j].row.url)
        BY <2>6, <3>8
      <4>3. \A i \in DOMAIN entries' : entries'[i] = e \/ \E k \in DOMAIN entries : entries'[i] = entries[k]
        <5>1. entries \in Seq(Entry)
          BY <1>0 DEF TypeOK
        <5> QED
          BY <3>1, <5>1
      <4> QED
        BY <3>5, <4>1, <4>2, <4>3 DEF Without
    <3>9. Distinct'
      BY <2>6, <3>7, <3>8 DEF Distinct, Unique, Without
    <3>10. /\ Data(entries') \cup Arriving' = Data(history')
           /\ hiddenEntries' \cup {toUi'[i].url : i \in Of("hidden")'} = historyHidden'
      BY <2>5, <2>7, <3>1, <3>3, <3>5, <3>7
    <3> QED
      BY <2>4, <3>1, <3>9, <3>10 DEF Mirror, Data, Datum
  <2>10. CASE kind = "loaded"
    <3>1. uiLoaded' = TRUE /\ UNCHANGED <<entries, hiddenEntries>>
      BY <2>1, <2>10 DEF OnLoaded
    <3>2. toUi' = <<>>
      BY <3>1 DEF LoadInv, LoadedLast
    <3>3. Of("entry") = {} /\ Of("hidden") = {}
      <4>1. DOMAIN toUi = {1}
        <5>1. 1 = Len(toUi)
          BY <1>0, <2>2, <2>10 DEF LoadInv, LoadedLast
        <5> QED
          BY <1>0, <5>1 DEF TypeOK
      <4> QED
        BY <2>2, <2>10, <4>1 DEF Of
    <3>4. Data(entries) = Data(history) /\ hiddenEntries = historyHidden
      BY <2>5, <3>3 DEF Arriving
    <3>5. Final = Disk
      BY <1>0, <2>4, NothingUnderWay DEF LoadInv, WaitsToLoad
    <3>6. Final' = Final
      <4>1. Versions' = Versions
        BY <1>2, UiFile DEF StoreInv, UiNext
      <4> QED
        BY <4>1 DEF Final
    <3>7. Data(entries') = Data(Final'.history) /\ hiddenEntries' = Final'.hidden
      BY <3>1, <3>4, <3>5, <3>6 DEF Disk
    <3>8. Distinct'
      BY <3>1, <3>2 DEF StoreInv, Distinct, Of, Unique
    <3> QED
      BY <3>1, <3>7, <3>8 DEF Mirror, Data, Datum
  <2> QED
    BY <2>1, <2>8, <2>9, <2>10
<1> QED
  BY <1>1, <1>2 DEF UiNext
\* What the fetch sends is the table.
LEMMA FetchShown ==
  ASSUME StoreInv, DoFetchEntries
  PROVE  /\ Arriving' = Data(history) /\ {toUi'[i].url : i \in Of("hidden")'} = historyHidden
         /\ \A i, j \in Of("entry")' : toUi'[i].row.url = toUi'[j].row.url => i = j
<1>0. SortInv /\ TypeOK
  BY DEF StoreInv, LoadInv, SortInv
<1>16. PICK n \in Nat, m \in Nat : \E h, p : Listing(toUi', n, m, h, p)
  BY <1>0, FetchSends
<1>1. PICK h, p : Listing(toUi', n, m, h, p)
  BY <1>16
<1> DEFINE q == toUi'
           E == {i \in DOMAIN q : q[i].kind = "entry"}
           H == {i \in DOMAIN q : q[i].kind = "hidden"}
<1>2. Of("entry")' = E /\ Of("hidden")' = H
  BY DEF Of
<1>3. Arriving' = {Datum(q[i].row) : i \in E}
  BY DEF Arriving, Of, Datum
<1>4. Listing(q, n, m, h, p)
  BY <1>1
<1> HIDE DEF q
<1>5. /\ DOMAIN q = 1 .. n + m + 1
      /\ \A i \in DOMAIN q : /\ q[i].kind = "hidden" <=> i \in 1 .. n
                             /\ q[i].kind = "entry" <=> i - n \in 1 .. m
  BY <1>4, ListingKinds
<1>6. /\ \A i \in 1 .. n : q[i] = [kind |-> "hidden", url |-> h[i]]
      /\ historyHidden = {h[i] : i \in 1 .. n}
  BY <1>4 DEF Listing
<1>7. \A i \in 1 .. m : q[n + i].row = history[p[i]]
  <2> SUFFICES ASSUME NEW i \in 1 .. m PROVE q[n + i].row = history[p[i]]
    OBVIOUS
  <2>1. q[n + i] = [kind |-> "entry", row |-> history[p[i]]]
    BY <1>4 DEF Listing
  <2> QED
    BY <2>1
<1>8. /\ DOMAIN history = 1 .. m /\ p \in [1 .. m -> 1 .. m]
      /\ \A i, j \in 1 .. m : p[i] = p[j] => i = j
      /\ \A j \in 1 .. m : \E i \in 1 .. m : p[i] = j
  BY <1>4 DEF Listing
<1>9. H = 1 .. n
  BY <1>5
<1>10. {q[i].url : i \in H} = historyHidden
  <2>1. \A i \in 1 .. n : q[i].url = h[i]
    <3> SUFFICES ASSUME NEW i \in 1 .. n PROVE q[i].url = h[i]
      OBVIOUS
    <3>1. q[i] = [kind |-> "hidden", url |-> h[i]]
      BY <1>6
    <3> QED
      BY <3>1
  <2> QED
    BY <1>6, <1>9, <2>1
<1>11. ASSUME NEW i \in E
       PROVE  i - n \in 1 .. m /\ i = n + (i - n) /\ q[i].row = history[p[i - n]]
  <2>1. i - n \in 1 .. m /\ i = n + (i - n)
    BY <1>5
  <2> QED
    BY <1>7, <2>1
<1>12. ASSUME NEW j \in 1 .. m PROVE n + j \in E /\ q[n + j].row = history[p[j]]
  <2>1. n + j \in DOMAIN q /\ (n + j) - n = j
    BY <1>5
  <2> QED
    BY <1>5, <1>7, <2>1
<1>13. {Datum(q[i].row) : i \in E} = Data(history)
  <2>1. ASSUME NEW d \in Data(history) PROVE d \in {Datum(q[i].row) : i \in E}
    <3>1. PICK j \in 1 .. m : d = Datum(history[j])
      BY <1>8 DEF Data
    <3>2. PICK i \in 1 .. m : p[i] = j
      BY <1>8
    <3>3. n + i \in E /\ q[n + i].row = history[j]
      BY <1>12, <3>2
    <3> QED
      BY <3>1, <3>3
  <2>2. ASSUME NEW i \in E PROVE Datum(q[i].row) \in Data(history)
    <3>1. i - n \in 1 .. m /\ q[i].row = history[p[i - n]]
      BY <1>11
    <3>2. p[i - n] \in DOMAIN history
      BY <1>8, <3>1
    <3> QED
      BY <3>1, <3>2 DEF Data
  <2> QED
    BY <2>1, <2>2
<1>14. ASSUME NEW i \in E, NEW j \in E, q[i].row.url = q[j].row.url PROVE i = j
  <2>1. Unique(history)
    BY <1>0, VersionsFirst DEF StoreInv, Goods, Disk, Good
  <2>2. /\ i - n \in 1 .. m /\ i = n + (i - n) /\ q[i].row = history[p[i - n]]
        /\ j - n \in 1 .. m /\ j = n + (j - n) /\ q[j].row = history[p[j - n]]
    BY <1>11
  <2>3. p[i - n] \in DOMAIN history /\ p[j - n] \in DOMAIN history
    BY <1>8, <2>2
  <2>4. p[i - n] = p[j - n]
    BY <1>14, <2>1, <2>2, <2>3 DEF Unique
  <2>5. i - n = j - n
    BY <1>8, <2>2, <2>4
  <2> QED
    BY <2>2, <2>5
<1>15. /\ Arriving' = Data(history) /\ {q[i].url : i \in Of("hidden")'} = historyHidden
       /\ \A i, j \in Of("entry")' : q[i].row.url = q[j].row.url => i = j
  BY <1>2, <1>3, <1>10, <1>13, <1>14
<1> QED
  BY <1>15 DEF q

\* The steps that leave the model and what is on its way alone.
LEMMA SameShown ==
  ASSUME StoreInv, LoadInv', UNCHANGED <<pathSet, uiLoaded, entries, hiddenEntries, toUi>>,
         app' = "running" => app = "running",
         Fetching => Fetching',
         app' = "running" => Final' = Final,
         ~ uiLoaded => UNCHANGED dbVars
  PROVE  Distinct' /\ Mirror'
<1>1. Of("entry")' = Of("entry") /\ Of("hidden")' = Of("hidden") /\ Arriving' = Arriving
  BY DEF Of, Arriving, Datum
<1>2. Distinct'
  BY <1>1 DEF StoreInv, Distinct, Unique, Without
<1>3. ASSUME app' = "running", uiLoaded'
      PROVE  Data(entries') = Data(Final'.history) /\ hiddenEntries' = Final'.hidden
  <2>1. Final' = Final /\ app = "running" /\ uiLoaded
    BY <1>3
  <2> QED
    BY <2>1 DEF StoreInv, Mirror
<1>4. ASSUME app' = "running", ~ uiLoaded', pathSet', ~ Fetching'
      PROVE  /\ Data(entries') \cup Arriving' = Data(history')
             /\ hiddenEntries' \cup {toUi'[i].url : i \in Of("hidden")'} = historyHidden'
  BY <1>1, <1>4 DEF StoreInv, Mirror, dbVars
<1>5. Mirror'
  BY <1>3, <1>4 DEF Mirror, Data, Datum
<1> QED
  BY <1>2, <1>5

LEMMA WorkerShown ==
  ASSUME ~ Failures, StoreInv, WorkerNext, LoadInv', Goods',
         Versions' = Versions \/ WB!Persist => Final' = Final
  PROVE  Distinct' /\ Mirror'
<1>0. TypeOK /\ LoadInv
  BY DEF StoreInv, LoadInv, SortInv
<1>1. CASE DoFetchEntries
  <2>1. /\ toUi = <<>> /\ UNCHANGED <<uiVars, pending, dbVars, app>>
    BY <1>0, <1>1, FetchSends DEF LoadInv
  <2>2. ~ uiLoaded /\ entries = <<>> /\ hiddenEntries = {}
    <3>1. Fetching
      <4>1. toWorker \in Seq(WorkerEvent) /\ toWorker # <<>> /\ Head(toWorker).kind = "fetch"
        BY <1>0, <1>1 DEF DoFetchEntries, Dispatch, TypeOK
      <4>2. 1 \in DOMAIN toWorker /\ toWorker[1].kind = "fetch"
        BY <4>1
      <4> QED
        BY <4>2 DEF Fetching
    <3> QED
      BY <1>0, <3>1 DEF LoadInv, FetchedIntoEmpty
  <2>3. /\ Arriving' = Data(history) /\ {toUi'[i].url : i \in Of("hidden")'} = historyHidden
        /\ \A i, j \in Of("entry")' : toUi'[i].row.url = toUi'[j].row.url => i = j
    BY <1>1, FetchShown
  <2>4. ~ uiLoaded' /\ entries' = <<>> /\ hiddenEntries' = {} /\ UNCHANGED <<history, historyHidden>>
    BY <2>1, <2>2 DEF uiVars, dbVars
  <2>5. Distinct'
    BY <2>3, <2>4 DEF Distinct, Unique, Without
  <2>6. Data(entries') = {}
    BY <2>4 DEF Data
  <2>7. /\ Data(entries') \cup Arriving' = Data(history')
        /\ hiddenEntries' \cup {toUi'[i].url : i \in Of("hidden")'} = historyHidden'
    BY <2>3, <2>4, <2>6
  <2> QED
    BY <2>4, <2>5, <2>7 DEF Mirror, Data, Datum
<1>2. CASE ThreadFinish
  <2>1. UNCHANGED <<pathSet, uiLoaded, entries, hiddenEntries, toUi>> /\ app' # "running"
    BY <1>2 DEF ThreadFinish, uiVars
  <2> QED
    BY <2>1 DEF StoreInv, Distinct, Mirror, Of, Unique, Without
<1>3. CASE Exit
  BY <1>3 DEF Exit, Volatile, Distinct, Mirror, Of, Unique
<1>4. CASE DoResetDatabase \/ DoEnqueue
  <2>1. /\ UNCHANGED <<app, pathSet, uiLoaded, entries, hiddenEntries, toUi, dbVars>>
        /\ toWorker' = Tail(toWorker) /\ toWorker # <<>> /\ Head(toWorker).kind # "fetch"
    BY <1>4 DEF DoResetDatabase, DoEnqueue, Dispatch, uiVars
  <2>2. Fetching => Fetching'
    <3> SUFFICES ASSUME NEW i \in DOMAIN toWorker, toWorker[i].kind = "fetch" PROVE Fetching'
      BY DEF Fetching
    <3>1. /\ toWorker \in Seq(WorkerEvent) /\ Head(toWorker) = toWorker[1]
          /\ DOMAIN toWorker = 1 .. Len(toWorker) /\ Len(toWorker) \in Nat \ {0}
          /\ DOMAIN toWorker' = 1 .. Len(toWorker) - 1
          /\ \A j \in 1 .. Len(toWorker) - 1 : toWorker'[j] = toWorker[j + 1]
      BY <1>0, <2>1 DEF TypeOK
    <3>2. i - 1 \in 1 .. Len(toWorker) - 1 /\ (i - 1) + 1 = i
      BY <2>1, <3>1
    <3>3. i - 1 \in DOMAIN toWorker' /\ toWorker'[i - 1].kind = "fetch"
      BY <3>1, <3>2
    <3> QED
      BY <3>3 DEF Fetching
  <2>3. app' = "running" => Final' = Final
    BY <1>0, WorkerFile
  <2> QED
    BY <2>1, <2>2, <2>3, SameShown
<1>5. CASE FlushTimeout \/ FlushEnd \/ FlushNext
  <2>1. UNCHANGED <<app, pathSet, uiLoaded, entries, hiddenEntries, toUi, toWorker>>
    BY <1>5 DEF FlushTimeout, FlushEnd, FlushNext, uiVars
  <2>2. Fetching => Fetching'
    BY <2>1 DEF Fetching
  <2>3. app' = "running" => Final' = Final
    BY <1>0, WorkerFile
  <2>4. ~ uiLoaded => UNCHANGED dbVars
    BY <1>0, <1>5 DEF LoadInv, WaitsToLoad, FlushTimeout, FlushEnd, FlushNext
  <2> QED
    BY <2>1, <2>2, <2>3, <2>4, SameShown
<1> QED
  BY <1>1, <1>2, <1>3, <1>4, <1>5 DEF WorkerNext, FlushFails

LEMMA NextStore == ~ EarlyUse /\ ~ Failures /\ StoreInv /\ [Next]_vars => StoreInv'
<1> SUFFICES ASSUME ~ EarlyUse, ~ Failures, StoreInv, [Next]_vars PROVE StoreInv'
  OBVIOUS
<1>0. ArmInv /\ LoadInv /\ TypeOK /\ ArmInv' /\ LoadInv'
  BY NextArm, NextLoad DEF StoreInv, ArmInv
<1>1. CASE UserNext
  <2>1. /\ app = "running" /\ uiLoaded /\ UNCHANGED <<app, uiLoaded, toUi>>
    BY <1>0, <1>1, CommandSends DEF Command, LoadInv, SortInv
  <2>2. toUi' = <<>>
    BY <1>0, <2>1 DEF LoadInv, LoadedLast
  <2>3. Data(entries) = Data(Final.history) /\ hiddenEntries = Final.hidden /\ Unique(entries)
    BY <2>1 DEF StoreInv, Mirror, Distinct
  <2>4. /\ Goods' /\ Unique(entries')
        /\ Data(entries') = Data(Final'.history) /\ hiddenEntries' = Final'.hidden
    BY <1>0, <1>1, <2>3, UserShown DEF StoreInv
  <2>5. Distinct'
    BY <2>2, <2>4 DEF Distinct, Of, Unique
  <2>6. Mirror'
    BY <2>1, <2>4 DEF Mirror, Data, Datum
  <2> QED
    BY <1>0, <2>4, <2>5, <2>6 DEF StoreInv
<1>2. CASE ~ UserNext
  <2>1. Versions' = Versions \/ WB!Persist \/ WB!Lose
    BY <1>0, <1>2, NextFile
  <2>2. Goods' /\ (Versions' = Versions \/ WB!Persist => Final' = Final)
    BY <1>0, <2>1, GoodsKept DEF StoreInv
  <2>3. CASE UiNext
    BY <1>0, <2>2, <2>3, UiShown DEF StoreInv
  <2>4. CASE WorkerNext
    BY <1>0, <2>2, <2>4, WorkerShown DEF StoreInv
  <2>5. CASE Crash \/ Start
    <3>1. Distinct' /\ Mirror'
      BY <2>5 DEF Crash, Start, Volatile, Distinct, Mirror, Of, Unique
    <3> QED
      BY <1>0, <2>2, <3>1 DEF StoreInv
  <2>6. CASE Quit \/ Tick \/ UNCHANGED vars
    <3>1. /\ UNCHANGED <<pathSet, uiLoaded, entries, hiddenEntries, toUi, toWorker, pending, dbVars>>
          /\ app' = "running" => app = "running"
      BY <2>6 DEF Quit, Tick, vars, uiVars, workerVars, dbVars
    <3>2. Final' = Final /\ (Fetching => Fetching')
      <4>1. Backlog' = Backlog
        BY <3>1 DEF Backlog
      <4>2. Versions' = Versions
        BY <1>0, <3>1, <4>1, SameVersions
      <4> QED
        BY <3>1, <4>2 DEF Final, Fetching
    <3>3. Distinct' /\ Mirror'
      BY <1>0, <3>1, <3>2, SameShown
    <3> QED
      BY <1>0, <2>2, <3>3 DEF StoreInv
  <2> QED
    BY <1>2, <2>3, <2>4, <2>5, <2>6 DEF Next
<1> QED
  BY <1>1, <1>2

\* The data determine what ShownIsStored compares.
LEMMA ShownFromData ==
  ASSUME NEW S, NEW T, NEW s \in Seq(S), NEW t \in Seq(T), Unique(s), Unique(t), Data(s) = Data(t)
  PROVE  Shown(s) = Shown(t) /\ Len(s) = Len(t)
<1> DEFINE Tuples(D) == {<<d.url, d.title, d.visits, d.lastVisit>> : d \in D}
<1>1. \A x : Shown(x) = Tuples(Data(x))
  BY DatumOf DEF Shown, Data
<1>2. Len(s) = Len(t)
  BY UniqueLength
<1> QED
  BY <1>1, <1>2

LEMMA StoreImplies == StoreInv => UniqueUrls /\ ShownIsStored
<1> SUFFICES ASSUME StoreInv PROVE UniqueUrls /\ ShownIsStored
  OBVIOUS
<1>0. /\ TypeOK /\ Versions \in Seq(File) /\ Len(Versions) \in 1 .. Len(Versions)
      /\ entries \in Seq(Entry)
  <2>1. TypeOK
    BY DEF StoreInv, ArmInv
  <2>2. Versions \in Seq(File) /\ Backlog \in Seq(Op) /\ Len(Versions) = Len(Backlog) + 1
    BY <2>1, VersionsAre
  <2> QED
    BY <2>1, <2>2 DEF TypeOK
<1>1. UniqueUrls
  BY DEF StoreInv, Distinct, Unique, UniqueUrls
<1>2. ASSUME app = "running", uiLoaded
      PROVE  /\ Shown(entries) = Shown(Final.history) /\ Len(entries) = Len(Final.history)
             /\ hiddenEntries = Final.hidden
  <2>1. Data(entries) = Data(Final.history) /\ hiddenEntries = Final.hidden
    BY <1>2 DEF StoreInv, Mirror
  <2>2. Unique(entries) /\ Unique(Final.history)
    BY <1>0 DEF StoreInv, Distinct, Goods, Good, Final
  <2>3. Final.history \in Seq(Row)
    <3>1. Final \in File
      BY <1>0 DEF Final
    <3> QED
      BY <3>1 DEF File
  <2> QED
    BY <1>0, <2>1, <2>2, <2>3, ShownFromData
<1>3. ShownIsStored
  BY <1>2 DEF ShownIsStored, Final
<1> QED
  BY <1>1, <1>3

\* "If an entry with the same URL already exists, it is updated" (add): for any
\* number of URLs and runs, when the UI waits for loaded(), the file has no row
\* of the old format and no statement fails.
THEOREM UrlsAreUnique == ~ EarlyUse /\ ~ LegacyRows /\ ~ Failures => (Spec => []UniqueUrls)
<1> SUFFICES ASSUME ~ EarlyUse, ~ LegacyRows, ~ Failures PROVE Spec => []UniqueUrls
  OBVIOUS
<1>1. Init => StoreInv
  BY StoreInit
<1>2. StoreInv /\ [Next]_vars => StoreInv'
  BY NextStore
<1>3. StoreInv => UniqueUrls
  BY StoreImplies
<1> QED
  BY <1>1, <1>2, <1>3, PTL DEF Spec

\* Under the same assumptions, once loaded() has been delivered the model shows
\* what the file will hold when the operations under way have been executed,
\* through any crashes and restarts before that (add, update, the removals,
\* clearAll, hide, unHide, doFetchEntries, doFlush).
THEOREM StoredIsShown == ~ EarlyUse /\ ~ LegacyRows /\ ~ Failures => (Spec => []ShownIsStored)
<1> SUFFICES ASSUME ~ EarlyUse, ~ LegacyRows, ~ Failures PROVE Spec => []ShownIsStored
  OBVIOUS
<1>1. Init => StoreInv
  BY StoreInit
<1>2. StoreInv /\ [Next]_vars => StoreInv'
  BY NextStore
<1>3. StoreInv => ShownIsStored
  BY StoreImplies
<1> QED
  BY <1>1, <1>2, <1>3, PTL DEF Spec
=============================================================================
