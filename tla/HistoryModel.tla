---------------------------- MODULE HistoryModel ----------------------------
(***************************************************************************)
(* The browsing history: HistoryModel on the UI thread and DbWorker on the *)
(* database thread (src/src/app/webbrowser/history-model.cpp).             *)
(*                                                                         *)
(* The two threads share no state: every call from one to the other is a   *)
(* queued signal, so there is one FIFO queue in each direction.  The       *)
(* worker gathers the operations it is sent and executes them when its     *)
(* one-second timer expires, one SQL statement at a time; a crash between  *)
(* two statements leaves on disk what was executed so far.                 *)
(***************************************************************************)
EXTENDS Integers, Sequences, FiniteSets, Selection

CONSTANTS
  Url,          \* the non-empty URLs
  Title,        \* page metadata: stands for the title and the icon
  Domain,       \* top level domain names
  DomainOf,     \* DomainUtils::extractTopLevelDomainName, as a function
  NoDomain,     \* the empty domain of rows older than the 'domain' column
  TicksPerDay,  \* length of a day, in units of the clock (seconds)
  EarlyUse,     \* may the UI act before loaded() has been delivered?
  LegacyRows,   \* may the file hold rows written before the 'domain' column?
  Failures,     \* may a statement fail (disk full, database locked)?
  MaxStored,    \* bound on the rows the file holds at first
  MaxClock, MaxOps, MaxRuns   \* bounds on time, commands and process runs

ASSUME HistoryAssumption ==
  /\ IsFiniteSet(Url)
  /\ DomainOf \in [Url -> Domain]
  /\ NoDomain \notin Domain
  /\ TicksPerDay \in Nat \ {0}
  /\ EarlyUse \in BOOLEAN /\ LegacyRows \in BOOLEAN /\ Failures \in BOOLEAN
  /\ MaxStored \in Nat
  /\ MaxClock \in Nat /\ MaxOps \in Nat /\ MaxRuns \in Nat

VARIABLES
  app,            \* the process: "running", "quitting" or "down"
  pathSet,        \* has databasePath been assigned in this run?
  uiLoaded,       \* has loaded() been delivered to the UI thread?
  entries,        \* m_entries
  hiddenEntries,  \* m_hiddenEntries
  toWorker,       \* queued signals to DbWorker
  toUi,           \* queued signals to HistoryModel
  pending,        \* DbWorker::m_pending
  flushTimer,     \* is m_flush running?
  worker,         \* what the worker thread executes
  history,        \* the table history, in rowid order
  historyHidden,  \* the table history_hidden (rows only ever matter as a set)
  clock, issued, runs

uiVars == <<pathSet, uiLoaded, entries, hiddenEntries>>
workerVars == <<pending, flushTimer, worker>>
dbVars == <<history, historyHidden>>
boundVars == <<clock, issued, runs>>
vars == <<app, uiVars, toWorker, toUi, workerVars, dbVars, boundVars>>

Time == 0 .. MaxClock
Day(t) == t \div TicksPerDay

Row == [url : Url, domain : Domain \cup {NoDomain}, title : Title,
        visits : Nat, lastVisit : Time]
Entry == [url : Url, domain : Domain, title : Title,
          visits : Nat, lastVisit : Time, hidden : BOOLEAN]

Op == [type : {"InsertNewEntry"}, url : Url, domain : Domain, title : Title,
       lastVisit : Time]
      \cup [type : {"UpdateExistingEntry"}, url : Url, domain : Domain,
            title : Title, visits : Nat, lastVisit : Time]
      \cup [type : {"RemoveEntryByUrl", "InsertNewHiddenEntry",
                    "RemoveHiddenEntryByUrl"}, url : Url]
      \cup [type : {"RemoveEntriesByDate"}, day : Nat]
      \cup [type : {"RemoveEntriesByDomain"}, domain : Domain]
      \cup [type : {"ClearHistory", "ClearHistoryHidden"}]

WorkerEvent == [kind : {"reset", "fetch"}] \cup [kind : {"op"}, op : Op]
UiEvent == [kind : {"hidden"}, url : Url] \cup [kind : {"entry"}, row : Row]
           \cup [kind : {"loaded"}]

TypeOK ==
  /\ app \in {"running", "quitting", "down"}
  /\ pathSet \in BOOLEAN /\ uiLoaded \in BOOLEAN
  /\ entries \in Seq(Entry) /\ hiddenEntries \in SUBSET Url
  /\ toWorker \in Seq(WorkerEvent) /\ toUi \in Seq(UiEvent)
  /\ pending \in Seq(Op) /\ flushTimer \in BOOLEAN
  /\ worker \in {"idle", "flushing", "closing"}
  /\ history \in Seq(Row) /\ historyHidden \in SUBSET Url
  /\ clock \in Time /\ issued \in 0 .. MaxOps /\ runs \in 0 .. MaxRuns

-----------------------------------------------------------------------------
(* Lists *)

At(s, u) == {i \in DOMAIN s : s[i].url = u}

EntryIndexMut(u) ==   \* mutant: the search stops one position too early
  IF At(entries, u) \ {Len(entries)} = {} THEN 0
  ELSE CHOOSE i \in At(entries, u) : \A j \in At(entries, u) : i <= j

\* getEntryIndex: the first position of u, or 0.
EntryIndex(u) ==
  IF At(entries, u) = {} THEN 0
  ELSE CHOOSE i \in At(entries, u) : \A j \in At(entries, u) : i <= j

RemoveByIndex(s, i) == Keep(s, DOMAIN s \ {i})

-----------------------------------------------------------------------------
(* The statements executed by doFlush *)

ExecHistory(op, t) ==
  CASE op.type = "InsertNewEntry" ->
         Append(t, [url |-> op.url, domain |-> op.domain, title |-> op.title,
                    visits |-> 1, lastVisit |-> op.lastVisit])
    [] op.type = "UpdateExistingEntry" ->
         [i \in DOMAIN t |-> IF t[i].url = op.url
            THEN [url |-> op.url, domain |-> op.domain, title |-> op.title,
                  visits |-> op.visits, lastVisit |-> op.lastVisit]
            ELSE t[i]]
    [] op.type = "RemoveEntryByUrl" ->
         Keep(t, {i \in DOMAIN t : t[i].url # op.url})
    [] op.type = "RemoveEntriesByDate" ->
         Keep(t, {i \in DOMAIN t : Day(t[i].lastVisit) # op.day})
    [] op.type = "RemoveEntriesByDomain" ->
         Keep(t, {i \in DOMAIN t : t[i].domain # op.domain})
    [] op.type = "ClearHistory" -> <<>>
    [] OTHER -> t

ExecHidden(op, h) ==
  CASE op.type = "InsertNewHiddenEntry" -> h \cup {op.url}
    [] op.type = "RemoveHiddenEntryByUrl" -> h \ {op.url}
    [] op.type = "ClearHistoryHidden" -> {}
    [] OTHER -> h

-----------------------------------------------------------------------------
(* What is on disk when the program is first started: at most one row for  *)
(* each URL.                                                               *)

StoredRow(u) ==
  [url : {u}, title : Title, visits : {1}, lastVisit : {0},
   domain : {DomainOf[u]} \cup (IF LegacyRows THEN {NoDomain} ELSE {})]

InitialTables ==
  {t \in UNION {[1 .. n -> UNION {StoredRow(u) : u \in Url}] :
                  n \in 0 .. MaxStored} :
     \A i, j \in DOMAIN t : t[i].url = t[j].url => i = j}

Volatile(state) ==   \* the memory of a process that has just started
  /\ app' = state /\ pathSet' = FALSE /\ uiLoaded' = FALSE
  /\ entries' = <<>> /\ hiddenEntries' = {}
  /\ toWorker' = <<>> /\ toUi' = <<>> /\ pending' = <<>>
  /\ flushTimer' = FALSE /\ worker' = "idle"

Init ==
  /\ app = "running" /\ pathSet = FALSE /\ uiLoaded = FALSE
  /\ entries = <<>> /\ hiddenEntries = {}
  /\ toWorker = <<>> /\ toUi = <<>> /\ pending = <<>>
  /\ flushTimer = FALSE /\ worker = "idle"
  /\ history \in InitialTables /\ historyHidden \in SUBSET Url
  /\ clock = 0 /\ issued = 0 /\ runs = 0

-----------------------------------------------------------------------------
(* The UI thread *)

\* setDatabasePath and resetDatabase; morph-browser.qml assigns the path once,
\* while it starts, before any page can have finished loading.
SetDatabasePath ==
  /\ app = "running" /\ ~pathSet
  /\ pathSet' = TRUE /\ entries' = <<>> /\ hiddenEntries' = {}
  /\ toWorker' = toWorker \o <<[kind |-> "reset"], [kind |-> "fetch"]>>
  /\ UNCHANGED <<app, uiLoaded, toUi, workerVars, dbVars, boundVars>>

\* Q_EMIT m_dbWorker->enqueue(...)
Enqueue(op) == toWorker' = Append(toWorker, [kind |-> "op", op |-> op])

Command ==
  /\ app = "running" /\ pathSet /\ (EarlyUse \/ uiLoaded)
  /\ issued < MaxOps /\ issued' = issued + 1
  /\ UNCHANGED <<app, pathSet, uiLoaded, toUi, workerVars, dbVars, clock, runs>>

UpdateOp(e) ==
  [type |-> "UpdateExistingEntry", url |-> e.url, domain |-> e.domain,
   title |-> e.title, visits |-> e.visits, lastVisit |-> e.lastVisit]

AddNew(u, t) ==
  /\ EntryIndex(u) = 0
  /\ entries' = <<[url |-> u, domain |-> DomainOf[u], title |-> t, visits |-> 1,
                   lastVisit |-> clock, hidden |-> u \in hiddenEntries]>> \o entries
  /\ Enqueue([type |-> "InsertNewEntry", url |-> u, domain |-> DomainOf[u],
              title |-> t, lastVisit |-> clock])

AddKnownMut(u, t) ==   \* mutant: the statement is built before the update
  LET i == EntryIndex(u)
      e == [entries[i] EXCEPT !.title = t, !.visits = @ + 1, !.lastVisit = clock]
  IN /\ i # 0
     /\ entries' = <<e>> \o RemoveByIndex(entries, i)
     /\ Enqueue(UpdateOp(entries[i]))

AddKnownInPlaceMut(u, t) ==   \* mutant: the entry is not moved to the front
  LET i == EntryIndex(u)
      e == [entries[i] EXCEPT !.title = t, !.visits = @ + 1, !.lastVisit = clock]
  IN /\ i # 0
     /\ entries' = [entries EXCEPT ![i] = e]
     /\ Enqueue(UpdateOp(e))

\* The entry is updated and moved to the front (it may be there already).
AddKnown(u, t) ==
  LET i == EntryIndex(u)
      e == [entries[i] EXCEPT !.title = t, !.visits = @ + 1, !.lastVisit = clock]
  IN /\ i # 0
     /\ entries' = <<e>> \o RemoveByIndex(entries, i)
     /\ Enqueue(UpdateOp(e))

Add(u, t) ==
  /\ Command
  /\ AddNew(u, t) \/ AddKnown(u, t)
  /\ UNCHANGED hiddenEntries

Update(u, t) ==
  LET i == EntryIndex(u)
      e == [entries[i] EXCEPT !.title = t]
  IN /\ Command
     /\ i # 0
     /\ entries[i].title # t
     /\ entries' = [entries EXCEPT ![i] = e]
     /\ Enqueue(UpdateOp(e))
     /\ UNCHANGED hiddenEntries

\* The statement is sent even when the model has no such entry.
RemoveEntryByUrl(u) ==
  /\ Command
  /\ entries' = IF EntryIndex(u) = 0 THEN entries
                ELSE RemoveByIndex(entries, EntryIndex(u))
  /\ Enqueue([type |-> "RemoveEntryByUrl", url |-> u])
  /\ UNCHANGED hiddenEntries

RemoveEntriesByDate(d) ==
  /\ Command
  /\ entries' = Keep(entries, {i \in DOMAIN entries : Day(entries[i].lastVisit) # d})
  /\ Enqueue([type |-> "RemoveEntriesByDate", day |-> d])
  /\ UNCHANGED hiddenEntries

RemoveEntriesByDomain(d) ==
  /\ Command
  /\ entries' = Keep(entries, {i \in DOMAIN entries : entries[i].domain # d})
  /\ Enqueue([type |-> "RemoveEntriesByDomain", domain |-> d])
  /\ UNCHANGED hiddenEntries

\* Two statements: they may be separated by a crash.
ClearAll ==
  /\ Command
  /\ entries # <<>>
  /\ entries' = <<>> /\ hiddenEntries' = {}
  /\ toWorker' = toWorker \o <<[kind |-> "op", op |-> [type |-> "ClearHistory"]],
                               [kind |-> "op", op |-> [type |-> "ClearHistoryHidden"]]>>

SetHidden(u, b) ==
  entries' = [i \in DOMAIN entries |->
                IF entries[i].url = u THEN [entries[i] EXCEPT !.hidden = b]
                ELSE entries[i]]

Hide(u) ==
  /\ Command
  /\ u \notin hiddenEntries
  /\ hiddenEntries' = hiddenEntries \cup {u}
  /\ SetHidden(u, TRUE)
  /\ Enqueue([type |-> "InsertNewHiddenEntry", url |-> u])

UnHide(u) ==
  /\ Command
  /\ u \in hiddenEntries
  /\ hiddenEntries' = hiddenEntries \ {u}
  /\ SetHidden(u, FALSE)
  /\ Enqueue([type |-> "RemoveHiddenEntryByUrl", url |-> u])

\* Delivery of a queued signal to the UI thread.
Deliver(kind) ==
  /\ app = "running" /\ toUi # <<>> /\ Head(toUi).kind = kind
  /\ toUi' = Tail(toUi)
  /\ UNCHANGED <<app, pathSet, toWorker, workerVars, dbVars, boundVars>>

OnHiddenEntryFetched ==
  /\ Deliver("hidden")
  /\ hiddenEntries' = hiddenEntries \cup {Head(toUi).url}
  /\ UNCHANGED <<uiLoaded, entries>>

FetchedDomainMut(r) == r.domain   \* mutant: an old row keeps its empty domain

FetchedDomain(r) == IF r.domain = NoDomain THEN DomainOf[r.url] ELSE r.domain

OnEntryFetched ==
  LET r == Head(toUi).row
  IN /\ Deliver("entry")
     /\ entries' = Append(entries,
          [url |-> r.url, domain |-> FetchedDomain(r), title |-> r.title, visits |-> r.visits,
           lastVisit |-> r.lastVisit, hidden |-> r.url \in hiddenEntries])
     /\ UNCHANGED <<uiLoaded, hiddenEntries>>

OnLoaded ==
  /\ Deliver("loaded")
  /\ uiLoaded' = TRUE
  /\ UNCHANGED <<entries, hiddenEntries>>

-----------------------------------------------------------------------------
(* The worker thread *)

Dispatch(kind) ==
  /\ app # "down" /\ worker = "idle"
  /\ toWorker # <<>> /\ Head(toWorker).kind = kind
  /\ toWorker' = Tail(toWorker)
  /\ UNCHANGED <<app, uiVars, worker, dbVars, boundVars>>

\* The first signal the worker is ever sent: nothing is pending, so the flush
\* it starts with does nothing.
DoResetDatabase ==
  /\ Dispatch("reset")
  /\ flushTimer' = FALSE
  /\ UNCHANGED <<pending, toUi>>

\* SELECT ... ORDER BY lastVisit DESC: rows of the same time in any order.
Listings ==
  {p \in [DOMAIN history -> DOMAIN history] :
     /\ \A i, j \in DOMAIN history : p[i] = p[j] => i = j
     /\ \A i, j \in DOMAIN history :
          i < j => history[p[i]].lastVisit >= history[p[j]].lastVisit}

HiddenListings ==
  {s \in [1 .. Cardinality(historyHidden) -> historyHidden] :
     \A i, j \in DOMAIN s : s[i] = s[j] => i = j}

DoFetchEntriesMut ==   \* mutant: the hidden URLs are read after the entries
  /\ Dispatch("fetch")
  /\ \E p \in Listings, h \in HiddenListings :
       toUi' = toUi \o [i \in DOMAIN p |-> [kind |-> "entry", row |-> history[p[i]]]]
                    \o [i \in DOMAIN h |-> [kind |-> "hidden", url |-> h[i]]]
                    \o <<[kind |-> "loaded"]>>
  /\ UNCHANGED <<pending, flushTimer>>

DoFetchEntries ==
  /\ Dispatch("fetch")
  /\ \E p \in Listings, h \in HiddenListings :
       toUi' = toUi \o [i \in DOMAIN h |-> [kind |-> "hidden", url |-> h[i]]]
                    \o [i \in DOMAIN p |-> [kind |-> "entry", row |-> history[p[i]]]]
                    \o <<[kind |-> "loaded"]>>
  /\ UNCHANGED <<pending, flushTimer>>

\* m_flush->start() restarts the timer if it is running.
DoEnqueue ==
  /\ Dispatch("op")
  /\ pending' = Append(pending, Head(toWorker).op)
  /\ flushTimer' = TRUE
  /\ UNCHANGED toUi

\* The single-shot timer expires: doFlush.
FlushTimeout ==
  /\ app # "down" /\ worker = "idle" /\ flushTimer
  /\ flushTimer' = FALSE /\ worker' = "flushing"
  /\ UNCHANGED <<app, uiVars, toWorker, toUi, pending, dbVars, boundVars>>

FlushNextMut ==   \* mutant: the last operation queued is executed first
  /\ app # "down" /\ worker \in {"flushing", "closing"} /\ pending # <<>>
  /\ history' = ExecHistory(pending[Len(pending)], history)
  /\ historyHidden' = ExecHidden(pending[Len(pending)], historyHidden)
  /\ pending' = SubSeq(pending, 1, Len(pending) - 1)
  /\ UNCHANGED <<app, uiVars, toWorker, toUi, flushTimer, worker, boundVars>>

\* One turn of the loop of doFlush: one statement, committed by itself.
FlushNext ==
  /\ app # "down" /\ worker \in {"flushing", "closing"} /\ pending # <<>>
  /\ history' = ExecHistory(Head(pending), history)
  /\ historyHidden' = ExecHidden(Head(pending), historyHidden)
  /\ pending' = Tail(pending)
  /\ UNCHANGED <<app, uiVars, toWorker, toUi, flushTimer, worker, boundVars>>

FlushFailsMut ==   \* mutant: a failed statement is tried again after the others
  /\ Failures
  /\ app # "down" /\ worker \in {"flushing", "closing"} /\ pending # <<>>
  /\ pending' = Append(Tail(pending), Head(pending))
  /\ UNCHANGED <<app, uiVars, toWorker, toUi, flushTimer, worker, dbVars, boundVars>>

\* A statement that cannot be prepared or executed is dropped: the loop goes on.
FlushFails ==
  /\ Failures
  /\ app # "down" /\ worker \in {"flushing", "closing"} /\ pending # <<>>
  /\ pending' = Tail(pending)
  /\ UNCHANGED <<app, uiVars, toWorker, toUi, flushTimer, worker, dbVars, boundVars>>

FlushEndMut ==   \* mutant: the loop ends after its first operation
  /\ app # "down" /\ worker = "flushing"
  /\ worker' = "idle"
  /\ UNCHANGED <<app, uiVars, toWorker, toUi, pending, flushTimer, dbVars, boundVars>>

FlushEnd ==
  /\ app # "down" /\ worker = "flushing" /\ pending = <<>>
  /\ worker' = "idle"
  /\ UNCHANGED <<app, uiVars, toWorker, toUi, pending, flushTimer, dbVars, boundVars>>

-----------------------------------------------------------------------------
(* The process *)

\* ~HistoryModel: deleteLater() and quit(), then the UI thread only waits.
Quit ==
  /\ app = "running"
  /\ app' = "quitting"
  /\ UNCHANGED <<uiVars, toWorker, toUi, workerVars, dbVars, boundVars>>

ThreadFinishMut ==   \* mutant: the worker waits until its signals are taken
  /\ app = "quitting" /\ worker = "idle" /\ toUi = <<>>
  /\ toWorker' = <<>> /\ flushTimer' = FALSE /\ worker' = "closing"
  /\ UNCHANGED <<app, uiVars, toUi, pending, dbVars, boundVars>>

\* The event loop of the worker thread ends between two of its turns; signals
\* not delivered by then are discarded, and ~DbWorker flushes what is pending.
ThreadFinish ==
  /\ app = "quitting" /\ worker = "idle"
  /\ toWorker' = <<>> /\ flushTimer' = FALSE /\ worker' = "closing"
  /\ UNCHANGED <<app, uiVars, toUi, pending, dbVars, boundVars>>

Exit ==
  /\ app = "quitting" /\ worker = "closing" /\ pending = <<>>
  /\ Volatile("down")
  /\ UNCHANGED <<dbVars, boundVars>>

Crash ==
  /\ app # "down"
  /\ Volatile("down")
  /\ UNCHANGED <<dbVars, boundVars>>

Start ==
  /\ app = "down" /\ runs < MaxRuns
  /\ Volatile("running")
  /\ runs' = runs + 1
  /\ UNCHANGED <<dbVars, clock, issued>>

Tick ==
  /\ clock < MaxClock
  /\ clock' = clock + 1
  /\ UNCHANGED <<app, uiVars, toWorker, toUi, workerVars, dbVars, issued, runs>>

UserNext ==
  \/ \E u \in Url, t \in Title : Add(u, t) \/ Update(u, t)
  \/ \E u \in Url : RemoveEntryByUrl(u) \/ Hide(u) \/ UnHide(u)
  \/ \E d \in {Day(t) : t \in Time} : RemoveEntriesByDate(d)
  \/ \E d \in Domain : RemoveEntriesByDomain(d)
  \/ ClearAll
UiNext == SetDatabasePath \/ OnHiddenEntryFetched \/ OnEntryFetched \/ OnLoaded
WorkerNext == DoResetDatabase \/ DoFetchEntries \/ DoEnqueue
              \/ FlushTimeout \/ FlushNext \/ FlushFails \/ FlushEnd \/ ThreadFinish \/ Exit
Next == UserNext \/ UiNext \/ WorkerNext \/ Quit \/ Crash \/ Start \/ Tick

Spec == Init /\ [][Next]_vars

\* Both threads run; the process is not obliged to end or to be started again.
FairSpec == Spec /\ WF_vars(WorkerNext) /\ WF_vars(UiNext)

-----------------------------------------------------------------------------
(* Properties *)

\* The operations carried by a queue of signals, in their order.
Ops(q) ==
  LET K == {j \in DOMAIN q : q[j].kind = "op"}
  IN [i \in 1 .. Cardinality(K) |-> q[InOrder(K)[i]].op]

\* The operations not yet executed, oldest first.
Backlog == pending \o Ops(toWorker)

Exec(op, file) ==
  [history |-> ExecHistory(op, file.history), hidden |-> ExecHidden(op, file.hidden)]

\* A content of the file, and what it is after each operation of a list.
Contents(file, ops) ==
  LET after[n \in 0 .. Len(ops)] == IF n = 0 THEN file ELSE Exec(ops[n], after[n - 1])
  IN [n \in 1 .. Len(ops) + 1 |-> after[n - 1]]

Disk == [history |-> history, hidden |-> historyHidden]

\* What the file holds now, and what it will after each operation asked for.
Versions == Contents(Disk, Backlog)

\* What the file holds is always what some first part of the operations asked for
\* makes of it, and it goes through these contents in order: executing, crashing and
\* quitting never reorder, repeat or skip an operation.  clearAll asks for two, and
\* between them the history is empty and the hidden set is kept: a content that the
\* model on the UI thread, which drops both at once, never has.
WB == INSTANCE WriteBehind WITH versions <- Versions
FileFollowsModel == WB!Spec

\* Also when statements fail: DbWorker tries its operations in the order it got
\* them, each once; one that fails changes nothing, nothing else changes the
\* file, and all that are left are lost when the process stops.
SL == INSTANCE StatementLog WITH
        Effect <- Exec, MayFail <- Failures, file <- Disk, log <- pending
StatementsInOrder == SL!Spec

\* The data both the model and the table hold for a URL.
Shown(s) == {<<s[i].url, s[i].title, s[i].visits, s[i].lastVisit>> : i \in DOMAIN s}

\* Once loaded, the model shows exactly what the file will hold when the
\* operations under way have been executed: nothing comes back, and nothing is
\* missing, the next time the browser is started.
ShownIsStored ==
  app = "running" /\ uiLoaded =>
    LET final == Versions[Len(Versions)]
    IN /\ Shown(entries) = Shown(final.history)
       /\ Len(entries) = Len(final.history)
       /\ hiddenEntries = final.hidden

\* "If an entry with the same URL already exists, it is updated" (add).
UniqueUrls == \A i, j \in DOMAIN entries : entries[i].url = entries[j].url => i = j

\* An entry is flagged hidden exactly when its URL is in the hidden set that
\* hide and unHide test, whichever of the two was known first.
HiddenFlags ==
  \A i \in DOMAIN entries : entries[i].hidden <=> entries[i].url \in hiddenEntries

\* "The model is sorted chronologically at all times (most recent visit first)."
Chronological ==
  \A i, j \in DOMAIN entries : i < j => entries[i].lastVisit >= entries[j].lastVisit

\* No operation waits in the worker without a timer that will flush it.
PendingIsArmed == pending # <<>> /\ worker = "idle" => flushTimer

\* Every operation is executed (or lost with the process), and a process that
\* quits ends, however much it still has to execute.
WorkEnds ==
  /\ Backlog # <<>> ~> Backlog = <<>>
  /\ app = "quitting" ~> app = "down"
=============================================================================
