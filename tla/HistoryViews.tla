----------------------------- MODULE HistoryViews -----------------------------
(***************************************************************************)
(* The lists that show the history: its domains (history-domainlist-       *)
(* model.cpp, with a history-domain-model.cpp for each), and the days of   *)
(* the last visits (history-lastvisitdatelist-model.cpp) to the pages that *)
(* match the search (text-search-filter-model.cpp).                        *)
(*                                                                         *)
(* They follow the signals of HistoryModel, of which an entry is here its  *)
(* URL and the day of its last visit.  The slots run inside the operation  *)
(* that emits the signal.  A proxy of Qt turns rowsMoved to layoutChanged. *)
(* Domains are numbers, in their alphabetical order; days too, and 0 is    *)
(* the invalid date that stands for all days.                              *)
(***************************************************************************)
EXTENDS Selection, SequencesExt, Functions

CONSTANTS Url, DomainOf,
          MaxDay,     \* bound: days
          Proxied,    \* are the days those of the proxy, as in the browser, or of HistoryModel?
          TopLater    \* is the page on top visited again on another day?

VARIABLES entries,     \* m_entries of the history, the page visited last first
          today,
          domains,     \* m_domainsPerLastVisit
          view,        \* the rows of a view that follows the signals of the list of domains
          lastVisits,  \* m_lastVisit and m_lastVisitedTitle of the model of each domain
          matching,    \* the URLs that contain all of m_terms
          dates        \* m_orderedDates, and m_lastVisitDates: the entries of each day

vars == <<entries, today, domains, view, lastVisits, matching, dates>>

-----------------------------------------------------------------------------
(* The list of domains *)

Has(es, d) == \E e \in Range(es) : DomainOf[e.url] = d
\* The first row of the model of a domain.
First(d, es) == es[SelectInSeq(es, LAMBDA e : DomainOf[e.url] = d)]

\* populateModel: the domains in the order of their first entries.
DomainsOf(es) == LET ds == [i \in DOMAIN es |-> DomainOf[es[i].url]]
                 IN Keep(ds, {i \in DOMAIN ds : \A j \in 1 .. i - 1 : ds[j] # ds[i]})

\* The models of the domains in `changed` have new rows or data, and emit lastVisitChanged.
OnModelChanged(es, changed) ==
  lastVisits' = [d \in Range(domains') |-> IF d \in changed THEN First(d, es) ELSE lastVisits[d]]

\* onModelReset, and setSourceModel.
ResetDomains(es) == /\ domains' = DomainsOf(es) /\ view' = domains'
                    /\ OnModelChanged(es, Range(domains'))

\* A new domain is announced at its place in the alphabet, and appended.
OnRowsInserted(d) ==
  IF d \in Range(domains) THEN UNCHANGED <<domains, view>>
  ELSE LET later == {i \in DOMAIN domains : d < domains[i]}
           insertAt == IF later = {} THEN Len(domains) + 1 ELSE CHOOSE i \in later : \A j \in later : i <= j
       IN /\ domains' = Append(domains, d)
          /\ view' = InsertAt(view, insertAt, d)

OnDomainRowsRemovedMut(d, es) ==   \* mutant: a domain goes with its first page
  LET removeAt == SelectInSeq(domains, LAMBDA x : x = d)
  IN IF d \in Range(domains) THEN domains' = RemoveAt(domains, removeAt) /\ view' = RemoveAt(view, removeAt)
     ELSE UNCHANGED <<domains, view>>

OnDomainRowsRemoved(d, es) ==
  IF Has(es, d) THEN UNCHANGED <<domains, view>>
  ELSE LET removeAt == SelectInSeq(domains, LAMBDA x : x = d)
       IN domains' = RemoveAt(domains, removeAt) /\ view' = RemoveAt(view, removeAt)

-----------------------------------------------------------------------------
(* The list of days *)

NoDates == [ordered |-> <<>>, by |-> [d \in {} |-> {}]]

\* insertNewHistoryEntry: the days are in descending order, after the entry for all days.
InsertEntry(D, e) ==
  IF e.day \in DOMAIN D.by THEN [D EXCEPT !.by[e.day] = @ \cup {e.url}]
  ELSE LET ordered == IF D.ordered = <<>> THEN <<0>> ELSE D.ordered
           later == Cardinality({i \in 2 .. Len(ordered) : ordered[i] >= e.day})
       IN [ordered |-> InsertAt(ordered, later + 2, e.day),
           by |-> [d \in DOMAIN D.by \cup {e.day} |-> IF d = e.day THEN {e.url} ELSE D.by[d]]]

\* onRowsInserted, and populateModel: one row after another.
InsertEntries(D, rows) ==
  LET F[n \in 0 .. Len(rows)] == IF n = 0 THEN D ELSE InsertEntry(F[n - 1], rows[n])
  IN F[Len(rows)]
Populated(rows) == InsertEntries(NoDates, rows)

KeptMut(D, days) == D   \* mutant: no day is removed

Kept(D, days) ==
  [ordered |-> IF days = {} THEN <<>>
               ELSE Keep(D.ordered, {i \in DOMAIN D.ordered : D.ordered[i] \in days \cup {0}}),
   by |-> [d \in days |-> D.by[d]]]

\* Only the persistent indexes of rows that are left are valid; a day without one goes.
RowsRemoved(D, rows) ==
  LET valid == {e.url : e \in Range(rows)}
      by == [d \in DOMAIN D.by |-> D.by[d] \cap valid]
  IN Kept([D EXCEPT !.by = by], {d \in DOMAIN by : by[d] # {}})

\* The days of the rows after and before the place that the row has left.
Bounds(rows, i, D) == [lower |-> IF i < Len(rows) THEN rows[i + 1].day ELSE Last(D.ordered) - 1,
                       upper |-> rows[i].day]

\* onRowsMoved: the row at i has been moved to the top.
RowsMoved(D, rows, i) ==
  LET b == Bounds(rows, i, D)
  IN InsertEntry(Kept(D, {d \in DOMAIN D.by : ~(b.lower < d /\ d < b.upper)}), rows[1])

\* TextSearchFilterModel::filterAcceptsRow.
Accepted(es, urls) == Keep(es, {i \in DOMAIN es : es[i].url \in urls})
Rows(es) == IF Proxied THEN Accepted(es, matching) ELSE es
Shows(u) == ~Proxied \/ u \in matching

-----------------------------------------------------------------------------
(* HistoryModel, with its signals *)

Init == /\ entries = <<>> /\ today = 1 /\ domains = <<>> /\ view = <<>> /\ lastVisits = <<>>
        /\ matching = Url /\ dates = NoDates

Top(u) == [url |-> u, day |-> today]
IndexOf(u) == SelectInSeq(entries, LAMBDA e : e.url = u)

AddNew(u) == /\ IndexOf(u) = 0
             /\ entries' = <<Top(u)>> \o entries
             /\ OnRowsInserted(DomainOf[u]) /\ OnModelChanged(entries', {DomainOf[u]})
             /\ dates' = IF Shows(u) THEN InsertEntry(dates, Top(u)) ELSE dates

\* The page on top is visited again: dataChanged, which the list of days does not hear.
AddOnTop(u) == /\ IndexOf(u) = 1 /\ (TopLater \/ entries[1].day = today)
               /\ entries' = [entries EXCEPT ![1] = Top(u)]
               /\ UNCHANGED <<domains, view, dates>>
               /\ OnModelChanged(entries', {DomainOf[u]})

\* beginMoveRows and endMoveRows.
AddMoved(u) == /\ IndexOf(u) > 1
               /\ entries' = <<Top(u)>> \o RemoveAt(entries, IndexOf(u))
               /\ UNCHANGED <<domains, view>>
               /\ OnModelChanged(entries', Range(domains))
               /\ dates' = IF Proxied THEN Populated(Rows(entries')) ELSE RowsMoved(dates, entries', IndexOf(u))

Add(u) == (AddNew(u) \/ AddOnTop(u) \/ AddMoved(u)) /\ UNCHANGED <<today, matching>>

RemoveEntryByUrl(u) ==
  /\ IndexOf(u) # 0
  /\ entries' = RemoveAt(entries, IndexOf(u))
  /\ OnDomainRowsRemoved(DomainOf[u], entries')
  /\ OnModelChanged(entries', {DomainOf[u]} \cap Range(domains'))
  /\ dates' = IF Shows(u) THEN RowsRemoved(dates, Rows(entries')) ELSE dates
  /\ UNCHANGED <<today, matching>>

\* A reset of the history, and of all that follow it.
ClearAll == /\ entries # <<>> /\ entries' = <<>>
            /\ ResetDomains(<<>>) /\ dates' = NoDates
            /\ UNCHANGED <<today, matching>>

\* A view is opened: the source model is set.
SetSourceModel == /\ ResetDomains(entries) /\ dates' = Populated(Rows(entries))
                  /\ UNCHANGED <<entries, today, matching>>

\* Rows that do not match any more are removed, then those that match now are inserted.
SetTerms(m) ==
  /\ Proxied /\ m # matching /\ matching' = m
  /\ dates' = InsertEntries(IF \A e \in Range(Rows(entries)) : e.url \in m THEN dates
                            ELSE RowsRemoved(dates, Accepted(Rows(entries), m)),
                            Accepted(entries, m \ matching))
  /\ UNCHANGED <<entries, today, domains, view, lastVisits>>

NewDay == /\ today < MaxDay /\ today' = today + 1
          /\ UNCHANGED <<entries, domains, view, lastVisits, matching, dates>>

Next == \/ \E u \in Url : Add(u) \/ RemoveEntryByUrl(u)
        \/ \E m \in SUBSET Url : SetTerms(m)
        \/ ClearAll \/ SetSourceModel \/ NewDay

Spec == Init /\ [][Next]_vars

-----------------------------------------------------------------------------
(* Properties *)

\* A domain is listed, once, when the history has a page of it.
DomainsExact == /\ \A u \in Url : IndexOf(u) # 0 => DomainOf[u] \in Range(domains)
                /\ \A i \in DOMAIN domains : /\ Has(entries, domains[i])
                                             /\ \A j \in DOMAIN domains : domains[i] = domains[j] => i = j

\* What is said of a domain (the time, title and icon of its last visit) is that of its page
\* visited last, however pages are visited, moved and removed.
LastVisitRight == \A d \in Range(domains) : lastVisits[d] = First(d, entries)

\* A view of the list of domains shows its rows: "shouldKeepDomainsSortedInsertionOrder".
ViewFollows == view = domains

\* All days first, then the days in descending order, each once; none when there is no day.
DatesSorted == LET o == dates.ordered IN
  /\ o = <<>> <=> DOMAIN dates.by = {}
  /\ o # <<>> => o[1] = 0 /\ {o[i] : i \in 2 .. Len(o)} = DOMAIN dates.by
  /\ \A i, j \in 2 .. Len(o) : i < j => o[i] > o[j]

DaysOf(es) == {e.day : e \in Range(es)}
\* Every day with a visit is listed.
DatesCovered == DaysOf(Rows(entries)) \subseteq DOMAIN dates.by
\* The days listed are those "in which there is at least one url visited".
DatesExact == DaysOf(Rows(entries)) = DOMAIN dates.by
=============================================================================
