------------------------------ MODULE Downloads ------------------------------
(***************************************************************************)
(* The list of downloads and its database                                  *)
(* (src/src/app/webbrowser/downloads-model.cpp).                           *)
(*                                                                         *)
(* The rows are read page by page, at an offset that the model keeps up to *)
(* date itself when it adds and removes rows.  The table is the sequence   *)
(* of its rows as the query lists them, most recent first, and those of    *)
(* one second in the order in which they were inserted, which is what      *)
(* SQLite does.  The clock does not go back.  Statements run at once, but  *)
(* the process may stop before one.  A row has no column incognito: it is  *)
(* read with the value FALSE.  An entry that is added has no time: it has  *)
(* that of its row here.                                                   *)
(***************************************************************************)
EXTENDS Integers, FiniteSets, SequencesExt, Selection

CONSTANTS Id, Path,
          PageSize,      \* LIMIT of the query, 100 in the code
          MaxRuns,       \* bound: starts of the browser
          MaxSeconds,    \* bound: seconds that pass while it runs
          QuickStart,    \* can it start again in the second in which it has stopped?
          RenameFails,   \* can a file not be moved to the folder of downloads?
          SharedPaths    \* can two downloads have one path?

VARIABLES entries,    \* m_orderedEntries
          numRows,    \* m_numRows
          fetched,    \* m_fetchedCount: the offset of the next page
          canFetch,   \* m_canFetchMore
          table,      \* the rows of the database
          files,      \* the paths at which there is a file
          now,        \* the second of the clock, CURRENT_TIMESTAMP
          runs        \* starts of the browser so far

vars == <<entries, numRows, fetched, canFetch, table, files, now, runs>>

Row == [id : Id, path : Path, created : Nat, type : {"reported", "detected"},
        complete : BOOLEAN, paused : BOOLEAN, error : BOOLEAN, incognito : BOOLEAN]

Ids(s) == {s[k].id : k \in DOMAIN s}
Paths(s) == {s[k].path : k \in DOMAIN s}
IndexOf(i) == SelectInSeq(entries, LAMBDA e : e.id = i)   \* getIndexForDownloadId
NewPath(p) == SharedPaths \/ p \notin Paths(entries) \cup Paths(table)

Init == /\ entries = <<>> /\ numRows = 0 /\ fetched = 0 /\ canFetch = TRUE
        /\ table = <<>> /\ files = {} /\ now = 0 /\ runs = 1

-----------------------------------------------------------------------------
(* Reading the database *)

\* The rows of SELECT ... ORDER BY created DESC LIMIT PageSize OFFSET fetched
\* (a negative offset is 0)
Page == LET offset == Max({fetched, 0}) IN {k \in DOMAIN table : offset < k /\ k <= offset + PageSize}

\* One page: an unfinished download is listed, a finished one if its file is there.
FetchMore ==
  /\ canFetch
  /\ LET listed == Keep(table, {k \in Page : ~table[k].complete \/ table[k].path \in files})
     IN /\ entries' = entries \o listed
        /\ numRows' = numRows + Len(listed)
        /\ fetched' = fetched + Cardinality(Page)
        /\ canFetch' = (Page # {})
  /\ UNCHANGED <<table, files, now, runs>>

\* The process ends, or stops before it has written table t, and starts again.
RestartWith(t, f) ==
  /\ runs < MaxRuns
  /\ runs' = runs + 1
  /\ now' \in IF QuickStart THEN {now, now + 1} ELSE {now + 1}
  /\ entries' = <<>> /\ numRows' = 0 /\ fetched' = 0 /\ canFetch' = TRUE
  /\ table' = t /\ files' = f

Restart == RestartWith(table, files)

-----------------------------------------------------------------------------
(* Downloads *)

\* insertNewEntryInDatabase: ORDER BY created DESC lists the row after those that are not older.
Inserted(e) == InsertAt(table, SelectLastInSeq(table, LAMBDA row : row.created >= e.created) + 1, e)

\* startDownload adds a download once, under an identifier of its own; the engine
\* has given it a path at which there is no file.  Time may have passed since the last one.
Add(i, p, incognito) ==
  /\ now' = now \/ (now < MaxSeconds /\ now' = now + 1)
  /\ i \notin Ids(entries) \cup Ids(table) /\ p \notin files /\ NewPath(p)
  /\ LET e == [id |-> i, path |-> p, created |-> now', type |-> "reported", complete |-> FALSE,
               paused |-> FALSE, error |-> FALSE, incognito |-> incognito]
     IN /\ entries' = <<e>> \o entries
        /\ numRows' = numRows + 1
        /\ table' = IF incognito THEN table ELSE Inserted(e)
        /\ fetched' = IF incognito THEN fetched ELSE fetched + 1
  /\ UNCHANGED <<canFetch, files, runs>>

\* UPDATE downloads SET f=v WHERE downloadId=i; UPDATE ... SET mimetype=..., path=p ...
Updated(i, f, v) == [k \in DOMAIN table |-> IF table[k].id = i THEN [table[k] EXCEPT ![f] = v] ELSE table[k]]
Moved(e, p) == [e EXCEPT !.type = "detected", !.path = p]
MovedRow(i, p) == [k \in DOMAIN table |-> IF table[k].id = i THEN Moved(table[k], p) ELSE table[k]]

\* setComplete, setError and setPaused: entry k has another value than v in field f.
SetField(k, f, v) ==
  /\ k # 0 /\ entries[k][f] # v
  /\ entries' = [entries EXCEPT ![k] = [@ EXCEPT ![f] = v]]
  /\ table' = IF entries[k].incognito THEN table ELSE Updated(entries[k].id, f, v)
  /\ UNCHANGED <<numRows, fetched, canFetch, now, runs>>

\* The download is over: with its file in place, or cancelled or interrupted without.
SetComplete(i) ==
  /\ SetField(IndexOf(i), "complete", TRUE)
  /\ files' \in {files, files \cup {entries[IndexOf(i)].path}}
SetError(i) == SetField(IndexOf(i), "error", TRUE) /\ UNCHANGED files
SetPaused(i, paused) == SetField(IndexOf(i), "paused", paused) /\ UNCHANGED files

\* The file at p moves to d, where there is none.  The type is found from the file.
\* When the file cannot be moved, the entry keeps its path; the row is given d all the
\* same if the type has changed.
MoveToDownloads(i, p, d) ==
  LET k == IndexOf(i)
  IN /\ k # 0 /\ p \in files /\ d \notin files /\ NewPath(d)
     /\ \/ /\ entries' = [entries EXCEPT ![k] = Moved(@, d)]
           /\ table' = IF entries[k].incognito THEN table ELSE MovedRow(i, d)
           /\ files' = (files \ {p}) \cup {d}
        \/ /\ RenameFails
           /\ entries' = [entries EXCEPT ![k] = Moved(@, @.path)]
           /\ table' = IF entries[k].incognito \/ entries[k].type = "detected"
                       THEN table ELSE MovedRow(i, d)
           /\ UNCHANGED files
     /\ UNCHANGED <<numRows, fetched, canFetch, now, runs>>

\* The process stops after the file has moved and before its row is written.
StopInMove(i, p, d) ==
  /\ IndexOf(i) # 0 /\ p \in files /\ d \notin files /\ NewPath(d)
  /\ RestartWith(table, (files \ {p}) \cup {d})

\* The entry at k is removed.  removeExistingEntryFromDatabase
Without(k) == Keep(entries, DOMAIN entries \ {k})
WithoutPath(p) == Keep(table, {n \in DOMAIN table : table[n].path # p})

\* The page of downloads deletes the path of a finished download: the first entry
\* that has this path, its file, and every row that has it.
DeleteDownload(p) ==
  LET k == SelectInSeq(entries, LAMBDA e : e.path = p)
  IN /\ \E j \in DOMAIN entries : entries[j].path = p /\ entries[j].complete
     /\ entries' = Without(k)
     /\ numRows' = numRows - 1
     /\ files' = files \ {p}
     /\ IF entries[k].incognito THEN UNCHANGED <<table, fetched>>
        ELSE /\ table' = WithoutPath(p)
             /\ fetched' = fetched - 1
     /\ UNCHANGED <<canFetch, now, runs>>

\* The process stops after the file is removed and before its row is.
StopInDelete(p) ==
  /\ \E j \in DOMAIN entries : entries[j].path = p /\ entries[j].complete
  /\ RestartWith(table, files \ {p})

CancelDownloadMut(i) ==   \* mutant: the offset keeps counting the row
  LET k == IndexOf(i)
  IN /\ k # 0
     /\ entries' = Without(k)
     /\ numRows' = numRows - 1
     /\ table' = IF entries[k].incognito THEN table
                 ELSE Keep(table, {n \in DOMAIN table : table[n].id # i})
     /\ UNCHANGED <<fetched, canFetch, files, now, runs>>

CancelDownload(i) ==
  LET k == IndexOf(i)
  IN /\ k # 0
     /\ entries' = Without(k)
     /\ numRows' = numRows - 1
     /\ IF entries[k].incognito THEN UNCHANGED <<table, fetched>>
        ELSE /\ table' = Keep(table, {n \in DOMAIN table : table[n].id # i})
             /\ fetched' = fetched - 1
     /\ UNCHANGED <<canFetch, files, now, runs>>

\* The last incognito window closes.
PruneIncognitoDownloads ==
  /\ \E k \in DOMAIN entries : entries[k].incognito
  /\ entries' = Keep(entries, {k \in DOMAIN entries : ~entries[k].incognito})
  /\ numRows' = Len(entries')
  /\ UNCHANGED <<fetched, canFetch, table, files, now, runs>>

\* Files come and go without the browser: a file manager, a removable medium.
FilesChange == /\ \E p \in Path : files' \in {files \cup {p}, files \ {p}}
               /\ UNCHANGED <<entries, numRows, fetched, canFetch, table, now, runs>>

Next == \/ FetchMore \/ Restart \/ PruneIncognitoDownloads \/ FilesChange
        \/ \E i \in Id, p \in Path, b \in BOOLEAN : Add(i, p, b)
        \/ \E i \in Id : SetComplete(i) \/ SetError(i) \/ CancelDownload(i)
        \/ \E i \in Id, b \in BOOLEAN : SetPaused(i, b)
        \/ \E i \in Id, p, d \in Path : MoveToDownloads(i, p, d) \/ StopInMove(i, p, d)
        \/ \E p \in Path : DeleteDownload(p) \/ StopInDelete(p)

Spec == Init /\ [][Next]_vars

\* The view asks for the next page as long as there is one.
FairSpec == Spec /\ WF_vars(FetchMore)

-----------------------------------------------------------------------------
(* Properties *)

TypeOK == /\ entries \in Seq(Row) /\ table \in Seq(Row) /\ files \subseteq Path
          /\ numRows = Len(entries) /\ fetched \in 0 .. Len(table)
          /\ canFetch \in BOOLEAN /\ now \in Nat /\ runs \in 1 .. MaxRuns

\* The offset separates the rows that have been read from those that have not,
\* whatever was added and removed between two pages: no row before it is missing from
\* the list (a finished download may be, its file was not there), none after it is listed.
OffsetSplits == \A k \in DOMAIN table :
  IF k > fetched THEN table[k].id \notin Ids(entries)
  ELSE ~table[k].complete => table[k].id \in Ids(entries)

\* "The database is read at startup to populate the model": once all the pages are read,
\* every unfinished download of the database is listed.
AllListed == ~canFetch => \A k \in DOMAIN table :
  ~table[k].complete => table[k].id \in Ids(entries)

\* Each download that is not incognito is stored as it is listed.
ListedAsStored == \A k \in DOMAIN entries :
  ~entries[k].incognito => \E n \in DOMAIN table : table[n] = entries[k]

\* "The model is sorted chronologically to display the most recent download first", and
\* lists no download twice: one of a later second comes first, whether it was added or read.
MostRecentFirst == \A j, k \in DOMAIN entries : j < k =>
  /\ entries[j].id # entries[k].id
  /\ entries[j].created >= entries[k].created

\* Nothing of an incognito download is ever written to the database.
IncognitoUnstored == \A k \in DOMAIN table : ~table[k].incognito

\* Reading the pages ends, although rows are added and removed meanwhile.
FetchEnds == canFetch ~> ~canFetch
=============================================================================
