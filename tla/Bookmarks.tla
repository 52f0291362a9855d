------------------------------ MODULE Bookmarks ------------------------------
(***************************************************************************)
(* The bookmarks (webbrowser/bookmarks-model.cpp) and the list of their    *)
(* folders (bookmarks-folderlist-model.cpp), whose groups filter the       *)
(* bookmarks by the name of the folder (bookmarks-folder-model.cpp).       *)
(*                                                                         *)
(* URLs and names of folders are numbers, in their alphabetical order; the *)
(* empty name, which stands for no folder, is 0.  Dates are ranks: a new   *)
(* bookmark is later than all there are, and the bookmarks of a database   *)
(* of an older version have the date 0.                                    *)
(***************************************************************************)
EXTENDS Naturals, Sequences, FiniteSets, SequencesExt, Functions, Selection

CONSTANTS Url, Title, Folder,
          MaxCreated,   \* bound: dates
          MaxFolders    \* bound: rows of the table of folders

Names == Folder \cup {0}
Ids == 0 .. MaxFolders + 1
\* A row of the table of bookmarks; folderId 0 stands for NULL.
Row == [url : Url, title : Title, created : 0 .. MaxCreated, folderId : Ids]
\* BookmarksModel::BookmarkEntry.
BookmarkEntry == [url : Url, title : Title, created : 0 .. MaxCreated, folderId : Ids, folder : Names]

VARIABLES rows,       \* the table of bookmarks
          folderRows, \* the table of folders: their names, by id
          folders,    \* m_folders: names by id
          urls,       \* m_urls
          entries,    \* m_orderedEntries
          listed      \* m_folders of the folder list: its rows

vars == <<rows, folderRows, folders, urls, entries, listed>>

-----------------------------------------------------------------------------

\* onFolderAdded: the row that is inserted in the list of folders, which is sorted.
WithFolder(list, f) ==
  IF f \in Range(list) THEN list
  ELSE LET before == Cardinality({i \in DOMAIN list : list[i] <= f}) IN InsertAt(list, before + 1, f)

FoldersOf(table) == [id \in 0 .. Len(table) |-> IF id = 0 THEN 0 ELSE table[id]]

\* A folder that there is not is no folder.
EntryOf(row, names) ==
  LET id == IF row.folderId \in DOMAIN names THEN row.folderId ELSE 0
  IN [url |-> row.url, title |-> row.title, created |-> row.created, folderId |-> id, folder |-> names[id]]

Later(a, b) == a.created > b.created

\* ORDER BY created DESC; bookmarks of one date are in the order of their rows.
UpTo(s, i) == {j \in DOMAIN s : Later(s[j], s[i]) \/ (~Later(s[i], s[j]) /\ j <= i)}
Ordered(s) == [k \in DOMAIN s |-> s[CHOOSE i \in DOMAIN s : Cardinality(UpTo(s, i)) = k]]

Loaded(table, names) == [i \in DOMAIN table |-> EntryOf(Ordered(table)[i], names)]

\* A row that refers to a folder that there is not is written again.
Healed(table, names) ==
  [i \in DOMAIN table |-> IF table[i].folderId \in DOMAIN names THEN table[i] ELSE [table[i] EXCEPT !.folderId = 0]]

\* resetDatabase and populateFromDatabase; the models that group the bookmarks are reset
\* and are told of each folder.
LoadFrom(table, names) ==
  LET fs == FoldersOf(names) IN
  /\ folders' = fs
  /\ entries' = Loaded(table, fs)
  /\ urls' = {row.url : row \in Range(table)}
  /\ listed' = InOrder(Range(fs))
  /\ rows' = Healed(table, fs)
  /\ folderRows' = names

Restart == LoadFrom(rows, folderRows)

\* The browser starts with the database of an older version, or with one that refers to
\* folders that it does not have.
Init ==
  LET tables == {t \in UNION {[1 .. n -> [url : Url, title : Title, created : {0}, folderId : 0 .. 2]] : n \in 0 .. 2} :
                   \A i, j \in DOMAIN t : t[i].url = t[j].url => i = j}
  IN \E t \in tables, names \in {<<>>} \cup {<<f>> : f \in Folder} :
       LET fs == FoldersOf(names) IN
       /\ folders = fs /\ entries = Loaded(t, fs) /\ urls = {row.url : row \in Range(t)}
       /\ listed = InOrder(Range(fs))
       /\ rows = Healed(t, fs)
       /\ folderRows = names

\* SELECT folderId: that of the first row of the name.
IdIn(table, f) == SelectInSeq(table, LAMBDA g : g = f)
IndexOf(u) == SelectInSeq(entries, LAMBDA e : e.url = u)

\* addFolder: a row is inserted even when there is one of that name, whose id is then used.
InsertFolder(f) ==
  /\ Len(folderRows) < MaxFolders
  /\ folderRows' = Append(folderRows, f)
  /\ LET new == IdIn(folderRows', f)
     IN folders' = [id \in DOMAIN folders \cup {new} |-> IF id = new THEN f ELSE folders[id]]
  /\ listed' = WithFolder(listed, f)

AddFolder(f) == InsertFolder(f) /\ UNCHANGED <<rows, urls, entries>>

\* getFolderId: one of the ids of the name, in the order of a hash, or that of a new folder.
GetFolderId(f, id) ==
  \/ /\ id \in DOMAIN folders /\ folders[id] = f
     /\ UNCHANGED <<folders, folderRows, listed>>
  \/ /\ f \notin Range(folders)
     /\ InsertFolder(f)
     /\ id = IdIn(folderRows', f)

Stored(e) == [url |-> e.url, title |-> e.title, created |-> e.created, folderId |-> e.folderId]

\* The date of now: later than all the others.
Now == 1 + CHOOSE c \in 0 .. MaxCreated :
             /\ \A i \in DOMAIN entries : entries[i].created <= c
             /\ c = 0 \/ \E i \in DOMAIN entries : entries[i].created = c

Add(u, t, f) ==
  /\ u \notin urls /\ Now <= MaxCreated
  /\ \E id \in Ids :
       LET e == [url |-> u, title |-> t, created |-> Now, folderId |-> id, folder |-> f] IN
       /\ GetFolderId(f, id)
       /\ entries' = <<e>> \o entries
       /\ rows' = Append(rows, Stored(e))
  /\ urls' = urls \cup {u}

RemoveBookmark(u) ==
  /\ u \in urls
  /\ entries' = RemoveAt(entries, IndexOf(u))
  /\ urls' = urls \ {u}
  /\ rows' = Keep(rows, {i \in DOMAIN rows : rows[i].url # u})
  /\ UNCHANGED <<folders, folderRows, listed>>

UpdatedRowsMut(e) == [i \in DOMAIN rows |-> IF rows[i].url = e.url THEN [rows[i] EXCEPT !.title = e.title] ELSE rows[i]]   \* mutant: the folder is not written

UpdatedRows(e) == [i \in DOMAIN rows |-> IF rows[i].url = e.url THEN Stored(e) ELSE rows[i]]

\* From the options of a bookmark, or when it is dropped on a folder.
Update(u, t, f) ==
  /\ u \in urls
  /\ LET i == IndexOf(u)
         titled == [entries[i] EXCEPT !.title = t]
     IN /\ titled # entries[i] \/ f # entries[i].folder
        /\ \/ /\ f = titled.folder
              /\ entries' = [entries EXCEPT ![i] = titled]
              /\ UNCHANGED <<folders, folderRows, listed>>
           \/ /\ f # titled.folder
              /\ \E id \in Ids : /\ GetFolderId(f, id)
                                 /\ entries' = [entries EXCEPT ![i] = [titled EXCEPT !.folder = f, !.folderId = id]]
        /\ rows' = UpdatedRows(entries'[i])
  /\ UNCHANGED urls

Next == \/ \E u \in Url, t \in Title, f \in Names : Add(u, t, f) \/ Update(u, t, f)
        \/ \E u \in Url : RemoveBookmark(u)
        \/ \E f \in Names : AddFolder(f)
        \/ Restart

Spec == Init /\ [][Next]_vars

-----------------------------------------------------------------------------
(* Properties *)

TypeOK == /\ rows \in Seq(Row) /\ folderRows \in Seq(Names)
          /\ folders \in [DOMAIN folders -> Names] /\ DOMAIN folders \subseteq Ids
          /\ urls \subseteq Url /\ entries \in Seq(BookmarkEntry) /\ listed \in Seq(Names)

\* What a restart would show is what is shown now: title, folder and order of every bookmark.
StoredAsShown ==
  LET shown(s) == [i \in DOMAIN s |-> <<s[i].url, s[i].title, s[i].folder>>]
  IN shown(entries) = shown(Loaded(rows, FoldersOf(folderRows)))

\* No URL is bookmarked twice, and contains() knows all that are.
EachUrlOnce == /\ urls = {e.url : e \in Range(entries)}
               /\ \A i, j \in DOMAIN entries : entries[i].url = entries[j].url => i = j
               /\ \A i, j \in DOMAIN rows : rows[i].url = rows[j].url => i = j

\* Every bookmark is in one of the groups of the list of folders, which are sorted.
EachIsInAGroup == /\ \A e \in Range(entries) : e.folder \in Range(listed)
                  /\ \A i, j \in DOMAIN listed : i < j => listed[i] < listed[j]
                  /\ Range(listed) = Range(folders)

\* No folder is ever lost and no id comes to stand for another one, whatever is removed and
\* however often the browser restarts: the rows of the bookmarks refer to folders by id.
FoldersKept == [][\A id \in DOMAIN folders : id \in DOMAIN folders' /\ folders'[id] = folders[id]]_vars

\* "The model is sorted alphabetically at all times (by URL)."
SortedByUrl == \A i, j \in DOMAIN entries : i < j => entries[i].url < entries[j].url
=============================================================================
