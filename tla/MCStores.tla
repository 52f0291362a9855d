------------------------------- MODULE MCStores -------------------------------
(***************************************************************************)
(* The models that keep their rows in a database, each on a small          *)
(* instance, in one run.  They share neither state nor files, so that      *)
(* nothing is lost by looking at one of them at a time: `part` says which  *)
(* one runs, the others stay as they are when they are made.               *)
(***************************************************************************)
EXTENDS Naturals, Sequences, TLC

CONSTANTS Id, Path, PageSize, MaxSeconds,                 \* Downloads
          Domain, NoDomain, MaxAsked,                     \* DomainPermissions
          Name, Zoom, InitialZoom, MaxId,                 \* DomainSettings
          Url, Title, Folder, MaxCreated, MaxFolders,     \* Bookmarks
          Cookie, PerMs, MaxMs, MaxCookies,               \* LocalCookies
          MaxRuns

VARIABLES part,
          entries, numRows, fetched, canFetch, table, files, now, runs,
          model, whiteListMode, asked, permissionRuns,
          settings, settingsTable, orphaned, defaultZoom, agents, agentTable, nextId, settingsRuns,
          rows, folderRows, folders, urls, bookmarks, listed,
          hasTable, cookieTable, msec, written, emitted, acked, got

ASSUME PageAssumption == PageSize \in Nat \ {0}
\* Cookies set in one call have times that end before the clock's next millisecond begins.
ASSUME CookieAssumption == PerMs \in Nat \ {0} /\ MaxCookies \in Nat /\ MaxCookies <= PerMs
\* Names are numbers in their order, and 0 is no name.
ASSUME BookmarkAssumption == Folder \subseteq Nat \ {0} /\ MaxCreated \in Nat

\* Downloads whose files can be moved, and those where one may not.
Downloads == INSTANCE Downloads WITH RenameFails <- FALSE, SharedPaths <- FALSE, QuickStart <- FALSE
Unmovable == INSTANCE Downloads WITH RenameFails <- TRUE, SharedPaths <- FALSE, QuickStart <- FALSE,
                                     MaxSeconds <- 0, MaxRuns <- 1
Permissions == INSTANCE DomainPermissions WITH runs <- permissionRuns
Settings == INSTANCE DomainSettings WITH table <- settingsTable, runs <- settingsRuns,
                                         DefaultFirst <- TRUE, Resets <- TRUE
Bookmarks == INSTANCE Bookmarks WITH entries <- bookmarks
Cookies == INSTANCE LocalCookies WITH table <- cookieTable, SameMs <- FALSE, Faults <- TRUE,
                                      InsertFails <- FALSE

downloadVars == <<entries, numRows, fetched, canFetch, table, files, now, runs>>
permissionVars == <<model, whiteListMode, asked, permissionRuns>>
settingsVars == <<settings, settingsTable, orphaned, defaultZoom, agents, agentTable, nextId, settingsRuns>>
bookmarkVars == <<rows, folderRows, folders, urls, bookmarks, listed>>
cookieVars == <<hasTable, cookieTable, msec, written, emitted, acked, got>>
vars == <<part, downloadVars, permissionVars, settingsVars, bookmarkVars, cookieVars>>

\* Downloads are interchangeable, and so are paths and domains.
Symmetric == Permutations(Id) \cup Permutations(Path) \cup Permutations(Domain)

Runs(p) == part = p /\ UNCHANGED part

Init == /\ part \in {"downloads", "unmovable", "permissions", "settings", "bookmarks", "cookies"}
        /\ Downloads!Init /\ Permissions!Init /\ Settings!Init /\ Bookmarks!Init /\ Cookies!Init
        /\ part # "permissions" => ~whiteListMode
        /\ part # "bookmarks" => rows = <<>> /\ folderRows = <<>>

Next ==
  \/ /\ Runs("downloads") /\ Downloads!Next
     /\ UNCHANGED <<permissionVars, settingsVars, bookmarkVars, cookieVars>>
  \/ /\ Runs("unmovable") /\ Unmovable!Next
     /\ UNCHANGED <<permissionVars, settingsVars, bookmarkVars, cookieVars>>
  \/ /\ Runs("permissions") /\ Permissions!Next
     /\ UNCHANGED <<downloadVars, settingsVars, bookmarkVars, cookieVars>>
  \/ /\ Runs("settings") /\ Settings!Next
     /\ UNCHANGED <<downloadVars, permissionVars, bookmarkVars, cookieVars>>
  \/ /\ Runs("bookmarks") /\ Bookmarks!Next
     /\ UNCHANGED <<downloadVars, permissionVars, settingsVars, cookieVars>>
  \/ /\ Runs("cookies") /\ Cookies!Next
     /\ UNCHANGED <<downloadVars, permissionVars, settingsVars, bookmarkVars>>

Spec == Init /\ [][Next]_vars

-----------------------------------------------------------------------------
(* The properties of the parts, where they are stated *)

\* Nothing is ever stored of the downloads of incognito windows.  When files can be moved, the
\* offset of the next page separates the downloads that have been read from the others, and each
\* of the former is stored as it is listed; no download is listed twice, and one made in a later
\* second comes first.
DownloadsKept == /\ Downloads!IncognitoUnstored
                 /\ part = "downloads" => /\ Downloads!OffsetSplits /\ Downloads!MostRecentFirst
                                          /\ Downloads!ListedAsStored

\* A stored permission is the one in force, also after incognito windows have changed it, and a
\* dialog is open only for a domain that has not been decided on.
PermissionsInForce == Permissions!StoredIsListed /\ Permissions!AskedIsUnset

\* What is requested in an incognito window adds no row and records no request.
IncognitoUnrecorded == Permissions!IncognitoUnrecorded

\* No domain refers to a user agent that is gone, in the list or in the file, and starting again
\* changes nothing of what applies to a domain.
SettingsKept == [][Settings!AgentsExist' /\ Settings!EffectiveStep]_vars

\* What a restart would show of the bookmarks is what is shown now: no URL twice, and each in one
\* of the groups of the sorted list of folders.  The ids of the folders stay what they are.
BookmarksKept == /\ [](Bookmarks!StoredAsShown /\ Bookmarks!EachUrlOnce /\ Bookmarks!EachIsInAGroup)
                 /\ Bookmarks!FoldersKept

\* Every cookie that was said to be set is in the table, and getCookies gives it.
CookiesKept == [][Cookies!SetIsStored' /\ Cookies!GotStep]_vars
=============================================================================
