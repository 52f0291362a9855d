# Verification of morph-browser

TLA+ models of parts of morph-browser, a web browser written in C++ (models,
storage) and QML (windows, tabs), with TLC configurations that check them on
small instances and theorems proved with TLAPS.  Paths below are relative to
the repository; `app/` stands for `src/app/`.

## The system

| part | state | operations | hard behaviours |
|---|---|---|---|
| **History**: `HistoryModel` (UI thread), `DbWorker` (database thread), `app/webbrowser/history-model.cpp` | list of entries, set of hidden URLs; queue of pending operations, one-second timer, two SQL tables | add, update, remove (URL, day, domain), clear, hide, unhide; fetch, enqueue, flush | two threads, queued signals both ways, write-behind with crash and quit, use before the rows have arrived |
| **Tabs of a window**: `TabsModel` (C++), `Browser.qml`, `TabsList.qml`, `TabsBar.qml`, `BrowserTab.qml`, `TabComponent.qml` | list and current index; next tab, timer of the switch, animation, closed tabs, which tabs have a web view | open, close, move, select, drag, undo close, move to another window, load, unload | switches spread over several events, handlers that change the model inside its own signals, stale indices |
| **Windows and session**: `morph-browser.qml`, `SessionStorage` | all windows, the session file and its lock | open and close windows, save and restore, quit | nested closing, saving after clearing, crash between write and rename |
| **Downloads**: `DownloadsModel` | rows shown, number of rows fetched, table | add, complete, fail, move, cancel, delete, fetch a page | paging by offset in a table that changes |
| **Limit proxy**: `LimitProxyModel` | limit, announced changes | set the limit, rows inserted and removed | changes across the limit |
| **Single instance**: `SingleInstanceManager` | local socket | listen, pass arguments, take over | several starters, time-outs, crash of the first |
| **Domain permissions, domain settings, user agents** | rows in memory and in a table | set, remove, prune, reset | two models over one database, references to removed rows, dialogs in several windows |
| **Bookmarks** and folders | ordered rows, folders | add, remove, update | grouping, order |
| **History views**: by domain, by date, text search, top sites | groups over the history | follow the changes of the source | announced row and real row |
| **Favicons**: `FaviconFetcher` | URL, reply under way, cache path | set the URL, download, redirect | replies and redirects that arrive after the URL changed |
| **Cookies of web apps**: `OxideCookieHelper`, `CookieStore` | pending calls, failed cookies | set, answer, move | some calls fail at once, others later |
| **Pop-up overlays** of web apps: `PopupWindowController.qml` | stack of views | create, close | limit of three |
| **Web app container**: `webapp-container.cpp`, `url-pattern-utils.cpp`, `scheme-filter.cpp`, `intent-parser.cpp` and its QML | options of the web app, page shown, scheme filter | start from a command line, pass URLs on, navigate | options that depend on each other, a URL that is translated between the guard and the navigation |
| **Click hooks**: `src/click-hooks/` | copies of the hook files processed, data of the web apps | run after packages have changed | stopped anywhere, packages that change meanwhile |
| **Accounts**, **web view**, **previews**, **search engines**, **settings pages** | little or none of their own | | left out, see below |

How they interact: pages call `HistoryModel.add` when they have loaded; the
history views and the limit proxy listen to the row changes of the models;
`morph-browser.qml` holds the windows, each with one `Browser.qml` and one
`TabsModel`, and saves their tabs in the session file; `MemInfo` makes it unload
tabs; `SingleInstanceManager` hands the URLs of a second start to the first.

What makes each correct: the history on disk is what some first part of the
operations asked for makes of it, and the model once loaded shows what all of them
will make of it; a window always has a current tab, shown and
loaded; a view that replays the announced changes has the rows of its model; one
instance runs per profile; a page of downloads is neither skipped nor repeated;
cookies are reported once; a web app shows its own pages only.

## Modules

| module | models | depends on |
|---|---|---|
| `HistoryModel` | `history-model.cpp`, both threads | `Selection` |
| `WriteBehind` | abstract: what a store that writes behind its user promises | |
| `StatementLog` | abstract: what a worker promises whose statements may fail | |
| `HistoryProofs` | theorems on `HistoryModel`: types, order, timer, its file and its worker | `MCHistory`, `SelectionProofs` |
| `Selection` | the elements of a list at some of its positions | |
| `SelectionProofs` | lemmas on them, and on sets of numbers | `Selection`, TLAPS |
| `TabsModel` | `tabs-model.cpp` | |
| `BrowserTabs` | the tabs of one window | `TabsModel` |
| `BrowserTabsProofs` | theorems on `TabsModel` and `BrowserTabs` | `MCBrowserTabs`, TLAPS |
| `Session` | all windows, the session and its file, starts, quits and crashes | `TabsModel` (instance) |
| `SessionProofs` | theorems on `Session` | `Session`, TLAPS |
| `LimitProxy` | `limit-proxy-model.cpp` and a view on it | |
| `Downloads` | `downloads-model.cpp`, its database and the files | `Selection` |
| `DomainPermissions` | `domain-permissions-model.cpp`, the requests and dialogs that use it | |
| `DomainSettings` | `domain-settings-model.cpp` and `domain-settings-user-agents-model.cpp` over one file | |
| `StoresProofs` | theorems on `Downloads`, `DomainPermissions`, `DomainSettings`, `Bookmarks` and `LocalCookies` | `MCStores`, `SelectionProofs` |
| `Bookmarks` | `bookmarks-model.cpp`, the list of folders, the groups | `Selection` |
| `HistoryViews` | the lists of domains and of days, the text filter | |
| `FaviconFetcher` | `favicon-fetcher.cpp` | |
| `ViewsProofs` | theorems on `LimitProxy`, `FaviconFetcher` and `HistoryViews` | `MCViews`, `SelectionProofs` |
| `SingleInstance` | `single-instance-manager.cpp`, several processes | |
| `CookieMove` | `oxide-cookie-helper.cpp`, `cookie-store.cpp`, `chrome-cookie-store.cpp`, `online-accounts-cookie-store.cpp` | |
| `LocalCookies` | `local-cookie-store.cpp` | |
| `ProcessesProofs` | theorems on `SingleInstance` and `CookieMove` | `MCProcesses`, TLAPS |
| `WebappContainer` | start of a web app, patterns, filters, URLs passed on | |
| `ClickHooks` | the hook program, step by step | |
| `WebappsProofs` | theorems on `ClickHooks` and `WebappContainer` | `MCWebapps`, `SelectionProofs` |
| `MCHistory`, `MCBrowserTabs`, `MCSession`, `MCViews`, `MCStores`, `MCProcesses`, `MCWebapps` | small instances for TLC | the modules named above |

`MCViews`, `MCStores`, `MCProcesses`, `MCWebapps` and, for the switch between
tabs, `MCSession` hold several components side by side: `part`, chosen once, says
which one runs, and the others stay as they are made.  The components in one of
them share neither state nor files, so that every behaviour of their product
projects on behaviours of the parts, and a property of one part holds of the
product exactly when it holds of the part.  Components that do interact are in
one module (`DomainSettings`, `Bookmarks`, `HistoryViews`, `Session`) or
composed: `BrowserTabs` and `Session` are built from the operators of
`TabsModel`, `HistoryViews` from the signals of the history.

Definitions whose names end in `Mut` are plausible bugs, used to see that the
properties notice them; nothing else refers to them.

### HistoryModel

Each slot, method or timer is an action.  The threads share nothing: `toWorker`
and `toUi` are the queues of queued signals.  `FlushNext` executes one statement
of `doFlush`, which SQLite commits by itself, so that `Crash` can come between
two of them; `FlushFails` is a statement that cannot be prepared or executed
(dropped, the loop goes on).  `Quit` is the destructor of the model; the worker
thread then leaves its event loop between two of its turns (`ThreadFinish`) and
its destructor flushes (`worker = "closing"`).  The title stands for title and
icon, which the code treats alike.  Time is in seconds, the resolution of the
table; `TicksPerDay` makes days.  `InitialTables` are files with at most one row
per URL, as `add` leaves them, and at most `MaxStored` rows.

The parameters `EarlyUse`, `LegacyRows` and `Failures` switch three situations
on: commands before the stored rows have been delivered, rows older than the
`domain` column, failing statements.

`WriteBehind` is the promise: the store has been asked for a list of contents, the
first of which is on disk; contents reach the disk in order, and a stop loses
some of the last.  The refinement mapping `Versions` is the table now and after
each operation of the backlog (pending operations, then those still queued).  It is
a promise about operations, not about commands: `clearAll` sends two, and a stop
between them leaves an empty history with the old set of hidden URLs, which the
list on the UI thread never had (`Disagreements`).

`StatementLog` is what the worker promises also when statements fail: a log of
statements of which only the oldest is ever tried, once; it has its effect on the
file or none; nothing else writes to the file; what is left in the log may be lost
with the process, all of it at once.  The log is `pending`, the file is both tables
(`Disk`).

### TabsModel

The operations are operators from a model to a model, so that the windows reuse
them.  `bound` is what a QML binding on `currentTab` holds: it is read again only
when `currentTabChanged` is emitted, so `BoundIsCurrent` says the signals are
emitted whenever they must be.

### BrowserTabs

An event of the UI thread is an action, with everything the handlers it runs do:
`Stacked` is the handler of `currentIndexChanged` that, in narrow mode, moves the
current tab to the top inside the signal; `PointNext` is the binding `nextTab`
and `aboutToShow`, which loads the tab; `CloseLast` includes the tab opened in
place of the last one and the window closed by `countChanged`.  A switch is
`SwitchLater` (index and timer), then `SwitchTimeout`; from the list of tabs it
is `SelectRecent`, then `AnimationEnd` (the animation and its 1 ms timer as one).
`StartDrag` and `EndDrag` are the bottom edge and the button of the same place.
A tab restored by "undo close" keeps the identity of the tab that was closed.
`Modes` says which layouts (`wide`) the window takes, `Unloads` whether memory
gets low, `MoveOuts` whether tabs move to other windows.  `WindowInit` makes a window
with up to `MaxMade` tabs, any of them current and any others loaded, as a new
window, one opened with several URLs and a restored one are: the handler of the narrow
stack is off until the window is shown.  `NarrowStack` is therefore about events: one
that changes the current index, or the layout, leaves the current tab at the top.

### LimitProxy

A source announces a change of its rows, makes it, and announces that it is
made: `SourceBeginsInsert` and `SourceBeginsRemove` are the slots called before
(they choose what to announce), `SourceInserts` and `SourceRemoves` the change
with the slot called after.  `view` is what the module adds: a list that does
what Qt's views do when they are told of a change, and reads from the proxy the
rows it is told are new or changed.  The source may be any model of at most
`MaxRows` different rows, inserted and removed in ranges, changed in place,
sorted again or replaced.  Not modelled: limits below -1 and sources that move
rows, since no QML file sets such a limit, and the models used as sources
(`BookmarksModel`, and sort and filter proxies) do not announce moves.

### Session

A window is a record of whether it is incognito and of its `TabsModel`; `win` has
the windows on the screen, `allWindows` the list of `morph-browser.qml`, and they
differ when the code forgets one.  A handler is one step with all it calls, also
what it runs again inside itself: closing a window removes its tabs, the handler
of `countChanged` closes it once more, and the list is spliced twice.  `armed` is
`delayedSessionSaver`; `SaverFires` its time-out.  `Added` says at once what the
loop that adds tabs one by one leaves; `AtEnd` and `OnTop` what the loop of `init` does, which also
makes each tab the current one, in a wide window and in a narrow one that is shown;
`MCSession` has TLC compare them with the loops (`AddedIsTheLoop`).  `Kept` is the loop that saves the windows.  `Start` takes the options of a
command line, restores the session when it can be locked and `--new-session` is not
given, and opens the URLs given; `OnNewInstanceLaunched` is what a second
start passes on.  `Crash` may come between any two handlers.

### Downloads, DomainPermissions, DomainSettings, Bookmarks, LocalCookies

These models execute their statements at once, so that a step changes the rows in
memory and the table together, and a restart reads the table again.  Where an
operation executes several statements the process may stop between two of them
(`moveToDownloads`, `deleteDownload`, the removal of a user agent).

- `Downloads`: the table is a sequence in the order of its query, `fetched` the
  offset of the next page.  The query orders by `created`, in whole seconds: rows of one
  second come in the order in which they were inserted, whereas the model puts each one
  at the top.  `now` is the second of the clock, which does not go back; `QuickStart` says
  whether the browser can start again in the second in which it has stopped.  `files` are the paths at which there is a file: a
  finished download without one is not listed.
- `DomainPermissions`: `asked` are the dialogs that are open, in normal and
  incognito windows, for requests that are not decided yet.
- `DomainSettings`: settings of domains and user agents are two models with a
  connection each to one file.  `orphaned` says that the first one has open a
  file that the second has removed.
- `Bookmarks`: URLs and folders are numbers in their order, dates are ranks.
- `LocalCookies`: the key of a row is a time in microseconds, from a clock of
  milliseconds.  `InsertFails` says whether an `INSERT` may fail for another reason than a
  key that is taken; the code does not look.

### HistoryViews, FaviconFetcher

`HistoryViews` is driven by the operations of the history: each changes its
entries and runs the slots of the lists in the order in which they are connected.
`Proxied` gives the list of days the rows of a sorting proxy, as in the browser;
otherwise it follows the history, as its tests do.  `FaviconFetcher` records each
reply with the URL it was started for, of which the code keeps no track; an icon
is named by the URL it belongs to, so that an icon in a wrong place is seen.

### SingleInstance, CookieMove

A process of `SingleInstance` goes through the steps of `run()` one at a time,
since the file system and the other processes act in between: binding a socket
creates the file, a connection is accepted by the kernel once the server listens,
and closing a server removes the file of that name whose ever it is.  A starter
waits for the acknowledgement a limited time, which the running process may
exceed.  What a process has not read is lost when it stops; `ArgumentsHandled` excuses
the stop of the very process that the arguments were passed to, and no other.  `CookieMove` has one request per host, answered in any order or refused
at once, and signals that are queued.

### WebappContainer, ClickHooks

`WebappContainer` starts from every command line of at most `MaxArgs` options,
reads the extra configuration, makes the patterns, and then lets pages navigate
(`Accepts`) and second starts pass URLs on (`openUrls`, with the scheme filter
and the intent translated first).  URL patterns are sequences of labels, one
of which may be a wildcard; URLs are texts.  `Match` is `url.match(pattern)` of the
regular expression that the pattern becomes: it looks for the pattern anywhere, also in
the path (`OtherUrls`), and the dots of a pattern fit any character (`Fits`).  A file
that a second start names is a local URL, or a host when its path is not absolute
(`AsHost`).  `ClickHooks` makes its two lists, then handles
removed, new and changed apps one by one, with the directives of an app and the
copy of its file as two steps; `Crash` can come between any two.

## Runs

| run | bounds | shows |
|---|---|---|
| `history` (`MCHistory.cfg`) | 2 URLs in 2 domains, 1 title, at most one row in the file at first, 2 commands, 2 seconds, 2 process runs | `ShownIsStored`, `UniqueUrls`, `HiddenFlags`; `FileFollowsModel`, the refinement of `WriteBehind`; `WorkEnds` |
| `history_early` (`MCHistoryEarly.cfg`) | the same with 2 titles, one process run, early use, old rows and failures; titles are interchangeable, and URLs with their domains | `TypeOK`, `Chronological`, `PendingIsArmed`; `StatementsInOrder`, the refinement of `StatementLog` |
| `tabs_model` (`TabsModel.cfg`) | 5 tabs, every index from -1 to one past the end | `CurrentExists`, `BoundIsCurrent`, `CurrentKept` |
| `tabs` (`MCBrowserTabs.cfg`) | 4 tabs, 1 closed tab remembered; made with up to 2 tabs; a wide window with unloading and moves, and one that takes both layouts, without | `WindowHasCurrent`, `NarrowStack`, `WideCurrentIsLoaded` |
| `session` (`MCSession.cfg`) | 2 tabs, 3 windows, 2 URLs of a command line, 2 starts; a narrow incognito window with 3 tabs | `WindowsListed`, `SavedWhenQuiet`, `NoIncognitoTraces`, `SessionSaved`; `SwitchEnds` |
| `views` (`MCViews.cfg`) | 3 URLs in 2 domains, 3 days; 2 icons, 2 or 3 replies; 5 rows, limits -1 to 5 | `DomainsShown`, `DatesShown`; `IconsShown`; `ViewIsFirstRows`, `AnnouncedFits` |
| `stores` (`MCStores.cfg`) | 2 downloads at 3 paths, pages of 1 row, a second that may pass in each start and one between them, downloads, paths and domains interchangeable, files that can be moved and, in one start, files that cannot; 2 domains, 2 dialogs; 2 user agents; 2 bookmarks, 2 folders; 3 cookies; 2 starts each | `DownloadsKept`, `PermissionsInForce`, `IncognitoUnrecorded`, `SettingsKept`, `BookmarksKept`, `CookiesKept` |
| `processes` (`MCProcesses.cfg`) | 4 processes of one application, or 2 of each of two; 2 stores, 3 cookies of 2 hosts | `InstancesRight`, `ArgumentsHandled`, `MovedTruthfully`, `AllEnds` |
| `webapps` (`MCWebapps.cfg`) | 2 apps of a package, 3 changes, 1 stop; every command line of 3 options, 2 starts in 2 sessions | `InSync`, `DeletedAsAsked`; `NavigatesWithin`, `LocalStaysLocal`, `OpenedIsShown` |
| `tabs_stale` (`BrowserTabsStale.cfg`) | 2 tabs | finding: `SwitchesToNextTab` fails |
| `hooks_upgrade` (`MCHooksUpgrade.cfg`) | as `webapps` | finding: `UpgradeCleans` fails |
| `narrow_stack` (`SessionStack.cfg`) | as `session`, one start | finding: `CurrentOnTop` fails |

Why the bounds are enough.  The operations of the history act on one URL, one day
or one domain, so two of each show every interference of an operation with its
own and with another row; two commands and the two statements of `clearAll` give
up to four operations in the queues, and a second run of the process shows what a
crash left.  The file holds no row or one at first (`MaxStored = 1`); commands add
the second, and in `history` the second run loads both and may act on them; the
theorems hold for any number.  In a list of tabs an operation distinguishes the current tab, the
tabs before and after it and the ends: four tabs have them all, and the theorems
hold for any number.  Three windows are a first, a last and one between; two
starts show what a crash leaves to the next.  Five rows and limits up to five put
both ends of a change before, at and after the limit and the end of the list;
`LimitedView` holds for any number.  Two downloads and pages of one row are a page
that is read and one that is not, with rows added and removed between them; a third
path is one that no download has, to which a file can be moved or fail to be;
`DownloadsStayKept` holds for any number of each and any size of a page.  Domains,
folders, agents and paths act on each other by being the same or not: two of each.
Four processes can be three that race and one that comes later, and two cookies of
one host with one of another are requests that fail or succeed apart.  Three
redirections instead of five (`MAX_REDIRECTIONS`) show the counter below, at and
reset from its limit.  The numbers
named `Max...` are the bounds; each caps a counter in a guard.

Deadlock is not checked where the system may stop: a process that is down and not
started again, a window that is closed, a bound that is reached; `tabs_model`
checks it.

Fairness.  Of the history: both threads run (weak fairness of the worker's steps
and of the delivery of queued signals); nothing obliges the user to act or the
process to quit or start.  The flush timer is restarted by each operation, so
operations less than a second apart for ever would postpone the flush for ever; in
the model commands are finitely many, and `WorkEnds` says what happens when they
stop coming.  Of a window: the timer of the switch and the animation end;
each request restarts the timer, so `SwitchEnds` is stated for users who do not
act for ever.  Of the session: the timer of the save expires when it is left
alone.  Of a process that starts: it goes on, however long it is kept waiting
(each wait has a time limit).  Of the cookies: the engine answers and the event
loop delivers what is queued, as the code takes for granted; nothing is said of
the order.  Of the downloads: the view asks for the next page, which it does as
long as `canFetchMore`.  Only one part of a sum runs, so that
one condition of fairness serves an action of each.

## What the runs found

1. The delayed switch uses an index (`tabs_stale`): a tab moved, inserted or
   closed within 50 ms, or during the animation of the list, sends the user to
   another tab than the one the chrome shows.
2. Hooks that ask for the deletion of data when an app is installed or updated
   delete nothing (`hooks_upgrade`): the name of the directory is made from a file
   name that has a version in these phases.
3. A narrow window is not always a stack (`narrow_stack`): one that is made with several
   tabs sets its current index before it is shown, when the handler that moves the
   current tab to the top is off.

## Disagreements

Claims of the documentation, of comments or of what a reader expects that the
model refutes, and under which values of the constants TLC shows it.  The runs
above exclude these cases by the constants named here, or check what still holds.

| claim | refuted with | what happens |
|---|---|---|
| `UniqueUrls` ("If an entry with the same URL already exists, it is updated") | `HistoryModel`, `EarlyUse = TRUE` | a page visited before its stored row has arrived is listed twice |
| `ShownIsStored` | `HistoryModel`, `LegacyRows = TRUE` | rows without a domain disappear from the model when their domain is removed, not from the file, and come back at the next start |
| a command reaches the file whole or not at all | `HistoryModel`, a `Crash` between the two operations of `ClearAll` | `clearAll` is two statements: the history is gone and the hidden URLs are not, a content that the model never had (`FileFollowsModel` is about single operations, and allows it) |
| `ClosedAreClosed` | `BrowserTabs`, `MoveOuts = TRUE` | a tab moved to another window counts as closed: "undo close" opens it a second time |
| `CurrentIsLoaded` | `BrowserTabs`, `Modes = {FALSE}` or both | `switchToTab` does not load the tab while the list is visible, and the list can be left without a switch |
| `WindowsListed` | `Session`, `CloseBackground = TRUE` | closing a wide window that is not the active one splices the list twice at one index: the window after it is lost from the list |
| `CurrentOnTop` ("the current tab is always at the top") | `Session` (run `narrow_stack`) | a narrow window made with several tabs, as a restored one is, sets its current index while the handler that moves the tab to the top is off |
| `AllListed` | `Downloads`, `SharedPaths = TRUE` | downloads are removed by path: two rows go and the offset falls by one, a page is skipped |
| `ListedAsStored` | `Downloads`, `RenameFails = TRUE` | the table is given the path the file could not be moved to |
| `OffsetSplits`, `MostRecentFirst` | `Downloads`, `RenameFails = TRUE`, three paths | after that, deleting the finished download removes no row by its path, yet lowers the offset: a row that is listed is read again, and listed twice. The attempt to prove the two found it |
| `OffsetSplits` | `Downloads`, `QuickStart = TRUE` | two downloads of one second, one before a restart and one after it, before the first has been read again: the query lists the new row after the old one, the offset counts it as the first, and the old one is not read |
| the list after a restart is the one before | `Downloads`, two downloads of one second | the model lists the second one first, the query the first one: their order changes with a restart (`MostRecentFirst` is about different seconds) |
| `DecisionsStored` ("stores domain specific permissions") | `DomainPermissions` | a domain first asked for in an incognito window has no row; a later decision in a normal window updates none |
| `KeptAfterReset` | `DomainSettings`, `Resets = TRUE` | the second model removes the file that the first has just opened: what is set later is lost with the process |
| `EffectiveKept` | `DomainSettings`, `DefaultFirst = FALSE` | the container opens the database before it sets the default zoom: factors are compared with the wrong default and dropped |
| `OneInstance` ("Ensure only one instance of the app is running") | `SingleInstance`, `Overlap = TRUE` | two starters remove each other's socket and both run |
| `HandledBySameApp` | `SingleInstance`, two applications in `LongNames` | two applications with long names share the short one |
| `SortedByUrl` ("sorted alphabetically at all times") | `Bookmarks` | the order is that of the dates |
| `ViewFollows` | `HistoryViews` | the row announced for a new domain is its alphabetical place, it is stored at the end |
| `DatesExact` | `HistoryViews`, `TopLater = TRUE`, or `Proxied = FALSE` | a page on top visited again on another day, or rows that move, leave a day without a visit in the list |
| `IconIsOfUrl`, `CacheIsRight`, `OnlyReply` | `FaviconFetcher`, `QueuedChange = TRUE` | a redirection that is queued while the URL changes downloads the old icon for the new page |
| `OncePerMove` | `CookieMove`, one `BackendOf` for two stores | the answers to one helper are taken for those of the other |
| `SetIsStored` | `LocalCookies`, `SameMs = TRUE` | cookies set twice in one millisecond have the same key and are dropped in silence |
| `SetIsStored`, `CookiesKept` | `LocalCookies`, `InsertFails = TRUE` | the result of `exec()` is not looked at: cookies are said to be set that are not |
| `UpgradeCleans`, and that updates are noticed (`InSync`) | `ClickHooks`, `Built = TRUE` | a hook file older than the copy of its predecessor is not seen as an update |
| `OwnDomains` (the grammar of `<hostpart>`) | `WebappContainer` | the regular expression made of a pattern is not anchored, and its dots are not escaped: a pattern fits a host in which another character stands for a dot, and a URL that has one of its own in its path |
| `OnlyGivenPatterns` | `WebappContainer` | when none of the patterns given is valid, nothing is filtered |

## Proofs

Each proof module goes through the instance that TLC checks (`MC...`), with its sets
and bounds left as they are declared, so that a theorem names the very property of
the run.

`BrowserTabsProofs` proves of `TabsModel`, for any set of tabs and any sequence of calls with any
index:

- `ModelInvariant`: `Spec => [](TypeOK /\ CurrentExists /\ BoundIsCurrent /\ NoDuplicate)`.
  The conjunction is inductive; the proof goes through `Good(m)`, the same for a
  model `m`, shown to be preserved by each operation on its own
  (`InsertGood`, `RemoveGood`, `MoveGood`, `WithCurrentGood`).  `NoDuplicate`
  rests on lemmas that say which position of the old list each position of the
  new one comes from.
- `OnlyAskedChanges`: `Spec => CurrentKept`, from the same invariant.

The assumption is `TabAssumption` (the null pointer is not a tab).

`ViewsProofs` proves `LimitedView`, `Spec => [](ViewIsFirstRows /\ AnnouncedFits)`,
for any rows, bound on their number and limit.  The two properties are not
inductive: between the two announcements of a source nothing relates the members
of the proxy to the change.  The invariant `Inv` adds what has been told for a
pending change: `InsertTold` and `RemoveTold` list the four cases of the slots
with the ranges each one keeps, `NothingTold` is the rest.  One lemma for each
case shows that a view that does as it is told then has the first rows of the
new source; they rest on lemmas that give the length and the elements of
`Inserted`, `Removed`, `ViewInserts` and `ViewReads`.

`HistoryProofs` proves, for any URLs, titles, domains, length of a day and
bounds, and for each value of `EarlyUse`, `LegacyRows` and `Failures`:

- `TypeCorrect`: `Spec => []TypeOK`, by one lemma for each kind of step.  It needs
  what `Keep` returns (`KeepIs`, in `SelectionProofs`).
- `PendingArmed`: `Spec => []PendingIsArmed`.  `DoResetDatabase` stops the timer,
  so the invariant `ArmInv` adds `ResetFirst` (that signal is at the head of the
  queue, with nothing pending, or nowhere) and `NothingUnset` (it is sent once).
- `StaysChronological`: `Spec => []Chronological`.  The invariant `SortInv` adds
  that no time is later than the clock (`PastTimes`), that the rows on their way
  are sorted and not newer than any entry (`RowsOnTheirWay`), and that until the
  rows are listed no operation of this run has reached the table (`FetchFirst`).
  This is why a visit made while the rows arrive does not break the order: an
  entry of this run is never older than a row of an earlier one.

The assumptions are those of `HistoryAssumption`: finitely many URLs, each with
one domain, and a day that is not empty.

It goes on with the file, from the same assumptions.  It reads
the list of contents `Versions` one operation at a time: `OpsIs` and what follows
say what adding, taking and dropping operations does to the backlog, and each of
the operators of a statement what it does to a table.

- `FileFollows`: `~Failures => (Spec => FileFollowsModel)`, the refinement of
  `WriteBehind`.  Each step adds a content at the end, writes the second content
  and drops the first, loses some of the last, or stutters; the invariant is
  `ArmInv`.  A statement that fails writes nothing and is dropped, which is not a
  loss at the end: hence the condition.
- `StatementsStayInOrder`: `Spec => StatementsInOrder`, the refinement of
  `StatementLog`, without that condition or any other: `doEnqueue` gives a
  statement, a turn of the loop of `doFlush` executes or skips one, a crash, an exit
  and a start lose those left, and every other step stutters.  `TypeOK` is the
  invariant it needs, for what `Append` does to a list.
- `FlagsAreRight`: `~EarlyUse => (Spec => []HiddenFlags)`.  `LoadInv` adds that the
  hidden URLs arrive before any entry (`HiddenEarlier`), that nothing is
  listed while the tables are being read (`FetchedIntoEmpty`), and that `loaded` is
  the last signal of a start (`LoadedLast`).
- `UrlsAreUnique` and `StoredIsShown`, under `~EarlyUse /\ ~LegacyRows /\ ~Failures`.
  `StoreInv` adds `Goods` (no content has a URL twice or a row without a domain),
  `Distinct` (nor have the rows under way and the entries together) and `Mirror`
  (the last of the contents is what the model shows).

The three conditions are situations in which the code does not do what the
property says (`Disagreements`; a failed statement leaves the file behind what is
shown), not simplifications.

Of a window, `BrowserTabsProofs` proves, for any tabs and for every value of `Modes`, `Unloads`,
`MoveOuts`, `Incognito` and `MaxClosed`:

- `AlwaysATab`: `WindowSpec => []WindowHasCurrent` and `AlwaysAStack`:
  `WindowSpec => NarrowStack`, from the one invariant `WindowInv`: the types, the
  invariant `Good` of a model and a list of tabs that is not empty.  The last holds
  together with the others only: `CloseTab` on the last tab opens another one before it
  removes it.  `NarrowStack` is an action property, for windows made in any of
  the ways of `WindowInit`: `StackStep` shows it of each event that changes the tabs of a
  narrow window, or its layout.
- `PartLoadedWhenWide`: for `Modes = {TRUE}`, `MCSpec => []WideCurrentIsLoaded`.
  `WideInv` adds that no list of tabs, drag or animation exists in a wide window,
  which is why every switch there loads the tab.  In other layouts the claim is
  refuted (`Disagreements`).

`SessionProofs` proves, for any tabs, windows, URLs and starts, from
`~CloseBackground` (otherwise a window is lost from the list, `Disagreements`) and
`SessionAssumption` (the null pointer and the mark of a private tab are not tabs):

- `AllWindowsAreListed`, `QuietMeansSaved`, `IncognitoLeavesNothing`, from
  `SessionInv`, the conjunction of `Types` (each window has a good list of tabs),
  `Listed`, `Quiet` and `Traced`.  `Quiet` follows a session through the save, the
  restore and every handler that changes tabs: either the handler arms the timer or
  nothing that is saved has changed.  What the loop over the windows saves is a
  function over numbers, about which `Kept`'s lemmas go by induction.

`StoresProofs` proves of `MCStores`, for any domains, user agents, downloads, paths
and numbers of starts:

- `PermissionsStayInForce` and `IncognitoAddsNothing`, from `PermissionsInv`: each
  row has an entry with the same permission, and every dialog is for a domain that is
  not decided.
- `SettingsAreKept`: `Spec => SettingsKept`, an action property, from `SettingsInv`:
  domains refer to agents that exist, and the settings are those of the table unless
  its file has been removed and replaced by an empty one.  `AppliesAgain` is the step
  of a start.
- `DownloadsStayKept`, for every size of a page (`PageAssumption`).  It assumes a browser that does not start
  again in the second in which it has stopped (`QuickStart = FALSE`, `Disagreements`).
  `DownloadsInv` has, of files that can be moved, `WellKept`: the offset splits the table, entries are in
  the order of the rows and each is its row, and besides that no identifier and no path
  is there twice (`OnceEach`) and no path is that of two downloads (`SameOwners`), without
  which a removal by path could remove more than one row and the offset fall by one.
  `Picks` says that a list has elements of another in their order: what removals
  preserve.  Of the seconds it has that no row is of a later one than the clock
  (`InTime`), and that those read from the table, and no others, are of an earlier one than
  the start (`Latest`, `Older`): so a new row comes first.  Of files that cannot be moved it has only what is true then: nothing
  incognito is stored.
- `BookmarksStayKept`: `Spec => BookmarksKept`, from `BookmarkAssumption` (names of
  folders are numbers other than 0).  In `BookmarksInv`, `Agrees` says that some order of
  the rows is the one `ORDER BY created DESC` gives (`Sorts`: by date, then by position)
  and that each bookmark is the row at its place in it (`Rowed`); `QueryIs` is the lemma
  that there is one such order only, so that what a restart reads is what is shown.
  `FoldersGood` relates names by id, the table of folders, which may have a name twice, and
  the sorted list: an id that is in use keeps its name, though `insertNewFolderInDatabase`
  answers with the first row of the name and not with the one it has inserted.  From the
  same invariant, `FoldersStayNow` has that no step takes an id from its folder, the
  action property in `BookmarksKept`: rows refer to folders by id.
- `CookiesStayKept`: `Spec => CookiesKept`, an action property of the local store, from
  `CookiesInv`: the times of all rows come before the first millisecond in which the
  store has not been written to, so that no cookie of a call meets a time that is taken.
  It needs `CookieAssumption`, that one call has no more cookies than a millisecond has
  microseconds, and calls that come in different milliseconds; the loop over the cookies of
  a call is a function over numbers, about which the lemmas go by induction.

`ViewsProofs` proves `IconsStayRight`, `MCSpec => []IconsShown`, for any pages with
icons, from `IconAssumption` (the marks of no page and of an icon that is empty or old
are not pages).  What is shown and what is cached is right at every moment because of
what is under way: the reply the fetcher knows is for the page that is shown, or for one
it was redirected to (`Fetches`), or there is none (`AtRest`); `IconsInv` says so, for
the fetcher whose events come one by one.  Of the one whose changes are queued it has
that its reply is never gone.

It also proves, of the history as the browser lists it and of one that is not sorted, for
any pages, any domains of them (`DomainAssumption`) and any number of days:

- `DomainsStayRight`: `MCSpec => []DomainsShown`.  `DomainsInv` has, besides the types of
  the entries, that the list names the domain of each entry once and no other, and that
  what is said of a domain is its first entry (`Listed`).  `FirstAfterRemoval` and
  `FirstBelowTop` say what becomes of the first entry of a domain when a row goes or
  comes to the top.
- `DatesStayRight`: `MCSpec => []DatesShown`.  `DatesInv` has that entries are ordered by
  their day with each page once (`Ordered`), without which the list would be right
  about the wrong rows; that days are in descending order after that of all days
  (`Dated`, `Descends`); and, of the list of the browser, that its days and the pages
  under each are those of the rows that match (`Exact`).  Of the list whose rows move it
  has only that no row is missing (`Covers`): `onRowsMoved` looks for days to
  remove strictly between those of the neighbours, and may leave one without a visit.
  `EntriesInserted` is an induction over the rows that are inserted one by one.

`ProcessesProofs` proves, from `ProcessAssumption` (the marks of no file and of a stale
one are not processes):

- `InstancesStayRight`: `FairSpec => []InstancesRight`, for any processes.  `TurnsInv`
  has for starts that take turns that the file is of the process that owns the socket
  and that nobody recovers while one runs; `CrowdInv`, for starts that overlap, where each
  process stands (`Placed`), that arguments are passed on within an application (`Passed`),
  and that as long as none of an application has stopped its file leads to one that
  runs or is about to (`Settled`).
- `MovesStayTruthful`: `FairSpec => []MovedTruthfully`, for any cookies of two hosts and
  any stores.  `CookiesInv` says of each store which of its cookies wait, are
  refused in the queue or with the engine (`Untouched`, `Waiting`, `Told`).

`WebappsProofs` proves of `MCWebapps`:

- `HooksStayInSync`: `Spec => []InSync`, for any apps and bounds.  The invariant
  `HooksInv` has two ideas besides the types: a copy that is not older than the file is
  a copy of it (`NotOlder`), and, as long as nothing has changed since the hook listed
  the folders, each app is on the list of this phase or a later one, or is
  in the state it is to be in (`Undisturbed`).  It needs files that have the time
  of their change (`Built = FALSE`, `Disagreements`).
- `HooksDeleteAsAsked`: `Spec => DeletedAsAsked`, an action property, with `CleanInv`:
  between the directives of a removed app and the removal of its copy, the data it
  asked to delete stays away unless an app of the package is installed.  From
  `IdAssumption` (the name of an app is not that of its package).
- `WebappsNavigateWithin`, `LocalAppsStayLocal`, `WhatIsOpenedIsShown`: for any bound on
  the options, starts and sessions.  `ContainerInv` relates the command line to what is
  shown: the patterns in use are among those given and are safe (`SafeAmong`), a local
  application has neither patterns nor a name, the page shown would be accepted now, and
  what has been asked for is the home page or was let through.  `MatchStays` is the lemma
  about patterns: what a safe pattern matches has a URL of its own in its path, or a host
  with fewer dots than the pattern, or the host of the pattern but for the first label,
  or for the country of Google.

`SelectionProofs` has what these share: how a finite set of positions is listed in
increasing order, that there is one such list only, and what `Keep` returns.  Its
`SetInduction` and `LeastNat`, like the induction over numbers in `SessionProofs`, are
stated about sets and rest on `WFMin`, so that they can be used where the library's
theorems, whose parameter is an operator, cannot.

Only model-checked: liveness (`WorkEnds`, `SessionSaved`, `SwitchEnds`,
`ArgumentsHandled`, `AllEnds`), which TLAPS does not reach.
Every invariant and every action property of the passing runs has a theorem.  The
`TypeOK` of `Bookmarks`, `Downloads`, `DomainPermissions`, `DomainSettings` and
`LimitProxy` says what the values of their variables are, for the reader; the
invariants of the proofs have the types that these need.

## Not modelled

Values and wording: titles, icons, URLs and domains are model values.  SQL is
modelled by what each statement does to the table.

- Pop-up overlays of web apps (`PopupWindowController.qml`): a stack of at most
  three views that the engine asks for; user interface.
- Accounts of web apps: a dialogue with a service that is not in the repository.
- Web view and web context: glue around QtWebEngine, which decides what happens.
- Previews, thumbnails and file operations: input and output, and readings of the
  system; of these the reading of the memory is the choice to unload a tab.
- Search engines, suggestions, the address bar: parsing and user interface.
- Settings, dialogs and other pages: user interface over the models above.
- A file system that loses what was written before a rename: a save of the session
  is one step.
- Of the tabs of a window: previews, focus, find in page.  Of the container:
  options that only set what is shown, patterns for one path or with a "/" in a label
  (`isValidWebappUrlPattern` lets one through in the second and the third), the overlay
  for external URLs; whether a web app runs for the first time in a session, which
  decides on the session cookies but is not given to the web context.
- A clock that goes back: times of the history, of downloads and of cookies never
  decrease, within a run and between runs.

## Plan

What is left: the parts of the browser listed above as not modelled, and a
specification of what the history shows after a statement has failed, of which
`StatementsInOrder` says what the file is and `FlagsAreRight` and `StaysChronological`
what the list keeps.
