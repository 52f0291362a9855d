------------------------------- MODULE Session -------------------------------
(***************************************************************************)
(* The windows of the browser and the session they are restored from       *)
(* (morph-browser.qml, session-storage.cpp and the start in                *)
(* webbrowser/morph-browser.cpp).                                          *)
(*                                                                         *)
(* A window is a record: whether it is incognito, and its TabsModel.  A    *)
(* window that has been closed is gone from the screen, and from `win`; it *)
(* should be gone from allWindows.  The session is what its file holds: a  *)
(* list of windows, empty when it has been cleared.  Everything runs on    *)
(* the UI thread; a handler is one step with all it calls, also the        *)
(* handlers it runs again inside itself.                                   *)
(***************************************************************************)
EXTENDS Integers, Sequences, FiniteSets, SequencesExt, Functions

CONSTANTS Tab, NoTab,
          Private,          \* a tab of an incognito window, whose identity does not matter
          MaxWindows,       \* bound: windows at one time
          MaxPrivate,       \* bound: tabs of an incognito window
          MaxUrls,          \* bound: URLs of one command line
          MaxRuns,          \* bound: starts of the browser
          CloseBackground   \* can a wide window be closed that is not the active one?

ASSUME SessionAssumption == NoTab \notin Tab \cup {Private} /\ Private \notin Tab

VARIABLES wide,         \* browser.wide: desktops are wide, phones narrow
          win,          \* the windows on the screen, by number
          allWindows,   \* their numbers, most recently active last
          session,      \* what the file of the session holds
          locked,       \* session.locked
          armed,        \* is delayedSessionSaver running?
          traces,       \* does DownloadsModel have downloads of incognito windows?
          state,        \* "down", "running", or "ending" when the last window has closed
          runs          \* starts of the browser so far

vars == <<wide, win, allWindows, session, locked, armed, traces, state, runs>>

T == INSTANCE TabsModel WITH Tab <- Tab \cup {Private}, model <- win

Ids == 1 .. MaxWindows
Saved(w) == [tabs |-> w.model.tabs, current |-> w.model.current]   \* serializeWindowState
Normal(w) == ~w.incognito
NormalIds == {w \in DOMAIN win : Normal(win[w])}
TabsOf(s) == UNION {Range(s[i].tabs) : i \in DOMAIN s}

Init == /\ wide \in BOOLEAN
        /\ win = <<>> /\ allWindows = <<>> /\ session = <<>> /\ locked = FALSE
        /\ armed = FALSE /\ traces = FALSE /\ state = "down" /\ runs = 0

-----------------------------------------------------------------------------
(* Tabs and their signals *)

\* Tabs for one window: new ones, or private ones.
NewTabs(incognito) ==
  LET shown == UNION {Range(win[w].model.tabs) : w \in DOMAIN win}
      full == \E w \in DOMAIN win : win[w].incognito /\ T!Count(win[w].model) >= MaxPrivate
  IN IF incognito THEN {s \in BoundedSeq({Private}, MaxUrls) : s # <<>> /\ ~full}
     ELSE {s \in BoundedSeq(Tab \ shown, MaxUrls) : s # <<>> /\ IsInjective(s)}

\* addTab, for each: they are put at the end, and the first is the current tab if there was none.
\* And setting currentIndex to count - 1.
Added(m, ts) == IF ts = <<>> THEN m
                ELSE IF m.current = -1 THEN T!Notified(m.tabs \o ts, 0)
                ELSE T!Unnotified(m, m.tabs \o ts, m.current)
AtLast(m) == T!WithCurrent(m, T!Count(m) - 1)

\* onCurrentIndexChanged of a narrow window that is visible: the current tab to the top.
Stacked(m, n) == IF ~wide /\ n.current # m.current THEN T!Move(n, n.current, 0) ELSE n

ArmedByMut(w, m) == armed \/ (~w.incognito /\ w.model.current # m.current)   \* mutant: onCountChanged is forgotten

\* onCountChanged and onCurrentIndexChanged restart the timer, unless the window is incognito.
ArmedBy(w, m) ==
  armed \/ (~w.incognito /\ (T!Count(w.model) # T!Count(m) \/ w.model.current # m.current))

\* The tabs of window w change to m, and the handlers run.
Changes(w, m) == /\ win' = [win EXCEPT ![w].model = Stacked(@, m)]
                 /\ armed' = ArmedBy(win[w], m)

-----------------------------------------------------------------------------
(* session.save, which fails on a window of allWindows that has been destroyed *)

SaveMut ==   \* mutant: incognito windows are saved like the others
  IF locked /\ allWindows # <<>> THEN [i \in DOMAIN allWindows |-> Saved(win[allWindows[i]])] ELSE session

\* The elements of s that are in X, one turn of a loop after another.
Kept(s, X) ==
  LET F[n \in 0 .. Len(s)] ==
        IF n = 0 THEN <<>> ELSE IF s[n] \in X THEN Append(F[n - 1], s[n]) ELSE F[n - 1]
  IN F[Len(s)]

Save == LET ws == Kept(allWindows, {w \in Range(allWindows) : w \in DOMAIN win => Normal(win[w])})
        IN IF locked /\ ws # <<>> /\ Range(ws) \subseteq DOMAIN win
           THEN [i \in DOMAIN ws |-> Saved(win[ws[i]])] ELSE session

SaverFires == /\ state = "running" /\ armed /\ armed' = FALSE
              /\ session' = Save
              /\ UNCHANGED <<wide, win, allWindows, locked, traces, state, runs>>

\* periodicSessionSaver restarts the timer.
Periodic == /\ state = "running" /\ ~armed /\ armed' = TRUE
            /\ UNCHANGED <<wide, win, allWindows, session, locked, traces, state, runs>>

\* The application is not the active one any more.
StateChanged == /\ state = "running" /\ session' = Save
                /\ UNCHANGED <<wide, win, allWindows, locked, armed, traces, state, runs>>

-----------------------------------------------------------------------------
(* Starting and ending *)

\* _doRestore, or nothing: the model of a window is as it was saved (the narrow handler is
\* not connected while restoring).
Restored(newSession, incognito, lock) ==
  IF newSession \/ incognito \/ ~lock THEN <<>>
  ELSE [i \in DOMAIN session |->
          [incognito |-> FALSE, model |-> T!Notified(session[i].tabs, session[i].current)]]

\* init, of a window that is visible: each URL is added at the end and becomes the current tab
\* before the next one is added.  In a narrow window it goes to the top at once.
AtEnd(m, ts) == T!Notified(m.tabs \o ts, Len(m.tabs) + Len(ts) - 1)
OnTop(m, ts) == T!Notified(Reverse(ts) \o m.tabs, 0)

\* init: one window when none is restored; the URLs, or the home page, in the last one, which
\* keeps its current tab when it is restored and there are no URLs.
Opened(ws, incognito, ts) ==
  LET all == IF ws = <<>> THEN <<[incognito |-> incognito, model |-> T!Empty]>> ELSE ws
  IN [all EXCEPT ![Len(all)].model =
        IF ts = <<>> THEN @ ELSE IF wide THEN AtEnd(@, ts) ELSE OnTop(@, ts)]

\* The file is locked, unless another process has it.
SetDataFile(lock) == locked' = lock

\* The browser starts with the options and URLs of its command line.
Start(newSession, incognito, lock) ==
  LET restored == Restored(newSession, incognito, lock)
  IN /\ state = "down" /\ runs < MaxRuns /\ runs' = runs + 1
     /\ state' = "running" /\ SetDataFile(lock) /\ traces' = FALSE
     /\ \E ts \in NewTabs(incognito) \cup {<<>>} :
          /\ ts = <<>> => restored # <<>>
          /\ Range(ts) \cap TabsOf(session) = {}
          /\ win' = Opened(restored, incognito, ts)
          /\ allWindows' = [i \in DOMAIN win' |-> i]
     /\ armed' = ~incognito
     /\ UNCHANGED <<wide, session>>

\* Qt.quit(), or the system asks the browser to end: aboutToQuit.  When the last window has
\* closed, it has been destroyed by then.
Quit == /\ state # "down" /\ state' = "down"
        /\ session' = IF allWindows # <<>> THEN Save ELSE session
        /\ win' = <<>> /\ allWindows' = <<>> /\ armed' = FALSE
        /\ UNCHANGED <<wide, locked, traces, runs>>

Crash == /\ state # "down" /\ state' = "down"
         /\ win' = <<>> /\ allWindows' = <<>> /\ armed' = FALSE
         /\ UNCHANGED <<wide, session, locked, traces, runs>>

-----------------------------------------------------------------------------
(* Opening *)

\* A window with tabs ts.  It is not visible yet when its current index is set.
NewWindow(incognito, ts) ==
  /\ state = "running"
  /\ \E w \in Ids \ DOMAIN win :
       /\ \A v \in Ids \ DOMAIN win : w <= v
       /\ win' = [v \in DOMAIN win \cup {w} |->
                    IF v = w THEN [incognito |-> incognito, model |-> AtLast(Added(T!Empty, ts))] ELSE win[v]]
       /\ allWindows' = Append(allWindows, w)
  /\ armed' = (armed \/ ~incognito)
  /\ UNCHANGED <<wide, session, locked, traces, state, runs>>

\* getLastActiveWindow
LastActive(incognito) ==
  SelectLastInSeq(allWindows, LAMBDA w : w \in DOMAIN win /\ win[w].incognito = incognito)

OpenUrls(newWindow, incognito, ts) ==
  IF newWindow \/ LastActive(incognito) = 0 THEN NewWindow(incognito, ts)
  ELSE LET w == allWindows[LastActive(incognito)]
           m == win[w].model
       IN /\ state = "running"
          /\ Changes(w, AtLast(Added(m, ts)))
          /\ UNCHANGED <<wide, allWindows, session, locked, traces, state, runs>>

\* onNewInstanceLaunched, with the options and URLs that a second process was started with.  A
\* window that has tabs may be given none; its last tab becomes the current one.
OnNewInstanceLaunched(newWindow, incognito) ==
  \/ \E ts \in NewTabs(incognito) : OpenUrls(newWindow, incognito, ts)
  \/ ~newWindow /\ LastActive(incognito) # 0 /\ OpenUrls(FALSE, incognito, <<>>)

OpenLinkInNewTab(w, background) ==
  /\ state = "running" /\ w \in DOMAIN win
  /\ \E ts \in NewTabs(win[w].incognito) :
       LET m == win[w].model
           n == T!Insert(m, ts[1], T!Count(m))
       IN Len(ts) = 1 /\ Changes(w, IF background THEN n ELSE AtLast(n))
  /\ UNCHANGED <<wide, allWindows, session, locked, traces, state, runs>>

-----------------------------------------------------------------------------
(* Selecting and moving tabs, activating windows *)

SelectTab(w, i) ==
  /\ state = "running" /\ w \in DOMAIN win /\ T!Valid(win[w].model, i)
  /\ Changes(w, T!WithCurrent(win[w].model, i))
  /\ UNCHANGED <<wide, allWindows, session, locked, traces, state, runs>>

MoveTab(w, i, j) ==
  /\ state = "running" /\ wide /\ w \in DOMAIN win
  /\ Changes(w, T!Move(win[w].model, i, j))
  /\ UNCHANGED <<wide, allWindows, session, locked, traces, state, runs>>

\* onActiveChanged
Activate(w) ==
  /\ state = "running" /\ w \in DOMAIN win
  /\ LET k == SelectInSeq(allWindows, LAMBDA v : v = w)
     IN k # 0 /\ allWindows' = Append(RemoveAt(allWindows, k), w)
  /\ UNCHANGED <<wide, win, session, locked, armed, traces, state, runs>>

\* A page of an incognito window is downloaded.
DownloadPrivately == /\ state = "running" /\ traces' = TRUE
                     /\ \E w \in DOMAIN win : win[w].incognito
                     /\ UNCHANGED <<wide, win, allWindows, session, locked, armed, state, runs>>

-----------------------------------------------------------------------------
(* Closing *)

\* splice(k, 1)
Spliced(s, k) == IF k \in DOMAIN s THEN RemoveAt(s, k) ELSE s

WindowsWithoutMut(w, hasTabs) == allWindows   \* mutant: the window stays in the list

\* onClosing of one of several windows.  Its tabs, if there are any, are removed one by one; when
\* the last one goes, a wide window closes again inside the loop, and the window is spliced twice.
WindowsWithout(w, hasTabs) ==
  LET k == SelectInSeq(allWindows, LAMBDA v : v = w)
      again == IF wide /\ hasTabs THEN Spliced(allWindows, k) ELSE allWindows
  IN IF k = 0 THEN allWindows ELSE Spliced(again, k)

\* pruneIncognitoDownloads, when no other incognito window is left.
Pruned(w) ==
  IF win[w].incognito /\ \A v \in Range(allWindows) \ {w} : v \in DOMAIN win => Normal(win[v])
  THEN FALSE ELSE traces

\* onClosing of window w, with or without tabs.
Closing(w, hasTabs) ==
  /\ win' = Restrict(win, DOMAIN win \ {w})
  /\ IF Len(allWindows) = 1
     THEN /\ session' = IF hasTabs THEN Save ELSE IF locked THEN <<>> ELSE session
          /\ state' = IF DOMAIN win = {w} THEN "ending" ELSE state   \* quitOnLastWindowClosed
          /\ UNCHANGED <<allWindows, armed, traces>>
     ELSE /\ allWindows' = WindowsWithout(w, hasTabs)
          /\ armed' = (armed \/ Normal(win[w]))
          /\ traces' = Pruned(w)
          /\ UNCHANGED <<session, state>>
  /\ UNCHANGED <<wide, locked, runs>>

CloseWindow(w) == /\ state = "running" /\ w \in DOMAIN win
                  /\ (wide /\ ~CloseBackground) => w = Last(allWindows)
                  /\ Closing(w, TRUE)

\* closeTab.  A wide window closes with its last tab; a narrow one opens another tab.
CloseTab(w, i) ==
  /\ state = "running" /\ w \in DOMAIN win /\ T!Valid(win[w].model, i)
  /\ LET m == win[w].model
     IN IF T!Count(m) > 1
        THEN /\ Changes(w, T!Remove(m, i))
             /\ UNCHANGED <<wide, allWindows, session, locked, traces, state, runs>>
        ELSE IF wide THEN Closing(w, FALSE)
        ELSE /\ \E ts \in NewTabs(win[w].incognito) :
                  /\ Len(ts) = 1
                  /\ win' = [win EXCEPT ![w].model = Added(T!Empty, ts)]
             /\ armed' = (armed \/ Normal(win[w]))
             /\ UNCHANGED <<wide, allWindows, session, locked, traces, state, runs>>

-----------------------------------------------------------------------------

Index == 0 .. 2
Next == \/ \E newSession, incognito, lock \in BOOLEAN : Start(newSession, incognito, lock)
        \/ SaverFires \/ Periodic \/ StateChanged \/ Quit \/ Crash \/ DownloadPrivately
        \/ \E newWindow, incognito \in BOOLEAN : OnNewInstanceLaunched(newWindow, incognito)
        \/ \E w \in Ids, b \in BOOLEAN : OpenLinkInNewTab(w, b)
        \/ \E w \in Ids : Activate(w) \/ CloseWindow(w)
        \/ \E w \in Ids, i \in Index : SelectTab(w, i) \/ CloseTab(w, i)
        \/ \E w \in Ids, i, j \in Index : MoveTab(w, i, j)

Spec == Init /\ [][Next]_vars

\* The user pauses for half a second now and then, so that the timer expires.
FairSpec == Spec /\ WF_vars(SaverFires)

-----------------------------------------------------------------------------
(* Properties *)

\* "Array of all windows": while the browser runs, allWindows has the windows that are on the
\* screen, each once, and each of them has a current tab.
WindowsListed == state = "running" =>
  /\ Range(allWindows) = DOMAIN win /\ IsInjective(allWindows)
  /\ \A w \in DOMAIN win : T!CurrentTab(win[w].model) # NoTab

\* When no save is pending, the file has the windows that are open, each with its tabs and
\* its current one: whatever changed them has started the timer.  (Moving tabs and
\* activating windows change the order only.)
Content(s) == [tabs |-> Range(s.tabs), shown |-> s.tabs[s.current + 1]]
SavedWhenQuiet ==
  state = "running" /\ locked /\ ~armed /\ NormalIds # {} =>
    /\ Len(session) = Cardinality(NormalIds)
    /\ {Content(session[i]) : i \in DOMAIN session} = {Content(Saved(win[w])) : w \in NormalIds}

\* An incognito window leaves nothing behind: its tabs are not in the session, its downloads
\* are not listed once the last incognito window has closed.
NoIncognitoTraces == /\ Private \notin TabsOf(session)
                     /\ state = "running" /\ traces => \E w \in DOMAIN win : win[w].incognito

\* "In narrow mode, the tabslist is a stack: the current tab is always at the top."
\* (morph-browser.qml)
CurrentOnTop == ~wide => \A w \in DOMAIN win : win[w].model.current = 0

\* A tab that stays open is in the session sooner or later, so that a crash does not lose it.
SessionSaved == \A t \in Tab :
  LET open == \E w \in NormalIds : t \in Range(win[w].model.tabs)
  IN open /\ locked ~> t \in TabsOf(session) \/ ~open \/ state # "running"
=============================================================================
