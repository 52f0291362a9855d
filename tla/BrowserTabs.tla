----------------------------- MODULE BrowserTabs -----------------------------
(***************************************************************************)
(* The tabs of one window: what Browser.qml, morph-browser.qml, TabsList   *)
(* and BrowserTab do with a TabsModel.                                     *)
(*                                                                         *)
(* Everything runs on the UI thread, one event after another, but a switch *)
(* to another tab is spread over several events: the index of the tab is   *)
(* kept in nextTabIndex while a timer of 50 ms (or the animation of the    *)
(* list of tabs) runs, and is used when it expires.  Whatever is done to   *)
(* the list meanwhile is done between the two.                             *)
(***************************************************************************)
EXTENDS TabsModel

CONSTANTS
  Incognito,    \* is the window incognito?
  Modes,        \* the values browser.wide takes
  Unloads,      \* may the memory be low?
  MoveOuts,     \* may tabs be moved to another window?
  MaxMade,      \* bound: tabs a window is made with
  MaxClosed     \* bound on the length of closedTabHistory

ASSUME BrowserAssumption ==
  /\ Incognito \in BOOLEAN /\ Unloads \in BOOLEAN /\ MoveOuts \in BOOLEAN
  /\ MaxMade \in Nat /\ MaxClosed \in Nat /\ Modes \subseteq BOOLEAN /\ Modes # {}

VARIABLES
  open,              \* the window is not closed
  wide,              \* browser.wide
  dragging,          \* is the bottom edge being dragged?
  recent,            \* is recentView.state "shown"?
  animated,          \* index of the tab that selectedAnimation shows, or -1
  nextTabIndex, nextTab,   \* internal.nextTabIndex and nextTab
  switcher,          \* is delayedTabSwitcher running?
  closedTabHistory,  \* internal.closedTabHistory
  withUrl,           \* the tabs that have a URL
  loaded,            \* the tabs that have a webview (or are incubating one)
  elsewhere          \* the tabs moved to another window

viewVars == <<wide, dragging, recent, animated>>
switchVars == <<nextTabIndex, nextTab, switcher>>
windowVars == <<model, open, viewVars, switchVars, closedTabHistory, withUrl, loaded, elsewhere>>

ClosedTab == [tab : Tab, index : Nat]

WindowTypeOK ==
  /\ model \in Model /\ open \in BOOLEAN /\ wide \in Modes
  /\ dragging \in BOOLEAN /\ recent \in BOOLEAN
  /\ animated \in Int /\ nextTabIndex \in Int /\ nextTab \in Tab \cup {NoTab}
  /\ switcher \in BOOLEAN
  /\ closedTabHistory \in Seq(ClosedTab) /\ Len(closedTabHistory) <= MaxClosed
  /\ withUrl \subseteq Tab /\ loaded \subseteq Tab /\ elsewhere \subseteq Tab

RecentVisible == dragging \/ recent \/ animated # -1     \* recentView.visible

\* Tab objects that do not exist yet.
Unused == Tab \ (Tabs(model) \cup elsewhere
                 \cup {closedTabHistory[i].tab : i \in DOMAIN closedTabHistory})

-----------------------------------------------------------------------------
(* What runs inside an event *)

StackedMut(m) == m   \* mutant: the list is not reordered

\* onCurrentIndexChanged: in narrow mode the current tab is moved to the top.
\* The handler runs whenever the index changes, inside insert, remove,
\* setCurrentIndex or move; the index of the model is up to date by then.
Stacked(m) ==
  IF ~wide /\ m.current # model.current THEN Move(m, m.current, 0) ELSE m

\* Setting nextTabIndex: nextTab is evaluated again, unless the index is what it
\* was, and is loaded (aboutToShow) if it is not the current tab.
PointNext(m, i, l) ==
  LET t == Get(m, i)
  IN /\ nextTabIndex' = i
     /\ IF i = nextTabIndex
        THEN nextTab' = nextTab /\ loaded' = l
        ELSE nextTab' = t /\ loaded' = l \cup ({t} \ {NoTab, m.bound})

SwitchLaterMut(m, i, l) == model' = m /\ UNCHANGED switcher /\ PointNext(m, i, l)   \* mutant: no timer

\* switchToTab(i, true), in a model m, when the tabs of l are loaded.
SwitchLater(m, i, l) == model' = m /\ switcher' = TRUE /\ PointNext(m, i, l)

\* switchToTab(i, false); seen tells whether recentView is still visible.
SwitchNow(m, i, seen) ==
  LET n == Stacked(WithCurrent(m, i))
      t == CurrentTab(n)
  IN /\ model' = n
     /\ nextTabIndex' = -1 /\ nextTab' = NoTab
     /\ loaded' = IF ~seen /\ t \in withUrl THEN loaded \cup {t} ELSE loaded

-----------------------------------------------------------------------------
(* Opening tabs *)

OpenUrlInNewTab(t, url, setCurrent, index) ==
  LET m == Stacked(Insert(model, t, index))
      at == Clamp(model, index)    \* what insert returns
  IN /\ open /\ t \in Unused
     /\ withUrl' = IF url THEN withUrl \cup {t} ELSE withUrl \ {t}
     /\ IF setCurrent
        THEN SwitchLater(m, at, loaded \cup {t})
        ELSE model' = m /\ loaded' = loaded \cup {t} /\ UNCHANGED switchVars
     /\ UNCHANGED <<open, wide, dragging, animated, closedTabHistory, elsewhere>>

\* The actions, shortcuts and pages that open a tab at the end of the list ...
NewTab(t, url, setCurrent) ==
  /\ OpenUrlInNewTab(t, url, setCurrent, Count(model))
  /\ \/ UNCHANGED recent
     \/ recent' = FALSE      \* ... from recentView, which is reset

\* ... and the entry of the menu of a tab that opens one after it.
NewTabAfter(t, i) ==
  /\ wide /\ Valid(model, i)
  /\ OpenUrlInNewTab(t, FALSE, TRUE, i + 1)
  /\ UNCHANGED recent

\* openLinkInNewTabRequested: a tab in the background is not loaded.
OpenLink(t, background) ==
  LET m == Stacked(Insert(model, t, Count(model)))
      n == IF background THEN m ELSE Stacked(WithCurrent(m, Count(m) - 1))
  IN /\ open /\ t \in Unused
     /\ withUrl' = withUrl \cup {t}
     /\ model' = n
     /\ loaded' = IF background THEN loaded ELSE loaded \cup {CurrentTab(n)}
     /\ UNCHANGED <<open, viewVars, switchVars, closedTabHistory, elsewhere>>

\* The page of a new tab is given a URL by the user.
Navigate(t) ==
  /\ open /\ t \in Tabs(model) \cap loaded
  /\ withUrl' = withUrl \cup {t}
  /\ UNCHANGED <<model, open, viewVars, switchVars, closedTabHistory, loaded, elsewhere>>

-----------------------------------------------------------------------------
(* Closing tabs *)

\* The history of closed tabs is bounded by MaxClosed here, not in the code.
Remembered(t, i) ==
  IF ~Incognito /\ t \in withUrl
  THEN /\ Len(closedTabHistory) < MaxClosed
       /\ closedTabHistory' = Append(closedTabHistory, [tab |-> t, index |-> i])
  ELSE UNCHANGED closedTabHistory

\* The object of a closed tab is destroyed: nextTab is null if it was that one.
Forget(t) == nextTab' = (IF nextTab = t THEN NoTab ELSE nextTab) /\ UNCHANGED <<nextTabIndex, switcher>>

CloseTabMut(i, moving) ==   \* mutant: the tab that becomes current is not loaded
  LET t == Get(model, i)
      m == Stacked(Remove(model, i))
  IN /\ open /\ Count(m) > 0 /\ t # NoTab
     /\ Remembered(t, i)
     /\ model' = m
     /\ loaded' = loaded \ {t}
     /\ IF moving THEN UNCHANGED switchVars ELSE Forget(t)
     /\ UNCHANGED <<open, viewVars, withUrl>>

\* closeTab when it is not the last one.
CloseTab(i, moving) ==
  LET t == Get(model, i)
      m == Stacked(Remove(model, i))
  IN /\ open /\ Count(m) > 0 /\ t # NoTab
     /\ Remembered(t, i)
     /\ model' = m
     /\ loaded' = (loaded \ {t}) \cup {CurrentTab(m)}
     /\ IF moving THEN UNCHANGED switchVars ELSE Forget(t)
     /\ UNCHANGED <<open, viewVars, withUrl>>

\* The last tab: a new one is opened in its place; in wide mode the window has
\* been asked to close when the list became empty.
CloseLast(t, moving) ==
  LET last == Get(model, 0)
  IN /\ open /\ Count(model) = 1 /\ t \in Unused
     /\ Remembered(last, 0)
     /\ open' = ~wide
     /\ withUrl' = withUrl \ {t}
     /\ model' = Insert(Remove(model, 0), t, 0)
     /\ loaded' = (loaded \ {last}) \cup {t}
     /\ switcher' = TRUE /\ nextTabIndex' = 0
     /\ nextTab' = IF nextTabIndex # 0 THEN t
                   ELSE IF nextTab = last /\ ~moving THEN NoTab ELSE nextTab
     /\ recent' = FALSE
     /\ UNCHANGED <<wide, dragging, animated>>

Close(i) ==
  /\ CloseTab(i, FALSE) \/ \E t \in Tab : i = 0 /\ CloseLast(t, FALSE)
  /\ UNCHANGED elsewhere

\* "Move to New Window" in the menu of a tab: it is added to the other window,
\* then removed from this one without being destroyed.
MoveToNewWindow(i) ==
  /\ MoveOuts /\ wide
  /\ CloseTab(i, TRUE) \/ \E t \in Tab : i = 0 /\ CloseLast(t, TRUE)
  /\ elsewhere' = elsewhere \cup {Get(model, i)}

UndoCloseTab ==
  LET n == Len(closedTabHistory)
      info == closedTabHistory[n]
      t == info.tab
      m == Stacked(Insert(model, t, info.index))
  IN /\ open /\ ~Incognito /\ n > 0
     /\ closedTabHistory' = SubSeq(closedTabHistory, 1, n - 1)
     /\ t \notin Tabs(model)
     /\ SwitchLater(m, Clamp(model, info.index), loaded \cup {t})
     /\ UNCHANGED <<open, viewVars, withUrl, elsewhere>>

-----------------------------------------------------------------------------
(* Switching *)

\* The bar of tabs, and the shortcuts, which cycle through the tabs in wide
\* mode and take the bottom of the stack in narrow mode.
SelectTab(i) ==
  /\ open /\ Count(model) > 0
  /\ \/ wide /\ Valid(model, i)
     \/ wide /\ i \in {(model.current + 1) % Count(model),
                       (model.current - 1 + Count(model)) % Count(model)}
     \/ ~wide /\ i = Count(model) - 1
  /\ SwitchLater(model, i, loaded)
  /\ UNCHANGED <<open, viewVars, closedTabHistory, withUrl, elsewhere>>

\* delayedTabSwitcher expires.
SwitchTimeout ==
  /\ open /\ switcher
  /\ switcher' = FALSE
  /\ SwitchNow(model, nextTabIndex, RecentVisible)
  /\ UNCHANGED <<open, viewVars, closedTabHistory, withUrl, elsewhere>>

\* The bottom edge is dragged: at the end the list of tabs is shown, or the
\* second tab is selected, or nothing happens.
StartDrag ==
  /\ open /\ ~wide /\ ~recent /\ ~dragging
  /\ dragging' = TRUE
  /\ UNCHANGED <<model, open, wide, recent, animated, switchVars, closedTabHistory, withUrl, loaded, elsewhere>>

EndDrag ==
  /\ open /\ dragging
  /\ dragging' = FALSE
  /\ recent' \in {recent, TRUE}
  /\ UNCHANGED <<model, open, wide, animated, switchVars, closedTabHistory, withUrl, loaded, elsewhere>>

\* selectAndAnimateTab: the first tab is selected at once (Escape and "Done"
\* do that too), another one when its animation has ended.
SelectRecentFirst ==
  /\ open /\ RecentVisible
  /\ recent' = FALSE
  /\ SwitchNow(model, 0, dragging \/ animated # -1)
  /\ UNCHANGED <<open, wide, dragging, animated, switcher, closedTabHistory, withUrl, elsewhere>>

SelectRecent(i) ==
  /\ open /\ i > 0 /\ Valid(model, i)
  /\ \/ recent /\ UNCHANGED dragging
     \/ dragging /\ i = 1 /\ dragging' = FALSE
  /\ animated' = i
  /\ PointNext(model, i, loaded)
  /\ UNCHANGED <<model, open, wide, recent, switcher, closedTabHistory, withUrl, elsewhere>>

AnimationEnd ==
  /\ open /\ animated # -1
  /\ animated' = -1 /\ recent' = FALSE
  /\ SwitchNow(model, animated, dragging)
  /\ UNCHANGED <<open, wide, dragging, switcher, closedTabHistory, withUrl, elsewhere>>

DragTab(from, to) ==
  /\ open /\ wide /\ from # to
  /\ Valid(model, from) /\ Valid(model, to)
  /\ model' = Move(model, from, to)
  /\ UNCHANGED <<open, viewVars, switchVars, closedTabHistory, withUrl, loaded, elsewhere>>

\* onWideChanged: recentView is reset, or the current tab goes to the top.
Resize ==
  /\ open /\ wide' \in Modes \ {wide}
  /\ recent' = IF wide THEN recent ELSE FALSE
  /\ model' = IF wide THEN Move(model, model.current, 0) ELSE model
  /\ UNCHANGED <<open, dragging, animated, switchVars, closedTabHistory, withUrl, loaded, elsewhere>>

\* The memory is low: one tab that is not the current one is unloaded.
Unload(t) ==
  /\ Unloads /\ open
  /\ t \in Tabs(model) \cap loaded /\ t # model.bound
  /\ loaded' = loaded \ {t}
  /\ UNCHANGED <<model, open, viewVars, switchVars, closedTabHistory, withUrl, elsewhere>>

-----------------------------------------------------------------------------

WindowIndex == 0 .. Count(model)

\* What init, openUrls and restoreWindowState make: a window with some tabs, any
\* of them current (the handler that moves it to the top is off until the window
\* is shown), and at least that one loaded.
WindowInit ==
  /\ \E n \in 1 .. MaxMade :
       \E l \in {s \in [1 .. n -> Tab] : \A i, j \in 1 .. n : s[i] = s[j] => i = j},
          c \in 0 .. n - 1 : model = Notified(l, c)
  /\ withUrl \in SUBSET Tabs(model)
  /\ loaded \in {l \in SUBSET Tabs(model) : CurrentTab(model) \in l}
  /\ open = TRUE /\ wide \in Modes /\ dragging = FALSE /\ recent = FALSE /\ animated = -1
  /\ nextTabIndex = -1 /\ nextTab = NoTab /\ switcher = FALSE
  /\ closedTabHistory = <<>> /\ elsewhere = {}

OpenNext ==
  \E t \in Tab :
    \/ \E url, setCurrent \in BOOLEAN : NewTab(t, url, setCurrent)
    \/ \E i \in WindowIndex : NewTabAfter(t, i)
    \/ \E background \in BOOLEAN : OpenLink(t, background)
    \/ Navigate(t)
CloseNext ==
  \/ \E i \in WindowIndex : Close(i) \/ MoveToNewWindow(i)
  \/ UndoCloseTab
SelectNext ==
  \/ \E i \in WindowIndex : SelectTab(i) \/ SelectRecent(i)
  \/ StartDrag \/ EndDrag \/ SelectRecentFirst
  \/ \E from, to \in WindowIndex : DragTab(from, to)
Pending == SwitchTimeout \/ AnimationEnd
WindowNext == OpenNext \/ CloseNext \/ SelectNext \/ Pending \/ Resize
              \/ \E t \in Tab : Unload(t)

WindowSpec == WindowInit /\ [][WindowNext]_windowVars

\* Timers that are not restarted and animations end.
WindowFairSpec == WindowSpec /\ WF_windowVars(SwitchTimeout) /\ WF_windowVars(AnimationEnd)

-----------------------------------------------------------------------------
(* Properties *)

\* A window that is open has a tab, its tabs are distinct, and the bindings on
\* currentTab hold the current one, whatever the handlers do inside a signal.
WindowHasCurrent == open => model.tabs # <<>> /\ CurrentExists /\ BoundIsCurrent /\ NoDuplicate

\* "In narrow mode, the tabslist is a stack: the current tab is always at the
\* top." (morph-browser.qml)  A window may be made with another one current, which
\* stays where it is until the index changes.  From then on, and once the window has
\* become narrow, each event leaves the current tab at the top, though the handler
\* that moves it runs inside the signal of another change.
NarrowStack ==
  [][ open' /\ ~wide' =>
        model'.current = 0 \/ (~wide /\ model'.current = model.current) ]_windowVars

\* The page of the tab the user looks at has been loaded, even if the memory
\* was low while the tab was in the background.
CurrentIsLoaded ==
  open /\ ~RecentVisible /\ CurrentTab(model) \in withUrl => CurrentTab(model) \in loaded

\* "Undo close" only knows of tabs that are closed: none of them is still open,
\* in this window or in another.
ClosedAreClosed ==
  open => \A i \in DOMAIN closedTabHistory :
            closedTabHistory[i].tab \notin Tabs(model) \cup elsewhere

\* The switch that a timer or an animation completes is to the tab it was
\* requested for, the one the chrome shows meanwhile, if it is still there.
SwitchesToNextTab ==
  [][ Pending /\ nextTab \in Tabs(model) => CurrentTab(model') = nextTab ]_windowVars

\* A switch under way ends, unless the user opens, closes and selects tabs for
\* ever (each restarts the timer): the chrome goes back to the current tab.
UserActs == OpenNext \/ CloseNext \/ \E i \in WindowIndex : SelectTab(i)
SwitchEnds ==
  \/ []<><<UserActs>>_windowVars
  \/ nextTabIndex # -1 ~> nextTabIndex = -1 \/ ~open
=============================================================================
