----------------------------- MODULE MCSession -----------------------------
(***************************************************************************)
(* The windows and the session on a small instance, and the switch to      *)
(* another tab in a narrow incognito window, where closed tabs are not     *)
(* remembered.  `part` says which one runs.                                *)
(***************************************************************************)
EXTENDS Session

CONSTANT ATab

VARIABLES part,
          model, open, mode, dragging, recent, animated, nextTabIndex, nextTab, switcher,
          closedTabHistory, withUrl, loaded, elsewhere

Switch == INSTANCE BrowserTabs WITH Tab <- ATab, wide <- mode, Incognito <- TRUE, Modes <- {FALSE},
                                    Unloads <- FALSE, MoveOuts <- FALSE, MaxMade <- 1, MaxClosed <- 0

switchVars == <<model, open, mode, dragging, recent, animated, nextTabIndex, nextTab, switcher,
                closedTabHistory, withUrl, loaded, elsewhere>>
mcVars == <<part, vars, switchVars>>

\* Added is the loop that calls addTab; AtEnd and OnTop are the loop of init, which also sets the
\* current tab, in a wide window and in a narrow one.
Models == {T!Empty} \cup UNION {{T!Notified(l, c) : c \in 0 .. Len(l) - 1} : l \in BoundedSeq(Tab, 2)}
ASSUME AddedIsTheLoop == \A m \in Models, ts \in BoundedSeq(Tab, MaxUrls) :
  LET Add(n, t) == T!Insert(n, t, T!Count(n))
      Lift(n) == T!Move(n, n.current, 0)
  IN /\ Added(m, ts) = FoldLeft(Add, m, ts)
     /\ ts # <<>> => /\ AtEnd(m, ts) = FoldLeft(LAMBDA n, t : AtLast(Add(n, t)), m, ts)
                     /\ OnTop(m, ts) = FoldLeft(LAMBDA n, t : Lift(AtLast(Add(n, t))), m, ts)

InSession(A) == part = "session" /\ A /\ UNCHANGED <<part, switchVars>>
InSwitch(A) == part = "switch" /\ A /\ UNCHANGED <<part, vars>>

MCInit == /\ part \in {"session", "switch"} /\ Init /\ Switch!WindowInit
          /\ part = "session" => loaded = {CHOOSE t \in ATab : TRUE} /\ withUrl = {}
          /\ part = "switch" => wide

MCNext == InSession(Next) \/ InSwitch(Switch!WindowNext)

\* What goes on by itself.  Only one part runs, so that one condition of fairness does for both
\* timers.
FairMCSpec == /\ MCInit /\ [][MCNext]_mcVars
              /\ WF_mcVars(InSession(SaverFires) \/ InSwitch(Switch!SwitchTimeout))
              /\ WF_mcVars(InSwitch(Switch!AnimationEnd))

\* Switching to another tab comes to an end, unless the user keeps on switching.
SwitchEnds == part = "switch" => Switch!SwitchEnds
=============================================================================
