--------------------------- MODULE MCBrowserTabs ---------------------------
(***************************************************************************)
(* Instances of BrowserTabs: a wide window whose tabs are unloaded when    *)
(* the memory is low and moved to other windows, and one that can become   *)
(* narrow and wide again.  `part` says which one runs.  The tabs are       *)
(* interchangeable.                                                        *)
(***************************************************************************)
EXTENDS BrowserTabs, TLC

VARIABLE part

Both == INSTANCE BrowserTabs WITH Modes <- BOOLEAN, Unloads <- FALSE, MoveOuts <- FALSE

MCInit == \/ part = "wide" /\ WindowInit
          \/ part = "both" /\ Both!WindowInit

MCNext == \/ part = "wide" /\ WindowNext /\ UNCHANGED part
          \/ part = "both" /\ Both!WindowNext /\ UNCHANGED part

MCSpec == MCInit /\ [][MCNext]_<<windowVars, part>>

Symmetric == Permutations(Tab)

\* In a wide window, the current tab has its page, unless it has been unloaded or was never
\* given a URL.
WideCurrentIsLoaded == part = "wide" => CurrentIsLoaded
=============================================================================
