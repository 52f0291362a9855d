----------------------------- MODULE MCProcesses -----------------------------
(***************************************************************************)
(* What must come to an end: the start of a process, the move of the       *)
(* cookies of an account, the reading of the downloads, each on a small    *)
(* instance, with the fairness of its module.  They share no state; `part` *)
(* says which one runs.                                                    *)
(***************************************************************************)
EXTENDS Naturals, Sequences

CONSTANTS Process, Others, NoFile, Stale, Short,    \* SingleInstance: Others may be of another application
          Store, Cookie, Alone,                     \* CookieMove: the cookies Alone are of one host
          Id, Path                                  \* Downloads

ASSUME ProcessAssumption == NoFile # Stale /\ {NoFile, Stale} \cap Process = {}

VARIABLES part,
          pc, file, inbox, handled,
          pending, failed, requests, queued, connections, moves, moved, given, jar,
          entries, numRows, fetched, canFetch, table, files, now, runs

OneApp == [p \in Process |-> "a"]
TwoApps == [p \in Process |-> IF p \in Others THEN "b" ELSE "a"]
MCHostOf == [c \in Cookie |-> IF c \in Alone THEN "a" ELSE "b"]
OwnBackend == [s \in Store |-> s]

\* Processes of one application started one after the other, and of two at any time.
Turns == INSTANCE SingleInstance WITH AppOf <- OneApp, LongNames <- {}, Overlap <- FALSE, Crashes <- TRUE
Crowd == INSTANCE SingleInstance WITH AppOf <- TwoApps, LongNames <- {}, Overlap <- TRUE, Crashes <- TRUE
\* Two stores, each with a cookie manager of its own.
Cookies == INSTANCE CookieMove WITH HostOf <- MCHostOf, BackendOf <- OwnBackend, MaxMoves <- 1
Downloads == INSTANCE Downloads WITH PageSize <- 1, MaxRuns <- 1, MaxSeconds <- 0, QuickStart <- FALSE,
                                     RenameFails <- FALSE, SharedPaths <- FALSE

processVars == <<pc, file, inbox, handled>>
cookieVars == <<pending, failed, requests, queued, connections, moves, moved, given, jar>>
downloadVars == <<entries, numRows, fetched, canFetch, table, files, now, runs>>
vars == <<part, processVars, cookieVars, downloadVars>>

Runs(p) == part = p /\ UNCHANGED part
InTurns(A) == Runs("turns") /\ A /\ UNCHANGED <<cookieVars, downloadVars>>
InCrowd(A) == Runs("crowd") /\ A /\ UNCHANGED <<cookieVars, downloadVars>>
InCookies(A) == Runs("cookies") /\ A /\ UNCHANGED <<processVars, downloadVars>>
InDownloads(A) == Runs("downloads") /\ A /\ UNCHANGED <<processVars, cookieVars>>

Init == /\ part \in {"turns", "crowd", "cookies", "downloads"}
        /\ part = "crowd" => Crowd!Init
        /\ part # "crowd" => Turns!Init
        /\ part \notin {"turns", "crowd"} => \A n \in DOMAIN file : file[n] = NoFile
        /\ Cookies!Init /\ Downloads!Init

Next == \/ InTurns(Turns!Next) \/ InCrowd(Crowd!Next) \/ InCookies(Cookies!Next)
        \/ InDownloads(Downloads!Next)

\* What goes on by itself.  Only one part runs, so that one condition of fairness does for an
\* action of each; there are processes among Others and besides them.
GoesOn(p) == \/ InTurns(Turns!Run(p)) \/ InCrowd(Crowd!Run(p))
             \/ p \in Others /\ InCookies(Cookies!Deliver)
             \/ p \notin Others /\ InCookies(Cookies!SomeAnswer)
             \/ p \in Others /\ InDownloads(Downloads!FetchMore)

FairSpec == Init /\ [][Next]_vars /\ \A p \in Process : WF_vars(GoesOn(p))

-----------------------------------------------------------------------------
(* The properties of the parts, where they are stated *)

\* When starts do not overlap, one instance of an application runs and is found at its path.
\* When they do, one runs at least unless one has stopped, and arguments go to the same
\* application.
InstancesRight == /\ part = "turns" => Turns!OneInstance /\ Turns!Reachable
                  /\ part = "crowd" => Crowd!SomeoneRuns /\ Crowd!HandledBySameApp

\* What is passed on is handled, unless the instance that it was passed to stops.
ArgumentsHandled == part = "turns" => Turns!ArgumentsHandled

\* The end of the move of the cookies of an account is announced once, and when all are with
\* the engine only as a success.
MovedTruthfully == Cookies!MovedMeansSet /\ Cookies!OncePerMove

\* Every start comes to an end, as does every move of cookies whatever has failed, and the
\* reading of the downloads.
AllEnds == /\ part = "crowd" => Crowd!StartEnds
           /\ Cookies!MoveEnds
           /\ part = "downloads" => Downloads!FetchEnds
=============================================================================
