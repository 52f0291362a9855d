----------------------------- MODULE ClickHooks -----------------------------
(***************************************************************************)
(* The click hook of web apps (click-hooks/): a program that is run when   *)
(* packages have been installed, updated or removed.  It compares the hook *)
(* files of the installed apps, <package>_<app>_<version>.webapp, with its *)
(* copies of those it has processed, <package>_<app>, and deletes the      *)
(* cookies and the cache of apps whose hook asks for it in that phase.     *)
(*                                                                         *)
(* A hook file is what it asks to delete in each phase, and its time; one  *)
(* that cannot be parsed asks for nothing.  The program can stop at any    *)
(* step; packages can change while it runs when Overlap.                   *)
(***************************************************************************)
EXTENDS Naturals, FiniteSets

CONSTANTS Id,          \* apps, <package>_<app>
          PackageOf,   \* their packages
          NoId,
          Contents,    \* contents of hook files: what is deleted, by phase
          Overlap,     \* can packages change while the hook runs?
          Built,       \* have hook files the time at which they were built?
          MaxChanges,  \* bound: changes of packages
          MaxCrashes   \* bound: hooks that are stopped

VARIABLES installed,   \* the hook file of each app that is installed
          processed,   \* the copy of each app that has been processed
          data,        \* what there is in the directories below ~/.cache and ~/.local/share
          pc,          \* what the hook is doing
          old, new,    \* the apps it found: those processed, and the versions installed
          todo, cur,   \* apps left to handle, and the one whose directives have been executed
          due,         \* has something changed that no hook has looked at?
          changes, crashes

vars == <<installed, processed, data, pc, old, new, todo, cur, due, changes, crashes>>
hookVars == <<pc, old, new, todo, cur>>

Kind == {"cookies", "cache"}
Phase == {"install", "update", "uninstall"}
Package == {PackageOf[i] : i \in Id}
Absent == [version |-> 0]
Exists(f) == f # Absent

\* The times of files: an even one for each change, the odd one after it for copies made then.
Now == 2 * changes + 1

Init == /\ installed = [i \in Id |-> Absent] /\ processed = [i \in Id |-> Absent]
        /\ data = [d \in Package \cup Id |-> {}]
        /\ pc = "idle" /\ old = {} /\ new = [i \in Id |-> 0] /\ todo = {} /\ cur = NoId
        /\ due = FALSE /\ changes = 0 /\ crashes = 0

-----------------------------------------------------------------------------
(* Packages and apps *)

\* An app is installed, updated (to a version with another file name) or removed.
PackageChanges(i) ==
  /\ changes < MaxChanges /\ changes' = changes + 1
  /\ Overlap \/ pc = "idle"
  /\ \/ \E c \in Contents, t \in IF Built THEN {0, 2 * changes'} ELSE {2 * changes'} :
          installed' = [installed EXCEPT ![i] = [version |-> changes', time |-> t, asks |-> c]]
     \/ Exists(installed[i]) /\ installed' = [installed EXCEPT ![i] = Absent]
  /\ due' = TRUE
  /\ UNCHANGED <<processed, data, hookVars, crashes>>

\* An app that is installed runs: its files are in the directory of its package.
AppRuns(i) ==
  /\ Exists(installed[i]) /\ data' = [data EXCEPT ![PackageOf[i]] = Kind]
  /\ UNCHANGED <<installed, processed, hookVars, due, changes, crashes>>

-----------------------------------------------------------------------------
(* The hook *)

\* main: both folders are listed before anything is handled.
Start ==
  /\ pc = "idle" /\ due /\ due' = FALSE
  /\ old' = {i \in Id : Exists(processed[i])}
  /\ new' = [i \in Id |-> installed[i].version]
  /\ pc' = "install" /\ todo' = {i \in Id : new'[i] # 0} \ old' /\ cur' = NoId
  /\ UNCHANGED <<installed, processed, data, changes, crashes>>

Listed == {i \in Id : new[i] # 0}

\* The file of the app with the name that was listed, if it is still there.
HookFile(i) == IF installed[i].version = new[i] THEN installed[i] ELSE Absent

\* removeVersionFrom and shortAppIdFromUnversionedAppId drop the last part of the name of the
\* file: <version>.webapp of an installed one, <app> of a processed one.
Dir(i) == IF pc = "uninstall" THEN PackageOf[i] ELSE i

AsksMut(f) == IF Exists(f) THEN f.asks["install"] \cup f.asks["uninstall"] ELSE {}   \* mutant: the phase is ignored

\* parseContent: what the file asks to delete in this phase.
Asks(f) == IF Exists(f) THEN f.asks[pc] ELSE {}

\* executeHookDirectives
Execute(f, i) == data' = [data EXCEPT ![Dir(i)] = @ \ Asks(f)]

Copy(i) == [HookFile(i) EXCEPT !.time = Now]

\* handleUpdates: the copy is not older than the file (nor than one that is gone).
UpToDate(i) == Exists(processed[i]) /\ (Exists(HookFile(i)) => processed[i].time >= HookFile(i).time)

\* The directives come first, so that they are executed again if the hook stops before the copy
\* is made or removed.
Directives(i) ==
  /\ pc # "idle" /\ cur = NoId /\ i \in todo /\ cur' = i
  /\ pc = "update" => ~UpToDate(i)
  /\ Execute(IF pc = "uninstall" THEN processed[i] ELSE HookFile(i), i)
  /\ UNCHANGED <<installed, processed, pc, old, new, todo, due, changes, crashes>>

Skip(i) ==
  /\ pc = "update" /\ cur = NoId /\ i \in todo /\ UpToDate(i)
  /\ todo' = todo \ {i}
  /\ UNCHANGED <<installed, processed, data, pc, old, new, cur, due, changes, crashes>>

\* QFile::remove(destination)
RemoveOld ==
  /\ pc = "update" /\ cur # NoId /\ Exists(processed[cur])
  /\ processed' = [processed EXCEPT ![cur] = Absent]
  /\ UNCHANGED <<installed, data, hookVars, due, changes, crashes>>

RecordMut ==   \* mutant: the copy of an app that is gone is kept
  /\ cur # NoId /\ todo' = todo \ {cur} /\ cur' = NoId
  /\ pc = "update" => ~Exists(processed[cur])
  /\ processed' = IF pc # "uninstall" /\ Exists(HookFile(cur)) THEN [processed EXCEPT ![cur] = Copy(cur)] ELSE processed
  /\ UNCHANGED <<installed, data, pc, old, new, due, changes, crashes>>

\* QFile::copy, which fails when there is no file; or QFile::remove of the copy.
Record ==
  /\ cur # NoId /\ todo' = todo \ {cur} /\ cur' = NoId
  /\ pc = "update" => ~Exists(processed[cur])
  /\ processed' = IF pc = "uninstall" THEN [processed EXCEPT ![cur] = Absent]
                  ELSE IF Exists(HookFile(cur)) THEN [processed EXCEPT ![cur] = Copy(cur)]
                  ELSE processed
  /\ UNCHANGED <<installed, data, pc, old, new, due, changes, crashes>>

\* handleInstalls, handleUpdates, handleUninstall, in this order.
NextPhase ==
  /\ pc # "idle" /\ todo = {}
  /\ CASE pc = "install"   -> pc' = "update" /\ todo' = old \cap Listed
       [] pc = "update"    -> pc' = "uninstall" /\ todo' = old \ Listed
       [] pc = "uninstall" -> pc' = "idle" /\ todo' = {}
  /\ UNCHANGED <<installed, processed, data, old, new, cur, due, changes, crashes>>

\* The next hook, after the next change, finds what this one has left.
Crash ==
  /\ pc # "idle" /\ crashes < MaxCrashes /\ crashes' = crashes + 1
  /\ pc' = "idle" /\ todo' = {} /\ cur' = NoId /\ due' = TRUE
  /\ UNCHANGED <<installed, processed, data, old, new, changes>>

HookStep == Start \/ (\E i \in Id : Directives(i) \/ Skip(i)) \/ RemoveOld \/ Record \/ NextPhase

Next == (\E i \in Id : PackageChanges(i) \/ AppRuns(i)) \/ HookStep \/ Crash

Spec == Init /\ [][Next]_vars

-----------------------------------------------------------------------------
(* Properties *)

Quiet == pc = "idle" /\ ~due

\* When no hook is due, those processed are those installed, with the contents they have now:
\* also when hooks were stopped, and when packages changed under them.
InSync == Quiet => \A i \in Id : /\ Exists(processed[i]) <=> Exists(installed[i])
                                 /\ Exists(installed[i]) => processed[i].asks = installed[i].asks

\* An app whose hooks, installed and processed, do not ask for it keeps its data.
KeepsData ==
  \A i \in Id : LET p == PackageOf[i]
                   gone == data[p] \ data'[p]
               IN Exists(installed[i]) /\ gone # {} =>
                    \E j \in Id : PackageOf[j] = p /\ Exists(processed[j]) /\ gone \subseteq processed[j].asks["uninstall"]

\* When the copy of an app that has been removed goes, so has the data that its hook asked to
\* delete, unless an app of the package is installed.  (Packages do not change meanwhile.)
CleansUp ==
  \A i \in Id : pc = "uninstall" /\ Exists(processed[i]) /\ ~Exists(processed'[i]) =>
    \/ data'[PackageOf[i]] \cap processed[i].asks["uninstall"] = {}
    \/ \E j \in Id : PackageOf[j] = PackageOf[i] /\ Exists(installed[j])

\* "one can also act on them as the click is being upgraded & installed": after the directives
\* of an app have been executed, what they ask to delete is gone.
UpgradeCleans ==
  [][\A i \in Id : pc \in {"install", "update"} /\ cur = NoId /\ cur' = i =>
       data'[PackageOf[i]] \cap Asks(HookFile(i)) = {}]_vars
=============================================================================
