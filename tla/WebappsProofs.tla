---------------------------- MODULE WebappsProofs ----------------------------
(***************************************************************************)
(* Proofs about the hook that is run when web apps change (ClickHooks),    *)
(* for any apps and any numbers of changes and of hooks that are stopped,  *)
(* and about the container of a web app (WebappContainer).                 *)
(***************************************************************************)
EXTENDS MCWebapps, SelectionProofs

-----------------------------------------------------------------------------
(* The hook *)

Absent == Hooks!Absent
There(f) == f # Absent
\* A hook file has the time of the change it came with, a copy that of a later moment.
Files == [version : 1 .. changes, time : Nat, asks : MCContents]
HookTypes ==
  /\ changes \in Nat
  /\ installed \in [Id -> Files \cup {Absent}] /\ processed \in [Id -> Files \cup {Absent}]
  /\ \A i \in Id : There(installed[i]) => installed[i].time = 2 * installed[i].version
  /\ \A i \in Id : There(processed[i]) => processed[i].time <= 2 * changes + 1
  /\ new \in [Id -> Nat] /\ old \subseteq Id /\ todo \subseteq Id
  /\ pc \in {"idle", "install", "update", "uninstall"}
  /\ cur # NoId => cur \in todo

\* A copy that is not older than the file is a copy of it.
NotOlder == \A i \in Id : There(installed[i]) /\ There(processed[i]) /\ processed[i].time >= installed[i].time
                            => processed[i].asks = installed[i].asks

\* When nothing has changed since a hook was started, the apps that it has not come to are those on its
\* list and those of its later phases; each other one is in the state that it is to be in.
Listed == {i \in Id : new[i] # 0}
Pending(i) == \/ i \in todo
              \/ pc = "install" /\ i \in old
              \/ pc = "update" /\ i \in old \ Listed
Same(i) == There(processed[i]) /\ processed[i].asks = installed[i].asks
Handled(i) == (i \in Listed /\ Same(i)) \/ (i \notin Listed /\ ~There(processed[i]))
OfPhase(i) == \/ pc = "install" /\ i \in Listed \ old
              \/ pc = "update" /\ i \in Listed \cap old
              \/ pc = "uninstall" /\ i \in old \ Listed
Undisturbed == ~due =>
  /\ \A i \in Id : new[i] = installed[i].version
  /\ \A i \in todo : OfPhase(i)
  /\ \A i \in Id : Pending(i) \/ Handled(i)

HooksInv == HookTypes /\ NotOlder /\ Undisturbed

LEMMA HooksInitInv == Hooks!Init => HooksInv
<1> SUFFICES ASSUME Hooks!Init PROVE HooksInv
  OBVIOUS
<1>1. /\ installed = [i \in Id |-> Absent] /\ processed = [i \in Id |-> Absent]
      /\ pc = "idle" /\ old = {} /\ new = [i \in Id |-> 0] /\ todo = {} /\ cur = NoId
      /\ due = FALSE /\ changes = 0
  BY DEF Hooks!Init, Absent
<1>2. Absent.version = 0
  BY DEF Absent, Hooks!Absent
<1> QED
  BY <1>1, <1>2 DEF HooksInv, HookTypes, NotOlder, Undisturbed, There, Listed, Pending, Handled

\* A file there is has a version, and the other way round.
LEMMA FileIs ==
  ASSUME HookTypes, NEW i \in Id
  PROVE  /\ installed[i] \in Files \cup {Absent} /\ processed[i] \in Files \cup {Absent}
         /\ There(installed[i]) <=> installed[i].version # 0
         /\ installed[i].version \in 0 .. changes /\ changes \in Nat
         /\ There(installed[i]) => installed[i] \in Files
         /\ There(processed[i]) => processed[i] \in Files
<1>1. installed[i] \in Files \cup {Absent} /\ processed[i] \in Files \cup {Absent} /\ changes \in Nat
  BY DEF HookTypes
<1>2. Absent.version = 0
  BY DEF Absent, Hooks!Absent
<1>3. \A f \in Files : f.version \in 1 .. changes
  BY DEF Files
<1> QED
  BY <1>1, <1>2, <1>3 DEF There

\* An app is installed, updated or removed.
LEMMA PackageStep ==
  ASSUME HooksInv, NEW i \in Id, Hooks!PackageChanges(i)
  PROVE  HooksInv'
<1>1. /\ changes' = changes + 1 /\ due' = TRUE /\ changes \in Nat
      /\ UNCHANGED <<processed, pc, old, new, todo, cur>>
  BY DEF Hooks!PackageChanges, Hooks!hookVars, HooksInv, HookTypes
<1>2. PICK f : /\ installed' = [installed EXCEPT ![i] = f]
               /\ \/ f = Absent
                  \/ \E c \in MCContents : f = [version |-> changes', time |-> 2 * changes', asks |-> c]
  <2>1. CASE \E c \in MCContents, t \in {2 * changes'} :
               installed' = [installed EXCEPT ![i] = [version |-> changes', time |-> t, asks |-> c]]
    BY <2>1
  <2>2. CASE installed' = [installed EXCEPT ![i] = Hooks!Absent]
    BY <2>2 DEF Absent
  <2> QED
    BY <2>1, <2>2 DEF Hooks!PackageChanges
<1>3. \A j \in Id : installed'[j] = IF j = i THEN f ELSE installed[j]
  BY <1>2 DEF HooksInv, HookTypes
<1>4. f # Absent => f \in Files' /\ f.time = 2 * f.version /\ f.time = 2 * changes + 2
  <2>1. changes' \in 1 .. changes' /\ 2 * changes' \in Nat /\ 2 * changes' = 2 * changes + 2
    BY <1>1
  <2> QED
    BY <1>2, <2>1 DEF Files
<1>5. Files \subseteq Files'
  <2>1. 1 .. changes \subseteq 1 .. changes'
    BY <1>1
  <2> QED
    BY <2>1 DEF Files
<1>6. HookTypes'
  <2>1. installed' \in [Id -> Files' \cup {Absent}] /\ processed' \in [Id -> Files' \cup {Absent}]
    BY <1>1, <1>2, <1>4, <1>5 DEF HooksInv, HookTypes
  <2>2. \A j \in Id : There(installed'[j]) => installed'[j].time = 2 * installed'[j].version
    BY <1>3, <1>4 DEF HooksInv, HookTypes, There
  <2>3. ASSUME NEW j \in Id, There(processed'[j]) PROVE processed'[j].time <= 2 * changes' + 1
    <3>1. processed[j].time <= 2 * changes + 1 /\ processed[j].time \in Nat
      BY <1>1, <2>3, FileIs DEF HooksInv, HookTypes, Files
    <3> QED
      BY <1>1, <3>1
  <2> QED
    BY <1>1, <2>1, <2>2, <2>3 DEF HooksInv, HookTypes
<1>7. NotOlder'
  <2> SUFFICES ASSUME NEW j \in Id, There(installed'[j]), There(processed'[j]),
                      processed'[j].time >= installed'[j].time
               PROVE  processed'[j].asks = installed'[j].asks
    BY DEF NotOlder
  <2>1. CASE j = i
    <3>1. processed[j].time <= 2 * changes + 1 /\ processed[j].time \in Nat
      BY <1>1, FileIs DEF HooksInv, HookTypes, Files
    <3>2. installed'[j].time = 2 * changes + 2
      BY <1>3, <1>4, <2>1 DEF There
    <3> QED
      BY <1>1, <3>1, <3>2
  <2>2. CASE j # i
    BY <1>1, <1>3, <2>2 DEF HooksInv, NotOlder
  <2> QED
    BY <2>1, <2>2
<1> QED
  BY <1>1, <1>6, <1>7 DEF HooksInv, Undisturbed
\* The file of the version that was listed is the installed one, and is the one installed for
\* every app while nothing has changed.
LEMMA ListedFile ==
  ASSUME HooksInv, NEW i \in Id
  PROVE  /\ There(Hooks!HookFile(i)) => Hooks!HookFile(i) = installed[i] /\ There(installed[i])
         /\ ~due => Hooks!HookFile(i) = installed[i] /\ (There(installed[i]) <=> i \in Listed)
<1>1. HookTypes /\ (~due => new[i] = installed[i].version)
  BY DEF HooksInv, Undisturbed
<1>2. There(installed[i]) <=> installed[i].version # 0
  BY <1>1, FileIs
<1>3. Hooks!HookFile(i) = IF installed[i].version = new[i] THEN installed[i] ELSE Absent
  BY DEF Hooks!HookFile, Absent
<1> QED
  BY <1>1, <1>2, <1>3 DEF There, Listed

\* A hook is started: what it lists is what is pending.
LEMMA StartStep ==
  ASSUME HooksInv, Hooks!Start
  PROVE  HooksInv'
<1>1. /\ due' = FALSE /\ old' = {i \in Id : There(processed[i])} /\ new' = [i \in Id |-> installed[i].version]
      /\ pc' = "install" /\ todo' = {i \in Id : new'[i] # 0} \ old' /\ cur' = NoId
      /\ UNCHANGED <<installed, processed, changes>>
  BY DEF Hooks!Start, Hooks!Exists, There, Absent
<1>2. HookTypes'
  <2>1. \A i \in Id : installed[i].version \in Nat
    <3> SUFFICES ASSUME NEW i \in Id PROVE installed[i].version \in Nat
      OBVIOUS
    <3>1. installed[i].version \in 0 .. changes /\ changes \in Nat
      BY FileIs DEF HooksInv
    <3> QED
      BY <3>1
  <2>2. new' \in [Id -> Nat]
    BY <1>1, <2>1
  <2> QED
    BY <1>1, <2>2 DEF HooksInv, HookTypes, Files, There
<1>3. NotOlder'
  BY <1>1 DEF HooksInv, NotOlder, There
<1>4. Undisturbed'
  BY <1>1 DEF Undisturbed, Listed, Pending, Handled, OfPhase, There
<1> QED
  BY <1>2, <1>3, <1>4 DEF HooksInv

\* An app that has not changed is passed over: its copy is that of the file.
LEMMA SkipStep ==
  ASSUME HooksInv, NEW i \in Id, Hooks!Skip(i)
  PROVE  HooksInv'
<1>1. /\ pc = "update" /\ i \in todo /\ todo' = todo \ {i} /\ cur = NoId
      /\ UNCHANGED <<installed, processed, pc, old, new, cur, due, changes>>
  BY DEF Hooks!Skip
<1>2. There(processed[i]) /\ (There(Hooks!HookFile(i)) => processed[i].time >= Hooks!HookFile(i).time)
  BY DEF Hooks!Skip, Hooks!UpToDate, Hooks!Exists, There, Absent
<1>3. HookTypes' /\ NotOlder'
  BY <1>1 DEF HooksInv, HookTypes, NotOlder, Files, There
<1>4. ~due => i \in Listed /\ Same(i)
  <2> SUFFICES ASSUME ~due PROVE i \in Listed /\ Same(i)
    OBVIOUS
  <2>1. i \in Listed
    BY <1>1 DEF HooksInv, Undisturbed, OfPhase
  <2>2. Hooks!HookFile(i) = installed[i] /\ There(installed[i])
    BY <2>1, ListedFile
  <2> QED
    BY <1>2, <2>1, <2>2 DEF HooksInv, NotOlder, Same
<1>5. Undisturbed'
  BY <1>1, <1>4 DEF HooksInv, Undisturbed, Listed, Pending, Handled, OfPhase, There, Same
<1> QED
  BY <1>3, <1>5 DEF HooksInv

\* The directives of an app are executed.
LEMMA DirectivesStep ==
  ASSUME HooksInv, NEW i \in Id, Hooks!Directives(i)
  PROVE  HooksInv'
<1>1. /\ i \in todo /\ cur' = i
      /\ UNCHANGED <<installed, processed, pc, old, new, todo, due, changes>>
  BY DEF Hooks!Directives
<1> QED
  BY <1>1 DEF HooksInv, HookTypes, NotOlder, Undisturbed, Files, Listed, Pending, Handled, OfPhase, There, Same

\* The copy of an app that is to be updated is removed.
LEMMA RemoveOldStep ==
  ASSUME HooksInv, Hooks!RemoveOld
  PROVE  HooksInv'
<1>1. /\ cur # NoId /\ processed' = [processed EXCEPT ![cur] = Absent]
      /\ UNCHANGED <<installed, pc, old, new, todo, cur, due, changes>>
  BY DEF Hooks!RemoveOld, Hooks!hookVars, Absent
<1>2. cur \in todo /\ todo \subseteq Id /\ processed \in [Id -> Files \cup {Absent}]
  BY <1>1 DEF HooksInv, HookTypes
<1>3. \A i \in Id : processed'[i] = IF i = cur THEN Absent ELSE processed[i]
  BY <1>1, <1>2
<1>4. processed' \in [Id -> Files \cup {Absent}]
  BY <1>1, <1>2
<1>5. HookTypes' /\ NotOlder'
  BY <1>1, <1>3, <1>4 DEF HooksInv, HookTypes, NotOlder, Files, There
<1>6. Undisturbed'
  BY <1>1, <1>2, <1>3 DEF HooksInv, Undisturbed, Listed, Pending, Handled, OfPhase, There, Same
<1> QED
  BY <1>5, <1>6 DEF HooksInv
\* What has been done for an app is recorded: a copy of its file is made, or its copy removed.
LEMMA RecordStep ==
  ASSUME HooksInv, Hooks!Record
  PROVE  HooksInv'
<1> DEFINE C(i) == [installed[i] EXCEPT !.time = 2 * changes + 1]
<1>1. /\ cur # NoId /\ todo' = todo \ {cur} /\ cur' = NoId
      /\ UNCHANGED <<installed, pc, old, new, due, changes>>
  BY DEF Hooks!Record
<1>2. PICK i \in Id : i = cur /\ i \in todo
  BY <1>1 DEF HooksInv, HookTypes
<1>3. processed \in [Id -> Files \cup {Absent}] /\ changes \in Nat
  BY DEF HooksInv, HookTypes
<1>4. There(installed[i]) => /\ C(i) \in Files /\ There(C(i)) /\ C(i).time = 2 * changes + 1
                             /\ C(i).asks = installed[i].asks
  <2> SUFFICES ASSUME There(installed[i])
               PROVE  /\ C(i) \in Files /\ There(C(i)) /\ C(i).time = 2 * changes + 1
                      /\ C(i).asks = installed[i].asks
    OBVIOUS
  <2>1. installed[i] \in Files /\ installed[i].version # 0
    BY FileIs DEF HooksInv
  <2>2. Absent.version = 0
    BY DEF Absent, Hooks!Absent
  <2>3. C(i).version = installed[i].version /\ C(i) \in Files /\ C(i).time = 2 * changes + 1
        /\ C(i).asks = installed[i].asks
    BY <1>3, <2>1 DEF Files
  <2> QED
    BY <2>1, <2>2, <2>3 DEF There
<1>5. PICK f : /\ processed' = [processed EXCEPT ![i] = f]
               /\ f = Absent \/ f = processed[i] \/ (There(installed[i]) /\ f = C(i))
               /\ pc = "uninstall" => f = Absent
               /\ ~due /\ pc # "uninstall" /\ There(installed[i]) => f = C(i)
  <2>1. CASE pc = "uninstall"
    <3>1. processed' = [processed EXCEPT ![i] = Absent]
      BY <1>2, <2>1 DEF Hooks!Record, Absent
    <3> QED
      BY <2>1, <3>1
  <2>2. CASE pc # "uninstall" /\ There(Hooks!HookFile(i))
    <3>1. Hooks!HookFile(i) = installed[i] /\ There(installed[i])
      BY <2>2, ListedFile
    <3>2. processed' = [processed EXCEPT ![i] = Hooks!Copy(i)]
      BY <1>2, <2>2 DEF Hooks!Record, Hooks!Exists, Absent, There
    <3>3. Hooks!Copy(i) = C(i)
      BY <3>1 DEF Hooks!Copy, Hooks!Now
    <3> QED
      BY <2>2, <3>1, <3>2, <3>3
  <2>3. CASE pc # "uninstall" /\ ~There(Hooks!HookFile(i))
    <3>1. processed' = processed
      BY <1>2, <2>3 DEF Hooks!Record, Hooks!Exists, Absent, There
    <3>2. processed' = [processed EXCEPT ![i] = processed[i]]
      BY <1>3, <3>1
    <3>3. ~due => ~There(installed[i])
      BY <2>3, ListedFile
    <3>4. PICK g : g = processed[i]
      OBVIOUS
    <3> QED
      BY <2>3, <3>2, <3>3, <3>4
  <2> QED
    BY <2>1, <2>2, <2>3
<1> HIDE DEF C
<1>6. \A j \in Id : processed'[j] = IF j = i THEN f ELSE processed[j]
  BY <1>3, <1>5
<1>7. f \in Files \cup {Absent}
  BY <1>2, <1>3, <1>4, <1>5
<1>8. processed' \in [Id -> Files \cup {Absent}] /\ Files' = Files
  BY <1>1, <1>3, <1>5, <1>7 DEF Files
<1>9. There(f) => /\ f.time <= 2 * changes + 1
                  /\ f = processed[i] \/ f.asks = installed[i].asks
  <2>1. There(processed[i]) => processed[i].time <= 2 * changes + 1
    BY DEF HooksInv, HookTypes
  <2> QED
    BY <1>3, <1>4, <1>5, <2>1 DEF There
<1>10. HookTypes'
  BY <1>1, <1>2, <1>6, <1>8, <1>9 DEF HooksInv, HookTypes, There
<1>11. NotOlder'
  <2> SUFFICES ASSUME NEW j \in Id, There(installed[j]), There(processed'[j]),
                      processed'[j].time >= installed[j].time
               PROVE  processed'[j].asks = installed[j].asks
    BY <1>1 DEF NotOlder, There
  <2>1. CASE j = i
    BY <1>6, <1>9, <2>1 DEF HooksInv, NotOlder
  <2>2. CASE j # i
    BY <1>6, <2>2 DEF HooksInv, NotOlder
  <2> QED
    BY <2>1, <2>2
<1>12. ~due => Handled(i)'
  <2> SUFFICES ASSUME ~due PROVE (i \in Listed /\ Same(i)') \/ (i \notin Listed /\ ~There(processed'[i]))
    BY <1>1 DEF Handled, Listed, There
  <2>1. OfPhase(i)
    BY <1>2 DEF HooksInv, Undisturbed
  <2>2. CASE i \in Listed
    <3>1. There(installed[i]) /\ pc # "uninstall"
      BY <2>1, <2>2, ListedFile DEF OfPhase
    <3>2. processed'[i] = C(i)
      BY <1>5, <1>6, <3>1
    <3> QED
      BY <1>1, <1>4, <2>2, <3>1, <3>2 DEF Same, There
  <2>3. CASE i \notin Listed
    <3>1. pc = "uninstall"
      BY <2>1, <2>3 DEF OfPhase
    <3> QED
      BY <1>5, <1>6, <2>3, <3>1 DEF There
  <2> QED
    BY <2>2, <2>3
<1>13. Undisturbed'
  <2> SUFFICES ASSUME ~due PROVE Undisturbed'
    BY <1>1 DEF Undisturbed
  <2>1. \A j \in Id : j # i => (Pending(j) \/ Handled(j)) /\ processed'[j] = processed[j]
    BY <1>6 DEF HooksInv, Undisturbed
  <2>2. \A j \in Id : j # i => (Pending(j) \/ Handled(j))'
    BY <1>1, <1>2, <2>1 DEF Pending, Handled, Listed, Same, There
  <2>3. (\A j \in Id : new[j] = installed[j].version)' /\ (\A j \in todo : OfPhase(j))'
    BY <1>1, <1>2 DEF HooksInv, Undisturbed, OfPhase, Listed
  <2> QED
    BY <1>12, <2>2, <2>3 DEF Undisturbed
<1> QED
  BY <1>10, <1>11, <1>13 DEF HooksInv

\* A phase is over: what was pending is in the next one, or in the one after it.
LEMMA PhaseStep ==
  ASSUME HooksInv, Hooks!NextPhase
  PROVE  HooksInv'
<1>1. /\ todo = {} /\ UNCHANGED <<installed, processed, old, new, cur, due, changes>>
      /\ \/ pc = "install" /\ pc' = "update" /\ todo' = old \cap Listed
         \/ pc = "update" /\ pc' = "uninstall" /\ todo' = old \ Listed
         \/ pc = "uninstall" /\ pc' = "idle" /\ todo' = {}
  BY DEF Hooks!NextPhase, HooksInv, HookTypes, Hooks!Listed, Listed
<1>2. HookTypes' /\ NotOlder'
  BY <1>1 DEF HooksInv, HookTypes, NotOlder, Files, There
<1>3. Undisturbed'
  BY <1>1 DEF HooksInv, Undisturbed, Listed, Pending, Handled, OfPhase, There, Same
<1> QED
  BY <1>2, <1>3 DEF HooksInv

\* A hook stops: the next one is due.
LEMMA CrashStep ==
  ASSUME HooksInv, Hooks!Crash
  PROVE  HooksInv'
<1>1. /\ due' = TRUE /\ pc' = "idle" /\ todo' = {} /\ cur' = NoId
      /\ UNCHANGED <<installed, processed, old, new, changes>>
  BY DEF Hooks!Crash
<1> QED
  BY <1>1 DEF HooksInv, HookTypes, NotOlder, Undisturbed, Files, There

\* A step that leaves apart only data, and the number of hooks stopped.
LEMMA HooksIdle ==
  ASSUME HooksInv, UNCHANGED <<installed, processed, pc, old, new, todo, cur, due, changes>>
  PROVE  HooksInv'
  BY DEF HooksInv, HookTypes, NotOlder, Undisturbed, Files, Listed, Pending, Handled, OfPhase, There, Same

LEMMA HooksNextInv ==
  ASSUME HooksInv, Hooks!Next
  PROVE  HooksInv'
<1>1. ASSUME NEW i \in Id, Hooks!PackageChanges(i) PROVE HooksInv'
  BY <1>1, PackageStep
<1>2. ASSUME NEW i \in Id, Hooks!AppRuns(i) PROVE HooksInv'
  BY <1>2, HooksIdle DEF Hooks!AppRuns, Hooks!hookVars
<1>3. ASSUME NEW i \in Id, Hooks!Directives(i) PROVE HooksInv'
  BY <1>3, DirectivesStep
<1>4. ASSUME NEW i \in Id, Hooks!Skip(i) PROVE HooksInv'
  BY <1>4, SkipStep
<1> QED
  BY <1>1, <1>2, <1>3, <1>4, StartStep, RemoveOldStep, RecordStep, PhaseStep, CrashStep
  DEF Hooks!Next, Hooks!HookStep

\* When packages do not change while the hook runs, it takes no step that it could not take otherwise.
LEMMA AloneIsHooks == ASSUME Alone!Next PROVE Hooks!Next
<1>1. ASSUME NEW i \in Id, Alone!PackageChanges(i) PROVE Hooks!PackageChanges(i)
  BY <1>1 DEF Alone!PackageChanges, Hooks!PackageChanges, Alone!hookVars, Hooks!hookVars,
              Alone!Exists, Hooks!Exists, Alone!Absent, Hooks!Absent
<1>2. ASSUME NEW i \in Id, Alone!AppRuns(i) PROVE Hooks!AppRuns(i)
  BY <1>2 DEF Alone!AppRuns, Hooks!AppRuns, Alone!hookVars, Hooks!hookVars, Alone!Kind, Hooks!Kind,
              Alone!Exists, Hooks!Exists, Alone!Absent, Hooks!Absent
<1>3. ASSUME Alone!Start PROVE Hooks!Start
  BY <1>3 DEF Alone!Start, Hooks!Start, Alone!Exists, Hooks!Exists, Alone!Absent, Hooks!Absent
<1>4. ASSUME NEW i PROVE Alone!HookFile(i) = Hooks!HookFile(i)
  BY DEF Alone!HookFile, Hooks!HookFile, Alone!Absent, Hooks!Absent
<1>5. ASSUME NEW i PROVE Alone!UpToDate(i) = Hooks!UpToDate(i)
  BY <1>4 DEF Alone!UpToDate, Hooks!UpToDate, Alone!Exists, Hooks!Exists, Alone!Absent, Hooks!Absent
<1>6. ASSUME NEW i \in Id, Alone!Directives(i) PROVE Hooks!Directives(i)
  BY Zenon, <1>4, <1>5, <1>6 DEF Alone!Directives, Hooks!Directives, Alone!Execute, Hooks!Execute, Alone!Dir,
     Hooks!Dir, Alone!Asks, Hooks!Asks, Alone!Exists, Hooks!Exists, Alone!Absent, Hooks!Absent
<1>7. ASSUME NEW i \in Id, Alone!Skip(i) PROVE Hooks!Skip(i)
  BY <1>5, <1>7 DEF Alone!Skip, Hooks!Skip
<1>8. ASSUME Alone!RemoveOld PROVE Hooks!RemoveOld
  BY <1>8 DEF Alone!RemoveOld, Hooks!RemoveOld, Alone!hookVars, Hooks!hookVars, Alone!Exists, Hooks!Exists,
     Alone!Absent, Hooks!Absent
<1>9. ASSUME Alone!Record PROVE Hooks!Record
  BY <1>4, <1>9 DEF Alone!Record, Hooks!Record, Alone!Copy, Hooks!Copy, Alone!Now, Hooks!Now,
     Alone!Exists, Hooks!Exists, Alone!Absent, Hooks!Absent
<1>10. ASSUME Alone!NextPhase PROVE Hooks!NextPhase
  BY Zenon, <1>10 DEF Alone!NextPhase, Hooks!NextPhase, Alone!Listed, Hooks!Listed
<1>11. ASSUME Alone!Crash PROVE Hooks!Crash
  BY <1>11 DEF Alone!Crash, Hooks!Crash
<1> QED
  BY <1>1, <1>2, <1>3, <1>6, <1>7, <1>8, <1>9, <1>10, <1>11
  DEF Alone!Next, Hooks!Next, Alone!HookStep, Hooks!HookStep

\* When no hook is due, the hooks that have been processed are those that are installed, with their
\* contents: also when hooks were stopped, and when packages changed while one ran (hook-utils.cpp).
THEOREM HooksStayInSync == Spec => []InSync
<1>1. Init => HooksInv
  BY HooksInitInv DEF Init
<1>2. HooksInv /\ [Next]_vars => HooksInv'
  <2> SUFFICES ASSUME HooksInv, [Next]_vars PROVE HooksInv'
    OBVIOUS
  <2>1. CASE InHooks(Hooks!Next)
    BY <2>1, HooksNextInv DEF InHooks
  <2>2. CASE Runs("alone") /\ Alone!Next /\ UNCHANGED containerVars
    BY <2>2, AloneIsHooks, HooksNextInv
  <2>3. CASE UNCHANGED hookVars
    BY <2>3, HooksIdle DEF hookVars
  <2> QED
    BY <2>1, <2>2, <2>3 DEF Next, vars
<1>3. HooksInv => InSync
  <2> SUFFICES ASSUME HooksInv, pc = "idle", ~due, NEW i \in Id
               PROVE  /\ There(processed[i]) <=> There(installed[i])
                      /\ There(installed[i]) => processed[i].asks = installed[i].asks
    BY DEF InSync, Hooks!InSync, Hooks!Quiet, Hooks!Exists, There, Absent
  <2>1. Handled(i)
    BY DEF HooksInv, Undisturbed, Pending, OfPhase
  <2>2. There(installed[i]) <=> i \in Listed
    BY ListedFile
  <2> QED
    BY <2>1, <2>2 DEF Handled, Same
<1> QED
  BY <1>1, <1>2, <1>3, PTL DEF Spec
-----------------------------------------------------------------------------
(* What the hook deletes *)

Kinds == Hooks!Kind
DataType == data \in [Hooks!Package \cup Id -> SUBSET Kinds]

\* While no package changes: the data that the hook of a removed app asks to delete is gone when its
\* directives have been executed, unless an app of the package is installed, that can write it again.
Deleted(i) == data["package"] \cap processed[i].asks["uninstall"] = {}
CleanInv == pc = "uninstall" /\ cur # NoId /\ There(processed[cur]) => Deleted(cur) \/ \E j \in Id : There(installed[j])

DeletesInv == HooksInv /\ DataType /\ (part = "alone" => CleanInv)

LEMMA OfOnePackage ==
  ASSUME NEW i \in Id
  PROVE  OnePackage[i] = "package" /\ "package" \in Hooks!Package
  BY DEF OnePackage, Hooks!Package

\* What a step does to the data: an app that is installed runs, or a directive deletes.
LEMMA DataStep ==
  ASSUME HooksInv, DataType, Hooks!Next
  PROVE  /\ DataType'
         /\ \/ data' = data
            \/ \E i \in Id : There(installed[i]) /\ data["package"] \subseteq data'["package"]
            \/ \E i \in Id : /\ Hooks!Directives(i) /\ data' # data
                             /\ pc # "uninstall" => data'["package"] = data["package"]
                             /\ pc = "uninstall" =>
                                  /\ There(processed[i])
                                  /\ data'["package"] = data["package"] \ processed[i].asks["uninstall"]
<1> DEFINE Goal == \/ data' = data
                   \/ \E i \in Id : There(installed[i]) /\ data["package"] \subseteq data'["package"]
                   \/ \E i \in Id : /\ Hooks!Directives(i) /\ data' # data
                                    /\ pc # "uninstall" => data'["package"] = data["package"]
                                    /\ pc = "uninstall" =>
                                         /\ There(processed[i])
                                         /\ data'["package"] = data["package"] \ processed[i].asks["uninstall"]
<1>1. ASSUME UNCHANGED data PROVE DataType' /\ Goal
  BY <1>1 DEF DataType
<1>2. ASSUME NEW i \in Id, Hooks!AppRuns(i) PROVE DataType' /\ Goal
  <2>1. There(installed[i]) /\ data' = [data EXCEPT !["package"] = Kinds]
    BY <1>2, OfOnePackage DEF Hooks!AppRuns, Hooks!Exists, There, Absent, Kinds
  <2>2. "package" \in Hooks!Package
    BY OfOnePackage
  <2>3. DataType' /\ data["package"] \subseteq data'["package"]
    BY <2>1, <2>2 DEF DataType
  <2> QED
    BY <2>1, <2>3
<1>3. ASSUME NEW i \in Id, Hooks!Directives(i) PROVE DataType' /\ Goal
  <2>1. "package" \in Hooks!Package /\ "package" \notin Id
    BY OfOnePackage, IdAssumption
  <2>2. CASE pc = "uninstall"
    <3>1. data' = [data EXCEPT !["package"] = @ \ Hooks!Asks(processed[i])]
      BY <1>3, <2>2, OfOnePackage DEF Hooks!Directives, Hooks!Execute, Hooks!Dir
    <3>2. DataType' /\ data'["package"] = data["package"] \ Hooks!Asks(processed[i])
      BY <2>1, <3>1 DEF DataType
    <3>3. CASE There(processed[i])
      <4>1. Hooks!Asks(processed[i]) = processed[i].asks["uninstall"]
        BY <2>2, <3>3 DEF Hooks!Asks, Hooks!Exists, There, Absent
      <4> QED
        BY <1>3, <2>2, <3>2, <3>3, <4>1
    <3>4. CASE ~There(processed[i])
      <4>1. Hooks!Asks(processed[i]) = {}
        BY <3>4 DEF Hooks!Asks, Hooks!Exists, There, Absent
      <4>2. data' = data
        BY <3>1, <4>1, <2>1 DEF DataType
      <4> QED
        BY <3>2, <4>2
    <3> QED
      BY <3>3, <3>4
  <2>3. CASE pc # "uninstall"
    <3>1. data' = [data EXCEPT ![i] = @ \ Hooks!Asks(Hooks!HookFile(i))]
      BY <1>3, <2>3 DEF Hooks!Directives, Hooks!Execute, Hooks!Dir
    <3>2. DataType' /\ data'["package"] = data["package"]
      BY <2>1, <3>1 DEF DataType
    <3> QED
      BY <1>3, <2>3, <3>2
  <2> QED
    BY <2>2, <2>3
<1>4. ASSUME NEW i \in Id, Hooks!PackageChanges(i) \/ Hooks!Skip(i) PROVE UNCHANGED data
  BY <1>4 DEF Hooks!PackageChanges, Hooks!Skip
<1>5. Hooks!Start \/ Hooks!RemoveOld \/ Hooks!Record \/ Hooks!NextPhase \/ Hooks!Crash => UNCHANGED data
  BY DEF Hooks!Start, Hooks!RemoveOld, Hooks!Record, Hooks!NextPhase, Hooks!Crash
<1> HIDE DEF Goal
<1>6. DataType' /\ Goal
  BY <1>1, <1>2, <1>3, <1>4, <1>5 DEF Hooks!Next, Hooks!HookStep
<1> QED
  BY <1>6 DEF Goal

\* The step with which the data is looked at: the copy of an app that was removed goes.
LEMMA CopyGoes ==
  ASSUME HooksInv, Hooks!Next, pc = "uninstall", NEW i \in Id, There(processed[i]), ~There(processed'[i])
  PROVE  Hooks!Record /\ i = cur /\ cur # NoId /\ UNCHANGED <<data, installed>>
<1>1. ASSUME NEW j \in Id, Hooks!PackageChanges(j) \/ Hooks!AppRuns(j) \/ Hooks!Directives(j) \/ Hooks!Skip(j)
      PROVE  UNCHANGED processed
  BY <1>1 DEF Hooks!PackageChanges, Hooks!AppRuns, Hooks!Directives, Hooks!Skip
<1>2. Hooks!Start \/ Hooks!NextPhase \/ Hooks!Crash => UNCHANGED processed
  BY DEF Hooks!Start, Hooks!NextPhase, Hooks!Crash
<1>3. ~Hooks!RemoveOld
  BY DEF Hooks!RemoveOld
<1>4. Hooks!Record
  BY <1>1, <1>2, <1>3 DEF Hooks!Next, Hooks!HookStep, There
<1>5. processed' = [processed EXCEPT ![cur] = Absent] /\ cur # NoId /\ UNCHANGED <<data, installed>>
  BY <1>4 DEF Hooks!Record, Absent
<1>6. i = cur
  BY <1>5 DEF HooksInv, HookTypes
<1> QED
  BY <1>4, <1>5, <1>6

\* What keeps CleanInv while no package changes.
LEMMA CleanStep ==
  ASSUME HooksInv, DataType, CleanInv, Alone!Next
  PROVE  CleanInv'
<1>1. Hooks!Next
  BY AloneIsHooks
<1>2. SUFFICES ASSUME pc' = "uninstall", cur' # NoId, There(processed'[cur']), ~\E j \in Id : There(installed'[j])
               PROVE  Deleted(cur)'
  BY DEF CleanInv
<1>3. ASSUME NEW j \in Id, Alone!PackageChanges(j) PROVE FALSE
  BY <1>2, <1>3 DEF Alone!PackageChanges, Alone!hookVars
<1>4. ASSUME NEW j \in Id, Alone!AppRuns(j) PROVE FALSE
  <2>1. There(installed[j]) /\ installed' = installed
    BY <1>4 DEF Alone!AppRuns, Alone!Exists, Alone!Absent, There, Absent, Hooks!Absent
  <2> QED
    BY <1>2, <2>1 DEF There
<1>5. ASSUME NEW j \in Id, Alone!Directives(j) PROVE Deleted(cur)'
  <2>1. pc = "uninstall" /\ cur' = j /\ UNCHANGED <<processed, pc>>
    BY <1>2, <1>5 DEF Alone!Directives
  <2>2. Alone!Execute(processed[j], j)
    BY <1>5, <2>1 DEF Alone!Directives
  <2>3. There(processed[j])
    BY <1>2, <2>1 DEF There
  <2>4. data' = [data EXCEPT !["package"] = @ \ processed[j].asks["uninstall"]]
    BY <2>1, <2>2, <2>3, OfOnePackage
    DEF Alone!Execute, Alone!Dir, Alone!Asks, Alone!Exists, Alone!Absent, There, Absent, Hooks!Absent
  <2>5. data'["package"] = data["package"] \ processed[j].asks["uninstall"]
    BY <2>4, OfOnePackage DEF DataType
  <2> QED
    BY <2>1, <2>5 DEF Deleted
<1>6. ASSUME NEW j \in Id, Alone!Skip(j) PROVE FALSE
  BY <1>2, <1>6 DEF Alone!Skip
<1>7. ~Alone!Start /\ ~Alone!RemoveOld /\ ~Alone!Record /\ ~Alone!Crash
  BY <1>2 DEF Alone!Start, Alone!RemoveOld, Alone!Record, Alone!Crash, Alone!hookVars
<1>8. ~Alone!NextPhase
  BY <1>2 DEF Alone!NextPhase, HooksInv, HookTypes
<1> QED
  BY <1>3, <1>4, <1>5, <1>6, <1>7, <1>8 DEF Alone!Next, Alone!HookStep

\* The hook deletes the data of an app that is installed only when a hook of its package asks for it, and
\* when the copy of a removed app goes the data that its hook asked to delete is gone (hook-utils.cpp).
THEOREM HooksDeleteAsAsked == Spec => DeletedAsAsked
<1>1. Init => DeletesInv
  <2> SUFFICES ASSUME Init PROVE DeletesInv
    OBVIOUS
  <2>1. HooksInv
    BY HooksInitInv DEF Init
  <2>2. DataType /\ CleanInv
    BY DEF Init, Hooks!Init, DataType, CleanInv
  <2> QED
    BY <2>1, <2>2 DEF DeletesInv
<1>2. DeletesInv /\ [Next]_vars => DeletesInv' /\ (~UNCHANGED vars => Hooks!KeepsData /\ (part = "alone" => Alone!CleansUp))
  <2> SUFFICES ASSUME DeletesInv, [Next]_vars
               PROVE  DeletesInv' /\ Hooks!KeepsData /\ (part = "alone" => Alone!CleansUp)
    OBVIOUS
  <2>1. CASE UNCHANGED hookVars /\ UNCHANGED part
    <3>1. HooksInv' /\ DataType' /\ (part' = "alone" => CleanInv')
      BY <2>1, HooksIdle DEF hookVars, DeletesInv, DataType, CleanInv, Deleted, There
    <3>2. \A i \in Id : There(processed[i]) => There(processed'[i])
      BY <2>1 DEF hookVars, There
    <3>3. Hooks!KeepsData
      BY <2>1 DEF hookVars, Hooks!KeepsData
    <3>4. Alone!CleansUp
      BY <3>2 DEF Alone!CleansUp, Alone!Exists, Alone!Absent, There, Absent, Hooks!Absent
    <3> QED
      BY <3>1, <3>3, <3>4 DEF DeletesInv
  <2>2. CASE Hooks!Next /\ UNCHANGED part /\ (part = "alone" => Alone!Next)
    <3>1. HooksInv' /\ DataType' /\ (part' = "alone" => CleanInv')
      BY <2>2, HooksNextInv, DataStep, CleanStep DEF DeletesInv
    <3>2. Hooks!KeepsData
      <4> SUFFICES ASSUME NEW i \in Id, There(installed[i]), data["package"] \ data'["package"] # {}
                   PROVE  \E j \in Id : /\ OnePackage[j] = "package" /\ There(processed[j])
                                        /\ data["package"] \ data'["package"] \subseteq processed[j].asks["uninstall"]
        BY OfOnePackage DEF Hooks!KeepsData, Hooks!Exists, There, Absent
      <4>1. PICK j \in Id : pc = "uninstall" /\ There(processed[j])
                            /\ data'["package"] = data["package"] \ processed[j].asks["uninstall"]
        BY <2>2, DataStep DEF DeletesInv
      <4> QED
        BY <4>1, OfOnePackage
    <3>3. ASSUME part = "alone" PROVE Alone!CleansUp
      <4> SUFFICES ASSUME NEW i \in Id, pc = "uninstall", There(processed[i]), ~There(processed'[i])
                   PROVE  \/ data'["package"] \cap processed[i].asks["uninstall"] = {}
                          \/ \E j \in Id : OnePackage[j] = OnePackage[i] /\ There(installed[j])
        BY OfOnePackage DEF Alone!CleansUp, Alone!Exists, Alone!Absent, There, Absent, Hooks!Absent
      <4>1. i = cur /\ cur # NoId /\ data' = data
        BY <2>2, CopyGoes DEF DeletesInv
      <4>2. Deleted(i) \/ \E j \in Id : There(installed[j])
        BY <3>3, <4>1 DEF DeletesInv, CleanInv
      <4> QED
        BY <4>1, <4>2, OfOnePackage DEF Deleted
    <3> QED
      BY <3>1, <3>2, <3>3 DEF DeletesInv
  <2> QED
    BY <2>1, <2>2, AloneIsHooks DEF Next, vars, InHooks, Runs
<1> QED
  BY <1>1, <1>2, PTL DEF Spec, DeletedAsAsked
-----------------------------------------------------------------------------
(* The container: its command line *)

\* The labels that patterns are made of, and lists of patterns.
Label == {"*", "www", "x", "a", "b", "google", "page", "com", "fr", "html"}
Texts == Seq(Seq(Label))
\* The tokens of hosts and of paths.
OfHosts == Label \cup {"."}
OfPaths == Label \cup {".", "/", "http"}

LEMMA GreatestOf ==
  ASSUME NEW n \in Nat, NEW K \in SUBSET (1 .. n), K # {}
  PROVE  \E k \in K : \A j \in K : j <= k
<1> DEFINE U == {m \in 0 .. n : \A j \in K : j <= m}
<1>1. U \in SUBSET Nat /\ n \in U
  OBVIOUS
<1>2. PICK u \in U : \A m \in U : u <= m
  BY <1>1, LeastNat
<1>3. u \in K
  <2> SUFFICES ASSUME u \notin K PROVE FALSE
    OBVIOUS
  <2>1. PICK k \in K : TRUE
    OBVIOUS
  <2>2. \A j \in K : j <= u - 1
    BY <1>2, \A j \in K : j # u /\ j \in 1 .. n
  <2>3. u - 1 \in U
    BY <1>2, <2>1, <2>2
  <2> QED
    BY <1>2, <2>3
<1> QED
  BY <1>2, <1>3

\* What an option is given is its value at one of its places, or the default.
LEMMA LastGivenIs ==
  ASSUME NEW m \in Nat, NEW args \in [1 .. m -> MCOption], NEW o, NEW otherwise
  PROVE  \/ Container!LastGiven(args, o, otherwise) = otherwise
         \/ \E k \in 1 .. m : args[k].opt = o /\ Container!LastGiven(args, o, otherwise) = args[k].value
<1> DEFINE K == Container!Places(args, o)
           last == CHOOSE k \in K : \A j \in K : j <= k
<1>1. K \in SUBSET (1 .. m) /\ \A k \in K : args[k].opt = o
  BY DEF Container!Places
<1>2. CASE K = {}
  BY <1>2 DEF Container!LastGiven, Container!Occurs
<1>3. CASE K # {}
  <2>1. \E k \in K : \A j \in K : j <= k
    BY <1>1, <1>3, GreatestOf
  <2>2. last \in K
    BY <2>1
  <2>3. Container!LastGiven(args, o, otherwise) = args[last].value
    BY <1>3 DEF Container!LastGiven, Container!Occurs
  <2> QED
    BY <1>1, <2>2, <2>3
<1> QED
  BY <1>2, <1>3

LEMMA LabelsAre ==
  /\ \A x, y \in Label : <<x, y>> \in Seq(Label)
  /\ \A x, y, z \in Label : <<x, y, z>> \in Seq(Label)
  /\ {"*", "www", "x", "a", "b", "google", "com"} \subseteq Label
<1>1. \A x, y \in Label : <<x, y>> \in Seq(Label)
  OBVIOUS
<1>2. \A x, y, z \in Label : <<x, y, z>> \in Seq(Label)
  OBVIOUS
<1> QED
  BY <1>1, <1>2 DEF Label

LEMMA OptionIs ==
  ASSUME NEW x \in MCOption
  PROVE  /\ x.opt = "patterns" => x.value \in Texts
         /\ x.opt = "url" => x.value \in {Home, Page}
<1>1. << <<"*", "a", "com">>, <<"*", "com">> >> \in Texts
  <2>1. <<"*", "a", "com">> \in Seq(Label) /\ <<"*", "com">> \in Seq(Label)
    BY LabelsAre
  <2> QED
    BY <2>1 DEF Texts
<1>2. << <<>>, <<"www", "google", "*">> >> \in Texts
  <2>1. <<>> \in Seq(Label) /\ <<"www", "google", "*">> \in Seq(Label)
    BY LabelsAre
  <2> QED
    BY <2>1 DEF Texts
<1>3. << <<"www", "*", "com">> >> \in Texts
  <2>1. <<"www", "*", "com">> \in Seq(Label)
    BY LabelsAre
  <2> QED
    BY <2>1 DEF Texts
<1>4. CASE \E o \in {"modelPath", "provider", "clear", "manifest", "app-id"} : x = Given(o, TRUE)
  <2>1. PICK o, v : x = Given(o, v) /\ o \notin {"patterns", "url"}
    BY <1>4
  <2> QED
    BY <2>1 DEF Given
<1>5. CASE x \in {Given("url", Home), Given("url", Page)}
  BY <1>5 DEF Given
<1>6. CASE x \in {Given("name", "name"), Given("popup", <<"x", "a", "com">>)}
  BY <1>6 DEF Given
<1>7. CASE \E ps \in Texts : x = Given("patterns", ps)
  BY <1>7 DEF Given
<1> QED
  BY <1>1, <1>2, <1>3, <1>4, <1>5, <1>6, <1>7 DEF MCOption

\* Hosts have no "/", and the path of a URL begins with one.
OnWeb(u) == u.host \in Seq(OfHosts) /\ u.path \in Seq(OfPaths) /\ u.path # <<>> /\ u.path[1] = "/"
Placed(u) == u # NoUrl => OnWeb(u)

LEMMA TextsAre ==
  /\ WwwA \in Seq(OfHosts) /\ WwwB \in Seq(OfHosts) /\ <<>> \in Seq(OfHosts)
  /\ <<"x", ".", "a", ".", "com">> \in Seq(OfHosts) /\ <<"x", "a", ".", "com">> \in Seq(OfHosts)
  /\ <<"www", ".", "google", ".", "fr">> \in Seq(OfHosts) /\ <<"page", ".", "html">> \in Seq(OfHosts)
  /\ <<"/">> \in Seq(OfPaths) /\ <<"/", "page", ".", "html">> \in Seq(OfPaths)
  /\ <<"/", "x", ".", "a", ".", "com", "/">> \in Seq(OfPaths)
  /\ <<"/", "http", "x", ".", "a", ".", "com", "/">> \in Seq(OfPaths)
<1>1. /\ \A x, y, z \in OfHosts : <<x, y, z>> \in Seq(OfHosts)
      /\ \A x, y, z, v \in OfHosts : <<x, y, z, v>> \in Seq(OfHosts)
      /\ \A x, y, z, v, w \in OfHosts : <<x, y, z, v, w>> \in Seq(OfHosts)
  OBVIOUS
<1>2. /\ \A x \in OfPaths : <<x>> \in Seq(OfPaths)
      /\ \A x, y, z, v \in OfPaths : <<x, y, z, v>> \in Seq(OfPaths)
      /\ \A x, y, z, v, w, t, r \in OfPaths : <<x, y, z, v, w, t, r>> \in Seq(OfPaths)
      /\ \A x, y, z, v, w, t, r, q \in OfPaths : <<x, y, z, v, w, t, r, q>> \in Seq(OfPaths)
  OBVIOUS
<1>3. /\ {".", "www", "x", "a", "b", "google", "page", "com", "fr", "html"} \subseteq OfHosts
      /\ {".", "/", "http", "x", "a", "page", "com", "html"} \subseteq OfPaths
  BY DEF OfHosts, OfPaths, Label
<1> HIDE DEF OfHosts, OfPaths
<1>4. <<>> \in Seq(OfHosts)
  OBVIOUS
<1> QED
  BY <1>1, <1>2, <1>3, <1>4 DEF WwwA, WwwB

\* The URLs, and what a file that is passed on can be taken for.
LEMMA UrlIs ==
  ASSUME NEW u \in MCUrl
  PROVE  OnWeb(u) /\ (Container!IsLocal(u) => OnWeb(Container!AsHost(u)))
<1>1. ASSUME NEW s, NEW h, NEW p, NEW t, u = Web(s, h, p, t), h \in Seq(OfHosts), p \in Seq(OfPaths), p # <<>>, p[1] = "/"
      PROVE  OnWeb(u)
  BY <1>1 DEF Web, OnWeb
<1>2. /\ <<"/">> # <<>> /\ <<"/", "page", ".", "html">> # <<>> /\ <<"/", "x", ".", "a", ".", "com", "/">> # <<>>
      /\ <<"/", "http", "x", ".", "a", ".", "com", "/">> # <<>>
      /\ <<"/">>[1] = "/" /\ <<"/", "page", ".", "html">>[1] = "/" /\ <<"/", "x", ".", "a", ".", "com", "/">>[1] = "/"
      /\ <<"/", "http", "x", ".", "a", ".", "com", "/">>[1] = "/"
  OBVIOUS
<1>3. \E s, h, p, t : /\ u = Web(s, h, p, t) /\ h \in Seq(OfHosts) /\ p \in Seq(OfPaths) /\ p # <<>> /\ p[1] = "/"
                      /\ s = "file" => u = Page
  <2> DEFINE At(s, h, p, t) == /\ h \in Seq(OfHosts) /\ p \in Seq(OfPaths) /\ p # <<>> /\ p[1] = "/"
                               /\ s = "file" => Web(s, h, p, t) = Page
  <2>1. At("file", <<>>, <<"/", "page", ".", "html">>, "")
    BY TextsAre, <1>2 DEF Page
  <2>2. \A s, t : s # "file" => At(s, WwwA, <<"/">>, t) /\ At(s, WwwB, <<"/">>, t)
    BY TextsAre, <1>2
  <2>3. /\ At("http", <<"x", ".", "a", ".", "com">>, <<"/">>, "") /\ At("http", <<"x", "a", ".", "com">>, <<"/">>, "")
        /\ At("http", <<"www", ".", "google", ".", "fr">>, <<"/">>, "")
    BY TextsAre, <1>2
  <2>4. At("http", WwwB, <<"/", "x", ".", "a", ".", "com", "/">>, "")
    BY TextsAre, <1>2
  <2>5. At("http", WwwB, <<"/", "http", "x", ".", "a", ".", "com", "/">>, "")
    BY TextsAre, <1>2
  <2>6. /\ At("mail", WwwA, <<"/">>, "") /\ At("intent", WwwB, <<"/">>, "http") /\ At("intent", WwwA, <<"/">>, "")
        /\ At("http", WwwA, <<"/">>, "")
    <3>1. "mail" # "file" /\ "intent" # "file" /\ "http" # "file"
      OBVIOUS
    <3> HIDE DEF At
    <3> QED
      BY <2>2, <3>1
  <2> SUFFICES \E s, h, p, t : u = Web(s, h, p, t) /\ At(s, h, p, t)
    OBVIOUS
  <2> HIDE DEF At
  <2> QED
    BY <2>1, <2>3, <2>4, <2>5, <2>6 DEF MCUrl, Home, Page
<1>4. Container!IsLocal(u) => u = Page
  BY <1>3 DEF Container!IsLocal, Web
<1>5. OnWeb(Container!AsHost(Page))
  <2>1. Page = [scheme |-> "file", host |-> <<>>, path |-> <<"/", "page", ".", "html">>, target |-> ""]
    BY DEF Page, Web
  <2>2. Tail(<<"/", "page", ".", "html">>) = <<"page", ".", "html">>
    OBVIOUS
  <2>3. Container!AsHost(Page).host = <<"page", ".", "html">> /\ Container!AsHost(Page).path = <<"/">>
    BY <2>1, <2>2 DEF Container!AsHost
  <2> QED
    BY <1>2, <2>3, TextsAre DEF OnWeb
<1> QED
  BY <1>1, <1>3, <1>4, <1>5

LEMMA HomeIs ==
  ASSUME NEW m \in Nat, NEW args \in [1 .. m -> MCOption]
  PROVE  Placed(Container!HomeUrl(args))
<1>1. Home \in MCUrl /\ Page \in MCUrl
  BY DEF MCUrl
<1>2. Placed(Home) /\ Placed(Page) /\ Placed(NoUrl)
  BY <1>1, UrlIs DEF Placed
<1>3. \/ Container!HomeUrl(args) = NoUrl
      \/ \E k \in 1 .. m : args[k].opt = "url" /\ Container!HomeUrl(args) = args[k].value
  BY LastGivenIs DEF Container!HomeUrl
<1>4. \A k \in 1 .. m : args[k] \in MCOption
  OBVIOUS
<1>5. Container!HomeUrl(args) \in {NoUrl, Home, Page}
  BY <1>3, <1>4, OptionIs
<1> QED
  BY <1>2, <1>5

\* The patterns in use are given, and are safe.
SafeAmong(ps, given) == \A k \in DOMAIN ps : /\ Container!Safe(ps[k]) # <<>>
                                             /\ \E j \in DOMAIN given : given[j] = ps[k]

LEMMA SafeAreKept ==
  ASSUME NEW ps \in Texts
  PROVE  /\ Container!FilterAndTransform(ps) \in Texts
         /\ SafeAmong(Container!FilterAndTransform(ps), ps)
<1> DEFINE K == {k \in DOMAIN ps : Container!Safe(ps[k]) # <<>>}
<1>1. Container!FilterAndTransform(ps) = Keep(ps, K)
  <2>1. \A L : Container!Cardinality(L) = Cardinality(L)
    BY Zenon DEF Container!Cardinality, Cardinality
  <2>2. \A L : Container!InOrder(L) = InOrder(L)
    BY Zenon, <2>1 DEF Container!InOrder, InOrder
  <2>3. Container!Keep(ps, K) = Keep(ps, K)
    BY Zenon, <2>1, <2>2 DEF Container!Keep, Keep
  <2> QED
    BY <2>3 DEF Container!FilterAndTransform
<1>2. K \in SUBSET (DOMAIN ps) /\ ps \in Seq(Seq(Label))
  BY DEF Texts
<1> HIDE DEF K
<1>3. /\ Keep(ps, K) \in Seq(Seq(Label)) /\ Enumerates(InOrder(K), K)
      /\ DOMAIN Keep(ps, K) = 1 .. Cardinality(K)
      /\ \A i \in DOMAIN Keep(ps, K) : Keep(ps, K)[i] = ps[InOrder(K)[i]]
  BY <1>2, KeepIs
<1>4. \A i \in DOMAIN Keep(ps, K) : InOrder(K)[i] \in K
  BY <1>3 DEF Enumerates
<1> QED
  BY <1>1, <1>3, <1>4 DEF SafeAmong, K, Texts

LEMMA JoinedAreSafe ==
  ASSUME NEW p \in Texts, NEW g \in Texts, NEW q \in Texts, NEW h \in Texts, SafeAmong(p, g), SafeAmong(q, h)
  PROVE  p \o q \in Texts /\ g \o h \in Texts /\ SafeAmong(p \o q, g \o h)
<1>1. p \o q \in Texts /\ g \o h \in Texts
  BY DEF Texts
<1>2. /\ \A k \in DOMAIN (p \o q) : \/ k \in DOMAIN p /\ (p \o q)[k] = p[k]
                                    \/ k - Len(p) \in DOMAIN q /\ (p \o q)[k] = q[k - Len(p)]
      /\ \A k \in DOMAIN g : k \in DOMAIN (g \o h) /\ (g \o h)[k] = g[k]
      /\ \A k \in DOMAIN h : Len(g) + k \in DOMAIN (g \o h) /\ (g \o h)[Len(g) + k] = h[k]
  <2>1. /\ Len(p) \in Nat /\ DOMAIN p = 1 .. Len(p) /\ Len(q) \in Nat /\ DOMAIN q = 1 .. Len(q)
        /\ Len(g) \in Nat /\ DOMAIN g = 1 .. Len(g) /\ Len(h) \in Nat /\ DOMAIN h = 1 .. Len(h)
    BY DEF Texts
  <2>2. /\ DOMAIN (p \o q) = 1 .. (Len(p) + Len(q)) /\ DOMAIN (g \o h) = 1 .. (Len(g) + Len(h))
    BY DEF Texts
  <2>3. \A k \in DOMAIN (p \o q) : (p \o q)[k] = IF k <= Len(p) THEN p[k] ELSE q[k - Len(p)]
    BY DEF Texts
  <2>4. \A k \in DOMAIN (g \o h) : (g \o h)[k] = IF k <= Len(g) THEN g[k] ELSE h[k - Len(g)]
    BY DEF Texts
  <2>5. \A k \in DOMAIN h : Len(g) + k \in DOMAIN (g \o h) /\ ~(Len(g) + k <= Len(g)) /\ (Len(g) + k) - Len(g) = k
    BY <2>1, <2>2
  <2> QED
    BY <2>1, <2>2, <2>3, <2>4, <2>5
<1>3. ASSUME NEW k \in DOMAIN (p \o q)
      PROVE  /\ Container!Safe((p \o q)[k]) # <<>>
             /\ \E j \in DOMAIN (g \o h) : (g \o h)[j] = (p \o q)[k]
  <2>1. CASE k \in DOMAIN p /\ (p \o q)[k] = p[k]
    BY <1>2, <2>1 DEF SafeAmong
  <2>2. CASE k - Len(p) \in DOMAIN q /\ (p \o q)[k] = q[k - Len(p)]
    BY <1>2, <2>2 DEF SafeAmong
  <2> QED
    BY <1>2, <1>3, <2>1, <2>2
<1> QED
  BY <1>1, <1>3 DEF SafeAmong

LEMMA ParsedIs ==
  ASSUME NEW m \in Nat, NEW args \in [1 .. m -> MCOption]
  PROVE  LET a == Container!Parsed(args)
         IN a.patterns \in Texts /\ a.given \in Texts /\ SafeAmong(a.patterns, a.given)
<1> DEFINE given == Container!LastGiven(args, "patterns", <<>>)
           a == Container!Parsed(args)
<1>1. given = <<>> \/ \E k \in 1 .. m : args[k].opt = "patterns" /\ given = args[k].value
  BY LastGivenIs
<1>2. \A k \in 1 .. m : args[k] \in MCOption
  OBVIOUS
<1>3. given \in Texts
  <2>1. <<>> \in Texts
    BY DEF Texts
  <2> QED
    BY <1>1, <1>2, <2>1, OptionIs
<1> HIDE DEF given
<1>4. a.patterns = Container!FilterAndTransform(given) /\ a.given = given
  BY DEF Container!Parsed, Container!NoOptions, given
<1> HIDE DEF a
<1>5. a.patterns \in Texts /\ a.given \in Texts /\ SafeAmong(a.patterns, a.given)
  BY <1>3, <1>4, SafeAreKept
<1> QED
  BY <1>5 DEF a
-----------------------------------------------------------------------------
(* The container: what is shown *)

ContainerInv ==
  /\ extra \in Texts /\ Placed(page) /\ Placed(asked)
  /\ app.patterns \in Texts /\ app.given \in Texts /\ SafeAmong(app.patterns, app.given) /\ Placed(app.home)
  /\ app.local => ~Container!HasPatterns(app) /\ ~Container!Named(app) /\ Container!IsLocal(app.home)
  /\ state = "down" => page = NoUrl
  /\ page # NoUrl => Container!Accepts(page)
  /\ asked # NoUrl => asked = app.home \/ Container!ShouldAllow(asked)

LEMMA ContainerInitInv == Container!Init => ContainerInv
<1> SUFFICES ASSUME Container!Init PROVE ContainerInv
  OBVIOUS
<1>1. /\ app = Container!NoOptions /\ page = NoUrl /\ asked = NoUrl /\ extra \in MCExtra
  BY DEF Container!Init
<1>2. /\ app.patterns = <<>> /\ app.given = <<>> /\ app.home = NoUrl /\ app.local = FALSE
  BY <1>1 DEF Container!NoOptions
<1>3. MCExtra \subseteq Texts
  <2>1. <<"www", "b", "com">> \in Seq(Label)
    BY LabelsAre
  <2> QED
    BY <2>1 DEF MCExtra, Texts
<1> QED
  BY <1>1, <1>2, <1>3 DEF ContainerInv, Texts, Placed, SafeAmong

\* A start, or one that is refused.
LEMMA StartKeeps ==
  ASSUME ContainerInv, NEW m \in Nat, NEW args \in [1 .. m -> MCOption], NEW appId, Container!Start(args, appId)
  PROVE  ContainerInv'
<1> DEFINE parsed == Container!Parsed(args)
           kept == IF parsed.cleared THEN <<>> ELSE extra
           full == Container!WithExtra(parsed, kept)
           located == [full EXCEPT !.modelPath = @ \/ parsed.manifest]
           home == Container!HomeUrl(args)
           started == [located EXCEPT !.home = home, !.local = Container!IsLocal(home)]
<1>1. /\ state = "down" /\ page' = page /\ extra' = kept
      /\ \/ UNCHANGED <<app, state, asked>>
         \/ /\ ~(started.local /\ ~Container!IsValidLocalContext(started))
            /\ app' = started /\ state' = "running" /\ asked' = home
  BY DEF Container!Start, Container!Initialize
<1>2. kept \in Texts
  BY DEF ContainerInv, Texts
<1>3. parsed.patterns \in Texts /\ parsed.given \in Texts /\ SafeAmong(parsed.patterns, parsed.given)
  BY ParsedIs
<1>4. PICK q : q = Container!FilterAndTransform(kept) /\ q \in Texts /\ SafeAmong(q, kept)
  BY <1>2, SafeAreKept
<1>5. /\ started.patterns = parsed.patterns \o q /\ started.given = parsed.given \o kept
      /\ started.home = home /\ started.local = Container!IsLocal(home)
  BY <1>4 DEF Container!WithExtra, Container!Parsed, Container!NoOptions
<1>6. Placed(home)
  BY HomeIs
<1>7. page = NoUrl
  BY <1>1 DEF ContainerInv
<1> HIDE DEF parsed, kept, full, located, home, started
<1>8. /\ started.patterns \in Texts /\ started.given \in Texts /\ SafeAmong(started.patterns, started.given)
  BY <1>2, <1>3, <1>4, <1>5, JoinedAreSafe
<1>9. CASE UNCHANGED <<app, state, asked>>
  BY <1>1, <1>2, <1>7, <1>9
  DEF ContainerInv, Placed, SafeAmong, Container!HasPatterns, Container!Named, Container!ShouldAllow
<1>10. CASE /\ ~(started.local /\ ~Container!IsValidLocalContext(started))
            /\ app' = started /\ state' = "running" /\ asked' = home
  <2>1. started.local => ~Container!HasPatterns(started) /\ ~Container!Named(started)
    BY <1>10 DEF Container!IsValidLocalContext
  <2>2. (app.local => ~Container!HasPatterns(app) /\ ~Container!Named(app) /\ Container!IsLocal(app.home))'
    BY <1>5, <1>10, <2>1 DEF Container!HasPatterns, Container!Named
  <2> QED
    BY <1>1, <1>2, <1>5, <1>6, <1>7, <1>8, <1>10, <2>2 DEF ContainerInv, Placed, SafeAmong
<1> QED
  BY <1>1, <1>9, <1>10

\* The page asks for a URL, or the engine for the one that has been set.
LEMMA NavigateKeeps ==
  ASSUME ContainerInv, NEW url, Placed(url), Container!Navigate(url)
  PROVE  ContainerInv'
<1>1. /\ state = "running" /\ page' = IF Container!Accepts(url) THEN url ELSE page
      /\ asked' = (IF asked = url THEN NoUrl ELSE asked) /\ UNCHANGED <<app, state, extra>>
  BY DEF Container!Navigate
<1>2. \A u : Container!ShouldAllow(u)' = Container!ShouldAllow(u)
  BY <1>1 DEF Container!ShouldAllow, Container!Named
<1>3. (page # NoUrl => Container!Accepts(page))'
  BY <1>1, <1>2 DEF ContainerInv, Container!Accepts, Container!HasPatterns, Container!Named, Container!ShouldAllow
<1>4. (asked # NoUrl => asked = app.home \/ Container!ShouldAllow(asked))'
  BY <1>1 DEF ContainerInv, Container!ShouldAllow, Container!Named
<1>5. Placed(page)' /\ Placed(asked)'
  BY <1>1 DEF ContainerInv, Placed
<1> QED
  BY <1>1, <1>3, <1>4, <1>5 DEF ContainerInv, Placed, SafeAmong, Container!HasPatterns, Container!Named

\* What the filter makes of a URL has a host and a path.
LEMMA TranslatedIs ==
  ASSUME ContainerInv, NEW url, OnWeb(url)
  PROVE  Placed(Container!Translated(url))
<1> DEFINE Said(r) == r.host \in Seq(OfHosts) /\ r.path \in Seq(OfPaths)
<1>1. Said(Container!Nothing) /\ Said(url)
  BY DEF Container!Nothing, Container!Result, OnWeb
<1>2. PICK r : r = Container!ApplyFilter(url)
  OBVIOUS
<1>3. Said(Container!Evaluated(url)) /\ Said([Container!Evaluated(url) EXCEPT !.scheme = "http"])
  BY <1>1 DEF Container!Evaluated, Container!Intent, Container!Result, Container!Nothing
<1>4. Said(r)
  BY <1>1, <1>2, <1>3 DEF Container!ApplyFilter
<1>5. PICK base : base = IF page # NoUrl THEN page ELSE IF asked # NoUrl THEN asked ELSE app.home
  OBVIOUS
<1>6. Placed(base)
  BY <1>5 DEF ContainerInv
<1>7. <<"/">> \o r.path \in Seq(OfPaths) /\ <<"/">> \o r.path # <<>> /\ (<<"/">> \o r.path)[1] = "/"
  <2>1. <<"/">> \in Seq(OfPaths) /\ Len(<<"/">>) = 1 /\ <<"/">>[1] = "/"
    BY TextsAre
  <2> QED
    BY <1>4, <2>1
<1>8. \/ Container!Completed(r) = NoUrl
      \/ /\ Container!Completed(r).host = (IF r.host = <<>> THEN base.host ELSE r.host)
         /\ Container!Completed(r).path = <<"/">> \o r.path
         /\ ~(base = NoUrl /\ r.host = <<>>)
  BY <1>5 DEF Container!Completed, Container!Result
<1>9. Placed(Container!Completed(r))
  BY <1>4, <1>6, <1>7, <1>8 DEF Placed, OnWeb
<1>10. Container!Translated(url) = url \/ Container!Translated(url) = Container!Completed(r)
  BY <1>2 DEF Container!Translated
<1>11. Placed(url)
  BY DEF Placed
<1> QED
  BY <1>9, <1>10, <1>11

\* Another start passes a URL on.
LEMMA OpenKeeps ==
  ASSUME ContainerInv, NEW url \in MCUrl, Container!OpenUrls(url)
  PROVE  ContainerInv'
<1>1. PICK u \in {url} \cup IF Container!IsLocal(url) THEN {Container!AsHost(url)} ELSE {} : asked' = Container!Opened(u)
  BY DEF Container!OpenUrls
<1>2. OnWeb(u)
  BY <1>1, UrlIs
<1>3. PICK to : to = Container!Translated(u) /\ Placed(to)
  BY <1>2, TranslatedIs
<1>4. /\ asked' = asked \/ (asked' = to /\ Container!ShouldAllow(to))
      /\ UNCHANGED <<app, state, page, extra>>
  BY <1>1, <1>3 DEF Container!OpenUrls, Container!Opened
<1>5. (page # NoUrl => Container!Accepts(page))'
  BY <1>4 DEF ContainerInv, Container!Accepts, Container!HasPatterns, Container!Named, Container!ShouldAllow
<1>6. (asked # NoUrl => asked = app.home \/ Container!ShouldAllow(asked))' /\ Placed(asked)'
  BY <1>3, <1>4 DEF ContainerInv, Container!ShouldAllow, Container!Named, Placed
<1> QED
  BY <1>4, <1>5, <1>6 DEF ContainerInv, Placed, SafeAmong, Container!HasPatterns, Container!Named

LEMMA ContainerIdle ==
  ASSUME ContainerInv, UNCHANGED <<app, state, page, asked>>, extra' \in Texts
  PROVE  ContainerInv'
  BY DEF ContainerInv, Placed, SafeAmong, Container!Accepts, Container!HasPatterns, Container!Named,
         Container!ShouldAllow

LEMMA ContainerNextInv ==
  ASSUME ContainerInv, Container!Next
  PROVE  ContainerInv'
<1>1. ASSUME NEW args \in Container!BoundedSeq(MCOption, MaxArgs), NEW appId \in BOOLEAN, Container!Start(args, appId)
      PROVE  ContainerInv'
  <2>1. PICK m \in Nat : args \in [1 .. m -> MCOption]
    <3>1. PICK m \in 0 .. MaxArgs : args \in [1 .. m -> MCOption]
      BY <1>1 DEF Container!BoundedSeq, Container!SeqOf
    <3> QED
      BY <3>1
  <2> QED
    BY <1>1, <2>1, StartKeeps
<1>2. CASE Container!Ends
  <2>1. /\ app' = Container!NoOptions /\ page' = NoUrl /\ asked' = NoUrl /\ extra' = extra
    BY <1>2 DEF Container!Ends
  <2>2. /\ app'.patterns = <<>> /\ app'.given = <<>> /\ app'.home = NoUrl /\ app'.local = FALSE
    BY <2>1 DEF Container!NoOptions
  <2> QED
    BY <2>1, <2>2 DEF ContainerInv, Texts, Placed, SafeAmong
<1>4. CASE Container!Configure
  <2>1. MCExtra \subseteq Texts
    <3>1. <<"www", "b", "com">> \in Seq(Label)
      BY LabelsAre
    <3> QED
      BY <3>1 DEF MCExtra, Texts
  <2> QED
    BY <1>4, <2>1, ContainerIdle DEF Container!Configure
<1>5. ASSUME NEW url \in MCUrl, Container!OpenUrls(url) PROVE ContainerInv'
  BY <1>5, OpenKeeps
<1>6. ASSUME NEW url \in MCUrl \cup ({asked} \ {NoUrl}), Container!Navigate(url) PROVE ContainerInv'
  <2>1. Placed(url)
    BY UrlIs DEF ContainerInv, Placed
  <2> QED
    BY <1>6, <2>1, NavigateKeeps
<1> QED
  BY <1>1, <1>2, <1>4, <1>5, <1>6 DEF Container!Next

-----------------------------------------------------------------------------
(* The container: what a pattern matches *)

\* The place of the wildcard in a pattern that is safe; 0 when there is none.
AtMostOne(p, j) == /\ j \in 0 .. Len(p) /\ \A k \in DOMAIN p : p[k] = "*" <=> k = j

LEMMA SafeHasOne ==
  ASSUME NEW p \in Seq(Label), Container!Safe(p) # <<>>
  PROVE  /\ Len(p) >= 2
         /\ \E j \in 0 .. Len(p) : AtMostOne(p, j)
         /\ \/ Container!Wildcards(p) \subseteq {1}
            \/ p[2] = "google" /\ Container!Wildcards(p) \subseteq {Len(p)}
<1>1. Len(p) \in Nat /\ DOMAIN p = 1 .. Len(p)
  OBVIOUS
<1>2. \/ Len(p) >= 2 /\ Container!Wildcards(p) \subseteq {1}
      \/ Len(p) >= 2 /\ p[2] = "google" /\ Container!Wildcards(p) \subseteq {Len(p)}
  <2>1. CASE Container!IsValidWebappUrlPattern(p) \/ Container!IsValidStrictUrlPattern(p)
    BY <1>1, <2>1 DEF Container!IsValidWebappUrlPattern, Container!IsValidStrictUrlPattern
  <2>2. CASE Container!IsValidGoogleUrlPattern(p)
    <3>1. /\ Len(p) = 3 \/ Len(p) = 4
          /\ p[1] # "*" /\ p[2] = "google" /\ (Len(p) = 4 => p[3] # "*")
      BY <2>2 DEF Container!IsValidGoogleUrlPattern
    <3>2. \A k \in 1 .. Len(p) : k = 1 \/ k = 2 \/ (k = 3 /\ Len(p) = 4) \/ k = Len(p)
      <4>1. \A k \in 1 .. 3 : k = 1 \/ k = 2 \/ k = 3
        OBVIOUS
      <4>2. \A k \in 1 .. 4 : k = 1 \/ k = 2 \/ k = 3 \/ k = 4
        OBVIOUS
      <4>3. CASE Len(p) = 3
        BY <4>1, <4>3
      <4>4. CASE Len(p) = 4
        BY <4>2, <4>4
      <4> QED
        BY <3>1, <4>3, <4>4
    <3>3. \A k \in 1 .. Len(p) : p[k] = "*" => k = Len(p)
      BY <3>1, <3>2
    <3>4. Container!Wildcards(p) \subseteq {Len(p)}
      BY <1>1, <3>3 DEF Container!Wildcards
    <3> QED
      BY <3>1, <3>4
  <2> QED
    BY <2>1, <2>2 DEF Container!Safe
<1>3. \E j \in 0 .. Len(p) : AtMostOne(p, j)
  <2>1. CASE Container!Wildcards(p) = {}
    <3>1. AtMostOne(p, 0)
      BY <1>1, <2>1 DEF AtMostOne, Container!Wildcards
    <3> QED
      BY <1>1, <3>1
  <2>2. CASE Container!Wildcards(p) # {}
    <3>1. PICK j \in 1 .. Len(p) : Container!Wildcards(p) = {j}
      BY <1>1, <1>2, <2>2 DEF Container!Wildcards
    <3>2. AtMostOne(p, j)
      BY <1>1, <3>1 DEF AtMostOne, Container!Wildcards
    <3> QED
      BY <3>1, <3>2
  <2> QED
    BY <2>1, <2>2
<1> QED
  BY <1>2, <1>3

\* Where the labels begin, and where the last one ends.
LEMMA BeginIs ==
  ASSUME NEW p \in Seq(Label), NEW j \in 0 .. Len(p), AtMostOne(p, j), NEW n \in Nat
  PROVE  /\ \A k \in 1 .. Len(p) : Container!Begin(p, n, k) = IF 0 < j /\ j < k THEN (2 * k - 2) + n ELSE 2 * k - 1
         /\ Container!End(p, n) = IF 0 < j THEN (2 * Len(p) - 2) + n ELSE 2 * Len(p) - 1
<1>1. Container!Wildcards(p) = IF j = 0 THEN {} ELSE {j}
  BY DEF AtMostOne, Container!Wildcards
<1>2. \A k \in 1 .. Len(p) : (2 * k - 2) + 1 = 2 * k - 1
  OBVIOUS
<1>3. (2 * Len(p) - 2) + 1 = 2 * Len(p) - 1
  OBVIOUS
<1>4. \A k \in 1 .. Len(p) : (\E i \in Container!Wildcards(p) : i < k) <=> (0 < j /\ j < k)
  BY <1>1
<1> QED
  BY <1>1, <1>2, <1>3, <1>4 DEF Container!Begin, Container!End

\* Where the dots of a pattern are.
Between(p, n) == {Container!Begin(p, n, k) - 1 : k \in 2 .. Len(p)}

\* Up to the end of the last label a position is that of a dot, or in a label; and labels and dots
\* are up to there.
LEMMA Covered ==
  ASSUME NEW p \in Seq(Label), Len(p) >= 2, NEW j \in 0 .. Len(p), AtMostOne(p, j), NEW n \in Nat
  PROVE  /\ \A i \in 1 .. Container!End(p, n) :
              \/ i \in Between(p, n)
              \/ \E k \in 1 .. Len(p) : p[k] # "*" /\ i = Container!Begin(p, n, k)
              \/ \E k \in 1 .. Len(p), d \in 0 .. n : p[k] = "*" /\ d < n /\ i = Container!Begin(p, n, k) + d
         /\ \A k \in 1 .. Len(p) : p[k] # "*" => Container!Begin(p, n, k) \in 1 .. Container!End(p, n)
         /\ \A k \in 1 .. Len(p), d \in 0 .. n :
              p[k] = "*" /\ d < n => Container!Begin(p, n, k) + d \in 1 .. Container!End(p, n)
         /\ \A k \in 2 .. Len(p) : Container!Begin(p, n, k) - 1 \in 1 .. Container!End(p, n)
         /\ Container!End(p, n) \in Nat
<1> DEFINE b(k) == IF 0 < j /\ j < k THEN (2 * k - 2) + n ELSE 2 * k - 1
           e == IF 0 < j THEN (2 * Len(p) - 2) + n ELSE 2 * Len(p) - 1
<1>1. (\A k \in 1 .. Len(p) : Container!Begin(p, n, k) = b(k)) /\ Container!End(p, n) = e
  BY BeginIs
<1>2. \A k \in 1 .. Len(p) : p[k] = "*" <=> k = j
  BY DEF AtMostOne
<1>3. Len(p) \in Nat /\ e \in Nat
  OBVIOUS
<1>4. \A k \in 2 .. Len(p) : b(k) - 1 \in 1 .. e
  OBVIOUS
<1>5. \A k \in 1 .. Len(p) : k # j => b(k) \in 1 .. e
  OBVIOUS
<1>6. \A k \in 1 .. Len(p), d \in 0 .. n : k = j /\ d < n => b(k) + d \in 1 .. e
  OBVIOUS
<1>7. ASSUME NEW i \in 1 .. e
      PROVE  \/ \E k \in 2 .. Len(p) : i = b(k) - 1
             \/ \E k \in 1 .. Len(p) : k # j /\ i = b(k)
             \/ \E k \in 1 .. Len(p), d \in 0 .. n : k = j /\ d < n /\ i = b(k) + d
  <2>1. CASE j = 0 \/ i < 2 * j - 1
    <3>1. PICK h \in Nat : i = 2 * h \/ i = 2 * h + 1
      <4>1. i = 2 * (i \div 2) \/ i = 2 * (i \div 2) + 1
        OBVIOUS
      <4>2. i \div 2 \in Nat
        OBVIOUS
      <4> QED
        BY <4>1, <4>2
    <3>2. CASE i = 2 * h
      <4>1. h + 1 \in 2 .. Len(p) /\ b(h + 1) = 2 * h + 1
        BY <2>1, <3>2
      <4> QED
        BY <3>2, <4>1
    <3>3. CASE i = 2 * h + 1
      <4>1. h + 1 \in 1 .. Len(p) /\ h + 1 # j /\ b(h + 1) = 2 * h + 1
        BY <2>1, <3>3
      <4> QED
        BY <3>3, <4>1
    <3> QED
      BY <3>1, <3>2, <3>3
  <2>2. CASE 0 < j /\ i >= 2 * j - 1 /\ i < (2 * j - 1) + n
    <3>1. PICK d \in 0 .. n : d < n /\ i = (2 * j - 1) + d
      <4>1. i - (2 * j - 1) \in 0 .. n /\ i - (2 * j - 1) < n /\ i = (2 * j - 1) + (i - (2 * j - 1))
        BY <2>2
      <4> QED
        BY <4>1
    <3>2. j \in 1 .. Len(p) /\ b(j) = 2 * j - 1
      BY <2>2
    <3> QED
      BY <3>1, <3>2
  <2>3. CASE 0 < j /\ i >= (2 * j - 1) + n
    <3>1. PICK h \in Nat : i - n = 2 * h \/ i - n = 2 * h + 1
      <4>1. i - n \in Nat
        BY <2>3
      <4>2. i - n = 2 * ((i - n) \div 2) \/ i - n = 2 * ((i - n) \div 2) + 1
        BY <4>1
      <4>3. (i - n) \div 2 \in Nat
        BY <4>1
      <4> QED
        BY <4>2, <4>3
    <3>2. CASE i - n = 2 * h + 1
      <4>1. h + 2 \in 2 .. Len(p) /\ j < h + 2 /\ b(h + 2) = (2 * h + 2) + n
        BY <2>3, <3>2
      <4> QED
        BY <3>2, <4>1
    <3>3. CASE i - n = 2 * h
      <4>1. h + 1 \in 1 .. Len(p) /\ j < h + 1 /\ b(h + 1) = 2 * h + n
        BY <2>3, <3>3
      <4> QED
        BY <3>3, <4>1
    <3> QED
      BY <3>1, <3>2, <3>3
  <2> QED
    BY <2>1, <2>2, <2>3
<1> HIDE DEF b, e
<1>8. \A k \in 2 .. Len(p) : k \in 1 .. Len(p)
  OBVIOUS
<1>9. ASSUME NEW i \in 1 .. Container!End(p, n)
      PROVE  \/ i \in Between(p, n)
             \/ \E k \in 1 .. Len(p) : p[k] # "*" /\ i = Container!Begin(p, n, k)
             \/ \E k \in 1 .. Len(p), d \in 0 .. n : p[k] = "*" /\ d < n /\ i = Container!Begin(p, n, k) + d
  <2>1. i \in 1 .. e
    BY <1>1
  <2>2. CASE \E k \in 2 .. Len(p) : i = b(k) - 1
    <3>1. \E k \in 2 .. Len(p) : i = Container!Begin(p, n, k) - 1
      BY <1>1, <1>8, <2>2
    <3> QED
      BY <3>1 DEF Between
  <2>3. CASE \E k \in 1 .. Len(p) : k # j /\ i = b(k)
    BY <1>1, <1>2, <2>3
  <2>4. CASE \E k \in 1 .. Len(p), d \in 0 .. n : k = j /\ d < n /\ i = b(k) + d
    BY <1>1, <1>2, <2>4
  <2> QED
    BY <1>7, <2>1, <2>2, <2>3, <2>4
<1>10. \A k \in 1 .. Len(p) : p[k] # "*" => Container!Begin(p, n, k) \in 1 .. Container!End(p, n)
  BY <1>1, <1>2, <1>5
<1>11. \A k \in 1 .. Len(p), d \in 0 .. n :
         p[k] = "*" /\ d < n => Container!Begin(p, n, k) + d \in 1 .. Container!End(p, n)
  BY <1>1, <1>2, <1>6
<1>12. \A k \in 2 .. Len(p) : Container!Begin(p, n, k) - 1 \in 1 .. Container!End(p, n)
  BY <1>1, <1>4, <1>8
<1> QED
  BY <1>1, <1>3, <1>9, <1>10, <1>11, <1>12

\* A pattern has no more dots than labels but one.
LEMMA FewBetween ==
  ASSUME NEW p \in Seq(Label), Len(p) >= 2, NEW n
  PROVE  IsFiniteSet(Between(p, n)) /\ Cardinality(Between(p, n)) <= Len(p) - 1
<1> DEFINE f == [k \in 1 .. Len(p) - 1 |-> Container!Begin(p, n, k + 1) - 1]
<1>1. Len(p) - 1 \in Nat
  OBVIOUS
<1>2. \A x \in Between(p, n) : \E k \in 1 .. Len(p) - 1 : f[k] = x
  <2> SUFFICES ASSUME NEW k \in 2 .. Len(p)
               PROVE  \E l \in 1 .. Len(p) - 1 : f[l] = Container!Begin(p, n, k) - 1
    BY DEF Between
  <2>1. k - 1 \in 1 .. Len(p) - 1 /\ (k - 1) + 1 = k
    OBVIOUS
  <2> QED
    BY <2>1
<1>3. \A k \in 1 .. Len(p) - 1 : f[k] \in Between(p, n)
  <2>1. \A k \in 1 .. Len(p) - 1 : k + 1 \in 2 .. Len(p)
    OBVIOUS
  <2> QED
    BY <2>1 DEF Between
<1>4. f \in Surjection(1 .. Len(p) - 1, Between(p, n))
  <2>1. f \in [1 .. Len(p) - 1 -> Between(p, n)]
    BY <1>3
  <2> QED
    BY <1>2, <2>1 DEF Surjection
<1>5. ExistsSurjection(1 .. Len(p) - 1, Between(p, n))
  BY <1>4 DEF ExistsSurjection
<1>6. IsFiniteSet(1 .. Len(p) - 1)
  BY <1>1, FS_Interval
<1> QED
  BY <1>1, <1>4, <1>5, <1>6, FS_Surjection, FS_SurjCardinalityBound

\* A host as which a safe pattern is matched, and that has as many dots as the pattern, is in the
\* domain of the pattern.
LEMMA MatchStays ==
  ASSUME NEW p \in Seq(Label), Container!Safe(p) # <<>>, NEW url, OnWeb(url), Container!Match(p, url),
         Container!OtherUrls(url) = {}
  PROVE  /\ url.scheme = "http"
         /\ Cardinality(Container!Dots(url.host)) + 1 < Len(p) \/ Container!SameDomain(p, url.host)
<1>1. url.scheme = "http" /\ Container!Fits(p, url.host \o url.path)
  BY DEF Container!Match
<1>2. PICK h \in Seq(OfHosts), w \in Seq(OfPaths) : h = url.host /\ w = url.path /\ w # <<>> /\ w[1] = "/"
  BY DEF OnWeb
<1> DEFINE t == h \o w
           D == Container!Dots(h)
<1>3. /\ Len(h) \in Nat /\ DOMAIN h = 1 .. Len(h) /\ Len(t) = Len(h) + Len(w) /\ Len(w) \in Nat \ {0}
      /\ \A i \in 1 .. Len(h) : t[i] = h[i] /\ h[i] \in OfHosts
      /\ t[Len(h) + 1] = "/"
  <2>1. Len(h) \in Nat /\ DOMAIN h = 1 .. Len(h) /\ Len(t) = Len(h) + Len(w) /\ Len(w) \in Nat \ {0}
    BY <1>2
  <2> HIDE DEF D
  <2>2. \A i \in 1 .. Len(h) : t[i] = h[i] /\ h[i] \in OfHosts
    BY <2>1
  <2>3. t[Len(h) + 1] = w[1]
    BY <2>1
  <2> QED
    BY <1>2, <2>1, <2>2, <2>3
<1>4. PICK n \in 0 .. Len(t) : /\ Container!End(p, n) < Len(t) /\ t[Container!End(p, n) + 1] = "/"
                               /\ Container!LabelsFit(p, n, t)
  BY <1>1, <1>2 DEF Container!Fits
<1> HIDE DEF t
<1>5. /\ Len(p) >= 2 /\ \E j \in 0 .. Len(p) : AtMostOne(p, j)
      /\ Container!Wildcards(p) \subseteq {1} \/ (p[2] = "google" /\ Container!Wildcards(p) \subseteq {Len(p)})
  BY SafeHasOne
<1>6. PICK j \in 0 .. Len(p) : AtMostOne(p, j)
  BY <1>5
<1>7. n \in Nat
  BY <1>3, <1>4
<1>8. PICK e \in Nat : e = Container!End(p, n)
  BY <1>5, <1>6, <1>7, Covered
<1>9. "/" \notin OfHosts
  BY DEF OfHosts, Label
<1>10. Len(h) <= e
  BY <1>3, <1>4, <1>8, <1>9
<1>11. \A i \in 1 .. e : i \in Between(p, n) \/ t[i] \notin {".", "/"}
  <2> SUFFICES ASSUME NEW i \in 1 .. e, i \notin Between(p, n) PROVE t[i] \notin {".", "/"}
    OBVIOUS
  <2>1. DOMAIN p = 1 .. Len(p) /\ \A k \in 1 .. Len(p) : p[k] \in Label
    OBVIOUS
  <2>2. "." \notin Label /\ "/" \notin Label
    BY DEF Label
  <2>3. CASE \E k \in 1 .. Len(p) : p[k] # "*" /\ i = Container!Begin(p, n, k)
    BY <1>4, <2>1, <2>2, <2>3 DEF Container!LabelsFit
  <2>4. CASE \E k \in 1 .. Len(p), d \in 0 .. n : p[k] = "*" /\ d < n /\ i = Container!Begin(p, n, k) + d
    <3>1. Container!Wild(t[i])
      BY <1>4, <2>1, <2>4 DEF Container!LabelsFit
    <3> QED
      BY <3>1 DEF Container!Wild
  <2> QED
    BY <1>5, <1>6, <1>7, <1>8, <2>3, <2>4, Covered
<1>12. D \in SUBSET Between(p, n)
  <2> SUFFICES ASSUME NEW i \in 1 .. Len(h), h[i] = "." PROVE i \in Between(p, n)
    BY <1>3 DEF Container!Dots
  <2> QED
    BY <1>3, <1>10, <1>11
<1>13. IsFiniteSet(Between(p, n)) /\ Cardinality(Between(p, n)) <= Len(p) - 1
  BY <1>5, FewBetween
<1>14. /\ Cardinality(D) \in Nat /\ Cardinality(Between(p, n)) \in Nat
       /\ Cardinality(D) <= Cardinality(Between(p, n))
       /\ Cardinality(D) = Cardinality(Between(p, n)) => D = Between(p, n)
  BY <1>12, <1>13, FS_Subset, FS_CardinalityType
<1>15. ASSUME ~(Cardinality(D) + 1 < Len(p)) PROVE Container!SameDomain(p, h)
  <2>1. D = Between(p, n)
    BY <1>5, <1>13, <1>14, <1>15
  <2>2. Len(h) = e
    <3> SUFFICES ASSUME Len(h) # e PROVE FALSE
      OBVIOUS
    <3>0. Len(h) + 1 \in 1 .. e
      BY <1>3, <1>8, <1>10
    <3>1. Len(h) + 1 \in D
      BY <1>3, <1>11, <2>1, <3>0
    <3> QED
      BY <1>3, <3>1 DEF Container!Dots
  <2>3. \E l \in 0 .. Len(h) : /\ Len(h) = Container!End(p, l) /\ Container!LabelsFit(p, l, h)
                               /\ D = Between(p, l)
    <3>1. /\ \A k \in 1 .. Len(p) : p[k] # "*" => h[Container!Begin(p, n, k)] = p[k]
          /\ \A k \in 1 .. Len(p), d \in 0 .. n : p[k] = "*" /\ d < n => Container!Wild(h[Container!Begin(p, n, k) + d])
      <4>1. ASSUME NEW k \in 1 .. Len(p), p[k] # "*" PROVE h[Container!Begin(p, n, k)] = p[k]
        <5>1. Container!Begin(p, n, k) \in 1 .. Len(h)
          BY <1>5, <1>6, <1>7, <1>8, <2>2, <4>1, Covered
        <5>2. t[Container!Begin(p, n, k)] = p[k]
          BY <1>4, <4>1 DEF Container!LabelsFit
        <5> QED
          BY <1>3, <5>1, <5>2
      <4>2. ASSUME NEW k \in 1 .. Len(p), NEW d \in 0 .. n, p[k] = "*", d < n
            PROVE  Container!Wild(h[Container!Begin(p, n, k) + d])
        <5>1. Container!Begin(p, n, k) + d \in 1 .. Len(h)
          BY <1>5, <1>6, <1>7, <1>8, <2>2, <4>2, Covered
        <5>2. Container!Wild(t[Container!Begin(p, n, k) + d])
          BY <1>4, <4>2 DEF Container!LabelsFit
        <5>3. t[Container!Begin(p, n, k) + d] = h[Container!Begin(p, n, k) + d]
          BY <1>3, <5>1
        <5> QED
          BY <5>2, <5>3
      <4> QED
        BY <4>1, <4>2
    <3>2. DOMAIN p = 1 .. Len(p)
      OBVIOUS
    <3>3. CASE n <= Len(h)
      <4>1. n \in 0 .. Len(h)
        BY <1>3, <1>7, <3>3
      <4>2. Container!LabelsFit(p, n, h)
        BY <3>1, <3>2 DEF Container!LabelsFit
      <4> QED
        BY <1>8, <2>1, <2>2, <4>1, <4>2
    <3>4. CASE n > Len(h)
      <4>1. j = 0
        <5>1. Container!End(p, n) = IF 0 < j THEN (2 * Len(p) - 2) + n ELSE 2 * Len(p) - 1
          BY <1>6, <1>7, BeginIs
        <5> QED
          BY <1>3, <1>5, <1>7, <1>8, <2>2, <3>4, <5>1
      <4>2. Container!Wildcards(p) = {} /\ \A k \in 1 .. Len(p) : p[k] # "*"
        BY <1>6, <3>2, <4>1 DEF AtMostOne, Container!Wildcards
      <4>3. Container!End(p, 0) = Container!End(p, n) /\ \A k : Container!Begin(p, 0, k) = Container!Begin(p, n, k)
        BY <4>2 DEF Container!End, Container!Begin
      <4>4. Container!LabelsFit(p, 0, h)
        BY <3>1, <3>2, <4>2, <4>3 DEF Container!LabelsFit
      <4>5. D = Between(p, 0) /\ 0 \in 0 .. Len(h)
        BY <1>3, <2>1, <4>3 DEF Between
      <4> QED
        BY <1>8, <2>2, <4>3, <4>4, <4>5
    <3> QED
      BY <1>3, <1>7, <3>3, <3>4
  <2> QED
    BY <1>5, <2>3 DEF Container!SameDomain, Between
<1> QED
  BY <1>1, <1>2, <1>15

-----------------------------------------------------------------------------
LEMMA ContainerAlways == Spec => []ContainerInv
<1>1. Init => ContainerInv
  BY ContainerInitInv DEF Init
<1>2. ContainerInv /\ [Next]_vars => ContainerInv'
  <2> SUFFICES ASSUME ContainerInv, [Next]_vars PROVE ContainerInv'
    OBVIOUS
  <2>1. CASE Container!Next
    BY <2>1, ContainerNextInv
  <2>2. CASE UNCHANGED containerVars
    BY <2>2, ContainerIdle DEF containerVars, ContainerInv
  <2> QED
    BY <2>1, <2>2 DEF Next, InHooks, vars
<1> QED
  BY <1>1, <1>2, PTL DEF Spec

\* A web app with patterns or a name shows pages of its own only: hosts that its model lists, and the domain
\* of a pattern that was given; a page of another domain has fewer dots in its host than the pattern has, or
\* another URL in its own (webapp-container.cpp, url-pattern-utils.cpp, WebViewImplOxide.qml).
THEOREM WebappsNavigateWithin == Spec => []NavigatesWithin
<1>1. ContainerInv => NavigatesWithin
  <2> SUFFICES ASSUME ContainerInv, Container!HasPatterns(app) \/ Container!Named(app), page # NoUrl
               PROVE  \/ Container!Named(app) /\ page.scheme = "http" /\ page.host \in MCHosts
                      \/ \E k \in DOMAIN app.given :
                           /\ Container!Safe(app.given[k]) # <<>>
                           /\ \/ Container!OtherUrls(page) # {}
                              \/ /\ page.scheme = "http"
                                 /\ \/ Cardinality(Container!Dots(page.host)) + 1 < Len(app.given[k])
                                    \/ Container!SameDomain(app.given[k], page.host)
    <3>1. \A L : Container!Cardinality(L) = Cardinality(L)
      BY Zenon DEF Container!Cardinality, Cardinality
    <3> QED
      BY <3>1 DEF NavigatesWithin, Container!NavigatesWithin, Container!Filtered
  <2>1. Container!ShouldAllow(page)
    BY DEF ContainerInv, Container!Accepts
  <2>2. CASE Container!Named(app) /\ page.scheme = "http" /\ page.host \in MCHosts
    BY <2>2
  <2>3. CASE \E k \in DOMAIN app.patterns : Container!Match(app.patterns[k], page)
    <3>1. PICK k \in DOMAIN app.patterns : Container!Match(app.patterns[k], page)
      BY <2>3
    <3>2. PICK i \in DOMAIN app.given : app.given[i] = app.patterns[k] /\ Container!Safe(app.patterns[k]) # <<>>
      BY <3>1 DEF ContainerInv, SafeAmong
    <3>3. PICK p \in Seq(Label) : p = app.patterns[k]
      BY <3>1 DEF ContainerInv, Texts
    <3>4. OnWeb(page)
      BY DEF ContainerInv, Placed
    <3>5. Container!OtherUrls(page) = {} =>
            /\ page.scheme = "http"
            /\ Cardinality(Container!Dots(page.host)) + 1 < Len(p) \/ Container!SameDomain(p, page.host)
      BY <3>1, <3>2, <3>3, <3>4, MatchStays
    <3> QED
      BY <3>2, <3>3, <3>5
  <2> QED
    BY <2>1, <2>2, <2>3 DEF Container!ShouldAllow
<1> QED
  BY <1>1, ContainerAlways, PTL

\* A local application shows local pages only, whatever a second start asks it to open.
THEOREM LocalAppsStayLocal == Spec => []LocalStaysLocal
<1>1. ContainerInv => LocalStaysLocal
  BY DEF ContainerInv, LocalStaysLocal, Container!LocalStaysLocal, Container!Accepts, Container!ShouldAllow,
         Container!HasPatterns
<1> QED
  BY <1>1, ContainerAlways, PTL

\* What the guard of openUrls lets through is accepted as a navigation, whatever the filter has made of it.
THEOREM WhatIsOpenedIsShown == Spec => []OpenedIsShown
<1>1. ContainerInv => OpenedIsShown
  BY DEF ContainerInv, OpenedIsShown, Container!OpenedIsShown, Container!Accepts, Container!ShouldAllow,
         Container!HasPatterns
<1> QED
  BY <1>1, ContainerAlways, PTL
=============================================================================
