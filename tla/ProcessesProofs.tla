--------------------------- MODULE ProcessesProofs ---------------------------
(***************************************************************************)
(* Proofs about the processes of an application and the moves of cookies   *)
(* (MCProcesses), for any processes, stores and cookies.                   *)
(***************************************************************************)
EXTENDS MCProcesses, TLAPS

-----------------------------------------------------------------------------
(* Processes that are started one after the other *)

Phase == {"off", "listen", "bound", "connect", "recover", "listen again", "bound again",
          "initialized", "running", "wait for ack", "passed on", "failed", "stopped"}
Owners == {"bound", "bound again", "initialized", "running"}
Owner == Process \cup {NoFile, Stale}

\* One process is starting, the socket of an instance is at the path, also when it does not listen
\* yet, and a process that takes the instance for crashed is right.
TurnsInv ==
  /\ pc \in [Process -> Phase] /\ file \in [Turns!Names -> Owner]
  /\ \A p, q \in Process : pc[p] \in Turns!Starting /\ pc[q] \in Turns!Starting => p = q
  /\ \A p \in Process : pc[p] \in Owners => file["a"] = p
  /\ \A p, q \in Process : pc[p] = "recover" => pc[q] \notin {"initialized", "running"}

LEMMA OnePath ==
  ASSUME NEW p \in Process
  PROVE  Turns!ServerName(p) = "a" /\ "a" \in Turns!Names
BY DEF Turns!ServerName, Turns!Names, Turns!App, OneApp

LEMMA TurnsInitInv == Turns!Init => TurnsInv
BY DEF Turns!Init, TurnsInv, Phase, Owner, Owners, Turns!Starting

\* A process goes on, to a phase in which it is not an instance, and the file stays.
LEMMA TurnsGoesOn ==
  ASSUME TurnsInv, NEW p \in Process, NEW to \in Phase \ (Owners \cup {"recover"}),
         pc' = [pc EXCEPT ![p] = to], UNCHANGED file, to \in Turns!Starting => pc[p] \in Turns!Starting
  PROVE  TurnsInv'
BY DEF TurnsInv, Owners

LEMMA TurnsBind ==
  ASSUME TurnsInv, NEW p \in Process, NEW from \in Turns!Starting,
         NEW to \in {"bound", "bound again"}, NEW otherwise \in {"connect", "failed"},
         Turns!Bind(p, from, to, otherwise)
  PROVE  TurnsInv'
<1>1. pc[p] \in Turns!Starting /\ Turns!ServerName(p) = "a" /\ "a" \in Turns!Names
  BY OnePath DEF Turns!Bind
<1>2. CASE file["a"] = NoFile
  <2>1. pc' = [pc EXCEPT ![p] = to] /\ file' = [file EXCEPT !["a"] = p]
    BY <1>1, <1>2 DEF Turns!Bind, Turns!Goes, Turns!FileIs
  <2>2. \A q \in Process : pc[q] \notin Owners
    BY <1>2, ProcessAssumption DEF TurnsInv
  <2> QED
    BY <1>1, <2>1, <2>2 DEF TurnsInv, Phase, Owner, Owners, Turns!Starting
<1>3. CASE file["a"] # NoFile
  <2>1. pc' = [pc EXCEPT ![p] = otherwise] /\ UNCHANGED file
    BY <1>1, <1>3 DEF Turns!Bind, Turns!Goes
  <2> QED
    BY <1>1, <2>1, TurnsGoesOn DEF Phase, Owners, Turns!Starting
<1> QED
  BY <1>2, <1>3

LEMMA TurnsStep ==
  ASSUME TurnsInv, Turns!Next
  PROVE  TurnsInv'
<1>1. PICK p \in Process : Turns!Start(p) \/ Turns!Run(p) \/ Turns!Quit(p) \/ Turns!Crash(p)
  BY DEF Turns!Next
<1>2. Turns!ServerName(p) = "a" /\ "a" \in Turns!Names
  BY OnePath
<1>3. CASE Turns!Start(p)
  <2>1. \A q \in Process : pc[q] \notin Turns!Starting
    BY <1>3 DEF Turns!Start
  <2> QED
    BY <1>3, <2>1 DEF TurnsInv, Turns!Start, Turns!Goes, Phase, Owners, Turns!Starting
<1>4. CASE Turns!FirstListen(p)
  BY <1>4, TurnsBind DEF Turns!FirstListen, Turns!Starting
<1>5. CASE Turns!SecondListen(p)
  BY <1>5, TurnsBind DEF Turns!SecondListen, Turns!Starting
<1>6. CASE Turns!Listen(p)
  <2>1. pc[p] \in Turns!Starting /\ pc[p] \in Owners /\ UNCHANGED file
        /\ pc' = [pc EXCEPT ![p] = "initialized"] /\ pc[p] # "recover"
    BY <1>6 DEF Turns!Listen, Turns!Goes, Owners, Turns!Starting
  <2>2. \A q \in Process : pc[q] # "recover"
    BY <2>1 DEF TurnsInv, Turns!Starting
  <2> QED
    BY <2>1, <2>2 DEF TurnsInv, Phase, Owners, Turns!Starting
<1>7. CASE Turns!Connect(p)
  <2>1. CASE Turns!Listens(file["a"])
    BY <1>2, <1>7, <2>1, TurnsGoesOn DEF Turns!Connect, Turns!Goes, Phase, Owners, Turns!Starting
  <2>2. CASE ~Turns!Listens(file["a"])
    <3>1. pc' = [pc EXCEPT ![p] = "recover"] /\ UNCHANGED file /\ pc[p] = "connect"
      BY <1>2, <1>7, <2>2 DEF Turns!Connect, Turns!Goes
    <3>2. \A q \in Process : pc[q] \notin {"initialized", "running"}
      BY <2>2 DEF TurnsInv, Turns!Listens, Owners
    <3> QED
      BY <3>1, <3>2 DEF TurnsInv, Phase, Owners, Turns!Starting
  <2> QED
    BY <2>1, <2>2
<1>8. CASE Turns!RemoveServer(p)
  <2>1. pc[p] = "recover" /\ pc' = [pc EXCEPT ![p] = "listen again"] /\ file' = [file EXCEPT !["a"] = NoFile]
    BY <1>2, <1>8 DEF Turns!RemoveServer, Turns!Goes, Turns!FileIs
  <2>2. \A q \in Process : pc[q] \notin Owners
    BY <2>1 DEF TurnsInv, Owners, Turns!Starting
  <2> QED
    BY <1>2, <2>1, <2>2 DEF TurnsInv, Phase, Owner, Owners, Turns!Starting
<1>9. CASE Turns!WaitIsOver(p)
  BY <1>9, TurnsGoesOn DEF Turns!WaitIsOver, Turns!Goes, Phase, Owners, Turns!Starting
\* the instance goes on, or ends
<1>10. CASE pc[p] \in {"initialized", "running"} /\ pc' = [pc EXCEPT ![p] = "running"] /\ UNCHANGED file
  BY <1>10 DEF TurnsInv, Phase, Owners, Turns!Starting
<1>11. CASE /\ pc[p] \in {"initialized", "running"} /\ pc' = [pc EXCEPT ![p] = "stopped"]
            /\ file' = [file EXCEPT !["a"] = NoFile]
  <2>1. \A q \in Process \ {p} : pc[q] \notin Owners
    BY <1>11 DEF TurnsInv, Owners
  <2> QED
    BY <1>2, <1>11, <2>1 DEF TurnsInv, Phase, Owner, Owners, Turns!Starting
<1>12. CASE Turns!OnReadyRead(p)
  BY <1>12 DEF Turns!OnReadyRead, TurnsInv
<1>13. CASE Turns!Crash(p)
  <2>1. /\ pc' = [pc EXCEPT ![p] = "stopped"]
        /\ file' = [n \in Turns!Names |-> IF file[n] = p THEN Stale ELSE file[n]]
    BY <1>13 DEF Turns!Crash, Turns!Goes
  <2> QED
    BY <1>2, <2>1 DEF TurnsInv, Phase, Owner, Owners, Turns!Starting
<1>14. CASE Turns!Initialize(p)
  BY <1>2, <1>10, <1>11, <1>14 DEF Turns!Initialize, Turns!Goes, Turns!FileIs
<1>15. CASE Turns!Quit(p)
  BY <1>2, <1>11, <1>15 DEF Turns!Quit, Turns!Goes, Turns!FileIs
<1> QED
  BY <1>1, <1>3, <1>4, <1>5, <1>6, <1>7, <1>8, <1>9, <1>12, <1>13, <1>14, <1>15 DEF Turns!Run
-----------------------------------------------------------------------------
(* Processes of two applications that are started at any time *)

\* The processes of an application, none of which has stopped.
Of(a) == {p \in Process : TwoApps[p] = a}
NoneStopped(a) == \A p \in Of(a) : pc[p] # "stopped"

\* A socket is in the place of its application.  Unless one of its processes has stopped: a socket
\* has its process; one that has been left is there only until the first process removes it; and
\* when a process has given up, there is an instance, or will be.
Placed == \A n \in Crowd!Names : file[n] \in Process => TwoApps[file[n]] = n
Settled(a) ==
  /\ file[a] \in Process => pc[file[a]] \in Owners
  /\ file[a] = Stale => \A p \in Of(a) : pc[p] # "listen again"
  /\ (\E p \in Of(a) : pc[p] \in {"wait for ack", "passed on", "failed"})
       => \E q \in Of(a) : pc[q] \in Owners
\* What is passed on comes from the same application.
Passed ==
  /\ inbox \in [Process -> Seq(Process)]
  /\ \A q \in Process : \A i \in DOMAIN inbox[q] : TwoApps[inbox[q][i]] = TwoApps[q]
  /\ Crowd!HandledBySameApp
CrowdInv ==
  /\ pc \in [Process -> Phase] /\ file \in [Crowd!Names -> Owner]
  /\ Placed /\ Passed
  /\ \A a \in Crowd!App : NoneStopped(a) => Settled(a)

LEMMA OwnPath ==
  ASSUME NEW p \in Process
  PROVE  Crowd!ServerName(p) = TwoApps[p] /\ TwoApps[p] \in Crowd!App
BY DEF Crowd!ServerName, Crowd!App

LEMMA AppsAreNames ==
  /\ Crowd!App \subseteq Crowd!Names
  /\ \A a \in Crowd!App : \E p \in Process : TwoApps[p] = a
BY OwnPath DEF Crowd!Names, Crowd!App

LEMMA CrowdInitInv == Crowd!Init => CrowdInv
<1> SUFFICES ASSUME Crowd!Init PROVE CrowdInv
  OBVIOUS
<1>1. /\ pc = [p \in Process |-> "off"] /\ file \in [Crowd!Names -> {NoFile, Stale}]
      /\ inbox = [p \in Process |-> <<>>] /\ handled = {}
  BY DEF Crowd!Init
<1>2. \A n \in Crowd!Names : file[n] \notin Process
  BY <1>1, ProcessAssumption
<1>3. \A a \in Crowd!App : Settled(a)
  BY <1>1, <1>2, AppsAreNames DEF Settled, Of
<1> QED
  BY <1>1, <1>2, <1>3 DEF CrowdInv, Placed, Passed, Phase, Owner, Crowd!HandledBySameApp

\* What a process does changes nothing for another application.
LEMMA OthersSettled ==
  ASSUME CrowdInv, NEW p \in Process, NEW to \in Phase, pc' = [pc EXCEPT ![p] = to],
         NEW a \in Crowd!App, a # TwoApps[p], file'[a] = file[a], NoneStopped(a)'
  PROVE  Settled(a)'
<1>1. \A q \in Of(a) : pc'[q] = pc[q]
  BY DEF CrowdInv, Of
<1>2. NoneStopped(a)
  BY <1>1 DEF NoneStopped
<1>3. Settled(a)
  BY <1>2 DEF CrowdInv
<1>4. file[a] \in Process => file[a] \in Of(a)
  BY AppsAreNames DEF CrowdInv, Placed, Of
<1> QED
  BY <1>1, <1>3, <1>4 DEF Settled, Of

\* The step of one process, given what it makes of its application.
LEMMA CrowdMoves ==
  ASSUME CrowdInv, NEW p \in Process, pc[p] # "stopped", NEW to \in Phase, pc' = [pc EXCEPT ![p] = to],
         Passed', NEW x \in {p, NoFile, file[TwoApps[p]]},
         file' = [file EXCEPT ![TwoApps[p]] = x],
         NoneStopped(TwoApps[p])' /\ Settled(TwoApps[p]) => Settled(TwoApps[p])'
  PROVE  CrowdInv'
<1>1. TwoApps[p] \in Crowd!App /\ TwoApps[p] \in Crowd!Names
  BY OwnPath, AppsAreNames
<1>2. pc' \in [Process -> Phase] /\ file' \in [Crowd!Names -> Owner]
  BY <1>1 DEF CrowdInv, Owner
<1>3. Placed'
  BY <1>1, ProcessAssumption DEF CrowdInv, Placed
<1>4. ASSUME NEW a \in Crowd!App, NoneStopped(a)' PROVE Settled(a)'
  <2>1. CASE a = TwoApps[p]
    <3>1. to # "stopped"
      BY <1>4, <2>1 DEF NoneStopped, Of, CrowdInv
    <3>2. pc[p] # "stopped" => NoneStopped(a)
      BY <1>4, <2>1 DEF NoneStopped, Of, CrowdInv
    <3> QED
      BY <1>4, <2>1, <3>2 DEF CrowdInv
  <2>2. CASE a # TwoApps[p]
    <3>1. file'[a] = file[a]
      BY <1>1, <2>2, AppsAreNames DEF CrowdInv
    <3> QED
      BY <1>4, <2>2, <3>1, OthersSettled
  <2> QED
    BY <2>1, <2>2
<1> QED
  BY <1>2, <1>3, <1>4 DEF CrowdInv

LEMMA NothingPassed ==
  ASSUME CrowdInv, UNCHANGED <<inbox, handled>>
  PROVE  Passed'
BY DEF CrowdInv, Passed, Crowd!HandledBySameApp

LEMMA CrowdBind ==
  ASSUME CrowdInv, NEW p \in Process, NEW from, NEW to \in {"bound", "bound again"}, NEW otherwise,
         \/ from = "listen" /\ otherwise = "connect"
         \/ from = "listen again" /\ otherwise = "failed",
         Crowd!Bind(p, from, to, otherwise)
  PROVE  CrowdInv'
<1> DEFINE a == TwoApps[p]
<1>1. /\ pc[p] = from /\ Crowd!ServerName(p) = a /\ a \in Crowd!Names /\ p \in Of(a)
      /\ Passed'
  BY OwnPath, AppsAreNames, NothingPassed DEF Crowd!Bind, Of
<1>2. file \in [Crowd!Names -> Owner] /\ pc \in [Process -> Phase]
  BY DEF CrowdInv
<1> HIDE DEF a
<1>3. CASE file[a] = NoFile
  <2>1. pc' = [pc EXCEPT ![p] = to] /\ file' = [file EXCEPT ![a] = p]
    BY <1>1, <1>3 DEF Crowd!Bind, Crowd!Goes, Crowd!FileIs
  <2>2. file'[a] = p /\ p # Stale /\ pc'[p] = to /\ pc'[p] \in Owners
    BY <1>1, <1>2, <2>1, ProcessAssumption DEF Owners
  <2>3. Settled(a)'
    BY <1>1, <2>2 DEF Settled
  <2> QED
    BY <1>1, <2>1, <2>3, CrowdMoves DEF a, Phase
<1>4. CASE file[a] # NoFile
  <2>1. pc' = [pc EXCEPT ![p] = otherwise] /\ file' = file
    BY <1>1, <1>4 DEF Crowd!Bind, Crowd!Goes
  <2>2. file' = [file EXCEPT ![a] = file[a]]
    BY <1>1, <1>2, <2>1
  <2>3. ASSUME NoneStopped(a)', Settled(a) PROVE Settled(a)'
    <3>1. \A q \in Of(a) : q # p => pc'[q] = pc[q]
      BY <1>2, <2>1 DEF Of
    <3>2. pc'[p] = otherwise /\ pc[p] \notin Owners /\ otherwise # "listen again"
      BY <1>1, <1>2, <2>1 DEF Owners
    <3>3. file'[a] \in Process => pc'[file'[a]] \in Owners
      BY <1>2, <2>1, <2>3, <3>2 DEF Settled
    <3>4. file'[a] = Stale => \A q \in Of(a) : pc'[q] # "listen again"
      BY <2>1, <2>3, <3>1, <3>2 DEF Settled
    <3>5. otherwise = "failed" => file[a] \in Process
      BY <1>1, <1>2, <1>4, <2>3 DEF Settled, Owner
    <3>6. file[a] \in Process => file[a] \in Of(a) /\ pc'[file[a]] \in Owners
      BY <1>1, <2>1, <3>3 DEF CrowdInv, Placed, Of
    <3>7. (\E q \in Of(a) : pc'[q] \in {"wait for ack", "passed on", "failed"})
            => \E q \in Of(a) : pc'[q] \in Owners
      <4>1. CASE otherwise = "failed"
        BY <3>5, <3>6, <4>1
      <4>2. CASE otherwise = "connect"
        <5> SUFFICES ASSUME NEW q \in Of(a), pc'[q] \in {"wait for ack", "passed on", "failed"}
                     PROVE  \E r \in Of(a) : pc'[r] \in Owners
          OBVIOUS
        <5>1. q # p /\ pc[q] \in {"wait for ack", "passed on", "failed"}
          BY <3>1, <3>2, <4>2
        <5>2. PICK r \in Of(a) : pc[r] \in Owners
          BY <2>3, <5>1 DEF Settled
        <5> QED
          BY <3>1, <3>2, <5>2
      <4> QED
        BY <1>1, <4>1, <4>2
    <3> QED
      BY <3>3, <3>4, <3>7 DEF Settled, Of
  <2>4. otherwise \in Phase /\ pc[p] # "stopped"
    BY <1>1 DEF Phase
  <2>5. NoneStopped(a)' /\ Settled(a) => Settled(a)'
    BY <2>3
  <2> QED
    BY <1>1, <2>1, <2>2, <2>4, <2>5, CrowdMoves DEF a
<1> QED
  BY <1>3, <1>4

\* A process that has no socket before and none after, and has not given up.
LEMMA CrowdGoesOn ==
  ASSUME CrowdInv, NEW p \in Process, NEW to \in Phase, pc[p] # "stopped", pc[p] \notin Owners,
         to \notin {"listen again", "failed"}, UNCHANGED file, Passed',
         pc' = [pc EXCEPT ![p] = to],
         to \in {"wait for ack", "passed on"} =>
           \E q \in Of(TwoApps[p]) : NoneStopped(TwoApps[p])' => pc[q] \in Owners
  PROVE  CrowdInv'
<1> DEFINE a == TwoApps[p]
<1>1. a \in Crowd!Names /\ file' = [file EXCEPT ![a] = file[a]] /\ pc \in [Process -> Phase]
  BY OwnPath, AppsAreNames DEF CrowdInv
<1>2. ASSUME NoneStopped(a)', Settled(a) PROVE Settled(a)'
  <2>1. \A q \in Process : q # p => pc'[q] = pc[q]
    BY <1>1
  <2>2. pc'[p] = to
    BY <1>1
  <2>3. \A q \in Process : pc[q] \in Owners => pc'[q] \in Owners
    BY <2>1
  <2>4. file'[a] \in Process => pc'[file'[a]] \in Owners
    BY <1>2, <2>3 DEF Settled
  <2>5. file'[a] = Stale => \A q \in Of(a) : pc'[q] # "listen again"
    BY <1>2, <2>1, <2>2 DEF Settled, Of
  <2>6. ASSUME NEW q \in Of(a), pc'[q] \in {"wait for ack", "passed on", "failed"}
        PROVE  \E r \in Of(a) : pc'[r] \in Owners
    <3>1. CASE q = p
      <4>1. \E r \in Of(a) : pc[r] \in Owners
        BY <1>2, <2>2, <2>6, <3>1
      <4> QED
        BY <2>3, <4>1 DEF Of
    <3>2. CASE q # p
      <4>1. \E r \in Of(a) : pc[r] \in Owners
        BY <1>2, <2>1, <2>6, <3>2 DEF Settled, Of
      <4> QED
        BY <2>3, <4>1 DEF Of
    <3> QED
      BY <3>1, <3>2
  <2> QED
    BY <2>4, <2>5, <2>6 DEF Settled, Of
<1>3. NoneStopped(a)' /\ Settled(a) => Settled(a)'
  BY <1>2
<1> HIDE DEF a
<1> QED
  BY <1>1, <1>3, CrowdMoves DEF a

LEMMA ConnectStep ==
  ASSUME CrowdInv, NEW p \in Process, Crowd!Connect(p)
  PROVE  CrowdInv'
<1> DEFINE q == file[TwoApps[p]]
<1>1. /\ pc[p] = "connect" /\ Crowd!ServerName(p) = TwoApps[p] /\ TwoApps[p] \in Crowd!Names
      /\ pc[p] \notin Owners /\ UNCHANGED <<file, handled>>
  BY OwnPath, AppsAreNames DEF Crowd!Connect, Owners
<1>2. CASE Crowd!Listens(q)
  <2>1. /\ pc' = [pc EXCEPT ![p] = "wait for ack"] /\ inbox' = [inbox EXCEPT ![q] = Append(@, p)]
    BY <1>1, <1>2 DEF Crowd!Connect, Crowd!Goes
  <2>2. q \in Process /\ pc[q] \in Owners /\ TwoApps[q] = TwoApps[p] /\ q \in Of(TwoApps[p])
    BY <1>1, <1>2 DEF Crowd!Listens, Owners, CrowdInv, Placed, Of
  <2> HIDE DEF q
  <2>3. Passed'
    <3>1. inbox \in [Process -> Seq(Process)]
      BY DEF CrowdInv, Passed
    <3>2. inbox[q] \in Seq(Process) /\ Append(inbox[q], p) \in Seq(Process)
      BY <2>2, <3>1
    <3>3. inbox' \in [Process -> Seq(Process)]
      BY <2>1, <2>2, <3>1, <3>2
    <3>4. ASSUME NEW r \in Process, NEW i \in DOMAIN inbox'[r] PROVE TwoApps[inbox'[r][i]] = TwoApps[r]
      <4>1. CASE r # q
        BY <2>1, <2>2, <3>1, <3>4, <4>1 DEF CrowdInv, Passed
      <4>2. CASE r = q
        <5>1. inbox'[r] = Append(inbox[r], p) /\ inbox[r] \in Seq(Process)
          BY <2>1, <2>2, <3>1, <4>2
        <5>2. inbox'[r][i] = p \/ (i \in DOMAIN inbox[r] /\ inbox'[r][i] = inbox[r][i])
          BY <3>4, <5>1
        <5> QED
          BY <2>2, <4>2, <5>2 DEF CrowdInv, Passed
      <4> QED
        BY <4>1, <4>2
    <3> QED
      BY <1>1, <3>3, <3>4 DEF CrowdInv, Passed, Crowd!HandledBySameApp
  <2> QED
    BY <1>1, <2>1, <2>2, <2>3, CrowdGoesOn DEF Phase
<1>3. CASE ~Crowd!Listens(q)
  <2>1. pc' = [pc EXCEPT ![p] = "recover"] /\ UNCHANGED inbox
    BY <1>1, <1>3 DEF Crowd!Connect, Crowd!Goes
  <2> QED
    BY <1>1, <2>1, NothingPassed, CrowdGoesOn DEF Phase
<1> QED
  BY <1>2, <1>3

LEMMA RemoveStep ==
  ASSUME CrowdInv, NEW p \in Process, Crowd!RemoveServer(p)
  PROVE  CrowdInv'
<1> DEFINE a == TwoApps[p]
<1>1. /\ pc[p] = "recover" /\ a \in Crowd!Names /\ Passed'
      /\ pc' = [pc EXCEPT ![p] = "listen again"] /\ file' = [file EXCEPT ![a] = NoFile]
  BY OwnPath, AppsAreNames, NothingPassed DEF Crowd!RemoveServer, Crowd!Goes, Crowd!FileIs
<1>2. file'[a] = NoFile /\ NoFile # Stale /\ NoFile \notin Process
  BY <1>1, ProcessAssumption DEF CrowdInv
<1>3. pc \in [Process -> Phase]
  BY DEF CrowdInv
<1>4. \A q \in Process : q # p => pc'[q] = pc[q]
  BY <1>1, <1>3
<1>5. pc'[p] = "listen again"
  BY <1>1, <1>3
<1> HIDE DEF a
<1>6. ASSUME Settled(a) PROVE Settled(a)'
  <2>1. ASSUME NEW q \in Of(a), pc'[q] \in {"wait for ack", "passed on", "failed"}
        PROVE  \E r \in Of(a) : pc'[r] \in Owners
    <3>1. pc[q] \in {"wait for ack", "passed on", "failed"}
      BY <1>4, <1>5, <2>1 DEF Of
    <3>2. PICK r \in Of(a) : pc[r] \in Owners
      BY <1>6, <3>1 DEF Settled
    <3>3. r # p
      BY <1>1, <3>2 DEF Owners
    <3> QED
      BY <1>4, <3>2, <3>3 DEF Of
  <2> QED
    BY <1>2, <2>1 DEF Settled, Of
<1> QED
  BY <1>1, <1>6, CrowdMoves DEF a, Phase

\* An instance goes on, or listens.
LEMMA InstanceGoesOn ==
  ASSUME CrowdInv, NEW p \in Process, pc[p] \in Owners, NEW to \in Owners, UNCHANGED <<file, inbox, handled>>,
         pc' = [pc EXCEPT ![p] = to]
  PROVE  CrowdInv'
<1> DEFINE a == TwoApps[p]
<1>1. a \in Crowd!Names /\ file' = [file EXCEPT ![a] = file[a]] /\ pc \in [Process -> Phase] /\ Passed'
      /\ to \in Phase /\ pc[p] # "stopped"
  BY OwnPath, AppsAreNames, NothingPassed DEF CrowdInv, Owners, Phase
<1>2. /\ \A q \in Process : q # p => pc'[q] = pc[q]
      /\ pc'[p] = to
  BY <1>1
<1>3. Settled(a) => Settled(a)'
  <2>1. /\ \A q \in Process : pc'[q] \in Owners <=> pc[q] \in Owners
        /\ \A q \in Process : pc'[q] \in Phase \ Owners => pc'[q] = pc[q]
    BY <1>2
  <2>2. {"wait for ack", "passed on", "failed", "listen again"} \subseteq Phase \ Owners
    BY DEF Phase, Owners
  <2> QED
    BY <2>1, <2>2 DEF Settled, Of
<1> HIDE DEF a
<1> QED
  BY <1>1, <1>3, CrowdMoves DEF a

\* An instance ends, its arguments unread.
LEMMA CrowdEnds ==
  ASSUME CrowdInv, NEW p \in Process, pc[p] # "stopped", pc' = [pc EXCEPT ![p] = "stopped"],
         file' = [file EXCEPT ![TwoApps[p]] = NoFile], UNCHANGED <<inbox, handled>>
  PROVE  CrowdInv'
<1>1. p \in Of(TwoApps[p]) /\ pc'[p] = "stopped"
  BY DEF Of, CrowdInv
<1>2. ~NoneStopped(TwoApps[p])'
  BY <1>1 DEF NoneStopped, Of
<1>3. Passed'
  BY NothingPassed
<1> QED
  BY <1>2, <1>3, CrowdMoves DEF Phase

\* A crash leaves the socket behind, at the path of the application.
LEMMA CrashStep ==
  ASSUME CrowdInv, NEW p \in Process, Crowd!Crash(p)
  PROVE  CrowdInv'
<1> DEFINE a == TwoApps[p]
<1>1. /\ pc[p] # "stopped" /\ pc' = [pc EXCEPT ![p] = "stopped"]
      /\ file' = [n \in Crowd!Names |-> IF file[n] = p THEN Stale ELSE file[n]]
      /\ UNCHANGED <<inbox, handled>>
  BY DEF Crowd!Crash, Crowd!Goes, Crowd!Starting
<1>2. Passed'
  BY <1>1, NothingPassed
<1>3. pc' \in [Process -> Phase] /\ file' \in [Crowd!Names -> Owner]
  BY <1>1 DEF CrowdInv, Phase, Owner
<1>4. Placed'
  BY <1>1, ProcessAssumption DEF CrowdInv, Placed
<1>5. ASSUME NEW b \in Crowd!App, NoneStopped(b)' PROVE Settled(b)'
  <2>1. b # a
    BY <1>1, <1>5 DEF NoneStopped, Of, CrowdInv
  <2>2. b \in Crowd!Names /\ file[b] # p
    BY <2>1, AppsAreNames DEF CrowdInv, Placed
  <2>3. file'[b] = file[b]
    BY <1>1, <2>2
  <2> QED
    BY <1>1, <1>5, <2>1, <2>3, OthersSettled DEF Phase
<1> QED
  BY <1>2, <1>3, <1>4, <1>5 DEF CrowdInv

\* What an instance reads comes from a process of its application.
LEMMA ReadStep ==
  ASSUME CrowdInv, NEW q \in Process, Crowd!OnReadyRead(q)
  PROVE  CrowdInv'
<1>1. /\ inbox[q] \in Seq(Process) /\ inbox[q] # <<>> /\ inbox' = [inbox EXCEPT ![q] = Tail(inbox[q])]
      /\ handled' = handled \cup {<<Head(inbox[q]), q>>} /\ UNCHANGED <<pc, file>>
      /\ inbox \in [Process -> Seq(Process)]
  BY DEF Crowd!OnReadyRead, CrowdInv, Passed
<1>2. /\ Tail(inbox[q]) \in Seq(Process)
      /\ \A i \in DOMAIN Tail(inbox[q]) : i + 1 \in DOMAIN inbox[q] /\ Tail(inbox[q])[i] = inbox[q][i + 1]
  BY <1>1
<1>3. inbox' \in [Process -> Seq(Process)] /\ inbox'[q] = Tail(inbox[q])
      /\ \A r \in Process : r # q => inbox'[r] = inbox[r]
  BY <1>1, <1>2
<1>4. \A r \in Process : \A i \in DOMAIN inbox'[r] : TwoApps[inbox'[r][i]] = TwoApps[r]
  <2> SUFFICES ASSUME NEW r \in Process, NEW i \in DOMAIN inbox'[r]
               PROVE  TwoApps[inbox'[r][i]] = TwoApps[r]
    OBVIOUS
  <2>1. CASE r = q
    <3>1. i \in DOMAIN Tail(inbox[q]) /\ inbox'[r][i] = Tail(inbox[q])[i]
      BY <1>3, <2>1
    <3>2. i + 1 \in DOMAIN inbox[q] /\ inbox'[r][i] = inbox[q][i + 1]
      BY <1>2, <3>1
    <3> QED
      BY <2>1, <3>2 DEF CrowdInv, Passed
  <2>2. CASE r # q
    BY <1>3, <2>2 DEF CrowdInv, Passed
  <2> QED
    BY <2>1, <2>2
<1>5. 1 \in DOMAIN inbox[q] /\ Head(inbox[q]) = inbox[q][1]
  BY <1>1
<1>6. TwoApps[Head(inbox[q])] = TwoApps[q]
  BY <1>5 DEF CrowdInv, Passed
<1>7. Passed'
  BY <1>1, <1>3, <1>4, <1>6 DEF CrowdInv, Passed, Crowd!HandledBySameApp
<1> QED
  BY <1>1, <1>7 DEF CrowdInv, Placed, Settled, NoneStopped
LEMMA CrowdStep ==
  ASSUME CrowdInv, Crowd!Next
  PROVE  CrowdInv'
<1>1. PICK p \in Process : Crowd!Start(p) \/ Crowd!Run(p) \/ Crowd!Quit(p) \/ Crowd!Crash(p)
  BY DEF Crowd!Next
<1>2. Crowd!ServerName(p) = TwoApps[p]
  BY OwnPath
<1>3. CASE Crowd!Start(p)
  <2>1. /\ pc[p] = "off" /\ pc' = [pc EXCEPT ![p] = "listen"] /\ UNCHANGED <<file, inbox, handled>>
    BY <1>3 DEF Crowd!Start, Crowd!Goes
  <2> QED
    BY <2>1, NothingPassed, CrowdGoesOn DEF Phase, Owners
<1>4. CASE Crowd!FirstListen(p)
  BY <1>4, CrowdBind DEF Crowd!FirstListen
<1>5. CASE Crowd!SecondListen(p)
  BY <1>5, CrowdBind DEF Crowd!SecondListen
<1>6. CASE Crowd!Listen(p)
  BY <1>6, InstanceGoesOn DEF Crowd!Listen, Crowd!Goes, Owners
<1>7. CASE Crowd!WaitIsOver(p)
  <2>1. /\ pc[p] = "wait for ack" /\ pc' = [pc EXCEPT ![p] = "passed on"] /\ UNCHANGED <<file, inbox, handled>>
    BY <1>7 DEF Crowd!WaitIsOver, Crowd!Goes
  <2>2. p \in Of(TwoApps[p])
    BY DEF Of
  <2>3. NoneStopped(TwoApps[p])' => \E q \in Of(TwoApps[p]) : pc[q] \in Owners
    <3>1. NoneStopped(TwoApps[p])' => NoneStopped(TwoApps[p])
      BY <2>1 DEF NoneStopped, Of, CrowdInv
    <3> QED
      BY <2>1, <2>2, <3>1, OwnPath DEF CrowdInv, Settled
  <2>4. \E q \in Of(TwoApps[p]) : NoneStopped(TwoApps[p])' => pc[q] \in Owners
    BY <2>2, <2>3
  <2> QED
    BY <2>1, <2>4, NothingPassed, CrowdGoesOn DEF Phase, Owners
<1>8. CASE Crowd!Initialize(p)
  <2>1. pc[p] = "initialized" /\ UNCHANGED <<inbox, handled>>
    BY <1>8 DEF Crowd!Initialize
  <2>2. CASE Crowd!Goes(p, "running") /\ UNCHANGED file
    BY <2>1, <2>2, InstanceGoesOn DEF Crowd!Goes, Owners
  <2>3. CASE Crowd!Goes(p, "stopped") /\ Crowd!FileIs(p, NoFile)
    BY <1>2, <2>1, <2>3, CrowdEnds DEF Crowd!Goes, Crowd!FileIs
  <2> QED
    BY <1>8, <2>2, <2>3 DEF Crowd!Initialize
<1>9. CASE Crowd!Quit(p)
  BY <1>2, <1>9, CrowdEnds DEF Crowd!Quit, Crowd!Goes, Crowd!FileIs
<1> QED
  BY <1>1, <1>3, <1>4, <1>5, <1>6, <1>7, <1>8, <1>9, ConnectStep, RemoveStep, ReadStep, CrashStep DEF Crowd!Run

-----------------------------------------------------------------------------
(* Both *)

ProcessesInv == /\ part = "turns" => TurnsInv
                /\ part = "crowd" => CrowdInv

LEMMA ProcessesInitInv == Init => ProcessesInv
BY TurnsInitInv, CrowdInitInv DEF Init, ProcessesInv

LEMMA ProcessesStep == ProcessesInv /\ [Next]_vars => ProcessesInv'
<1> SUFFICES ASSUME ProcessesInv, [Next]_vars PROVE ProcessesInv'
  OBVIOUS
<1>1. CASE part = "turns" /\ Turns!Next /\ UNCHANGED part
  BY <1>1, TurnsStep DEF ProcessesInv
<1>2. CASE part = "crowd" /\ Crowd!Next /\ UNCHANGED part
  BY <1>2, CrowdStep DEF ProcessesInv
<1>3. CASE UNCHANGED <<part, processVars>>
  BY <1>3 DEF processVars, ProcessesInv, TurnsInv, CrowdInv, Placed, Passed, Settled, NoneStopped,
              Crowd!HandledBySameApp
<1> QED
  BY <1>1, <1>2, <1>3 DEF Next, InTurns, InCrowd, InCookies, InDownloads, Runs, vars

\* When all the processes of an application have started and none has stopped, one is an instance.
LEMMA CrowdRuns == CrowdInv => Crowd!SomeoneRuns
<1> SUFFICES ASSUME CrowdInv, NEW a \in Crowd!App,
                    \A p \in Of(a) : pc[p] \in {"initialized", "running", "wait for ack", "passed on", "failed"}
             PROVE  \E p \in Process :
                      Crowd!Live(p) /\ Crowd!ServerName(p) = Crowd!ServerName(CHOOSE q \in Of(a) : TRUE)
  BY DEF Crowd!SomeoneRuns, Of
<1>1. PICK p \in Of(a) : TRUE
  BY AppsAreNames DEF Of
<1>2. NoneStopped(a) /\ Settled(a)
  BY DEF NoneStopped, CrowdInv
<1>3. PICK q \in Of(a) : Crowd!Live(q)
  <2>1. CASE pc[p] \in {"initialized", "running"}
    BY <2>1 DEF Crowd!Live
  <2>2. CASE pc[p] \in {"wait for ack", "passed on", "failed"}
    BY <1>2, <2>2 DEF Settled, Owners, Crowd!Live
  <2> QED
    BY <2>1, <2>2
<1>4. (CHOOSE r \in Of(a) : TRUE) \in Of(a)
  BY <1>1
<1> QED
  BY <1>3, <1>4, OwnPath DEF Of

\* InstancesRight (SingleInstanceManager): started one after the other, the processes of an
\* application have one instance, that is found at its path; started together they have one at
\* least unless one has stopped, and arguments are handled by the application they are for.
THEOREM InstancesStayRight == FairSpec => []InstancesRight
<1>1. ProcessesInv => InstancesRight
  <2>1. TurnsInv => Turns!OneInstance /\ Turns!Reachable
    BY OnePath DEF TurnsInv, Owners, Turns!OneInstance, Turns!Reachable, Turns!Live
  <2>2. CrowdInv => Crowd!HandledBySameApp
    BY DEF CrowdInv, Passed
  <2> QED
    BY <2>1, <2>2, CrowdRuns DEF ProcessesInv, InstancesRight
<1> QED
  BY <1>1, ProcessesInitInv, ProcessesStep, PTL DEF FairSpec
-----------------------------------------------------------------------------
(* The move of the cookies of an account *)

Hosts == {"a", "b"}
CookieTypes ==
  /\ pending \in [Store -> SUBSET Hosts] /\ failed \in [Store -> SUBSET Cookie]
  /\ requests \subseteq [store : Store, host : Hosts, cookies : SUBSET Cookie]
  /\ queued \in Seq([store : Store, fails : SUBSET Cookie])
  /\ connections \in [Store -> 0 .. 1] /\ moves \in [Store -> 0 .. 1] /\ moved \in [Store -> Seq(BOOLEAN)]
  /\ given \in [Store -> SUBSET Cookie] /\ jar \in [Store -> SUBSET Cookie]

\* A store is not asked yet, waits for the answers about some of the cookies (the others are set, or
\* have failed), has its failure queued, or has told what there is to tell.
Untouched(s) == moves[s] = 0 => pending[s] = {} /\ connections[s] = 0 /\ moved[s] = <<>> /\ given[s] = {}
Moving(s) == moves[s] = 1 /\ connections[s] = 1 /\ moved[s] = <<>>
Waiting(s) == pending[s] # {} =>
  /\ Moving(s)
  /\ failed[s] \cup jar[s] = {c \in given[s] : MCHostOf[c] \notin pending[s]}
  /\ failed[s] \cap jar[s] = {}
Told(s) == moved[s] # <<>> =>
  /\ moves[s] = 1 /\ pending[s] = {} /\ Len(moved[s]) = 1
  /\ given[s] # {} => (moved[s][1] <=> given[s] \subseteq jar[s])
Asked(r) == r.host \in pending[r.store] /\ r.cookies = {c \in given[r.store] : MCHostOf[c] = r.host}
Refused(q) == Moving(q.store) /\ pending[q.store] = {} /\ q.fails = given[q.store] /\ jar[q.store] = {}

CookiesInv ==
  /\ CookieTypes
  /\ \A s \in Store : Untouched(s) /\ Waiting(s) /\ Told(s)
  /\ \A r \in requests : Asked(r)
  /\ \A i \in DOMAIN queued : Refused(queued[i])
  /\ \A i, j \in DOMAIN queued : queued[i].store = queued[j].store => i = j

LEMMA CookiesInitInv == Cookies!Init => CookiesInv
BY DEF Cookies!Init, CookiesInv, CookieTypes, Untouched, Waiting, Told

\* What is announced once.
LEMMA OneCopy ==
  ASSUME NEW b \in BOOLEAN
  PROVE  <<>> \o Cookies!Copies(b, 1) = <<b>>
<1> DEFINE f == [i \in 1 .. 1 |-> b]
<1>1. f \in Seq(BOOLEAN) /\ Len(f) = 1 /\ f[1] = b
  OBVIOUS
<1> HIDE DEF f
<1>2. <<>> \o f = <<b>>
  BY <1>1
<1> QED
  BY <1>2 DEF f, Cookies!Copies

LEMMA QueueType ==
  ASSUME CookiesInv, NEW i \in DOMAIN queued
  PROVE  queued[i] \in [store : Store, fails : SUBSET Cookie] /\ queued[i].store \in Store
<1> DEFINE Entry == [store : Store, fails : SUBSET Cookie]
<1>1. queued \in Seq(Entry)
  BY DEF CookiesInv, CookieTypes
<1> HIDE DEF Entry
<1>2. queued[i] \in Entry
  BY <1>1
<1> QED
  BY <1>2 DEF Entry

\* A store that a step leaves alone.
LEMMA StoreStays ==
  ASSUME NEW s \in Store, Untouched(s) /\ Waiting(s) /\ Told(s),
         pending'[s] = pending[s], failed'[s] = failed[s], connections'[s] = connections[s],
         moves'[s] = moves[s], moved'[s] = moved[s], given'[s] = given[s], jar'[s] = jar[s]
  PROVE  Untouched(s)' /\ Waiting(s)' /\ Told(s)'
BY DEF Untouched, Waiting, Told, Moving

LEMMA AnswerStep ==
  ASSUME CookiesInv, NEW r \in requests, NEW fails \in SUBSET r.cookies, Cookies!Answer(r, fails)
  PROVE  CookiesInv'
<1> DEFINE s == r.store
           left == pending[s] \ {r.host}
           bad == failed[s] \cup fails
<1>1. /\ s \in Store /\ r.host \in pending[s] /\ r.cookies = {c \in given[s] : MCHostOf[c] = r.host}
      /\ moves[s] = 1 /\ connections[s] = 1 /\ moved[s] = <<>>
      /\ failed[s] \cup jar[s] = {c \in given[s] : MCHostOf[c] \notin pending[s]}
      /\ failed[s] \cap jar[s] = {}
  <2>1. s \in Store /\ r.host \in pending[s] /\ r.cookies = {c \in given[s] : MCHostOf[c] = r.host}
    BY DEF CookiesInv, CookieTypes, Asked
  <2>2. Waiting(s) /\ pending[s] # {}
    BY <2>1 DEF CookiesInv
  <2> QED
    BY <2>1, <2>2 DEF Waiting, Moving
<1>2. /\ requests' = requests \ {r} /\ UNCHANGED <<queued, connections, moves, given>>
      /\ jar' = [jar EXCEPT ![s] = @ \cup (r.cookies \ fails)]
      /\ pending' = [t \in Store |-> IF t = s THEN left ELSE pending[t]]
  BY DEF Cookies!Answer, Cookies!CookiesUpdated
<1>3. {t \in Store : OwnBackend[t] = OwnBackend[s]} = {s}
  BY <1>1 DEF OwnBackend
<1>4. failed' = [t \in Store |-> IF t = s THEN bad ELSE failed[t]]
  BY <1>1, <1>3 DEF Cookies!Answer, Cookies!CookiesUpdated
<1>5. moved' = [t \in Store |-> IF t = s /\ pending'[t] = {}
                                THEN moved[t] \o Cookies!Copies(failed'[t] = {}, connections'[t]) ELSE moved[t]]
  BY <1>1, <1>3 DEF Cookies!Answer, Cookies!CookiesUpdated, Cookies!Announced
<1> HIDE DEF s, left, bad
<1>6. PICK b \in BOOLEAN : b <=> bad = {}
  OBVIOUS
<1>7. left = {} => moved'[s] = <<b>>
  <2> HAVE left = {}
  <2>1. pending'[s] = {} /\ failed'[s] = bad /\ connections'[s] = 1
    BY <1>1, <1>2, <1>4
  <2>2. moved'[s] = <<>> \o Cookies!Copies(bad = {}, 1)
    BY <1>1, <1>5, <2>1
  <2>3. (bad = {}) = b
    BY <1>6
  <2> QED
    BY <2>2, <2>3, OneCopy
<1>8. left # {} => moved'[s] = <<>>
  BY <1>1, <1>2, <1>5
<1>9. /\ pending'[s] = left /\ failed'[s] = bad /\ jar'[s] = jar[s] \cup (r.cookies \ fails)
      /\ given'[s] = given[s] /\ moves'[s] = 1 /\ connections'[s] = 1
  BY <1>1, <1>2, <1>4 DEF CookiesInv, CookieTypes
<1>10. \A t \in Store : t # s =>
         /\ pending'[t] = pending[t] /\ failed'[t] = failed[t] /\ connections'[t] = connections[t]
         /\ moves'[t] = moves[t] /\ moved'[t] = moved[t] /\ given'[t] = given[t] /\ jar'[t] = jar[t]
  BY <1>2, <1>4, <1>5 DEF CookiesInv, CookieTypes
<1>11. /\ bad \cup jar'[s] = {c \in given[s] : MCHostOf[c] \notin left}
       /\ bad \cap jar'[s] = {}
  BY <1>1, <1>9 DEF left, bad
<1>12. Untouched(s)' /\ Waiting(s)' /\ Told(s)'
  <2>1. CASE left # {}
    BY <1>8, <1>9, <1>11, <2>1 DEF Untouched, Waiting, Told, Moving
  <2>2. CASE left = {}
    <3>1. Len(moved'[s]) = 1 /\ moved'[s][1] = b
      BY <1>7, <2>2
    <3>2. bad \cup jar'[s] = given[s] /\ bad \cap jar'[s] = {}
      BY <1>11, <2>2
    <3>3. b <=> given[s] \subseteq jar'[s]
      BY <1>6, <3>2
    <3> QED
      BY <1>9, <2>2, <3>1, <3>3 DEF Untouched, Waiting, Told
  <2> QED
    BY <2>1, <2>2
<1>13. \A t \in Store : Untouched(t)' /\ Waiting(t)' /\ Told(t)'
  BY <1>10, <1>12, StoreStays DEF CookiesInv
<1>14. CookieTypes'
  <2>1. r.cookies \subseteq Cookie /\ bad \subseteq Cookie /\ left \subseteq Hosts
    BY <1>1 DEF CookiesInv, CookieTypes, bad, left
  <2>2. \A t \in Store : moved'[t] \in Seq(BOOLEAN)
    <3>1. <<b>> \in Seq(BOOLEAN) /\ <<>> \in Seq(BOOLEAN)
      OBVIOUS
    <3>2. moved'[s] \in Seq(BOOLEAN)
      BY <1>7, <1>8, <3>1
    <3> QED
      BY <1>10, <3>2 DEF CookiesInv, CookieTypes
  <2>3. moved' \in [Store -> Seq(BOOLEAN)]
    BY <1>5, <2>2
  <2> QED
    BY <1>2, <1>4, <2>1, <2>3 DEF CookiesInv, CookieTypes
<1>15. ASSUME NEW q \in requests' PROVE Asked(q)'
  <2>1. q \in requests /\ q # r /\ Asked(q) /\ q.store \in Store
    BY <1>2, <1>15 DEF CookiesInv, CookieTypes
  <2>2. CASE q.store = s
    <3>1. q.cookies = {c \in given[s] : MCHostOf[c] = q.host} /\ q.host \in pending[s]
      BY <2>1, <2>2 DEF Asked
    <3>2. q.host # r.host
      <4>1. q.host = r.host => q.cookies = r.cookies
        BY <1>1, <3>1
      <4>2. q = [store |-> q.store, host |-> q.host, cookies |-> q.cookies]
        BY <2>1 DEF CookiesInv, CookieTypes
      <4>3. r = [store |-> r.store, host |-> r.host, cookies |-> r.cookies]
        BY DEF CookiesInv, CookieTypes
      <4> QED
        BY <2>1, <2>2, <4>1, <4>2, <4>3 DEF s
    <3>3. q.host \in pending'[s]
      BY <1>9, <3>1, <3>2 DEF left
    <3> QED
      BY <1>9, <2>2, <3>1, <3>3 DEF Asked
  <2>3. CASE q.store # s
    BY <1>10, <2>1, <2>3 DEF Asked
  <2> QED
    BY <2>2, <2>3
<1>16. ASSUME NEW i \in DOMAIN queued' PROVE Refused(queued[i])'
  <2>1. i \in DOMAIN queued /\ Refused(queued[i]) /\ queued'[i] = queued[i]
    BY <1>2, <1>16 DEF CookiesInv
  <2>2. queued[i].store \in Store
    BY <2>1, QueueType
  <2>3. queued[i].store # s
    BY <1>1, <2>1 DEF Refused
  <2> QED
    BY <1>10, <2>1, <2>2, <2>3 DEF Refused, Moving
<1> QED
  BY <1>2, <1>13, <1>14, <1>15, <1>16 DEF CookiesInv
LEMMA DeliverStep ==
  ASSUME CookiesInv, Cookies!Deliver
  PROVE  CookiesInv'
<1>1. /\ queued # <<>> /\ queued' = Tail(queued) /\ Head(queued) = queued[1] /\ 1 \in DOMAIN queued
      /\ UNCHANGED <<pending, failed, requests, connections, moves, given, jar>>
      /\ queued \in Seq([store : Store, fails : SUBSET Cookie])
  BY DEF Cookies!Deliver, CookiesInv, CookieTypes
<1> PICK q : q = Head(queued)
  OBVIOUS
<1> PICK s : s = q.store
  OBVIOUS
<1>2. s \in Store /\ Refused(q)
  BY <1>1, QueueType DEF CookiesInv
<1>3. /\ moves[s] = 1 /\ connections[s] = 1 /\ moved[s] = <<>> /\ pending[s] = {}
      /\ q.fails = given[s] /\ jar[s] = {}
  BY <1>2 DEF Refused, Moving
<1>4. moved' = [moved EXCEPT ![s] = moved[s] \o Cookies!Copies(q.fails = {}, connections'[s])]
  BY DEF Cookies!Deliver, Cookies!Announced
<1>5. PICK b \in BOOLEAN : b <=> q.fails = {}
  OBVIOUS
<1>6. moved' = [moved EXCEPT ![s] = <<b>>]
  <2>1. (q.fails = {}) = b
    BY <1>5
  <2>2. moved' = [moved EXCEPT ![s] = <<>> \o Cookies!Copies(b, 1)]
    BY <1>1, <1>3, <1>4, <2>1
  <2> QED
    BY <2>2, OneCopy
<1>7. moved'[s] = <<b>> /\ \A t \in Store : t # s => moved'[t] = moved[t]
  BY <1>2, <1>6 DEF CookiesInv, CookieTypes
<1>8. Untouched(s)' /\ Waiting(s)' /\ Told(s)'
  <2>1. Len(moved'[s]) = 1 /\ moved'[s][1] = b
    BY <1>7
  <2>2. given[s] # {} => (b <=> given[s] \subseteq jar[s])
    BY <1>3, <1>5
  <2>3. pending'[s] = {} /\ moves'[s] = 1 /\ given'[s] = given[s] /\ jar'[s] = jar[s]
    BY <1>1, <1>3
  <2> QED
    BY <2>1, <2>2, <2>3 DEF Untouched, Waiting, Told
<1>9. \A t \in Store : Untouched(t)' /\ Waiting(t)' /\ Told(t)'
  <2> SUFFICES ASSUME NEW t \in Store PROVE Untouched(t)' /\ Waiting(t)' /\ Told(t)'
    OBVIOUS
  <2>1. CASE t = s
    BY <1>8, <2>1
  <2>2. CASE t # s
    <3>1. Untouched(t) /\ Waiting(t) /\ Told(t)
      BY DEF CookiesInv
    <3>2. /\ pending'[t] = pending[t] /\ failed'[t] = failed[t] /\ connections'[t] = connections[t]
          /\ moves'[t] = moves[t] /\ moved'[t] = moved[t] /\ given'[t] = given[t] /\ jar'[t] = jar[t]
      BY <1>1, <1>7, <2>2
    <3> QED
      BY <3>1, <3>2, StoreStays
  <2> QED
    BY <2>1, <2>2
<1>10. \A i \in DOMAIN queued' : i \in Nat /\ i + 1 \in DOMAIN queued /\ i + 1 # 1 /\ queued'[i] = queued[i + 1]
  BY <1>1
<1>11. ASSUME NEW i \in DOMAIN queued' PROVE Refused(queued[i])'
  <2>1. i + 1 \in DOMAIN queued /\ i + 1 # 1 /\ queued'[i] = queued[i + 1]
    BY <1>10
  <2>2. queued[i + 1].store \in Store /\ Refused(queued[i + 1])
    BY <2>1, QueueType DEF CookiesInv
  <2>3. queued[i + 1].store # s
    BY <1>1, <2>1 DEF CookiesInv
  <2>4. moved'[queued[i + 1].store] = moved[queued[i + 1].store]
    BY <1>7, <2>2, <2>3
  <2> QED
    BY <1>1, <2>1, <2>2, <2>4 DEF Refused, Moving
<1>12. \A i, j \in DOMAIN queued' : queued'[i].store = queued'[j].store => i = j
  <2> SUFFICES ASSUME NEW i \in DOMAIN queued', NEW j \in DOMAIN queued', queued'[i].store = queued'[j].store
               PROVE  i = j
    OBVIOUS
  <2>1. i + 1 \in DOMAIN queued /\ j + 1 \in DOMAIN queued /\ queued[i + 1].store = queued[j + 1].store
    BY <1>10
  <2>2. i + 1 = j + 1
    BY <2>1 DEF CookiesInv
  <2> QED
    BY <1>10, <2>2
<1>13. CookieTypes'
  <2>1. queued' \in Seq([store : Store, fails : SUBSET Cookie])
    BY <1>1
  <2>2. <<b>> \in Seq(BOOLEAN)
    OBVIOUS
  <2>3. moved' \in [Store -> Seq(BOOLEAN)]
    BY <1>6, <2>2 DEF CookiesInv, CookieTypes
  <2> QED
    BY <1>1, <2>1, <2>3 DEF CookiesInv, CookieTypes
<1>14. \A r \in requests' : Asked(r)'
  BY <1>1 DEF CookiesInv, Asked
<1> QED
  BY <1>9, <1>11, <1>12, <1>13, <1>14 DEF CookiesInv
\* A move that is refused because the cookies of the account are older.
LEMMA OlderStep ==
  ASSUME CookiesInv, NEW s \in Store, moves[s] = 0, moves' = [moves EXCEPT ![s] = 1],
         moved' = [moved EXCEPT ![s] = Append(@, FALSE)],
         UNCHANGED <<pending, failed, requests, queued, connections, given, jar>>
  PROVE  CookiesInv'
<1>1. pending[s] = {} /\ moved[s] = <<>> /\ given[s] = {}
  BY DEF CookiesInv, Untouched
<1>2. /\ moved' = [moved EXCEPT ![s] = <<FALSE>>] /\ <<FALSE>> \in Seq(BOOLEAN)
      /\ Len(<<FALSE>>) = 1 /\ <<FALSE>>[1] = FALSE /\ moved'[s] = <<FALSE>> /\ moves'[s] = 1
  <2>1. Append(<<>>, FALSE) = <<FALSE>> /\ <<FALSE>> \in Seq(BOOLEAN)
    OBVIOUS
  <2>2. moved' = [moved EXCEPT ![s] = <<FALSE>>]
    BY <1>1, <2>1
  <2> QED
    BY <2>1, <2>2 DEF CookiesInv, CookieTypes
<1>3. \A t \in Store : t # s => moved'[t] = moved[t] /\ moves'[t] = moves[t]
  BY DEF CookiesInv, CookieTypes
<1>4. \A t \in Store : Untouched(t)' /\ Waiting(t)' /\ Told(t)'
  <2> SUFFICES ASSUME NEW t \in Store PROVE Untouched(t)' /\ Waiting(t)' /\ Told(t)'
    OBVIOUS
  <2>1. CASE t = s
    BY <1>1, <1>2, <2>1 DEF Untouched, Waiting, Told
  <2>2. CASE t # s
    <3>1. Untouched(t) /\ Waiting(t) /\ Told(t)
      BY DEF CookiesInv
    <3> QED
      BY <1>3, <2>2, <3>1, StoreStays
  <2> QED
    BY <2>1, <2>2
<1>5. \A i \in DOMAIN queued : queued[i].store # s /\ queued[i].store \in Store
  BY QueueType DEF CookiesInv, Refused, Moving
<1>6. \A i \in DOMAIN queued' : Refused(queued[i])'
  <2> SUFFICES ASSUME NEW i \in DOMAIN queued PROVE Refused(queued[i])'
    OBVIOUS
  <2>1. moves'[queued[i].store] = moves[queued[i].store] /\ moved'[queued[i].store] = moved[queued[i].store]
    BY <1>3, <1>5
  <2>2. Refused(queued[i])
    BY DEF CookiesInv
  <2> QED
    BY <2>1, <2>2 DEF Refused, Moving
<1>7. \A r \in requests' : Asked(r)'
  BY DEF CookiesInv, Asked
<1>8. CookieTypes'
  BY <1>2 DEF CookiesInv, CookieTypes
<1> QED
  BY <1>4, <1>6, <1>7, <1>8 DEF CookiesInv

\* A move: the helper has asked for the cookies of the hosts calls, or all have been refused.
LEMMA ReceivedStep ==
  ASSUME CookiesInv, NEW s \in Store, moves[s] = 0, moves' = [moves EXCEPT ![s] = 1], UNCHANGED moved,
         NEW C \in SUBSET Cookie, NEW refused \in SUBSET Cookies!HostsOf(C),
         Cookies!CookiesReceived(s, C, refused)
  PROVE  CookiesInv'
<1> DEFINE calls == Cookies!HostsOf(C) \ refused
           fails == {c \in C : MCHostOf[c] \in refused}
           asked == {[store |-> s, host |-> h, cookies |-> {c \in C : MCHostOf[c] = h}] : h \in calls}
           entry == [store |-> s, fails |-> fails]
<1>1. pending[s] = {} /\ moved[s] = <<>> /\ connections[s] = 0
  BY DEF CookiesInv, Untouched
<1>2. /\ connections' = [connections EXCEPT ![s] = @ + 1] /\ failed' = [failed EXCEPT ![s] = fails]
      /\ pending' = [pending EXCEPT ![s] = calls] /\ requests' = requests \cup asked
      /\ queued' = IF calls = {} THEN Append(queued, entry) ELSE queued
      /\ given' = [given EXCEPT ![s] = C] /\ jar' = [jar EXCEPT ![s] = {}]
  BY <1>1 DEF Cookies!CookiesReceived, Cookies!Busy, Cookies!SetCookies
<1>3. \A c \in C : MCHostOf[c] \in calls <=> c \notin fails
  BY DEF Cookies!HostsOf
<1>4. calls \subseteq Hosts
  BY DEF Cookies!HostsOf, Hosts, MCHostOf
<1>5. asked \subseteq [store : Store, host : Hosts, cookies : SUBSET Cookie]
  BY <1>4
<1>6. \A r \in asked : r.store = s /\ r.host \in calls /\ r.cookies = {c \in C : MCHostOf[c] = r.host}
  OBVIOUS
<1>7. fails \subseteq C /\ entry \in [store : Store, fails : SUBSET Cookie] /\ entry.store = s /\ entry.fails = fails
  OBVIOUS
<1>8. calls = {} => fails = C
  BY <1>3
<1> HIDE DEF calls, fails, asked, entry
<1>9. /\ connections'[s] = 1 /\ failed'[s] = fails /\ pending'[s] = calls /\ given'[s] = C /\ jar'[s] = {}
      /\ moves'[s] = 1 /\ moved'[s] = <<>>
  BY <1>1, <1>2 DEF CookiesInv, CookieTypes
<1>10. \A t \in Store : t # s =>
         /\ pending'[t] = pending[t] /\ failed'[t] = failed[t] /\ connections'[t] = connections[t]
         /\ moves'[t] = moves[t] /\ moved'[t] = moved[t] /\ given'[t] = given[t] /\ jar'[t] = jar[t]
  BY <1>2 DEF CookiesInv, CookieTypes
<1>11. \A t \in Store : Untouched(t)' /\ Waiting(t)' /\ Told(t)'
  <2> SUFFICES ASSUME NEW t \in Store PROVE Untouched(t)' /\ Waiting(t)' /\ Told(t)'
    OBVIOUS
  <2>1. CASE t = s
    <3>1. fails \cup {} = {c \in C : MCHostOf[c] \notin calls} /\ fails \cap {} = {}
      BY <1>3, <1>7
    <3> QED
      BY <1>9, <2>1, <3>1 DEF Untouched, Waiting, Told, Moving
  <2>2. CASE t # s
    <3>1. Untouched(t) /\ Waiting(t) /\ Told(t)
      BY DEF CookiesInv
    <3> QED
      BY <1>10, <2>2, <3>1, StoreStays
  <2> QED
    BY <2>1, <2>2
<1>12. ASSUME NEW r \in requests' PROVE Asked(r)'
  <2>1. CASE r \in asked
    BY <1>6, <1>9, <2>1 DEF Asked
  <2>2. CASE r \in requests
    <3>1. Asked(r) /\ r.store \in Store
      BY <2>2 DEF CookiesInv, CookieTypes
    <3>2. r.store # s
      BY <1>1, <3>1 DEF Asked
    <3> QED
      BY <1>10, <3>1, <3>2 DEF Asked
  <2> QED
    BY <1>2, <1>12, <2>1, <2>2
<1>13. \A i \in DOMAIN queued : queued[i].store # s /\ queued[i].store \in Store
  BY QueueType DEF CookiesInv, Refused, Moving
<1>14. ASSUME NEW q, Refused(q), q.store \in Store \ {s} PROVE Refused(q)'
  BY <1>10, <1>14 DEF Refused, Moving
<1>15. calls = {} => Refused(entry)'
  BY <1>7, <1>8, <1>9 DEF Refused, Moving
<1>16. queued \in Seq([store : Store, fails : SUBSET Cookie])
  BY DEF CookiesInv, CookieTypes
<1>17. \A i \in DOMAIN queued' : \/ i \in DOMAIN queued /\ queued'[i] = queued[i]
                                 \/ i = Len(queued) + 1 /\ queued'[i] = entry /\ calls = {}
  <2>1. CASE calls = {}
    <3>1. queued' = Append(queued, entry)
      BY <1>2, <2>1
    <3> QED
      BY <1>7, <1>16, <2>1, <3>1
  <2>2. CASE calls # {}
    BY <1>2, <2>2
  <2> QED
    BY <2>1, <2>2
<1>18. ASSUME NEW i \in DOMAIN queued' PROVE Refused(queued[i])'
  <2>1. CASE i \in DOMAIN queued /\ queued'[i] = queued[i]
    <3>1. Refused(queued[i]) /\ queued[i].store \in Store \ {s}
      BY <1>13, <2>1 DEF CookiesInv
    <3> QED
      BY <1>10, <2>1, <3>1 DEF Refused, Moving
  <2>2. CASE queued'[i] = entry /\ calls = {}
    BY <1>7, <1>8, <1>9, <2>2 DEF Refused, Moving
  <2> QED
    BY <1>17, <1>18, <2>1, <2>2
<1>19. \A i, j \in DOMAIN queued' : queued'[i].store = queued'[j].store => i = j
  <2> SUFFICES ASSUME NEW i \in DOMAIN queued', NEW j \in DOMAIN queued', queued'[i].store = queued'[j].store
               PROVE  i = j
    OBVIOUS
  <2>1. CASE i \in DOMAIN queued /\ j \in DOMAIN queued
    <3>1. queued[i].store = queued[j].store
      BY <1>17, <2>1, <1>16
    <3> QED
      BY <2>1, <3>1 DEF CookiesInv
  <2>2. CASE i \notin DOMAIN queued /\ j \notin DOMAIN queued
    BY <1>17, <2>2
  <2>3. CASE i \in DOMAIN queued /\ j \notin DOMAIN queued
    BY <1>7, <1>13, <1>17, <1>16, <2>3
  <2>4. CASE i \notin DOMAIN queued /\ j \in DOMAIN queued
    BY <1>7, <1>13, <1>17, <1>16, <2>4
  <2> QED
    BY <2>1, <2>2, <2>3, <2>4
<1>20. CookieTypes'
  <2>1. queued' \in Seq([store : Store, fails : SUBSET Cookie])
    <3>1. Append(queued, entry) \in Seq([store : Store, fails : SUBSET Cookie])
      <4> DEFINE Entry == [store : Store, fails : SUBSET Cookie]
      <4>1. entry \in Entry /\ queued \in Seq(Entry)
        BY <1>7, <1>16
      <4> HIDE DEF Entry
      <4>2. Append(queued, entry) \in Seq(Entry)
        BY <4>1
      <4> QED
        BY <4>2 DEF Entry
    <3>2. queued' = queued \/ queued' = Append(queued, entry)
      BY <1>2
    <3> QED
      BY <1>16, <3>1, <3>2
  <2>2. requests' \subseteq [store : Store, host : Hosts, cookies : SUBSET Cookie]
    BY <1>2, <1>5 DEF CookiesInv, CookieTypes
  <2>3. connections' = [connections EXCEPT ![s] = 1]
    BY <1>1, <1>2
  <2>4. fails \in SUBSET Cookie
    BY <1>7
  <2> QED
    BY <1>2, <1>4, <2>1, <2>2, <2>3, <2>4 DEF CookiesInv, CookieTypes
<1> QED
  BY <1>11, <1>12, <1>18, <1>19, <1>20 DEF CookiesInv

LEMMA CookiesStep ==
  ASSUME CookiesInv, Cookies!Next
  PROVE  CookiesInv'
<1>1. CASE Cookies!SomeMove
  <2>1. PICK s \in Store, reply \in Cookies!Reply \cup {Cookies!Error}, local \in Cookies!Times :
          \E refused \in SUBSET Cookies!HostsOf(reply.cookies) : Cookies!MoveFrom(s, reply, local, refused)
    BY <1>1 DEF Cookies!SomeMove
  <2>2. PICK refused \in SUBSET Cookies!HostsOf(reply.cookies) : Cookies!MoveFrom(s, reply, local, refused)
    BY <2>1
  <2>3. reply.cookies \in SUBSET Cookie
    BY DEF Cookies!Reply, Cookies!Error
  <2>4. moves[s] = 0 /\ moves' = [moves EXCEPT ![s] = 1]
    <3>1. moves[s] < 1 /\ moves' = [moves EXCEPT ![s] = @ + 1]
      BY <2>2 DEF Cookies!MoveFrom
    <3>2. moves[s] \in 0 .. 1
      BY DEF CookiesInv, CookieTypes
    <3>3. moves[s] = 0
      BY <3>1, <3>2
    <3> QED
      BY <3>1, <3>3
  <2>5. CASE Cookies!Older(reply.time, local)
    BY <2>2, <2>4, <2>5, OlderStep DEF Cookies!MoveFrom
  <2>6. CASE ~Cookies!Older(reply.time, local)
    <3>1. Cookies!CookiesReceived(s, reply.cookies, refused) /\ UNCHANGED moved
      BY <2>2, <2>6 DEF Cookies!MoveFrom
    <3> QED
      BY <2>3, <2>4, <3>1, ReceivedStep
  <2> QED
    BY <2>5, <2>6
<1>2. CASE Cookies!SomeAnswer
  BY <1>2, AnswerStep DEF Cookies!SomeAnswer
<1>3. CASE Cookies!Deliver
  BY <1>3, DeliverStep
<1> QED
  BY <1>1, <1>2, <1>3 DEF Cookies!Next

LEMMA MovesStep == CookiesInv /\ [Next]_vars => CookiesInv'
<1> SUFFICES ASSUME CookiesInv, [Next]_vars PROVE CookiesInv'
  OBVIOUS
<1>1. CASE Cookies!Next
  BY <1>1, CookiesStep
<1>2. CASE UNCHANGED cookieVars
  BY <1>2 DEF cookieVars, CookiesInv, CookieTypes, Untouched, Waiting, Told, Moving, Asked, Refused
<1> QED
  BY <1>1, <1>2 DEF Next, InTurns, InCrowd, InCookies, InDownloads, vars

\* MovedTruthfully (CookieStore, OxideCookieHelper): a move is announced once, and as a success when
\* and only when the engine has stored every cookie, whatever is refused or fails.
THEOREM MovesStayTruthful == FairSpec => []MovedTruthfully
<1>1. CookiesInv => MovedTruthfully
  <2> SUFFICES ASSUME CookiesInv PROVE MovedTruthfully
    OBVIOUS
  <2>1. Cookies!MovedMeansSet
    BY DEF CookiesInv, Told, Cookies!MovedMeansSet
  <2>2. ASSUME NEW s \in Store PROVE Len(moved[s]) <= moves[s]
    <3>1. moves[s] \in 0 .. 1 /\ Told(s)
      BY DEF CookiesInv, CookieTypes
    <3>2. moved[s] # <<>> => Len(moved[s]) = 1 /\ moves[s] = 1
      BY <3>1 DEF Told
    <3>3. CASE moved[s] = <<>>
      <4>1. Len(moved[s]) = 0 /\ 0 <= moves[s]
        BY <3>1, <3>3
      <4> QED
        BY <4>1
    <3>4. CASE moved[s] # <<>>
      <4>1. Len(moved[s]) = 1 /\ moves[s] = 1
        BY <3>2, <3>4
      <4> QED
        BY <4>1
    <3> QED
      BY <3>3, <3>4
  <2> QED
    BY <2>1, <2>2 DEF MovedTruthfully, Cookies!OncePerMove
<1>2. Init => CookiesInv
  BY CookiesInitInv DEF Init
<1> QED
  BY <1>1, <1>2, MovesStep, PTL DEF FairSpec
=============================================================================
