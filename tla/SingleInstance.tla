---------------------------- MODULE SingleInstance ----------------------------
(***************************************************************************)
(* One instance of each application (single-instance-manager.cpp), with    *)
(* what BrowserApplication::initialize and WebbrowserApp do of it.         *)
(*                                                                         *)
(* A process is started once and runs SingleInstanceManager::run.  The     *)
(* server is a socket in the file system: binding it creates the file (and *)
(* fails when there is one), a connection is refused until it listens and  *)
(* after its process has crashed, and closing the server removes the file  *)
(* of that name, whose ever it is.  The kernel accepts the connection and  *)
(* the message of a starter however busy the running process is.           *)
(***************************************************************************)
EXTENDS Naturals, Sequences, FiniteSets

CONSTANTS Process,
          AppOf,       \* the application each process is an instance of
          LongNames,   \* applications whose names are too long for a socket
          NoFile, Stale, Short,
          Overlap,     \* can a process be started while another one is starting?
          Crashes      \* can a process crash?

App == {AppOf[p] : p \in Process}

\* The socket is in the profile of the application, or of the package when that is too long.
ServerName(p) == IF AppOf[p] \in LongNames THEN Short ELSE AppOf[p]
Names == {ServerName(p) : p \in Process}

VARIABLES pc,        \* how far each process is
          file,      \* the socket at each path: its process, Stale, or NoFile
          inbox,     \* the connections to the server of a process that it has not read; they
                     \* are lost when it stops
          handled    \* the messages handled: <<who sent it, who handled it>>

vars == <<pc, file, inbox, handled>>

Init == /\ pc = [p \in Process |-> "off"]
        /\ file \in [Names -> {NoFile, Stale}]   \* an instance has crashed before
        /\ inbox = [p \in Process |-> <<>>]
        /\ handled = {}

-----------------------------------------------------------------------------

Starting == {"listen", "bound", "connect", "recover", "listen again", "bound again"}
Goes(p, to) == pc' = [pc EXCEPT ![p] = to]
FileIs(p, x) == file' = [file EXCEPT ![ServerName(p)] = x]
Listens(q) == q \in Process /\ pc[q] \in {"running", "initialized"}

Start(p) == /\ pc[p] = "off"
            /\ Overlap \/ \A q \in Process : pc[q] \notin Starting
            /\ Goes(p, "listen")
            /\ UNCHANGED <<file, inbox, handled>>

Bind(p, from, to, otherwise) ==
  /\ pc[p] = from
  /\ IF file[ServerName(p)] = NoFile
     THEN Goes(p, to) /\ FileIs(p, p)
     ELSE Goes(p, otherwise) /\ UNCHANGED file
  /\ UNCHANGED <<inbox, handled>>

FirstListen(p) == Bind(p, "listen", "bound", "connect")

\* The bound socket listens; run() returns true.
Listen(p) == /\ pc[p] \in {"bound", "bound again"}
             /\ Goes(p, "initialized")
             /\ UNCHANGED <<file, inbox, handled>>

ConnectMut(p) ==   \* mutant: an instance that does not answer at once is taken for crashed
  /\ pc[p] = "connect"
  /\ Goes(p, "recover")
  /\ UNCHANGED <<file, inbox, handled>>

\* The arguments are passed to the server that is found at the path.
Connect(p) == /\ pc[p] = "connect"
              /\ LET q == file[ServerName(p)]
                 IN IF Listens(q)
                    THEN Goes(p, "wait for ack") /\ inbox' = [inbox EXCEPT ![q] = Append(@, p)]
                    ELSE Goes(p, "recover") /\ UNCHANGED inbox
              /\ UNCHANGED <<file, handled>>

\* Nothing listens there: the process is assumed to have crashed.
RemoveServer(p) == /\ pc[p] = "recover"
                   /\ Goes(p, "listen again") /\ FileIs(p, NoFile)
                   /\ UNCHANGED <<inbox, handled>>

SecondListen(p) == Bind(p, "listen again", "bound again", "failed")

\* The process has its acknowledgement, or has waited for a second.
WaitIsOver(p) == /\ pc[p] = "wait for ack"
                 /\ Goes(p, "passed on")
                 /\ UNCHANGED <<file, inbox, handled>>

\* The engine and the component are loaded; if that fails the application ends.
Initialize(p) == /\ pc[p] = "initialized"
                 /\ \/ Goes(p, "running") /\ UNCHANGED file
                    \/ Goes(p, "stopped") /\ FileIs(p, NoFile)
                 /\ UNCHANGED <<inbox, handled>>

OnReadyReadMut(q) ==   \* mutant: what a process that is gone has written is dropped
  /\ pc[q] = "running" /\ inbox[q] # <<>>
  /\ inbox' = [inbox EXCEPT ![q] = Tail(@)]
  /\ handled' = IF pc[Head(inbox[q])] = "wait for ack" THEN handled \cup {<<Head(inbox[q]), q>>} ELSE handled
  /\ UNCHANGED <<pc, file>>

\* A connection is read by the event loop, whether the other process still waits or not.
OnReadyRead(q) == /\ pc[q] = "running" /\ inbox[q] # <<>>
                  /\ inbox' = [inbox EXCEPT ![q] = Tail(@)]
                  /\ handled' = handled \cup {<<Head(inbox[q]), q>>}
                  /\ UNCHANGED <<pc, file>>

Quit(p) == /\ pc[p] = "running"
           /\ Goes(p, "stopped") /\ FileIs(p, NoFile)
           /\ UNCHANGED <<inbox, handled>>

Crash(p) == /\ Crashes /\ pc[p] \in Starting \cup {"initialized", "running"}
            /\ Goes(p, "stopped")
            /\ file' = [n \in Names |-> IF file[n] = p THEN Stale ELSE file[n]]
            /\ UNCHANGED <<inbox, handled>>

Run(p) == \/ FirstListen(p) \/ Listen(p) \/ Connect(p) \/ RemoveServer(p) \/ SecondListen(p)
          \/ WaitIsOver(p) \/ Initialize(p) \/ OnReadyRead(p)

Next == \E p \in Process : Start(p) \/ Run(p) \/ Quit(p) \/ Crash(p)

\* A process that is started runs, and its event loop handles what comes.
FairSpec == Init /\ [][Next]_vars /\ \A p \in Process : WF_vars(Run(p))

-----------------------------------------------------------------------------
(* Properties *)

Live(p) == pc[p] \in {"initialized", "running"}

\* "Ensure only one instance of the app is running."
OneInstance == \A p, q \in Process : Live(p) /\ Live(q) /\ AppOf[p] = AppOf[q] => p = q

\* A running instance can be reached: its socket is at the path, so that one that starts
\* neither replaces it nor talks to another one.
Reachable == \A p \in Process : Live(p) => file[ServerName(p)] = p

\* "those apps are not considered the same instance": what a process is given on its command
\* line is handled by an instance of the same application.
HandledBySameApp == \A h \in handled : AppOf[h[1]] = AppOf[h[2]]

\* However many start together, and whoever removes whose socket: unless an instance has
\* stopped, an application that all of its processes have tried to start runs.
SomeoneRuns == \A a \in App :
  LET of == {p \in Process : AppOf[p] = a}
  IN (\A p \in of : pc[p] \in {"initialized", "running", "wait for ack", "passed on", "failed"})
       => \E p \in Process : Live(p) /\ ServerName(p) = ServerName(CHOOSE q \in of : TRUE)

\* What is passed on to an instance is handled by it in the end, even when it is too late for
\* the process that passes it on and whatever other instances do, unless that very instance
\* stops.
Lost(p, q) == pc[q] = "stopped" /\ \E i \in DOMAIN inbox[q] : inbox[q][i] = p
ArgumentsHandled == \A p \in Process :
  pc[p] = "wait for ack" ~> \E q \in Process : <<p, q>> \in handled \/ Lost(p, q)

\* Starting comes to an end.
StartEnds == \A p \in Process : pc[p] \in Starting ~> pc[p] \notin Starting
=============================================================================
