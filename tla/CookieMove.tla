------------------------------ MODULE CookieMove ------------------------------
(***************************************************************************)
(* Moving the cookies of an online account to the web engine: AccountsLogic*)
(* creates a CookieStore (chrome-cookie-store.cpp) for the context of the  *)
(* account, which asks online-accounts-cookie-store.cpp for the cookies    *)
(* (over D-Bus, waiting for the reply) and sets them with a helper         *)
(* (oxide-cookie-helper.cpp): one request per host, answered in any order. *)
(*                                                                         *)
(* The engine, its cookies and the service of the accounts are external.   *)
(***************************************************************************)
EXTENDS Naturals, Sequences, FiniteSets, Functions

CONSTANTS Store,       \* the stores, each with its helper
          Cookie, HostOf,
          BackendOf,   \* the cookie manager each store is given
          MaxMoves     \* bound: moves to one store

NoTime == 0   \* an invalid time stamp
Times == 0 .. 2
Reply == [cookies : SUBSET Cookie, time : Times]

VARIABLES pending,     \* m_pendingCalls: the hosts of the requests of each helper
          failed,      \* m_failedCookies
          requests,    \* the requests a cookie manager has not answered: whose, and for which host
          queued,      \* the signals cookiesSet that are queued: whose, and the cookies that failed
          connections, \* how often cookiesSet is connected to moved
          moves,       \* calls of moveFrom
          moved,       \* the results that moved() has announced
          given, jar   \* the cookies last given to each helper, and those the engine has stored

vars == <<pending, failed, requests, queued, connections, moves, moved, given, jar>>

Init == /\ pending = [s \in Store |-> {}] /\ failed = [s \in Store |-> {}]
        /\ requests = {} /\ queued = <<>>
        /\ connections = [s \in Store |-> 0] /\ moves = [s \in Store |-> 0]
        /\ moved = [s \in Store |-> <<>>]
        /\ given = [s \in Store |-> {}] /\ jar = [s \in Store |-> {}]

-----------------------------------------------------------------------------

Copies(x, n) == [i \in 1 .. n |-> x]
\* ChromeCookieStore::oxideCookiesUpdated emits cookiesSet, and that emits moved.
Announced(s, log, fails) == log[s] \o Copies(fails = {}, connections'[s])

HostsOf(C) == {HostOf[c] : c \in C}

\* OxideCookieHelper::setCookies.  Of some hosts the request is refused at once.
SetCookies(s, C, refused) ==
  LET calls == HostsOf(C) \ refused
      fails == {c \in C : HostOf[c] \in refused}
  IN /\ failed' = [failed EXCEPT ![s] = fails]
     /\ pending' = [pending EXCEPT ![s] = calls]
     /\ requests' = requests \cup {[store |-> s, host |-> h, cookies |-> {c \in C : HostOf[c] = h}] : h \in calls}
     /\ queued' = IF calls = {} THEN Append(queued, [store |-> s, fails |-> fails]) ELSE queued
     /\ given' = [given EXCEPT ![s] = C] /\ jar' = [jar EXCEPT ![s] = {}]

Busy(s) == pending[s] # {}

\* The cookies of the account are older than those of the store.
Older(remote, local) == remote # NoTime /\ local # NoTime /\ remote < local

CookiesReceivedMut(s, C, refused) ==   \* mutant: cookiesSet is connected after the call
  /\ SetCookies(s, C, refused)
  /\ UNCHANGED connections

\* CookieStore::cookiesReceived goes on: a call in progress makes setCookies do nothing.
CookiesReceived(s, C, refused) ==
  /\ connections' = [connections EXCEPT ![s] = @ + 1]
  /\ IF Busy(s) THEN UNCHANGED <<failed, pending, requests, queued, given, jar>>
     ELSE SetCookies(s, C, refused)

\* CookieStore::moveFrom with a reply of the accounts, or with an error, which is no cookies.
MoveFrom(s, reply, local, refused) ==
  /\ moves[s] < MaxMoves /\ refused \subseteq HostsOf(reply.cookies)
  /\ moves' = [moves EXCEPT ![s] = @ + 1]
  /\ IF Older(reply.time, local)
     THEN /\ moved' = [moved EXCEPT ![s] = Append(@, FALSE)]
          /\ UNCHANGED <<pending, failed, requests, queued, connections, given, jar>>
     ELSE /\ CookiesReceived(s, reply.cookies, refused)
          /\ UNCHANGED moved

Error == [cookies |-> {}, time |-> NoTime]

CookiesUpdatedMut(r, fails) ==   \* mutant: each answer is announced
  /\ pending' = [s \in Store |-> IF s = r.store THEN pending[s] \ {r.host} ELSE pending[s]]
  /\ failed' = [failed EXCEPT ![r.store] = @ \cup fails]
  /\ moved' = [moved EXCEPT ![r.store] = Announced(r.store, moved, failed'[r.store])]

\* oxideCookiesUpdated, in every helper that has the cookie manager: a helper that waits for
\* nothing announces what it announced before.
CookiesUpdated(r, fails) ==
  LET hears == {s \in Store : BackendOf[s] = BackendOf[r.store]}
  IN /\ pending' = [s \in Store |-> IF s = r.store THEN pending[s] \ {r.host} ELSE pending[s]]
     /\ failed' = [s \in Store |-> IF s \in hears THEN failed[s] \cup fails ELSE failed[s]]
     /\ moved' = [s \in Store |-> IF s \in hears /\ pending'[s] = {} THEN Announced(s, moved, failed'[s])
                                                                      ELSE moved[s]]

\* The cookie manager answers a request, with the cookies that it could not set.
Answer(r, fails) ==
  /\ fails \subseteq r.cookies
  /\ requests' = requests \ {r}
  /\ jar' = [jar EXCEPT ![r.store] = @ \cup (r.cookies \ fails)]
  /\ UNCHANGED <<queued, connections, moves, given>>
  /\ CookiesUpdated(r, fails)

\* The event loop delivers a cookiesSet that setCookies has queued.
Deliver == /\ queued # <<>>
           /\ queued' = Tail(queued)
           /\ UNCHANGED <<pending, failed, requests, connections, moves, given, jar>>
           /\ LET q == Head(queued) IN moved' = [moved EXCEPT ![q.store] = Announced(q.store, moved, q.fails)]

SomeAnswer == \E r \in requests : \E fails \in SUBSET r.cookies : Answer(r, fails)
SomeMove == \E s \in Store, reply \in Reply \cup {Error}, local \in Times :
              \E refused \in SUBSET HostsOf(reply.cookies) : MoveFrom(s, reply, local, refused)

Next == SomeMove \/ SomeAnswer \/ Deliver

\* The event loop runs, and a cookie manager answers.
FairSpec == Init /\ [][Next]_vars /\ WF_vars(Deliver) /\ WF_vars(SomeAnswer)

-----------------------------------------------------------------------------
(* Properties *)

\* The cookies have been moved, says moved(true), when all of them are with the engine; and
\* moved(false) for cookies that it has been given when one of them is not.
MovedMeansSet == \A s \in Store :
  moved[s] # <<>> /\ given[s] # {} /\ moves[s] = 1 => (moved[s][1] <=> given[s] \subseteq jar[s])

\* "QCOMPARE(cookiesSet.count(), 1)": moved is announced once for each move.
OncePerMove == \A s \in Store : Len(moved[s]) <= moves[s]

\* It is announced, so that the page is opened: when the last request has been answered,
\* whatever has failed.
MoveEnds == \A s \in Store : moves[s] = 1 ~> moved[s] # <<>>
=============================================================================
