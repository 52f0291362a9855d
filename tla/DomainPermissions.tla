-------------------------- MODULE DomainPermissions --------------------------
(***************************************************************************)
(* The domains that are blocked or allowed                                 *)
(* (src/src/app/domain-permissions-model.cpp), with the requests that ask  *)
(* for a decision (Browser.qml) and the page that edits them.              *)
(*                                                                         *)
(* A model is a record of the entries listed and the rows of the table,    *)
(* both functions on domains; each operation of the class is an operator   *)
(* from a model to the model it leaves.  The order of the entries and the  *)
(* date of the last request are left out.                                  *)
(***************************************************************************)
EXTENDS Naturals, FiniteSets

CONSTANTS Domain, NoDomain,
          MaxAsked, MaxRuns   \* bounds: the dialogs open at once, the starts of the browser

VARIABLES model,           \* m_entries and the table domainpermissions
          whiteListMode,   \* m_whiteListMode
          asked,           \* the dialogs that are open
          runs             \* starts of the browser so far

vars == <<model, whiteListMode, asked, runs>>

Permission == {"NotSet", "Blocked", "Whitelisted"}
Entry == [permission : Permission, by : Domain \cup {NoDomain}]
Dialog == [domain : Domain, by : Domain \cup {NoDomain}, incognito : BOOLEAN]
NewEntry == [permission |-> "NotSet", by |-> NoDomain]

GetPermission(m, d) == IF d \in DOMAIN m.listed THEN m.listed[d].permission ELSE "NotSet"

\* INSERT, which fails when there is a row; UPDATE and DELETE ... WHERE domain=d
WithRow(t, d) == [x \in DOMAIN t \cup {d} |-> IF x \in DOMAIN t THEN t[x] ELSE NewEntry]
Updated(t, d, f, v) == [x \in DOMAIN t |-> IF x = d THEN [t[x] EXCEPT ![f] = v] ELSE t[x]]
Without(t, d) == [x \in DOMAIN t \ {d} |-> t[x]]

InsertEntryMut(m, d, incognito) ==   \* mutant: a domain seen incognito is stored
  IF d \in DOMAIN m.listed THEN m
  ELSE [listed |-> WithRow(m.listed, d), table |-> WithRow(m.table, d)]

InsertEntry(m, d, incognito) ==
  IF d \in DOMAIN m.listed THEN m
  ELSE [listed |-> WithRow(m.listed, d),
        table |-> IF incognito THEN m.table ELSE WithRow(m.table, d)]

SetPermissionMut(m, d, p, incognito) ==   \* mutant: incognito is not ignored
  LET n == InsertEntry(m, d, incognito)
  IN IF n.listed[d].permission = p THEN n
     ELSE [listed |-> Updated(n.listed, d, "permission", p),
           table |-> IF incognito THEN n.table ELSE Updated(n.table, d, "permission", p)]

\* "ignoring incognito here, because it will only affect an entry already present"
SetPermission(m, d, p, incognito) ==
  LET n == InsertEntry(m, d, incognito)
  IN IF n.listed[d].permission = p THEN n
     ELSE [listed |-> Updated(n.listed, d, "permission", p),
           table |-> Updated(n.table, d, "permission", p)]

SetRequestedByDomain(m, d, b, incognito) ==
  LET n == InsertEntry(m, d, incognito)
  IN [listed |-> Updated(n.listed, d, "by", b),
      table |-> IF incognito THEN n.table ELSE Updated(n.table, d, "by", b)]

RemoveEntry(m, d) == [listed |-> Without(m.listed, d), table |-> Without(m.table, d)]

Init == /\ model = [listed |-> <<>>, table |-> <<>>]
        /\ whiteListMode \in BOOLEAN
        /\ asked = {}
        /\ runs = 1

-----------------------------------------------------------------------------
(* Requests and dialogs *)

\* A dialog closes when the data changes and its domain has been decided on.
StillOpen(dialogs, m) == {a \in dialogs : GetPermission(m, a.domain) = "NotSet"}

\* A page on domain from asks for something of domain d, for the main frame or not.
Request(d, from, main, incognito) ==
  LET b == IF main THEN NoDomain ELSE from
  IN /\ \/ /\ GetPermission(model, d) # "NotSet"
           /\ main \/ d # from
           /\ model' = SetRequestedByDomain(model, d, b, incognito)
           /\ asked' = StillOpen(asked, model')
        \/ /\ GetPermission(model, d) = "NotSet" /\ whiteListMode
           /\ Cardinality(asked) < MaxAsked
           /\ asked' = asked \cup {[domain |-> d, by |-> b, incognito |-> incognito]}
           /\ UNCHANGED model
     /\ UNCHANGED <<whiteListMode, runs>>

\* The user allows or blocks the domain of a dialog.
Answer(a, p) ==
  /\ a \in asked
  /\ model' = SetPermission(SetRequestedByDomain(model, a.domain, a.by, a.incognito),
                            a.domain, p, a.incognito)
  /\ asked' = StillOpen(asked \ {a}, model')
  /\ UNCHANGED <<whiteListMode, runs>>

Cancel(a) == a \in asked /\ asked' = asked \ {a} /\ UNCHANGED <<model, whiteListMode, runs>>

-----------------------------------------------------------------------------
(* The page of permissions and the settings *)

AddOnPage(d) == /\ d \notin DOMAIN model.listed
                /\ model' = InsertEntry(model, d, FALSE)
                /\ UNCHANGED <<whiteListMode, asked, runs>>

SetOnPage(d, p) == /\ d \in DOMAIN model.listed
                   /\ model' = SetPermission(model, d, p, FALSE)
                   /\ asked' = StillOpen(asked, model')
                   /\ UNCHANGED <<whiteListMode, runs>>

RemoveOnPage(d) == /\ d \in DOMAIN model.listed
                   /\ model' = RemoveEntry(model, d)
                   /\ UNCHANGED <<whiteListMode, asked, runs>>

DeleteAndResetDataBase == /\ model' = [listed |-> <<>>, table |-> <<>>]
                          /\ UNCHANGED <<whiteListMode, asked, runs>>

SetWhiteListMode == /\ whiteListMode' = ~whiteListMode
                    /\ UNCHANGED <<model, asked, runs>>

Restart == /\ runs < MaxRuns /\ runs' = runs + 1
           /\ model' = [model EXCEPT !.listed = model.table]
           /\ asked' = {}
           /\ UNCHANGED whiteListMode

Next == \/ \E d, from \in Domain, main, incognito \in BOOLEAN : Request(d, from, main, incognito)
        \/ \E a \in asked : Cancel(a) \/ \E p \in {"Blocked", "Whitelisted"} : Answer(a, p)
        \/ \E d \in Domain : AddOnPage(d) \/ RemoveOnPage(d)
        \/ \E d \in Domain, p \in Permission : SetOnPage(d, p)
        \/ DeleteAndResetDataBase \/ SetWhiteListMode \/ Restart

Spec == Init /\ [][Next]_vars

-----------------------------------------------------------------------------
(* Properties *)

IsTable(t) == DOMAIN t \subseteq Domain /\ \A d \in DOMAIN t : t[d] \in Entry
TypeOK == /\ IsTable(model.listed) /\ IsTable(model.table)
          /\ whiteListMode \in BOOLEAN /\ asked \subseteq Dialog /\ runs \in 1 .. MaxRuns

\* A stored permission is the one in force, also after incognito windows have changed
\* it: what is written without regard to incognito only concerns rows that exist.
StoredIsListed == \A d \in DOMAIN model.table :
  d \in DOMAIN model.listed /\ model.table[d].permission = model.listed[d].permission

\* A dialog is open only for a domain that has not been decided on, so that an answer
\* never replaces the decision taken in another window meanwhile.
AskedIsUnset == \A a \in asked : GetPermission(model, a.domain) = "NotSet"

\* What is requested in an incognito window adds no row and records no request.
SameRows == /\ DOMAIN model'.table = DOMAIN model.table
            /\ \A d \in DOMAIN model.table : model'.table[d].by = model.table[d].by
IncognitoUnrecorded ==
  [][ ~SameRows => /\ \A d, from \in Domain, main \in BOOLEAN : ~Request(d, from, main, TRUE)
                   /\ \A a \in asked, p \in Permission : ~(a.incognito /\ Answer(a, p)) ]_vars

\* "model that stores domain specific permissions": a decision taken outside an
\* incognito window is stored.
DecisionsStored ==
  [][ \A a \in asked, p \in {"Blocked", "Whitelisted"} :
        ~a.incognito /\ Answer(a, p) =>
          a.domain \in DOMAIN model'.table /\ model'.table[a.domain].permission = p ]_vars
=============================================================================
