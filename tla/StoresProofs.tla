----------------------------- MODULE StoresProofs -----------------------------
(***************************************************************************)
(* Proofs about the models that keep their rows in a database (MCStores),  *)
(* for any domains, user agents, downloads, paths, size of a page and      *)
(* numbers of starts of the browser.                                       *)
(***************************************************************************)
EXTENDS MCStores, SelectionProofs

-----------------------------------------------------------------------------
(* Permissions: operations on the entries and the table *)

\* Entries and rows of domains; a row has an entry with the same permission.
GoodPermissions(m) ==
  /\ m = [listed |-> m.listed, table |-> m.table]
  /\ Permissions!IsTable(m.listed) /\ Permissions!IsTable(m.table)
  /\ \A d \in DOMAIN m.table : /\ d \in DOMAIN m.listed
                               /\ m.table[d].permission = m.listed[d].permission

\* m and n give the domains of D the same permissions.
SameFor(D, m, n) == \A d \in D : Permissions!GetPermission(n, d) = Permissions!GetPermission(m, d)

\* The same rows, requested by the same domains.
SameRequests(m, n) == /\ DOMAIN n.table = DOMAIN m.table
                      /\ \A d \in DOMAIN m.table : n.table[d].by = m.table[d].by

LEMMA NewEntryIs == Permissions!NewEntry \in Permissions!Entry /\ Permissions!NewEntry.permission = "NotSet"
BY DEF Permissions!NewEntry, Permissions!Entry, Permissions!Permission

\* INSERT: the rows that there are stay as they are.
LEMMA WithRowIs ==
  ASSUME NEW t, Permissions!IsTable(t), NEW d \in Domain
  PROVE  /\ Permissions!IsTable(Permissions!WithRow(t, d)) /\ DOMAIN Permissions!WithRow(t, d) = DOMAIN t \cup {d}
         /\ \A x \in DOMAIN t : Permissions!WithRow(t, d)[x] = t[x]
         /\ d \notin DOMAIN t => Permissions!WithRow(t, d)[d] = Permissions!NewEntry
BY NewEntryIs DEF Permissions!IsTable, Permissions!WithRow

\* UPDATE: of one field of one row.
LEMMA PermissionUpdated ==
  ASSUME NEW t, Permissions!IsTable(t), NEW d, NEW p \in Permissions!Permission
  PROVE  LET u == Permissions!Updated(t, d, "permission", p)
         IN  /\ Permissions!IsTable(u) /\ DOMAIN u = DOMAIN t
             /\ \A x \in DOMAIN t : /\ u[x].by = t[x].by
                                    /\ u[x].permission = IF x = d THEN p ELSE t[x].permission
<1> DEFINE u == Permissions!Updated(t, d, "permission", p)
<1>1. DOMAIN u = DOMAIN t
  BY DEF Permissions!Updated
<1>2. ASSUME NEW x \in DOMAIN t
      PROVE  /\ u[x] \in Permissions!Entry /\ u[x].by = t[x].by
             /\ u[x].permission = IF x = d THEN p ELSE t[x].permission
  <2>1. t[x] \in [permission : Permissions!Permission, by : Domain \cup {NoDomain}]
    BY DEF Permissions!IsTable, Permissions!Entry
  <2>2. u[x] = IF x = d THEN [t[x] EXCEPT !["permission"] = p] ELSE t[x]
    BY DEF Permissions!Updated
  <2> HIDE DEF u
  <2>3. CASE x = d
    BY <2>1, <2>2, <2>3 DEF Permissions!Entry
  <2>4. CASE x # d
    BY <2>1, <2>2, <2>4 DEF Permissions!Entry
  <2> QED
    BY <2>3, <2>4
<1> QED
  BY <1>1, <1>2 DEF Permissions!IsTable

LEMMA RequestUpdated ==
  ASSUME NEW t, Permissions!IsTable(t), NEW d, NEW b \in Domain \cup {NoDomain}
  PROVE  LET u == Permissions!Updated(t, d, "by", b)
         IN  /\ Permissions!IsTable(u) /\ DOMAIN u = DOMAIN t
             /\ \A x \in DOMAIN t : u[x].permission = t[x].permission
<1> DEFINE u == Permissions!Updated(t, d, "by", b)
<1>1. DOMAIN u = DOMAIN t
  BY DEF Permissions!Updated
<1>2. ASSUME NEW x \in DOMAIN t PROVE u[x] \in Permissions!Entry /\ u[x].permission = t[x].permission
  <2>1. t[x] \in [permission : Permissions!Permission, by : Domain \cup {NoDomain}]
    BY DEF Permissions!IsTable, Permissions!Entry
  <2>2. u[x] = IF x = d THEN [t[x] EXCEPT !["by"] = b] ELSE t[x]
    BY DEF Permissions!Updated
  <2> HIDE DEF u
  <2>3. CASE x = d
    BY <2>1, <2>2, <2>3 DEF Permissions!Entry
  <2>4. CASE x # d
    BY <2>1, <2>2, <2>4 DEF Permissions!Entry
  <2> QED
    BY <2>3, <2>4
<1> QED
  BY <1>1, <1>2 DEF Permissions!IsTable

\* insertEntry
LEMMA InsertEntryIs ==
  ASSUME NEW m, GoodPermissions(m), NEW d \in Domain, NEW incognito \in BOOLEAN
  PROVE  LET n == Permissions!InsertEntry(m, d, incognito)
         IN  /\ GoodPermissions(n) /\ d \in DOMAIN n.listed /\ SameFor(Domain, m, n)
             /\ incognito => n.table = m.table
<1>1. Permissions!IsTable(m.listed) /\ Permissions!IsTable(m.table)
  BY DEF GoodPermissions
<1>2. CASE d \in DOMAIN m.listed
  BY <1>2 DEF Permissions!InsertEntry, SameFor
<1>3. CASE d \notin DOMAIN m.listed
  <2> DEFINE l == Permissions!WithRow(m.listed, d)
             t == IF incognito THEN m.table ELSE Permissions!WithRow(m.table, d)
             n == [listed |-> l, table |-> t]
  <2>1. Permissions!InsertEntry(m, d, incognito) = n
    BY <1>3 DEF Permissions!InsertEntry
  <2>2. /\ Permissions!IsTable(l) /\ DOMAIN l = DOMAIN m.listed \cup {d}
        /\ \A x \in DOMAIN m.listed : l[x] = m.listed[x]
        /\ l[d] = Permissions!NewEntry
    BY <1>1, <1>3, WithRowIs
  <2>3. d \notin DOMAIN m.table
    BY <1>3 DEF GoodPermissions
  <2>4. /\ Permissions!IsTable(t) /\ DOMAIN t \subseteq DOMAIN m.table \cup {d}
        /\ \A x \in DOMAIN m.table : t[x] = m.table[x]
        /\ d \in DOMAIN t => t[d] = Permissions!NewEntry
        /\ incognito => t = m.table
    BY <1>1, <2>3, WithRowIs
  <2> HIDE DEF l, t
  <2>5. n.listed = l /\ n.table = t /\ n = [listed |-> l, table |-> t]
    OBVIOUS
  <2> HIDE DEF n
  <2>6. \A x \in DOMAIN t : x \in DOMAIN l /\ t[x].permission = l[x].permission
    BY <2>2, <2>3, <2>4 DEF GoodPermissions
  <2>7. GoodPermissions(n)
    BY <2>2, <2>4, <2>5, <2>6 DEF GoodPermissions
  <2>8. SameFor(Domain, m, n)
    BY <1>3, <2>2, <2>5, NewEntryIs DEF SameFor, Permissions!GetPermission
  <2> QED
    BY <2>1, <2>2, <2>4, <2>5, <2>7, <2>8
<1> QED
  BY <1>2, <1>3

\* setRequestedByDomain
LEMMA SetRequestedIs ==
  ASSUME NEW m, GoodPermissions(m), NEW d \in Domain, NEW b \in Domain \cup {NoDomain},
         NEW incognito \in BOOLEAN
  PROVE  LET n == Permissions!SetRequestedByDomain(m, d, b, incognito)
         IN  /\ GoodPermissions(n) /\ SameFor(Domain, m, n)
             /\ incognito => n.table = m.table
<1> DEFINE i == Permissions!InsertEntry(m, d, incognito)
           l == Permissions!Updated(i.listed, d, "by", b)
           t == IF incognito THEN i.table ELSE Permissions!Updated(i.table, d, "by", b)
           n == [listed |-> l, table |-> t]
<1>1. Permissions!SetRequestedByDomain(m, d, b, incognito) = n
  BY DEF Permissions!SetRequestedByDomain
<1>2. GoodPermissions(i) /\ SameFor(Domain, m, i) /\ (incognito => i.table = m.table)
  BY InsertEntryIs
<1> HIDE DEF i
<1>3. Permissions!IsTable(i.listed) /\ Permissions!IsTable(i.table)
  BY <1>2 DEF GoodPermissions
<1>4. /\ Permissions!IsTable(l) /\ DOMAIN l = DOMAIN i.listed
      /\ \A x \in DOMAIN i.listed : l[x].permission = i.listed[x].permission
  BY <1>3, RequestUpdated
<1>5. /\ Permissions!IsTable(t) /\ DOMAIN t = DOMAIN i.table
      /\ \A x \in DOMAIN i.table : t[x].permission = i.table[x].permission
      /\ incognito => t = i.table
  BY <1>3, RequestUpdated
<1> HIDE DEF l, t
<1>6. n.listed = l /\ n.table = t /\ n = [listed |-> l, table |-> t]
  OBVIOUS
<1> HIDE DEF n
<1>7. GoodPermissions(n)
  BY <1>2, <1>4, <1>5, <1>6 DEF GoodPermissions
<1>8. SameFor(Domain, m, n)
  BY <1>2, <1>4, <1>6 DEF SameFor, Permissions!GetPermission
<1> QED
  BY <1>1, <1>2, <1>5, <1>6, <1>7, <1>8

\* setPermission, which writes for an incognito window too.
LEMMA SetPermissionIs ==
  ASSUME NEW m, GoodPermissions(m), NEW d \in Domain, NEW p \in Permissions!Permission,
         NEW incognito \in BOOLEAN
  PROVE  LET n == Permissions!SetPermission(m, d, p, incognito)
         IN  /\ GoodPermissions(n) /\ SameFor(Domain \ {d}, m, n)
             /\ incognito => SameRequests(m, n)
<1> DEFINE i == Permissions!InsertEntry(m, d, incognito)
           l == Permissions!Updated(i.listed, d, "permission", p)
           t == Permissions!Updated(i.table, d, "permission", p)
           n == [listed |-> l, table |-> t]
<1>1. Permissions!SetPermission(m, d, p, incognito) = IF i.listed[d].permission = p THEN i ELSE n
  BY DEF Permissions!SetPermission
<1>2. GoodPermissions(i) /\ SameFor(Domain, m, i) /\ (incognito => i.table = m.table)
  BY InsertEntryIs
<1> HIDE DEF i
<1>3. Permissions!IsTable(i.listed) /\ Permissions!IsTable(i.table)
  BY <1>2 DEF GoodPermissions
<1>4. /\ Permissions!IsTable(l) /\ DOMAIN l = DOMAIN i.listed
      /\ \A x \in DOMAIN i.listed : l[x].permission = IF x = d THEN p ELSE i.listed[x].permission
  BY <1>3, PermissionUpdated
<1>5. /\ Permissions!IsTable(t) /\ DOMAIN t = DOMAIN i.table
      /\ \A x \in DOMAIN i.table :
           t[x].by = i.table[x].by /\ t[x].permission = IF x = d THEN p ELSE i.table[x].permission
  BY <1>3, PermissionUpdated
<1> HIDE DEF l, t
<1>6. n.listed = l /\ n.table = t /\ n = [listed |-> l, table |-> t]
  OBVIOUS
<1> HIDE DEF n
<1>7. GoodPermissions(n)
  <2>1. \A x \in DOMAIN t : x \in DOMAIN l /\ t[x].permission = l[x].permission
    BY <1>2, <1>4, <1>5 DEF GoodPermissions
  <2> QED
    BY <1>4, <1>5, <1>6, <2>1 DEF GoodPermissions
<1>8. SameFor(Domain \ {d}, m, n)
  BY <1>2, <1>4, <1>6 DEF SameFor, Permissions!GetPermission
<1>9. incognito => SameRequests(m, n) /\ SameRequests(m, i)
  BY <1>2, <1>5, <1>6 DEF SameRequests
<1>10. CASE i.listed[d].permission = p
  BY <1>1, <1>2, <1>9, <1>10 DEF SameFor
<1>11. CASE i.listed[d].permission # p
  BY <1>1, <1>7, <1>8, <1>9, <1>11
<1> QED
  BY <1>10, <1>11

\* removeEntry: nothing is decided about the domain any more.
LEMMA RemoveEntryIs ==
  ASSUME NEW m, GoodPermissions(m), NEW d
  PROVE  LET n == Permissions!RemoveEntry(m, d)
         IN  /\ GoodPermissions(n) /\ SameFor(Domain \ {d}, m, n)
             /\ Permissions!GetPermission(n, d) = "NotSet"
<1> DEFINE l == Permissions!Without(m.listed, d)
           t == Permissions!Without(m.table, d)
           n == [listed |-> l, table |-> t]
<1>1. Permissions!RemoveEntry(m, d) = n
  BY DEF Permissions!RemoveEntry
<1>2. /\ DOMAIN l = DOMAIN m.listed \ {d} /\ \A x \in DOMAIN l : l[x] = m.listed[x]
      /\ DOMAIN t = DOMAIN m.table \ {d} /\ \A x \in DOMAIN t : t[x] = m.table[x]
  BY DEF Permissions!Without
<1> HIDE DEF l, t
<1>3. n.listed = l /\ n.table = t /\ n = [listed |-> l, table |-> t]
  OBVIOUS
<1> HIDE DEF n
<1>4. GoodPermissions(n)
  BY <1>2, <1>3 DEF GoodPermissions, Permissions!IsTable
<1> QED
  BY <1>1, <1>2, <1>3, <1>4 DEF SameFor, Permissions!GetPermission

-----------------------------------------------------------------------------
(* Permissions: requests, dialogs, the page *)

\* The dialogs are for domains that are not decided on.
Undecided(dialogs, m) == \A a \in dialogs : Permissions!GetPermission(m, a.domain) = "NotSet"

PermissionsInv == /\ GoodPermissions(model)
                  /\ asked \subseteq Permissions!Dialog
                  /\ Undecided(asked, model)

LEMMA StillOpenIs ==
  ASSUME NEW s, s \subseteq Permissions!Dialog, NEW m
  PROVE  /\ Permissions!StillOpen(s, m) \subseteq Permissions!Dialog
         /\ Undecided(Permissions!StillOpen(s, m), m)
BY DEF Permissions!StillOpen, Undecided

LEMMA DialogIs ==
  ASSUME NEW a \in Permissions!Dialog
  PROVE  a.domain \in Domain /\ a.by \in Domain \cup {NoDomain} /\ a.incognito \in BOOLEAN
BY DEF Permissions!Dialog

\* Dialogs stay as they are when no other domain is decided on.
LEMMA UndecidedStays ==
  ASSUME NEW s, s \subseteq Permissions!Dialog, NEW m, NEW n, NEW d, Undecided(s, m),
         SameFor(Domain \ {d}, m, n),
         Permissions!GetPermission(n, d) \in {Permissions!GetPermission(m, d), "NotSet"}
  PROVE  Undecided(s, n)
<1> SUFFICES ASSUME NEW a \in s PROVE Permissions!GetPermission(n, a.domain) = "NotSet"
  BY DEF Undecided
<1>1. a.domain \in Domain /\ Permissions!GetPermission(m, a.domain) = "NotSet"
  BY DialogIs DEF Undecided
<1> QED
  BY <1>1 DEF SameFor

LEMMA RequestStep ==
  ASSUME PermissionsInv, NEW d \in Domain, NEW from \in Domain, NEW main \in BOOLEAN,
         NEW incognito \in BOOLEAN, Permissions!Request(d, from, main, incognito)
  PROVE  PermissionsInv' /\ (incognito => Permissions!SameRows)
<1> DEFINE b == IF main THEN NoDomain ELSE from
           n == Permissions!SetRequestedByDomain(model, d, b, incognito)
           a == [domain |-> d, by |-> b, incognito |-> incognito]
<1>1. GoodPermissions(model) /\ asked \subseteq Permissions!Dialog /\ Undecided(asked, model)
  BY DEF PermissionsInv
<1>2. b \in Domain \cup {NoDomain}
  OBVIOUS
<1>3. CASE model' = n /\ asked' = Permissions!StillOpen(asked, model')
  <2>1. GoodPermissions(n) /\ (incognito => n.table = model.table)
    BY <1>1, <1>2, SetRequestedIs
  <2>2. asked' \subseteq Permissions!Dialog /\ Undecided(asked', model')
    BY <1>1, <1>3, StillOpenIs
  <2> HIDE DEF n
  <2> QED
    BY <1>3, <2>1, <2>2 DEF PermissionsInv, Permissions!SameRows
<1>4. CASE /\ Permissions!GetPermission(model, d) = "NotSet"
           /\ asked' = asked \cup {a} /\ UNCHANGED model
  <2>1. a \in Permissions!Dialog /\ a.domain = d
    BY <1>2 DEF Permissions!Dialog
  <2> HIDE DEF a
  <2>2. asked' \subseteq Permissions!Dialog /\ Undecided(asked', model')
    BY <1>1, <1>4, <2>1 DEF Undecided
  <2> QED
    BY <1>1, <1>4, <2>2 DEF PermissionsInv, Permissions!SameRows
<1> QED
  BY <1>3, <1>4 DEF Permissions!Request

LEMMA AnswerStep ==
  ASSUME PermissionsInv, NEW a \in asked, NEW p \in Permissions!Permission,
         Permissions!Answer(a, p)
  PROVE  PermissionsInv' /\ (a.incognito => Permissions!SameRows)
<1> DEFINE m == Permissions!SetRequestedByDomain(model, a.domain, a.by, a.incognito)
           n == Permissions!SetPermission(m, a.domain, p, a.incognito)
<1>1. GoodPermissions(model) /\ asked \subseteq Permissions!Dialog
  BY DEF PermissionsInv
<1>2. a.domain \in Domain /\ a.by \in Domain \cup {NoDomain} /\ a.incognito \in BOOLEAN
  BY <1>1, DialogIs
<1>3. GoodPermissions(m) /\ (a.incognito => m.table = model.table)
  BY <1>1, <1>2, SetRequestedIs
<1>4. model' = n /\ asked' = Permissions!StillOpen(asked \ {a}, model')
  BY DEF Permissions!Answer
<1> HIDE DEF m
<1>5. GoodPermissions(n) /\ (a.incognito => SameRequests(m, n))
  BY <1>2, <1>3, SetPermissionIs
<1> HIDE DEF n
<1>6. asked' \subseteq Permissions!Dialog /\ Undecided(asked', model')
  BY <1>1, <1>4, StillOpenIs
<1>7. PermissionsInv'
  BY <1>4, <1>5, <1>6 DEF PermissionsInv
<1>8. a.incognito => Permissions!SameRows
  BY <1>3, <1>4, <1>5 DEF SameRequests, Permissions!SameRows
<1> QED
  BY <1>7, <1>8

LEMMA SetOnPageStep ==
  ASSUME PermissionsInv, NEW d \in Domain, NEW p \in Permissions!Permission,
         Permissions!SetOnPage(d, p)
  PROVE  PermissionsInv'
<1>1. GoodPermissions(model) /\ asked \subseteq Permissions!Dialog
  BY DEF PermissionsInv
<1>2. /\ model' = Permissions!SetPermission(model, d, p, FALSE)
      /\ asked' = Permissions!StillOpen(asked, model')
  BY DEF Permissions!SetOnPage
<1>3. GoodPermissions(model')
  BY <1>1, <1>2, SetPermissionIs
<1>4. asked' \subseteq Permissions!Dialog /\ Undecided(asked', model')
  BY <1>1, <1>2, StillOpenIs
<1> QED
  BY <1>3, <1>4 DEF PermissionsInv

LEMMA AddOnPageStep ==
  ASSUME PermissionsInv, NEW d \in Domain, Permissions!AddOnPage(d)
  PROVE  PermissionsInv'
<1>1. GoodPermissions(model) /\ asked \subseteq Permissions!Dialog /\ Undecided(asked, model)
  BY DEF PermissionsInv
<1>2. model' = Permissions!InsertEntry(model, d, FALSE) /\ asked' = asked
  BY DEF Permissions!AddOnPage
<1>3. GoodPermissions(model') /\ SameFor(Domain, model, model')
  BY <1>1, <1>2, InsertEntryIs
<1>4. Undecided(asked, model')
  BY <1>1, <1>3, UndecidedStays DEF SameFor
<1> QED
  BY <1>1, <1>2, <1>3, <1>4 DEF PermissionsInv

LEMMA RemoveOnPageStep ==
  ASSUME PermissionsInv, NEW d \in Domain, Permissions!RemoveOnPage(d)
  PROVE  PermissionsInv'
<1>1. GoodPermissions(model) /\ asked \subseteq Permissions!Dialog /\ Undecided(asked, model)
  BY DEF PermissionsInv
<1>2. model' = Permissions!RemoveEntry(model, d) /\ asked' = asked
  BY DEF Permissions!RemoveOnPage
<1>3. /\ GoodPermissions(model') /\ SameFor(Domain \ {d}, model, model')
      /\ Permissions!GetPermission(model', d) = "NotSet"
  BY <1>1, <1>2, RemoveEntryIs
<1>4. Undecided(asked, model')
  BY <1>1, <1>3, UndecidedStays
<1> QED
  BY <1>1, <1>2, <1>3, <1>4 DEF PermissionsInv

\* Starting again reads the table; resetting the settings empties it.
LEMMA ReadAgainStep ==
  ASSUME PermissionsInv,
         \/ model' = [model EXCEPT !.listed = model.table] /\ asked' = {}
         \/ model' = [listed |-> <<>>, table |-> <<>>] /\ asked' = asked
  PROVE  PermissionsInv'
<1>1. GoodPermissions(model) /\ asked \subseteq Permissions!Dialog /\ Undecided(asked, model)
  BY DEF PermissionsInv
<1>2. CASE model' = [model EXCEPT !.listed = model.table] /\ asked' = {}
  <2>1. model = [listed |-> model.listed, table |-> model.table]
    BY <1>1 DEF GoodPermissions
  <2>2. model' = [listed |-> model.table, table |-> model.table]
    BY <1>2, <2>1
  <2>3. model'.listed = model.table /\ model'.table = model.table
    BY <2>2
  <2>4. GoodPermissions(model')
    BY <1>1, <2>2, <2>3 DEF GoodPermissions
  <2> QED
    BY <1>2, <2>4 DEF PermissionsInv, Undecided
<1>3. CASE model' = [listed |-> <<>>, table |-> <<>>] /\ asked' = asked
  <2>1. model'.listed = <<>> /\ model'.table = <<>> /\ model' = [listed |-> model'.listed, table |-> model'.table]
    BY <1>3
  <2>2. DOMAIN <<>> = {}
    OBVIOUS
  <2>3. GoodPermissions(model')
    BY <2>1, <2>2 DEF GoodPermissions, Permissions!IsTable
  <2>4. Undecided(asked', model')
    BY <2>1, <2>2 DEF Undecided, Permissions!GetPermission
  <2> QED
    BY <1>1, <1>3, <2>3, <2>4 DEF PermissionsInv
<1> QED
  BY <1>2, <1>3

LEMMA PermissionsStep ==
  ASSUME PermissionsInv, Permissions!Next
  PROVE  PermissionsInv'
<1>1. CASE \E d, from \in Domain, main, incognito \in BOOLEAN : Permissions!Request(d, from, main, incognito)
  BY <1>1, RequestStep
<1>2. CASE \E a \in asked : Permissions!Cancel(a)
  BY <1>2 DEF Permissions!Cancel, PermissionsInv, Undecided
<1>3. CASE \E a \in asked, p \in {"Blocked", "Whitelisted"} : Permissions!Answer(a, p)
  BY <1>3, AnswerStep DEF Permissions!Permission
<1>4. CASE \E d \in Domain : Permissions!AddOnPage(d) \/ Permissions!RemoveOnPage(d)
  BY <1>4, AddOnPageStep, RemoveOnPageStep
<1>5. CASE \E d \in Domain, p \in Permissions!Permission : Permissions!SetOnPage(d, p)
  BY <1>5, SetOnPageStep
<1>6. CASE Permissions!DeleteAndResetDataBase
  BY <1>6, ReadAgainStep DEF Permissions!DeleteAndResetDataBase
<1>7. CASE Permissions!SetWhiteListMode
  BY <1>7 DEF Permissions!SetWhiteListMode, PermissionsInv
<1>8. CASE Permissions!Restart
  BY <1>8, ReadAgainStep DEF Permissions!Restart
<1> QED
  BY <1>1, <1>2, <1>3, <1>4, <1>5, <1>6, <1>7, <1>8 DEF Permissions!Next

LEMMA PermissionsInit == Permissions!Init => PermissionsInv
<1> SUFFICES ASSUME Permissions!Init PROVE PermissionsInv
  OBVIOUS
<1>1. model.listed = <<>> /\ model.table = <<>> /\ model = [listed |-> model.listed, table |-> model.table] /\ asked = {}
  BY DEF Permissions!Init
<1>2. DOMAIN <<>> = {}
  OBVIOUS
<1> QED
  BY <1>1, <1>2 DEF PermissionsInv, GoodPermissions, Undecided, Permissions!IsTable

-----------------------------------------------------------------------------

LEMMA PermissionsNext == PermissionsInv /\ [Next]_vars => PermissionsInv'
<1> SUFFICES ASSUME PermissionsInv, [Next]_vars PROVE PermissionsInv'
  OBVIOUS
<1>1. CASE Permissions!Next
  BY <1>1, PermissionsStep
<1>2. CASE UNCHANGED <<model, asked>>
  BY <1>2 DEF PermissionsInv
<1> QED
  BY <1>1, <1>2 DEF Next, vars, permissionVars

LEMMA PermissionsAlways == Spec => []PermissionsInv
<1>1. Init => PermissionsInv
  BY PermissionsInit DEF Init
<1> QED
  BY <1>1, PermissionsNext, PTL DEF Spec

\* A stored permission is the one in force, and no dialog is open for a domain that has been
\* decided on: for any domains, dialogs, answers given in normal and incognito windows, and
\* decisions of the page in between.
THEOREM PermissionsStayInForce == Spec => []PermissionsInForce
<1>1. PermissionsInv => PermissionsInForce
  BY DEF PermissionsInv, GoodPermissions, Undecided, PermissionsInForce,
         Permissions!StoredIsListed, Permissions!AskedIsUnset
<1> QED
  BY <1>1, PermissionsAlways, PTL

\* Requests and answers of incognito windows add no row and record no request.
THEOREM IncognitoAddsNothing == Spec => IncognitoUnrecorded
<1>1. ASSUME PermissionsInv,
             NEW d \in Domain, NEW from \in Domain, NEW main \in BOOLEAN,
             Permissions!Request(d, from, main, TRUE)
      PROVE  Permissions!SameRows
  BY <1>1, RequestStep
<1>2. ASSUME PermissionsInv, NEW a \in asked, NEW p \in Permissions!Permission,
             a.incognito, Permissions!Answer(a, p)
      PROVE  Permissions!SameRows
  BY <1>2, AnswerStep
<1>3. PermissionsInv /\ [Next]_vars =>
        [ ~Permissions!SameRows =>
            /\ \A d, from \in Domain, main \in BOOLEAN : ~Permissions!Request(d, from, main, TRUE)
            /\ \A a \in asked, p \in Permissions!Permission : ~(a.incognito /\ Permissions!Answer(a, p))
        ]_(Permissions!vars)
  BY <1>1, <1>2
<1> QED
  BY <1>3, PermissionsAlways, PTL DEF Spec, IncognitoUnrecorded, Permissions!IncognitoUnrecorded

-----------------------------------------------------------------------------
(* Settings of domains, and the user agents they refer to *)

Record == [schemes : BOOLEAN, location : BOOLEAN, agent : Nat, zoom : Zoom \cup {0}]
Table(t) == t \in [DOMAIN t -> Record]
AgentsAmong(t, ids) == \A d \in DOMAIN t : t[d].agent \in ids \cup {0}

\* The settings are those of the table, unless the file that is open is not at its path any
\* more: then the table at that path is empty.  The agents are those of their table.
SettingsInv == /\ Table(settings) /\ AgentsAmong(settings, DOMAIN agents)
               /\ settingsTable = IF orphaned THEN <<>> ELSE settings
               /\ agents = agentTable

\* A value of the type of field f.
ValueOf(f, v) == \/ f \in {"schemes", "location"} /\ v \in BOOLEAN
                 \/ f = "agent" /\ v \in Nat
                 \/ f = "zoom" /\ v \in Zoom \cup {0}

LEMMA NewSettingIs == Settings!NewSetting \in Record /\ Settings!NewSetting.agent = 0
BY DEF Settings!NewSetting, Settings!NaN, Record

LEMMA FieldSet ==
  ASSUME NEW e \in Record, NEW f, NEW v, ValueOf(f, v)
  PROVE  LET u == [e EXCEPT ![f] = v]
         IN  /\ u \in Record /\ u.agent = (IF f = "agent" THEN v ELSE e.agent)
             /\ e[f] = v => u = e
<1>1. CASE f = "schemes"
  BY <1>1 DEF ValueOf, Record
<1>2. CASE f = "location"
  BY <1>2 DEF ValueOf, Record
<1>3. CASE f = "agent"
  BY <1>3 DEF ValueOf, Record
<1>4. CASE f = "zoom"
  BY <1>4 DEF ValueOf, Record
<1> QED
  BY <1>1, <1>2, <1>3, <1>4 DEF ValueOf

\* INSERT, which fails when there is a row.
LEMMA SettingInserted ==
  ASSUME NEW t, Table(t), NEW d
  PROVE  LET u == Settings!WithRow(t, d, Settings!NewSetting)
         IN  /\ Table(u) /\ DOMAIN u = DOMAIN t \cup {d}
             /\ \A ids : AgentsAmong(t, ids) => AgentsAmong(u, ids)
             /\ d \in DOMAIN t => u = t
<1> DEFINE u == Settings!WithRow(t, d, Settings!NewSetting)
<1>1. t = [x \in DOMAIN t |-> t[x]] /\ \A x \in DOMAIN t : t[x] \in Record
  BY DEF Table
<1>2. u = [x \in DOMAIN t \cup {d} |-> IF x \in DOMAIN t THEN t[x] ELSE Settings!NewSetting]
  BY DEF Settings!WithRow
<1> HIDE DEF u
<1>3. /\ DOMAIN u = DOMAIN t \cup {d}
      /\ \A x \in DOMAIN u : u[x] = IF x \in DOMAIN t THEN t[x] ELSE Settings!NewSetting
  BY <1>2
<1>4. u \in [DOMAIN u -> Record]
  BY <1>1, <1>2, <1>3, NewSettingIs
<1>5. \A ids : AgentsAmong(t, ids) => AgentsAmong(u, ids)
  BY <1>3, NewSettingIs DEF AgentsAmong
<1>6. d \in DOMAIN t => u = t
  BY <1>1, <1>2
<1> QED
  BY <1>3, <1>4, <1>5, <1>6 DEF u, Table

\* UPDATE of one field of one row; of the value that is there it changes nothing.
LEMMA SettingUpdated ==
  ASSUME NEW t, Table(t), NEW d \in DOMAIN t, NEW f, NEW v, ValueOf(f, v)
  PROVE  LET u == Settings!Updated(t, d, f, v)
         IN  /\ Table(u)
             /\ \A ids : AgentsAmong(t, ids) /\ (f = "agent" => v \in ids \cup {0}) => AgentsAmong(u, ids)
             /\ t[d][f] = v => u = t
<1> DEFINE e == [t[d] EXCEPT ![f] = v]
           u == Settings!Updated(t, d, f, v)
<1>1. t = [x \in DOMAIN t |-> t[x]] /\ \A x \in DOMAIN t : t[x] \in Record
  BY DEF Table
<1>2. e \in Record /\ e.agent = (IF f = "agent" THEN v ELSE t[d].agent) /\ (t[d][f] = v => e = t[d])
  BY <1>1, FieldSet
<1>3. u = [x \in DOMAIN t |-> IF x = d THEN e ELSE t[x]]
  BY DEF Settings!Updated
<1> HIDE DEF e, u
<1>4. DOMAIN u = DOMAIN t /\ \A x \in DOMAIN t : u[x] = IF x = d THEN e ELSE t[x]
  BY <1>3
<1>5. u \in [DOMAIN u -> Record]
  BY <1>1, <1>2, <1>3, <1>4
<1>6. ASSUME NEW ids, AgentsAmong(t, ids), f = "agent" => v \in ids \cup {0}
      PROVE  AgentsAmong(u, ids)
  <2> SUFFICES ASSUME NEW x \in DOMAIN t PROVE u[x].agent \in ids \cup {0}
    BY <1>4 DEF AgentsAmong
  <2>1. CASE x = d
    BY <1>2, <1>4, <1>6, <2>1 DEF AgentsAmong
  <2>2. CASE x # d
    BY <1>4, <1>6, <2>2 DEF AgentsAmong
  <2> QED
    BY <2>1, <2>2
<1>7. t[d][f] = v => u = t
  BY <1>1, <1>2, <1>3
<1> QED
  BY <1>5, <1>6, <1>7 DEF u, Table

\* The setters: entry and row get the same value, whether there was one or not.
LEMMA SetStep ==
  ASSUME SettingsInv, NEW d \in Domain, NEW f, NEW v, ValueOf(f, v),
         f = "agent" => v \in DOMAIN agents \cup {0}, Settings!Set(d, f, v)
  PROVE  SettingsInv'
<1> DEFINE known == Settings!WithRow(settings, d, Settings!NewSetting)
           stored == IF d \in DOMAIN settings THEN settingsTable
                   ELSE Settings!WithRow(settingsTable, d, Settings!NewSetting)
           u == Settings!Updated(known, d, f, v)
           t == IF known[d][f] = v THEN stored ELSE Settings!Updated(stored, d, f, v)
<1>1. /\ Table(settings) /\ AgentsAmong(settings, DOMAIN agents) /\ agents = agentTable
      /\ settingsTable = IF orphaned THEN <<>> ELSE settings
  BY DEF SettingsInv
<1>2. /\ settings' = u /\ settingsTable' = Settings!Executed(t)
      /\ UNCHANGED <<orphaned, agents, agentTable>>
  BY DEF Settings!Set, Settings!agentVars
<1>3. /\ Table(known) /\ d \in DOMAIN known /\ AgentsAmong(known, DOMAIN agents)
      /\ d \in DOMAIN settings => known = settings
  <2>1. /\ Table(known) /\ DOMAIN known = DOMAIN settings \cup {d}
        /\ d \in DOMAIN settings => known = settings
    BY <1>1, SettingInserted
  <2>2. \A ids : AgentsAmong(settings, ids) => AgentsAmong(known, ids)
    BY <1>1, SettingInserted
  <2> HIDE DEF known
  <2> QED
    BY <1>1, <2>1, <2>2
<1>4. ~orphaned => stored = known
  BY <1>1, <1>3
<1> HIDE DEF known, stored
<1>5. Table(u) /\ AgentsAmong(u, DOMAIN agents) /\ (known[d][f] = v => u = known)
  BY <1>3, SettingUpdated
<1>6. ~orphaned => t = u
  BY <1>4, <1>5
<1> HIDE DEF u, t
<1>7. settingsTable' = IF orphaned THEN <<>> ELSE u
  BY <1>1, <1>2, <1>6 DEF Settings!Executed
<1> QED
  BY <1>1, <1>2, <1>5, <1>7 DEF SettingsInv

LEMMA InsertSettingStep ==
  ASSUME SettingsInv, NEW d \in Domain, Settings!InsertEntry(d)
  PROVE  SettingsInv'
<1> DEFINE u == Settings!WithRow(settings, d, Settings!NewSetting)
<1>1. /\ settings' = u
      /\ settingsTable' = Settings!Executed(Settings!WithRow(settingsTable, d, Settings!NewSetting))
      /\ UNCHANGED <<orphaned, agents, agentTable>>
  BY DEF Settings!InsertEntry, Settings!agentVars
<1>2. Table(settings) /\ AgentsAmong(settings, DOMAIN agents)
  BY DEF SettingsInv
<1>3. Table(u) /\ AgentsAmong(u, DOMAIN agents)
  BY <1>2, SettingInserted
<1>4. settingsTable' = IF orphaned THEN <<>> ELSE u
  BY <1>1 DEF SettingsInv, Settings!Executed
<1> HIDE DEF u
<1> QED
  BY <1>1, <1>3, <1>4 DEF SettingsInv

LEMMA RemoveSettingStep ==
  ASSUME SettingsInv, NEW d \in Domain, Settings!RemoveEntry(d)
  PROVE  SettingsInv'
<1> DEFINE u == Settings!Without(settings, d)
<1>1. /\ settings' = u /\ settingsTable' = Settings!Executed(Settings!Without(settingsTable, d))
      /\ UNCHANGED <<orphaned, agents, agentTable>>
  BY DEF Settings!RemoveEntry, Settings!agentVars
<1>2. Table(settings) /\ AgentsAmong(settings, DOMAIN agents)
  BY DEF SettingsInv
<1>3. u = [y \in DOMAIN settings \ {d} |-> settings[y]]
  BY DEF Settings!Without
<1>4. settingsTable' = IF orphaned THEN <<>> ELSE u
  BY <1>1 DEF SettingsInv, Settings!Executed
<1> HIDE DEF u
<1>5. Table(u) /\ AgentsAmong(u, DOMAIN agents)
  BY <1>2, <1>3 DEF Table, AgentsAmong
<1> QED
  BY <1>1, <1>4, <1>5 DEF SettingsInv

\* No domain has agent i any more; nothing changes if none had it.
LEMMA WithoutAgentIs ==
  ASSUME NEW t, Table(t), NEW i
  PROVE  LET u == Settings!WithoutAgent(t, i)
         IN  /\ Table(u)
             /\ \A ids : AgentsAmong(t, ids) => AgentsAmong(u, ids \ {i})
             /\ (\A d \in DOMAIN t : t[d].agent # i) => u = t
<1> DEFINE u == Settings!WithoutAgent(t, i)
           e(d) == [t[d] EXCEPT !.agent = 0]
<1>1. t = [x \in DOMAIN t |-> t[x]] /\ \A x \in DOMAIN t : t[x] \in Record
  BY DEF Table
<1>2. u = [d \in DOMAIN t |-> IF t[d].agent = i THEN e(d) ELSE t[d]]
  BY DEF Settings!WithoutAgent
<1>3. \A d \in DOMAIN t : e(d) \in Record /\ e(d).agent = 0
  BY <1>1 DEF Record
<1> HIDE DEF e, u
<1>4. DOMAIN u = DOMAIN t /\ \A d \in DOMAIN t : u[d] = IF t[d].agent = i THEN e(d) ELSE t[d]
  BY <1>2
<1>5. u \in [DOMAIN u -> Record]
  BY <1>1, <1>2, <1>3, <1>4
<1>6. \A ids : AgentsAmong(t, ids) => AgentsAmong(u, ids \ {i})
  <2> SUFFICES ASSUME NEW ids, AgentsAmong(t, ids), NEW d \in DOMAIN t
               PROVE  u[d].agent \in (ids \ {i}) \cup {0}
    BY <1>4 DEF AgentsAmong
  <2>1. CASE t[d].agent = i
    BY <1>3, <1>4, <2>1
  <2>2. CASE t[d].agent # i
    BY <1>4, <2>2 DEF AgentsAmong
  <2> QED
    BY <2>1, <2>2
<1>7. (\A d \in DOMAIN t : t[d].agent # i) => u = t
  BY <1>1, <1>2
<1> QED
  BY <1>5, <1>6, <1>7 DEF u, Table

-----------------------------------------------------------------------------
(* Settings: agents, restarts, and what applies to a domain *)

LEMMA RemoveAgentStep ==
  ASSUME SettingsInv, NEW i \in 1 .. MaxId, Settings!RemoveAgent(i)
  PROVE  SettingsInv'
<1> DEFINE u == Settings!WithoutAgent(settings, i)
           t == Settings!WithoutAgent(settingsTable, i)
<1>1. /\ Table(settings) /\ AgentsAmong(settings, DOMAIN agents) /\ agents = agentTable
      /\ settingsTable = IF orphaned THEN <<>> ELSE settings
  BY DEF SettingsInv
<1>2. /\ settings' = u
      /\ settingsTable' = IF Settings!AgentUsed(i) THEN Settings!Executed(t) ELSE settingsTable
      /\ agents' = Settings!Without(agents, i) /\ agentTable' = Settings!Without(agentTable, i)
      /\ orphaned' = orphaned
  BY DEF Settings!RemoveAgent
<1>3. ~orphaned => t = u
  BY <1>1
<1>4. /\ Table(u) /\ AgentsAmong(u, DOMAIN agents \ {i})
      /\ ~Settings!AgentUsed(i) => u = settings
  BY <1>1, WithoutAgentIs DEF Settings!AgentUsed
<1> HIDE DEF u, t
<1>5. settingsTable' = IF orphaned THEN <<>> ELSE u
  BY <1>1, <1>2, <1>3, <1>4 DEF Settings!Executed
<1>6. DOMAIN agents' = DOMAIN agents \ {i}
  BY <1>2 DEF Settings!Without
<1> QED
  BY <1>1, <1>2, <1>4, <1>5, <1>6 DEF SettingsInv

\* What is read when the browser starts: rows with something set, their zoom factors not the
\* default one.
LEMMA ReadIs ==
  ASSUME NEW t, Table(t), NEW z
  PROVE  LET r == Settings!WithoutObsolete(Settings!WithoutDefaultZoom(t, z))
         IN  /\ Table(r)
             /\ \A ids : AgentsAmong(t, ids) => AgentsAmong(r, ids)
             /\ DOMAIN r \subseteq DOMAIN t
             /\ \A d \in DOMAIN t :
                  LET e == IF t[d].zoom = z THEN [t[d] EXCEPT !.zoom = 0] ELSE t[d]
                  IN  IF d \in DOMAIN r THEN r[d] = e ELSE e = Settings!NewSetting
<1> DEFINE e(d) == IF t[d].zoom = z THEN [t[d] EXCEPT !.zoom = 0] ELSE t[d]
           s == Settings!WithoutDefaultZoom(t, z)
           r == Settings!WithoutObsolete(s)
<1>1. \A d \in DOMAIN t : t[d] \in Record
  BY DEF Table
<1>2. \A d \in DOMAIN t : e(d) \in Record /\ e(d).agent = t[d].agent
  BY <1>1 DEF Record
<1>3. s = [d \in DOMAIN t |-> e(d)]
  BY DEF Settings!WithoutDefaultZoom, Settings!NaN
<1> HIDE DEF e, s
<1>4. DOMAIN s = DOMAIN t /\ \A d \in DOMAIN t : s[d] = e(d)
  BY <1>3
<1>5. r = [d \in {x \in DOMAIN s : s[x] # Settings!NewSetting} |-> s[d]]
  BY DEF Settings!WithoutObsolete
<1> HIDE DEF r
<1>6. DOMAIN r = {d \in DOMAIN t : e(d) # Settings!NewSetting} /\ \A d \in DOMAIN r : r[d] = e(d)
  BY <1>4, <1>5
<1>7. r \in [DOMAIN r -> Record]
  BY <1>2, <1>4, <1>5, <1>6
<1>8. \A ids : AgentsAmong(t, ids) => AgentsAmong(r, ids)
  BY <1>2, <1>6 DEF AgentsAmong
<1> QED
  BY <1>6, <1>7, <1>8 DEF Table, r, s, e

LEMMA RestartStep ==
  ASSUME SettingsInv, NEW stored, Table(stored), AgentsAmong(stored, DOMAIN agents),
         Settings!RestartWith(stored)
  PROVE  SettingsInv'
<1> DEFINE r == Settings!WithoutObsolete(Settings!WithoutDefaultZoom(stored, defaultZoom))
<1>1. /\ settingsTable' = r /\ settings' = settingsTable' /\ orphaned' = FALSE
      /\ agents' = agentTable /\ agentTable' = agentTable
  BY DEF Settings!RestartWith
<1>2. Table(r) /\ AgentsAmong(r, DOMAIN agents)
  BY ReadIs
<1> HIDE DEF r
<1> QED
  BY <1>1, <1>2 DEF SettingsInv

LEMMA EmptyTable == Table(<<>>) /\ \A ids : AgentsAmong(<<>>, ids)
<1>1. DOMAIN <<>> = {} /\ <<>> = [x \in {} |-> x]
  OBVIOUS
<1> QED
  BY <1>1 DEF Table, AgentsAmong

LEMMA RowsAre == SettingsInv => Table(settingsTable) /\ AgentsAmong(settingsTable, DOMAIN agents)
BY EmptyTable DEF SettingsInv

LEMMA StopInRemoveAgentStep ==
  ASSUME SettingsInv, NEW i \in 1 .. MaxId, Settings!StopInRemoveAgent(i)
  PROVE  SettingsInv'
<1> DEFINE t == Settings!WithoutAgent(settingsTable, i)
           stored == IF Settings!AgentUsed(i) THEN Settings!Executed(t) ELSE settingsTable
<1>1. Settings!RestartWith(stored)
  BY DEF Settings!StopInRemoveAgent
<1>2. Table(settingsTable) /\ AgentsAmong(settingsTable, DOMAIN agents)
  BY RowsAre
<1>3. Table(t) /\ AgentsAmong(t, DOMAIN agents \ {i})
  BY <1>2, WithoutAgentIs
<1> HIDE DEF t
<1>4. AgentsAmong(t, DOMAIN agents)
  BY <1>3 DEF AgentsAmong
<1>5. Table(stored) /\ AgentsAmong(stored, DOMAIN agents)
  BY <1>2, <1>3, <1>4 DEF Settings!Executed
<1> HIDE DEF stored
<1> QED
  BY <1>1, <1>5, RestartStep

LEMMA AgentsChangeStep ==
  ASSUME SettingsInv, agents' = agentTable', DOMAIN agents \subseteq DOMAIN agents',
         UNCHANGED <<settings, settingsTable, orphaned>>
  PROVE  SettingsInv'
BY DEF SettingsInv, AgentsAmong

LEMMA ResetStep ==
  ASSUME Settings!ResetDomainSettings
  PROVE  SettingsInv'
BY EmptyTable DEF Settings!ResetDomainSettings, SettingsInv

LEMMA SettingsStep ==
  ASSUME SettingsInv, Settings!Next
  PROVE  SettingsInv'
<1>1. CASE Settings!Restart
  BY <1>1, RowsAre, RestartStep DEF Settings!Restart
<1>2. CASE Settings!ResetDomainSettings
  BY <1>2, ResetStep
<1>3. CASE \E d \in Domain : Settings!InsertEntry(d) \/ Settings!RemoveEntry(d)
  BY <1>3, InsertSettingStep, RemoveSettingStep
<1>4. CASE \E d \in Domain, b \in BOOLEAN :
             Settings!AllowCustomUrlSchemes(d, b) \/ Settings!AllowLocation(d, b)
  <2>1. PICK d \in Domain, b \in BOOLEAN :
          Settings!AllowCustomUrlSchemes(d, b) \/ Settings!AllowLocation(d, b)
    BY <1>4
  <2>2. ValueOf("schemes", b) /\ ValueOf("location", b)
    BY DEF ValueOf
  <2>3. Settings!Set(d, "schemes", b) \/ Settings!Set(d, "location", b)
    BY <2>1 DEF Settings!AllowCustomUrlSchemes, Settings!AllowLocation
  <2> QED
    BY <2>2, <2>3, SetStep
<1>5. CASE \E d \in Domain, i \in 0 .. MaxId : Settings!SetUserAgentId(d, i)
  <2>1. PICK d \in Domain, i \in 0 .. MaxId : Settings!SetUserAgentId(d, i)
    BY <1>5
  <2>2. ValueOf("agent", i)
    BY DEF ValueOf
  <2>3. i \in DOMAIN agents \cup {0} /\ Settings!Set(d, "agent", i)
    BY <2>1 DEF Settings!SetUserAgentId
  <2> QED
    BY <2>2, <2>3, SetStep
<1>6. CASE \E d \in Domain, z \in Zoom \cup {Settings!NaN} : Settings!SetZoomFactor(d, z)
  <2>1. PICK d \in Domain, z \in Zoom \cup {0} : Settings!SetZoomFactor(d, z)
    BY <1>6 DEF Settings!NaN
  <2>2. ValueOf("zoom", z) /\ ValueOf("zoom", 0)
    BY DEF ValueOf
  <2>3. Settings!Set(d, "zoom", z) \/ Settings!Set(d, "zoom", 0)
    BY <2>1 DEF Settings!SetZoomFactor, Settings!NaN
  <2> QED
    BY <2>2, <2>3, SetStep
<1>7. CASE \E z \in Zoom : Settings!SetDefaultZoomFactor(z)
  BY <1>7 DEF Settings!SetDefaultZoomFactor, Settings!agentVars, SettingsInv
<1>8. CASE \E n \in Name : Settings!InsertAgent(n)
  <2>1. PICK n \in Name : Settings!InsertAgent(n)
    BY <1>8
  <2>2. /\ agents' = Settings!WithRow(agents, nextId, [name |-> n, string |-> FALSE])
        /\ agentTable' = Settings!WithRow(agentTable, nextId, [name |-> n, string |-> FALSE])
        /\ UNCHANGED <<settings, settingsTable, orphaned>>
    BY <2>1 DEF Settings!InsertAgent, Settings!settingsVars
  <2>3. agents' = agentTable' /\ DOMAIN agents \subseteq DOMAIN agents'
    BY <2>2 DEF SettingsInv, Settings!WithRow
  <2> QED
    BY <2>2, <2>3, AgentsChangeStep
<1>9. CASE \E i \in 1 .. MaxId : Settings!RemoveAgent(i) \/ Settings!StopInRemoveAgent(i)
  BY <1>9, RemoveAgentStep, StopInRemoveAgentStep
<1>10. ASSUME NEW i, NEW f, NEW v, Settings!SetAgent(i, f, v)
       PROVE  SettingsInv'
  <2>1. /\ agents' = Settings!Updated(agents, i, f, v)
        /\ agentTable' = Settings!Updated(agentTable, i, f, v)
        /\ UNCHANGED <<settings, settingsTable, orphaned>>
    BY <1>10 DEF Settings!SetAgent, Settings!settingsVars
  <2>2. agents' = agentTable' /\ DOMAIN agents \subseteq DOMAIN agents'
    BY <2>1 DEF SettingsInv, Settings!Updated
  <2> QED
    BY <2>1, <2>2, AgentsChangeStep
<1>11. CASE \E i \in 1 .. MaxId, n \in Name : Settings!SetAgentName(i, n)
  BY <1>10, <1>11 DEF Settings!SetAgentName
<1>12. CASE \E i \in 1 .. MaxId, s \in BOOLEAN : Settings!SetAgentString(i, s)
  BY <1>10, <1>12 DEF Settings!SetAgentString
<1> QED
  BY <1>1, <1>2, <1>3, <1>4, <1>5, <1>6, <1>7, <1>8, <1>9, <1>11, <1>12 DEF Settings!Next

LEMMA SettingsNext == SettingsInv /\ [Next]_vars => SettingsInv'
<1> SUFFICES ASSUME SettingsInv, [Next]_vars PROVE SettingsInv'
  OBVIOUS
<1>1. CASE Settings!Next
  BY <1>1, SettingsStep
<1>2. CASE UNCHANGED <<settings, settingsTable, orphaned, agents, agentTable>>
  BY <1>2 DEF SettingsInv
<1> QED
  BY <1>1, <1>2 DEF Next, vars, settingsVars

LEMMA SettingsAlways == Spec => []SettingsInv
<1>1. Init => SettingsInv
  BY EmptyTable DEF Init, Settings!Init, SettingsInv
<1> QED
  BY <1>1, SettingsNext, PTL DEF Spec

\* A table that is the list, or empty, refers to no other agents than the list.
LEMMA AlsoAmong ==
  ASSUME NEW s, NEW ids, AgentsAmong(s, ids), NEW t, t = s \/ t = <<>>
  PROVE  AgentsAmong(t, ids)
BY EmptyTable

\* Starting again: what applies to a domain is as before.
LEMMA AppliesAgain ==
  ASSUME SettingsInv, Settings!Restart, ~orphaned, NEW d
  PROVE  Settings!Effective(settings, d)' = Settings!Effective(settings, d)
<1> DEFINE r == Settings!WithoutObsolete(Settings!WithoutDefaultZoom(settings, defaultZoom))
           e == IF settings[d].zoom = defaultZoom THEN [settings[d] EXCEPT !.zoom = 0] ELSE settings[d]
           shown(x) == IF x.zoom = 0 THEN [x EXCEPT !.zoom = defaultZoom] ELSE x
<1>1. settings' = r /\ defaultZoom' = defaultZoom
  BY DEF SettingsInv, Settings!Restart, Settings!RestartWith
<1>2. Table(settings)
  BY DEF SettingsInv
<1>3. /\ DOMAIN r \subseteq DOMAIN settings
      /\ d \in DOMAIN settings => IF d \in DOMAIN r THEN r[d] = e ELSE e = Settings!NewSetting
  BY <1>2, ReadIs
<1> HIDE DEF r
<1>4. d \in DOMAIN settings => shown(e) = shown(settings[d])
  <2> SUFFICES ASSUME d \in DOMAIN settings PROVE shown(e) = shown(settings[d])
    OBVIOUS
  <2>1. settings[d] \in Record
    BY <1>2 DEF Table
  <2>2. CASE settings[d].zoom = defaultZoom
    BY <2>1, <2>2 DEF Record
  <2>3. CASE settings[d].zoom # defaultZoom
    BY <2>3
  <2> QED
    BY <2>2, <2>3
<1>5. /\ Settings!Effective(settings, d) =
           shown(IF d \in DOMAIN settings THEN settings[d] ELSE Settings!NewSetting)
      /\ Settings!Effective(settings, d)' =
           shown(IF d \in DOMAIN r THEN r[d] ELSE Settings!NewSetting)
  BY <1>1 DEF Settings!Effective, Settings!NaN
<1> HIDE DEF shown, e
<1> QED
  BY <1>3, <1>4, <1>5

\* No domain ever refers to a user agent that is gone, in the list or in the file, wherever the
\* process stops and however often the settings are reset; and starting again changes nothing
\* of what applies to any domain.
THEOREM SettingsAreKept == Spec => SettingsKept
<1>1. SettingsInv /\ [Next]_vars =>
        [Settings!AgentsExist' /\ Settings!EffectiveStep]_vars
  <2> SUFFICES ASSUME SettingsInv, [Next]_vars
               PROVE  Settings!AgentsExist' /\ Settings!EffectiveStep
    OBVIOUS
  <2>1. SettingsInv'
    BY SettingsNext
  <2>2. /\ AgentsAmong(settings, DOMAIN agents)'
        /\ (settingsTable = settings \/ settingsTable = <<>>)'
    BY <2>1 DEF SettingsInv
  <2>3. AgentsAmong(settings', DOMAIN (agents')) /\ AgentsAmong(settingsTable', DOMAIN (agents'))
    BY <2>2, AlsoAmong
  <2>4. Settings!AgentsExist'
    BY <2>1, <2>3 DEF SettingsInv, AgentsAmong, Settings!AgentsExist
  <2>5. Settings!EffectiveStep
    BY AppliesAgain DEF Settings!EffectiveStep, Settings!EffectiveSame
  <2> QED
    BY <2>4, <2>5
<1> QED
  BY <1>1, SettingsAlways, PTL DEF Spec, SettingsKept
-----------------------------------------------------------------------------
(* Downloads: lists of rows *)

DRow == Downloads!Row
IdsOf(s) == {s[k].id : k \in DOMAIN s}

\* No identifier and no path twice.
OnceEach(s) == \A j, k \in DOMAIN s : j # k => s[j].id # s[k].id /\ s[j].path # s[k].path

\* Of the entries E and the rows T: those of one path are the same download, and there is no row
\* of an incognito download.
SameOwners(E, T) == \A j \in DOMAIN E, n \in DOMAIN T :
  /\ E[j].path = T[n].path => E[j].id = T[n].id
  /\ E[j].incognito => E[j].id # T[n].id

OpenRows(T) == \A n \in DOMAIN T : ~T[n].incognito
StoredAs(E, T) == \A j \in DOMAIN E : ~E[j].incognito => \E n \in DOMAIN T : T[n] = E[j]
Splits(E, T, f) == \A n \in DOMAIN T : IF n > f THEN T[n].id \notin IdsOf(E)
                                       ELSE ~T[n].complete => T[n].id \in IdsOf(E)

\* Nothing is of a later second than s, and what is of a later second than another comes before it.
\* The rows that have not been read are older than the second s, and not newer than any entry.
Latest(S, s) == \A k \in DOMAIN S : S[k].created <= s /\ \A j \in DOMAIN S : j < k => S[j].created >= S[k].created
Older(E, T, f, s) == \A n \in DOMAIN T : n > f =>
  T[n].created < s /\ \A j \in DOMAIN E : E[j].created >= T[n].created
InTime(E, T, f, s) == s \in Nat /\ Latest(E, s) /\ Latest(T, s) /\ Older(E, T, f, s)

\* What holds of the entries E, the rows T, the offset f and the second s when files can be moved.
WellKept(E, T, f, s) ==
  /\ E \in Seq(DRow) /\ T \in Seq(DRow) /\ f \in 0 .. Len(T)
  /\ OnceEach(E) /\ OnceEach(T) /\ SameOwners(E, T) /\ OpenRows(T)
  /\ StoredAs(E, T) /\ Splits(E, T, f) /\ InTime(E, T, f, s)

\* The list r has elements of s, in their order: that at i is the one at h[i] of s.
Picks(r, s, h) == /\ DOMAIN h = DOMAIN r
                  /\ \A i \in DOMAIN r : h[i] \in DOMAIN s /\ r[i] = s[h[i]]
                  /\ \A i, j \in DOMAIN r : i < j => h[i] < h[j]

\* What is selected from a list are elements of it, in their order, and all of those.
LEMMA SelectedPicks ==
  ASSUME NEW A, NEW s \in Seq(A), NEW K \in SUBSET (DOMAIN s)
  PROVE  /\ Downloads!Keep(s, K) \in Seq(A)
         /\ Picks(Downloads!Keep(s, K), s, InOrder(K))
         /\ \A k \in K : \E i \in DOMAIN Downloads!Keep(s, K) : InOrder(K)[i] = k
         /\ \A i \in DOMAIN Downloads!Keep(s, K) : InOrder(K)[i] \in K
<1> DEFINE r == Keep(s, K)
           h == InOrder(K)
<1>1. Downloads!Keep(s, K) = r
  <2>1. Downloads!Cardinality(K) = Cardinality(K) /\ Downloads!InOrder(K) = h
    BY Zenon DEF Downloads!InOrder, InOrder, Downloads!Cardinality, Cardinality
  <2> HIDE DEF h
  <2>2. r = [i \in 1 .. Cardinality(K) |-> s[h[i]]]
    BY DEF Keep, h
  <2> QED
    BY <2>1, <2>2 DEF Downloads!Keep
<1>2. /\ r \in Seq(A) /\ Enumerates(h, K) /\ DOMAIN r = 1 .. Cardinality(K)
      /\ \A i \in DOMAIN r : r[i] = s[h[i]]
  BY KeepIs
<1>3. DOMAIN s = 1 .. Len(s) /\ Len(s) \in Nat
  OBVIOUS
<1>4. \A k \in K : \E i \in 1 .. Cardinality(K) : h[i] = k
  BY <1>3, InOrderOnto
<1> HIDE DEF r, h
<1>5. /\ DOMAIN h = DOMAIN r /\ \A i \in DOMAIN r : h[i] \in K
      /\ \A i, j \in DOMAIN r : i < j => h[i] < h[j]
  BY <1>2 DEF Enumerates
<1>6. Picks(r, s, h)
  BY <1>2, <1>5 DEF Picks
<1> QED
  BY <1>1, <1>2, <1>4, <1>5, <1>6 DEF h, r

\* A list picks all of itself.
LEMMA PicksItself ==
  ASSUME NEW A, NEW s \in Seq(A)
  PROVE  Picks(s, s, [i \in DOMAIN s |-> i])
BY DEF Picks

\* What holds of the entries and the rows also holds of elements of both in their order, if no
\* entry loses its row and the offset separates them.
LEMMA PicksKept ==
  ASSUME NEW E, NEW T, NEW f, NEW s, WellKept(E, T, f, s),
         NEW D \in Seq(DRow), NEW U \in Seq(DRow), NEW e \in 0 .. Len(U),
         NEW h, Picks(D, E, h), NEW g, Picks(U, T, g), StoredAs(D, U), Splits(D, U, e),
         \A n \in DOMAIN U : n > e => g[n] > f
  PROVE  WellKept(D, U, e, s)
<1>1. \A i \in DOMAIN D : h[i] \in DOMAIN E /\ h[i] \in Nat /\ D[i] = E[h[i]] /\ i \in Nat
  BY DEF Picks, WellKept
<1>2. \A i \in DOMAIN U : g[i] \in DOMAIN T /\ g[i] \in Nat /\ U[i] = T[g[i]] /\ i \in Nat
  BY DEF Picks, WellKept
<1>3. \A i, j \in DOMAIN D : i # j => h[i] # h[j]
  <2> SUFFICES ASSUME NEW i \in DOMAIN D, NEW j \in DOMAIN D, i # j PROVE h[i] # h[j]
    OBVIOUS
  <2>1. i < j \/ j < i
    BY <1>1
  <2>2. (i < j => h[i] < h[j]) /\ (j < i => h[j] < h[i])
    BY DEF Picks
  <2> QED
    BY <1>1, <2>1, <2>2
<1>4. \A i, j \in DOMAIN U : i # j => g[i] # g[j]
  <2> SUFFICES ASSUME NEW i \in DOMAIN U, NEW j \in DOMAIN U, i # j PROVE g[i] # g[j]
    OBVIOUS
  <2>1. i < j \/ j < i
    BY <1>2
  <2>2. (i < j => g[i] < g[j]) /\ (j < i => g[j] < g[i])
    BY DEF Picks
  <2> QED
    BY <1>2, <2>1, <2>2
<1>5. OnceEach(D)
  <2> SUFFICES ASSUME NEW i \in DOMAIN D, NEW j \in DOMAIN D, i # j
               PROVE  D[i].id # D[j].id /\ D[i].path # D[j].path
    BY DEF OnceEach
  <2>1. h[i] \in DOMAIN E /\ h[j] \in DOMAIN E /\ h[i] # h[j] /\ D[i] = E[h[i]] /\ D[j] = E[h[j]]
    BY <1>1, <1>3
  <2> QED
    BY <2>1 DEF WellKept, OnceEach
<1>6. OnceEach(U)
  <2> SUFFICES ASSUME NEW i \in DOMAIN U, NEW j \in DOMAIN U, i # j
               PROVE  U[i].id # U[j].id /\ U[i].path # U[j].path
    BY DEF OnceEach
  <2>1. g[i] \in DOMAIN T /\ g[j] \in DOMAIN T /\ g[i] # g[j] /\ U[i] = T[g[i]] /\ U[j] = T[g[j]]
    BY <1>2, <1>4
  <2> QED
    BY <2>1 DEF WellKept, OnceEach
<1>7. SameOwners(D, U)
  <2> SUFFICES ASSUME NEW j \in DOMAIN D, NEW n \in DOMAIN U
               PROVE  /\ D[j].path = U[n].path => D[j].id = U[n].id
                      /\ D[j].incognito => D[j].id # U[n].id
    BY DEF SameOwners
  <2>1. h[j] \in DOMAIN E /\ g[n] \in DOMAIN T /\ D[j] = E[h[j]] /\ U[n] = T[g[n]]
    BY <1>1, <1>2
  <2> QED
    BY <2>1 DEF WellKept, SameOwners
<1>8. OpenRows(U)
  BY <1>2 DEF WellKept, OpenRows
<1>9. InTime(D, U, e, s)
  <2>1. InTime(E, T, f, s)
    BY DEF WellKept
  <2>2. Latest(D, s)
    <3> SUFFICES ASSUME NEW k \in DOMAIN D
                 PROVE  D[k].created <= s /\ \A j \in DOMAIN D : j < k => D[j].created >= D[k].created
      BY DEF Latest
    <3>1. h[k] \in DOMAIN E /\ D[k] = E[h[k]]
      BY <1>1
    <3>2. ASSUME NEW j \in DOMAIN D, j < k PROVE D[j].created >= D[k].created
      <4>1. h[j] \in DOMAIN E /\ D[j] = E[h[j]] /\ h[j] < h[k]
        BY <1>1, <3>2 DEF Picks
      <4> QED
        BY <2>1, <3>1, <4>1 DEF InTime, Latest
    <3> QED
      BY <2>1, <3>1, <3>2 DEF InTime, Latest
  <2>3. Latest(U, s)
    <3> SUFFICES ASSUME NEW k \in DOMAIN U
                 PROVE  U[k].created <= s /\ \A j \in DOMAIN U : j < k => U[j].created >= U[k].created
      BY DEF Latest
    <3>1. g[k] \in DOMAIN T /\ U[k] = T[g[k]]
      BY <1>2
    <3>2. ASSUME NEW j \in DOMAIN U, j < k PROVE U[j].created >= U[k].created
      <4>1. g[j] \in DOMAIN T /\ U[j] = T[g[j]] /\ g[j] < g[k]
        BY <1>2, <3>2 DEF Picks
      <4> QED
        BY <2>1, <3>1, <4>1 DEF InTime, Latest
    <3> QED
      BY <2>1, <3>1, <3>2 DEF InTime, Latest
  <2>4. Older(D, U, e, s)
    <3> SUFFICES ASSUME NEW n \in DOMAIN U, n > e
                 PROVE  U[n].created < s /\ \A j \in DOMAIN D : D[j].created >= U[n].created
      BY DEF Older
    <3>1. g[n] \in DOMAIN T /\ g[n] > f /\ U[n] = T[g[n]]
      BY <1>2
    <3>2. T[g[n]].created < s /\ \A j \in DOMAIN E : E[j].created >= T[g[n]].created
      BY <2>1, <3>1 DEF InTime, Older
    <3> QED
      BY <1>1, <3>1, <3>2
  <2> QED
    BY <2>1, <2>2, <2>3, <2>4 DEF InTime
<1> QED
  BY <1>5, <1>6, <1>7, <1>8, <1>9 DEF WellKept
\* The list D has the elements of E, in their order, but that at k.
LosesOne(D, E, k) == /\ D \in Seq(DRow) /\ \E h : Picks(D, E, h)
                     /\ IdsOf(D) = IdsOf(E) \ {E[k].id}
                     /\ \A j \in DOMAIN D : D[j].id # E[k].id /\ \E i \in DOMAIN E : D[j] = E[i]

LEMMA WithoutOne ==
  ASSUME NEW E, NEW T, NEW f, NEW s, WellKept(E, T, f, s), NEW k \in DOMAIN E
  PROVE  LosesOne(Downloads!Keep(E, DOMAIN E \ {k}), E, k)
<1> DEFINE K == DOMAIN E \ {k}
           D == Downloads!Keep(E, K)
           h == InOrder(K)
<1>1. E \in Seq(DRow) /\ OnceEach(E)
  BY DEF WellKept
<1>2. /\ D \in Seq(DRow) /\ Picks(D, E, h)
      /\ \A i \in K : \E j \in DOMAIN D : h[j] = i
      /\ \A j \in DOMAIN D : h[j] \in K
  <2>1. K \in SUBSET DOMAIN E
    OBVIOUS
  <2> HIDE DEF K
  <2> QED
    BY <1>1, <2>1, SelectedPicks
<1> HIDE DEF D, h
<1>3. \A j \in DOMAIN D : D[j] = E[h[j]]
  BY <1>2 DEF Picks
<1>4. \A j \in DOMAIN D : D[j].id # E[k].id /\ \E i \in DOMAIN E : D[j] = E[i]
  BY <1>1, <1>2, <1>3 DEF OnceEach
<1>5. IdsOf(D) \subseteq IdsOf(E) \ {E[k].id}
  BY <1>4 DEF IdsOf
<1>6. ASSUME NEW x \in IdsOf(E) \ {E[k].id} PROVE x \in IdsOf(D)
  <2>1. PICK i \in DOMAIN E : E[i].id = x
    BY DEF IdsOf
  <2>2. i \in K
    BY <2>1
  <2>3. PICK j \in DOMAIN D : h[j] = i
    BY <1>2, <2>2
  <2> QED
    BY <1>3, <2>1, <2>3 DEF IdsOf
<1> QED
  BY <1>2, <1>4, <1>5, <1>6 DEF D, LosesOne

\* An incognito entry goes: it has no row.
LEMMA IncognitoGoes ==
  ASSUME NEW E, NEW T, NEW f, NEW s, WellKept(E, T, f, s), NEW k \in DOMAIN E, E[k].incognito
  PROVE  WellKept(Downloads!Keep(E, DOMAIN E \ {k}), T, f, s)
<1> DEFINE D == Downloads!Keep(E, DOMAIN E \ {k})
<1>1. /\ D \in Seq(DRow) /\ \E h : Picks(D, E, h)
      /\ IdsOf(D) = IdsOf(E) \ {E[k].id}
      /\ \A j \in DOMAIN D : D[j].id # E[k].id /\ \E i \in DOMAIN E : D[j] = E[i]
  <2>1. LosesOne(D, E, k)
    BY WithoutOne
  <2> HIDE DEF D
  <2> QED
    BY <2>1 DEF LosesOne
<1> HIDE DEF D
<1>2. StoredAs(D, T)
  BY <1>1 DEF WellKept, StoredAs
<1>3. \A n \in DOMAIN T : T[n].id # E[k].id
  BY DEF WellKept, SameOwners
<1>4. Splits(D, T, f)
  BY <1>1, <1>3 DEF WellKept, Splits
<1>5. PICK h : Picks(D, E, h)
  BY <1>1
<1>6. T \in Seq(DRow) /\ f \in 0 .. Len(T)
  BY DEF WellKept
<1>7. Picks(T, T, [i \in DOMAIN T |-> i]) /\ \A n \in DOMAIN T : n > f => [i \in DOMAIN T |-> i][n] > f
  BY <1>6, PicksItself
<1> QED
  BY <1>1, <1>2, <1>4, <1>5, <1>6, <1>7, PicksKept DEF D

\* The elements of a list at all positions but n.
LEMMA OneLess ==
  ASSUME NEW A, NEW s \in Seq(A), NEW n \in DOMAIN s
  PROVE  LET r == Downloads!Keep(s, DOMAIN s \ {n})
             g == [i \in 1 .. Len(s) - 1 |-> IF i < n THEN i ELSE i + 1]
         IN  r \in Seq(A) /\ Len(r) = Len(s) - 1 /\ Picks(r, s, g)
<1> DEFINE K == DOMAIN s \ {n}
           c == Len(s) - 1
           r == Downloads!Keep(s, K)
           g == [i \in 1 .. c |-> IF i < n THEN i ELSE i + 1]
<1>1. Len(s) \in Nat /\ DOMAIN s = 1 .. Len(s) /\ n \in 1 .. Len(s) /\ c \in Nat
  OBVIOUS
<1>2. K \in SUBSET (1 .. Len(s)) /\ K \in SUBSET (DOMAIN s)
  BY <1>1
<1>3. g \in [1 .. c -> K]
  BY <1>1
<1>4. \A i, j \in 1 .. c : i < j => g[i] < g[j]
  BY <1>1
<1>5. \A k \in K : \E i \in 1 .. c : g[i] = k
  <2> SUFFICES ASSUME NEW k \in K PROVE \E i \in 1 .. c : g[i] = k
    OBVIOUS
  <2>1. CASE k < n
    <3>1. k \in 1 .. c /\ g[k] = k
      BY <1>1, <2>1
    <3> QED
      BY <3>1
  <2>2. CASE ~(k < n)
    <3>1. k - 1 \in 1 .. c /\ g[k - 1] = k
      BY <1>1, <2>2
    <3> QED
      BY <3>1
  <2> QED
    BY <2>1, <2>2
<1> HIDE DEF g, c
<1>6. InOrder(K) = g
  <2> HIDE DEF K
  <2> QED
    BY <1>1, <1>2, <1>3, <1>4, <1>5, InOrderUnique
<1>7. r \in Seq(A) /\ Picks(r, s, g)
  <2>1. r \in Seq(A) /\ Picks(r, s, InOrder(K))
    BY <1>2, SelectedPicks
  <2> QED
    BY <1>6, <2>1
<1>8. Len(r) = c
  <2>1. DOMAIN r = DOMAIN g /\ DOMAIN g = 1 .. c
    BY <1>3, <1>7 DEF Picks
  <2> HIDE DEF r
  <2> QED
    BY <1>1, <1>7, <2>1
<1> QED
  BY <1>7, <1>8 DEF g, c

\* An entry goes with its row, which has been read: the next page starts one row earlier.
LEMMA StoredGoes ==
  ASSUME NEW E, NEW T, NEW f, NEW s, WellKept(E, T, f, s), NEW k \in DOMAIN E,
         NEW n \in DOMAIN T, T[n] = E[k]
  PROVE  WellKept(Downloads!Keep(E, DOMAIN E \ {k}), Downloads!Keep(T, DOMAIN T \ {n}), f - 1, s)
<1> DEFINE D == Downloads!Keep(E, DOMAIN E \ {k})
           U == Downloads!Keep(T, DOMAIN T \ {n})
           g == [i \in 1 .. Len(T) - 1 |-> IF i < n THEN i ELSE i + 1]
<1>1. /\ D \in Seq(DRow) /\ \E h : Picks(D, E, h)
      /\ IdsOf(D) = IdsOf(E) \ {E[k].id}
      /\ \A j \in DOMAIN D : D[j].id # E[k].id /\ \E i \in DOMAIN E : D[j] = E[i]
  <2>1. LosesOne(D, E, k)
    BY WithoutOne
  <2> HIDE DEF D
  <2> QED
    BY <2>1 DEF LosesOne
<1>2. /\ T \in Seq(DRow) /\ Len(T) \in Nat /\ DOMAIN T = 1 .. Len(T)
      /\ f \in 0 .. Len(T) /\ n \in 1 .. Len(T) /\ f \in Nat
  BY DEF WellKept
<1> HIDE DEF D
<1>3. U \in Seq(DRow) /\ Len(U) = Len(T) - 1 /\ Picks(U, T, g)
  <2>1. T \in Seq(DRow) /\ n \in DOMAIN T
    BY <1>2
  <2> QED
    BY ONLY <2>1, OneLess
<1> HIDE DEF U
<1>4. E[k].id \in IdsOf(E) /\ n <= f
  <2>1. E[k].id \in IdsOf(E)
    BY DEF IdsOf
  <2>2. ~(n > f)
    BY <2>1 DEF WellKept, Splits
  <2> QED
    BY <1>2, <2>1, <2>2
<1>5. f - 1 \in 0 .. Len(U)
  BY <1>2, <1>3, <1>4
<1>6. DOMAIN U = 1 .. Len(T) - 1
  BY <1>2, <1>3
<1>7. \A i \in DOMAIN U : /\ g[i] \in DOMAIN T /\ g[i] # n /\ U[i] = T[g[i]]
                          /\ i > f - 1 <=> g[i] > f
  <2> SUFFICES ASSUME NEW i \in 1 .. Len(T) - 1
               PROVE  g[i] \in DOMAIN T /\ g[i] # n /\ U[i] = T[g[i]] /\ (i > f - 1 <=> g[i] > f)
    BY <1>6
  <2>1. U[i] = T[g[i]]
    BY <1>3, <1>6 DEF Picks
  <2>2. g[i] = IF i < n THEN i ELSE i + 1
    OBVIOUS
  <2> QED
    BY <1>2, <1>4, <2>1, <2>2
<1>8. \A i \in DOMAIN U : U[i].id # E[k].id
  <2> SUFFICES ASSUME NEW i \in DOMAIN U PROVE U[i].id # E[k].id
    OBVIOUS
  <2>1. g[i] \in DOMAIN T /\ g[i] # n /\ U[i] = T[g[i]]
    BY <1>7
  <2> HIDE DEF g
  <2> QED
    BY <2>1 DEF WellKept, OnceEach
<1>9. Splits(D, U, f - 1)
  <2> SUFFICES ASSUME NEW i \in DOMAIN U
               PROVE  IF i > f - 1 THEN U[i].id \notin IdsOf(D)
                      ELSE ~U[i].complete => U[i].id \in IdsOf(D)
    BY DEF Splits
  <2>1. IF g[i] > f THEN T[g[i]].id \notin IdsOf(E)
        ELSE ~T[g[i]].complete => T[g[i]].id \in IdsOf(E)
    BY <1>7 DEF WellKept, Splits
  <2> HIDE DEF g
  <2> QED
    BY <1>1, <1>7, <1>8, <2>1
<1>10. StoredAs(D, U)
  <2> SUFFICES ASSUME NEW j \in DOMAIN D, ~D[j].incognito
               PROVE  \E i \in DOMAIN U : U[i] = D[j]
    BY DEF StoredAs
  <2>1. PICK m \in DOMAIN T : T[m] = D[j]
    BY <1>1 DEF WellKept, StoredAs
  <2>2. m # n
    BY <1>1, <2>1
  <2>3. PICK i \in DOMAIN U : g[i] = m
    <3>1. CASE m < n
      <4>1. m \in DOMAIN U /\ g[m] = m
        BY <1>2, <1>6, <3>1
      <4> QED
        BY <4>1
    <3>2. CASE ~(m < n)
      <4>1. m - 1 \in DOMAIN U /\ g[m - 1] = m
        BY <1>2, <1>6, <2>2, <3>2
      <4> QED
        BY <4>1
    <3> QED
      BY <3>1, <3>2
  <2> QED
    BY <1>7, <2>1, <2>3
<1>11. PICK h : Picks(D, E, h)
  BY <1>1
<1>12. \A i \in DOMAIN U : i > f - 1 => g[i] > f
  BY <1>7
<1> HIDE DEF g
<1> QED
  BY <1>1, <1>3, <1>5, <1>9, <1>10, <1>11, <1>12, PicksKept DEF D, U
\* All the incognito entries go.
LEMMA AllIncognitoGo ==
  ASSUME NEW E, NEW T, NEW f, NEW s, WellKept(E, T, f, s)
  PROVE  WellKept(Downloads!Keep(E, {k \in DOMAIN E : ~E[k].incognito}), T, f, s)
<1> DEFINE K == {k \in DOMAIN E : ~E[k].incognito}
           D == Downloads!Keep(E, K)
           h == InOrder(K)
<1>1. E \in Seq(DRow) /\ T \in Seq(DRow) /\ f \in 0 .. Len(T)
  BY DEF WellKept
<1>2. /\ D \in Seq(DRow) /\ Picks(D, E, h)
      /\ \A i \in K : \E j \in DOMAIN D : h[j] = i
      /\ \A j \in DOMAIN D : h[j] \in K
  <2>1. K \in SUBSET (DOMAIN E)
    OBVIOUS
  <2> HIDE DEF K
  <2> QED
    BY <1>1, <2>1, SelectedPicks
<1> HIDE DEF D, h
<1>3. \A j \in DOMAIN D : D[j] = E[h[j]]
  BY <1>2 DEF Picks
<1>4. \A j \in DOMAIN D : \E i \in DOMAIN E : D[j] = E[i]
  BY <1>2, <1>3
<1>5. StoredAs(D, T)
  BY <1>4 DEF WellKept, StoredAs
<1>6. IdsOf(D) \subseteq IdsOf(E)
  BY <1>4 DEF IdsOf
<1>7. ASSUME NEW n \in DOMAIN T, T[n].id \in IdsOf(E) PROVE T[n].id \in IdsOf(D)
  <2>1. PICK i \in DOMAIN E : E[i].id = T[n].id
    BY <1>7 DEF IdsOf
  <2>2. i \in K
    BY <2>1 DEF WellKept, SameOwners
  <2>3. PICK j \in DOMAIN D : h[j] = i
    BY <1>2, <2>2
  <2> QED
    BY <1>3, <2>1, <2>3 DEF IdsOf
<1>8. Splits(D, T, f)
  BY <1>6, <1>7 DEF WellKept, Splits
<1>9. Picks(T, T, [i \in DOMAIN T |-> i]) /\ \A n \in DOMAIN T : n > f => [i \in DOMAIN T |-> i][n] > f
  BY <1>1, PicksItself
<1> QED
  BY <1>1, <1>2, <1>5, <1>8, <1>9, PicksKept DEF D

\* The list r of elements of A is s with x before it.
IsPrepended(r, s, x, A) ==
  /\ r \in Seq(A) /\ Len(r) = Len(s) + 1 /\ DOMAIN r = 1 .. Len(s) + 1 /\ r[1] = x
  /\ \A i \in 1 .. Len(s) + 1 : i # 1 => i - 1 \in DOMAIN s /\ r[i] = s[i - 1]
  /\ \A i \in DOMAIN s : i + 1 \in DOMAIN r /\ r[i + 1] = s[i]

\* The element put at the front of a list.
LEMMA Prepended ==
  ASSUME NEW A, NEW s \in Seq(A), NEW x \in A
  PROVE  IsPrepended(<<x>> \o s, s, x, A)
BY DEF IsPrepended

\* The list r is s with x at position q + 1.
IsInserted(r, s, q, x) ==
  /\ Len(r) = Len(s) + 1 /\ DOMAIN r = 1 .. Len(s) + 1 /\ r[q + 1] = x
  /\ \A i \in DOMAIN r : \/ i = q + 1
                         \/ i <= q /\ i \in DOMAIN s /\ r[i] = s[i]
                         \/ i > q + 1 /\ i - 1 \in DOMAIN s /\ r[i] = s[i - 1]
  /\ \A i \in DOMAIN s : IF i <= q THEN i \in DOMAIN r /\ r[i] = s[i] ELSE i + 1 \in DOMAIN r /\ r[i + 1] = s[i]

LEMMA InsertedAt ==
  ASSUME NEW A, NEW s \in Seq(A), NEW q \in 0 .. Len(s), NEW x \in A
  PROVE  /\ Downloads!InsertAt(s, q + 1, x) \in Seq(A)
         /\ IsInserted(Downloads!InsertAt(s, q + 1, x), s, q, x)
<1> DEFINE a == SubSeq(s, 1, q)
           c == SubSeq(s, q + 1, Len(s))
           r == (a \o <<x>>) \o c
<1>1. Len(s) \in Nat /\ DOMAIN s = 1 .. Len(s) /\ q \in Nat /\ q <= Len(s) /\ (q + 1) - 1 = q
  OBVIOUS
<1>2. a \in Seq(A) /\ Len(a) = q /\ \A i \in 1 .. q : a[i] = s[i]
  BY <1>1
<1>3. c \in Seq(A) /\ Len(c) = Len(s) - q /\ \A i \in 1 .. Len(s) - q : c[i] = s[q + i]
  <2>1. Len(s) - (q + 1) + 1 = Len(s) - q /\ Len(s) - q \in Nat
    BY <1>1
  <2>2. c \in Seq(A) /\ Len(c) = Len(s) - q
    <3>1. CASE q = Len(s)
      BY <1>1, <3>1
    <3>2. CASE q < Len(s)
      <4>1. q + 1 \in 1 .. Len(s)
        BY <1>1, <3>2
      <4>2. \A i \in 1 .. (Len(s) - (q + 1)) + 1 : s[((q + 1) + i) - 1] \in A
        BY <1>1, <4>1
      <4> QED
        BY <1>1, <2>1, <4>1, <4>2
    <3> HIDE DEF a, c
    <3>3. q = Len(s) \/ q < Len(s)
      <4>1. \A m, n \in Nat : m <= n => m = n \/ m < n
        OBVIOUS
      <4> QED
        BY ONLY <1>1, <4>1
    <3> QED
      BY ONLY <3>1, <3>2, <3>3
  <2>3. ASSUME NEW i \in 1 .. Len(s) - q PROVE c[i] = s[q + i]
    <3>1. (q + 1) + i - 1 = q + i
      BY <1>1
    <3> QED
      BY <1>1, <2>1, <3>1
  <2> QED
    BY <2>2, <2>3
<1> HIDE DEF a, c
<1>4. <<x>> \in Seq(A) /\ Len(<<x>>) = 1 /\ <<x>>[1] = x
  OBVIOUS
<1>5. PICK d : d = a \o <<x>>
  OBVIOUS
<1>6. d \in Seq(A) /\ Len(d) = q + 1 /\ d[q + 1] = x /\ \A i \in 1 .. q : d[i] = s[i]
  BY <1>1, <1>2, <1>5
<1>7. /\ r \in Seq(A) /\ Len(r) = Len(s) + 1 /\ DOMAIN r = 1 .. Len(s) + 1
      /\ \A i \in 1 .. q + 1 : r[i] = d[i]
      /\ \A i \in 1 .. Len(s) - q : r[(q + 1) + i] = c[i]
  BY <1>1, <1>3, <1>5, <1>6
<1> HIDE DEF r
<1>8. ASSUME NEW i \in 1 .. Len(s) + 1
      PROVE  \/ i = q + 1
             \/ i <= q /\ i \in 1 .. Len(s) /\ r[i] = s[i]
             \/ i > q + 1 /\ i - 1 \in 1 .. Len(s) /\ r[i] = s[i - 1]
  <2>1. CASE i <= q
    BY <1>1, <1>6, <1>7, <2>1
  <2>2. CASE i > q + 1
    <3>1. PICK n \in 1 .. Len(s) - q : i = (q + 1) + n /\ i - 1 = q + n
      <4>1. i - (q + 1) \in 1 .. Len(s) - q /\ i = (q + 1) + (i - (q + 1)) /\ i - 1 = q + (i - (q + 1))
        BY <1>1, <2>2
      <4> QED
        BY <4>1
    <3>2. r[i] = c[n] /\ c[n] = s[q + n]
      BY <1>3, <1>7, <3>1
    <3>3. q + n \in 1 .. Len(s)
      BY <1>1
    <3> QED
      BY <2>2, <3>1, <3>2, <3>3
  <2> QED
    BY <1>1, <2>1, <2>2
<1>9. ASSUME NEW i \in 1 .. Len(s)
      PROVE  IF i <= q THEN i \in 1 .. Len(s) + 1 /\ r[i] = s[i]
                       ELSE i + 1 \in 1 .. Len(s) + 1 /\ r[i + 1] = s[i]
  <2>1. CASE i <= q
    BY <1>1, <1>8, <2>1
  <2>2. CASE ~(i <= q)
    <3>1. i + 1 \in 1 .. Len(s) + 1 /\ i + 1 > q + 1 /\ (i + 1) - 1 = i
      BY <1>1, <2>2
    <3> QED
      BY <1>1, <1>8, <2>2, <3>1
  <2> QED
    BY <2>1, <2>2
<1>10. r[q + 1] = x
  BY <1>1, <1>6, <1>7
<1>11. Downloads!InsertAt(s, q + 1, x) = r
  BY <1>1 DEF Downloads!InsertAt, r, a, c
<1> QED
  BY <1>1, <1>7, <1>8, <1>9, <1>10, <1>11 DEF IsInserted

\* A download is listed first, and stored, unless it is incognito, after the rows of its second.
LEMMA IsAdded ==
  ASSUME NEW E, NEW T, NEW f, NEW s, WellKept(E, T, f, s), NEW e \in DRow,
         \A j \in DOMAIN E : E[j].id # e.id /\ E[j].path # e.path,
         \A n \in DOMAIN T : T[n].id # e.id /\ T[n].path # e.path,
         s <= e.created,
         NEW q \in 0 .. Len(T), \A n \in DOMAIN T : n <= q <=> T[n].created >= e.created,
         NEW X \in Seq(DRow), IsInserted(X, T, q, e)
  PROVE  IF e.incognito THEN WellKept(<<e>> \o E, T, f, e.created)
         ELSE WellKept(<<e>> \o E, X, f + 1, e.created)
<1> DEFINE D == <<e>> \o E
           U == IF e.incognito THEN T ELSE X
           c == IF e.incognito THEN f ELSE f + 1
           u == e.created
           place(m) == IF e.incognito \/ m <= q THEN m ELSE m + 1
<1>1. /\ E \in Seq(DRow) /\ T \in Seq(DRow) /\ f \in 0 .. Len(T) /\ Len(T) \in Nat /\ DOMAIN T = 1 .. Len(T)
      /\ DOMAIN E = 1 .. Len(E) /\ Len(E) \in Nat /\ s \in Nat /\ u \in Nat /\ s <= u /\ f \in Nat /\ q \in Nat
      /\ InTime(E, T, f, s)
  BY DEF WellKept, InTime, DRow, Downloads!Row
<1>2. /\ D \in Seq(DRow) /\ DOMAIN D = 1 .. Len(E) + 1 /\ D[1] = e
      /\ \A i \in DOMAIN D : i # 1 => i - 1 \in DOMAIN E /\ D[i] = E[i - 1]
      /\ \A i \in DOMAIN E : i + 1 \in DOMAIN D /\ D[i + 1] = E[i]
  <2>1. IsPrepended(D, E, e, DRow)
    BY <1>1, Prepended
  <2> HIDE DEF D
  <2> QED
    BY <1>1, <2>1 DEF IsPrepended
\* the rows of its second have been read
<1>3. q <= f
  <2>1. \A n \in DOMAIN T : n > f => T[n].created < u /\ T[n].created \in Nat
    <3>1. \A x \in DRow : x.created \in Nat
      BY DEF DRow, Downloads!Row
    <3>2. \A n \in DOMAIN T : n > f => T[n].created < s /\ T[n] \in DRow
      BY <1>1 DEF InTime, Older
    <3> HIDE DEF u
    <3> QED
      BY <1>1, <3>1, <3>2
  <2>2. \A n \in DOMAIN T : n <= q => T[n].created >= u
    OBVIOUS
  <2> SUFFICES ASSUME q > f PROVE FALSE
    BY <1>1
  <2>3. q \in DOMAIN T
    BY <1>1
  <2> HIDE DEF u
  <2>4. T[q].created < u /\ T[q].created \in Nat
    BY <2>1, <2>3
  <2>5. T[q].created >= u
    <3>1. q <= q
      BY <1>1
    <3> QED
      BY <2>2, <2>3, <3>1
  <2> QED
    BY <1>1, <2>4, <2>5
<1>4. /\ U \in Seq(DRow) /\ c \in 0 .. Len(U) /\ c \in Nat
      /\ \A n \in DOMAIN U : n \in Nat
      /\ ~e.incognito => q + 1 \in DOMAIN U /\ U[q + 1] = e
      /\ \A m \in DOMAIN T : place(m) \in DOMAIN U /\ U[place(m)] = T[m]
  BY <1>1 DEF IsInserted
<1>5. \A n \in DOMAIN U : \/ ~e.incognito /\ n = q + 1 /\ U[n] = e
                          \/ \E m \in DOMAIN T : U[n] = T[m] /\ n = place(m)
  <2>1. CASE e.incognito
    BY <2>1
  <2>2. ASSUME ~e.incognito, NEW n \in DOMAIN U, n # q + 1
        PROVE  \E m \in DOMAIN T : U[n] = T[m] /\ n = place(m)
    <3>1. \/ n <= q /\ n \in DOMAIN T /\ U[n] = T[n]
          \/ n > q + 1 /\ n - 1 \in DOMAIN T /\ U[n] = T[n - 1]
      BY <2>2 DEF IsInserted
    <3>2. n \in Nat
      BY <1>4
    <3>3. CASE n <= q
      <4>1. n = place(n)
        BY <3>3
      <4>2. ~(n > q + 1)
        BY <1>1, <3>2, <3>3
      <4>3. n \in DOMAIN T /\ U[n] = T[n]
        BY <3>1, <4>2
      <4> QED
        BY <4>1, <4>3
    <3>4. CASE n > q + 1
      <4>1. n - 1 \in DOMAIN T /\ U[n] = T[n - 1]
        BY <1>1, <3>1, <3>2, <3>4
      <4>2. n = place(n - 1)
        BY <1>1, <2>2, <3>2, <3>4
      <4> QED
        BY <4>1, <4>2
    <3> QED
      BY <3>1, <3>3, <3>4
  <2> QED
    BY <1>4, <2>1, <2>2
<1>6. \A l, m \in DOMAIN T : place(l) < place(m) <=> l < m
  BY <1>1
<1>7. \A m \in DOMAIN T : /\ place(m) > c <=> m > f
                          /\ ~e.incognito => (place(m) < q + 1 <=> m <= q) /\ (place(m) > q + 1 <=> m > q)
  BY <1>1, <1>3
<1>8. ~e.incognito => ~(q + 1 > c)
  BY <1>1, <1>3
<1> HIDE DEF D, U, c, place
<1>9. OnceEach(D)
  <2> SUFFICES ASSUME NEW j \in DOMAIN D, NEW k \in DOMAIN D, j # k
               PROVE  D[j].id # D[k].id /\ D[j].path # D[k].path
    BY DEF OnceEach
  <2>1. CASE j = 1
    BY <1>2, <2>1
  <2>2. CASE k = 1
    BY <1>2, <2>2
  <2>3. CASE j # 1 /\ k # 1
    <3>1. j - 1 \in DOMAIN E /\ k - 1 \in DOMAIN E /\ j - 1 # k - 1
          /\ D[j] = E[j - 1] /\ D[k] = E[k - 1]
      BY <1>2, <2>3
    <3> QED
      BY <3>1 DEF WellKept, OnceEach
  <2> QED
    BY <2>1, <2>2, <2>3
<1>10. OnceEach(U)
  <2> SUFFICES ASSUME NEW j \in DOMAIN U, NEW k \in DOMAIN U, j # k
               PROVE  U[j].id # U[k].id /\ U[j].path # U[k].path
    BY DEF OnceEach
  <2>1. CASE ~e.incognito /\ j = q + 1
    <3>1. PICK m \in DOMAIN T : U[k] = T[m]
      BY <1>5, <2>1
    <3> QED
      BY <1>4, <2>1, <3>1
  <2>2. CASE ~e.incognito /\ k = q + 1
    <3>1. PICK m \in DOMAIN T : U[j] = T[m]
      BY <1>5, <2>2
    <3> QED
      BY <1>4, <2>2, <3>1
  <2>3. ASSUME NEW l \in DOMAIN T, NEW m \in DOMAIN T, U[j] = T[l], U[k] = T[m], j = place(l), k = place(m)
        PROVE  U[j].id # U[k].id /\ U[j].path # U[k].path
    <3>1. l # m
      BY <2>3
    <3> QED
      BY <2>3, <3>1 DEF WellKept, OnceEach
  <2> QED
    BY <1>5, <2>1, <2>2, <2>3
<1>11. SameOwners(D, U)
  <2> SUFFICES ASSUME NEW j \in DOMAIN D, NEW n \in DOMAIN U
               PROVE  /\ D[j].path = U[n].path => D[j].id = U[n].id
                      /\ D[j].incognito => D[j].id # U[n].id
    BY DEF SameOwners
  <2>1. CASE ~e.incognito /\ U[n] = e
    <3>1. CASE j = 1
      BY <1>2, <2>1, <3>1
    <3>2. CASE j # 1
      BY <1>2, <2>1, <3>2
    <3> QED
      BY <3>1, <3>2
  <2>2. ASSUME NEW m \in DOMAIN T, U[n] = T[m]
        PROVE  /\ D[j].path = U[n].path => D[j].id = U[n].id
               /\ D[j].incognito => D[j].id # U[n].id
    <3>1. CASE j = 1
      BY <1>2, <2>2, <3>1
    <3>2. CASE j # 1
      BY <1>2, <2>2, <3>2 DEF WellKept, SameOwners
    <3> QED
      BY <3>1, <3>2
  <2> QED
    BY <1>5, <2>1, <2>2
<1>12. OpenRows(U)
  <2> SUFFICES ASSUME NEW n \in DOMAIN U PROVE ~U[n].incognito
    BY DEF OpenRows
  <2> QED
    BY <1>5 DEF WellKept, OpenRows
<1>13. StoredAs(D, U)
  <2> SUFFICES ASSUME NEW j \in DOMAIN D, ~D[j].incognito PROVE \E n \in DOMAIN U : U[n] = D[j]
    BY DEF StoredAs
  <2>1. CASE j = 1
    BY <1>2, <1>4, <2>1
  <2>2. CASE j # 1
    <3>1. j - 1 \in DOMAIN E /\ D[j] = E[j - 1]
      BY <1>2, <2>2
    <3>2. PICK n \in DOMAIN T : T[n] = D[j]
      BY <3>1 DEF WellKept, StoredAs
    <3> QED
      BY <1>4, <3>2
  <2> QED
    BY <2>1, <2>2
<1>14. IdsOf(D) = IdsOf(E) \cup {e.id}
  <2>1. ASSUME NEW x \in IdsOf(D) PROVE x \in IdsOf(E) \cup {e.id}
    <3>1. PICK j \in DOMAIN D : x = D[j].id
      BY DEF IdsOf
    <3> QED
      BY <1>2, <3>1 DEF IdsOf
  <2>2. 1 \in DOMAIN D
    BY <1>1, <1>2
  <2>3. ASSUME NEW x \in IdsOf(E) PROVE x \in IdsOf(D)
    <3>1. PICK j \in DOMAIN E : x = E[j].id
      BY DEF IdsOf
    <3> QED
      BY <1>2, <3>1 DEF IdsOf
  <2>4. e.id \in IdsOf(D)
    BY <1>2, <2>2 DEF IdsOf
  <2> QED
    BY <2>1, <2>3, <2>4
<1>15. Splits(D, U, c)
  <2> SUFFICES ASSUME NEW n \in DOMAIN U
               PROVE  IF n > c THEN U[n].id \notin IdsOf(D)
                      ELSE ~U[n].complete => U[n].id \in IdsOf(D)
    BY DEF Splits
  <2>1. CASE ~e.incognito /\ n = q + 1 /\ U[n] = e
    BY <1>8, <1>14, <2>1
  <2>2. ASSUME NEW m \in DOMAIN T, U[n] = T[m], n = place(m)
        PROVE  IF n > c THEN U[n].id \notin IdsOf(D)
               ELSE ~U[n].complete => U[n].id \in IdsOf(D)
    <3>1. n > c <=> m > f
      BY <1>7, <2>2
    <3>2. T[m].id # e.id
      OBVIOUS
    <3>3. IF m > f THEN T[m].id \notin IdsOf(E) ELSE ~T[m].complete => T[m].id \in IdsOf(E)
      BY DEF WellKept, Splits
    <3> QED
      BY <1>14, <2>2, <3>1, <3>2, <3>3
  <2> QED
    BY <1>5, <2>1, <2>2
<1>16. InTime(D, U, c, u)
  <2>1. /\ \A j \in DOMAIN E : E[j].created \in Nat /\ E[j].created <= u
        /\ \A m \in DOMAIN T : T[m].created \in Nat /\ T[m].created <= u
    <3>1. \A x \in DRow : x.created \in Nat
      BY DEF DRow, Downloads!Row
    <3>2. \A j \in DOMAIN E : E[j] \in DRow /\ E[j].created <= s
      BY <1>1 DEF InTime, Latest
    <3>3. \A m \in DOMAIN T : T[m] \in DRow /\ T[m].created <= s
      BY <1>1 DEF InTime, Latest
    <3>4. \A x \in Nat : x <= s => x <= u
      BY <1>1
    <3> HIDE DEF u
    <3> QED
      BY <3>1, <3>2, <3>3, <3>4
  <2>2. e.created = u
    OBVIOUS
  <2>3. \A m \in DOMAIN T : m <= q => T[m].created = u
    BY <1>1, <2>1
  <2> HIDE DEF u
  <2>4. Latest(D, u)
    <3> SUFFICES ASSUME NEW k \in DOMAIN D
                 PROVE  D[k].created <= u /\ \A j \in DOMAIN D : j < k => D[j].created >= D[k].created
      BY DEF Latest
    <3>1. CASE k = 1
      BY <1>1, <1>2, <2>2, <3>1
    <3>2. CASE k # 1
      <4>1. k - 1 \in DOMAIN E /\ D[k] = E[k - 1]
        BY <1>2, <3>2
      <4>2. ASSUME NEW j \in DOMAIN D, j < k PROVE D[j].created >= D[k].created
        <5>1. CASE j = 1
          BY <1>1, <1>2, <2>1, <2>2, <4>1, <5>1
        <5>2. CASE j # 1
          <6>1. j - 1 \in DOMAIN E /\ D[j] = E[j - 1] /\ j - 1 < k - 1
            BY <1>2, <4>2, <5>2
          <6> QED
            BY <1>1, <4>1, <6>1 DEF InTime, Latest
        <5> QED
          BY <5>1, <5>2
      <4> QED
        BY <2>1, <4>1, <4>2
    <3> QED
      BY <3>1, <3>2
  <2>5. Latest(U, u)
    <3> SUFFICES ASSUME NEW k \in DOMAIN U
                 PROVE  U[k].created <= u /\ \A j \in DOMAIN U : j < k => U[j].created >= U[k].created
      BY DEF Latest
    <3>1. U[k].created <= u /\ U[k].created \in Nat
      BY <1>1, <1>5, <2>1, <2>2
    <3>2. ASSUME NEW j \in DOMAIN U, j < k PROVE U[j].created >= U[k].created
      <4>1. CASE ~e.incognito /\ j = q + 1 /\ U[j] = e
        BY <1>1, <2>2, <3>1, <4>1
      <4>2. ASSUME NEW l \in DOMAIN T, U[j] = T[l], j = place(l) PROVE U[j].created >= U[k].created
        <5>1. CASE ~e.incognito /\ k = q + 1 /\ U[k] = e
          <6>1. l <= q
            BY <1>7, <3>2, <4>2, <5>1
          <6> QED
            BY <1>1, <2>2, <2>3, <4>2, <5>1, <6>1
        <5>2. ASSUME NEW m \in DOMAIN T, U[k] = T[m], k = place(m) PROVE U[j].created >= U[k].created
          <6>1. l < m
            BY <1>6, <3>2, <4>2, <5>2
          <6> QED
            BY <1>1, <4>2, <5>2, <6>1 DEF InTime, Latest
        <5> QED
          BY <1>5, <5>1, <5>2
      <4> QED
        BY <1>5, <4>1, <4>2
    <3> QED
      BY <3>1, <3>2
  <2>6. Older(D, U, c, u)
    <3> SUFFICES ASSUME NEW n \in DOMAIN U, n > c
                 PROVE  U[n].created < u /\ \A j \in DOMAIN D : D[j].created >= U[n].created
      BY DEF Older
    <3>1. PICK m \in DOMAIN T : U[n] = T[m] /\ n = place(m)
      BY <1>5, <1>8
    <3>2. m > f
      BY <1>7, <3>1
    <3>3. T[m].created < s /\ \A j \in DOMAIN E : E[j].created >= T[m].created
      BY <1>1, <3>2 DEF InTime, Older
    <3>4. T[m].created < u /\ u >= T[m].created
      BY <1>1, <2>1, <3>3
    <3>5. ASSUME NEW j \in DOMAIN D PROVE D[j].created >= T[m].created
      <4>1. CASE j = 1
        BY <1>2, <2>2, <3>4, <4>1
      <4>2. CASE j # 1
        BY <1>2, <3>3, <4>2
      <4> QED
        BY <4>1, <4>2
    <3> QED
      BY <3>1, <3>4, <3>5
  <2> QED
    BY <1>1, <2>4, <2>5, <2>6 DEF InTime
<1>17. WellKept(D, U, c, u)
  BY <1>2, <1>4, <1>9, <1>10, <1>11, <1>12, <1>13, <1>15, <1>16 DEF WellKept
<1> QED
  BY <1>17 DEF D, U, c
\* Two lists put together.
IsJoined(r, s, t, z) ==
  /\ DOMAIN r = 1 .. z + Len(t) /\ Len(t) \in Nat
  /\ \A i \in DOMAIN s : i \in DOMAIN r /\ r[i] = s[i]
  /\ \A i \in DOMAIN t : z + i \in DOMAIN r /\ r[z + i] = t[i]
  /\ \A i \in DOMAIN r : \/ i \in DOMAIN s /\ i <= z
                         \/ i - z \in DOMAIN t /\ i > z /\ i = z + (i - z)

LEMMA Joined ==
  ASSUME NEW A, NEW s \in Seq(A), NEW t \in Seq(A)
  PROVE  s \o t \in Seq(A) /\ IsJoined(s \o t, s, t, Len(s))
BY DEF IsJoined

LEMMA CountOf ==
  ASSUME NEW K
  PROVE  Downloads!Cardinality(K) = Cardinality(K)
BY Zenon DEF Downloads!Cardinality, Cardinality

\* The page that starts at an offset is what lies between the offset and the next one.
LEMMA PageIs ==
  ASSUME NEW len \in Nat, NEW f \in 0 .. len, NEW n \in Nat
  PROVE  LET P == {k \in 1 .. len : f < k /\ k <= f + n}
             next == f + Downloads!Cardinality(P)
         IN  /\ next \in 0 .. len /\ f <= next
             /\ \A k \in 1 .. len : k \in P <=> f < k /\ k <= next
<1> DEFINE P == {k \in 1 .. len : f < k /\ k <= f + n}
<1>1. PICK m \in Nat : f <= m /\ m <= len /\ P = f + 1 .. m
  <2>1. CASE f + n <= len
    <3>1. f + n \in Nat /\ f <= f + n /\ P = f + 1 .. f + n
      BY <2>1
    <3> HIDE DEF P
    <3> QED
      BY <2>1, <3>1
  <2>2. CASE f + n > len
    <3>1. f <= len /\ P = f + 1 .. len
      BY <2>2
    <3> HIDE DEF P
    <3> QED
      BY <3>1
  <2> HIDE DEF P
  <2>3. f + n \in Int
    OBVIOUS
  <2> QED
    BY <2>1, <2>2, <2>3
<1> HIDE DEF P
<1>2. f \in Nat /\ f + 1 \in Int /\ m - (f + 1) + 1 = m - f
  OBVIOUS
<1>3. Cardinality(f + 1 .. m) = IF f + 1 > m THEN 0 ELSE m - (f + 1) + 1
  BY <1>2, FS_Interval
<1>4. Cardinality(P) = m - f
  BY <1>1, <1>2, <1>3
<1>5. f + Downloads!Cardinality(P) = m
  BY <1>1, <1>2, <1>4, CountOf
<1>6. m \in 0 .. len /\ f <= m /\ \A k \in 1 .. len : k \in P <=> f < k /\ k <= m
  BY <1>1, <1>2
<1> QED
  BY <1>5, <1>6 DEF P

\* Rows of the page that follows the offset are listed at the end: all that are unfinished, and
\* some others.
LEMMA IsFetched ==
  ASSUME NEW E, NEW T, NEW f, NEW s, WellKept(E, T, f, s), NEW c \in 0 .. Len(T), f <= c,
         NEW L \in SUBSET (DOMAIN T), \A k \in L : f < k /\ k <= c,
         \A k \in DOMAIN T : f < k /\ k <= c /\ ~T[k].complete => k \in L
  PROVE  WellKept(E \o Downloads!Keep(T, L), T, c, s)
<1> DEFINE l == Downloads!Keep(T, L)
           h == InOrder(L)
           D == E \o l
           z == Len(E)
<1>1. E \in Seq(DRow) /\ T \in Seq(DRow) /\ f \in Nat /\ c \in Nat
      /\ Len(T) \in Nat /\ DOMAIN T = 1 .. Len(T) /\ DOMAIN E = 1 .. Len(E) /\ z \in Nat
  BY DEF WellKept
<1>2. /\ l \in Seq(DRow) /\ Picks(l, T, h)
      /\ \A k \in L : \E i \in DOMAIN l : h[i] = k
      /\ \A i \in DOMAIN l : h[i] \in L
  BY <1>1, SelectedPicks
<1> HIDE DEF l, h
<1>3. /\ D \in Seq(DRow) /\ DOMAIN D = 1 .. z + Len(l) /\ Len(l) \in Nat
      /\ \A i \in DOMAIN E : i \in DOMAIN D /\ D[i] = E[i]
      /\ \A i \in DOMAIN l : z + i \in DOMAIN D /\ D[z + i] = l[i]
      /\ \A i \in DOMAIN D : \/ i \in DOMAIN E /\ i <= z
                             \/ i - z \in DOMAIN l /\ i > z /\ i = z + (i - z)
  <2>1. D \in Seq(DRow) /\ IsJoined(D, E, l, z)
    BY <1>1, <1>2, Joined
  <2> HIDE DEF D, z
  <2> QED
    BY <2>1 DEF IsJoined
<1> HIDE DEF D, z
<1>4. \A i \in DOMAIN D : i \notin DOMAIN E =>
         /\ i - z \in DOMAIN l /\ h[i - z] \in L /\ D[i] = T[h[i - z]]
         /\ h[i - z] \in DOMAIN T /\ h[i - z] > f /\ h[i - z] <= c /\ h[i - z] \in Nat
         /\ D[i].id \notin IdsOf(E)
  <2> SUFFICES ASSUME NEW i \in DOMAIN D, i \notin DOMAIN E
               PROVE  /\ i - z \in DOMAIN l /\ h[i - z] \in L /\ D[i] = T[h[i - z]]
                      /\ h[i - z] \in DOMAIN T /\ h[i - z] > f /\ h[i - z] <= c /\ h[i - z] \in Nat
                      /\ D[i].id \notin IdsOf(E)
    OBVIOUS
  <2>1. i - z \in DOMAIN l /\ i = z + (i - z)
    BY <1>3
  <2>2. D[i] = l[i - z]
    BY <1>3, <2>1
  <2>3. l[i - z] = T[h[i - z]] /\ h[i - z] \in L
    BY <1>2, <2>1 DEF Picks
  <2>4. h[i - z] \in DOMAIN T /\ h[i - z] > f /\ h[i - z] <= c /\ h[i - z] \in Nat
    BY <1>1, <2>3
  <2>5. T[h[i - z]].id \notin IdsOf(E)
    BY <2>4 DEF WellKept, Splits
  <2> QED
    BY <2>1, <2>2, <2>3, <2>4, <2>5
<1>5. \A i, j \in DOMAIN l : i < j => h[i] < h[j]
  BY <1>2 DEF Picks
<1>6. \A i, j \in DOMAIN D : i \notin DOMAIN E /\ j \notin DOMAIN E /\ i < j => h[i - z] < h[j - z]
  <2> SUFFICES ASSUME NEW i \in DOMAIN D, NEW j \in DOMAIN D, i \notin DOMAIN E, j \notin DOMAIN E, i < j
               PROVE  h[i - z] < h[j - z]
    OBVIOUS
  <2>1. i - z \in DOMAIN l /\ j - z \in DOMAIN l /\ i \in Nat /\ j \in Nat /\ z \in Nat
    BY <1>1, <1>3, <1>4 DEF z
  <2>2. i - z < j - z
    BY <2>1
  <2> QED
    BY <1>5, <2>1, <2>2
<1>7. \A i, j \in DOMAIN D : i \in DOMAIN E /\ j \notin DOMAIN E => i < j
  <2> SUFFICES ASSUME NEW i \in DOMAIN D, NEW j \in DOMAIN D, i \in DOMAIN E, j \notin DOMAIN E PROVE i < j
    OBVIOUS
  <2>1. i <= z /\ j > z /\ i \in Nat /\ j \in Nat /\ z \in Nat
    <3>1. i \in 1 .. z /\ z \in Nat
      BY <1>1 DEF z
    <3>2. j \in 1 .. z + Len(l) /\ ~(j \in 1 .. z)
      BY <1>1, <1>3 DEF z
    <3> QED
      BY <1>3, <3>1, <3>2
  <2> QED
    BY <2>1
<1>8. OnceEach(D)
  <2> SUFFICES ASSUME NEW i \in DOMAIN D, NEW j \in DOMAIN D, i < j
               PROVE  D[i].id # D[j].id /\ D[i].path # D[j].path
    <3>1. \A i \in DOMAIN D : i \in Nat
      BY <1>3
    <3>2. \A i, j \in DOMAIN D : i # j => i < j \/ j < i
      BY <3>1
    <3> QED
      BY <3>2 DEF OnceEach
  <2>1. CASE i \in DOMAIN E /\ j \in DOMAIN E
    <3>1. i # j
      BY <1>3
    <3>2. D[i] = E[i] /\ D[j] = E[j]
      BY <1>3, <2>1
    <3> QED
      BY <2>1, <3>1, <3>2 DEF WellKept, OnceEach
  <2>2. CASE i \in DOMAIN E /\ j \notin DOMAIN E
    <3>1. D[i] = E[i] /\ D[i].id \in IdsOf(E)
      BY <1>3, <2>2 DEF IdsOf
    <3>2. D[i].id # D[j].id /\ D[j] = T[h[j - z]] /\ h[j - z] \in DOMAIN T
      BY <1>4, <2>2, <3>1
    <3> QED
      BY <2>2, <3>1, <3>2 DEF WellKept, SameOwners
  <2>3. CASE i \notin DOMAIN E /\ j \in DOMAIN E
    <3>1. j < i /\ i \in Nat /\ j \in Nat
      BY <1>3, <1>7, <2>3
    <3> QED
      BY <3>1
  <2>4. CASE i \notin DOMAIN E /\ j \notin DOMAIN E
    <3>1. /\ D[i] = T[h[i - z]] /\ D[j] = T[h[j - z]] /\ h[i - z] \in DOMAIN T /\ h[j - z] \in DOMAIN T
          /\ h[i - z] \in Nat /\ h[j - z] \in Nat
      BY <1>4, <2>4
    <3>2. h[i - z] < h[j - z]
      BY <1>6, <2>4
    <3>3. h[i - z] # h[j - z]
      BY <3>1, <3>2
    <3> QED
      BY <3>1, <3>3 DEF WellKept, OnceEach
  <2> QED
    BY <2>1, <2>2, <2>3, <2>4
<1>9. SameOwners(D, T)
  <2> SUFFICES ASSUME NEW j \in DOMAIN D, NEW n \in DOMAIN T
               PROVE  /\ D[j].path = T[n].path => D[j].id = T[n].id
                      /\ D[j].incognito => D[j].id # T[n].id
    BY DEF SameOwners
  <2>1. CASE j \in DOMAIN E
    BY <1>3, <2>1 DEF WellKept, SameOwners
  <2>2. CASE j \notin DOMAIN E
    <3>1. D[j] = T[h[j - z]] /\ h[j - z] \in DOMAIN T
      BY <1>4, <2>2
    <3> QED
      BY <3>1 DEF WellKept, OnceEach, OpenRows
  <2> QED
    BY <2>1, <2>2
<1>10. StoredAs(D, T)
  <2> SUFFICES ASSUME NEW j \in DOMAIN D, ~D[j].incognito PROVE \E n \in DOMAIN T : T[n] = D[j]
    BY DEF StoredAs
  <2>1. CASE j \in DOMAIN E
    BY <1>3, <2>1 DEF WellKept, StoredAs
  <2>2. CASE j \notin DOMAIN E
    BY <1>4, <2>2
  <2> QED
    BY <2>1, <2>2
<1>11. \A x \in IdsOf(E) : x \in IdsOf(D)
  BY <1>3 DEF IdsOf
<1>12. Splits(D, T, c)
  <2> SUFFICES ASSUME NEW n \in DOMAIN T
               PROVE  IF n > c THEN T[n].id \notin IdsOf(D)
                      ELSE ~T[n].complete => T[n].id \in IdsOf(D)
    BY DEF Splits
  <2>0. n \in Nat /\ IF n > f THEN T[n].id \notin IdsOf(E) ELSE ~T[n].complete => T[n].id \in IdsOf(E)
    BY <1>1 DEF WellKept, Splits
  <2>1. CASE n > c
    <3>1. T[n].id \notin IdsOf(E)
      BY <1>1, <2>0, <2>1
    <3>2. ASSUME NEW j \in DOMAIN D, D[j].id = T[n].id PROVE FALSE
      <4>1. j \notin DOMAIN E
        BY <1>3, <3>1, <3>2 DEF IdsOf
      <4>2. D[j] = T[h[j - z]] /\ h[j - z] \in DOMAIN T /\ h[j - z] <= c /\ h[j - z] \in Nat
        BY <1>4, <4>1
      <4>3. h[j - z] # n
        BY <1>1, <2>0, <2>1, <4>2
      <4> QED
        BY <3>2, <4>2, <4>3 DEF WellKept, OnceEach
    <3> QED
      BY <2>1, <3>2 DEF IdsOf
  <2>2. CASE ~(n > c)
    <3> SUFFICES ASSUME ~T[n].complete PROVE T[n].id \in IdsOf(D)
      BY <2>2
    <3>1. CASE n > f
      <4>1. n \in L
        BY <1>1, <2>0, <2>2, <3>1
      <4>2. PICK i \in DOMAIN l : h[i] = n
        BY <1>2, <4>1
      <4>3. z + i \in DOMAIN D /\ D[z + i] = l[i] /\ l[i] = T[n]
        BY <1>2, <1>3, <4>2 DEF Picks
      <4> QED
        BY <4>3 DEF IdsOf
    <3>2. CASE ~(n > f)
      BY <1>11, <2>0, <3>2
    <3> QED
      BY <3>1, <3>2
  <2> QED
    BY <2>1, <2>2
<1>13. InTime(D, T, c, s)
  <2>1. InTime(E, T, f, s)
    BY DEF WellKept
  <2>2. Latest(D, s)
    <3> SUFFICES ASSUME NEW k \in DOMAIN D
                 PROVE  D[k].created <= s /\ \A j \in DOMAIN D : j < k => D[j].created >= D[k].created
      BY DEF Latest
    <3>1. CASE k \in DOMAIN E
      <4>1. \A j \in DOMAIN D : j < k => j \in DOMAIN E
        BY <1>3, <1>7, <3>1
      <4> QED
        BY <1>3, <2>1, <3>1, <4>1 DEF InTime, Latest
    <3>2. CASE k \notin DOMAIN E
      <4>1. D[k] = T[h[k - z]] /\ h[k - z] \in DOMAIN T /\ h[k - z] > f
        BY <1>4, <3>2
      <4>2. ASSUME NEW j \in DOMAIN D, j < k PROVE D[j].created >= D[k].created
        <5>1. CASE j \in DOMAIN E
          BY <1>3, <2>1, <4>1, <5>1 DEF InTime, Older
        <5>2. CASE j \notin DOMAIN E
          <6>1. D[j] = T[h[j - z]] /\ h[j - z] \in DOMAIN T /\ h[j - z] < h[k - z]
            BY <1>4, <1>6, <3>2, <4>2, <5>2
          <6> QED
            BY <2>1, <4>1, <6>1 DEF InTime, Latest
        <5> QED
          BY <5>1, <5>2
      <4> QED
        BY <2>1, <4>1, <4>2 DEF InTime, Latest
    <3> QED
      BY <3>1, <3>2
  <2>3. Older(D, T, c, s)
    <3> SUFFICES ASSUME NEW n \in DOMAIN T, n > c
                 PROVE  T[n].created < s /\ \A j \in DOMAIN D : D[j].created >= T[n].created
      BY DEF Older
    <3>1. n > f /\ n \in Nat
      BY <1>1
    <3>2. ASSUME NEW j \in DOMAIN D PROVE D[j].created >= T[n].created
      <4>1. CASE j \in DOMAIN E
        BY <1>3, <2>1, <3>1, <4>1 DEF InTime, Older
      <4>2. CASE j \notin DOMAIN E
        <5>1. D[j] = T[h[j - z]] /\ h[j - z] \in DOMAIN T /\ h[j - z] < n
          BY <1>1, <1>4, <3>1, <4>2
        <5> QED
          BY <2>1, <5>1 DEF InTime, Latest
      <4> QED
        BY <4>1, <4>2
    <3> QED
      BY <2>1, <3>1, <3>2 DEF InTime, Older
  <2> QED
    BY <2>1, <2>2, <2>3 DEF InTime
<1> QED
  <2>1. OnceEach(T) /\ OpenRows(T)
    BY DEF WellKept
  <2>2. WellKept(D, T, c, s)
    BY <1>1, <1>3, <1>8, <1>9, <1>10, <1>12, <1>13, <2>1 DEF WellKept
  <2> QED
    BY <2>2 DEF D, l

\* Fields of entry k and of its row change, both in the same way; its path is still its own.
LEMMA IsChanged ==
  ASSUME NEW E, NEW T, NEW f, NEW s, WellKept(E, T, f, s), NEW k \in DOMAIN E, NEW x \in DRow,
         x.id = E[k].id, x.incognito = E[k].incognito, x.created = E[k].created, x.complete \/ x.complete = E[k].complete,
         x.path # E[k].path => /\ \A j \in DOMAIN E : E[j].path # x.path
                               /\ \A n \in DOMAIN T : T[n].path # x.path
  PROVE  LET D == [E EXCEPT ![k] = x]
             U == [n \in DOMAIN T |-> IF T[n].id = x.id THEN x ELSE T[n]]
         IN  IF x.incognito THEN WellKept(D, T, f, s) ELSE WellKept(D, U, f, s)
<1> DEFINE D == [E EXCEPT ![k] = x]
           U == [n \in DOMAIN T |-> IF T[n].id = x.id THEN x ELSE T[n]]
           V == IF x.incognito THEN T ELSE U
<1>1. /\ E \in Seq(DRow) /\ T \in Seq(DRow) /\ f \in 0 .. Len(T)
      /\ DOMAIN E = 1 .. Len(E) /\ Len(E) \in Nat /\ DOMAIN T = 1 .. Len(T) /\ Len(T) \in Nat
      /\ \A n \in DOMAIN T : T[n] \in DRow
  BY DEF WellKept
<1>2. /\ D \in Seq(DRow) /\ DOMAIN D = DOMAIN E /\ D[k] = x
      /\ \A j \in DOMAIN E : j # k => D[j] = E[j]
  BY <1>1
<1>3. /\ V \in Seq(DRow) /\ Len(V) = Len(T) /\ DOMAIN V = DOMAIN T
      /\ \A n \in DOMAIN T : V[n] = IF ~x.incognito /\ T[n].id = x.id THEN x ELSE T[n]
  <2>1. U \in [1 .. Len(T) -> DRow]
    BY <1>1
  <2>2. U \in Seq(DRow) /\ Len(U) = Len(T) /\ DOMAIN U = DOMAIN T
    BY <1>1, <2>1
  <2>3. \A n \in DOMAIN T : U[n] = IF T[n].id = x.id THEN x ELSE T[n]
    OBVIOUS
  <2> HIDE DEF U
  <2> QED
    BY <1>1, <2>2, <2>3
<1> HIDE DEF D, V
\* the row of the entry, if it has one, is the entry
<1>4. \A n \in DOMAIN T : T[n].id = x.id => ~x.incognito /\ T[n] = E[k]
  <2> SUFFICES ASSUME NEW n \in DOMAIN T, T[n].id = x.id PROVE ~x.incognito /\ T[n] = E[k]
    OBVIOUS
  <2>1. ~E[k].incognito
    BY DEF WellKept, SameOwners
  <2>2. PICK m \in DOMAIN T : T[m] = E[k]
    BY <2>1 DEF WellKept, StoredAs
  <2>3. m = n
    BY <2>2 DEF WellKept, OnceEach
  <2> QED
    BY <2>1, <2>2, <2>3
<1>5. /\ \A j \in DOMAIN E : D[j].id = E[j].id /\ D[j].incognito = E[j].incognito /\ D[j].created = E[j].created
      /\ \A n \in DOMAIN T : V[n].id = T[n].id /\ V[n].incognito = T[n].incognito /\ V[n].created = T[n].created
                             /\ (V[n].complete \/ V[n].complete = T[n].complete)
  BY <1>2, <1>3, <1>4
<1>6. IdsOf(D) = IdsOf(E)
  BY <1>2, <1>5 DEF IdsOf
<1>7. \A j \in DOMAIN E : j # k => E[j].path # x.path
  BY DEF WellKept, OnceEach
<1>8. \A n \in DOMAIN T : T[n].id # x.id => T[n].path # x.path
  <2> SUFFICES ASSUME NEW n \in DOMAIN T, T[n].id # x.id, T[n].path = x.path PROVE FALSE
    OBVIOUS
  <2>1. E[k].path = x.path
    OBVIOUS
  <2> QED
    BY <2>1 DEF WellKept, SameOwners
<1>9. OnceEach(D)
  <2> SUFFICES ASSUME NEW i \in DOMAIN E, NEW j \in DOMAIN E, i # j
               PROVE  D[i].id # D[j].id /\ D[i].path # D[j].path
    BY <1>2 DEF OnceEach
  <2>1. E[i].id # E[j].id /\ E[i].path # E[j].path
    BY DEF WellKept, OnceEach
  <2>2. D[i].path # D[j].path
    BY <1>2, <1>7, <2>1
  <2> QED
    BY <1>5, <2>1, <2>2
<1>10. OnceEach(V)
  <2> SUFFICES ASSUME NEW m \in DOMAIN T, NEW n \in DOMAIN T, m # n
               PROVE  V[m].id # V[n].id /\ V[m].path # V[n].path
    BY <1>3 DEF OnceEach
  <2>1. T[m].id # T[n].id /\ T[m].path # T[n].path
    BY DEF WellKept, OnceEach
  <2>2. V[m].path # V[n].path
    BY <1>3, <1>8, <2>1
  <2> QED
    BY <1>5, <2>1, <2>2
<1>11. SameOwners(D, V)
  <2> SUFFICES ASSUME NEW j \in DOMAIN E, NEW n \in DOMAIN T
               PROVE  /\ D[j].path = V[n].path => D[j].id = V[n].id
                      /\ D[j].incognito => D[j].id # V[n].id
    BY <1>2, <1>3 DEF SameOwners
  <2>1. /\ E[j].path = T[n].path => E[j].id = T[n].id
        /\ E[j].incognito => E[j].id # T[n].id
    BY DEF WellKept, SameOwners
  <2>2. D[j].path = V[n].path => D[j].id = V[n].id
    <3>1. CASE j = k /\ T[n].id # x.id
      BY <1>2, <1>3, <1>8, <3>1
    <3>2. CASE j # k /\ T[n].id = x.id
      BY <1>2, <1>3, <1>4, <1>7, <3>2
    <3>3. CASE j # k /\ T[n].id # x.id
      BY <1>2, <1>3, <2>1, <3>3
    <3>4. CASE j = k /\ T[n].id = x.id
      BY <1>2, <1>5, <3>4
    <3> QED
      BY <3>1, <3>2, <3>3, <3>4
  <2> QED
    BY <1>5, <2>1, <2>2
<1>12. OpenRows(V)
  BY <1>3, <1>5 DEF WellKept, OpenRows
<1>13. StoredAs(D, V)
  <2> SUFFICES ASSUME NEW j \in DOMAIN E, ~D[j].incognito
               PROVE  \E n \in DOMAIN T : V[n] = D[j]
    BY <1>2, <1>3 DEF StoredAs
  <2>1. PICK n \in DOMAIN T : T[n] = E[j]
    BY <1>5 DEF WellKept, StoredAs
  <2>2. CASE j = k
    <3>1. ~x.incognito /\ T[n].id = x.id
      BY <1>2, <2>1, <2>2
    <3>2. V[n] = x
      BY <1>3, <3>1
    <3> QED
      BY <1>2, <2>2, <3>2
  <2>3. CASE j # k
    <3>1. E[j].id # E[k].id
      BY <2>3 DEF WellKept, OnceEach
    <3>2. V[n] = T[n]
      BY <1>3, <2>1, <3>1
    <3> QED
      BY <1>2, <2>1, <2>3, <3>2
  <2> QED
    BY <2>2, <2>3
<1>14. Splits(D, V, f)
  <2> SUFFICES ASSUME NEW n \in DOMAIN T
               PROVE  IF n > f THEN V[n].id \notin IdsOf(D)
                      ELSE ~V[n].complete => V[n].id \in IdsOf(D)
    BY <1>3 DEF Splits
  <2>1. IF n > f THEN T[n].id \notin IdsOf(E) ELSE ~T[n].complete => T[n].id \in IdsOf(E)
    BY DEF WellKept, Splits
  <2> QED
    BY <1>5, <1>6, <2>1
<1>15. InTime(D, V, f, s)
  <2>1. InTime(E, T, f, s)
    BY DEF WellKept
  <2>2. Latest(D, s) /\ Latest(V, s)
    BY <1>2, <1>3, <1>5, <2>1 DEF InTime, Latest
  <2>3. Older(D, V, f, s)
    BY <1>2, <1>3, <1>5, <2>1 DEF InTime, Older
  <2> QED
    BY <2>1, <2>2, <2>3 DEF InTime
<1>16. WellKept(D, V, f, s)
  BY <1>1, <1>2, <1>3, <1>9, <1>10, <1>11, <1>12, <1>13, <1>14, <1>15 DEF WellKept
<1> QED
  BY <1>16 DEF D, V
-----------------------------------------------------------------------------
(* Downloads: the actions, when files can be moved *)

\* The row of an entry is as the entry is.
LEMMA RowIsEntry ==
  ASSUME NEW E, NEW T, NEW f, NEW s, WellKept(E, T, f, s), NEW k \in DOMAIN E
  PROVE  /\ \A n \in DOMAIN T : T[n].id = E[k].id => ~E[k].incognito /\ T[n] = E[k]
         /\ ~E[k].incognito => \E n \in DOMAIN T : T[n] = E[k]
<1>1. ~E[k].incognito => \E n \in DOMAIN T : T[n] = E[k]
  BY DEF WellKept, StoredAs
<1>2. ASSUME NEW n \in DOMAIN T, T[n].id = E[k].id PROVE ~E[k].incognito /\ T[n] = E[k]
  <2>1. ~E[k].incognito
    BY <1>2 DEF WellKept, SameOwners
  <2>2. PICK m \in DOMAIN T : T[m] = E[k]
    BY <1>1, <2>1
  <2>3. m = n
    BY <1>2, <2>2 DEF WellKept, OnceEach
  <2> QED
    BY <2>1, <2>2, <2>3
<1> QED
  BY <1>1, <1>2

\* The position of a download in the list.
LEMMA DownloadIndexIs ==
  ASSUME entries \in Seq(DRow), NEW i, Downloads!IndexOf(i) # 0
  PROVE  /\ Downloads!IndexOf(i) \in DOMAIN entries
         /\ entries[Downloads!IndexOf(i)].id = i
<1> DEFINE I == {k \in 1 .. Len(entries) : entries[k].id = i}
<1>1. DOMAIN entries = 1 .. Len(entries) /\ Len(entries) \in Nat
  OBVIOUS
<1>2. Downloads!IndexOf(i) = IF I # {} THEN Downloads!Min(I) ELSE 0
  BY DEF Downloads!IndexOf, Downloads!SelectInSeq
<1>3. I # {} /\ Downloads!IndexOf(i) = Downloads!Min(I)
  BY <1>2
<1>4. I \in SUBSET Nat
  OBVIOUS
<1> HIDE DEF I
<1>5. \E m \in I : \A n \in I : m <= n
  BY <1>3, <1>4, LeastNat
<1>6. Downloads!Min(I) \in I
  BY <1>5 DEF Downloads!Min
<1> QED
  BY <1>1, <1>3, <1>6 DEF I

\* A download is cancelled, or deleted: its entry goes, with its row if there is one.
LEMMA GoesStep ==
  ASSUME WellKept(entries, table, fetched, now), NEW k \in DOMAIN entries,
         entries' = Downloads!Without(k), now' = now,
         IF entries[k].incognito THEN UNCHANGED <<table, fetched>>
         ELSE /\ \A m \in DOMAIN table : table[m] = entries[k] =>
                   table' = Downloads!Keep(table, DOMAIN table \ {m})
              /\ fetched' = fetched - 1
  PROVE  WellKept(entries, table, fetched, now)'
<1>1. CASE entries[k].incognito
  BY <1>1, IncognitoGoes DEF Downloads!Without
<1>2. CASE ~entries[k].incognito
  <2>1. PICK n \in DOMAIN table : table[n] = entries[k]
    BY <1>2, RowIsEntry
  <2>2. /\ entries' = Downloads!Keep(entries, DOMAIN entries \ {k})
        /\ table' = Downloads!Keep(table, DOMAIN table \ {n}) /\ fetched' = fetched - 1
    BY <1>2, <2>1 DEF Downloads!Without
  <2> QED
    BY <2>1, <2>2, StoredGoes
<1> QED
  BY <1>1, <1>2

LEMMA CancelStep ==
  ASSUME WellKept(entries, table, fetched, now), NEW i, Downloads!CancelDownload(i)
  PROVE  WellKept(entries, table, fetched, now)'
<1> DEFINE k == Downloads!IndexOf(i)
<1>1. k \in DOMAIN entries /\ entries[k].id = i
  BY DownloadIndexIs DEF WellKept, Downloads!CancelDownload
<1>2. /\ entries' = Downloads!Without(k)
      /\ IF entries[k].incognito THEN UNCHANGED <<table, fetched>>
         ELSE /\ table' = Downloads!Keep(table, {n \in DOMAIN table : table[n].id # i})
              /\ fetched' = fetched - 1
      /\ now' = now
  BY DEF Downloads!CancelDownload
<1> HIDE DEF k
<1>3. ASSUME NEW m \in DOMAIN table, table[m] = entries[k]
      PROVE  {n \in DOMAIN table : table[n].id # i} = DOMAIN table \ {m}
  BY <1>1, <1>3 DEF WellKept, OnceEach
<1> QED
  BY <1>1, <1>2, <1>3, GoesStep

LEMMA DeleteStep ==
  ASSUME WellKept(entries, table, fetched, now), NEW p, Downloads!DeleteDownload(p)
  PROVE  WellKept(entries, table, fetched, now)'
<1> DEFINE I == {j \in 1 .. Len(entries) : entries[j].path = p}
           k == IF I # {} THEN Downloads!Min(I) ELSE 0
<1>1. DOMAIN entries = 1 .. Len(entries) /\ Len(entries) \in Nat
  BY DEF WellKept
<1>2. I # {} /\ I \in SUBSET Nat
  BY <1>1 DEF Downloads!DeleteDownload
<1>3. /\ entries' = Downloads!Without(k)
      /\ IF entries[k].incognito THEN UNCHANGED <<table, fetched>>
         ELSE /\ table' = Downloads!Keep(table, {n \in DOMAIN table : table[n].path # p})
              /\ fetched' = fetched - 1
      /\ now' = now
  BY DEF Downloads!DeleteDownload, Downloads!SelectInSeq, Downloads!WithoutPath
<1>4. k \in DOMAIN entries /\ entries[k].path = p
  <2> HIDE DEF I
  <2>1. \E m \in I : \A n \in I : m <= n
    BY <1>2, LeastNat
  <2>2. Downloads!Min(I) \in I
    BY <2>1 DEF Downloads!Min
  <2> QED
    BY <1>1, <1>2, <2>2 DEF I
<1> HIDE DEF k
<1>5. ASSUME NEW m \in DOMAIN table, table[m] = entries[k]
      PROVE  {n \in DOMAIN table : table[n].path # p} = DOMAIN table \ {m}
  BY <1>4, <1>5 DEF WellKept, OnceEach
<1> QED
  BY <1>3, <1>4, <1>5, GoesStep
LEMMA FetchStep ==
  ASSUME WellKept(entries, table, fetched, now), Downloads!FetchMore
  PROVE  WellKept(entries, table, fetched, now)'
<1> DEFINE P == {k \in 1 .. Len(table) : fetched < k /\ k <= fetched + PageSize}
           L == {k \in P : ~table[k].complete \/ table[k].path \in files}
           c == fetched + Downloads!Cardinality(P)
<1>1. /\ table \in Seq(DRow) /\ fetched \in 0 .. Len(table) /\ Len(table) \in Nat /\ fetched \in Nat
      /\ DOMAIN table = 1 .. Len(table) /\ PageSize \in Nat
  BY PageAssumption DEF WellKept
<1>2. Downloads!Max({fetched, 0}) = fetched
  BY <1>1 DEF Downloads!Max
<1>3. Downloads!Page = P
  BY <1>1, <1>2 DEF Downloads!Page
<1>4. entries' = entries \o Downloads!Keep(table, L) /\ fetched' = c /\ table' = table /\ now' = now
  BY <1>3 DEF Downloads!FetchMore
<1>5. /\ c \in 0 .. Len(table) /\ fetched <= c
      /\ \A k \in 1 .. Len(table) : k \in P <=> fetched < k /\ k <= c
  BY <1>1, PageIs
<1> HIDE DEF c
<1>6. L \in SUBSET (DOMAIN table) /\ \A k \in L : fetched < k /\ k <= c
  BY <1>1, <1>5
<1>7. \A k \in DOMAIN table : fetched < k /\ k <= c /\ ~table[k].complete => k \in L
  BY <1>1, <1>5
<1> HIDE DEF L, P
<1>8. WellKept(entries \o Downloads!Keep(table, L), table, c, now)
  BY <1>5, <1>6, <1>7, IsFetched
<1> QED
  BY <1>4, <1>8

LEMMA StartsAgain ==
  ASSUME WellKept(entries, table, fetched, now), entries' = <<>>, fetched' = 0, table' = table, now' = now + 1
  PROVE  WellKept(entries, table, fetched, now)'
<1>1. table \in Seq(DRow) /\ Len(table) \in Nat /\ DOMAIN table = 1 .. Len(table)
  BY DEF WellKept
<1>2. <<>> \in Seq(DRow) /\ 0 \in 0 .. Len(table) /\ \A n \in DOMAIN table : n > 0
  BY <1>1
<1>3. IdsOf(<<>>) = {} /\ DOMAIN <<>> = {}
  BY DEF IdsOf
<1>4. OnceEach(<<>>) /\ SameOwners(<<>>, table) /\ StoredAs(<<>>, table)
  BY <1>3 DEF OnceEach, SameOwners, StoredAs
<1>5. Splits(<<>>, table, 0)
  BY <1>2, <1>3 DEF Splits
<1>6. InTime(<<>>, table, 0, now + 1)
  <2>0. \A x \in DRow : x.created \in Nat
    BY DEF DRow, Downloads!Row
  <2>1. now \in Nat /\ \A n \in DOMAIN table : table[n] \in DRow /\ table[n].created \in Nat
    BY <1>1, <2>0 DEF WellKept, InTime
  <2>2. Latest(table, now) /\ \A n \in DOMAIN table : table[n].created < now + 1
    BY <2>1 DEF WellKept, InTime, Latest
  <2> QED
    BY <1>3, <2>1, <2>2 DEF InTime, Latest, Older
<1> QED
  BY <1>1, <1>2, <1>4, <1>5, <1>6 DEF WellKept

\* The rows that are not older come before the others: the last of them, or 0 if there is none.
LEMMA LastIs ==
  ASSUME NEW T \in Seq(DRow), NEW t \in Nat,
         \A j, k \in DOMAIN T : j < k => T[j].created >= T[k].created
  PROVE  LET q == Downloads!SelectLastInSeq(T, LAMBDA row : row.created >= t)
         IN  q \in 0 .. Len(T) /\ \A n \in DOMAIN T : n <= q <=> T[n].created >= t
<1> DEFINE I == {k \in 1 .. Len(T) : T[k].created >= t}
           q == Downloads!SelectLastInSeq(T, LAMBDA row : row.created >= t)
<1>1. DOMAIN T = 1 .. Len(T) /\ Len(T) \in Nat /\ \A n \in DOMAIN T : T[n].created \in Nat
  <2>1. \A x \in DRow : x.created \in Nat
    BY DEF DRow, Downloads!Row
  <2> QED
    BY <2>1
<1>2. q = IF I # {} THEN Downloads!Max(I) ELSE 0
  BY DEF Downloads!SelectLastInSeq
<1> HIDE DEF q
<1>3. CASE I = {}
  <2>1. q = 0
    BY <1>2, <1>3
  <2>2. \A n \in 1 .. Len(T) : ~(T[n].created >= t)
    BY <1>3
  <2>3. q \in 0 .. Len(T) /\ \A n \in DOMAIN T : n <= q <=> T[n].created >= t
    <3> HIDE DEF I
    <3> QED
      BY <1>1, <2>1, <2>2
  <2> QED
    BY <2>3 DEF q
<1>4. CASE I # {}
  <2> DEFINE J == {Len(T) - k : k \in I}
  <2>1. J \in SUBSET Nat /\ J # {}
    BY <1>1, <1>4
  <2>2. PICK l \in J : \A m \in J : l <= m
    <3> HIDE DEF J
    <3> QED
      BY <2>1, LeastNat
  <2>3. PICK g \in I : l = Len(T) - g
    OBVIOUS
  <2>4. ASSUME NEW k \in I PROVE g >= k
    <3>1. Len(T) - k \in J /\ k \in Nat /\ g \in Nat
      BY <1>1
    <3>2. Len(T) - g <= Len(T) - k
      BY <2>2, <2>3, <3>1
    <3> HIDE DEF I, J
    <3> QED
      BY <1>1, <3>1, <3>2
  <2>5. q \in I /\ \A k \in I : q >= k
    <3> HIDE DEF I, J
    <3> QED
      BY <1>2, <1>4, <2>4 DEF Downloads!Max
  <2>6. ASSUME NEW n \in DOMAIN T PROVE n <= q <=> T[n].created >= t
    <3>1. n \in Nat /\ q \in DOMAIN T /\ q \in Nat /\ T[q].created >= t
      BY <1>1, <2>5
    <3>2. n < q => T[n].created >= T[q].created
      BY <3>1
    <3>3. n <= q => T[n].created >= t
      BY <1>1, <3>1, <3>2
    <3>4. T[n].created >= t => n <= q
      BY <1>1, <2>5, <3>1
    <3> QED
      BY <3>3, <3>4
  <2>7. q \in 0 .. Len(T)
    BY <1>1, <2>5
  <2> QED
    BY <2>6, <2>7 DEF q
<1> QED
  BY <1>3, <1>4

LEMMA AddStep ==
  ASSUME WellKept(entries, table, fetched, now), NEW i \in Id, NEW p \in Path, NEW b \in BOOLEAN,
         Downloads!Add(i, p, b)
  PROVE  WellKept(entries, table, fetched, now)'
<1> DEFINE e == [id |-> i, path |-> p, created |-> now', type |-> "reported", complete |-> FALSE,
                 paused |-> FALSE, error |-> FALSE, incognito |-> b]
           q == Downloads!SelectLastInSeq(table, LAMBDA row : row.created >= e.created)
           X == Downloads!InsertAt(table, q + 1, e)
<1>1. now \in Nat /\ now' \in Nat /\ now <= now'
  BY DEF WellKept, InTime, Downloads!Add
<1>2. e \in DRow /\ e.id = i /\ e.path = p /\ e.incognito = b /\ e.created = now'
  BY <1>1 DEF DRow, Downloads!Row
<1>3. /\ entries' = <<e>> \o entries
      /\ table' = IF b THEN table ELSE X
      /\ fetched' = IF b THEN fetched ELSE fetched + 1
  BY DEF Downloads!Add, Downloads!Inserted
<1>4. /\ i \notin Downloads!Ids(entries) \cup Downloads!Ids(table)
      /\ p \notin Downloads!Paths(entries) \cup Downloads!Paths(table)
  BY DEF Downloads!Add, Downloads!NewPath
<1>5. /\ \A j \in DOMAIN entries : entries[j].id # i /\ entries[j].path # p
      /\ \A n \in DOMAIN table : table[n].id # i /\ table[n].path # p
  BY <1>4 DEF Downloads!Ids, Downloads!Paths
<1> HIDE DEF e
<1>6. table \in Seq(DRow) /\ e.created \in Nat /\ \A j, k \in DOMAIN table : j < k => table[j].created >= table[k].created
  BY <1>1, <1>2 DEF WellKept, InTime, Latest
<1>7. q \in 0 .. Len(table) /\ \A n \in DOMAIN table : n <= q <=> table[n].created >= e.created
  BY <1>6, LastIs
<1> HIDE DEF q
<1>8. X \in Seq(DRow) /\ IsInserted(X, table, q, e)
  BY <1>2, <1>6, <1>7, InsertedAt
<1> HIDE DEF X
<1>9. IF e.incognito THEN WellKept(<<e>> \o entries, table, fetched, e.created)
      ELSE WellKept(<<e>> \o entries, X, fetched + 1, e.created)
  BY <1>1, <1>2, <1>5, <1>7, <1>8, IsAdded
<1> QED
  BY <1>2, <1>3, <1>9

\* An entry and its row, if there is one, are given the same value.
LEMMA ChangedStep ==
  ASSUME WellKept(entries, table, fetched, now), NEW k \in DOMAIN entries, NEW x \in DRow,
         x.id = entries[k].id, x.incognito = entries[k].incognito, x.created = entries[k].created,
         x.complete \/ x.complete = entries[k].complete,
         x.path # entries[k].path => /\ \A j \in DOMAIN entries : entries[j].path # x.path
                                     /\ \A n \in DOMAIN table : table[n].path # x.path,
         entries' = [entries EXCEPT ![k] = x], fetched' = fetched, now' = now,
         table' = IF x.incognito THEN table
                  ELSE [n \in DOMAIN table |-> IF table[n].id = x.id THEN x ELSE table[n]]
  PROVE  WellKept(entries, table, fetched, now)'
<1> DEFINE D == [entries EXCEPT ![k] = x]
           U == [n \in DOMAIN table |-> IF table[n].id = x.id THEN x ELSE table[n]]
<1>1. IF x.incognito THEN WellKept(D, table, fetched, now) ELSE WellKept(D, U, fetched, now)
  BY IsChanged, ZenonT(60)
<1>2. entries' = D /\ table' = IF x.incognito THEN table ELSE U
  OBVIOUS
<1> HIDE DEF D, U
<1> QED
  BY <1>1, <1>2

LEMMA SetFieldStep ==
  ASSUME WellKept(entries, table, fetched, now), NEW i, NEW f \in {"complete", "error", "paused"},
         NEW v \in BOOLEAN, f = "complete" => v, Downloads!SetField(Downloads!IndexOf(i), f, v)
  PROVE  WellKept(entries, table, fetched, now)'
<1> DEFINE k == Downloads!IndexOf(i)
           x == [entries[k] EXCEPT ![f] = v]
<1>1. entries \in Seq(DRow) /\ k # 0
  BY DEF WellKept, Downloads!SetField
<1>2. k \in DOMAIN entries
  BY <1>1, DownloadIndexIs
<1>3. /\ entries' = [entries EXCEPT ![k] = x] /\ fetched' = fetched /\ now' = now
      /\ table' = IF entries[k].incognito THEN table ELSE Downloads!Updated(entries[k].id, f, v)
  BY DEF Downloads!SetField
<1> HIDE DEF k
<1>4. entries[k] \in DRow
  BY <1>1, <1>2
<1>5. /\ x \in DRow /\ x.id = entries[k].id /\ x.incognito = entries[k].incognito /\ x.created = entries[k].created
      /\ x.path = entries[k].path /\ (x.complete \/ x.complete = entries[k].complete)
  <2>1. CASE f = "complete"
    BY <1>4, <2>1 DEF DRow, Downloads!Row
  <2>2. CASE f = "error"
    BY <1>4, <2>2 DEF DRow, Downloads!Row
  <2>3. CASE f = "paused"
    BY <1>4, <2>3 DEF DRow, Downloads!Row
  <2> QED
    BY <2>1, <2>2, <2>3
<1>6. \A n \in DOMAIN table : table[n].id = entries[k].id => table[n] = entries[k]
  BY <1>2, RowIsEntry
<1>7. Downloads!Updated(entries[k].id, f, v)
        = [n \in DOMAIN table |-> IF table[n].id = x.id THEN x ELSE table[n]]
  <2>1. \A n \in DOMAIN table : table[n].id = entries[k].id => [table[n] EXCEPT ![f] = v] = x
    BY <1>6
  <2> HIDE DEF x
  <2> QED
    BY <1>5, <2>1 DEF Downloads!Updated
<1> HIDE DEF x
<1>8. table' = IF x.incognito THEN table
               ELSE [n \in DOMAIN table |-> IF table[n].id = x.id THEN x ELSE table[n]]
  BY <1>3, <1>5, <1>7
<1> QED
  BY <1>2, <1>3, <1>5, <1>8, ChangedStep

LEMMA MoveStep ==
  ASSUME WellKept(entries, table, fetched, now), NEW i, NEW p, NEW d \in Path,
         Downloads!MoveToDownloads(i, p, d)
  PROVE  WellKept(entries, table, fetched, now)'
<1> DEFINE k == Downloads!IndexOf(i)
           x == Downloads!Moved(entries[k], d)
<1>1. entries \in Seq(DRow) /\ k # 0
  BY DEF WellKept, Downloads!MoveToDownloads
<1>2. k \in DOMAIN entries /\ entries[k].id = i
  BY <1>1, DownloadIndexIs
<1>3. /\ entries' = [entries EXCEPT ![k] = x] /\ fetched' = fetched /\ now' = now
      /\ table' = IF entries[k].incognito THEN table ELSE Downloads!MovedRow(i, d)
      /\ d \notin Downloads!Paths(entries) \cup Downloads!Paths(table)
  BY DEF Downloads!MoveToDownloads, Downloads!NewPath
<1> HIDE DEF k
<1>4. entries[k] \in DRow
  BY <1>1, <1>2
<1>5. /\ x \in DRow /\ x.id = entries[k].id /\ x.incognito = entries[k].incognito /\ x.created = entries[k].created
      /\ x.path = d /\ x.complete = entries[k].complete
  BY <1>4 DEF DRow, Downloads!Row, Downloads!Moved
<1>6. /\ \A j \in DOMAIN entries : entries[j].path # d
      /\ \A n \in DOMAIN table : table[n].path # d
  BY <1>3 DEF Downloads!Paths
<1>7. \A n \in DOMAIN table : table[n].id = entries[k].id => table[n] = entries[k]
  BY <1>2, RowIsEntry
<1>8. Downloads!MovedRow(i, d)
        = [n \in DOMAIN table |-> IF table[n].id = x.id THEN x ELSE table[n]]
  <2>1. \A n \in DOMAIN table : table[n].id = entries[k].id => Downloads!Moved(table[n], d) = x
    BY <1>7
  <2> HIDE DEF x
  <2> QED
    BY <1>2, <1>5, <2>1 DEF Downloads!MovedRow
<1> HIDE DEF x
<1>9. table' = IF x.incognito THEN table
               ELSE [n \in DOMAIN table |-> IF table[n].id = x.id THEN x ELSE table[n]]
  BY <1>3, <1>5, <1>8
<1> QED
  BY <1>2, <1>3, <1>5, <1>6, <1>9, ChangedStep

LEMMA DownloadsStep ==
  ASSUME WellKept(entries, table, fetched, now), Downloads!Next
  PROVE  WellKept(entries, table, fetched, now)'
<1>1. CASE Downloads!FetchMore
  BY <1>1, FetchStep
<1>2. CASE Downloads!Restart
  BY <1>2, StartsAgain DEF Downloads!Restart, Downloads!RestartWith
<1>3. CASE Downloads!PruneIncognitoDownloads
  BY <1>3, AllIncognitoGo DEF Downloads!PruneIncognitoDownloads
<1>4. CASE Downloads!FilesChange
  BY <1>4 DEF Downloads!FilesChange
<1>5. ASSUME NEW i \in Id, NEW p \in Path, NEW b \in BOOLEAN, Downloads!Add(i, p, b)
      PROVE  WellKept(entries, table, fetched, now)'
  BY <1>5, AddStep
<1>6. ASSUME NEW i \in Id, Downloads!SetComplete(i) PROVE WellKept(entries, table, fetched, now)'
  <2>1. Downloads!SetField(Downloads!IndexOf(i), "complete", TRUE)
    BY <1>6 DEF Downloads!SetComplete
  <2> QED
    BY <2>1, SetFieldStep
<1>7. ASSUME NEW i \in Id, Downloads!SetError(i) PROVE WellKept(entries, table, fetched, now)'
  <2>1. Downloads!SetField(Downloads!IndexOf(i), "error", TRUE)
    BY <1>7 DEF Downloads!SetError
  <2> QED
    BY <2>1, SetFieldStep
<1>8. ASSUME NEW i \in Id, NEW b \in BOOLEAN, Downloads!SetPaused(i, b)
      PROVE  WellKept(entries, table, fetched, now)'
  <2>1. Downloads!SetField(Downloads!IndexOf(i), "paused", b)
    BY <1>8 DEF Downloads!SetPaused
  <2> QED
    BY <2>1, SetFieldStep
<1>9. ASSUME NEW i \in Id, Downloads!CancelDownload(i) PROVE WellKept(entries, table, fetched, now)'
  BY <1>9, CancelStep
<1>10. ASSUME NEW i \in Id, NEW p \in Path, NEW d \in Path, Downloads!MoveToDownloads(i, p, d)
       PROVE  WellKept(entries, table, fetched, now)'
  BY <1>10, MoveStep
<1>11. ASSUME NEW i \in Id, NEW p \in Path, NEW d \in Path, Downloads!StopInMove(i, p, d)
       PROVE  WellKept(entries, table, fetched, now)'
  BY <1>11, StartsAgain DEF Downloads!StopInMove, Downloads!RestartWith
<1>12. ASSUME NEW p \in Path, Downloads!DeleteDownload(p) PROVE WellKept(entries, table, fetched, now)'
  BY <1>12, DeleteStep
<1>13. ASSUME NEW p \in Path, Downloads!StopInDelete(p) PROVE WellKept(entries, table, fetched, now)'
  BY <1>13, StartsAgain DEF Downloads!StopInDelete, Downloads!RestartWith
<1> QED
  BY <1>1, <1>2, <1>3, <1>4, <1>5, <1>6, <1>7, <1>8, <1>9, <1>10, <1>11, <1>12, <1>13
     DEF Downloads!Next
-----------------------------------------------------------------------------
(* Downloads: the rows, also when files cannot be moved *)

GoodRows(T) == T \in Seq(DRow) /\ OpenRows(T)

LEMMA RowsSelected ==
  ASSUME NEW T, GoodRows(T), NEW K \in SUBSET (DOMAIN T)
  PROVE  GoodRows(Unmovable!Keep(T, K))
<1>1. T \in Seq(DRow)
  BY DEF GoodRows
<1>2. Unmovable!Keep(T, K) = Downloads!Keep(T, K)
  <2>1. Unmovable!Cardinality(K) = Downloads!Cardinality(K) /\ Unmovable!InOrder(K) = Downloads!InOrder(K)
    BY Zenon DEF Downloads!InOrder, Unmovable!InOrder, Downloads!Cardinality, Unmovable!Cardinality
  <2> QED
    BY Zenon, <2>1 DEF Unmovable!Keep, Downloads!Keep
<1> DEFINE r == Downloads!Keep(T, K)
<1>3. r \in Seq(DRow) /\ Picks(r, T, InOrder(K))
  BY <1>1, SelectedPicks
<1> HIDE DEF r
<1>4. OpenRows(r)
  BY <1>3 DEF Picks, OpenRows, GoodRows
<1> QED
  BY <1>2, <1>3, <1>4 DEF GoodRows, r

LEMMA RowsChanged ==
  ASSUME NEW T, GoodRows(T), NEW U, DOMAIN U = DOMAIN T, U = [n \in DOMAIN T |-> U[n]],
         \A n \in DOMAIN T : U[n] \in DRow /\ ~U[n].incognito
  PROVE  GoodRows(U)
<1>1. DOMAIN T = 1 .. Len(T) /\ Len(T) \in Nat
  BY DEF GoodRows
<1>2. U \in [1 .. Len(T) -> DRow]
  BY <1>1
<1> QED
  BY <1>1, <1>2 DEF GoodRows, OpenRows

LEMMA RowsUpdated ==
  ASSUME GoodRows(table), NEW i, NEW f \in {"complete", "error", "paused"}, NEW v \in BOOLEAN
  PROVE  GoodRows(Unmovable!Updated(i, f, v))
<1> DEFINE U == Unmovable!Updated(i, f, v)
<1>1. ASSUME NEW n \in DOMAIN table
      PROVE  /\ table[n] \in DRow /\ ~table[n].incognito
             /\ [table[n] EXCEPT ![f] = v] \in DRow /\ ~[table[n] EXCEPT ![f] = v].incognito
  <2>1. table[n] \in DRow /\ ~table[n].incognito
    BY DEF GoodRows, OpenRows
  <2>2. CASE f = "complete"
    BY <2>1, <2>2 DEF DRow, Downloads!Row
  <2>3. CASE f = "error"
    BY <2>1, <2>3 DEF DRow, Downloads!Row
  <2>4. CASE f = "paused"
    BY <2>1, <2>4 DEF DRow, Downloads!Row
  <2> QED
    BY <2>2, <2>3, <2>4
<1>2. /\ DOMAIN U = DOMAIN table /\ U = [n \in DOMAIN table |-> U[n]]
      /\ \A n \in DOMAIN table : U[n] = table[n] \/ U[n] = [table[n] EXCEPT ![f] = v]
  BY DEF Unmovable!Updated
<1> HIDE DEF U
<1>3. \A n \in DOMAIN table : U[n] \in DRow /\ ~U[n].incognito
  BY <1>1, <1>2
<1>4. GoodRows(U)
  BY <1>2, <1>3, RowsChanged
<1> QED
  BY <1>4 DEF U

LEMMA RowsMoved ==
  ASSUME GoodRows(table), NEW i, NEW d \in Path
  PROVE  GoodRows(Unmovable!MovedRow(i, d))
<1> DEFINE U == Unmovable!MovedRow(i, d)
<1>1. ASSUME NEW n \in DOMAIN table
      PROVE  /\ table[n] \in DRow /\ ~table[n].incognito
             /\ Unmovable!Moved(table[n], d) \in DRow /\ ~Unmovable!Moved(table[n], d).incognito
  <2>1. table[n] \in DRow /\ ~table[n].incognito
    BY DEF GoodRows, OpenRows
  <2> QED
    BY <2>1 DEF DRow, Downloads!Row, Unmovable!Moved
<1>2. /\ DOMAIN U = DOMAIN table /\ U = [n \in DOMAIN table |-> U[n]]
      /\ \A n \in DOMAIN table : U[n] = table[n] \/ U[n] = Unmovable!Moved(table[n], d)
  BY DEF Unmovable!MovedRow
<1> HIDE DEF U
<1>3. \A n \in DOMAIN table : U[n] \in DRow /\ ~U[n].incognito
  BY <1>1, <1>2
<1>4. GoodRows(U)
  BY <1>2, <1>3, RowsChanged
<1> QED
  BY <1>4 DEF U

\* Of a list, and a position in it or behind it, at which a row is put.
LEMMA RowsInserted ==
  ASSUME NEW T, GoodRows(T), NEW q \in 0 .. Len(T), NEW e \in DRow, ~e.incognito
  PROVE  GoodRows(Downloads!InsertAt(T, q + 1, e))
<1> DEFINE r == Downloads!InsertAt(T, q + 1, e)
<1>1. r \in Seq(DRow) /\ IsInserted(r, T, q, e)
  BY InsertedAt DEF GoodRows
<1> HIDE DEF r
<1>2. \A n \in DOMAIN r : ~r[n].incognito
  BY <1>1 DEF IsInserted, GoodRows, OpenRows
<1>3. GoodRows(r)
  BY <1>1, <1>2 DEF GoodRows, OpenRows
<1> QED
  BY <1>3 DEF r

LEMMA RowAdded ==
  ASSUME GoodRows(table), now \in Nat, NEW i \in Id, NEW p \in Path, NEW b \in BOOLEAN, Unmovable!Add(i, p, b)
  PROVE  GoodRows(table')
<1> DEFINE e == [id |-> i, path |-> p, created |-> now', type |-> "reported", complete |-> FALSE,
                 paused |-> FALSE, error |-> FALSE, incognito |-> b]
           I == {k \in 1 .. Len(table) : table[k].created >= e.created}
           q == IF I # {} THEN Unmovable!Max(I) ELSE 0
<1>1. e \in DRow /\ e.incognito = b
  BY DEF DRow, Downloads!Row, Unmovable!Add
<1>2. table' = IF b THEN table ELSE Unmovable!InsertAt(table, q + 1, e)
  BY DEF Unmovable!Add, Unmovable!Inserted, Unmovable!SelectLastInSeq
<1>3. CASE b
  BY <1>2, <1>3
<1>4. CASE ~b
  <2>1. Len(table) \in Nat
    BY DEF GoodRows
  <2>2. q \in 0 .. Len(table)
    <3>1. CASE I = {}
      BY <2>1, <3>1
    <3>2. CASE I # {}
      <4> DEFINE J == {Len(table) - k : k \in I}
      <4>1. J \in SUBSET Nat /\ J # {}
        BY <2>1, <3>2
      <4>2. PICK l \in J : \A m \in J : l <= m
        <5> HIDE DEF J
        <5> QED
          BY <4>1, LeastNat
      <4>3. PICK g \in I : l = Len(table) - g
        OBVIOUS
      <4>4. ASSUME NEW k \in I PROVE g >= k
        <5>1. Len(table) - k \in J /\ k \in Nat /\ g \in Nat
          BY <2>1
        <5>2. Len(table) - g <= Len(table) - k
          BY <4>2, <4>3, <5>1
        <5> HIDE DEF I, J
        <5> QED
          BY <2>1, <5>1, <5>2
      <4>5. Unmovable!Max(I) \in I
        <5> HIDE DEF I, J
        <5> QED
          BY <4>4 DEF Unmovable!Max
      <4> QED
        BY <2>1, <3>2, <4>5
    <3> QED
      BY <3>1, <3>2
  <2>3. Unmovable!InsertAt(table, q + 1, e) = Downloads!InsertAt(table, q + 1, e)
    BY Zenon DEF Unmovable!InsertAt, Downloads!InsertAt
  <2> HIDE DEF q, e, I
  <2> QED
    BY <1>1, <1>2, <1>4, <2>2, <2>3, RowsInserted
<1> QED
  BY <1>3, <1>4

LEMMA UnmovableStep ==
  ASSUME GoodRows(table), now \in Nat, Unmovable!Next
  PROVE  GoodRows(table')
<1>1. ASSUME NEW i, NEW f \in {"complete", "error", "paused"}, NEW v \in BOOLEAN,
             NEW k, Unmovable!SetField(k, f, v)
      PROVE  GoodRows(table')
  <2>1. table' = table \/ table' = Unmovable!Updated(entries[k].id, f, v)
    BY <1>1 DEF Unmovable!SetField
  <2> QED
    BY <2>1, RowsUpdated
<1>2. CASE Unmovable!FetchMore
  BY <1>2 DEF Unmovable!FetchMore
<1>3. CASE Unmovable!Restart
  BY <1>3 DEF Unmovable!Restart, Unmovable!RestartWith
<1>4. CASE Unmovable!PruneIncognitoDownloads
  BY <1>4 DEF Unmovable!PruneIncognitoDownloads
<1>5. CASE Unmovable!FilesChange
  BY <1>5 DEF Unmovable!FilesChange
<1>6. ASSUME NEW i \in Id, NEW p \in Path, NEW b \in BOOLEAN, Unmovable!Add(i, p, b)
      PROVE  GoodRows(table')
  BY <1>6, RowAdded
<1>7. ASSUME NEW i \in Id, Unmovable!SetComplete(i) PROVE GoodRows(table')
  BY <1>1, <1>7 DEF Unmovable!SetComplete
<1>8. ASSUME NEW i \in Id, Unmovable!SetError(i) PROVE GoodRows(table')
  BY <1>1, <1>8 DEF Unmovable!SetError
<1>9. ASSUME NEW i \in Id, NEW b \in BOOLEAN, Unmovable!SetPaused(i, b) PROVE GoodRows(table')
  BY <1>1, <1>9 DEF Unmovable!SetPaused
<1>10. ASSUME NEW i \in Id, Unmovable!CancelDownload(i) PROVE GoodRows(table')
  <2>1. \/ table' = table
        \/ table' = Unmovable!Keep(table, {n \in DOMAIN table : table[n].id # i})
    BY <1>10 DEF Unmovable!CancelDownload
  <2>2. {n \in DOMAIN table : table[n].id # i} \in SUBSET (DOMAIN table)
    OBVIOUS
  <2> QED
    BY <2>1, <2>2, RowsSelected
<1>11. ASSUME NEW i \in Id, NEW p \in Path, NEW d \in Path, Unmovable!MoveToDownloads(i, p, d)
       PROVE  GoodRows(table')
  <2>1. table' = table \/ table' = Unmovable!MovedRow(i, d)
    BY <1>11 DEF Unmovable!MoveToDownloads
  <2> QED
    BY <2>1, RowsMoved
<1>12. ASSUME NEW i \in Id, NEW p \in Path, NEW d \in Path, Unmovable!StopInMove(i, p, d)
       PROVE  GoodRows(table')
  BY <1>12 DEF Unmovable!StopInMove, Unmovable!RestartWith
<1>13. ASSUME NEW p \in Path, Unmovable!DeleteDownload(p) PROVE GoodRows(table')
  <2>1. \/ table' = table
        \/ table' = Unmovable!Keep(table, {n \in DOMAIN table : table[n].path # p})
    BY <1>13 DEF Unmovable!DeleteDownload, Unmovable!WithoutPath
  <2>2. {n \in DOMAIN table : table[n].path # p} \in SUBSET (DOMAIN table)
    OBVIOUS
  <2> QED
    BY <2>1, <2>2, RowsSelected
<1>14. ASSUME NEW p \in Path, Unmovable!StopInDelete(p) PROVE GoodRows(table')
  BY <1>14 DEF Unmovable!StopInDelete, Unmovable!RestartWith
<1> QED
  BY <1>2, <1>3, <1>4, <1>5, <1>6, <1>7, <1>8, <1>9, <1>10, <1>11, <1>12, <1>13, <1>14
     DEF Unmovable!Next

LEMMA UnmovableClock ==
  ASSUME now \in Nat, Unmovable!Next
  PROVE  now' \in Nat
<1>1. ASSUME NEW T, NEW F, Unmovable!RestartWith(T, F) PROVE now' = now + 1
  BY <1>1 DEF Unmovable!RestartWith
<1>2. ASSUME NEW k, NEW f, NEW v, Unmovable!SetField(k, f, v) PROVE now' = now
  BY <1>2 DEF Unmovable!SetField
<1>3. \/ Unmovable!FetchMore \/ Unmovable!PruneIncognitoDownloads \/ Unmovable!FilesChange
      \/ \E i, p, b : Unmovable!Add(i, p, b)
      \/ \E i : Unmovable!CancelDownload(i)
      \/ \E i, p, d : Unmovable!MoveToDownloads(i, p, d)
      \/ \E p : Unmovable!DeleteDownload(p)
      \/ \E T, F : Unmovable!RestartWith(T, F)
      \/ \E k, f, v : Unmovable!SetField(k, f, v)
  BY DEF Unmovable!Next, Unmovable!Restart, Unmovable!StopInMove, Unmovable!StopInDelete,
         Unmovable!SetComplete, Unmovable!SetError, Unmovable!SetPaused
<1>4. ASSUME \/ Unmovable!FetchMore \/ Unmovable!PruneIncognitoDownloads \/ Unmovable!FilesChange
             \/ \E i : Unmovable!CancelDownload(i)
             \/ \E i, p, d : Unmovable!MoveToDownloads(i, p, d)
             \/ \E p : Unmovable!DeleteDownload(p)
      PROVE  now' = now
  BY <1>4 DEF Unmovable!FetchMore, Unmovable!PruneIncognitoDownloads, Unmovable!FilesChange,
              Unmovable!CancelDownload, Unmovable!MoveToDownloads, Unmovable!DeleteDownload
<1>5. ASSUME NEW i, NEW p, NEW b, Unmovable!Add(i, p, b) PROVE now' = now \/ now' = now + 1
  BY <1>5 DEF Unmovable!Add
<1> QED
  BY <1>1, <1>2, <1>3, <1>4, <1>5

-----------------------------------------------------------------------------
(* Downloads: the invariant *)

DownloadsInv == /\ GoodRows(table) /\ now \in Nat
                /\ part = "downloads" => WellKept(entries, table, fetched, now)

LEMMA DownloadsInit == Init => DownloadsInv
<1> SUFFICES ASSUME Init PROVE DownloadsInv
  OBVIOUS
<1>1. entries = <<>> /\ table = <<>> /\ fetched = 0 /\ now = 0
  BY DEF Init, Downloads!Init
<1>2. <<>> \in Seq(DRow) /\ Len(<<>>) = 0 /\ 0 \in 0 .. 0 /\ DOMAIN <<>> = {}
  OBVIOUS
<1>3. WellKept(<<>>, <<>>, 0, 0)
  BY <1>2 DEF WellKept, OnceEach, SameOwners, OpenRows, StoredAs, Splits, InTime, Latest, Older
<1>4. GoodRows(<<>>)
  BY <1>2 DEF GoodRows, OpenRows
<1> QED
  BY <1>1, <1>3, <1>4 DEF DownloadsInv

LEMMA DownloadsNext == DownloadsInv /\ [Next]_vars => DownloadsInv'
<1> SUFFICES ASSUME DownloadsInv, [Next]_vars PROVE DownloadsInv'
  OBVIOUS
<1>1. CASE Runs("downloads") /\ Downloads!Next
  <2>1. WellKept(entries, table, fetched, now)'
    BY <1>1, DownloadsStep DEF DownloadsInv, Runs
  <2> QED
    BY <2>1 DEF DownloadsInv, GoodRows, WellKept, InTime
<1>2. CASE Runs("unmovable") /\ Unmovable!Next
  <2>1. GoodRows(table') /\ now' \in Nat
    BY <1>2, UnmovableStep, UnmovableClock DEF DownloadsInv
  <2> QED
    BY <1>2, <2>1 DEF DownloadsInv, Runs
<1>3. CASE UNCHANGED <<part, entries, table, fetched, now>>
  BY <1>3 DEF DownloadsInv
<1> QED
  BY <1>1, <1>2, <1>3 DEF Next, vars, downloadVars, Runs

LEMMA DownloadsAlways == Spec => []DownloadsInv
BY DownloadsInit, DownloadsNext, PTL DEF Spec

\* Nothing is stored of the downloads of incognito windows.  When files can be moved, the offset
\* separates the downloads that have been read from the others, each that is listed is stored as
\* it is listed, none is listed twice and those of a later second come first: for any downloads, paths
\* and size of a page, whatever is added, changed and removed between two pages, and wherever the
\* process stops.
THEOREM DownloadsStayKept == Spec => []DownloadsKept
<1>1. DownloadsInv => DownloadsKept
  <2> SUFFICES ASSUME DownloadsInv PROVE DownloadsKept
    OBVIOUS
  <2>1. Downloads!IncognitoUnstored
    BY DEF DownloadsInv, GoodRows, OpenRows, Downloads!IncognitoUnstored
  <2>2. ASSUME part = "downloads"
        PROVE  Downloads!OffsetSplits /\ Downloads!MostRecentFirst /\ Downloads!ListedAsStored
    <3>1. WellKept(entries, table, fetched, now)
      BY <2>2 DEF DownloadsInv
    <3>2. Downloads!OffsetSplits
      BY <3>1 DEF WellKept, Splits, IdsOf, Downloads!OffsetSplits, Downloads!Ids
    <3>3. Downloads!MostRecentFirst
      <4>1. \A j, k \in DOMAIN entries : j < k => entries[j].id # entries[k].id
        <5>1. \A j, k \in DOMAIN entries : j < k => j # k
          BY <3>1 DEF WellKept
        <5> QED
          BY <3>1, <5>1 DEF WellKept, OnceEach
      <4> QED
        BY <3>1, <4>1 DEF WellKept, InTime, Latest, Downloads!MostRecentFirst
    <3>4. Downloads!ListedAsStored
      BY <3>1 DEF WellKept, StoredAs, Downloads!ListedAsStored
    <3> QED
      BY <3>2, <3>3, <3>4
  <2> QED
    BY <2>1, <2>2 DEF DownloadsKept
<1> QED
  BY <1>1, DownloadsAlways, PTL

-----------------------------------------------------------------------------
(* Cookies of a web app: the times of the rows *)

\* Before the first millisecond in which the store has not been written to.
Before(r, ms) == r.creation \in Nat /\ r.creation < (ms + 1) * PerMs

CookieRows(ms) == \A r \in cookieTable : Before(r, ms)

\* What is said to be set is there, and the times of the rows are of milliseconds in which the
\* store has been written to.
CookiesInv == /\ msec \in Nat \ {0} /\ written \in 0 .. msec /\ CookieRows(written)
              /\ Cookies!SetIsStored

LEMMA LaterMs == ASSUME NEW a \in Nat, NEW b \in Nat, a < b PROVE (a + 1) * PerMs <= b * PerMs
<1>1. PerMs \in Nat
  BY CookieAssumption
<1>2. PICK k \in Nat : b = (a + 1) + k
  <2>1. b - (a + 1) \in Nat /\ b = (a + 1) + (b - (a + 1))
    OBVIOUS
  <2> QED
    BY <2>1
<1>3. PICK p \in Nat : p = PerMs
  BY <1>1
<1>4. b * p = (a + 1) * p + k * p
  BY <1>2
<1>5. (a + 1) * p \in Nat /\ k * p \in Nat
  OBVIOUS
<1> QED
  BY <1>3, <1>4, <1>5

\* A turn of the loop, whose function is the one that goes through all of them.
CookieTurn(rs, cs, f, n) == IF n = 0 THEN [rows |-> rs, last |-> 0]
  ELSE IF n \in {} THEN Cookies!Unstored(f[n - 1], cs[n]) ELSE Cookies!Insert(f[n - 1], cs[n])

LEMMA CookieTurnsExist ==
  ASSUME NEW rs, NEW cs, NEW len \in Nat
  PROVE  \E f : f = [n \in 0 .. len |-> CookieTurn(rs, cs, f, n)]
<1> DEFINE S == {k \in Nat : \E f : f = [n \in 0 .. k |-> CookieTurn(rs, cs, f, n)]}
<1>1. 0 \in S
  <2> DEFINE f == [n \in 0 .. 0 |-> [rows |-> rs, last |-> 0]]
  <2>1. \A n \in 0 .. 0 : CookieTurn(rs, cs, f, n) = [rows |-> rs, last |-> 0]
    BY DEF CookieTurn
  <2>2. f = [n \in 0 .. 0 |-> CookieTurn(rs, cs, f, n)]
    BY <2>1
  <2> QED
    BY <2>2
<1>2. ASSUME NEW k \in Nat, k \in S PROVE k + 1 \in S
  <2>1. PICK f : f = [n \in 0 .. k |-> CookieTurn(rs, cs, f, n)]
    BY <1>2
  <2> DEFINE g == [n \in 0 .. k + 1 |-> CookieTurn(rs, cs, f, n)]
  <2>2. \A n \in 0 .. k : g[n] = f[n]
    <3> SUFFICES ASSUME NEW n \in 0 .. k PROVE g[n] = f[n]
      OBVIOUS
    <3>1. n \in 0 .. k + 1
      OBVIOUS
    <3>2. g[n] = CookieTurn(rs, cs, f, n)
      BY <3>1
    <3>3. [j \in 0 .. k |-> CookieTurn(rs, cs, f, j)][n] = CookieTurn(rs, cs, f, n)
      OBVIOUS
    <3> QED
      BY <2>1, <3>2, <3>3
  <2>3. \A n \in 0 .. k + 1 : CookieTurn(rs, cs, f, n) = CookieTurn(rs, cs, g, n)
    <3> SUFFICES ASSUME NEW n \in 0 .. k + 1 PROVE CookieTurn(rs, cs, f, n) = CookieTurn(rs, cs, g, n)
      OBVIOUS
    <3>1. CASE n = 0
      BY <3>1 DEF CookieTurn
    <3>2. CASE n # 0
      <4>1. n - 1 \in 0 .. k
        BY <3>2
      <4>2. f[n - 1] = g[n - 1]
        BY <2>2, <4>1
      <4> HIDE DEF g
      <4> QED
        BY <4>2 DEF CookieTurn
    <3> QED
      BY <3>1, <3>2
  <2>4. g = [n \in 0 .. k + 1 |-> CookieTurn(rs, cs, g, n)]
    <3>1. g = [n \in 0 .. k + 1 |-> CookieTurn(rs, cs, f, n)]
      OBVIOUS
    <3> HIDE DEF g
    <3> QED
      BY <2>3, <3>1
  <2>5. \E h : h = [n \in 0 .. k + 1 |-> CookieTurn(rs, cs, h, n)]
    BY <2>4
  <2> QED
    BY <2>5
<1>3. Nat \subseteq S
  <2> HIDE DEF S
  <2> QED
    BY <1>1, <1>2, SetInduction
<1> QED
  BY <1>3

\* The rows after a loop over the first n cookies: each under its own microsecond.
NewRows(cs, at, n) == {[creation |-> (at + i) - 1, cookie |-> cs[i]] : i \in 1 .. n}

RowsBefore(rs, at) == \A r \in rs : r.creation \in Nat /\ r.creation < at

\* The state of the loop after n turns.
LoopState(rs, cs, at, n) == [rows |-> rs \cup NewRows(cs, at, n), last |-> IF n = 0 THEN 0 ELSE (at + n) - 1]

\* One turn: the key is free, when all rows are of an earlier time.
LEMMA CookieInserted ==
  ASSUME NEW rs, NEW cs, NEW n \in Nat, NEW at \in Nat \ {0}, at = msec * PerMs, RowsBefore(rs, at),
         NEW s, s = LoopState(rs, cs, at, n)
  PROVE  Cookies!Insert(s, cs[n + 1]) = LoopState(rs, cs, at, n + 1)
<1>1. s.last = (IF n = 0 THEN 0 ELSE (at + n) - 1) /\ s.rows = rs \cup NewRows(cs, at, n)
  BY DEF LoopState
<1>2. Cookies!Timestamp(s.last) = at + n
  <2>1. CASE n = 0
    BY <1>1, <2>1 DEF Cookies!Timestamp
  <2>2. CASE n # 0
    BY <1>1, <2>2 DEF Cookies!Timestamp
  <2> QED
    BY <2>1, <2>2
<1>3. \A r \in s.rows : r.creation # at + n
  <2>1. ASSUME NEW r \in rs PROVE r.creation # at + n
    BY DEF RowsBefore
  <2>2. ASSUME NEW i \in 1 .. n PROVE [creation |-> (at + i) - 1, cookie |-> cs[i]].creation # at + n
    OBVIOUS
  <2> QED
    BY <1>1, <2>1, <2>2 DEF NewRows
<1>4. NewRows(cs, at, n + 1) = NewRows(cs, at, n) \cup {[creation |-> at + n, cookie |-> cs[n + 1]]}
  <2>1. 1 .. n + 1 = (1 .. n) \cup {n + 1} /\ (at + (n + 1)) - 1 = at + n
    OBVIOUS
  <2> QED
    BY <2>1 DEF NewRows
<1>5. Cookies!Insert(s, cs[n + 1]) = [rows |-> s.rows \cup {[creation |-> at + n, cookie |-> cs[n + 1]]}, last |-> at + n]
  BY <1>2, <1>3 DEF Cookies!Insert
<1>6. n + 1 # 0 /\ (at + (n + 1)) - 1 = at + n
  OBVIOUS
<1> QED
  BY <1>1, <1>4, <1>5, <1>6 DEF LoopState

\* The rows after the loop, when no statement fails.
StoredRows(rs, cs) == Cookies!Inserted(rs, cs, {}).rows

\* The loop adds a row for each cookie.
LEMMA AllInserted ==
  ASSUME NEW rs, NEW len \in Nat, NEW cs \in [1 .. len -> Cookie], NEW at \in Nat \ {0}, at = msec * PerMs,
         RowsBefore(rs, at)
  PROVE  StoredRows(rs, cs) = rs \cup NewRows(cs, at, len)
<1> DEFINE F == CHOOSE f : f = [n \in 0 .. len |-> CookieTurn(rs, cs, f, n)]
           S == {n \in Nat : n <= len => F[n] = LoopState(rs, cs, at, n)}
<1>1. Len(cs) = len
  OBVIOUS
<1>2. F = [n \in 0 .. len |-> CookieTurn(rs, cs, F, n)]
  BY CookieTurnsExist
<1>3. Cookies!Inserted(rs, cs, {}) = F[len]
  BY <1>1 DEF Cookies!Inserted, CookieTurn
<1> HIDE DEF F
<1>4. \A n \in 0 .. len : F[n] = CookieTurn(rs, cs, F, n)
  BY <1>2
<1>5. 0 \in S
  <2>1. F[0] = [rows |-> rs, last |-> 0]
    BY <1>4 DEF CookieTurn
  <2>2. NewRows(cs, at, 0) = {}
    BY DEF NewRows
  <2> QED
    BY <2>1, <2>2 DEF LoopState
<1>6. ASSUME NEW n \in Nat, n \in S PROVE n + 1 \in S
  <2> SUFFICES ASSUME n + 1 <= len PROVE F[n + 1] = LoopState(rs, cs, at, n + 1)
    OBVIOUS
  <2>1. F[n] = LoopState(rs, cs, at, n)
    BY <1>6
  <2>2. F[n + 1] = Cookies!Insert(F[n], cs[n + 1])
    <3>1. n + 1 \in 0 .. len /\ n + 1 # 0 /\ (n + 1) - 1 = n
      OBVIOUS
    <3> QED
      BY <1>4, <3>1 DEF CookieTurn
  <2>3. PICK s : s = F[n]
    OBVIOUS
  <2>4. Cookies!Insert(s, cs[n + 1]) = LoopState(rs, cs, at, n + 1)
    BY <1>6, <2>1, <2>3, CookieInserted
  <2> QED
    BY <2>2, <2>3, <2>4
<1>7. Nat \subseteq S
  <2> HIDE DEF S
  <2> QED
    BY <1>5, <1>6, SetInduction
<1>8. F[len] = LoopState(rs, cs, at, len)
  BY <1>7
<1> QED
  BY <1>3, <1>8 DEF LoopState, StoredRows

\* doSetCookies, in a millisecond in which the store has not been written to.
LEMMA SetCookiesStep ==
  ASSUME CookiesInv, NEW cs \in Cookies!BoundedSeq(Cookie, MaxCookies), Cookies!DoSetCookies(cs)
  PROVE  CookiesInv'
<1>1. PICK len \in 0 .. MaxCookies : cs \in [1 .. len -> Cookie]
  BY DEF Cookies!BoundedSeq, Cookies!SeqOf
<1>2. PerMs \in Nat \ {0} /\ MaxCookies \in Nat /\ MaxCookies <= PerMs /\ len \in Nat /\ len <= PerMs
  BY <1>1, CookieAssumption
<1>3. /\ msec \in Nat \ {0} /\ written \in Nat /\ written < msec /\ msec' = msec /\ written' = msec
      /\ cookieTable' = StoredRows(cookieTable, cs)
      /\ acked' = acked \cup Cookies!Range(cs)
  BY DEF CookiesInv, Cookies!DoSetCookies, StoredRows
<1>4. PICK at : at = msec * PerMs
  OBVIOUS
<1>5. at \in Nat \ {0} /\ (msec + 1) * PerMs = at + PerMs /\ (written + 1) * PerMs <= at
  <2>1. (written + 1) * PerMs <= msec * PerMs
    BY <1>3, LaterMs
  <2>2. PICK p \in Nat \ {0} : p = PerMs
    BY <1>2
  <2>3. (msec + 1) * p = msec * p + p /\ msec * p \in Nat /\ msec * p # 0
    BY <1>3
  <2> QED
    BY <1>4, <2>1, <2>2, <2>3
<1>6. \A r \in cookieTable : r.creation \in Nat /\ r.creation < at
  <2>1. (written + 1) * PerMs \in Nat
    BY <1>2, <1>3
  <2> QED
    BY <1>5, <2>1 DEF CookiesInv, CookieRows, Before
<1>7. cookieTable' = cookieTable \cup NewRows(cs, at, len)
  <2>1. PICK rs : rs = cookieTable
    OBVIOUS
  <2>2. RowsBefore(rs, at)
    BY <1>6, <2>1 DEF RowsBefore
  <2>3. StoredRows(rs, cs) = rs \cup NewRows(cs, at, len)
    BY <1>1, <1>2, <1>4, <1>5, <2>2, AllInserted
  <2> QED
    BY <1>3, <2>1, <2>3
<1>8. CookieRows(written)'
  <2>1. ASSUME NEW r \in cookieTable PROVE r.creation \in Nat /\ r.creation < at + PerMs
    BY <1>2, <1>5, <1>6
  <2>2. ASSUME NEW i \in 1 .. len
        PROVE  LET r == [creation |-> (at + i) - 1, cookie |-> cs[i]] IN r.creation \in Nat /\ r.creation < at + PerMs
    BY <1>2, <1>5
  <2>3. \A r \in cookieTable' : r.creation \in Nat /\ r.creation < at + PerMs
    BY <1>7, <2>1, <2>2 DEF NewRows
  <2> QED
    BY <1>3, <1>5, <2>3 DEF CookieRows, Before
<1>9. Cookies!SetIsStored'
  <2>1. ASSUME NEW c \in acked' PROVE c \in {r.cookie : r \in cookieTable'}
    <3>1. CASE c \in acked
      BY <1>7, <3>1 DEF CookiesInv, Cookies!SetIsStored
    <3>2. CASE c \notin acked
      <4>1. PICK i \in 1 .. len : c = cs[i]
        BY <1>1, <1>3, <3>2 DEF Cookies!Range
      <4>2. [creation |-> (at + i) - 1, cookie |-> cs[i]] \in cookieTable'
        BY <1>7 DEF NewRows
      <4> QED
        BY <4>1, <4>2
    <3> QED
      BY <3>1, <3>2
  <2> QED
    BY <2>1 DEF Cookies!SetIsStored
<1> QED
  BY <1>3, <1>8, <1>9 DEF CookiesInv

LEMMA CookiesInit == Init => CookiesInv
BY DEF Init, Cookies!Init, CookiesInv, CookieRows, Cookies!SetIsStored

LEMMA CookiesNext == CookiesInv /\ [Next]_vars => CookiesInv'
<1> SUFFICES ASSUME CookiesInv, [Next]_vars PROVE CookiesInv'
  OBVIOUS
<1>1. ASSUME Cookies!Next PROVE CookiesInv'
  <2>1. ASSUME NEW cs \in Cookies!BoundedSeq(Cookie, MaxCookies), Cookies!DoSetCookies(cs) PROVE CookiesInv'
    BY <2>1, SetCookiesStep
  <2>2. CASE Cookies!DoGetCookies \/ Cookies!Fails
    BY <2>2 DEF Cookies!DoGetCookies, Cookies!Fails, CookiesInv, CookieRows, Before, Cookies!SetIsStored
  <2>3. CASE Cookies!Tick
    BY <2>3 DEF Cookies!Tick, CookiesInv, CookieRows, Before, Cookies!SetIsStored
  <2> QED
    BY <1>1, <2>1, <2>2, <2>3 DEF Cookies!Next
<1>2. CASE UNCHANGED cookieVars
  BY <1>2 DEF cookieVars, CookiesInv, CookieRows, Before, Cookies!SetIsStored
<1> QED
  BY <1>1, <1>2 DEF Next, vars

LEMMA CookiesAlways == Spec => []CookiesInv
BY CookiesInit, CookiesNext, PTL DEF Spec

\* doSetCookies, doGetCookies: every cookie that was said to be set is in the table, and what
\* is got has all of them: for any cookies, when the store is written to once in a millisecond and
\* no more cookies are set together than it has microseconds.
THEOREM CookiesStayKept == Spec => CookiesKept
<1>1. CookiesInv /\ [Next]_vars => [Cookies!SetIsStored' /\ Cookies!GotStep]_vars
  <2> SUFFICES ASSUME CookiesInv, [Next]_vars PROVE Cookies!SetIsStored' /\ Cookies!GotStep
    OBVIOUS
  <2>1. Cookies!SetIsStored'
    BY CookiesNext DEF CookiesInv
  <2>2. ASSUME got' # got PROVE acked \subseteq got'
    <3>1. Cookies!DoGetCookies
      BY <2>2 DEF Next, vars, cookieVars, Cookies!Next, Cookies!DoSetCookies, Cookies!Fails, Cookies!Tick
    <3> QED
      BY <3>1 DEF Cookies!DoGetCookies, CookiesInv, Cookies!SetIsStored
  <2> QED
    BY <2>1, <2>2 DEF Cookies!GotStep
<1> QED
  BY <1>1, CookiesAlways, PTL DEF Spec, CookiesKept

-----------------------------------------------------------------------------
(* Bookmarks: sorted lists of names, and bookmarks in the order of their dates *)

Increases(s) == s \in Seq(Nat) /\ \A i, j \in DOMAIN s : i < j => s[i] < s[j]

LEMMA BookmarksCardinality == \A K : Bookmarks!Cardinality(K) = Cardinality(K)
BY Zenon DEF Bookmarks!Cardinality, Cardinality

\* The cardinality of what a list lists once.
LEMMA CountOnce ==
  ASSUME NEW n \in Nat, NEW g, DOMAIN g = 1 .. n, \A i, j \in 1 .. n : i < j => g[i] # g[j],
         NEW K, K = {g[i] : i \in 1 .. n}
  PROVE  IsFiniteSet(K) /\ Cardinality(K) = n
<1> DEFINE f == [i \in 1 .. n |-> g[i]]
<1>1. \A i, j \in 1 .. n : g[i] = g[j] => i = j
  <2> SUFFICES ASSUME NEW i \in 1 .. n, NEW j \in 1 .. n, i # j PROVE g[i] # g[j]
    OBVIOUS
  <2>1. i < j \/ j < i
    OBVIOUS
  <2> QED
    BY <2>1
<1>2. f \in Bijection(1 .. n, K)
  BY <1>1 DEF Bijection, Injection, Surjection, IsInjective
<1>3. IsFiniteSet(1 .. n) /\ Cardinality(1 .. n) = n
  BY FS_Interval
<1> HIDE DEF f
<1> QED
  BY <1>2, <1>3, FS_Bijection DEF ExistsBijection

\* There is one list of a set of names in increasing order.
LEMMA NamesInOrder ==
  ASSUME NEW g, Increases(g), NEW K, K = Bookmarks!Range(g)
  PROVE  Bookmarks!InOrder(K) = g
<1>1. PICK n \in Nat : n = Len(g) /\ DOMAIN g = 1 .. n /\ g \in [1 .. n -> Nat]
  BY DEF Increases
<1>2. K = {g[i] : i \in 1 .. n} /\ K \subseteq Nat
  BY <1>1 DEF Bookmarks!Range
<1>3. \A i, j \in 1 .. n : i < j => g[i] < g[j]
  BY <1>1 DEF Increases
<1>4. Bookmarks!Cardinality(K) = n
  <2>1. \A i, j \in 1 .. n : i < j => g[i] # g[j]
    BY <1>1, <1>3
  <2> QED
    BY <1>1, <1>2, <2>1, CountOnce, BookmarksCardinality
<1>5. g \in [1 .. n -> K] /\ \A k \in K : \E i \in 1 .. n : g[i] = k
  BY <1>1, <1>2
<1> DEFINE P(f) == \A i, j \in DOMAIN f : i < j => f[i] < f[j]
<1>6. Bookmarks!InOrder(K) = CHOOSE f \in [1 .. n -> K] : P(f)
  BY <1>4 DEF Bookmarks!InOrder
<1>7. P(g)
  BY <1>1, <1>3
<1>8. PICK f : f = Bookmarks!InOrder(K)
  OBVIOUS
<1>9. f \in [1 .. n -> K] /\ P(f)
  <2>1. \E h \in [1 .. n -> K] : P(h)
    BY <1>5, <1>7
  <2> HIDE DEF P
  <2> QED
    BY <1>6, <1>8, <2>1
<1>10. \A i, j \in 1 .. n : i < j => f[i] < f[j]
  BY <1>9
<1>11. \A k \in K : \E i \in 1 .. n : f[i] = k
  <2>1. \A i \in 1 .. n : f[i] \in Nat
    BY <1>2, <1>9
  <2> DEFINE L == {f[i] : i \in 1 .. n}
  <2>2. Cardinality(L) = n
    <3>1. \A i, j \in 1 .. n : i < j => f[i] # f[j]
      BY <1>10, <2>1
    <3>2. DOMAIN f = 1 .. n
      BY <1>9
    <3> QED
      BY <3>1, <3>2, CountOnce
  <2>3. L \subseteq K
    BY <1>9
  <2>4. IsFiniteSet(K) /\ Cardinality(K) = n
    <3>1. \A i, j \in 1 .. n : i < j => g[i] # g[j]
      BY <1>1, <1>3
    <3> QED
      BY <1>1, <1>2, <3>1, CountOnce
  <2>5. L = K
    <3> HIDE DEF L
    <3> QED
      BY <2>2, <2>3, <2>4, FS_Subset
  <2> QED
    BY <2>5
<1>12. f = g
  <2>1. \A k \in K : (\E i \in 1 .. n : f[i] = k) /\ (\E i \in 1 .. n : g[i] = k)
    BY <1>5, <1>11
  <2>2. K \in SUBSET Nat /\ n \in Nat /\ f \in [1 .. n -> K] /\ g \in [1 .. n -> K]
    BY <1>2, <1>5, <1>9
  <2> HIDE DEF P
  <2> QED
    BY <1>3, <1>10, <2>1, <2>2, SameEnumeration
<1> QED
  BY <1>8, <1>12

\* p is the list o with x after its first m elements.
IsPutIn(p, o, m, x) ==
  /\ p \in Seq(Nat) /\ Len(p) = Len(o) + 1
  /\ \A i \in 1 .. Len(o) + 1 : p[i] = IF i <= m THEN o[i] ELSE IF i = m + 1 THEN x ELSE o[i - 1]

LEMMA NamePutIn ==
  ASSUME NEW o \in Seq(Nat), NEW x \in Nat, NEW m \in 0 .. Len(o)
  PROVE  IsPutIn(Bookmarks!InsertAt(o, m + 1, x), o, m, x)
<1>1. Len(o) \in Nat /\ m \in Nat /\ m <= Len(o)
  OBVIOUS
<1> DEFINE a == SubSeq(o, 1, m)
           b == SubSeq(o, m + 1, Len(o))
<1>2. a \in Seq(Nat) /\ Len(a) = m /\ \A i \in 1 .. m : a[i] = o[i]
  BY <1>1
<1>3. b \in Seq(Nat) /\ Len(b) = Len(o) - m /\ \A i \in 1 .. Len(o) - m : b[i] = o[i + m]
  BY <1>1
<1>4. Bookmarks!InsertAt(o, m + 1, x) = a \o <<x>> \o b
  <2>1. (m + 1) - 1 = m
    BY <1>1
  <2> QED
    BY <2>1 DEF Bookmarks!InsertAt
<1> HIDE DEF a, b
<1>5. PICK d : d = a \o <<x>>
  OBVIOUS
<1>6. d \in Seq(Nat) /\ Len(d) = m + 1 /\ \A i \in 1 .. m + 1 : d[i] = IF i <= m THEN o[i] ELSE x
  <2>1. a \in Seq(Nat) /\ <<x>> \in Seq(Nat) /\ Len(<<x>>) = 1 /\ <<x>>[1] = x
    BY <1>2
  <2>2. d \in Seq(Nat) /\ Len(d) = m + 1
    BY <1>2, <1>5, <2>1
  <2>3. ASSUME NEW i \in 1 .. m + 1 PROVE d[i] = IF i <= m THEN o[i] ELSE x
    <3>1. CASE i <= m
      BY <1>2, <1>5, <2>1, <3>1
    <3>2. CASE i = m + 1
      BY <1>1, <1>2, <1>5, <2>1, <3>2
    <3> QED
      BY <1>1, <3>1, <3>2
  <2> QED
    BY <2>2, <2>3
<1>7. PICK p : p = d \o b
  OBVIOUS
<1>8. d \in Seq(Nat) /\ b \in Seq(Nat)
  BY <1>3, <1>6
<1>9. p \in Seq(Nat) /\ Len(p) = Len(o) + 1
  <2>1. p \in Seq(Nat) /\ Len(p) = Len(d) + Len(b)
    BY <1>7, <1>8
  <2> QED
    BY <1>1, <1>3, <1>6, <2>1
<1>10. ASSUME NEW i \in 1 .. Len(o) + 1
       PROVE  p[i] = IF i <= m THEN o[i] ELSE IF i = m + 1 THEN x ELSE o[i - 1]
  <2>1. p[i] = IF i <= Len(d) THEN d[i] ELSE b[i - Len(d)]
    <3>1. i \in 1 .. Len(d) + Len(b)
      BY <1>1, <1>3, <1>6
    <3> QED
      BY <1>7, <1>8, <3>1
  <2>2. CASE i <= m + 1
    <3>1. i \in 1 .. m + 1 /\ i <= Len(d)
      BY <1>1, <1>6, <2>2
    <3>2. p[i] = IF i <= m THEN o[i] ELSE x
      BY <1>6, <2>1, <3>1
    <3> QED
      BY <1>1, <2>2, <3>2
  <2>3. CASE ~(i <= m + 1)
    <3>1. i - (m + 1) \in 1 .. Len(o) - m /\ (i - (m + 1)) + m = i - 1 /\ ~(i <= m) /\ i # m + 1
      BY <1>1, <2>3
    <3>2. p[i] = b[i - (m + 1)]
      BY <1>6, <2>1, <2>3
    <3>3. b[i - (m + 1)] = o[(i - (m + 1)) + m]
      BY <1>3, <3>1
    <3> QED
      BY <3>1, <3>2, <3>3
  <2> QED
    BY <2>2, <2>3
<1>11. Bookmarks!InsertAt(o, m + 1, x) = p
  BY <1>4, <1>5, <1>7
<1> QED
  BY <1>9, <1>10, <1>11 DEF IsPutIn

\* onFolderAdded: the list has one more name, if it had not, and is sorted.
LEMMA NameListed ==
  ASSUME NEW o, Increases(o), NEW x \in Nat
  PROVE  /\ Increases(Bookmarks!WithFolder(o, x))
         /\ Bookmarks!Range(Bookmarks!WithFolder(o, x)) = Bookmarks!Range(o) \cup {x}
<1>1. o \in Seq(Nat) /\ \A i, j \in DOMAIN o : i < j => o[i] < o[j]
  BY DEF Increases
<1>2. PICK n \in Nat : n = Len(o) /\ DOMAIN o = 1 .. n
  BY <1>1
<1>3. CASE x \in Bookmarks!Range(o)
  BY <1>3 DEF Bookmarks!WithFolder
<1>4. CASE x \notin Bookmarks!Range(o)
  <2> DEFINE B == {i \in DOMAIN o : o[i] <= x}
  <2>0. \A i \in 1 .. n : o[i] \in Nat /\ o[i] # x
    BY <1>1, <1>2, <1>4 DEF Bookmarks!Range
  <2>1. PICK m \in 0 .. n : \A i \in 1 .. n : o[i] <= x <=> i <= m
    <3> DEFINE A == {i \in 1 .. n : o[i] > x}
    <3>1. CASE A = {}
      <4>1. \A i \in 1 .. n : o[i] <= x <=> i <= n
        BY <2>0, <3>1
      <4> QED
        BY <4>1
    <3>2. CASE A # {}
      <4>1. PICK k \in A : \A j \in A : k <= j
        <5>1. A \in SUBSET Nat
          OBVIOUS
        <5> HIDE DEF A
        <5> QED
          BY <3>2, <5>1, LeastNat
      <4>2. k \in 1 .. n /\ o[k] > x
        OBVIOUS
      <4>3. ASSUME NEW i \in 1 .. n PROVE o[i] <= x <=> i <= k - 1
        <5>1. CASE i < k
          <6>1. i \notin A
            BY <4>1, <4>2, <5>1
          <6> QED
            BY <2>0, <4>2, <5>1, <6>1
        <5>2. CASE i = k
          BY <2>0, <4>2, <5>2
        <5>3. CASE k < i
          <6>1. o[k] < o[i]
            BY <1>1, <1>2, <4>2, <5>3
          <6> QED
            BY <2>0, <4>2, <5>3, <6>1
        <5> QED
          BY <4>2, <5>1, <5>2, <5>3
      <4>4. k - 1 \in 0 .. n
        BY <4>2
      <4> QED
        BY <4>3, <4>4
    <3> QED
      BY <3>1, <3>2
  <2>2. B = 1 .. m
    BY <1>2, <2>1
  <2>3. Bookmarks!Cardinality(B) = m
    <3>1. Cardinality(1 .. m) = m
      BY <2>1, FS_Interval
    <3> QED
      BY <2>2, <3>1, BookmarksCardinality
  <2>4. PICK p : p = Bookmarks!WithFolder(o, x)
    OBVIOUS
  <2>5. p = Bookmarks!InsertAt(o, m + 1, x)
    BY <1>4, <2>3, <2>4 DEF Bookmarks!WithFolder
  <2>6. IsPutIn(p, o, m, x)
    BY <1>1, <1>2, <2>1, <2>5, NamePutIn
  <2>7. p \in Seq(Nat) /\ Len(p) = n + 1 /\ DOMAIN p = 1 .. n + 1
    BY <1>2, <2>6 DEF IsPutIn
  <2>8. \A i \in 1 .. n + 1 : p[i] = IF i <= m THEN o[i] ELSE IF i = m + 1 THEN x ELSE o[i - 1]
    BY <1>2, <2>6 DEF IsPutIn
  <2>9. \A i \in 1 .. n + 1 : /\ i <= m => p[i] = o[i] /\ p[i] < x /\ i \in 1 .. n
                              /\ i = m + 1 => p[i] = x
                              /\ i > m + 1 => p[i] = o[i - 1] /\ p[i] > x /\ i - 1 \in 1 .. n
    BY <2>0, <2>1, <2>8
  <2>10. ASSUME NEW i \in 1 .. n + 1, NEW j \in 1 .. n + 1, i < j PROVE p[i] < p[j]
    <3>0. p[i] \in Nat /\ p[j] \in Nat
      BY <2>7
    <3>1. CASE j <= m
      <4>1. i <= m /\ i \in 1 .. n /\ j \in 1 .. n /\ p[i] = o[i] /\ p[j] = o[j]
        BY <2>1, <2>9, <2>10, <3>1
      <4> QED
        BY <1>1, <1>2, <2>10, <4>1
    <3>2. CASE i <= m /\ ~(j <= m)
      <4>1. p[i] < x /\ x <= p[j]
        BY <2>1, <2>9, <3>0, <3>2
      <4> QED
        BY <3>0, <4>1
    <3>3. CASE i = m + 1
      BY <2>1, <2>9, <2>10, <3>3
    <3>4. CASE i > m + 1
      <4>1. j > m + 1 /\ i - 1 \in 1 .. n /\ j - 1 \in 1 .. n /\ p[i] = o[i - 1] /\ p[j] = o[j - 1] /\ i - 1 < j - 1
        BY <2>1, <2>9, <2>10, <3>4
      <4> QED
        BY <1>1, <1>2, <4>1
    <3> QED
      BY <2>1, <2>10, <3>1, <3>2, <3>3, <3>4
  <2>11. Bookmarks!Range(p) = Bookmarks!Range(o) \cup {x}
    <3>1. Bookmarks!Range(p) = {p[i] : i \in 1 .. n + 1} /\ Bookmarks!Range(o) = {o[i] : i \in 1 .. n}
      BY <1>2, <2>7 DEF Bookmarks!Range
    <3>2. ASSUME NEW i \in 1 .. n PROVE \E j \in 1 .. n + 1 : p[j] = o[i]
      <4>1. CASE i <= m
        BY <2>9, <4>1
      <4>2. CASE i > m
        <5>1. i + 1 \in 1 .. n + 1 /\ i + 1 > m + 1 /\ (i + 1) - 1 = i
          BY <2>1, <4>2
        <5> QED
          BY <2>9, <5>1
      <4> QED
        BY <2>1, <4>1, <4>2
    <3>3. m + 1 \in 1 .. n + 1 /\ p[m + 1] = x
      BY <2>1, <2>9
    <3>4. ASSUME NEW i \in 1 .. n + 1 PROVE p[i] = x \/ \E j \in 1 .. n : p[i] = o[j]
      <4>1. i <= m \/ i = m + 1 \/ i > m + 1
        BY <2>1
      <4> QED
        BY <2>9, <4>1
    <3> QED
      BY <3>1, <3>2, <3>3, <3>4
  <2> QED
    BY <2>4, <2>7, <2>10, <2>11 DEF Increases
<1> QED
  BY <1>3, <1>4

-----------------------------------------------------------------------------
(* Bookmarks: the folders *)

NameAt(names, id) == IF id = 0 THEN 0 ELSE names[id]

\* Names by id, the table of folders, and the list of them: ids are those of rows of the name, each
\* name of the table is there, and the list has the names in their order.
FoldersGood(fs, names, list) ==
  /\ names \in Seq(Nat) /\ Increases(list)
  /\ fs = [id \in DOMAIN fs |-> fs[id]] /\ DOMAIN fs \in SUBSET (0 .. Len(names)) /\ 0 \in DOMAIN fs
  /\ \A id \in DOMAIN fs : fs[id] = NameAt(names, id)
  /\ \A id \in 0 .. Len(names) : \E j \in DOMAIN fs : fs[j] = NameAt(names, id)
  /\ Bookmarks!Range(list) = Bookmarks!Range(fs)

LEMMA FoldersOfIs ==
  ASSUME NEW names \in Seq(Nat), NEW fs, fs = Bookmarks!FoldersOf(names)
  PROVE  /\ fs = [id \in DOMAIN fs |-> fs[id]] /\ DOMAIN fs = 0 .. Len(names) /\ 0 \in DOMAIN fs
         /\ \A id \in DOMAIN fs : fs[id] = NameAt(names, id) /\ fs[id] \in Nat
<1>1. Len(names) \in Nat /\ DOMAIN names = 1 .. Len(names)
  OBVIOUS
<1> QED
  BY <1>1 DEF Bookmarks!FoldersOf, NameAt

\* populateFromDatabase: all folders of the table, listed as they are.
LEMMA FoldersRead ==
  ASSUME NEW names \in Seq(Nat), NEW fs, fs = Bookmarks!FoldersOf(names),
         NEW list, Increases(list), Bookmarks!Range(list) = Bookmarks!Range(fs)
  PROVE  FoldersGood(fs, names, Bookmarks!InOrder(Bookmarks!Range(fs)))
<1>1. Bookmarks!InOrder(Bookmarks!Range(fs)) = list
  BY NamesInOrder
<1> QED
  BY <1>1, FoldersOfIs DEF FoldersGood

LEMMA FoldersAgain ==
  ASSUME NEW old, NEW names, NEW list, FoldersGood(old, names, list),
         NEW fs, fs = Bookmarks!FoldersOf(names)
  PROVE  /\ FoldersGood(fs, names, Bookmarks!InOrder(Bookmarks!Range(fs)))
         /\ \A id \in DOMAIN old : id \in DOMAIN fs /\ fs[id] = old[id]
<1>1. names \in Seq(Nat) /\ Increases(list) /\ Bookmarks!Range(list) = Bookmarks!Range(old)
  BY DEF FoldersGood
<1>2. /\ fs = [id \in DOMAIN fs |-> fs[id]] /\ DOMAIN fs = 0 .. Len(names)
      /\ \A id \in DOMAIN fs : fs[id] = NameAt(names, id) /\ fs[id] \in Nat
  BY <1>1, FoldersOfIs
<1>3. \A id \in DOMAIN old : id \in DOMAIN fs /\ fs[id] = old[id]
  BY <1>2 DEF FoldersGood
<1>4. Bookmarks!Range(fs) = Bookmarks!Range(old)
  <2>1. \A id \in DOMAIN fs : \E j \in DOMAIN old : old[j] = fs[id]
    BY <1>2 DEF FoldersGood
  <2> QED
    BY <1>3, <2>1 DEF Bookmarks!Range
<1> QED
  BY <1>1, <1>3, <1>4, FoldersRead

\* The first position of a set of them.
LEMMA FirstPosition ==
  ASSUME NEW n \in Nat, NEW K \in SUBSET (1 .. n), K # {}
  PROVE  Bookmarks!Min(K) \in K
<1>1. \E k \in K : \A j \in K : k <= j
  BY LeastNat
<1>2. Bookmarks!Min(K) = CHOOSE k \in K : \A j \in K : k <= j
  BY DEF Bookmarks!Min
<1> QED
  BY <1>1, <1>2

LEMMA IdInIs ==
  ASSUME NEW names \in Seq(Nat), NEW f, NEW i \in DOMAIN names, names[i] = f
  PROVE  Bookmarks!IdIn(names, f) \in 1 .. Len(names) /\ names[Bookmarks!IdIn(names, f)] = f
<1> DEFINE K == {k \in 1 .. Len(names) : names[k] = f}
<1>1. Len(names) \in Nat /\ DOMAIN names = 1 .. Len(names) /\ i \in K
  OBVIOUS
<1>2. Bookmarks!IdIn(names, f) = IF K # {} THEN Bookmarks!Min(K) ELSE 0
  BY DEF Bookmarks!IdIn, Bookmarks!SelectInSeq
<1>3. K \in SUBSET (1 .. Len(names)) /\ K # {}
  BY <1>1
<1>4. Bookmarks!IdIn(names, f) \in K
  <2> HIDE DEF K
  <2> QED
    BY <1>1, <1>2, <1>3, FirstPosition
<1> QED
  BY <1>4

FoldersNow == FoldersGood(folders, folderRows, listed)

\* addFolder: ids keep their names, and that of the first row of the name has it.
LEMMA InsertFolderStep ==
  ASSUME FoldersNow, NEW f \in Nat, Bookmarks!InsertFolder(f)
  PROVE  /\ FoldersNow'
         /\ \A id \in DOMAIN folders : id \in DOMAIN folders' /\ folders'[id] = folders[id]
         /\ Bookmarks!IdIn(folderRows', f) \in DOMAIN folders'
         /\ folders'[Bookmarks!IdIn(folderRows', f)] = f
<1>1. PICK new, names, fs : /\ new = Bookmarks!IdIn(folderRows', f) /\ names = folderRows' /\ fs = folders'
  OBVIOUS
<1>2. /\ names = Append(folderRows, f)
      /\ fs = [id \in DOMAIN folders \cup {new} |-> IF id = new THEN f ELSE folders[id]]
      /\ listed' = Bookmarks!WithFolder(listed, f)
  BY <1>1 DEF Bookmarks!InsertFolder
<1>3. folderRows \in Seq(Nat) /\ Len(folderRows) \in Nat
  BY DEF FoldersNow, FoldersGood
<1>4. /\ names \in Seq(Nat) /\ Len(names) = Len(folderRows) + 1 /\ DOMAIN names = 1 .. Len(names)
      /\ names[Len(folderRows) + 1] = f /\ \A i \in 1 .. Len(folderRows) : names[i] = folderRows[i]
  BY <1>2, <1>3
<1>5. new \in 1 .. Len(names) /\ names[new] = f
  <2>1. Len(folderRows) + 1 \in DOMAIN names
    BY <1>3, <1>4
  <2> QED
    BY <1>1, <1>4, <2>1, IdInIs
<1>6. \A id \in 0 .. Len(folderRows) : NameAt(names, id) = NameAt(folderRows, id)
  BY <1>3, <1>4 DEF NameAt
<1>7. /\ DOMAIN folders \in SUBSET (0 .. Len(folderRows)) /\ 0 \in DOMAIN folders
      /\ \A id \in DOMAIN folders : folders[id] = NameAt(folderRows, id)
      /\ \A id \in 0 .. Len(folderRows) : \E j \in DOMAIN folders : folders[j] = NameAt(folderRows, id)
  BY DEF FoldersNow, FoldersGood
<1>8. fs[new] = f /\ NameAt(names, new) = f
  <2>1. new # 0
    BY <1>5
  <2> QED
    BY <1>2, <1>5, <2>1 DEF NameAt
<1>9. \A id \in DOMAIN folders : id \in DOMAIN fs /\ fs[id] = folders[id]
  <2> SUFFICES ASSUME NEW id \in DOMAIN folders PROVE fs[id] = folders[id]
    BY <1>2
  <2>1. CASE id = new
    BY <1>6, <1>7, <1>8, <2>1
  <2>2. CASE id # new
    BY <1>2, <2>2
  <2> QED
    BY <2>1, <2>2
<1>10. DOMAIN fs = DOMAIN folders \cup {new} /\ fs = [id \in DOMAIN fs |-> fs[id]]
  BY <1>2
<1>11. DOMAIN fs \in SUBSET (0 .. Len(names)) /\ 0 \in DOMAIN fs
  <2>1. 0 .. Len(folderRows) \subseteq 0 .. Len(names) /\ new \in 0 .. Len(names)
    BY <1>3, <1>4, <1>5
  <2> QED
    BY <1>7, <1>10, <2>1
<1>12. \A id \in DOMAIN fs : fs[id] = NameAt(names, id)
  BY <1>6, <1>7, <1>8, <1>9, <1>10
<1>13. \A id \in 0 .. Len(names) : \E j \in DOMAIN fs : fs[j] = NameAt(names, id)
  <2> SUFFICES ASSUME NEW id \in 0 .. Len(names) PROVE \E j \in DOMAIN fs : fs[j] = NameAt(names, id)
    OBVIOUS
  <2>1. CASE id \in 0 .. Len(folderRows)
    <3>1. PICK j \in DOMAIN folders : folders[j] = NameAt(folderRows, id)
      BY <1>7, <2>1
    <3> QED
      BY <1>6, <1>9, <2>1, <3>1
  <2>2. CASE id \notin 0 .. Len(folderRows)
    <3>1. id = Len(folderRows) + 1 /\ id # 0
      BY <1>3, <1>4, <2>2
    <3>2. NameAt(names, id) = f
      BY <1>4, <3>1 DEF NameAt
    <3> QED
      BY <1>8, <1>10, <3>2
  <2> QED
    BY <2>1, <2>2
<1>14. Increases(listed') /\ Bookmarks!Range(listed') = Bookmarks!Range(listed) \cup {f}
  <2>1. PICK o : o = listed
    OBVIOUS
  <2>2. Increases(o)
    BY <2>1 DEF FoldersNow, FoldersGood
  <2> QED
    BY <1>2, <2>1, <2>2, NameListed
<1>15. Bookmarks!Range(fs) = Bookmarks!Range(folders) \cup {f}
  <2>1. \A id \in DOMAIN fs : id = new \/ id \in DOMAIN folders
    BY <1>10
  <2>2. new \in DOMAIN fs
    BY <1>10
  <2> QED
    BY <1>8, <1>9, <2>1, <2>2 DEF Bookmarks!Range
<1>16. Bookmarks!Range(listed') = Bookmarks!Range(fs)
  BY <1>14, <1>15 DEF FoldersNow, FoldersGood
<1>17. FoldersGood(fs, names, listed')
  BY <1>4, <1>10, <1>11, <1>12, <1>13, <1>14, <1>16 DEF FoldersGood
<1> QED
  BY <1>1, <1>5, <1>8, <1>9, <1>10, <1>17 DEF FoldersNow

\* getFolderId: an id that has the name.
LEMMA GetFolderIdStep ==
  ASSUME FoldersNow, NEW f \in Nat, NEW id, Bookmarks!GetFolderId(f, id)
  PROVE  /\ FoldersNow' /\ id \in DOMAIN folders' /\ folders'[id] = f
         /\ \A j \in DOMAIN folders : j \in DOMAIN folders' /\ folders'[j] = folders[j]
<1>1. CASE UNCHANGED <<folders, folderRows, listed>> /\ id \in DOMAIN folders /\ folders[id] = f
  BY <1>1 DEF FoldersNow
<1>2. CASE Bookmarks!InsertFolder(f) /\ id = Bookmarks!IdIn(folderRows', f)
  BY <1>2, InsertFolderStep
<1> QED
  BY <1>1, <1>2 DEF Bookmarks!GetFolderId

\* With the database of an older version, or of no version.
LEMMA FoldersInit ==
  ASSUME NEW names \in {<<>>} \cup {<<f>> : f \in Folder}, NEW fs, fs = Bookmarks!FoldersOf(names)
  PROVE  FoldersGood(fs, names, Bookmarks!InOrder(Bookmarks!Range(fs)))
<1>0. Folder \subseteq Nat \ {0}
  BY BookmarkAssumption
<1>1. CASE names = <<>>
  <2>0. names \in Seq(Nat)
    BY <1>1
  <2>1. names \in Seq(Nat) /\ Len(names) = 0
    BY <1>1
  <2>2. DOMAIN fs = {0} /\ fs[0] = 0
    <3>1. 0 .. 0 = {0}
      OBVIOUS
    <3>2. DOMAIN fs = 0 .. Len(names) /\ \A id \in DOMAIN fs : fs[id] = NameAt(names, id)
      BY <2>0, FoldersOfIs
    <3> QED
      BY <2>1, <3>1, <3>2 DEF NameAt
  <2>3. Increases(<< 0 >>) /\ Bookmarks!Range(<< 0 >>) = {0}
    BY DEF Increases, Bookmarks!Range
  <2>4. Bookmarks!Range(fs) = {0}
    BY <2>2 DEF Bookmarks!Range
  <2> QED
    BY <2>1, <2>3, <2>4, FoldersRead
<1>2. CASE names # <<>>
  <2>1. PICK f \in Nat \ {0} : names = << f >>
    BY <1>0, <1>2
  <2>2. names \in Seq(Nat) /\ Len(names) = 1 /\ names[1] = f
    BY <2>1
  <2>3. DOMAIN fs = {0, 1} /\ fs[0] = 0 /\ fs[1] = f
    <3>1. 0 .. 1 = {0, 1}
      OBVIOUS
    <3> QED
      BY <2>2, <3>1, FoldersOfIs DEF NameAt
  <2>4. PICK list : list = << 0, f >>
    OBVIOUS
  <2>5. list \in Seq(Nat) /\ DOMAIN list = {1, 2} /\ list[1] = 0 /\ list[2] = f
    BY <2>4
  <2>6. Increases(list) /\ Bookmarks!Range(list) = {0, f}
    BY <2>5 DEF Increases, Bookmarks!Range
  <2>7. Bookmarks!Range(fs) = {0, f}
    BY <2>3 DEF Bookmarks!Range
  <2> QED
    BY <2>2, <2>6, <2>7, FoldersRead
<1> QED
  BY <1>1, <1>2

-----------------------------------------------------------------------------
(* Bookmarks: the list and the table *)

BRow == [url : Url, title : Title, created : 0 .. MaxCreated, folderId : Nat]
BEntry == [url : Url, title : Title, created : 0 .. MaxCreated, folderId : Nat, folder : Nat]

\* ORDER BY created DESC, and then by the position of the row.
Precedes(R, i, j) == R[i].created > R[j].created \/ (R[i].created = R[j].created /\ i < j)

\* The positions of all rows, in that order.
Sorts(p, R) == /\ p \in [1 .. Len(R) -> 1 .. Len(R)]
               /\ \A i \in 1 .. Len(R) : \E k \in 1 .. Len(R) : p[k] = i
               /\ \A j, k \in 1 .. Len(R) : j < k => Precedes(R, p[j], p[k])

OneRowEach(R) == \A i, j \in DOMAIN R : R[i].url = R[j].url => i = j

\* Each bookmark is its row.
Rowed(E, R, p) == \A k \in 1 .. Len(R) : Bookmarks!Stored(E[k]) = R[p[k]]

\* The bookmarks E are the rows R, in the order of a query.
Agrees(E, R) == /\ E \in Seq(BEntry) /\ R \in Seq(BRow) /\ Len(E) = Len(R) /\ OneRowEach(R)
                /\ \E p : Sorts(p, R) /\ Rowed(E, R, p)

\* Each is in the folder of its id.
Foldered(E, fs) == \A k \in DOMAIN E : E[k].folderId \in DOMAIN fs /\ E[k].folder = fs[E[k].folderId]

UrlsIn(E) == {E[k].url : k \in DOMAIN E}

LEMMA SortsOnce ==
  ASSUME NEW R \in Seq(BRow), NEW p, Sorts(p, R),
         NEW j \in 1 .. Len(R), NEW k \in 1 .. Len(R), j # k
  PROVE  p[j] # p[k]
<1>0. Len(R) \in Nat /\ DOMAIN R = 1 .. Len(R)
  OBVIOUS
<1>1. p[j] \in DOMAIN R /\ p[k] \in DOMAIN R /\ p[j] \in Nat
  <2>1. p \in [1 .. Len(R) -> 1 .. Len(R)]
    BY DEF Sorts
  <2> QED
    BY <1>0, <2>1
<1>2. R[p[j]].created \in 0 .. MaxCreated
  <2>1. R[p[j]] \in BRow
    BY <1>1
  <2> QED
    BY <2>1 DEF BRow
<1>3. Precedes(R, p[j], p[k]) \/ Precedes(R, p[k], p[j])
  <2>1. j < k \/ k < j
    BY <1>0
  <2> QED
    BY <2>1 DEF Sorts
<1>4. ~Precedes(R, p[j], p[j])
  BY <1>1, <1>2 DEF Precedes
<1> QED
  BY <1>3, <1>4

\* What the query returns: the k-th row is at position p[k].
LEMMA QueryIs ==
  ASSUME NEW R \in Seq(BRow), NEW p, Sorts(p, R), NEW k \in 1 .. Len(R)
  PROVE  Bookmarks!Ordered(R)[k] = R[p[k]]
<1>1. PICK n \in Nat : n = Len(R) /\ DOMAIN R = 1 .. n
  OBVIOUS
<1>2. p \in [1 .. n -> 1 .. n] /\ \A i \in 1 .. n : \E m \in 1 .. n : p[m] = i
  BY <1>1 DEF Sorts
<1>3. \A i \in 1 .. n : R[i].created \in Nat
  <2>1. \A i \in 1 .. n : R[i] \in BRow
    BY <1>1
  <2> QED
    BY <2>1 DEF BRow
<1>4. ASSUME NEW m \in 1 .. n PROVE Bookmarks!Cardinality(Bookmarks!UpTo(R, p[m])) = m
  <2>1. \A i, j \in 1 .. n : i < j => Precedes(R, p[i], p[j])
    BY <1>1 DEF Sorts
  <2>2. ASSUME NEW i \in 1 .. n PROVE p[i] \in Bookmarks!UpTo(R, p[m]) <=> i <= m
    <3>0. p[i] \in 1 .. n /\ p[m] \in 1 .. n /\ R[p[i]].created \in Nat /\ R[p[m]].created \in Nat
      BY <1>2, <1>3
    <3>1. p[i] \in Bookmarks!UpTo(R, p[m]) <=>
            R[p[i]].created > R[p[m]].created \/ (~(R[p[m]].created > R[p[i]].created) /\ p[i] <= p[m])
      BY <1>1, <3>0 DEF Bookmarks!UpTo, Bookmarks!Later
    <3>2. CASE i < m
      <4>1. Precedes(R, p[i], p[m])
        BY <2>1, <3>2
      <4> QED
        BY <3>0, <3>1, <3>2, <4>1 DEF Precedes
    <3>3. CASE i = m
      BY <3>0, <3>1, <3>3
    <3>4. CASE m < i
      <4>1. Precedes(R, p[m], p[i])
        BY <2>1, <3>4
      <4> QED
        BY <3>0, <3>1, <3>4, <4>1 DEF Precedes
    <3> QED
      BY <3>2, <3>3, <3>4
  <2> DEFINE g == [i \in 1 .. m |-> p[i]]
  <2>3. Bookmarks!UpTo(R, p[m]) \subseteq 1 .. n
    BY <1>1 DEF Bookmarks!UpTo
  <2>4. \A x \in Bookmarks!UpTo(R, p[m]) : \E i \in 1 .. m : p[i] = x
    BY <1>2, <2>2, <2>3
  <2>5. \A i \in 1 .. m : p[i] \in Bookmarks!UpTo(R, p[m]) /\ i \in 1 .. n
    BY <2>2
  <2>6. Bookmarks!UpTo(R, p[m]) = {g[i] : i \in 1 .. m}
    BY <2>4, <2>5
  <2>7. \A i, j \in 1 .. m : i < j => g[i] # g[j]
    <3> SUFFICES ASSUME NEW i \in 1 .. m, NEW j \in 1 .. m, i < j PROVE p[i] # p[j]
      OBVIOUS
    <3>1. i \in 1 .. Len(R) /\ j \in 1 .. Len(R) /\ i # j
      BY <1>1
    <3> QED
      BY <3>1, SortsOnce
  <2>8. DOMAIN g = 1 .. m /\ m \in Nat
    OBVIOUS
  <2> HIDE DEF g
  <2> QED
    BY <2>6, <2>7, <2>8, CountOnce, BookmarksCardinality
<1>5. k \in 1 .. n /\ p[k] \in 1 .. n
  BY <1>1, <1>2
<1>6. PICK i : i = CHOOSE m \in DOMAIN R : Bookmarks!Cardinality(Bookmarks!UpTo(R, m)) = k
  OBVIOUS
<1>7. i \in DOMAIN R /\ Bookmarks!Cardinality(Bookmarks!UpTo(R, i)) = k
  <2>1. \E j \in DOMAIN R : Bookmarks!Cardinality(Bookmarks!UpTo(R, j)) = k
    BY <1>1, <1>4, <1>5
  <2> QED
    BY <1>6, <2>1
<1>8. PICK m \in 1 .. n : p[m] = i
  BY <1>1, <1>2, <1>7
<1>9. m = k
  BY <1>4, <1>7, <1>8
<1>10. Bookmarks!Ordered(R)[k] = R[i]
  BY <1>1, <1>5, <1>6 DEF Bookmarks!Ordered
<1> QED
  BY <1>8, <1>9, <1>10

\* populateFromDatabase: the bookmarks are the rows, each in a folder that there is.
LEMMA LoadedIs ==
  ASSUME NEW T \in Seq(BRow), OneRowEach(T), NEW p, Sorts(p, T),
         NEW names \in Seq(Nat), NEW fs, fs = Bookmarks!FoldersOf(names),
         NEW E, E = Bookmarks!Loaded(T, fs), NEW R, R = Bookmarks!Healed(T, fs)
  PROVE  /\ Agrees(E, R) /\ Foldered(E, fs) /\ UrlsIn(E) = {r.url : r \in Bookmarks!Range(T)}
         /\ \A k \in 1 .. Len(T) : E[k] = Bookmarks!EntryOf(T[p[k]], fs)
<1>1. PICK n \in Nat : n = Len(T) /\ DOMAIN T = 1 .. n
  OBVIOUS
<1>2. /\ DOMAIN fs = 0 .. Len(names) /\ Len(names) \in Nat
      /\ \A id \in DOMAIN fs : id \in Nat /\ fs[id] \in Nat
  BY FoldersOfIs
<1>3. p \in [1 .. n -> 1 .. n] /\ \A i \in 1 .. n : \E k \in 1 .. n : p[k] = i
  BY <1>1 DEF Sorts
<1>4. DOMAIN E = 1 .. n /\ \A k \in 1 .. n : E[k] = Bookmarks!EntryOf(T[p[k]], fs)
  BY <1>1, QueryIs DEF Bookmarks!Loaded
<1>5. DOMAIN R = 1 .. n
  BY <1>1 DEF Bookmarks!Healed
<1>6. ASSUME NEW i \in 1 .. n
      PROVE  /\ T[i] \in BRow /\ R[i] \in BRow /\ R[i].url = T[i].url /\ R[i].created = T[i].created
             /\ Bookmarks!EntryOf(T[i], fs) \in BEntry
             /\ Bookmarks!EntryOf(T[i], fs).url = T[i].url
             /\ Bookmarks!EntryOf(T[i], fs).folderId \in DOMAIN fs
             /\ Bookmarks!EntryOf(T[i], fs).folder = fs[Bookmarks!EntryOf(T[i], fs).folderId]
             /\ Bookmarks!Stored(Bookmarks!EntryOf(T[i], fs)) = R[i]
  <2>1. PICK t : t = T[i]
    OBVIOUS
  <2>2. t \in [url : Url, title : Title, created : 0 .. MaxCreated, folderId : Nat]
    <3>1. t \in BRow
      BY <1>1, <2>1
    <3> QED
      BY <3>1 DEF BRow
  <2>3. PICK id : id = IF t.folderId \in DOMAIN fs THEN t.folderId ELSE 0
    OBVIOUS
  <2>4. id \in DOMAIN fs /\ id \in Nat /\ fs[id] \in Nat
    BY <1>2, <2>3
  <2>5. R[i] = IF t.folderId \in DOMAIN fs THEN t ELSE [t EXCEPT !.folderId = 0]
    BY <1>1, <2>1 DEF Bookmarks!Healed
  <2>6. R[i] = [url |-> t.url, title |-> t.title, created |-> t.created, folderId |-> id]
    BY <2>2, <2>3, <2>5
  <2>7. Bookmarks!EntryOf(t, fs) = [url |-> t.url, title |-> t.title, created |-> t.created,
                                   folderId |-> id, folder |-> fs[id]]
    BY <2>3 DEF Bookmarks!EntryOf
  <2> QED
    BY <2>1, <2>2, <2>4, <2>6, <2>7 DEF BRow, BEntry, Bookmarks!Stored
<1>7. E \in Seq(BEntry) /\ Len(E) = n
  <2>1. \A k \in 1 .. n : E[k] \in BEntry
    <3> SUFFICES ASSUME NEW k \in 1 .. n PROVE E[k] \in BEntry
      OBVIOUS
    <3>1. p[k] \in 1 .. n /\ E[k] = Bookmarks!EntryOf(T[p[k]], fs)
      BY <1>3, <1>4
    <3> QED
      BY <1>6, <3>1
  <2>2. E = [k \in 1 .. n |-> E[k]]
    BY <1>1, <1>4 DEF Bookmarks!Loaded
  <2>3. E \in [1 .. n -> BEntry]
    BY <2>1, <2>2
  <2> QED
    BY <2>3
<1>8. R \in Seq(BRow) /\ Len(R) = n
  <2>1. R = [i \in 1 .. n |-> R[i]]
    BY <1>1 DEF Bookmarks!Healed
  <2>2. R \in [1 .. n -> BRow]
    BY <1>6, <2>1
  <2> QED
    BY <2>2
<1>9. OneRowEach(R)
  BY <1>1, <1>5, <1>6 DEF OneRowEach
<1>10. Sorts(p, R)
  <2>1. ASSUME NEW j \in 1 .. n, NEW k \in 1 .. n, j < k PROVE Precedes(R, p[j], p[k])
    <3>1. Precedes(T, p[j], p[k])
      BY <1>1, <2>1 DEF Sorts
    <3>2. p[j] \in 1 .. n /\ p[k] \in 1 .. n
      BY <1>3
    <3> QED
      BY <1>6, <3>1, <3>2 DEF Precedes
  <2> QED
    BY <1>3, <1>8, <2>1 DEF Sorts
<1>11. Rowed(E, R, p)
  <2> SUFFICES ASSUME NEW k \in 1 .. n PROVE Bookmarks!Stored(E[k]) = R[p[k]]
    BY <1>8 DEF Rowed
  <2>1. p[k] \in 1 .. n /\ E[k] = Bookmarks!EntryOf(T[p[k]], fs)
    BY <1>3, <1>4
  <2> QED
    BY <1>6, <2>1
<1>12. Foldered(E, fs)
  <2> SUFFICES ASSUME NEW k \in 1 .. n PROVE E[k].folderId \in DOMAIN fs /\ E[k].folder = fs[E[k].folderId]
    BY <1>4 DEF Foldered
  <2>1. p[k] \in 1 .. n /\ E[k] = Bookmarks!EntryOf(T[p[k]], fs)
    BY <1>3, <1>4
  <2> QED
    BY <1>6, <2>1
<1>13. UrlsIn(E) = {r.url : r \in Bookmarks!Range(T)}
  <2>1. \A k \in 1 .. n : E[k].url = T[p[k]].url /\ p[k] \in 1 .. n
    <3> SUFFICES ASSUME NEW k \in 1 .. n PROVE E[k].url = T[p[k]].url /\ p[k] \in 1 .. n
      OBVIOUS
    <3>1. p[k] \in 1 .. n /\ E[k] = Bookmarks!EntryOf(T[p[k]], fs)
      BY <1>3, <1>4
    <3> QED
      BY <1>6, <3>1
  <2>2. UrlsIn(E) \subseteq {r.url : r \in Bookmarks!Range(T)}
    <3> SUFFICES ASSUME NEW k \in 1 .. n PROVE E[k].url \in {r.url : r \in Bookmarks!Range(T)}
      BY <1>4 DEF UrlsIn
    <3>1. PICK r : r = T[p[k]]
      OBVIOUS
    <3>2. r \in Bookmarks!Range(T)
      BY <1>1, <2>1, <3>1 DEF Bookmarks!Range
    <3> QED
      BY <2>1, <3>1, <3>2
  <2>3. ASSUME NEW r \in Bookmarks!Range(T) PROVE r.url \in UrlsIn(E)
    <3>1. PICK i \in 1 .. n : r = T[i]
      BY <1>1 DEF Bookmarks!Range
    <3>2. PICK k \in 1 .. n : p[k] = i
      BY <1>3
    <3> QED
      BY <1>4, <2>1, <3>1, <3>2 DEF UrlsIn
  <2> QED
    BY <2>2, <2>3
<1> QED
  BY <1>1, <1>4, <1>7, <1>8, <1>9, <1>10, <1>11, <1>12, <1>13 DEF Agrees

\* INSERT: the last row is the first bookmark, when it is later than all others.
LatestOf(e, E) == \A k \in DOMAIN E : e.created > E[k].created
IsAddedFirst(e, E, R, F, S) ==
  /\ Agrees(F, S) /\ UrlsIn(F) = UrlsIn(E) \cup {e.url}
  /\ DOMAIN F = 1 .. Len(E) + 1 /\ F[1] = e /\ \A k \in 1 .. Len(E) : F[k + 1] = E[k]

LEMMA AddedAgrees ==
  ASSUME NEW E, NEW R, Agrees(E, R), NEW e \in BEntry, e.url \notin UrlsIn(E),
         LatestOf(e, E), NEW F, F = <<e>> \o E, NEW S, S = Append(R, Bookmarks!Stored(e))
  PROVE  IsAddedFirst(e, E, R, F, S)
<1>0. \A k \in DOMAIN E : e.created > E[k].created
  BY DEF LatestOf
<1>1. PICK n \in Nat : n = Len(E) /\ DOMAIN E = 1 .. n /\ n = Len(R) /\ DOMAIN R = 1 .. n
  BY DEF Agrees
<1>2. E \in Seq(BEntry) /\ R \in Seq(BRow) /\ OneRowEach(R)
  BY DEF Agrees
<1>3. PICK p : Sorts(p, R) /\ Rowed(E, R, p)
  BY DEF Agrees
<1>4. /\ p \in [1 .. n -> 1 .. n] /\ \A i \in 1 .. n : \E k \in 1 .. n : p[k] = i
      /\ \A j, k \in 1 .. n : j < k => Precedes(R, p[j], p[k])
      /\ \A k \in 1 .. n : Bookmarks!Stored(E[k]) = R[p[k]]
  BY <1>1, <1>3 DEF Sorts, Rowed
<1>5. Bookmarks!Stored(e) \in BRow /\ Bookmarks!Stored(e).url = e.url /\ Bookmarks!Stored(e).created = e.created
  BY DEF BEntry, BRow, Bookmarks!Stored
<1>6. F \in Seq(BEntry) /\ Len(F) = n + 1 /\ DOMAIN F = 1 .. n + 1
  <2>1. <<e>> \in Seq(BEntry) /\ Len(<<e>>) = 1
    OBVIOUS
  <2> QED
    BY <1>1, <1>2, <2>1
<1>7. F[1] = e /\ \A k \in 1 .. n : F[k + 1] = E[k]
  <2>1. \A k \in 1 .. n + 1 : F[k] = IF k = 1 THEN e ELSE E[k - 1]
    BY <1>1, <1>2
  <2>2. \A k \in 1 .. n : k + 1 \in 1 .. n + 1 /\ k + 1 # 1 /\ (k + 1) - 1 = k
    OBVIOUS
  <2>3. 1 \in 1 .. n + 1
    OBVIOUS
  <2> QED
    BY <2>1, <2>2, <2>3
<1>8. S \in Seq(BRow) /\ Len(S) = n + 1 /\ DOMAIN S = 1 .. n + 1
  BY <1>1, <1>2, <1>5
<1>9. S[n + 1] = Bookmarks!Stored(e) /\ \A i \in 1 .. n : S[i] = R[i]
  BY <1>1, <1>2
<1>10. \A i \in 1 .. n : \E k \in 1 .. n : R[i].url = E[k].url /\ R[i].created = E[k].created
  <2> SUFFICES ASSUME NEW i \in 1 .. n PROVE \E k \in 1 .. n : R[i].url = E[k].url /\ R[i].created = E[k].created
    OBVIOUS
  <2>1. PICK k \in 1 .. n : p[k] = i
    BY <1>4
  <2>2. R[i] = Bookmarks!Stored(E[k])
    BY <1>4, <2>1
  <2> QED
    BY <2>2 DEF Bookmarks!Stored
<1>11. \A i \in 1 .. n : R[i].url # e.url /\ e.created > R[i].created
  BY <1>0, <1>1, <1>10 DEF UrlsIn
<1>12. OneRowEach(S)
  <2>1. ASSUME NEW i \in 1 .. n + 1, NEW j \in 1 .. n + 1, S[i].url = S[j].url PROVE i = j
    <3>1. (i \in 1 .. n \/ i = n + 1) /\ (j \in 1 .. n \/ j = n + 1)
      OBVIOUS
    <3>2. \A k \in 1 .. n : S[k].url # S[n + 1].url
      BY <1>5, <1>9, <1>11
    <3>3. CASE i \in 1 .. n /\ j \in 1 .. n
      <4>1. R[i].url = R[j].url
        BY <1>9, <2>1, <3>3
      <4> QED
        BY <1>1, <1>2, <3>3, <4>1 DEF OneRowEach
    <3>4. CASE ~(i \in 1 .. n /\ j \in 1 .. n)
      BY <2>1, <3>1, <3>2, <3>4
    <3> QED
      BY <3>3, <3>4
  <2> QED
    BY <1>8, <2>1 DEF OneRowEach
<1> DEFINE q == [k \in 1 .. n + 1 |-> IF k = 1 THEN n + 1 ELSE p[k - 1]]
<1>13. q \in [1 .. n + 1 -> 1 .. n + 1]
  <2>1. ASSUME NEW k \in 1 .. n + 1, k # 1 PROVE p[k - 1] \in 1 .. n + 1
    <3>1. k - 1 \in 1 .. n
      BY <2>1
    <3>2. p[k - 1] \in 1 .. n
      BY <1>4, <3>1
    <3> QED
      BY <3>2
  <2> QED
    BY <2>1
<1>14. q[1] = n + 1 /\ \A k \in 1 .. n : q[k + 1] = p[k] /\ p[k] \in 1 .. n
  <2>1. \A k \in 1 .. n : k + 1 \in 1 .. n + 1 /\ k + 1 # 1 /\ (k + 1) - 1 = k /\ p[k] \in 1 .. n
    BY <1>4
  <2> QED
    BY <2>1
<1> HIDE DEF q
<1>15. \A k \in 1 .. n + 1 : k = 1 \/ (k - 1 \in 1 .. n /\ (k - 1) + 1 = k)
  OBVIOUS
<1>16. \A k \in 1 .. n + 1 : k # 1 => q[k] = p[k - 1] /\ p[k - 1] \in 1 .. n /\ k - 1 \in 1 .. n
  BY <1>14, <1>15
<1>17. Sorts(q, S)
  <2>1. ASSUME NEW i \in 1 .. n + 1 PROVE \E k \in 1 .. n + 1 : q[k] = i
    <3>1. CASE i = n + 1
      BY <1>14, <3>1
    <3>2. CASE i # n + 1
      <4>1. i \in 1 .. n
        BY <3>2
      <4>2. PICK k \in 1 .. n : p[k] = i
        BY <1>4, <4>1
      <4>3. k + 1 \in 1 .. n + 1
        OBVIOUS
      <4> QED
        BY <1>14, <4>2, <4>3
    <3> QED
      BY <3>1, <3>2
  <2>2. ASSUME NEW j \in 1 .. n + 1, NEW k \in 1 .. n + 1, j < k PROVE Precedes(S, q[j], q[k])
    <3>0. k # 1
      BY <2>2
    <3>1. q[k] \in 1 .. n /\ k - 1 \in 1 .. n /\ q[k] = p[k - 1] /\ S[q[k]] = R[q[k]]
      BY <1>9, <1>16, <3>0
    <3>2. CASE j = 1
      <4>1. S[q[j]].created = e.created
        BY <1>5, <1>9, <1>14, <3>2
      <4> QED
        BY <1>11, <3>1, <4>1 DEF Precedes
    <3>3. CASE j # 1
      <4>1. q[j] \in 1 .. n /\ j - 1 \in 1 .. n /\ q[j] = p[j - 1] /\ S[q[j]] = R[q[j]]
        BY <1>9, <1>16, <3>3
      <4>2. Precedes(R, p[j - 1], p[k - 1])
        <5>1. j - 1 < k - 1
          BY <2>2
        <5> QED
          BY <1>4, <3>1, <4>1, <5>1
      <4> QED
        BY <3>1, <4>1, <4>2 DEF Precedes
    <3> QED
      BY <3>2, <3>3
  <2> QED
    BY <1>8, <1>13, <2>1, <2>2 DEF Sorts
<1>18. Rowed(F, S, q)
  <2> SUFFICES ASSUME NEW k \in 1 .. n + 1 PROVE Bookmarks!Stored(F[k]) = S[q[k]]
    BY <1>8 DEF Rowed
  <2>1. CASE k = 1
    BY <1>7, <1>9, <1>14, <2>1
  <2>2. CASE k # 1
    <3>1. k - 1 \in 1 .. n /\ q[k] = p[k - 1] /\ q[k] \in 1 .. n /\ F[k] = E[k - 1]
      BY <1>7, <1>15, <1>16, <2>2
    <3>2. S[q[k]] = R[p[k - 1]]
      BY <1>9, <3>1
    <3>3. Bookmarks!Stored(E[k - 1]) = R[p[k - 1]]
      BY <1>4, <3>1
    <3> QED
      BY <3>1, <3>2, <3>3
  <2> QED
    BY <2>1, <2>2
<1>19. UrlsIn(F) = UrlsIn(E) \cup {e.url}
  <2>1. \A k \in 1 .. n + 1 : F[k] = e \/ \E j \in 1 .. n : F[k] = E[j]
    BY <1>7, <1>15
  <2>2. ASSUME NEW j \in 1 .. n PROVE E[j].url \in UrlsIn(F)
    <3>1. F[j + 1] = E[j]
      BY <1>7
    <3>2. j + 1 \in 1 .. n + 1
      OBVIOUS
    <3> QED
      BY <1>6, <3>1, <3>2 DEF UrlsIn
  <2>3. e.url \in UrlsIn(F)
    <3>1. 1 \in 1 .. n + 1
      OBVIOUS
    <3> QED
      BY <1>6, <1>7, <3>1 DEF UrlsIn
  <2>4. UrlsIn(E) \subseteq UrlsIn(F)
    BY <1>1, <2>2 DEF UrlsIn
  <2>5. UrlsIn(F) \subseteq UrlsIn(E) \cup {e.url}
    BY <1>1, <1>6, <2>1 DEF UrlsIn
  <2> QED
    BY <2>3, <2>4, <2>5
<1>20. Agrees(F, S)
  BY <1>6, <1>8, <1>12, <1>17, <1>18 DEF Agrees
<1> QED
  BY <1>1, <1>6, <1>7, <1>19, <1>20 DEF IsAddedFirst

\* UPDATE: of a bookmark and its row; its date stays.
SameMark(e, E, k) == e.url = E[k].url /\ e.created = E[k].created
IsUpdated(e, k, E, R, F, S) ==
  /\ Agrees(F, S) /\ UrlsIn(F) = UrlsIn(E)
  /\ DOMAIN F = DOMAIN E /\ F[k] = e /\ \A j \in DOMAIN E : j # k => F[j] = E[j]

LEMMA UpdatedAgrees ==
  ASSUME NEW E, NEW R, Agrees(E, R), NEW k \in DOMAIN E, NEW e \in BEntry,
         SameMark(e, E, k), NEW F, F = [E EXCEPT ![k] = e],
         NEW S, S = [i \in DOMAIN R |-> IF R[i].url = e.url THEN Bookmarks!Stored(e) ELSE R[i]]
  PROVE  IsUpdated(e, k, E, R, F, S)
<1>0. e.url = E[k].url /\ e.created = E[k].created
  BY DEF SameMark
<1>1. PICK n \in Nat : n = Len(E) /\ DOMAIN E = 1 .. n /\ n = Len(R) /\ DOMAIN R = 1 .. n
  BY DEF Agrees
<1>2. E \in Seq(BEntry) /\ R \in Seq(BRow) /\ OneRowEach(R)
  BY DEF Agrees
<1>3. PICK p : Sorts(p, R) /\ Rowed(E, R, p)
  BY DEF Agrees
<1>4. /\ p \in [1 .. n -> 1 .. n] /\ \A i \in 1 .. n : \E j \in 1 .. n : p[j] = i
      /\ \A i, j \in 1 .. n : i < j => Precedes(R, p[i], p[j])
      /\ \A j \in 1 .. n : Bookmarks!Stored(E[j]) = R[p[j]]
  BY <1>1, <1>3 DEF Sorts, Rowed
<1>5. Bookmarks!Stored(e) \in BRow /\ Bookmarks!Stored(e).url = e.url /\ Bookmarks!Stored(e).created = e.created
  BY DEF BEntry, BRow, Bookmarks!Stored
<1>6. DOMAIN F = 1 .. n /\ F[k] = e /\ \A j \in 1 .. n : j # k => F[j] = E[j]
  BY <1>1
<1>7. F \in Seq(BEntry) /\ Len(F) = n
  BY <1>1, <1>2
<1>8. DOMAIN S = 1 .. n /\ \A i \in 1 .. n : S[i] = IF R[i].url = e.url THEN Bookmarks!Stored(e) ELSE R[i]
  BY <1>1
<1>9. p[k] \in 1 .. n /\ R[p[k]].url = e.url /\ R[p[k]].created = e.created
  <2>1. R[p[k]] = Bookmarks!Stored(E[k]) /\ p[k] \in 1 .. n
    BY <1>1, <1>4
  <2> QED
    BY <1>0, <2>1 DEF Bookmarks!Stored
<1>10. \A i \in 1 .. n : R[i].url = e.url <=> i = p[k]
  BY <1>1, <1>2, <1>9 DEF OneRowEach
<1>11. \A i \in 1 .. n : S[i] \in BRow /\ S[i].url = R[i].url /\ S[i].created = R[i].created
  <2> SUFFICES ASSUME NEW i \in 1 .. n PROVE S[i] \in BRow /\ S[i].url = R[i].url /\ S[i].created = R[i].created
    OBVIOUS
  <2>1. CASE i = p[k]
    BY <1>5, <1>8, <1>9, <2>1
  <2>2. CASE i # p[k]
    BY <1>1, <1>2, <1>8, <1>10, <2>2
  <2> QED
    BY <2>1, <2>2
<1>12. S \in Seq(BRow) /\ Len(S) = n
  <2>1. S = [i \in 1 .. n |-> S[i]]
    BY <1>1
  <2>2. S \in [1 .. n -> BRow]
    BY <1>11, <2>1
  <2> QED
    BY <2>2
<1>13. OneRowEach(S)
  BY <1>1, <1>2, <1>8, <1>11 DEF OneRowEach
<1>14. Sorts(p, S)
  <2>1. ASSUME NEW i \in 1 .. n, NEW j \in 1 .. n, i < j PROVE Precedes(S, p[i], p[j])
    <3>1. Precedes(R, p[i], p[j]) /\ p[i] \in 1 .. n /\ p[j] \in 1 .. n
      BY <1>4, <2>1
    <3> QED
      BY <1>11, <3>1 DEF Precedes
  <2> QED
    BY <1>4, <1>12, <2>1 DEF Sorts
<1>15. Rowed(F, S, p)
  <2> SUFFICES ASSUME NEW j \in 1 .. n PROVE Bookmarks!Stored(F[j]) = S[p[j]]
    BY <1>12 DEF Rowed
  <2>1. CASE j = k
    BY <1>6, <1>8, <1>9, <2>1
  <2>2. CASE j # k
    <3>1. p[j] # p[k] /\ p[j] \in 1 .. n
      <4>1. k \in 1 .. Len(R) /\ j \in 1 .. Len(R)
        BY <1>1
      <4>2. p[j] # p[k]
        BY <1>2, <1>3, <2>2, <4>1, SortsOnce
      <4> QED
        BY <1>4, <4>2
    <3> QED
      BY <1>4, <1>6, <1>8, <1>10, <2>2, <3>1
  <2> QED
    BY <2>1, <2>2
<1>16. UrlsIn(F) = UrlsIn(E)
  <2>1. \A j \in 1 .. n : F[j].url = E[j].url
    BY <1>0, <1>1, <1>6
  <2> QED
    BY <1>1, <1>6, <2>1 DEF UrlsIn
<1>17. Agrees(F, S)
  BY <1>7, <1>12, <1>13, <1>14, <1>15 DEF Agrees
<1> QED
  BY <1>1, <1>6, <1>16, <1>17 DEF IsUpdated

\* A list without its k-th element.
IsWithout(t, s, k) == /\ Len(t) = Len(s) - 1 /\ DOMAIN t = 1 .. Len(s) - 1
                      /\ \A i \in 1 .. Len(s) - 1 : t[i] = IF i < k THEN s[i] ELSE s[i + 1]

LEMMA BookmarkTakenOut ==
  ASSUME NEW T, NEW s \in Seq(T), NEW k \in 1 .. Len(s)
  PROVE  Bookmarks!RemoveAt(s, k) \in Seq(T) /\ IsWithout(Bookmarks!RemoveAt(s, k), s, k)
<1>1. Len(s) \in Nat /\ k \in Nat /\ k >= 1 /\ k <= Len(s)
  OBVIOUS
<1> DEFINE a == SubSeq(s, 1, k - 1)
           b == SubSeq(s, k + 1, Len(s))
<1>2. a \in Seq(T) /\ Len(a) = k - 1 /\ \A i \in 1 .. k - 1 : a[i] = s[i]
  BY <1>1
<1>3. b \in Seq(T) /\ Len(b) = Len(s) - k /\ \A i \in 1 .. Len(s) - k : b[i] = s[i + k]
  BY <1>1
<1> HIDE DEF a, b
<1>4. a \o b \in Seq(T) /\ Len(a \o b) = Len(s) - 1 /\ DOMAIN (a \o b) = 1 .. Len(s) - 1
  <2>1. a \o b \in Seq(T)
    BY <1>2, <1>3
  <2>2. Len(a \o b) = Len(a) + Len(b)
    <3>1. a \in Seq(T) /\ b \in Seq(T)
      BY <1>2, <1>3
    <3> QED
      BY <3>1
  <2>3. Len(a) + Len(b) = Len(s) - 1
    BY <1>1, <1>2, <1>3
  <2> QED
    BY <2>1, <2>2, <2>3
<1>5. \A i \in 1 .. Len(s) - 1 : (a \o b)[i] = IF i <= k - 1 THEN a[i] ELSE b[i - (k - 1)]
  BY <1>1, <1>2, <1>3
<1>6. ASSUME NEW i \in 1 .. Len(s) - 1 PROVE (a \o b)[i] = IF i < k THEN s[i] ELSE s[i + 1]
  <2>1. CASE i < k
    BY <1>1, <1>2, <1>5, <2>1
  <2>2. CASE ~(i < k)
    <3>1. i - (k - 1) \in 1 .. Len(s) - k /\ (i - (k - 1)) + k = i + 1
      BY <1>1, <2>2
    <3>2. ~(i <= k - 1)
      BY <1>1, <2>2
    <3>3. (a \o b)[i] = b[i - (k - 1)]
      BY <1>5, <3>2
    <3>4. b[i - (k - 1)] = s[(i - (k - 1)) + k]
      BY <1>3, <3>1
    <3> QED
      BY <2>2, <3>1, <3>3, <3>4
  <2> QED
    BY <2>1, <2>2
<1> QED
  BY <1>4, <1>6 DEF Bookmarks!RemoveAt, IsWithout, a, b

\* Where the elements before and after position q are in a list without it, and back.
Up(m, q) == IF m < q THEN m ELSE m + 1
Down(m, q) == IF m < q THEN m ELSE m - 1

LEMMA UpAndDown ==
  ASSUME NEW n \in Nat \ {0}, NEW q \in 1 .. n
  PROVE  /\ \A m \in 1 .. n - 1 : Up(m, q) \in (1 .. n) \ {q} /\ Down(Up(m, q), q) = m
         /\ \A m \in (1 .. n) \ {q} : Down(m, q) \in 1 .. n - 1 /\ Up(Down(m, q), q) = m
         /\ \A i, j \in 1 .. n - 1 : i < j => Up(i, q) < Up(j, q)
         /\ \A i, j \in (1 .. n) \ {q} : i < j => Down(i, q) < Down(j, q)
BY DEF Up, Down

Mounts(g, c) == \A i, j \in 1 .. c : i < j => g[i] < g[j]
Reaches(g, c, K) == \A k \in K : \E i \in 1 .. c : g[i] = k

LEMMA ListedInOrder ==
  ASSUME NEW n \in Nat, NEW K \in SUBSET (1 .. n), NEW c \in Nat, NEW g \in [1 .. c -> K],
         Mounts(g, c), Reaches(g, c, K)
  PROVE  Cardinality(K) = c /\ InOrder(K) = g
<1>1. \A i, j \in 1 .. c : i < j => g[i] < g[j]
  BY DEF Mounts
<1>2. \A k \in K : \E i \in 1 .. c : g[i] = k
  BY DEF Reaches
<1> QED
  BY Zenon, <1>1, <1>2, InOrderUnique

\* DELETE: all rows but one stay, in their order.
LEMMA RowTakenOut ==
  ASSUME NEW R \in Seq(BRow), NEW q \in 1 .. Len(R), NEW K, K = DOMAIN R \ {q}
  PROVE  Bookmarks!Keep(R, K) \in Seq(BRow) /\ IsWithout(Bookmarks!Keep(R, K), R, q)
<1>1. PICK n \in Nat \ {0} : n = Len(R) /\ DOMAIN R = 1 .. n
  OBVIOUS
<1>2. q \in 1 .. n /\ K = (1 .. n) \ {q} /\ K \in SUBSET (1 .. n) /\ n - 1 \in Nat
  BY <1>1
<1> DEFINE g == [m \in 1 .. n - 1 |-> Up(m, q)]
<1>3. g \in [1 .. n - 1 -> K]
  BY <1>2, UpAndDown
<1>4. \A i, j \in 1 .. n - 1 : i < j => g[i] < g[j]
  BY <1>2, UpAndDown
<1>5. \A k \in K : \E i \in 1 .. n - 1 : g[i] = k
  BY <1>2, UpAndDown
<1>6. \A m \in 1 .. n - 1 : g[m] = Up(m, q) /\ g[m] \in 1 .. n
  BY <1>2, UpAndDown
<1> HIDE DEF g
<1>7. Cardinality(K) = n - 1 /\ InOrder(K) = g
  <2>1. PICK c \in Nat : c = n - 1
    BY <1>2
  <2>2. g \in [1 .. c -> K] /\ n \in Nat /\ K \in SUBSET (1 .. n)
    BY <1>2, <1>3, <2>1
  <2>3. Mounts(g, c)
    BY <1>4, <2>1 DEF Mounts
  <2>4. Reaches(g, c, K)
    BY <1>5, <2>1 DEF Reaches
  <2>5. Cardinality(K) = c /\ InOrder(K) = g
    BY <2>1, <2>2, <2>3, <2>4, ListedInOrder
  <2> QED
    BY <2>1, <2>5
<1>8. Bookmarks!Cardinality(K) = n - 1 /\ Bookmarks!InOrder(K) = g
  <2>1. Bookmarks!Cardinality(K) = Cardinality(K) /\ Bookmarks!InOrder(K) = InOrder(K)
    BY Zenon DEF Bookmarks!InOrder, InOrder, Bookmarks!Cardinality, Cardinality
  <2> QED
    BY <1>7, <2>1
<1>9. PICK S : S = Bookmarks!Keep(R, K)
  OBVIOUS
<1>10. S = [i \in 1 .. n - 1 |-> R[g[i]]]
  BY <1>8, <1>9 DEF Bookmarks!Keep
<1>11. \A i \in 1 .. n - 1 : S[i] = R[Up(i, q)] /\ S[i] \in BRow
  BY <1>1, <1>6, <1>10
<1>12. S \in Seq(BRow) /\ Len(S) = n - 1 /\ DOMAIN S = 1 .. n - 1
  <2>1. S \in [1 .. n - 1 -> BRow]
    BY <1>10, <1>11
  <2> QED
    BY <1>2, <2>1
<1>13. \A i \in 1 .. n - 1 : S[i] = IF i < q THEN R[i] ELSE R[i + 1]
  BY <1>11 DEF Up
<1> QED
  BY <1>1, <1>9, <1>12, <1>13 DEF IsWithout

LEMMA RemovedAgrees ==
  ASSUME NEW E, NEW R, Agrees(E, R), NEW k \in DOMAIN E,
         NEW F, F = Bookmarks!RemoveAt(E, k),
         NEW S, S = Bookmarks!Keep(R, {i \in DOMAIN R : R[i].url # E[k].url})
  PROVE  /\ Agrees(F, S) /\ UrlsIn(F) = UrlsIn(E) \ {E[k].url}
         /\ \A j \in DOMAIN F : \E i \in DOMAIN E : F[j] = E[i]
<1>1. PICK n \in Nat \ {0} : n = Len(E) /\ DOMAIN E = 1 .. n /\ n = Len(R) /\ DOMAIN R = 1 .. n
  <2>1. E \in Seq(BEntry) /\ R \in Seq(BRow) /\ Len(E) = Len(R)
    BY DEF Agrees
  <2> QED
    BY <2>1
<1>2. E \in Seq(BEntry) /\ R \in Seq(BRow) /\ OneRowEach(R)
  BY DEF Agrees
<1>3. PICK p : Sorts(p, R) /\ Rowed(E, R, p)
  BY DEF Agrees
<1>4. /\ p \in [1 .. n -> 1 .. n] /\ \A i \in 1 .. n : \E j \in 1 .. n : p[j] = i
      /\ \A i, j \in 1 .. n : i < j => Precedes(R, p[i], p[j])
      /\ \A j \in 1 .. n : Bookmarks!Stored(E[j]) = R[p[j]]
  BY <1>1, <1>3 DEF Sorts, Rowed
<1>5. k \in 1 .. n
  BY <1>1
<1>6. PICK q \in 1 .. n : q = p[k]
  BY <1>4, <1>5
<1>7. \A j \in 1 .. n : R[p[j]].url = E[j].url /\ p[j] \in 1 .. n
  <2> SUFFICES ASSUME NEW j \in 1 .. n PROVE R[p[j]].url = E[j].url /\ p[j] \in 1 .. n
    OBVIOUS
  <2>1. R[p[j]] = Bookmarks!Stored(E[j]) /\ p[j] \in 1 .. n
    BY <1>4
  <2> QED
    BY <2>1 DEF Bookmarks!Stored
<1>8. \A j \in 1 .. n : j # k => p[j] \in (1 .. n) \ {q}
  <2> SUFFICES ASSUME NEW j \in 1 .. n, j # k PROVE p[j] # q
    BY <1>7
  <2>1. j \in 1 .. Len(R) /\ k \in 1 .. Len(R)
    BY <1>1, <1>5
  <2>2. p[j] # p[k]
    BY <1>2, <1>3, <2>1, SortsOnce
  <2> QED
    BY <1>6, <2>2
<1>9. {i \in DOMAIN R : R[i].url # E[k].url} = DOMAIN R \ {q}
  <2>1. R[q].url = E[k].url
    BY <1>5, <1>6, <1>7
  <2>2. \A i \in 1 .. n : R[i].url = E[k].url <=> i = q
    BY <1>1, <1>2, <2>1 DEF OneRowEach
  <2> QED
    BY <1>1, <2>2
<1>10. F \in Seq(BEntry) /\ Len(F) = n - 1 /\ DOMAIN F = 1 .. n - 1 /\ \A i \in 1 .. n - 1 : F[i] = E[Up(i, k)]
  <2>1. F \in Seq(BEntry) /\ IsWithout(F, E, k)
    BY <1>1, <1>2, BookmarkTakenOut
  <2> QED
    BY <1>1, <2>1 DEF IsWithout, Up
<1>11. S \in Seq(BRow) /\ Len(S) = n - 1 /\ DOMAIN S = 1 .. n - 1 /\ \A i \in 1 .. n - 1 : S[i] = R[Up(i, q)]
  <2>1. S \in Seq(BRow) /\ IsWithout(S, R, q)
    <3>1. PICK K : K = DOMAIN R \ {q}
      OBVIOUS
    <3>2. S = Bookmarks!Keep(R, K)
      BY <1>9, <3>1
    <3>3. q \in 1 .. Len(R)
      BY <1>1
    <3> QED
      BY <1>2, <3>1, <3>2, <3>3, RowTakenOut
  <2> QED
    BY <1>1, <2>1 DEF IsWithout, Up
<1>12. /\ \A m \in 1 .. n - 1 : Up(m, q) \in (1 .. n) \ {q} /\ Down(Up(m, q), q) = m
       /\ \A m \in (1 .. n) \ {q} : Down(m, q) \in 1 .. n - 1 /\ Up(Down(m, q), q) = m
       /\ \A i, j \in (1 .. n) \ {q} : i < j => Down(i, q) < Down(j, q)
  BY UpAndDown
<1>13. /\ \A m \in 1 .. n - 1 : Up(m, k) \in (1 .. n) \ {k}
       /\ \A m \in (1 .. n) \ {k} : Down(m, k) \in 1 .. n - 1 /\ Up(Down(m, k), k) = m
       /\ \A i, j \in 1 .. n - 1 : i < j => Up(i, k) < Up(j, k)
  BY <1>5, UpAndDown
<1>14. \A m \in 1 .. n - 1 : Up(m, k) \in 1 .. n /\ Up(m, k) # k /\ p[Up(m, k)] \in (1 .. n) \ {q}
  BY <1>8, <1>13
<1> DEFINE h == [m \in 1 .. n - 1 |-> Down(p[Up(m, k)], q)]
<1>15. h \in [1 .. n - 1 -> 1 .. n - 1]
  BY <1>12, <1>14
<1>16. \A m \in 1 .. n - 1 : h[m] = Down(p[Up(m, k)], q) /\ S[h[m]] = R[p[Up(m, k)]]
  BY <1>11, <1>12, <1>14
<1> HIDE DEF h
<1>17. OneRowEach(S)
  <2> SUFFICES ASSUME NEW i \in 1 .. n - 1, NEW j \in 1 .. n - 1, S[i].url = S[j].url PROVE i = j
    BY <1>11 DEF OneRowEach
  <2>1. Up(i, q) \in DOMAIN R /\ Up(j, q) \in DOMAIN R /\ R[Up(i, q)].url = R[Up(j, q)].url
    BY <1>1, <1>11, <1>12
  <2>2. Up(i, q) = Up(j, q)
    BY <1>2, <2>1 DEF OneRowEach
  <2>3. Down(Up(i, q), q) = i /\ Down(Up(j, q), q) = j
    BY <1>12
  <2> QED
    BY <2>2, <2>3
<1>18. Sorts(h, S)
  <2>1. ASSUME NEW m \in 1 .. n - 1 PROVE \E j \in 1 .. n - 1 : h[j] = m
    <3>1. PICK l \in 1 .. n : p[l] = Up(m, q)
      BY <1>4, <1>12
    <3>2. l # k
      BY <1>6, <1>12, <3>1
    <3>3. Down(l, k) \in 1 .. n - 1 /\ Up(Down(l, k), k) = l
      BY <1>13, <3>2
    <3> QED
      BY <1>12, <1>16, <3>1, <3>3
  <2>2. ASSUME NEW i \in 1 .. n - 1, NEW j \in 1 .. n - 1, i < j PROVE Precedes(S, h[i], h[j])
    <3>1. PICK a, b : a = p[Up(i, k)] /\ b = p[Up(j, k)]
      OBVIOUS
    <3>2. a \in (1 .. n) \ {q} /\ b \in (1 .. n) \ {q} /\ S[h[i]] = R[a] /\ S[h[j]] = R[b]
      BY <1>14, <1>16, <3>1
    <3>3. Precedes(R, a, b)
      <4>1. Up(i, k) < Up(j, k)
        BY <1>13, <2>2
      <4> QED
        BY <1>4, <1>14, <3>1, <4>1
    <3>4. a < b => h[i] < h[j]
      BY <1>12, <1>16, <3>1, <3>2
    <3> QED
      BY <3>2, <3>3, <3>4 DEF Precedes
  <2> QED
    BY <1>11, <1>15, <2>1, <2>2 DEF Sorts
<1>19. Rowed(F, S, h)
  <2> SUFFICES ASSUME NEW m \in 1 .. n - 1 PROVE Bookmarks!Stored(F[m]) = S[h[m]]
    BY <1>11 DEF Rowed
  <2>1. Up(m, k) \in 1 .. n /\ F[m] = E[Up(m, k)] /\ S[h[m]] = R[p[Up(m, k)]]
    BY <1>10, <1>14, <1>16
  <2> QED
    BY <1>4, <2>1
<1>20. \A j \in DOMAIN F : \E i \in DOMAIN E : F[j] = E[i]
  BY <1>1, <1>10, <1>14
<1>21. UrlsIn(F) = UrlsIn(E) \ {E[k].url}
  <2>1. \A i \in 1 .. n : i # k => E[i].url # E[k].url
    BY <1>1, <1>2, <1>5, <1>6, <1>7, <1>8 DEF OneRowEach
  <2>2. ASSUME NEW m \in 1 .. n - 1 PROVE F[m].url \in UrlsIn(E) \ {E[k].url}
    BY <1>1, <1>10, <1>14, <2>1 DEF UrlsIn
  <2>3. ASSUME NEW i \in 1 .. n, i # k PROVE E[i].url \in UrlsIn(F)
    <3>1. Down(i, k) \in 1 .. n - 1 /\ Up(Down(i, k), k) = i
      BY <1>13, <2>3
    <3> QED
      BY <1>10, <3>1 DEF UrlsIn
  <2>4. UrlsIn(F) \subseteq UrlsIn(E) \ {E[k].url}
    BY <1>10, <2>2 DEF UrlsIn
  <2>5. ASSUME NEW x \in UrlsIn(E), x # E[k].url PROVE x \in UrlsIn(F)
    <3>1. PICK i \in 1 .. n : x = E[i].url
      BY <1>1 DEF UrlsIn
    <3> QED
      BY <2>3, <2>5, <3>1
  <2> QED
    BY <2>4, <2>5
<1> QED
  BY <1>10, <1>11, <1>17, <1>18, <1>19, <1>20, <1>21 DEF Agrees

-----------------------------------------------------------------------------
(* Bookmarks: the invariant *)

BookmarksInv == /\ FoldersNow /\ Agrees(bookmarks, rows) /\ Foldered(bookmarks, folders)
                /\ urls = UrlsIn(bookmarks)

LEMMA BookmarkIndexIs ==
  ASSUME bookmarks \in Seq(BEntry), NEW u, u \in UrlsIn(bookmarks)
  PROVE  /\ Bookmarks!IndexOf(u) \in DOMAIN bookmarks
         /\ bookmarks[Bookmarks!IndexOf(u)].url = u
<1> DEFINE K == {k \in 1 .. Len(bookmarks) : bookmarks[k].url = u}
<1>1. DOMAIN bookmarks = 1 .. Len(bookmarks) /\ Len(bookmarks) \in Nat
  OBVIOUS
<1>2. Bookmarks!IndexOf(u) = IF K # {} THEN Bookmarks!Min(K) ELSE 0
  BY DEF Bookmarks!IndexOf, Bookmarks!SelectInSeq
<1>3. K \in SUBSET (1 .. Len(bookmarks)) /\ K # {}
  BY <1>1 DEF UrlsIn
<1>4. Bookmarks!IndexOf(u) \in K
  <2> HIDE DEF K
  <2> QED
    BY <1>1, <1>2, <1>3, FirstPosition
<1> QED
  BY <1>1, <1>4

\* A new bookmark is later than all that there are: the first is the latest of these.
LEMMA NowIs ==
  ASSUME Agrees(bookmarks, rows), Bookmarks!Now <= MaxCreated
  PROVE  /\ Bookmarks!Now \in 0 .. MaxCreated
         /\ \A k \in DOMAIN bookmarks : Bookmarks!Now > bookmarks[k].created
<1> DEFINE P(c) == /\ \A i \in DOMAIN bookmarks : bookmarks[i].created <= c
                   /\ c = 0 \/ \E i \in DOMAIN bookmarks : bookmarks[i].created = c
<1>0. MaxCreated \in Nat
  BY BookmarkAssumption
<1>1. PICK n \in Nat : n = Len(rows) /\ DOMAIN bookmarks = 1 .. n /\ DOMAIN rows = 1 .. n
  BY DEF Agrees
<1>2. \A i \in 1 .. n : bookmarks[i].created \in 0 .. MaxCreated
  <2>1. \A i \in 1 .. n : bookmarks[i] \in BEntry
    BY <1>1 DEF Agrees
  <2> QED
    BY <2>1 DEF BEntry
<1>3. PICK p : Sorts(p, rows) /\ Rowed(bookmarks, rows, p)
  BY DEF Agrees
<1>4. \A i \in 1 .. n : rows[p[i]].created = bookmarks[i].created
  <2> SUFFICES ASSUME NEW i \in 1 .. n PROVE rows[p[i]].created = bookmarks[i].created
    OBVIOUS
  <2>1. rows[p[i]] = Bookmarks!Stored(bookmarks[i])
    BY <1>1, <1>3 DEF Rowed
  <2> QED
    BY <2>1 DEF Bookmarks!Stored
<1>5. \E c \in 0 .. MaxCreated : P(c)
  <2>1. CASE n = 0
    BY <1>0, <1>1, <2>1
  <2>2. CASE n # 0
    <3>1. 1 \in 1 .. n
      BY <2>2
    <3>2. ASSUME NEW i \in 1 .. n PROVE bookmarks[i].created <= bookmarks[1].created
      <4>1. CASE i = 1
        BY <1>2, <3>1, <4>1
      <4>2. CASE i # 1
        <5>1. Precedes(rows, p[1], p[i])
          BY <1>1, <1>3, <3>1, <4>2 DEF Sorts
        <5> QED
          BY <1>2, <1>4, <3>1, <5>1 DEF Precedes
      <4> QED
        BY <4>1, <4>2
    <3> QED
      BY <1>1, <1>2, <3>1, <3>2
  <2> QED
    BY <2>1, <2>2
<1>6. Bookmarks!Now = 1 + CHOOSE c \in 0 .. MaxCreated : P(c)
  BY DEF Bookmarks!Now
<1> HIDE DEF P
<1>7. PICK c \in 0 .. MaxCreated : c = CHOOSE x \in 0 .. MaxCreated : P(x)
  BY <1>5
<1>8. P(c)
  BY <1>5, <1>7
<1>9. Bookmarks!Now = 1 + c
  BY <1>6, <1>7
<1>10. \A i \in 1 .. n : bookmarks[i].created <= c
  BY <1>1, <1>8 DEF P
<1> QED
  BY <1>0, <1>1, <1>2, <1>9, <1>10

LEMMA NamesAreNumbers == ASSUME NEW f \in Bookmarks!Names PROVE f \in Nat
BY BookmarkAssumption DEF Bookmarks!Names

LEMMA AddBookmarkStep ==
  ASSUME BookmarksInv, NEW u \in Url, NEW t \in Title, NEW f \in Bookmarks!Names, Bookmarks!Add(u, t, f)
  PROVE  BookmarksInv'
<1>0. f \in Nat
  BY NamesAreNumbers
<1>1. /\ u \notin urls /\ Bookmarks!Now <= MaxCreated /\ urls' = urls \cup {u}
  BY DEF Bookmarks!Add
<1>2. PICK date : date = Bookmarks!Now
  OBVIOUS
<1>3. PICK id, e : /\ e = [url |-> u, title |-> t, created |-> date, folderId |-> id, folder |-> f]
                   /\ Bookmarks!GetFolderId(f, id)
                   /\ bookmarks' = <<e>> \o bookmarks
                   /\ rows' = Append(rows, Bookmarks!Stored(e))
  BY <1>2 DEF Bookmarks!Add
<1>4. /\ FoldersNow' /\ id \in DOMAIN folders' /\ folders'[id] = f
      /\ \A j \in DOMAIN folders : j \in DOMAIN folders' /\ folders'[j] = folders[j]
  BY <1>0, <1>3, GetFolderIdStep DEF BookmarksInv
<1>5. id \in Nat
  <2>1. DOMAIN folders' \in SUBSET Nat
    BY <1>4 DEF FoldersNow, FoldersGood
  <2> QED
    BY <1>4, <2>1
<1>6. PICK E, R, F, S : E = bookmarks /\ R = rows /\ F = bookmarks' /\ S = rows'
  OBVIOUS
<1>7. date \in 0 .. MaxCreated /\ \A k \in DOMAIN E : date > E[k].created
  BY <1>1, <1>2, <1>6, NowIs DEF BookmarksInv
<1>8. /\ e \in BEntry /\ e.url = u /\ e.created = date /\ e.folderId = id /\ e.folder = f
  BY <1>0, <1>3, <1>5, <1>7 DEF BEntry
<1>9. Agrees(E, R) /\ urls = UrlsIn(E) /\ Foldered(E, folders)
  BY <1>6 DEF BookmarksInv
<1>10. /\ Agrees(F, S) /\ UrlsIn(F) = UrlsIn(E) \cup {u}
       /\ DOMAIN F = 1 .. Len(E) + 1 /\ F[1] = e /\ \A k \in 1 .. Len(E) : F[k + 1] = E[k]
  <2>1. F = <<e>> \o E /\ S = Append(R, Bookmarks!Stored(e))
    BY <1>3, <1>6
  <2>2. e \in BEntry /\ e.url \notin UrlsIn(E)
    BY <1>1, <1>8, <1>9
  <2>3. LatestOf(e, E)
    BY <1>7, <1>8 DEF LatestOf
  <2>4. Agrees(E, R)
    BY <1>9
  <2>5. IsAddedFirst(e, E, R, F, S)
    BY <2>1, <2>2, <2>3, <2>4, AddedAgrees
  <2> QED
    BY <1>8, <2>5 DEF IsAddedFirst
<1>11. Foldered(F, folders')
  <2>1. E \in Seq(BEntry)
    BY <1>9 DEF Agrees
  <2>2. Len(E) \in Nat /\ DOMAIN E = 1 .. Len(E)
    BY <2>1
  <2> SUFFICES ASSUME NEW k \in 1 .. Len(E) + 1
               PROVE  F[k].folderId \in DOMAIN folders' /\ F[k].folder = folders'[F[k].folderId]
    BY <1>10 DEF Foldered
  <2>3. CASE k = 1
    BY <1>4, <1>8, <1>10, <2>3
  <2>4. CASE k # 1
    <3>1. k - 1 \in 1 .. Len(E) /\ (k - 1) + 1 = k
      BY <2>2, <2>4
    <3>2. F[k] = E[k - 1]
      BY <1>10, <3>1
    <3>3. E[k - 1].folderId \in DOMAIN folders /\ E[k - 1].folder = folders[E[k - 1].folderId]
      BY <1>9, <2>2, <3>1 DEF Foldered
    <3> QED
      BY <1>4, <3>2, <3>3
  <2> QED
    BY <2>3, <2>4
<1> QED
  BY <1>1, <1>4, <1>6, <1>9, <1>10, <1>11 DEF BookmarksInv

LEMMA RemoveBookmarkStep ==
  ASSUME BookmarksInv, NEW u, Bookmarks!RemoveBookmark(u)
  PROVE  BookmarksInv'
<1>1. /\ u \in urls /\ urls' = urls \ {u} /\ bookmarks' = Bookmarks!RemoveAt(bookmarks, Bookmarks!IndexOf(u))
      /\ rows' = Bookmarks!Keep(rows, {i \in DOMAIN rows : rows[i].url # u})
      /\ UNCHANGED <<folders, folderRows, listed>>
  BY DEF Bookmarks!RemoveBookmark
<1>2. PICK E, R, F, S, k : E = bookmarks /\ R = rows /\ F = bookmarks' /\ S = rows' /\ k = Bookmarks!IndexOf(u)
  OBVIOUS
<1>3. Agrees(E, R) /\ urls = UrlsIn(E) /\ Foldered(E, folders)
  BY <1>2 DEF BookmarksInv
<1>4. k \in DOMAIN E /\ E[k].url = u
  BY <1>1, <1>2, <1>3, BookmarkIndexIs DEF Agrees
<1>5. F = Bookmarks!RemoveAt(E, k) /\ S = Bookmarks!Keep(R, {i \in DOMAIN R : R[i].url # E[k].url})
  BY <1>1, <1>2, <1>4
<1>6. /\ Agrees(F, S) /\ UrlsIn(F) = UrlsIn(E) \ {E[k].url}
      /\ \A j \in DOMAIN F : \E i \in DOMAIN E : F[j] = E[i]
  BY <1>3, <1>4, <1>5, RemovedAgrees
<1>7. Foldered(F, folders)
  BY <1>3, <1>6 DEF Foldered
<1> QED
  BY <1>1, <1>2, <1>3, <1>4, <1>6, <1>7 DEF BookmarksInv, FoldersNow

LEMMA UpdateStep ==
  ASSUME BookmarksInv, NEW u, NEW t \in Title, NEW f \in Bookmarks!Names, Bookmarks!Update(u, t, f)
  PROVE  BookmarksInv'
<1>0. f \in Nat
  BY NamesAreNumbers
<1>1. u \in urls /\ urls' = urls
  BY DEF Bookmarks!Update
<1>2. PICK E, R, F, S, k : E = bookmarks /\ R = rows /\ F = bookmarks' /\ S = rows' /\ k = Bookmarks!IndexOf(u)
  OBVIOUS
<1>3. Agrees(E, R) /\ urls = UrlsIn(E) /\ Foldered(E, folders) /\ FoldersNow
  BY <1>2 DEF BookmarksInv
<1>4. k \in DOMAIN E /\ E[k].url = u
  BY <1>1, <1>2, <1>3, BookmarkIndexIs DEF Agrees
<1>5. E[k] \in [url : Url, title : Title, created : 0 .. MaxCreated, folderId : Nat, folder : Nat]
  <2>1. E \in Seq(BEntry)
    BY <1>3 DEF Agrees
  <2>2. E[k] \in BEntry
    BY <1>4, <2>1
  <2> QED
    BY <2>2 DEF BEntry
<1>6. PICK titled : titled = [E[k] EXCEPT !.title = t]
  OBVIOUS
<1>7. /\ titled \in BEntry /\ titled.url = u /\ titled.created = E[k].created
      /\ titled.folderId = E[k].folderId /\ titled.folder = E[k].folder
  BY <1>4, <1>5, <1>6 DEF BEntry
<1>8. PICK e : /\ e \in BEntry /\ e.url = E[k].url /\ e.created = E[k].created /\ F = [E EXCEPT ![k] = e]
               /\ e.folderId \in DOMAIN folders' /\ e.folder = folders'[e.folderId]
               /\ FoldersNow'
               /\ \A j \in DOMAIN folders : j \in DOMAIN folders' /\ folders'[j] = folders[j]
  <2>1. CASE bookmarks' = [bookmarks EXCEPT ![k] = titled] /\ UNCHANGED <<folders, folderRows, listed>>
    <3>1. F = [E EXCEPT ![k] = titled]
      BY <1>2, <2>1
    <3>2. FoldersNow'
      BY <1>3, <2>1 DEF FoldersNow
    <3>3. titled.folderId \in DOMAIN folders' /\ titled.folder = folders'[titled.folderId]
      BY <1>3, <1>4, <1>7, <2>1 DEF Foldered
    <3> QED
      BY <1>4, <1>7, <2>1, <3>1, <3>2, <3>3
  <2>2. ASSUME NEW id, Bookmarks!GetFolderId(f, id),
               bookmarks' = [bookmarks EXCEPT ![k] = [titled EXCEPT !.folder = f, !.folderId = id]]
        PROVE  \E e \in BEntry : /\ e.url = E[k].url /\ e.created = E[k].created /\ F = [E EXCEPT ![k] = e]
                                 /\ e.folderId \in DOMAIN folders' /\ e.folder = folders'[e.folderId]
                                 /\ FoldersNow'
                                 /\ \A j \in DOMAIN folders : j \in DOMAIN folders' /\ folders'[j] = folders[j]
    <3>1. /\ FoldersNow' /\ id \in DOMAIN folders' /\ folders'[id] = f
          /\ \A j \in DOMAIN folders : j \in DOMAIN folders' /\ folders'[j] = folders[j]
      BY <1>0, <1>3, <2>2, GetFolderIdStep
    <3>2. id \in Nat
      <4>1. DOMAIN folders' \in SUBSET Nat
        BY <3>1 DEF FoldersNow, FoldersGood
      <4> QED
        BY <3>1, <4>1
    <3>3. PICK e : e = [titled EXCEPT !.folder = f, !.folderId = id]
      OBVIOUS
    <3>4. e \in BEntry /\ e.url = u /\ e.created = E[k].created /\ e.folderId = id /\ e.folder = f
      BY <1>0, <1>7, <3>2, <3>3 DEF BEntry
    <3>5. F = [E EXCEPT ![k] = e]
      BY <1>2, <2>2, <3>3
    <3> QED
      BY <1>4, <3>1, <3>4, <3>5
  <2> QED
    BY <1>2, <1>6, <2>1, <2>2 DEF Bookmarks!Update
<1>9. S = [i \in DOMAIN R |-> IF R[i].url = e.url THEN Bookmarks!Stored(e) ELSE R[i]]
  <2>1. bookmarks'[k] = e
    BY <1>2, <1>4, <1>8
  <2>2. rows' = Bookmarks!UpdatedRows(bookmarks'[k])
    BY <1>2 DEF Bookmarks!Update
  <2> QED
    BY <1>2, <2>1, <2>2 DEF Bookmarks!UpdatedRows
<1>10. /\ Agrees(F, S) /\ UrlsIn(F) = UrlsIn(E)
       /\ DOMAIN F = DOMAIN E /\ F[k] = e /\ \A j \in DOMAIN E : j # k => F[j] = E[j]
  <2>1. Agrees(E, R) /\ k \in DOMAIN E /\ e \in BEntry /\ F = [E EXCEPT ![k] = e]
    BY <1>3, <1>4, <1>8
  <2>2. SameMark(e, E, k)
    BY <1>8 DEF SameMark
  <2>3. IsUpdated(e, k, E, R, F, S)
    BY <1>9, <2>1, <2>2, UpdatedAgrees
  <2> QED
    BY <2>3 DEF IsUpdated
<1>11. Foldered(F, folders')
  <2> SUFFICES ASSUME NEW j \in DOMAIN E
               PROVE  F[j].folderId \in DOMAIN folders' /\ F[j].folder = folders'[F[j].folderId]
    BY <1>10 DEF Foldered
  <2>1. CASE j = k
    BY <1>8, <1>10, <2>1
  <2>2. CASE j # k
    <3>1. F[j] = E[j] /\ E[j].folderId \in DOMAIN folders /\ E[j].folder = folders[E[j].folderId]
      BY <1>3, <1>10, <2>2 DEF Foldered
    <3> QED
      BY <1>8, <3>1
  <2> QED
    BY <2>1, <2>2
<1> QED
  BY <1>1, <1>2, <1>3, <1>8, <1>10, <1>11 DEF BookmarksInv

LEMMA AddFolderStep ==
  ASSUME BookmarksInv, NEW f \in Bookmarks!Names, Bookmarks!AddFolder(f)
  PROVE  BookmarksInv'
<1>0. f \in Nat
  BY NamesAreNumbers
<1>1. Bookmarks!InsertFolder(f) /\ UNCHANGED <<rows, urls, bookmarks>>
  BY DEF Bookmarks!AddFolder
<1>2. FoldersNow' /\ \A id \in DOMAIN folders : id \in DOMAIN folders' /\ folders'[id] = folders[id]
  BY <1>0, <1>1, InsertFolderStep DEF BookmarksInv
<1>3. Foldered(bookmarks, folders')
  BY <1>2 DEF BookmarksInv, Foldered
<1> QED
  BY <1>1, <1>2, <1>3 DEF BookmarksInv

\* A row of a folder that there is stays as it is.
LEMMA ReadAsItIs ==
  ASSUME NEW E, NEW R, Agrees(E, R), NEW old, Foldered(E, old),
         NEW fs, \A id \in DOMAIN old : id \in DOMAIN fs /\ fs[id] = old[id]
  PROVE  \A i \in DOMAIN R : R[i].folderId \in DOMAIN fs
<1>1. PICK n \in Nat : n = Len(R) /\ DOMAIN R = 1 .. n /\ DOMAIN E = 1 .. n
  BY DEF Agrees
<1>2. PICK p : Sorts(p, R) /\ Rowed(E, R, p)
  BY DEF Agrees
<1> SUFFICES ASSUME NEW i \in 1 .. n PROVE R[i].folderId \in DOMAIN fs
  BY <1>1
<1>3. PICK k \in 1 .. n : p[k] = i
  BY <1>1, <1>2 DEF Sorts
<1>4. R[i] = Bookmarks!Stored(E[k])
  BY <1>1, <1>2, <1>3 DEF Rowed
<1>5. R[i].folderId = E[k].folderId
  BY <1>4 DEF Bookmarks!Stored
<1> QED
  BY <1>1, <1>5 DEF Foldered

LEMMA RestartBookmarksStep ==
  ASSUME BookmarksInv, Bookmarks!Restart
  PROVE  BookmarksInv'
<1>1. PICK fs, E, T, R : fs = Bookmarks!FoldersOf(folderRows) /\ E = bookmarks' /\ T = rows /\ R = rows'
  OBVIOUS
<1>2. /\ folders' = fs /\ E = Bookmarks!Loaded(T, fs) /\ urls' = {r.url : r \in Bookmarks!Range(T)}
      /\ listed' = Bookmarks!InOrder(Bookmarks!Range(fs)) /\ R = Bookmarks!Healed(T, fs)
      /\ folderRows' = folderRows
  BY <1>1 DEF Bookmarks!Restart, Bookmarks!LoadFrom
<1>3. FoldersGood(fs, folderRows, Bookmarks!InOrder(Bookmarks!Range(fs)))
  <2>1. PICK old, names, list : old = folders /\ names = folderRows /\ list = listed
    OBVIOUS
  <2>2. FoldersGood(old, names, list) /\ fs = Bookmarks!FoldersOf(names)
    BY <1>1, <2>1 DEF BookmarksInv, FoldersNow
  <2>3. FoldersGood(fs, names, Bookmarks!InOrder(Bookmarks!Range(fs)))
    BY <2>2, FoldersAgain
  <2> QED
    BY <2>1, <2>3
<1>4. FoldersNow'
  BY <1>2, <1>3 DEF FoldersNow
<1>5. T \in Seq(BRow) /\ OneRowEach(T) /\ \E p : Sorts(p, T)
  BY <1>1 DEF BookmarksInv, Agrees
<1>6. PICK p : Sorts(p, T)
  BY <1>5
<1>7. folderRows \in Seq(Nat)
  BY DEF BookmarksInv, FoldersNow, FoldersGood
<1>8. Agrees(E, R) /\ Foldered(E, fs) /\ UrlsIn(E) = {r.url : r \in Bookmarks!Range(T)}
  BY <1>1, <1>2, <1>5, <1>6, <1>7, LoadedIs
<1> QED
  BY <1>1, <1>2, <1>4, <1>8 DEF BookmarksInv

\* The table of an older version: its dates are all the same, so that a query gives its rows in
\* their own order.
OldTable(t) ==
  /\ \E n \in 0 .. 2 : t \in [1 .. n -> [url : Url, title : Title, created : {0}, folderId : 0 .. 2]]
  /\ \A i, j \in DOMAIN t : t[i].url = t[j].url => i = j

LEMMA OldTableIs ==
  ASSUME NEW t, OldTable(t)
  PROVE  t \in Seq(BRow) /\ OneRowEach(t) /\ \E p : Sorts(p, t)
<1>1. PICK n \in 0 .. 2 : t \in [1 .. n -> [url : Url, title : Title, created : {0}, folderId : 0 .. 2]]
  BY DEF OldTable
<1>2. DOMAIN t = 1 .. n /\ n \in Nat
  BY <1>1
<1>3. 0 \in 0 .. MaxCreated
  BY BookmarkAssumption
<1>4. \A i \in 1 .. n : t[i] \in BRow /\ t[i].created = 0
  BY <1>1, <1>3 DEF BRow
<1>5. t \in Seq(BRow) /\ Len(t) = n
  <2>1. t \in [1 .. n -> BRow]
    BY <1>1, <1>4
  <2> QED
    BY <1>2, <2>1
<1>6. OneRowEach(t)
  BY DEF OldTable, OneRowEach
<1> DEFINE p == [i \in 1 .. n |-> i]
<1>7. p \in [1 .. n -> 1 .. n] /\ \A i \in 1 .. n : p[i] = i
  OBVIOUS
<1> HIDE DEF p
<1>8. Sorts(p, t)
  <2>1. ASSUME NEW i \in 1 .. n, NEW j \in 1 .. n, i < j PROVE Precedes(t, p[i], p[j])
    BY <1>4, <1>7, <2>1 DEF Precedes
  <2> QED
    BY <1>5, <1>7, <2>1 DEF Sorts
<1> QED
  BY <1>5, <1>6, <1>8

LEMMA BookmarksInit == Bookmarks!Init => BookmarksInv
<1> SUFFICES ASSUME Bookmarks!Init PROVE BookmarksInv
  OBVIOUS
<1>1. PICK t, names : /\ OldTable(t) /\ names \in {<<>>} \cup {<<f>> : f \in Folder}
                      /\ folders = Bookmarks!FoldersOf(names)
                      /\ bookmarks = Bookmarks!Loaded(t, Bookmarks!FoldersOf(names))
                      /\ urls = {r.url : r \in Bookmarks!Range(t)}
                      /\ listed = Bookmarks!InOrder(Bookmarks!Range(Bookmarks!FoldersOf(names)))
                      /\ rows = Bookmarks!Healed(t, Bookmarks!FoldersOf(names))
                      /\ folderRows = names
  BY DEF Bookmarks!Init, OldTable
<1>2. PICK fs, E, R : fs = Bookmarks!FoldersOf(names) /\ E = bookmarks /\ R = rows
  OBVIOUS
<1>3. FoldersGood(fs, names, Bookmarks!InOrder(Bookmarks!Range(fs)))
  BY <1>1, <1>2, FoldersInit
<1>4. FoldersNow
  BY <1>1, <1>2, <1>3 DEF FoldersNow
<1>5. t \in Seq(BRow) /\ OneRowEach(t) /\ \E p : Sorts(p, t)
  BY <1>1, OldTableIs
<1>6. PICK p : Sorts(p, t)
  BY <1>5
<1>7. names \in Seq(Nat)
  BY <1>3 DEF FoldersGood
<1>8. E = Bookmarks!Loaded(t, fs) /\ R = Bookmarks!Healed(t, fs)
  BY <1>1, <1>2
<1>9. Agrees(E, R) /\ Foldered(E, fs) /\ UrlsIn(E) = {r.url : r \in Bookmarks!Range(t)}
  BY <1>2, <1>5, <1>6, <1>7, <1>8, LoadedIs
<1> QED
  BY <1>1, <1>2, <1>4, <1>9 DEF BookmarksInv

LEMMA BookmarksStep == BookmarksInv /\ Bookmarks!Next => BookmarksInv'
<1> SUFFICES ASSUME BookmarksInv, Bookmarks!Next PROVE BookmarksInv'
  OBVIOUS
<1>1. ASSUME NEW u \in Url, NEW t \in Title, NEW f \in Bookmarks!Names, Bookmarks!Add(u, t, f)
      PROVE  BookmarksInv'
  BY <1>1, AddBookmarkStep
<1>2. ASSUME NEW u \in Url, NEW t \in Title, NEW f \in Bookmarks!Names, Bookmarks!Update(u, t, f)
      PROVE  BookmarksInv'
  BY <1>2, UpdateStep
<1>3. ASSUME NEW u \in Url, Bookmarks!RemoveBookmark(u) PROVE BookmarksInv'
  BY <1>3, RemoveBookmarkStep
<1>4. ASSUME NEW f \in Bookmarks!Names, Bookmarks!AddFolder(f) PROVE BookmarksInv'
  BY <1>4, AddFolderStep
<1>5. CASE Bookmarks!Restart
  BY <1>5, RestartBookmarksStep
<1> QED
  BY <1>1, <1>2, <1>3, <1>4, <1>5 DEF Bookmarks!Next

LEMMA BookmarksUnchanged == BookmarksInv /\ UNCHANGED bookmarkVars => BookmarksInv'
BY DEF BookmarksInv, bookmarkVars, FoldersNow

LEMMA BookmarksAlways == Spec => []BookmarksInv
<1>1. Init => BookmarksInv
  BY BookmarksInit DEF Init
<1>2. BookmarksInv /\ [Next]_vars => BookmarksInv'
  BY BookmarksStep, BookmarksUnchanged DEF Next, vars
<1> QED
  BY <1>1, <1>2, PTL DEF Spec

\* What LoadFrom reads of the rows is what is shown.
LEMMA ShownAgain == BookmarksInv => Bookmarks!StoredAsShown
<1> SUFFICES ASSUME BookmarksInv PROVE Bookmarks!StoredAsShown
  OBVIOUS
<1>1. PICK E, T, names, old, fs, L : /\ E = bookmarks /\ T = rows /\ names = folderRows /\ old = folders
                                     /\ fs = Bookmarks!FoldersOf(names) /\ L = Bookmarks!Loaded(T, fs)
  OBVIOUS
<1>2. Agrees(E, T) /\ Foldered(E, old) /\ FoldersGood(old, names, listed)
  BY <1>1 DEF BookmarksInv, FoldersNow
<1>3. E \in Seq(BEntry) /\ T \in Seq(BRow) /\ Len(E) = Len(T) /\ OneRowEach(T)
  BY <1>2 DEF Agrees
<1>4. PICK n \in Nat : n = Len(T) /\ DOMAIN T = 1 .. n /\ DOMAIN E = 1 .. n
  BY <1>3
<1>5. PICK p : Sorts(p, T) /\ Rowed(E, T, p)
  BY <1>2 DEF Agrees
<1>6. PICK list : list = listed
  OBVIOUS
<1>7. \A id \in DOMAIN old : id \in DOMAIN fs /\ fs[id] = old[id]
  <2>1. FoldersGood(old, names, list)
    BY <1>2, <1>6
  <2> QED
    BY <1>1, <2>1, FoldersAgain
<1>8. names \in Seq(Nat)
  BY <1>2 DEF FoldersGood
<1>9. PICK R : R = Bookmarks!Healed(T, fs)
  OBVIOUS
<1>10. Agrees(L, R) /\ \A k \in 1 .. Len(T) : L[k] = Bookmarks!EntryOf(T[p[k]], fs)
  BY <1>1, <1>3, <1>5, <1>8, <1>9, LoadedIs
<1>11. DOMAIN L = 1 .. n
  BY <1>1, <1>4 DEF Bookmarks!Loaded
<1>12. ASSUME NEW k \in 1 .. n PROVE L[k].url = E[k].url /\ L[k].title = E[k].title /\ L[k].folder = E[k].folder
  <2>1. T[p[k]] = Bookmarks!Stored(E[k])
    BY <1>4, <1>5 DEF Rowed
  <2>2. PICK row : row = T[p[k]]
    OBVIOUS
  <2>3. row.url = E[k].url /\ row.title = E[k].title /\ row.folderId = E[k].folderId
    BY <2>1, <2>2 DEF Bookmarks!Stored
  <2>4. row.folderId \in DOMAIN fs /\ fs[row.folderId] = E[k].folder
    BY <1>2, <1>4, <1>7, <2>3 DEF Foldered
  <2>5. L[k] = Bookmarks!EntryOf(row, fs)
    BY <1>4, <1>10, <2>2
  <2> QED
    BY <2>3, <2>4, <2>5 DEF Bookmarks!EntryOf
<1>13. [i \in DOMAIN E |-> <<E[i].url, E[i].title, E[i].folder>>]
         = [i \in DOMAIN L |-> <<L[i].url, L[i].title, L[i].folder>>]
  BY <1>4, <1>11, <1>12
<1> QED
  BY <1>1, <1>13 DEF Bookmarks!StoredAsShown

LEMMA UrlsOnce == BookmarksInv => Bookmarks!EachUrlOnce
<1> SUFFICES ASSUME BookmarksInv PROVE Bookmarks!EachUrlOnce
  OBVIOUS
<1>1. PICK E, T : E = bookmarks /\ T = rows
  OBVIOUS
<1>2. E \in Seq(BEntry) /\ T \in Seq(BRow) /\ Len(E) = Len(T) /\ OneRowEach(T)
  BY <1>1 DEF BookmarksInv, Agrees
<1>3. PICK n \in Nat : n = Len(T) /\ DOMAIN T = 1 .. n /\ DOMAIN E = 1 .. n
  BY <1>2
<1>4. PICK p : Sorts(p, T) /\ Rowed(E, T, p)
  BY <1>1 DEF BookmarksInv, Agrees
<1>5. \A k \in 1 .. n : T[p[k]].url = E[k].url /\ p[k] \in 1 .. n
  <2> SUFFICES ASSUME NEW k \in 1 .. n PROVE T[p[k]].url = E[k].url /\ p[k] \in 1 .. n
    OBVIOUS
  <2>1. T[p[k]] = Bookmarks!Stored(E[k]) /\ p[k] \in 1 .. n
    BY <1>3, <1>4 DEF Rowed, Sorts
  <2> QED
    BY <2>1 DEF Bookmarks!Stored
<1>6. ASSUME NEW i \in 1 .. n, NEW j \in 1 .. n, E[i].url = E[j].url, i # j PROVE FALSE
  <2>1. p[i] = p[j]
    BY <1>2, <1>3, <1>5, <1>6 DEF OneRowEach
  <2>2. i \in 1 .. Len(T) /\ j \in 1 .. Len(T)
    BY <1>3
  <2>3. p[i] # p[j]
    BY <1>2, <1>4, <1>6, <2>2, SortsOnce
  <2> QED
    BY <2>1, <2>3
<1>7. urls = {e.url : e \in Bookmarks!Range(bookmarks)}
  BY DEF BookmarksInv, UrlsIn, Bookmarks!Range
<1>8. \A i, j \in DOMAIN bookmarks : bookmarks[i].url = bookmarks[j].url => i = j
  BY <1>1, <1>3, <1>6
<1>9. \A i, j \in DOMAIN rows : rows[i].url = rows[j].url => i = j
  BY <1>1, <1>2 DEF OneRowEach
<1> QED
  BY <1>7, <1>8, <1>9 DEF Bookmarks!EachUrlOnce

LEMMA InItsGroup == BookmarksInv => Bookmarks!EachIsInAGroup
<1> SUFFICES ASSUME BookmarksInv PROVE Bookmarks!EachIsInAGroup
  OBVIOUS
<1>1. Increases(listed) /\ Bookmarks!Range(listed) = Bookmarks!Range(folders)
  BY DEF BookmarksInv, FoldersNow, FoldersGood
<1>2. \A k \in DOMAIN bookmarks : bookmarks[k].folder \in Bookmarks!Range(folders)
  BY DEF BookmarksInv, Foldered, Bookmarks!Range
<1>3. \A e \in Bookmarks!Range(bookmarks) : e.folder \in Bookmarks!Range(listed)
  BY <1>1, <1>2 DEF Bookmarks!Range
<1> QED
  BY <1>1, <1>3 DEF Increases, Bookmarks!EachIsInAGroup

\* A folder keeps its id: addFolder, getFolderId and populateFromDatabase only add to m_folders.
FoldersStay == \A id \in DOMAIN folders : id \in DOMAIN folders' /\ folders'[id] = folders[id]

LEMMA FoldersStayNow == BookmarksInv /\ Bookmarks!Next => FoldersStay
<1> SUFFICES ASSUME BookmarksInv, Bookmarks!Next PROVE FoldersStay
  OBVIOUS
<1>0. FoldersNow
  BY DEF BookmarksInv
<1>1. ASSUME UNCHANGED folders PROVE FoldersStay
  BY <1>1 DEF FoldersStay
<1>2. ASSUME NEW f \in Bookmarks!Names, NEW id, Bookmarks!GetFolderId(f, id) PROVE FoldersStay
  BY <1>0, <1>2, NamesAreNumbers, GetFolderIdStep DEF FoldersStay
<1>3. ASSUME NEW u \in Url, NEW t \in Title, NEW f \in Bookmarks!Names, Bookmarks!Add(u, t, f)
      PROVE  FoldersStay
  BY <1>2, <1>3 DEF Bookmarks!Add
<1>4. ASSUME NEW u \in Url, NEW t \in Title, NEW f \in Bookmarks!Names, Bookmarks!Update(u, t, f)
      PROVE  FoldersStay
  <2>1. \/ UNCHANGED <<folders, folderRows, listed>>
        \/ \E id \in Bookmarks!Ids : Bookmarks!GetFolderId(f, id)
    BY <1>4, Zenon DEF Bookmarks!Update
  <2> QED
    BY <1>1, <1>2, <2>1
<1>5. ASSUME NEW u \in Url, Bookmarks!RemoveBookmark(u) PROVE FoldersStay
  BY <1>1, <1>5 DEF Bookmarks!RemoveBookmark
<1>6. ASSUME NEW f \in Bookmarks!Names, Bookmarks!AddFolder(f) PROVE FoldersStay
  BY <1>0, <1>6, NamesAreNumbers, InsertFolderStep DEF Bookmarks!AddFolder, FoldersStay
<1>7. CASE Bookmarks!Restart
  <2>1. PICK old, names, list, fs : /\ old = folders /\ names = folderRows /\ list = listed
                                    /\ fs = Bookmarks!FoldersOf(names)
    OBVIOUS
  <2>2. FoldersGood(old, names, list)
    BY <1>0, <2>1 DEF FoldersNow
  <2>3. \A id \in DOMAIN old : id \in DOMAIN fs /\ fs[id] = old[id]
    BY <2>1, <2>2, FoldersAgain
  <2>4. folders' = fs
    BY <1>7, <2>1 DEF Bookmarks!Restart, Bookmarks!LoadFrom
  <2> QED
    BY <2>1, <2>3, <2>4 DEF FoldersStay
<1> QED
  BY <1>3, <1>4, <1>5, <1>6, <1>7 DEF Bookmarks!Next

LEMMA FoldersStayAlways == BookmarksInv /\ [Next]_vars => [FoldersStay]_(Bookmarks!vars)
<1> SUFFICES ASSUME BookmarksInv, [Next]_vars PROVE [FoldersStay]_(Bookmarks!vars)
  OBVIOUS
<1>1. CASE UNCHANGED bookmarkVars
  BY <1>1 DEF bookmarkVars, Bookmarks!vars
<1>2. CASE Bookmarks!Next
  BY <1>2, FoldersStayNow
<1> QED
  BY <1>1, <1>2 DEF Next, vars

\* BookmarksModel::resetDatabase would read of the tables what is shown, in its order, no URL is
\* bookmarked twice, and each bookmark is in one of the groups of BookmarksFolderListModel.  No
\* folder is lost, and none gets the id of another.
THEOREM BookmarksStayKept == Spec => BookmarksKept
<1>1. BookmarksInv => Bookmarks!StoredAsShown /\ Bookmarks!EachUrlOnce /\ Bookmarks!EachIsInAGroup
  BY ShownAgain, UrlsOnce, InItsGroup
<1>2. Spec => [][Next]_vars
  BY DEF Spec
<1>3. [][FoldersStay]_(Bookmarks!vars) => Bookmarks!FoldersKept
  BY DEF FoldersStay, Bookmarks!FoldersKept
<1> QED
  BY <1>1, <1>2, <1>3, FoldersStayAlways, BookmarksAlways, PTL DEF BookmarksKept
=============================================================================
