---------------------------- MODULE DomainSettings ----------------------------
(***************************************************************************)
(* The settings of domains (src/src/app/domain-settings-model.cpp) and the *)
(* user agents they refer to (domain-settings-user-agents-model.cpp): two  *)
(* models with a connection each to one database file.                     *)
(*                                                                         *)
(* Entries and rows are functions on domains and on identifiers.  A zoom   *)
(* factor is a number, NaN when it is not set (NULL in the table); factors *)
(* closer than the threshold are one.  No user agent is 0 (NULL).          *)
(***************************************************************************)
EXTENDS Naturals

CONSTANTS Domain, Name,
          Zoom,           \* zoom factors, InitialZoom (1.0 in the code) among them
          InitialZoom,
          DefaultFirst,   \* is the default zoom set before the database is opened?
          Resets,         \* are the settings ever reset?
          MaxId, MaxRuns  \* bounds: user agents made, starts of the browser

VARIABLES settings,      \* m_entries of DomainSettingsModel
          table,         \* its table in the database file
          orphaned,      \* the file it has open is not at its path any more
          defaultZoom,   \* m_defaultZoomFactor, kept in the settings of the browser
          agents,        \* m_entries of UserAgentsModel
          agentTable,    \* its table
          nextId,        \* AUTOINCREMENT
          runs           \* starts of the browser so far

settingsVars == <<settings, table, orphaned, defaultZoom>>
agentVars == <<agents, agentTable, nextId>>
vars == <<settings, table, orphaned, defaultZoom, agents, agentTable, nextId, runs>>

NaN == 0
Setting == [schemes : BOOLEAN, location : BOOLEAN, agent : 0 .. MaxId, zoom : Zoom \cup {NaN}]
Agent == [name : Name, string : BOOLEAN]
NewSetting == [schemes |-> FALSE, location |-> FALSE, agent |-> 0, zoom |-> NaN]

\* INSERT, which fails when there is a row; UPDATE and DELETE ... WHERE
WithRow(t, x, r) == [y \in DOMAIN t \cup {x} |-> IF y \in DOMAIN t THEN t[y] ELSE r]
Updated(t, x, f, v) == [y \in DOMAIN t |-> IF y = x THEN [t[y] EXCEPT ![f] = v] ELSE t[y]]
Without(t, x) == [y \in DOMAIN t \ {x} |-> t[y]]

\* What a statement leaves in the file at the path: nothing when another one is open.
Executed(t) == IF orphaned THEN table ELSE t

-----------------------------------------------------------------------------
(* Opening the database *)

\* removeDefaultZoomFactorFromEntries, then removeObsoleteEntries
WithoutDefaultZoom(t, z) ==
  [d \in DOMAIN t |-> IF t[d].zoom = z THEN [t[d] EXCEPT !.zoom = NaN] ELSE t[d]]
\* Nothing is set: the entry is dropped.
WithoutObsolete(t) == [d \in {x \in DOMAIN t : t[x] # NewSetting} |-> t[d]]

Init == /\ settings = <<>> /\ table = <<>> /\ orphaned = FALSE /\ defaultZoom = InitialZoom
        /\ agents = <<>> /\ agentTable = <<>> /\ nextId = 1 /\ runs = 1

RestartWith(rows) ==
  /\ runs < MaxRuns /\ runs' = runs + 1
  /\ table' = WithoutObsolete(WithoutDefaultZoom(rows,
                IF DefaultFirst THEN defaultZoom ELSE InitialZoom))
  /\ settings' = table'
  /\ orphaned' = FALSE
  /\ agents' = agentTable                        \* populateFromDatabase
  /\ UNCHANGED <<defaultZoom, agentTable, nextId>>

Restart == RestartWith(table)

\* DomainSettingsModel and then UserAgentsModel remove the file and open a new one at its
\* path: the first is left with the file that the second has removed.
ResetDomainSettings ==
  /\ Resets
  /\ settings' = <<>> /\ table' = <<>> /\ orphaned' = TRUE
  /\ agents' = <<>> /\ agentTable' = <<>> /\ nextId' = 1
  /\ UNCHANGED <<defaultZoom, runs>>

-----------------------------------------------------------------------------
(* Settings of a domain *)

InsertEntry(d) == /\ d \notin DOMAIN settings
                  /\ settings' = WithRow(settings, d, NewSetting)
                  /\ table' = Executed(WithRow(table, d, NewSetting))
                  /\ UNCHANGED <<orphaned, defaultZoom, agentVars, runs>>

RemoveEntry(d) == /\ d \in DOMAIN settings
                  /\ settings' = Without(settings, d)
                  /\ table' = Executed(Without(table, d))
                  /\ UNCHANGED <<orphaned, defaultZoom, agentVars, runs>>

\* The setters add the entry first if there is none, and end when the value is the same.
Set(d, f, v) ==
  LET known == WithRow(settings, d, NewSetting)
      rows == IF d \in DOMAIN settings THEN table ELSE WithRow(table, d, NewSetting)
  IN /\ settings' = Updated(known, d, f, v)
     /\ table' = Executed(IF known[d][f] = v THEN rows ELSE Updated(rows, d, f, v))
     /\ UNCHANGED <<orphaned, defaultZoom, agentVars, runs>>

AllowCustomUrlSchemes(d, allow) == Set(d, "schemes", allow)
AllowLocation(d, allow) == Set(d, "location", allow)

\* On the page of settings: for a domain that is listed, an agent that is.
SetUserAgentId(d, i) ==
  d \in DOMAIN settings /\ i \in DOMAIN agents \cup {0} /\ Set(d, "agent", i)

\* The default factor is not stored; the entry is made all the same.
SetZoomFactor(d, z) == Set(d, "zoom", IF z = defaultZoom THEN NaN ELSE z)

SetDefaultZoomFactor(z) ==
  defaultZoom' = z /\ UNCHANGED <<settings, table, orphaned, agentVars, runs>>

-----------------------------------------------------------------------------
(* User agents *)

InsertAgent(n) ==
  /\ \A i \in DOMAIN agents : agents[i].name # n
  /\ nextId <= MaxId /\ nextId' = nextId + 1
  /\ agents' = WithRow(agents, nextId, [name |-> n, string |-> FALSE])
  /\ agentTable' = WithRow(agentTable, nextId, [name |-> n, string |-> FALSE])
  /\ UNCHANGED <<settingsVars, runs>>

\* setUserAgentName and setUserAgentString
SetAgent(i, f, v) ==
  /\ i \in DOMAIN agents /\ agents[i][f] # v
  /\ agents' = Updated(agents, i, f, v)
  /\ agentTable' = Updated(agentTable, i, f, v)
  /\ UNCHANGED <<settingsVars, nextId, runs>>

SetAgentName(i, n) == SetAgent(i, "name", n)
SetAgentString(i, s) == SetAgent(i, "string", s)

\* removeUserAgentIdFromAllDomains
WithoutAgentFirstMut(t, i) ==   \* mutant: the loop ends at the first domain found
  LET uses == {d \in DOMAIN t : t[d].agent = i}
  IN IF uses = {} THEN t ELSE Updated(t, CHOOSE d \in uses : TRUE, "agent", 0)

WithoutAgent(t, i) ==
  [d \in DOMAIN t |-> IF t[d].agent = i THEN [t[d] EXCEPT !.agent = 0] ELSE t[d]]
AgentUsed(i) == \E d \in DOMAIN settings : settings[d].agent = i

\* The page of user agents takes the agent from all the domains, then removes it.
RemoveAgent(i) ==
  /\ i \in DOMAIN agents
  /\ settings' = WithoutAgent(settings, i)
  /\ table' = IF AgentUsed(i) THEN Executed(WithoutAgent(table, i)) ELSE table
  /\ agents' = Without(agents, i)
  /\ agentTable' = Without(agentTable, i)
  /\ UNCHANGED <<orphaned, defaultZoom, nextId, runs>>

\* The process stops in between.
StopInRemoveAgent(i) ==
  /\ i \in DOMAIN agents
  /\ RestartWith(IF AgentUsed(i) THEN Executed(WithoutAgent(table, i)) ELSE table)

Next == \/ Restart \/ ResetDomainSettings
        \/ \E d \in Domain : InsertEntry(d) \/ RemoveEntry(d)
        \/ \E d \in Domain, b \in BOOLEAN : AllowCustomUrlSchemes(d, b) \/ AllowLocation(d, b)
        \/ \E d \in Domain, i \in 0 .. MaxId : SetUserAgentId(d, i)
        \/ \E d \in Domain, z \in Zoom \cup {NaN} : SetZoomFactor(d, z)
        \/ \E z \in Zoom : SetDefaultZoomFactor(z)
        \/ \E n \in Name : InsertAgent(n)
        \/ \E i \in 1 .. MaxId : RemoveAgent(i) \/ StopInRemoveAgent(i)
        \/ \E i \in 1 .. MaxId, n \in Name : SetAgentName(i, n)
        \/ \E i \in 1 .. MaxId, s \in BOOLEAN : SetAgentString(i, s)

Spec == Init /\ [][Next]_vars

-----------------------------------------------------------------------------
(* Properties *)

IsTable(t, D, R) == DOMAIN t \subseteq D /\ \A x \in DOMAIN t : t[x] \in R
TypeOK == /\ IsTable(settings, Domain, Setting) /\ IsTable(table, Domain, Setting)
          /\ IsTable(agents, 1 .. nextId - 1, Agent)
          /\ IsTable(agentTable, 1 .. nextId - 1, Agent)
          /\ orphaned \in BOOLEAN /\ defaultZoom \in Zoom
          /\ nextId \in 1 .. MaxId + 1 /\ runs \in 1 .. MaxRuns

\* No domain refers to a user agent that is gone, in the lists and in the file, wherever
\* the process stops (the foreign key of the table is not enforced).
AgentsExist == /\ \A d \in DOMAIN settings : settings[d].agent \in DOMAIN agents \cup {0}
               /\ \A d \in DOMAIN table : table[d].agent \in DOMAIN agentTable \cup {0}

\* What applies to a domain: the default zoom factor where none is set, nothing allowed
\* where there is no entry.
Effective(s, d) ==
  LET e == IF d \in DOMAIN s THEN s[d] ELSE NewSetting
  IN IF e.zoom = NaN THEN [e EXCEPT !.zoom = defaultZoom] ELSE e

\* Starting again drops obsolete entries and default zoom factors, and changes nothing of
\* what applies to any domain: the file has all that the list had, unless it is not the
\* file the model has open.
EffectiveSame == \A d \in Domain : Effective(settings, d)' = Effective(settings, d)
EffectiveStep == Restart /\ ~orphaned => EffectiveSame
EffectiveKept == [][EffectiveStep]_vars

\* "it is a common database with DomainSettingsModel, so it is only for reset here": what
\* is set after the settings were reset is kept like any other setting.
KeptAfterReset == [][ Restart => EffectiveSame ]_vars
=============================================================================
