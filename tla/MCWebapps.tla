----------------------------- MODULE MCWebapps -----------------------------
(***************************************************************************)
(* Web apps: the hook that is run when their packages change, and the      *)
(* container that runs them.  The hook deletes what a container that has   *)
(* ended left; apart from that they share no state, and `part` says which  *)
(* one runs.                                                               *)
(***************************************************************************)
EXTENDS Naturals, Sequences

CONSTANTS Id, NoId, MaxChanges, MaxCrashes,              \* ClickHooks
          NoUrl, NoFilter, MaxArgs, MaxRuns              \* WebappContainer

VARIABLES part,
          installed, processed, data, pc, old, new, todo, cur, due, changes, crashes,
          app, state, page, asked, filter, extra, filterFile, runs

\* Two apps of one package, whose hooks ask for nothing, or for something when the app is
\* removed and something else when it is installed or updated.
Asking(i, u, r) == [install |-> i, update |-> u, uninstall |-> r]
MCContents == {Asking({}, {}, {}), Asking({"cookies"}, {"cookies"}, {"cache"})}
OnePackage == [i \in Id |-> "package"]
\* The name of an app, <package>_<app>, is not that of a package.
ASSUME IdAssumption == "package" \notin Id

\* Packages that change while the hook runs, and that do not.
Hooks == INSTANCE ClickHooks WITH PackageOf <- OnePackage, Contents <- MCContents, Overlap <- TRUE, Built <- FALSE
Alone == INSTANCE ClickHooks WITH PackageOf <- OnePackage, Contents <- MCContents, Overlap <- FALSE, Built <- FALSE

Web(scheme, host, path, target) == [scheme |-> scheme, host |-> host, path |-> path, target |-> target]
WwwA == <<"www", ".", "a", ".", "com">>
WwwB == <<"www", ".", "b", ".", "com">>
Home == Web("http", WwwA, <<"/">>, "")
Page == Web("file", <<>>, <<"/", "page", ".", "html">>, "")
\* Among them a name that ends like that of a domain, and a URL in another one.
MCUrl == {Home, Page, Web("http", <<"x", ".", "a", ".", "com">>, <<"/">>, ""),
          Web("http", <<"x", "a", ".", "com">>, <<"/">>, ""),
          Web("http", <<"www", ".", "google", ".", "fr">>, <<"/">>, ""),
          Web("http", WwwB, <<"/", "x", ".", "a", ".", "com", "/">>, ""),
          Web("http", WwwB, <<"/", "http", "x", ".", "a", ".", "com", "/">>, ""),
          Web("mail", WwwA, <<"/">>, ""), Web("intent", WwwB, <<"/">>, "http"), Web("intent", WwwA, <<"/">>, "")}

Given(o, v) == [opt |-> o, value |-> v]
MCOption ==
  {Given(o, TRUE) : o \in {"modelPath", "provider", "clear", "manifest", "app-id"}}
  \cup {Given("url", Home), Given("url", Page), Given("name", "name"), Given("popup", <<"x", "a", "com">>)}
  \cup {Given("patterns", ps) : ps \in { << <<"*", "a", "com">>, <<"*", "com">> >>,
                                         << <<>>, <<"www", "google", "*">> >>,
                                         << <<"www", "*", "com">> >> }}
MCHosts == {WwwB}
MCExtra == {<<>>, << <<"www", "b", "com">> >>}
MCFilters ==
  {NoFilter, [s \in {"mail"} |-> "not a function"], [s \in {"mail"} |-> "nothing"],
   [s \in {"mail", "intent"} |-> IF s = "mail" THEN "to http" ELSE "same"]}

Container == INSTANCE WebappContainer WITH
  Url <- MCUrl, Option <- MCOption, Extra <- MCExtra, Filters <- MCFilters, WebappHosts <- MCHosts

hookVars == <<installed, processed, data, pc, old, new, todo, cur, due, changes, crashes>>
containerVars == <<app, state, page, asked, filter, extra, filterFile, runs>>
vars == <<part, hookVars, containerVars>>

Runs(p) == part = p /\ UNCHANGED part
InHooks(A) == Runs("hooks") /\ A /\ UNCHANGED containerVars

Init == /\ part \in {"hooks", "alone", "container"}
        /\ Hooks!Init /\ Container!Init
        /\ part # "container" => filterFile = NoFilter /\ extra = <<>>

Next == \/ InHooks(Hooks!Next)
        \/ Runs("alone") /\ Alone!Next /\ UNCHANGED containerVars
        \/ Runs("container") /\ Container!Next /\ UNCHANGED hookVars

Spec == Init /\ [][Next]_vars

-----------------------------------------------------------------------------
(* The properties of the parts, where they are stated *)

\* When no hook is due, the hooks processed are those installed, with their contents.
InSync == Hooks!InSync
\* The hook deletes the data of an app only when it is asked to, and does when it is.
DeletedAsAsked == [][Hooks!KeepsData /\ (part = "alone" => Alone!CleansUp)]_vars
\* What is to be deleted when an app is installed or updated is.
UpgradeCleans == Hooks!UpgradeCleans

\* A web app with patterns or a name shows pages of its own only.
NavigatesWithin == Container!NavigatesWithin
\* A local application shows local pages only.
LocalStaysLocal == Container!LocalStaysLocal
\* What the guard of openUrls lets through is accepted as a navigation.
OpenedIsShown == Container!OpenedIsShown
=============================================================================
