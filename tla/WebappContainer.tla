--------------------------- MODULE WebappContainer ---------------------------
(***************************************************************************)
(* The container of web apps: its start from a command line, what it lets  *)
(* its page navigate to, and the URLs that a second start passes on        *)
(* (webapp-container.cpp, url-pattern-utils.cpp, scheme-filter.cpp,        *)
(* intent-parser.cpp, and the QML that uses them).                         *)
(*                                                                         *)
(* A URL is its scheme, its host, its path with what follows it, and, for  *)
(* an intent, the scheme that its fragment names.  Hosts and paths are     *)
(* texts: sequences of tokens, which are ".", "/", "http" for the          *)
(* beginning of another URL, and pieces that are not taken apart.  A URL   *)
(* pattern is for http and https, and for all the paths of a host: it is   *)
(* the labels of this host, each a piece or the wildcard "*", that is all  *)
(* of a label here.  Labels of patterns that have a "/", and patterns for  *)
(* one path, are left out.                                                 *)
(* Permissions of domains and custom schemes are decided on before         *)
(* (DomainPermissions, DomainSettings).                                    *)
(***************************************************************************)
EXTENDS Selection, SequencesExt

CONSTANTS Url,          \* URLs that pages ask for and that are passed on
          Option,       \* options of a command line
          Extra,        \* what extra-url-patterns.conf can hold
          Filters,      \* what local-scheme-filter.js can hold
          WebappHosts,  \* hosts of the web app in the model of Unity web apps
          NoUrl, NoFilter,
          MaxArgs,      \* bound: options of a command line
          MaxRuns       \* bound: starts

VARIABLES app,          \* the options of the web app that runs
          state,        \* "down" or "running"
          page, asked,  \* the page shown, and the URL that the application has set last
          filter,       \* the scheme filter in use
          extra,        \* extra-url-patterns.conf
          filterFile,   \* local-scheme-filter.js
          runs

vars == <<app, state, page, asked, filter, extra, filterFile, runs>>

-----------------------------------------------------------------------------
(* url-pattern-utils.cpp *)

Wildcards(p) == {k \in DOMAIN p : p[k] = "*"}

\* The first label may be a wildcard, in front of two labels or more that are not.
IsValidWebappUrlPattern(p) == Len(p) >= 3 /\ Wildcards(p) \subseteq {1}

\* Only the country may be a wildcard.
IsValidGoogleUrlPattern(p) ==
  /\ Len(p) \in {3, 4} /\ p[1] # "*" /\ p[2] = "google"
  /\ Len(p) = 4 => p[3] \in {"com", "co"}

IsValidStrictUrlPattern(p) == Len(p) >= 2 /\ Wildcards(p) = {}

\* transformWebappSearchPatternToSafePattern: nothing is left of a pattern that is not valid.
Safe(p) == IF IsValidWebappUrlPattern(p) \/ IsValidStrictUrlPattern(p) \/ IsValidGoogleUrlPattern(p)
           THEN p ELSE <<>>

FilterAndTransform(ps) == Keep(ps, {k \in DOMAIN ps : Safe(ps[k]) # <<>>})

WildMut(c) == TRUE   \* mutant: "A less restrictive hostname pattern", as for the path

\* toSafeHostnamePartPattern: what a wildcard of the host stands for has none of these.
Wild(c) == c \notin {".", "/", "http"}

\* Where the k-th label begins and where the last one ends, when the wildcard is n tokens long (a
\* pattern that is valid has one at most).
Begin(p, n, k) == (2 * k - 2) + IF \E j \in Wildcards(p) : j < k THEN n ELSE 1
End(p, n) == (2 * Len(p) - 2) + IF Wildcards(p) # {} THEN n ELSE 1

LabelsFit(p, n, text) == \A k \in DOMAIN p :
  IF p[k] = "*" THEN \A i \in 0 .. n : i < n => Wild(text[Begin(p, n, k) + i])
                ELSE text[Begin(p, n, k)] = p[k]

\* The regular expression that the pattern becomes, on what follows "http": a "." of the pattern
\* fits any character.
Fits(p, text) == \E n \in 0 .. Len(text) :
  /\ End(p, n) < Len(text) /\ text[End(p, n) + 1] = "/"
  /\ LabelsFit(p, n, text)
  /\ \A k \in 2 .. Len(p) : text[Begin(p, n, k) - 1] # "http"

\* url.match(pattern): the URL, or another one in its path, begins with the pattern.
OtherUrls(url) == {i \in DOMAIN url.path : url.path[i] = "http"}
Match(p, url) == \/ url.scheme = "http" /\ Fits(p, url.host \o url.path)
                 \/ \E i \in OtherUrls(url) : Fits(p, SubSeq(url.path, i + 1, Len(url.path)))

-----------------------------------------------------------------------------
(* The command line *)

Named(a) == a.name # ""
HasPatterns(a) == a.patterns # <<>>

\* The constructor.
NoOptions == [modelPath |-> FALSE, name |-> "", patterns |-> <<>>, provider |-> FALSE,
              manifest |-> FALSE, popup |-> <<>>, cleared |-> FALSE, home |-> NoUrl, local |-> FALSE, given |-> <<>>]

\* The places of an option in a command line, and the value that it is given last.
Places(args, o) == {k \in DOMAIN args : args[k].opt = o}
Occurs(args, o) == Places(args, o) # {}
LastGiven(args, o, otherwise) ==
  IF Occurs(args, o) THEN args[CHOOSE k \in Places(args, o) : \A j \in Places(args, o) : j <= k].value
                     ELSE otherwise

\* The constructor, and parseCommandLine: of an option that is given twice the last one counts;
\* --clear-cookies needs to know the provider already.
Parsed(args) ==
  LET given == LastGiven(args, "patterns", <<>>)
  IN [NoOptions EXCEPT
        !.modelPath = Occurs(args, "modelPath"), !.name = LastGiven(args, "name", ""),
        !.patterns = FilterAndTransform(given), !.given = given,
        !.provider = Occurs(args, "provider"),
        !.manifest = Occurs(args, "manifest"), !.popup = LastGiven(args, "popup", <<>>),
        !.cleared = \E j \in Places(args, "provider"), k \in Places(args, "clear") : j < k]

\* parseExtraConfiguration: the patterns of the file, if clearCookiesHack has not removed it.
WithExtra(a, ps) == [a EXCEPT !.patterns = @ \o FilterAndTransform(ps), !.given = @ \o ps]

\* The last of urls: an argument that is the name of a file is a local URL.
HomeUrl(args) == LastGiven(args, "url", NoUrl)

IsLocal(url) == url # NoUrl /\ url.scheme = "file"

LocalContextMut(a) == ~a.modelPath /\ a.popup = <<>> /\ ~Named(a)   \* mutant: the patterns are forgotten

\* isValidLocalApplicationRunningContext
IsValidLocalContext(a) == ~a.modelPath /\ a.popup = <<>> /\ ~HasPatterns(a) /\ ~Named(a)

-----------------------------------------------------------------------------
(* scheme-filter.cpp, intent-parser.cpp *)

\* parseValidLocalSchemeFilterFile: nothing is taken from a file that is missing, is not an
\* object, or has a text that is no function.
FilterOf(file) ==
  IF file = NoFilter \/ \E s \in DOMAIN file : file[s] = "not a function" THEN [s \in {} |-> ""] ELSE file

Result(scheme, host, path) == [scheme |-> scheme, host |-> host, path |-> path, target |-> ""]
Nothing == Result("", <<>>, <<>>)

\* parseIntentUri: nothing of an intent that is not well formed, which names no scheme here.
Intent(url) == IF url.target = "" THEN Nothing ELSE Result(url.target, url.host, url.path)

Evaluated(url) == IF url.scheme = "intent" THEN Intent(url) ELSE Result(url.scheme, url.host, url.path)

\* applyFilter: the function for the scheme of the URL, or one that returns what it is given.
ApplyFilter(url) ==
  IF url.scheme \notin DOMAIN filter \/ filter[url.scheme] = "same" THEN Evaluated(url)
  ELSE IF filter[url.scheme] = "to http" THEN [Evaluated(url) EXCEPT !.scheme = "http"]
  ELSE Nothing   \* no object, or an empty one

\* makeUrlFromResult: what the result does not say is taken from the URL of the page, or the one
\* that has been set; it fails without one.
Completed(r) ==
  LET base == IF page # NoUrl THEN page ELSE IF asked # NoUrl THEN asked ELSE app.home
  IN IF base = NoUrl /\ (r.host = <<>> \/ r.scheme = "") THEN NoUrl
     ELSE Result(IF r.scheme = "" THEN base.scheme ELSE r.scheme,
                 IF r.host = <<>> THEN base.host ELSE r.host, <<"/">> \o r.path)

\* translateHandlerUri
Translated(url) == IF url.scheme = "http" THEN url ELSE Completed(ApplyFilter(url))

-----------------------------------------------------------------------------
(* The container *)

Init == /\ app = NoOptions /\ state = "down" /\ page = NoUrl /\ asked = NoUrl
        /\ filter = [s \in {} |-> ""] /\ filterFile \in Filters /\ extra \in Extra
        /\ runs = 0

\* initialize.  BrowserApplication::initialize has found that this is the only instance.
Initialize(args) ==
  LET parsed == Parsed(args)
      kept == IF parsed.cleared THEN <<>> ELSE extra
      full == WithExtra(parsed, kept)
      located == [full EXCEPT !.modelPath = @ \/ parsed.manifest]
      home == HomeUrl(args)
      started == [located EXCEPT !.home = home, !.local = IsLocal(home)]
  IN /\ extra' = kept
     /\ IF \/ ~Occurs(args, "url") /\ ~started.modelPath /\ ~Named(started)         \* no starting homepage
           \/ started.local /\ ~IsValidLocalContext(started)
        THEN UNCHANGED <<app, state, asked, filter>>
        ELSE /\ app' = started /\ state' = "running" /\ filter' = FilterOf(filterFile)
             /\ asked' = home

\* main.  APP_ID is in the environment, or is put there from --app-id.
Start(args, appId) ==
  /\ state = "down" /\ runs < MaxRuns /\ runs' = runs + 1
  /\ appId \/ \E k \in DOMAIN args : args[k].opt = "app-id"
  /\ Initialize(args)
  /\ UNCHANGED <<page, filterFile>>

Ends == /\ state = "running" /\ state' = "down" /\ page' = NoUrl /\ asked' = NoUrl /\ app' = NoOptions
        /\ UNCHANGED <<filter, extra, filterFile, runs>>

\* The user writes the file of patterns.
Configure == /\ extra' \in Extra \ {extra}
             /\ UNCHANGED <<app, state, page, asked, filter, filterFile, runs>>

-----------------------------------------------------------------------------
(* Navigation *)

\* shouldAllowNavigationTo
ShouldAllow(url) == \/ Named(app) /\ url.scheme = "http" /\ url.host \in WebappHosts
                    \/ \E k \in DOMAIN app.patterns : Match(app.patterns[k], url)

\* navigationRequestedDelegate: is a request of the main frame accepted?  Others are opened outside.
Accepts(url) == IF app.local /\ ~IsLocal(url) THEN FALSE
                ELSE (~HasPatterns(app) /\ ~Named(app)) \/ ShouldAllow(url)

\* The page asks for a URL, or the engine for the one that has been set.
Navigate(url) ==
  /\ state = "running" /\ url.scheme \in {"http", "file"}
  /\ page # NoUrl \/ asked = url
  /\ page' = IF Accepts(url) THEN url ELSE page
  /\ asked' = IF asked = url THEN NoUrl ELSE asked
  /\ UNCHANGED <<app, state, filter, extra, filterFile, runs>>

OpenedMut(url) ==   \* mutant: what the filter has made of a URL is not looked at
  LET to == Translated(url)
  IN IF \/ Safe(app.popup) # <<>> /\ Match(Safe(app.popup), url)
        \/ to = NoUrl \/ (url.scheme = "http" /\ ~ShouldAllow(url))
     THEN asked ELSE to

\* openUrls
Opened(url) ==
  LET to == Translated(url)
  IN IF \/ Safe(app.popup) # <<>> /\ Match(Safe(app.popup), url)
        \/ to = NoUrl \/ ~ShouldAllow(to)
     THEN asked ELSE to

\* onNewInstanceLaunched: a file that is not named by an absolute path is taken for a host.
AsHost(url) == [url EXCEPT !.scheme = "http", !.host = Tail(url.path), !.path = <<"/">>]
OpenUrls(url) ==
  /\ state = "running"
  /\ \E u \in {url} \cup IF IsLocal(url) THEN {AsHost(url)} ELSE {} : asked' = Opened(u)
  /\ UNCHANGED <<app, state, page, filter, extra, filterFile, runs>>

-----------------------------------------------------------------------------

Next == \/ \E args \in BoundedSeq(Option, MaxArgs), appId \in BOOLEAN : Start(args, appId)
        \/ Ends \/ Configure
        \/ \E url \in Url : OpenUrls(url)
        \/ \E url \in Url \cup ({asked} \ {NoUrl}) : Navigate(url)

Spec == Init /\ [][Next]_vars

-----------------------------------------------------------------------------
(* Properties *)

Filtered == state = "running" /\ (HasPatterns(app) \/ Named(app))

Dots(host) == {i \in DOMAIN host : host[i] = "."}

\* The host is the one of the pattern, but for its first label, or the country of Google.
SameDomain(p, host) ==
  /\ Wildcards(p) \subseteq {1} \/ (p[2] = "google" /\ Wildcards(p) \subseteq {Len(p)})
  /\ \E n \in 0 .. Len(host) :
       /\ Len(host) = End(p, n) /\ LabelsFit(p, n, host)
       /\ Dots(host) = {Begin(p, n, k) - 1 : k \in 2 .. Len(p)}

\* A web app with valid patterns, or a name, shows pages of its own only: hosts that the model
\* lists, and the domains for which a pattern was given, on the command line or in the file: a
\* page of another domain has a host with fewer dots than the pattern (what a "." of a pattern
\* fits may be part of a name, or be in the path), or another URL in its own.
NavigatesWithin ==
  Filtered /\ page # NoUrl =>
    \/ Named(app) /\ page.scheme = "http" /\ page.host \in WebappHosts
    \/ \E k \in DOMAIN app.given :
         /\ Safe(app.given[k]) # <<>>
         /\ \/ OtherUrls(page) # {}
            \/ /\ page.scheme = "http"
               /\ \/ Cardinality(Dots(page.host)) + 1 < Len(app.given[k])
                  \/ SameDomain(app.given[k], page.host)

\* "<hostpart> := '.' <any char except '/', '*', '?' and '.'>+": what is shown has the labels of a
\* pattern and its dots where the pattern has them.
OwnDomains ==
  Filtered /\ ~Named(app) /\ page # NoUrl =>
    \E k \in DOMAIN app.given : page.scheme = "http" /\ app.given[k] # <<>> /\ SameDomain(app.given[k], page.host)

\* "list of comma-separated url patterns (wildcard based) that the webapp is allowed to navigate
\* to": a web app to which patterns were given does not show other pages.
OnlyGivenPatterns ==
  state = "running" /\ ~Named(app) /\ app.given # <<>> /\ page # NoUrl =>
    \E k \in DOMAIN app.given : Match(app.given[k], page)

\* A local application shows local pages only, whatever a second start asks it to open.
LocalStaysLocal == state = "running" /\ app.local => /\ page # NoUrl => IsLocal(page)
                                                     /\ asked # NoUrl => IsLocal(asked)

\* What the guard of openUrls lets through is accepted as a navigation, whatever the filter has
\* made of it.
OpenedIsShown == state = "running" /\ asked \notin {NoUrl, app.home} => Accepts(asked)
=============================================================================
