------------------------------- MODULE MCViews -------------------------------
(***************************************************************************)
(* What the browser shows beside the pages: the lists of the history, the  *)
(* icons, and the first rows of a model (LimitProxy).  They share no       *)
(* state; `part` says which one runs, the others stay as they are made.    *)
(***************************************************************************)
EXTENDS LimitProxy, TLC

CONSTANTS Pages, PageDomain, MaxDay,                      \* HistoryViews
          IconUrl, Direct, NoUrl, MaxRedirections         \* FaviconFetcher

VARIABLES part,
          entries, today, domains, domainView, lastVisits, matching, dates,
          url, localUrl, shouldCache, filepath, reply, redirections, replies, queued, cache

ASSUME DomainAssumption == PageDomain \in [Pages -> Nat]
\* Local images and the marks of the cache are no URLs to download.
ASSUME IconAssumption == /\ Direct # NoUrl /\ {Direct, NoUrl} \cap IconUrl = {}
                         /\ {"empty", "old"} \cap (IconUrl \cup {NoUrl}) = {}

\* A page of one domain, and those of another.
MCDomainOf == [u \in Pages |-> IF u = CHOOSE v \in Pages : TRUE THEN 2 ELSE 1]

\* The lists as the browser makes them, and the days on the history itself, whose rows move.
DomainLists == INSTANCE HistoryViews WITH
  Url <- Pages, DomainOf <- PageDomain, view <- domainView, Proxied <- TRUE, TopLater <- FALSE
Unsorted == INSTANCE HistoryViews WITH
  Url <- Pages, DomainOf <- PageDomain, view <- domainView, Proxied <- FALSE, TopLater <- FALSE
\* A fetcher whose URL does not change while a redirection is queued, and one whose does.
Icons == INSTANCE FaviconFetcher WITH Url <- IconUrl, MaxReplies <- 3, QueuedChange <- FALSE
Hurried == INSTANCE FaviconFetcher WITH Url <- IconUrl, MaxReplies <- 2, QueuedChange <- TRUE

listVars == <<entries, today, domains, domainView, lastVisits, matching, dates>>
iconVars == <<url, localUrl, shouldCache, filepath, reply, redirections, replies, queued, cache>>

Runs(p) == part = p /\ UNCHANGED part

MCInit == /\ part \in {"lists", "unsorted", "icons", "hurried", "first rows"}
          /\ DomainLists!Init /\ Icons!Init /\ Init
          /\ part \in {"lists", "unsorted", "first rows"} => shouldCache
          /\ part # "first rows" => source = <<>> /\ limit = -1

MCNext == \/ Runs("lists") /\ DomainLists!Next /\ UNCHANGED <<iconVars, vars>>
          \/ Runs("unsorted") /\ Unsorted!Next /\ UNCHANGED <<iconVars, vars>>
          \/ Runs("icons") /\ Icons!Next /\ UNCHANGED <<listVars, vars>>
          \/ Runs("hurried") /\ Hurried!Next /\ UNCHANGED <<listVars, vars>>
          \/ Runs("first rows") /\ Next /\ UNCHANGED <<listVars, iconVars>>

MCSpec == MCInit /\ [][MCNext]_<<part, listVars, iconVars, vars>>

\* Rows are only compared for equality.
SymmetricRows == Permutations(Row)

-----------------------------------------------------------------------------
(* The properties of the parts, where they are stated *)

\* A domain is listed, once, when the history has a page of it, and what is said of it is that
\* of its page visited last.
DomainsShown == DomainLists!DomainsExact /\ DomainLists!LastVisitRight

\* All days first, then those with a visit, in descending order: none is missing, and in the
\* browser none is listed without one.
DatesShown == /\ DomainLists!DatesSorted /\ DomainLists!DatesCovered
              /\ part = "lists" => DomainLists!DatesExact

\* The icon shown, and those in the cache, are those of their page.  Nothing but the reply that
\* the fetcher knows is in flight, and that one is never gone.
IconsShown == /\ part = "icons" => Icons!IconIsOfUrl /\ Icons!CacheIsRight /\ Icons!OnlyReply
              /\ Icons!ReplyIsLive
=============================================================================
