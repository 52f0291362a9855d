---------------------------- MODULE FaviconFetcher ----------------------------
(***************************************************************************)
(* Fetching the icon of a page (src/src/app/favicon-fetcher.cpp).          *)
(*                                                                         *)
(* A reply, and a redirection that is queued, are recorded with the URL    *)
(* they were started for, of which the code keeps no track.  An icon is    *)
(* named by the URL it belongs to, and so is the file of the cache in      *)
(* which it is stored (a hash of the URL).                                 *)
(***************************************************************************)
EXTENDS Naturals, Sequences, FiniteSets

CONSTANTS Url,              \* URLs whose icon is to be downloaded
          Direct,           \* a local file or an image of the web engine
          NoUrl,            \* an empty URL
          MaxRedirections,  \* MAX_REDIRECTIONS
          MaxReplies,       \* bound: replies in flight, and downloads queued
          QueuedChange      \* can the URL change while a redirection is queued?

VARIABLES url,           \* m_url
          localUrl,      \* m_localUrl: how it names the icon, and the icon
          shouldCache,   \* m_shouldCache
          filepath,      \* m_filepath, as the URL it is the file of
          reply,         \* m_reply, 0 when null
          redirections,  \* m_redirections
          replies,       \* the replies in flight, with the URL each is for
          queued,        \* the downloads that are queued in the event loop, likewise
          cache          \* the files of the cache: the icon, "empty", "old" or NoUrl

vars == <<url, localUrl, shouldCache, filepath, reply, redirections, replies, queued, cache>>

Shown(kind, u) == [kind |-> kind, of |-> u]
NoIcon == Shown("none", NoUrl)

Init == /\ url = NoUrl /\ localUrl = NoIcon /\ shouldCache \in BOOLEAN /\ filepath = NoUrl
        /\ reply = 0 /\ redirections = 0 /\ replies = <<>> /\ queued = <<>>
        /\ cache = [u \in Url |-> NoUrl]

-----------------------------------------------------------------------------

WithoutReply(r) == [s \in DOMAIN replies \ {r} |-> replies[s]]
\* download: a reply for u is added to those in flight, and m_reply is set to it.
Download(inFlight, u) ==
  LET r == CHOOSE s \in 1 .. MaxReplies + 1 :
             s \notin DOMAIN inFlight /\ \A t \in 1 .. s - 1 : t \in DOMAIN inFlight
  IN /\ r <= MaxReplies
     /\ reply' = r
     /\ replies' = [s \in DOMAIN inFlight \cup {r} |-> IF s = r THEN u ELSE inFlight[s]]

AbortedMut == replies   \* mutant: the reply is not aborted

\* Aborting ends the reply inside the call: downloadFinished ignores it.
Aborted == IF reply = 0 THEN replies ELSE WithoutReply(reply)

\* The page has another icon.  The one in the cache is taken if it is not old; an empty
\* file stands for an icon that could not be downloaded.
SetUrl(u) ==
  /\ u # url
  /\ QueuedChange \/ queued = <<>>
  /\ url' = u
  /\ \/ /\ u = NoUrl
        /\ localUrl' = NoIcon /\ reply' = 0 /\ replies' = Aborted
        /\ UNCHANGED <<filepath, redirections>>
     \/ /\ u = Direct
        /\ localUrl' = Shown("direct", u) /\ reply' = 0 /\ replies' = Aborted
        /\ UNCHANGED <<filepath, redirections>>
     \/ /\ u \in Url /\ cache[u] \notin {NoUrl, "old"}
        /\ localUrl' = IF cache[u] = "empty" THEN NoIcon ELSE Shown("cache", u)
        /\ filepath' = u /\ reply' = 0 /\ replies' = Aborted
        /\ UNCHANGED redirections
     \/ /\ u \in Url /\ cache[u] \in {NoUrl, "old"}
        /\ localUrl' = NoIcon
        /\ filepath' = u /\ redirections' = 0
        /\ Download(Aborted, u)
  /\ UNCHANGED <<shouldCache, queued, cache>>

SetShouldCache == /\ shouldCache' = ~shouldCache
                  /\ UNCHANGED <<url, localUrl, filepath, reply, redirections, replies, queued, cache>>

\* The event loop runs a download that downloadFinished has queued.
RunQueued == /\ queued # <<>>
             /\ Download(replies, Head(queued))
             /\ queued' = Tail(queued)
             /\ UNCHANGED <<url, localUrl, shouldCache, filepath, redirections, cache>>

\* The icon has come.  It is stored in the file of the URL set last, and shown; when it is
\* not to be cached, or when the file cannot be written, it is shown all the same.
IconReceived(r) ==
  \/ /\ shouldCache
     /\ cache' = [cache EXCEPT ![filepath] = replies[r]]
     /\ localUrl' = Shown("cache", filepath)
  \/ /\ localUrl' = Shown("data", replies[r])
     /\ UNCHANGED cache

CacheEmptyFile == cache' = [cache EXCEPT ![filepath] = "empty"] /\ UNCHANGED localUrl

Finished(r) == /\ r \in DOMAIN replies
               /\ replies' = WithoutReply(r)
               /\ reply' = 0
               /\ UNCHANGED <<url, shouldCache, filepath>>

\* An icon, data that is no image, or an error.
Answers(r) == /\ Finished(r)
              /\ IconReceived(r) \/ CacheEmptyFile \/ UNCHANGED <<cache, localUrl>>
              /\ UNCHANGED <<redirections, queued>>

Redirects(r) == /\ Len(queued) < MaxReplies
                /\ Finished(r)
                /\ redirections' = redirections + 1
                /\ IF redirections' < MaxRedirections
                   THEN queued' = Append(queued, replies[r]) /\ UNCHANGED <<cache, localUrl>>
                   ELSE CacheEmptyFile /\ UNCHANGED queued

\* A hundred days pass.
Expires(u) == /\ cache[u] \notin {NoUrl, "old"}
              /\ cache' = [cache EXCEPT ![u] = "old"]
              /\ UNCHANGED <<url, localUrl, shouldCache, filepath, reply, redirections, replies, queued>>

Next == \/ \E u \in Url \cup {Direct, NoUrl} : SetUrl(u)
        \/ SetShouldCache \/ RunQueued
        \/ \E r \in DOMAIN replies : Answers(r) \/ Redirects(r)
        \/ \E u \in Url : Expires(u)

Spec == Init /\ [][Next]_vars

-----------------------------------------------------------------------------
(* Properties *)

\* "all the previous ones are discarded": the icon shown is the one of the URL set last.
IconIsOfUrl == CASE localUrl.kind = "cache" -> localUrl.of = url /\ cache[url] \in {url, "old"}
                 [] localUrl.kind = "data"  -> localUrl.of = url
                 [] localUrl.kind = "direct" -> url = Direct
                 [] OTHER -> TRUE

\* A file of the cache never has the icon of another page, which would be shown for the
\* hundred days that it is valid.
CacheIsRight == \A u \in Url : cache[u] \in {NoUrl, "empty", "old", u}

\* Nothing but the reply the fetcher knows is in flight: what it cannot abort could answer
\* for another URL.
OnlyReply == DOMAIN replies = {reply} \ {0}

\* m_reply is never a reply that has ended (and is deleted): setUrl would abort it.
ReplyIsLive == reply # 0 => reply \in DOMAIN replies
=============================================================================
