---- MODULE HTTPClient ----
(***************************************************************************)
(* How the HTTP client answers a request for a URL, from its cache or from  *)
(* the server: HTTPConnect::fetch_url() and what it calls (HTTPConnect.cc), *)
(* and the responses it hands out (HTTPResponse.h, HTTPCacheResponse.h).    *)
(*                                                                         *)
(* Each thread has its own HTTPConnect; they share the cache, of which     *)
(* only the promise matters here (ResponseCache).  A call of the cache is   *)
(* one step.  A call that waits in the cache for a lock of an entry holds   *)
(* up every other call: that is for HTTPCache to show, here it just waits.  *)
(* A call that throws may leave its lock on the entry; then there is nobody *)
(* to give it back.                                                        *)
(*                                                                         *)
(* A body is known by its version on the server.  An open file is a number, *)
(* and the body of a new response is in the temporary file of that number.  *)
(* The caller deletes a response before it asks for the next.              *)
(***************************************************************************)
EXTENDS ResponseCache, FiniteSets

CONSTANTS
    Location,       \* where the server sends a request for a URL on to;
                    \* the URL itself, if nowhere
    MaxVersions,    \* bound: versions of what is at a URL
    MaxStreams,     \* the files that the process may have open
    MaxStuck        \* bound: locks that calls of the cache leave

ASSUME LocationAssumption == Urls # {} /\ Location \in [Urls -> Urls]
ASSUME VersionsAssumption == {MaxVersions, MaxStreams, MaxStuck} \subseteq Nat

VARIABLES
    at,         \* where each thread is within its call
    url,        \* the URL it fetches
    caching,    \* it looks into the cache
    hand,       \* the open file it works with, 0 if there is none
    reply,      \* the version in the server's reply
    etag,       \* the version it asks the server about
    asked,      \* the version on the server when it began to ask
    streams,    \* the open files, each with the entry of the cache that it is the
                \* body of, or with no entry: a temporary file
    temps,      \* the temporary files on disk
    content,    \* what is in each entry: the version of its body, and
                \* that of its ETag
    version,    \* what the server has
    newest,     \* the newest version that was ever stored
    late,       \* an older version than that was stored
    failed,     \* cache_response() threw
    stuck       \* the entries that a call of the cache left locked as it threw, each
                \* with the lock: "read" or "write"

clientVars == <<cacheVars, at, url, caching, hand, reply, etag, asked, streams, temps,
                content, version, newest, late, failed, stuck>>
common == <<version, newest, late, failed, stuck>>
request == <<url, caching>>
answer == <<reply, etag, asked>>
files == <<streams, temps>>

NoEntry == <<>>
AnyUrl == CHOOSE u \in Urls : TRUE
Blank == [body |-> 0, etag |-> 0]
Numbers == 1 .. MaxStreams
Free == {n \in Numbers : ~\E s \in streams : s.number = n}
FreeNumbers == {n \in Free : \A m \in Free : n <= m}
Stream(n) == CHOOSE s \in streams : s.number = n
Opening(n, e) == [number |-> n, of |-> e]

ClientInit ==
    /\ CacheInit
    /\ at = [t \in Threads |-> "idle"]
    /\ url = [t \in Threads |-> AnyUrl]
    /\ caching = [t \in Threads |-> TRUE]
    /\ hand = [t \in Threads |-> 0]
    /\ reply = [t \in Threads |-> 0] /\ etag = reply /\ asked = reply
    /\ streams = {} /\ temps = {}
    /\ content = [i \in Ids |-> Blank]
    /\ version = [u \in Urls |-> 1] /\ newest = [u \in Urls |-> 0]
    /\ late = {} /\ failed = FALSE /\ stuck = {}

\* the locks that are left on the entries of S, and what they keep from the others
LeftOn(S) == {l \in stuck : l[1] \in S}
CanRead(e) == <<e, "write">> \notin stuck
CanWrite(S) == Opened(S) = {} /\ LeftOn(S) = {}
LeaveLocked(e, lock) ==
    /\ Cardinality(stuck) < MaxStuck
    /\ stuck' = stuck \cup {<<e, lock>>}

\* the cache lets the response for u go
Forget(u) ==
    /\ CanWrite(InCache(u))
    /\ Drop(InCache(u)) /\ UNCHANGED saved
    /\ content' = [i \in Ids |-> IF <<u, i>> \in cached THEN Blank ELSE content[i]]

Goto(t, p) == at' = [at EXCEPT ![t] = p]

\* an exception leaves the call; what it had at hand it may have put away
Throw(t) ==
    /\ Goto(t, "idle")
    /\ hand' = [hand EXCEPT ![t] = 0]
    /\ reply' = [reply EXCEPT ![t] = 0] /\ etag' = [etag EXCEPT ![t] = 0]
    /\ asked' = [asked EXCEPT ![t] = 0]
    /\ url' = [url EXCEPT ![t] = AnyUrl] /\ caching' = [caching EXCEPT ![t] = TRUE]

CloseTemp(t) ==
    /\ streams' = {s \in streams : s.number # hand[t]}
    /\ temps' = temps \ {hand[t]}

-----------------------------------------------------------------------------
(* fetch_url(), and the look into the cache of caching_fetch_url().        *)

FetchUrl(t, u, c) ==
    /\ at[t] = "idle"
    /\ url' = [url EXCEPT ![t] = u]
    /\ caching' = [caching EXCEPT ![t] = c]
    /\ Goto(t, IF c THEN "lookup" ELSE "plain")
    /\ UNCHANGED <<cacheVars, hand, answer, files, content, common>>

\* get_cached_response(): the body is opened
Found(t, next) ==
    \E e \in InCache(url[t]), n \in FreeNumbers :
        /\ CanRead(e)
        /\ Get(t, e) /\ UNCHANGED saved
        /\ streams' = streams \cup {Opening(n, e)}
        /\ hand' = [hand EXCEPT ![t] = n]
        /\ Goto(t, next)
        /\ UNCHANGED <<request, answer, temps, content, common>>

LookupFound(t) == at[t] = "lookup" /\ Found(t, "valid")

\* it throws when the entry is locked: the handler unlocks the interface only
LookupFails(t) ==
    /\ at[t] \in {"lookup", "reopen"}
    /\ \E e \in InCache(url[t]) : CanRead(e) /\ LeaveLocked(e, "read")
    /\ Throw(t)
    /\ UNCHANGED <<cacheVars, files, content, version, newest, late, failed>>

LookupNotFound(t) ==
    /\ at[t] = "lookup"
    /\ InCache(url[t]) = {}
    /\ Goto(t, "plain")
    /\ UNCHANGED <<cacheVars, hand, request, answer, files, content, common>>

\* is_url_valid(): the entry is read locked, and so it is there
IsUrlValid(t) ==
    /\ at[t] = "valid"
    /\ \E valid \in BOOLEAN : Goto(t, IF valid THEN "cached" ELSE "release")
    /\ UNCHANGED <<cacheVars, hand, request, answer, files, content, common>>

-----------------------------------------------------------------------------
(* The validation of a response that is in the cache.                      *)

\* release_cached_response(), which does not close the body
ReleaseForValidation(t) ==
    /\ at[t] = "release"
    /\ Release(t, Stream(hand[t]).of) /\ UNCHANGED saved
    /\ hand' = [hand EXCEPT ![t] = 0]
    /\ Goto(t, "condition")
    /\ UNCHANGED <<request, answer, files, content, common>>

ConditionNow(t) ==
    /\ at[t] = "condition"
    /\ IF InCache(url[t]) = {} THEN Throw(t)
       ELSE /\ etag' = [etag EXCEPT ![t] = version[url[t]]]
            /\ Goto(t, "validate")
            /\ UNCHANGED <<hand, request, reply, asked>>
    /\ UNCHANGED <<cacheVars, files, content, common>>
\* get_conditional_request_headers(): it throws when there is no entry any more
Condition(t) ==
    /\ at[t] = "condition"
    /\ IF InCache(url[t]) = {} THEN Throw(t)
       ELSE /\ \E e \in InCache(url[t]) : /\ CanRead(e)
                                          /\ etag' = [etag EXCEPT ![t] = content[e[2]].etag]
            /\ Goto(t, "validate")
            /\ UNCHANGED <<hand, request, reply, asked>>
    /\ UNCHANGED <<cacheVars, files, content, common>>

\* get_temp_file(), for the answer
GetTempFile(t) ==
    /\ at[t] \in {"plain", "validate"} /\ hand[t] = 0
    /\ \/ \E n \in FreeNumbers :
             /\ hand' = [hand EXCEPT ![t] = n]
             /\ streams' = streams \cup {Opening(n, NoEntry)}
             /\ temps' = temps \cup {n}
             /\ asked' = [asked EXCEPT ![t] = version[url[t]]]
             /\ UNCHANGED <<at, request, reply, etag>>
       \/ Throw(t) /\ UNCHANGED files
    /\ UNCHANGED <<cacheVars, content, common>>

ReadFailsKeepsTemp(t) ==
    /\ at[t] \in {"plain", "validate"} /\ hand[t] # 0
    /\ Throw(t)
    /\ UNCHANGED <<cacheVars, files, content, common>>
\* read_url() throws, or the server says no
ReadFails(t) ==
    /\ at[t] \in {"plain", "validate"} /\ hand[t] # 0
    /\ CloseTemp(t)
    /\ Throw(t)
    /\ UNCHANGED <<cacheVars, content, common>>

\* status 200: a new response
ReadNew(t) ==
    /\ at[t] \in {"plain", "validate"} /\ hand[t] # 0
    /\ reply' = [reply EXCEPT ![t] = version[url[t]]]
    /\ etag' = [etag EXCEPT ![t] = 0]
    /\ Goto(t, IF caching[t] THEN "store" ELSE "new")
    /\ UNCHANGED <<cacheVars, hand, request, asked, files, content, common>>

\* status 304: the response in the cache is what the server has
ReadNotModified(t) ==
    /\ at[t] = "validate" /\ hand[t] # 0
    /\ etag[t] = version[url[t]]
    /\ reply' = [reply EXCEPT ![t] = etag[t]] /\ etag' = [etag EXCEPT ![t] = 0]
    /\ CloseTemp(t)
    /\ hand' = [hand EXCEPT ![t] = 0]
    /\ Goto(t, "update")
    /\ UNCHANGED <<cacheVars, request, asked, content, common>>

\* update_response(): the headers, with the ETag, go to the entry that is now there.
\* When it throws, the ETag may be there already, and the handler unlocks for reading
\* what is locked for writing.
UpdateResponse(t) ==
    /\ at[t] = "update"
    /\ IF InCache(url[t]) = {} THEN Throw(t) /\ UNCHANGED <<content, stuck>>
       ELSE \E e \in InCache(url[t]) :
            /\ CanWrite({e})
            /\ LET updated == [content EXCEPT ![e[2]].etag = reply[t]] IN
               \/ /\ content' = updated
                  /\ Goto(t, "reopen")
                  /\ UNCHANGED <<hand, request, answer, stuck>>
               \/ /\ content' \in {content, updated}
                  /\ LeaveLocked(e, "write")
                  /\ Throw(t)
    /\ UNCHANGED <<cacheVars, files, version, newest, late, failed>>

Reopen(t) == at[t] = "reopen" /\ Found(t, "cached")

\* a response is made of the null stream
ReopenNothing(t) ==
    /\ at[t] = "reopen"
    /\ InCache(url[t]) = {}
    /\ Goto(t, "cached")
    /\ UNCHANGED <<cacheVars, hand, request, answer, files, content, common>>

-----------------------------------------------------------------------------
(* A new response: cache_response().                                       *)

StoredHeadersOnly(t, i) ==
    /\ at[t] = "store"
    /\ IF InCache(url[t]) = {}
       THEN /\ Replace(<<url[t], i>>) /\ UNCHANGED saved
            /\ content' = [content EXCEPT ![i] = [body |-> reply[t], etag |-> reply[t]]]
       ELSE /\ <<url[t], i>> \in cached
            /\ content' = [content EXCEPT ![i].etag = reply[t]]
            /\ UNCHANGED cacheVars
    /\ late' = IF reply[t] < newest[url[t]] THEN late \cup {url[t]} ELSE late
    /\ newest' = [newest EXCEPT ![url[t]] = IF reply[t] > @ THEN reply[t] ELSE @]
    /\ Goto(t, "new")
    /\ UNCHANGED <<hand, request, answer, files, version, failed, stuck>>
Stored(t, i) ==
    /\ at[t] = "store"
    /\ CanWrite(InCache(url[t]))
    /\ Replace(<<url[t], i>>) /\ UNCHANGED saved
    /\ content' = [j \in Ids |->
                      IF j = i THEN [body |-> reply[t], etag |-> reply[t]]
                      ELSE IF <<url[t], j>> \in cached THEN Blank ELSE content[j]]
    /\ late' = IF reply[t] < newest[url[t]] THEN late \cup {url[t]} ELSE late
    /\ newest' = [newest EXCEPT ![url[t]] = IF reply[t] > @ THEN reply[t] ELSE @]
    /\ Goto(t, "new")
    /\ UNCHANGED <<hand, request, answer, files, version, failed, stuck>>

\* it may not be cached; the one that was in the cache is gone in any case
NotStored(t) ==
    /\ at[t] = "store"
    /\ Forget(url[t])
    /\ Goto(t, "new")
    /\ UNCHANGED <<hand, request, answer, files, common>>

\* the temporary file is forgotten
StoreFails(t) ==
    /\ at[t] = "store"
    /\ Forget(url[t])
    /\ failed' = TRUE
    /\ Throw(t)
    /\ UNCHANGED <<files, version, newest, late, stuck>>

-----------------------------------------------------------------------------
(* The response is handed out, or its Location followed; its destructor.    *)

Cached(t) == Stream(hand[t]).of # NoEntry
Destroy(t) ==
    IF Cached(t)
    THEN /\ Release(t, Stream(hand[t]).of) /\ UNCHANGED saved
         /\ streams' = streams \ {Stream(hand[t])}
         /\ UNCHANGED temps
    ELSE CloseTemp(t) /\ UNCHANGED cacheVars

Deliver(t) ==
    /\ at[t] \in {"cached", "new"}
    /\ Location[url[t]] = url[t]
    /\ Goto(t, "done")
    /\ UNCHANGED <<cacheVars, hand, request, answer, files, content, common>>

Redirect(t) ==
    /\ at[t] \in {"cached", "new"} /\ hand[t] # 0
    /\ Location[url[t]] # url[t]
    /\ Destroy(t)
    /\ url' = [url EXCEPT ![t] = Location[@]]
    /\ hand' = [hand EXCEPT ![t] = 0]
    /\ asked' = [asked EXCEPT ![t] = 0]
    /\ Goto(t, IF caching[t] THEN "lookup" ELSE "plain")
    /\ UNCHANGED <<caching, reply, etag, content, common>>

\* the caller deletes the response
Delete(t) ==
    /\ at[t] = "done" /\ hand[t] # 0
    /\ Destroy(t)
    /\ Throw(t)
    /\ UNCHANGED <<content, common>>

-----------------------------------------------------------------------------
\* what others do with the cache: purge it, or store so much that it is collected
Collect(u) ==
    /\ InCache(u) # {}
    /\ Forget(u)
    /\ UNCHANGED <<at, hand, request, answer, files, common>>

Change(u) ==
    /\ Location[u] = u /\ version[u] < MaxVersions
    /\ version' = [version EXCEPT ![u] = @ + 1]
    /\ UNCHANGED <<cacheVars, at, hand, request, answer, files, content, newest, late, failed,
                   stuck>>

Fetch(t) ==
    \/ \E u \in Urls, c \in BOOLEAN : FetchUrl(t, u, c)
    \/ LookupFound(t) \/ LookupFails(t) \/ LookupNotFound(t) \/ IsUrlValid(t)
    \/ ReleaseForValidation(t) \/ Condition(t) \/ GetTempFile(t)
    \/ ReadFails(t) \/ ReadNew(t) \/ ReadNotModified(t)
    \/ UpdateResponse(t) \/ Reopen(t) \/ ReopenNothing(t)
    \/ \E i \in Ids : Stored(t, i)
    \/ NotStored(t) \/ StoreFails(t)
    \/ Deliver(t) \/ Redirect(t) \/ Delete(t)

ClientNext ==
    \/ \E t \in Threads : Fetch(t)
    \/ \E u \in Urls : Collect(u) \/ Change(u)

ClientSpec == ClientInit /\ [][ClientNext]_clientVars

-----------------------------------------------------------------------------
(* Properties.                                                             *)

\* The body that a thread hands out, or is about to.
Body(t) == IF Cached(t) THEN content[Stream(hand[t]).of[2]].body ELSE reply[t]

\* Whatever way a fetch takes, and wherever it throws, the responses that are open
\* are those that the threads have at hand, and a temporary file is left behind only
\* when cache_response() throws, as nobody deletes the response then
\* (HTTPConnect.cc:870, 907).  Where get_cached_response() or update_response() threw,
\* the entry stays locked, and so it stays in the cache: no call removes an entry
\* under a lock, its own or that of another, that was not given back.
NothingLeft ==
    LET used == {t \in Threads : hand[t] # 0} IN
    /\ open = {<<t, Stream(hand[t]).of>> : t \in {s \in used : Cached(s)}}
    /\ ~failed => temps = {hand[t] : t \in {s \in used : ~Cached(s)}}
    /\ \A l \in stuck : l[1] \in cached

\* "To release the lock, the method release_cached_response() must be called"
\* (HTTPCache.cc:1456-1457): who could call it for a locked entry has it at hand.
AllCanBeReleased ==
    \A e \in cached : LeftOn({e}) # {} =>
        \E t \in Threads : hand[t] # 0 /\ Stream(hand[t]).of = e

\* Who has asked the server hands out nothing older than what the server had then,
\* although between its answer and the use of the body other threads may store,
\* update or collect the entry, which is found again by its URL.  The exception is a
\* URL for which an answer was stored after a newer one (HTTPConnect.cc:894-919).
Current ==
    \A t \in Threads :
        at[t] \in {"cached", "new", "done"} /\ hand[t] # 0 /\ url[t] \notin late
            => Body(t) >= asked[t]

\* An entry never has an ETag newer than its body, for then the server would call a
\* body valid that it has not any more.  update_response() writes the ETag of one
\* body to the entry that is there now, which may be another (HTTPCache.cc:1331);
\* that goes well but for an answer that was stored after a newer one.
TagFits ==
    \A e \in cached : e[1] \notin late => content[e[2]].etag <= content[e[2]].body

\* "This closes 's'" (HTTPConnect.cc:885): the body of a response that turned out
\* not to be valid does not stay open.
BodiesClosed ==
    \A s \in streams : s.of # NoEntry => \E t \in Threads : hand[t] = s.number
====
