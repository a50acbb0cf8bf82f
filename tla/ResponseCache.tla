---- MODULE ResponseCache ----
(***************************************************************************)
(* What the cache of HTTP responses promises to those who call it, without *)
(* its locks, sizes, counters and files: there is at most one response for *)
(* a URL; a response that somebody has open stays; and what a process      *)
(* finds when it starts was in the cache when the index was last written.  *)
(* HTTPCache is shown to implement it, and HTTPClient is built on it.      *)
(*                                                                         *)
(* An entry is a pair: the URL, and a number that tells apart the          *)
(* responses that were stored for it.                                      *)
(***************************************************************************)
EXTENDS Naturals

CONSTANTS Threads, Urls, Ids

Entries == Urls \X Ids

VARIABLES
    cached,     \* the entries in the cache
    open,       \* who has the response of which entry open
    saved       \* the entries in the index on disk

cacheVars == <<cached, open, saved>>

InCache(u) == {e \in cached : e[1] = u}
Opened(S) == {o \in open : o[2] \in S}

CacheInit == cached = {} /\ open = {} /\ saved = {}

\* The response takes the place of the one there was.
Replace(e) ==
    /\ e[2] \notin {d[2] : d \in cached \cup saved}
    /\ Opened(InCache(e[1])) = {}
    /\ cached' = (cached \ InCache(e[1])) \cup {e}
    /\ UNCHANGED open

\* Garbage collection, purge, and the removal of an old response.
Drop(S) ==
    /\ S \subseteq cached
    /\ Opened(S) = {}
    /\ cached' = cached \ S
    /\ UNCHANGED open

Get(t, e) ==
    /\ e \in cached
    /\ <<t, e>> \notin open
    /\ open' = open \cup {<<t, e>>}
    /\ UNCHANGED cached

Release(t, e) ==
    /\ <<t, e>> \in open
    /\ open' = open \ {<<t, e>>}
    /\ UNCHANGED cached

\* The index is written, whole or in part.
Save == saved' \subseteq cached

\* The process ends, in whatever way.
End ==
    /\ cached' = {} /\ open' = {}
    /\ UNCHANGED saved \/ Save

\* The index is read, as far as it can be.
Restart ==
    /\ cached = {}
    /\ cached' \subseteq saved
    /\ UNCHANGED <<open, saved>>

CacheNext ==
    \/ /\ UNCHANGED saved
       /\ \/ \E e \in Entries : Replace(e)
          \/ \E t \in Threads, e \in Entries : Get(t, e) \/ Release(t, e)
    \/ /\ \E S \in SUBSET cached : Drop(S)
       /\ UNCHANGED saved \/ Save
    \/ Save /\ UNCHANGED <<cached, open>>
    \/ End \/ Restart

CacheSpec == CacheInit /\ [][CacheNext]_cacheVars
====
