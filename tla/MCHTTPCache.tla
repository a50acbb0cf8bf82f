---- MODULE MCHTTPCache ----
(***************************************************************************)
(* An instance of HTTPCache: two threads, a cache that holds about three   *)
(* blocks and an index that is written after every second new entry.       *)
(***************************************************************************)
EXTENDS HTTPCache
====
