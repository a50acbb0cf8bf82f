---- MODULE HTTPCache ----
(***************************************************************************)
(* The client's cache of HTTP responses: class HTTPCache, its table of     *)
(* entries (HTTPCacheTable) and the files behind it (HTTPCache.cc,         *)
(* HTTPCacheTable.cc, HTTPCacheTable.h).                                   *)
(*                                                                         *)
(* Threads of one process call the cache.  Every call but                  *)
(* is_url_in_cache() locks the interface mutex for its whole duration, so  *)
(* there is one call at a time and one program counter is enough; its      *)
(* steps are kept apart because it can block on the locks of an entry,     *)
(* fail on an I/O error, or be cut off by the death of the process.        *)
(*                                                                         *)
(* An entry is named by the number of its files (mkstemp() never gives the *)
(* name of an older entry), and has the URL that leads to it: none when    *)
(* its line of the index was cut in the hash, so that it is in a slot of   *)
(* the table where no lookup finds it.  Sizes are counted in disk blocks.  *)
(* The headers are reduced to whether the response may be cached; whether  *)
(* it has expired is open.  A release of an unknown body leaves a null     *)
(* entry in d_locked_entries, for which purge_cache() refuses its service  *)
(* ever after; a refused purge changes nothing, so this is not followed.   *)
(***************************************************************************)
EXTENDS Integers, FiniteSets

CONSTANTS
    Threads,        \* threads of the process
    None,           \* no thread, no URL
    Urls,           \* the URLs asked for
    Sizes,          \* what a response may take on disk, in blocks
    TotalSize,      \* CACHE_TOTAL_SIZE, in blocks
    Limits,         \* the sizes the cache may be set to
    Pct,            \* CACHE_FOLDER_PCT and CACHE_GC_PCT, the same number
    MaxEntrySize,   \* d_max_entry_size
    DumpFrequency,  \* new entries before the index is written
    MaxEntries,     \* bound: entries made in all
    MaxHits,        \* bound: where the hit counter stops counting
    MaxReaders,     \* bound: read locks on an entry
    MaxFails,       \* bound: I/O errors
    MaxCrashes      \* bound: deaths of the process

Ids == 1 .. MaxEntries

ASSUME ThreadsAssumption == None \notin Threads
ASSUME SizesAssumption == Sizes \subseteq Nat \ {0} /\ Sizes # {}
ASSUME UrlsAssumption == Urls # {} /\ None \notin Urls
ASSUME LimitsAssumption == Limits \subseteq Nat /\ TotalSize \in Nat
ASSUME BoundsAssumption ==
    /\ Pct \in Nat \ {0}
    /\ MaxEntrySize \in Nat
    /\ DumpFrequency \in Nat
    /\ {MaxEntries, MaxHits, MaxReaders, MaxFails, MaxCrashes} \subseteq Nat

VARIABLES
    up,          \* "open": a live process has the HTTPCache object;
                 \* "closing": it runs the destructor; "down": no process
    iface,       \* the thread that holds d_cache_mutex
    at,          \* where it is within its call ("idle": there is no call)
    want,        \* the URL the call is about
    cur,         \* the entry the call works on
    pass,        \* hits_gc()'s counter
    table,       \* d_cache_table: the entries in it
    entry,       \* each CacheEntry, with its two locks
    held,        \* d_locked_entries: which thread has which entry's body open
    size,        \* d_current_size
    new,         \* d_new_entries
    total,       \* d_total_size
    slack,       \* d_folder_size and d_gc_buffer, always the same
    body, meta,  \* the two files of each entry
    index,       \* the index file: its lines
    born,        \* entries made so far
    fails,       \* I/O errors so far
    crashes      \* deaths so far

call == <<iface, at, want, cur, pass>>
locked == <<table, entry, held>>
sizes == <<size, new, total, slack>>
files == <<body, meta>>
counts == <<born, fails, crashes>>
vars == <<up, call, locked, sizes, files, index, counts>>

Entry == [url: Urls \cup {None}, blocks: Sizes, hits: 0 .. MaxHits,
          readers: Int, rl: BOOLEAN, wl: BOOLEAN]
Saved == [id: Ids \cup {0}, url: Urls \cup {None}, blocks: Sizes, hits: 0 .. MaxHits]
Unlocked(e) == [url |-> e.url, blocks |-> e.blocks, 
                hits |-> e.hits, readers |-> 0, rl |-> FALSE, wl |-> FALSE]
Blank == Unlocked([url |-> CHOOSE u \in Urls : TRUE, hits |-> 0, 
                   blocks |-> CHOOSE n \in Sizes : TRUE])

Init ==
    /\ up = "open" /\ iface = None
    /\ at = "idle" /\ want = None /\ cur = 0 /\ pass = 0
    /\ table = {} /\ held = {}
    /\ entry = [i \in Ids |-> Blank]
    /\ size = 0 /\ new = 0 /\ total = TotalSize /\ slack = 0
    /\ body = [i \in Ids |-> "none"] /\ meta = [i \in Ids |-> "none"]
    /\ index = {}
    /\ born = 0 /\ fails = 0 /\ crashes = 0

-----------------------------------------------------------------------------
(* What the calls are made of.                                             *)

Of(u) == {i \in table : entry[i].url = u}
HandlesOf(i) == {h \in held : h[2] = i}
\* the sum of n(x) over a set, block by block
Sum(n(_), S) == Cardinality(UNION {{x} \X (1 .. n(x)) : x \in S})
Blocks(S) == Sum(LAMBDA i : entry[i].blocks, S)

Free == up = "open" /\ iface = None
Enter(t, u, p) ==
    /\ Free
    /\ iface' = t /\ want' = u /\ at' = p
    /\ UNCHANGED <<up, cur, pass>>
Ended == iface' = None /\ at' = "idle" /\ want' = None /\ cur' = 0 /\ pass' = 0
Leave == Ended /\ UNCHANGED up
Goto(p) == at' = p /\ UNCHANGED <<up, iface, want, cur, pass>>
IOError == fails < MaxFails /\ fails' = fails + 1 /\ UNCHANGED <<born, crashes>>

StartGC(s) == s + slack > total
StopGC == size + slack < total - slack

\* lock_write_response(): with the interface locked nobody takes one of the
\* two locks between the two calls
CanWriteUnlessWritten(i) == ~entry[i].wl
CanWrite(i) == ~entry[i].rl /\ ~entry[i].wl
WriteLocked(e) == [e EXCEPT !.rl = TRUE, !.wl = TRUE]
WriteUnlocked(e) == [e EXCEPT !.rl = FALSE, !.wl = FALSE]
\* lock_read_response(): who finds d_response_lock taken waits for a writer
CanRead(i) == entry[i].rl => ~entry[i].wl
ReadLocked(e) == [e EXCEPT !.rl = TRUE, !.readers = @ + 1]
ReadUnlocked(e) == [e EXCEPT !.readers = @ - 1, !.rl = @ /\ e.readers # 1]

RemoveKeepsMeta(S) ==
    /\ table' = table \ S
    /\ entry' = [i \in Ids |-> IF i \in S THEN Blank ELSE entry[i]]
    /\ size' = LET n == Blocks(S) IN IF n > size THEN 0 ELSE size - n
    /\ body' = [i \in Ids |-> IF i \in S THEN "none" ELSE body[i]]
    /\ UNCHANGED meta
Remove(S) ==
    /\ table' = table \ S
    /\ entry' = [i \in Ids |-> IF i \in S THEN Blank ELSE entry[i]]
    /\ size' = LET n == Blocks(S) IN IF n > size THEN 0 ELSE size - n
    /\ body' = [i \in Ids |-> IF i \in S THEN "none" ELSE body[i]]
    /\ meta' = [i \in Ids |-> IF i \in S THEN "none" ELSE meta[i]]

-----------------------------------------------------------------------------
(* cache_response(): the old entry goes first, then the new one is made    *)
(* and written before it is put into the table.                            *)

CacheResponse(t, u) ==
    /\ born < MaxEntries
    /\ Enter(t, u, "remove")
    /\ UNCHANGED <<locked, sizes, files, index, counts>>

RemoveOldNot ==
    /\ at = "remove" /\ Goto("create")
    /\ UNCHANGED <<locked, sizes, files, index, counts>>
RemoveOld ==
    /\ at = "remove"
    /\ \A i \in Of(want) : CanWrite(i)
    /\ Remove(Of(want))
    /\ Goto("create")
    /\ UNCHANGED <<held, new, total, slack, index, counts>>

\* parse_headers() found that the response may not be cached
NotCacheable ==
    /\ at = "create"
    /\ Leave
    /\ UNCHANGED <<locked, sizes, files, index, counts>>

CreateLocationInTable(n) ==
    /\ at = "create"
    /\ born' = born + 1
    /\ cur' = born'
    /\ entry' = [entry EXCEPT ![born'] =
                    WriteLocked([Blank EXCEPT !.url = want, !.blocks = n])]
    /\ table' = table \cup {born'}
    /\ body' = [body EXCEPT ![born'] = "part"]
    /\ at' = "body"
    /\ UNCHANGED <<up, iface, want, pass, held, sizes, meta, index, fails, crashes>>
CreateLocation(n) ==
    /\ at = "create"
    /\ born' = born + 1
    /\ cur' = born'
    /\ entry' = [entry EXCEPT ![born'] =
                    WriteLocked([Blank EXCEPT !.url = want, !.blocks = n])]
    /\ body' = [body EXCEPT ![born'] = "part"]
    /\ at' = "body"
    /\ UNCHANGED <<up, iface, want, pass, table, held, sizes, meta, index,
                   fails, crashes>>

\* What a file holds once it was written and closed.  The functions that
\* write look at the result of fwrite(), but not at that of the last
\* fclose(), which writes what is still in the buffer.
Closed(f) ==
    \/ f = "whole" /\ UNCHANGED counts
    \/ f = "part" /\ IOError

WriteBody ==
    /\ at = "body"
    /\ \E f \in {"whole", "part"} : Closed(f) /\ body' = [body EXCEPT ![cur] = f]
    /\ Goto("meta")
    /\ UNCHANGED <<locked, sizes, meta, index>>

WriteMetadata ==
    /\ at = "meta"
    /\ \E f \in {"whole", "part"} : Closed(f) /\ meta' = [meta EXCEPT ![cur] = f]
    /\ Goto("add")
    /\ UNCHANGED <<locked, sizes, body, index>>

AddEntryUncounted ==
    /\ at = "add"
    /\ table' = table \cup {cur}
    /\ entry' = [entry EXCEPT ![cur] = WriteUnlocked(@)]
    /\ size' = size + entry[cur].blocks
    /\ Leave
    /\ UNCHANGED <<held, new, total, slack, files, index, counts>>

AddEntrySizeless ==
    /\ at = "add"
    /\ table' = table \cup {cur}
    /\ entry' = [entry EXCEPT ![cur] = WriteUnlocked(@)]
    /\ new' = new + 1
    /\ Leave
    /\ UNCHANGED <<held, size, total, slack, files, index, counts>>
AddEntry ==
    /\ at = "add"
    /\ table' = table \cup {cur}
    /\ entry' = [entry EXCEPT ![cur] = WriteUnlocked(@)]
    /\ size' = size + entry[cur].blocks
    /\ new' = new + 1
    /\ IF new' > DumpFrequency
       THEN Goto(IF StartGC(size') THEN "gc" ELSE "save")
       ELSE Leave
    /\ UNCHANGED <<held, total, slack, files, index, counts>>

\* an exception while the entry is made: the CacheEntry is lost, and with it
\* the files, but for a body that could not be written
NotCached ==
    /\ \/ /\ at = "create"
          /\ UNCHANGED <<entry, files>>
       \/ /\ at = "body"
          /\ \E f \in {"none", "part"} : body' = [body EXCEPT ![cur] = f]
          /\ entry' = [entry EXCEPT ![cur] = Blank]
          /\ UNCHANGED meta
       \/ /\ at = "meta"
          /\ \E f \in {"none", "part"} : meta' = [meta EXCEPT ![cur] = f]
          /\ entry' = [entry EXCEPT ![cur] = Blank]
          /\ UNCHANGED body
    /\ IOError
    /\ Leave
    /\ UNCHANGED <<table, held, sizes, index>>

-----------------------------------------------------------------------------
(* Garbage collection, and the index that is written after it.             *)

CollectGarbage ==
    /\ at = "gc"
    /\ \E expired \in SUBSET {i \in table : entry[i].readers = 0} :
       LET free == {i \in table : entry[i].readers = 0}
           large == {i \in free \ expired : entry[i].blocks > MaxEntrySize}
       IN Remove(IF StartGC(size - Blocks(expired)) THEN expired \cup large ELSE expired)
    /\ at' = IF StartGC(size') THEN "hits" ELSE "save"
    /\ pass' = 0
    /\ UNCHANGED <<up, iface, want, cur, held, new, total, slack, index, counts>>

\* one round of hits_gc()'s loop; beyond MaxHits the rounds are all alike
CollectByHits ==
    /\ at = "hits" /\ ~StopGC
    /\ Remove({i \in table : entry[i].readers = 0 /\ entry[i].hits <= pass})
    /\ pass' = IF pass < MaxHits THEN pass + 1 ELSE pass
    /\ UNCHANGED <<up, iface, at, want, cur, held, new, total, slack, index, counts>>

CollectedEnough ==
    /\ at = "hits" /\ StopGC
    /\ Goto("save")
    /\ UNCHANGED <<locked, sizes, files, index, counts>>

Snapshot == {[id |-> i, url |-> entry[i].url, blocks |-> entry[i].blocks,
              hits |-> entry[i].hits] : i \in table}

\* cache_index_write(): fopen() empties the file
OpenIndex ==
    /\ at = "save"
    /\ index' = {}
    /\ Goto("index")
    /\ UNCHANGED <<locked, sizes, files, counts>>

\* the end of the process, in order or not: what was in memory is gone
Die ==
    /\ up' = "down" /\ Ended
    /\ table' = {} /\ held' = {}
    /\ entry' = [i \in Ids |-> Blank]
    /\ size' = 0 /\ new' = 0 /\ slack' = 0 /\ total' = TotalSize

\* The lines of the index that a write leaves which was cut off: some are
\* whole, and the last one may be cut: before its hash, and it cannot be read;
\* in the hash, and no URL leads to the entry; or in its hits or after them.
Unreadable == [id |-> 0, url |-> None, blocks |-> Blank.blocks, hits |-> 0]
CutLines(r) == {Unreadable, [r EXCEPT !.url = None, !.hits = 0]}
               \cup {[r EXCEPT !.hits = n] : n \in 0 .. r.hits}
CutAt(r, S) == {R \cup {c} : R \in SUBSET (S \ {r}), c \in CutLines(r)}
CutOff(S) == (SUBSET S) \cup UNION {CutAt(r, S) : r \in S}

WriteIndex ==
    /\ at = "index"
    /\ index' = Snapshot
    /\ IF up = "closing" THEN Die
       ELSE Leave /\ new' = 0 /\ UNCHANGED <<locked, size, total, slack>>
    /\ UNCHANGED <<files, counts>>

\* fopen() fails
IndexNotWritten ==
    /\ at = "save"
    /\ IOError
    /\ IF up = "closing" THEN Die ELSE Leave /\ UNCHANGED <<locked, sizes>>
    /\ UNCHANGED <<files, index>>

\* fprintf() fails, which ends the call with an exception, or fclose() does,
\* which is ignored
IndexCutOff ==
    /\ at = "index"
    /\ IOError
    /\ index' \in CutOff(Snapshot)
    /\ IF up = "closing" THEN Die
       ELSE Leave /\ new' \in {0, new} /\ UNCHANGED <<locked, size, total, slack>>
    /\ UNCHANGED files

SetMaxSize(t, n) ==
    /\ Free /\ n # total
    /\ total' = n /\ slack' = n \div Pct
    /\ IF n < total /\ size + slack' > n
       THEN iface' = t /\ at' = "gc"
       ELSE UNCHANGED <<iface, at>>
    /\ UNCHANGED <<up, want, cur, pass, locked, size, new, files, index, counts>>

-----------------------------------------------------------------------------
(* update_response(): new headers for an entry that was found valid.       *)

UpdateResponse(t, u) ==
    /\ Enter(t, u, "update")
    /\ UNCHANGED <<locked, sizes, files, index, counts>>

LockForUpdate ==
    /\ at = "update"
    /\ \E i \in Of(want) :
          /\ CanWrite(i)
          /\ entry' = [entry EXCEPT ![i] = WriteLocked(@)]
          /\ cur' = i
    /\ at' = "merge"
    /\ UNCHANGED <<up, iface, want, pass, table, held, sizes, files, index, counts>>

\* the old headers are read and the file opened for writing
MergeHeaders ==
    /\ at = "merge" /\ meta[cur] # "none"
    /\ meta' = [meta EXCEPT ![cur] = "part"]
    /\ Goto("rewrite")
    /\ UNCHANGED <<locked, sizes, body, index, counts>>

RewriteMetadataReadUnlocks ==
    /\ at = "rewrite"
    /\ \E f \in {"whole", "part"} : Closed(f) /\ meta' = [meta EXCEPT ![cur] = f]
    /\ entry' = [entry EXCEPT ![cur] = ReadUnlocked(@)]
    /\ Leave
    /\ UNCHANGED <<table, held, sizes, body, index>>
RewriteMetadata ==
    /\ at = "rewrite"
    /\ \E f \in {"whole", "part"} : Closed(f) /\ meta' = [meta EXCEPT ![cur] = f]
    /\ entry' = [entry EXCEPT ![cur] = WriteUnlocked(@)]
    /\ Leave
    /\ UNCHANGED <<table, held, sizes, body, index>>

\* the handler releases a read lock, but it is a write lock that is held
UpdateFails ==
    /\ at \in {"merge", "rewrite"}
    /\ IF at = "merge" /\ meta[cur] = "none" THEN UNCHANGED counts ELSE IOError
    /\ entry' = [entry EXCEPT ![cur] = ReadUnlocked(@)]
    /\ Leave
    /\ UNCHANGED <<table, held, sizes, files, index>>

-----------------------------------------------------------------------------
(* get_cached_response() and release_cached_response(); the queries        *)
(* is_url_valid() and get_conditional_request_headers().                   *)

GetCachedResponse(t, u) ==
    /\ \A i \in Of(u) : <<t, i>> \notin held /\ entry[i].readers < MaxReaders
    /\ Enter(t, u, "get")
    /\ UNCHANGED <<locked, sizes, files, index, counts>>

LockForReading ==
    /\ at = "get"
    /\ \E i \in Of(want) :
          /\ CanRead(i)
          /\ entry' = [entry EXCEPT ![i] = ReadLocked(@)]
          /\ cur' = i
    /\ at' = "open"
    /\ UNCHANGED <<up, iface, want, pass, table, held, sizes, files, index, counts>>

OpenBody ==
    /\ at = "open" /\ meta[cur] # "none" /\ body[cur] # "none"
    /\ entry' = [entry EXCEPT ![cur].hits = IF @ < MaxHits THEN @ + 1 ELSE @]
    /\ held' = held \cup {<<iface, cur>>}
    /\ Leave
    /\ UNCHANGED <<table, sizes, files, index, counts>>

GetFailsKeepsInterface ==
    /\ at = "open" /\ IOError
    /\ at' = "idle" /\ UNCHANGED <<up, iface, want, cur, pass>>
    /\ UNCHANGED <<locked, sizes, files, index>>
\* the handler unlocks the interface and leaves the entry locked
GetFails ==
    /\ at = "open"
    /\ IF "none" \in {meta[cur], body[cur]} THEN UNCHANGED counts ELSE IOError
    /\ Leave
    /\ UNCHANGED <<locked, sizes, files, index>>

ReleaseCachedResponse(t, i) ==
    /\ Free
    /\ <<t, i>> \in held
    /\ held' = held \ {<<t, i>>}
    /\ entry' = [entry EXCEPT ![i] = ReadUnlocked(@)]
    /\ UNCHANGED <<up, call, table, sizes, files, index, counts>>

Query(t, u) ==
    /\ Enter(t, u, "check")
    /\ UNCHANGED <<locked, sizes, files, index, counts>>

\* the read lock is taken and given back at once
Answer ==
    /\ at = "check"
    /\ \A i \in Of(want) : CanRead(i)
    /\ Leave
    /\ UNCHANGED <<locked, sizes, files, index, counts>>

NoEntry ==
    /\ at \in {"update", "get"} /\ Of(want) = {}
    /\ Leave
    /\ UNCHANGED <<locked, sizes, files, index, counts>>

-----------------------------------------------------------------------------
(* purge_cache(), the end of the process and the next one.                 *)

\* refused when a body is open; an entry whose read lock was lost stops it
PurgeCache ==
    /\ Free
    /\ held = {}
    /\ LET free == {i \in table : entry[i].readers = 0} IN
       IF free = table
       THEN Remove(table) /\ index' = {} /\ new' = 0
       ELSE (\E S \in SUBSET free : Remove(S)) /\ UNCHANGED <<index, new>>
    /\ UNCHANGED <<up, call, held, total, slack, counts>>

\* atexit(): the destructor, which does not lock the interface
Close(t) ==
    /\ Free
    /\ up' = "closing" /\ iface' = t
    /\ at' = IF StartGC(size) THEN "gc" ELSE "save"
    /\ UNCHANGED <<want, cur, pass, locked, sizes, files, index, counts>>

Crash ==
    /\ up # "down" /\ crashes < MaxCrashes
    /\ crashes' = crashes + 1
    /\ IF at = "index" THEN index' \in CutOff(Snapshot)
       ELSE UNCHANGED index
    /\ Die
    /\ UNCHANGED <<files, born, fails>>

\* The constructor, with force: the index is read.  An index that cannot be
\* opened is taken for empty, and a read that fails for its end; but a line
\* without a hash makes the constructor throw, at this start and at the next.
Restart ==
    /\ up = "down"
    /\ \E lines \in SUBSET index :
          /\ IF lines = index THEN UNCHANGED counts ELSE IOError
          /\ Unreadable \notin lines
          /\ table' = {r.id : r \in lines}
          /\ entry' = [i \in Ids |-> IF i \in table'
                            THEN Unlocked(CHOOSE r \in lines : r.id = i) ELSE Blank]
          /\ size' = Sum(LAMBDA r : r.blocks, lines)
    /\ up' = "open"
    /\ UNCHANGED <<call, held, new, total, slack, files, index>>

-----------------------------------------------------------------------------
Step ==
    \/ RemoveOld \/ NotCacheable \/ WriteBody \/ WriteMetadata
    \/ \E n \in Sizes : CreateLocation(n)
    \/ AddEntry \/ NotCached
    \/ CollectGarbage \/ CollectByHits \/ CollectedEnough
    \/ OpenIndex \/ WriteIndex \/ IndexNotWritten \/ IndexCutOff
    \/ LockForUpdate
    \/ MergeHeaders \/ RewriteMetadata \/ UpdateFails
    \/ LockForReading \/ OpenBody \/ GetFails \/ Answer \/ NoEntry

Call(t) ==
    \/ \E u \in Urls : \/ CacheResponse(t, u) \/ UpdateResponse(t, u)
                       \/ GetCachedResponse(t, u) \/ Query(t, u)
    \/ \E n \in Limits : SetMaxSize(t, n)
    \/ Close(t)

Release(t) == \E i \in Ids : ReleaseCachedResponse(t, i)

Next ==
    \/ Step
    \/ \E t \in Threads : Call(t) \/ Release(t)
    \/ PurgeCache \/ Crash \/ Restart

Spec == Init /\ [][Next]_vars

\* A thread in a call is scheduled, and callers release what they got, as the
\* comment on get_cached_response() demands of them.
FairSpec == Spec /\ WF_vars(Step) /\ \A t \in Threads : WF_vars(Release(t))

-----------------------------------------------------------------------------
(* Properties.                                                             *)

Making(i) == at \in {"body", "meta", "add"} /\ cur = i
Updating(i) == at \in {"merge", "rewrite"} /\ cur = i
Opening(i) == at = "open" /\ cur = i
Undisturbed == fails = 0 /\ crashes = 0
Indexed == {r.id : r \in index}

\* The types of the variables; only a failed update leaves an entry less than
\* no readers (HTTPCache.cc:1369), and never less than -1.
TypeOK ==
    /\ up \in {"open", "closing", "down"}
    /\ iface \in Threads \cup {None}
    /\ at \in {"idle", "remove", "create", "body", "meta", "add", "gc", "hits", "save",
              "index", "update", "merge", "rewrite", "get", "open", "check"}
    /\ want \in Urls \cup {None}
    /\ cur \in Ids \cup {0}
    /\ pass \in 0 .. MaxHits
    /\ table \subseteq Ids
    /\ entry \in [Ids -> Entry] /\ \A i \in Ids : entry[i].readers >= -1
    /\ held \subseteq Threads \X Ids
    /\ {size, new, slack, fails, crashes} \subseteq Nat
    /\ total \in Limits \cup {TotalSize}
    /\ {body, meta} \subseteq [Ids -> {"none", "part", "whole"}]
    /\ index \subseteq Saved
    /\ born \in 0 .. MaxEntries

\* A response that a caller has open stays as it is until he releases it: its
\* entry is in the table, its body and its headers are on disk, nobody updates
\* it, and the entry counts each of those who have it open.  Garbage
\* collection, replacement, update and purge rely on the count and the two
\* locks of the entry (HTTPCacheTable.h:203-240).  Its body is whole unless a
\* write failed: see TornOnlyByFailure.
HeldStays ==
    \A h \in held : LET i == h[2] IN
        /\ i \in table /\ body[i] # "none" /\ meta[i] # "none"
        /\ fails = 0 => body[i] = "whole"
        /\ entry[i].rl /\ ~entry[i].wl /\ ~Updating(i)
        /\ entry[i].readers >= Cardinality(HandlesOf(i))

\* As long as no I/O error and no crash disturb the cache, an entry counts
\* exactly those who have it open or are about to, and is locked exactly when
\* it is read or updated: no call forgets to give a lock back.
ReadersExact ==
    Undisturbed => \A i \in table :
        /\ entry[i].readers = Cardinality(HandlesOf(i)) + (IF Opening(i) THEN 1 ELSE 0)
        /\ entry[i].rl = (entry[i].readers > 0 \/ Updating(i))
        /\ entry[i].wl = Updating(i)

\* d_current_size is the disk space of the entries in the table, across
\* replacements, collections, purges, failures and restarts; garbage collection
\* starts and stops by it (HTTPCacheTable.cc:561-582, 652-669).
SizeExact == size = Blocks(table)

\* However calls interleave and fail, and whatever index is read after a crash,
\* the table has one entry for a URL: the one that a lookup finds first is the
\* one that was stored last.
OnePerUrl ==
    \A i, j \in table : entry[i].url = entry[j].url /\ entry[i].url # None => i = j

\* Without I/O errors and crashes the files on disk are those of the entries in
\* the table and of the one being made: none is missing and none is left over.
\* Between an orderly end and the next start they are those of the index.
DiskMatchesTable ==
    Undisturbed => \A i \in Ids :
        IF i \in (IF up = "down" THEN Indexed ELSE table)
        THEN body[i] = "whole" /\ (meta[i] = "whole" \/ Updating(i))
        ELSE Making(i) \/ (body[i] = "none" /\ meta[i] = "none")

Torn == {i \in table \cup (Indexed \cap Ids) : body[i] = "part"}

\* A crash leaves half a body behind when it strikes write_body(), but as long
\* as no write fails an entry in the table or in the index never has one: its
\* body is whole or gone, whatever crashes, collections and restarts come.
TornOnlyByFailure == fails = 0 => Torn = {}

\* write_body() is said to throw "if an I/O error was detected"
\* (HTTPCache.cc:1060-1063), so that cache_response() adds no entry whose body
\* is not all there.
NoTornBody == Torn = {}

\* As long as no write fails, at most d_new_entries entries are not in the
\* index, and that is at most DUMP_FREQUENCY between calls: this is all that a
\* crash loses, but for one that strikes cache_index_write() itself.
LossBounded ==
    up = "open" /\ at # "index" /\ fails = 0 =>
        /\ Cardinality(table \ Indexed) <= new
        /\ iface = None => new <= DumpFrequency

\* instance() takes force "so that programs may use a cache that was left in an
\* inconsistent state" (HTTPCache.cc:117-119): the index that a process left,
\* whatever its end, can be read.
ForceStarts == up = "down" => Unreadable \notin index

\* The call that has the interface locked waits for a lock of an entry, or
\* collects garbage of which so much is in use that it cannot stop.
Wedged ==
        \/ at \in {"remove", "update"} /\ \E i \in Of(want) : ~CanWrite(i)
        \/ at \in {"get", "check"} /\ \E i \in Of(want) : ~CanRead(i)
        \/ /\ at = "hits"
           /\ Blocks({i \in table : entry[i].readers # 0}) + slack >= total - slack

\* A call that locks the interface unlocks it again, whatever its outcome, but
\* for the two ways to be stuck that Wedged names.
InterfaceFreedOrWedged == iface # None ~> (iface = None \/ Wedged)

\* "HTTPCache is MT-safe" (HTTPCache.cc:107): given that callers release what
\* they got, every call returns, unless it waits for a response that its own
\* thread has open.
InterfaceFreed ==
    iface # None ~> (iface = None \/ \E i \in Of(want) : <<iface, i>> \in held)

\* What HTTPCache promises: its table, its open responses and its index, seen
\* without locks, sizes and files.
Promise == INSTANCE ResponseCache WITH
    cached <- {<<entry[i].url, i>> : i \in {j \in table : entry[j].url # None}},
    open <- {<<h[1], <<entry[h[2]].url, h[2]>>>> : h \in held},
    saved <- {<<r.url, r.id>> : r \in {q \in index : q.url # None}}

\* HTTPCache implements ResponseCache: whatever calls interleave, fail or are cut
\* off by a crash, every step is, for those who call the cache, one of the few
\* that ResponseCache has, or none.
KeepsPromise == Promise!CacheSpec
====
