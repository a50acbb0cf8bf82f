---- MODULE HTTPCacheProofs ----
(***************************************************************************)
(* Proofs about HTTPCache, for any number of threads, URLs, entries,       *)
(* failures and crashes.                                                   *)
(*                                                                         *)
(* Whatever fails, a response that is held stays, a URL has one entry, and *)
(* no entry has half a body: an entry is removed, replaced or updated only *)
(* when it is not locked for reading or counts no readers; and who holds a *)
(* response is counted by its entry, which stays locked as long as the     *)
(* count is not zero.  The sizes play no part in that; on top of it come   *)
(*   - the refinement of ResponseCache,                                    *)
(*   - the size, which is that of the entries in the table,                *)
(*   - what a crash may lose,                                              *)
(*   - the locks and the files, exact as long as nothing fails.            *)
(***************************************************************************)
EXTENDS HTTPCache, FiniteSetTheorems, TLAPS

(* The inductive invariant. *)

Typed ==
    /\ iface \in Threads \cup {None}
    /\ want \in Urls \cup {None} /\ cur \in Ids \cup {0}
    /\ table \subseteq Ids /\ entry \in [Ids -> Entry]
    /\ held \subseteq Threads \X Ids
    /\ body \in [Ids -> {"none", "part", "whole"}]
    /\ meta \in [Ids -> {"none", "part", "whole"}]
    /\ index \subseteq Saved /\ born \in Nat
    /\ up \in {"open", "closing", "down"}

\* A call is going on exactly when the interface is locked.
OneCall == /\ iface = None <=> at = "idle"
           /\ at # "idle" => up # "down"
           /\ at \in {"remove", "create", "body", "meta", "add", "update", "get"} => want \in Urls

\* An entry that is not locked has no readers; only a failed update, which
\* never gives its locks back, leaves it less than none.
LocksAgree ==
    \A i \in table : /\ entry[i].wl => entry[i].rl
                     /\ ~entry[i].rl => entry[i].readers = 0
                     /\ ~entry[i].wl => entry[i].readers >= 0

HeldCounted ==
    /\ IsFiniteSet(held)
    /\ up = "down" => held = {}
    /\ \A h \in held :
          /\ h[2] \in table /\ body[h[2]] # "none" /\ meta[h[2]] # "none"
          /\ entry[h[2]].rl /\ ~entry[h[2]].wl /\ entry[h[2]].url \in Urls
          /\ entry[h[2]].readers >= Cardinality(HandlesOf(h[2]))

\* What each call knows of the entry it works on.
CallKnows ==
    /\ at = "open" =>
          /\ cur \in table /\ entry[cur].rl /\ ~entry[cur].wl /\ entry[cur].url \in Urls
          /\ entry[cur].readers >= Cardinality(HandlesOf(cur)) + 1
    /\ at \in {"merge", "rewrite"} =>
          cur \in table /\ entry[cur].rl /\ entry[cur].wl /\ entry[cur].readers = 0
    /\ at \in {"remove", "create"} => born < MaxEntries
    /\ at \in {"create", "body", "meta", "add"} => Of(want) = {}
    /\ at \in {"body", "meta", "add"} =>
          /\ cur \in Ids /\ cur <= born /\ cur \notin table
          /\ \A r \in index : r.id # cur
          /\ entry[cur].url = want /\ entry[cur].readers = 0

\* What the table and the index name has been made before.
MadeBefore ==
    /\ \A i \in table : i <= born
    /\ \A r \in index : r.id <= born

\* The index has one line for a URL and one for an entry; only the line that
\* cannot be read has no entry.
OneInIndex ==
    /\ \A r, q \in index : (r.url = q.url /\ r.url # None) \/ r.id = q.id => r = q
    /\ \A r \in index : r.id = 0 => r = Unreadable

IInv == /\ Typed /\ OneCall /\ LocksAgree /\ HeldCounted /\ CallKnows
        /\ MadeBefore /\ OneInIndex /\ OnePerUrl

-----------------------------------------------------------------------------
(* Facts about the handles of an entry and about the locks.                *)

\* An entry's handles are finitely many, and none exactly when their number is 0.
LEMMA HandlesFinite ==
    ASSUME IsFiniteSet(held), NEW i
    PROVE  /\ IsFiniteSet(HandlesOf(i)) /\ Cardinality(HandlesOf(i)) \in Nat
           /\ HandlesOf(i) = {} <=> Cardinality(HandlesOf(i)) = 0
<1>1. IsFiniteSet(HandlesOf(i))
    BY FS_Subset DEF HandlesOf
<1> QED  BY <1>1, FS_CardinalityType, FS_EmptySet

\* Opening a body adds one handle, to its own entry.
LEMMA HandleAdded ==
    ASSUME IsFiniteSet(held), NEW t, NEW j, held' = held \cup {<<t, j>>}
    PROVE  /\ IsFiniteSet(held')
           /\ Cardinality(HandlesOf(j)') <= Cardinality(HandlesOf(j)) + 1
           /\ <<t, j>> \notin held => Cardinality(HandlesOf(j)') = Cardinality(HandlesOf(j)) + 1
           /\ \A i : i # j => HandlesOf(i)' = HandlesOf(i)
<1>1. IsFiniteSet(held')
    BY FS_AddElement
<1>2. HandlesOf(j)' = HandlesOf(j) \cup {<<t, j>>}
    BY DEF HandlesOf
<1>3. /\ Cardinality(HandlesOf(j)') <= Cardinality(HandlesOf(j)) + 1
      /\ <<t, j>> \notin held => Cardinality(HandlesOf(j)') = Cardinality(HandlesOf(j)) + 1
    <2>1. IsFiniteSet(HandlesOf(j)) /\ Cardinality(HandlesOf(j)) \in Nat
        BY HandlesFinite
    <2>2. Cardinality(HandlesOf(j) \cup {<<t, j>>}) =
            IF <<t, j>> \in HandlesOf(j) THEN Cardinality(HandlesOf(j))
            ELSE Cardinality(HandlesOf(j)) + 1
        BY <2>1, FS_AddElement
    <2>3. <<t, j>> \in HandlesOf(j) => <<t, j>> \in held
        BY DEF HandlesOf
    <2> QED  BY <2>1, <2>2, <2>3, <1>2
<1>4. \A i : i # j => HandlesOf(i)' = HandlesOf(i)
    BY DEF HandlesOf
<1> QED  BY <1>1, <1>3, <1>4

\* A release takes one handle from its own entry.
LEMMA HandleRemoved ==
    ASSUME IsFiniteSet(held), NEW t, NEW j, <<t, j>> \in held, held' = held \ {<<t, j>>}
    PROVE  /\ IsFiniteSet(held')
           /\ Cardinality(HandlesOf(j)') = Cardinality(HandlesOf(j)) - 1
           /\ \A i : i # j => HandlesOf(i)' = HandlesOf(i)
<1>1. IsFiniteSet(held')
    BY FS_RemoveElement
<1>2. HandlesOf(j)' = HandlesOf(j) \ {<<t, j>>} /\ <<t, j>> \in HandlesOf(j)
    BY DEF HandlesOf
<1>3. Cardinality(HandlesOf(j)') = Cardinality(HandlesOf(j)) - 1
    BY <1>2, HandlesFinite, FS_RemoveElement
<1>4. \A i : i # j => HandlesOf(i)' = HandlesOf(i)
    BY DEF HandlesOf
<1> QED  BY <1>1, <1>3, <1>4

\* A blank entry is an entry.
LEMMA BlankEntry == Blank \in Entry /\ Blank.readers = 0 /\ ~Blank.rl /\ ~Blank.wl
<1>1. (CHOOSE u \in Urls : TRUE) \in Urls
    BY UrlsAssumption
<1>2. (CHOOSE n \in Sizes : TRUE) \in Sizes
    BY SizesAssumption
<1>3. 0 \in 0 .. MaxHits
    BY BoundsAssumption
<1> QED  BY <1>1, <1>2, <1>3 DEF Blank, Unlocked, Entry

\* Who holds a response makes its entry count a reader, so an entry without
\* readers, or whose read lock is free, is held by nobody.
LEMMA IdleNotHeld ==
    ASSUME IInv, NEW i \in table, entry[i].readers = 0 \/ ~entry[i].rl \/ entry[i].wl,
           NEW h \in held
    PROVE  h[2] # i
<1> SUFFICES ASSUME h[2] = i PROVE FALSE
    OBVIOUS
<1>1. entry[i].readers = 0 /\ entry[i].readers >= Cardinality(HandlesOf(i))
    BY DEF IInv, HeldCounted
<1>2. HandlesOf(i) = {}
    BY <1>1, HandlesFinite DEF IInv, HeldCounted
<1>3. h \in HandlesOf(i)
    BY DEF HandlesOf
<1> QED  BY <1>2, <1>3

\* Removing entries that nobody has a lock on, or counts as a reader, by a call
\* that works on no entry.
LEMMA RemoveKeeps ==
    ASSUME IInv, NEW S, S \subseteq table,
           \A i \in S : entry[i].readers = 0 \/ ~entry[i].rl, Remove(S),
           UNCHANGED <<held, born>>, index' = index \/ index' = {},
           up' = up, iface' \in Threads \cup {None}, iface' = None <=> at' = "idle",
           at' # "idle" => up # "down",
           at' \in {"idle", "create", "hits", "save"}, at' = "create" => Of(want) \subseteq S,
           want' = want, cur' = cur, 
           at' = "create" => want \in Urls /\ born < MaxEntries
    PROVE  IInv'
<1>1. Typed'
    BY BlankEntry DEF IInv, Typed, Remove
<1>2. OneCall'
    BY DEF OneCall
<1>3. LocksAgree'
    BY DEF IInv, LocksAgree, Remove, Typed
<1>4. HeldCounted'
    <2> SUFFICES ASSUME NEW h \in held
                 PROVE  /\ h[2] \in table' /\ body[h[2]]' # "none" /\ meta[h[2]]' # "none"
                        /\ entry[h[2]]' = entry[h[2]] /\ HandlesOf(h[2])' = HandlesOf(h[2])
        BY DEF IInv, HeldCounted
    <2>1. h[2] \in table /\ h[2] \notin S
        BY IdleNotHeld DEF IInv, HeldCounted
    <2> QED  BY <2>1 DEF IInv, HeldCounted, Typed, Remove, HandlesOf
<1>5. CallKnows'
    BY DEF IInv, CallKnows, Remove, Of, Typed
<1>6. MadeBefore' /\ OneInIndex' /\ OnePerUrl'
    BY DEF IInv, MadeBefore, OneInIndex, OnePerUrl, Remove, Typed, Saved
<1> QED  BY <1>1, <1>2, <1>3, <1>4, <1>5, <1>6 DEF IInv

-----------------------------------------------------------------------------
(* What a write of the index leaves.                                       *)

\* Lines of entries of the table, one for each, and perhaps one that cannot be
\* read.
Lines(L) ==
    /\ L \subseteq Saved
    /\ \A r \in L : \/ r = Unreadable
                    \/ r.id \in table /\ r.url \in {entry[r.id].url, None}
    /\ \A r, q \in L : r.id = q.id => r = q

LEMMA UnreadableLine ==
    Unreadable \in Saved /\ Unreadable.id = 0 /\ Unreadable.url = None /\ 0 \notin Ids
<1>1. Blank.blocks \in Sizes /\ 0 \in 0 .. MaxHits
    BY BlankEntry, BoundsAssumption DEF Entry
<1> QED  BY <1>1 DEF Unreadable, Saved, Ids

\* A whole write leaves the lines of all entries, one that was cut off some.
LEMMA LinesWritten ==
    ASSUME Typed
    PROVE  Lines(Snapshot) /\ Lines({}) /\ \A L \in CutOff(Snapshot) : Lines(L)
<1>1. \A r \in Snapshot : r \in Saved /\ r.id \in table /\ r.url = entry[r.id].url
    BY DEF Typed, Snapshot, Saved, Entry
<1>2. \A r, q \in Snapshot : r.id = q.id => r = q
    BY DEF Snapshot
<1>3. \A L \in SUBSET Snapshot : Lines(L)
    BY <1>1, <1>2 DEF Lines
<1>4. ASSUME NEW r \in Snapshot, NEW R \in SUBSET (Snapshot \ {r}), NEW c \in CutLines(r)
      PROVE  Lines(R \cup {c})
    <2>1. /\ c \in Saved
          /\ c = Unreadable \/ (c.id = r.id /\ c.url \in {r.url, None})
        <3>1. CASE c = Unreadable
            BY <3>1, UnreadableLine
        <3>2. CASE c = [r EXCEPT !.url = None, !.hits = 0]
            <4>1. 0 \in 0 .. MaxHits /\ r \in Saved
                BY <1>1, BoundsAssumption
            <4>2. \A u \in Urls \cup {None}, n \in 0 .. MaxHits :
                    LET q == [r EXCEPT !.url = u, !.hits = n]
                    IN  q \in Saved /\ q.id = r.id /\ q.url = u
                BY <4>1 DEF Saved
            <4> QED  BY <3>2, <4>1, <4>2
        <3>3. ASSUME NEW n \in 0 .. r.hits, c = [r EXCEPT !.hits = n]
              PROVE  c \in Saved /\ c.id = r.id /\ c.url = r.url
            BY <3>3, <1>1, BoundsAssumption DEF Saved
        <3> QED  BY <3>1, <3>2, <3>3 DEF CutLines
    <2>2. \A q \in R : q \in Snapshot /\ q.id # r.id /\ q.id # 0
        BY <1>1, <1>2, UnreadableLine DEF Typed
    <2> QED  BY <2>1, <2>2, <1>1, <1>2, UnreadableLine DEF Lines
<1>5. ASSUME NEW L \in CutOff(Snapshot) PROVE Lines(L)
    <2>1. CASE L \in SUBSET Snapshot
        BY <2>1, <1>3
    <2>2. CASE L \notin SUBSET Snapshot
        <3> DEFINE U == {CutAt(q, Snapshot) : q \in Snapshot}
        <3>2. CutOff(Snapshot) = (SUBSET Snapshot) \cup UNION U
            BY DEF CutOff
        <3>3. L \in UNION U
            <4> HIDE DEF U
            <4> QED  BY <2>2, <1>5, <3>2
        <3>4. PICK T \in U : L \in T
            <4> HIDE DEF U
            <4> QED  BY <3>3
        <3>1. PICK r \in Snapshot : L \in CutAt(r, Snapshot)
            BY <3>4
        <3>5. PICK R \in SUBSET (Snapshot \ {r}), c \in CutLines(r) : L = R \cup {c}
            BY <3>1 DEF CutAt
        <3> QED  BY <3>5, <1>4
    <2> QED  BY <2>1, <2>2
<1> QED  BY <1>3, <1>5

-----------------------------------------------------------------------------
(* The first state and the steps.                                          *)

LEMMA InitIInv == Init => IInv
<1> SUFFICES ASSUME Init PROVE IInv
    OBVIOUS
<1>1. Typed
    BY BlankEntry DEF Init, Typed
<1>2. OneCall /\ LocksAgree /\ CallKnows /\ MadeBefore /\ OneInIndex /\ OnePerUrl
    BY ThreadsAssumption DEF Init, OneCall, LocksAgree, CallKnows, MadeBefore, OneInIndex,
       OnePerUrl
<1>3. HeldCounted
    BY FS_EmptySet DEF Init, HeldCounted
<1> QED  BY <1>1, <1>2, <1>3 DEF IInv

\* A step that moves between calls, or within one that works on no entry, and
\* leaves entries and files as they are.
LEMMA MoveKeeps ==
    ASSUME IInv, UNCHANGED <<locked, files, born>>,
           index' = index \/ Lines(index'),
           up' \in {"open", "closing"}, up # "down",
           iface' \in Threads \cup {None}, iface' = None <=> at' = "idle",
           want' \in Urls \cup {None}, cur' \in Ids \cup {0},
           at' \in {"remove", "update", "get"} => want' \in Urls,
           at' = "remove" => born < MaxEntries,
           at' \in {"idle", "remove", "gc", "hits", "save", "index", "update", "get", "check"}
    PROVE  IInv'
<1>1. /\ index' \subseteq Saved
      /\ \A r \in index' : \/ r \in index
                           \/ r = Unreadable
                           \/ r.id \in table /\ r.url \in {entry[r.id].url, None}
      /\ \A c \in Ids : (\A r \in index : r.id # c) /\ c \notin table => \A r \in index' : r.id # c
    BY UnreadableLine DEF IInv, Typed, Lines
<1>0. OneInIndex'
    BY UnreadableLine DEF IInv, OneInIndex, OnePerUrl, Lines, Typed
<1>2. Typed' /\ OneCall' /\ LocksAgree' /\ CallKnows'
    BY <1>1 DEF IInv, Typed, OneCall, LocksAgree, CallKnows, locked, files
<1>3. \A i : HandlesOf(i)' = HandlesOf(i)
    BY DEF HandlesOf, locked
<1>4. HeldCounted'
    BY <1>3 DEF IInv, HeldCounted, locked, files
<1>5. MadeBefore' /\ OnePerUrl'
    BY <1>1, UnreadableLine DEF IInv, MadeBefore, OnePerUrl, Typed, locked, files
<1> QED  BY <1>0, <1>2, <1>4, <1>5 DEF IInv

\* The process ends, in order or not; the index lists entries of the table.
LEMMA DieKeeps ==
    ASSUME IInv, Die, UNCHANGED <<files, born>>, index' = index \/ Lines(index')
    PROVE  IInv'
<1>1. /\ index' \subseteq Saved
      /\ \A r \in index' : \/ r \in index
                           \/ r = Unreadable
                           \/ r.id \in table /\ r.url \in {entry[r.id].url, None}
      /\ \A c \in Ids : (\A r \in index : r.id # c) /\ c \notin table => \A r \in index' : r.id # c
    BY UnreadableLine DEF IInv, Typed, Lines
<1>0. OneInIndex'
    BY UnreadableLine DEF IInv, OneInIndex, OnePerUrl, Lines, Typed
<1>2. Typed'
    BY <1>1, BlankEntry DEF IInv, Typed, Die, Ended, files
<1>3. OneCall' /\ LocksAgree' /\ CallKnows' /\ OnePerUrl'
    BY DEF OneCall, LocksAgree, CallKnows, OnePerUrl, Die, Ended
<1>4. HeldCounted'
    BY FS_EmptySet DEF HeldCounted, Die
<1>5. MadeBefore'
    BY <1>1, UnreadableLine DEF IInv, MadeBefore, Typed, Die, files
<1> QED  BY <1>0, <1>2, <1>3, <1>4, <1>5 DEF IInv

\* A step of cache_response() before the entry is in the table: it changes one
\* entry, of which nobody else knows, and its files.
LEMMA MakeKeeps ==
    ASSUME IInv, NEW c \in Ids, c \notin table, \A r \in index : r.id # c,
           table' = table, held' = held, index' = index, up' = up,
           entry' \in [Ids -> Entry], born' \in Nat, born <= born',
           body' \in [Ids -> {"none", "part", "whole"}],
           meta' \in [Ids -> {"none", "part", "whole"}],
           \A i \in Ids \ {c} : entry'[i] = entry[i] /\ body'[i] = body[i] /\ meta'[i] = meta[i],
           iface' \in Threads \cup {None}, want' \in Urls \cup {None}, cur' \in Ids \cup {0},
           OneCall', CallKnows'
    PROVE  IInv'
<1>1. Typed'
    BY DEF IInv, Typed
<1>2. \A i \in table : i \in Ids \ {c}
    BY DEF IInv, Typed
<1>3. \A i : HandlesOf(i)' = HandlesOf(i)
    BY DEF HandlesOf
<1>4. LocksAgree' /\ OnePerUrl'
    BY <1>2 DEF IInv, LocksAgree, OnePerUrl
<1>5. HeldCounted'
    BY <1>2, <1>3 DEF IInv, HeldCounted
<1>6. MadeBefore' /\ OneInIndex'
    BY <1>2 DEF IInv, MadeBefore, OneInIndex, Typed, Saved, Ids
<1> QED  BY <1>1, <1>4, <1>5, <1>6 DEF IInv

\* A step that changes the locks, the readers and the hits of an entry in the
\* table, and perhaps its metadata, keeps what is not about them.
LEMMA LockStep ==
    ASSUME IInv, NEW i \in table, NEW e \in Entry, e.url = entry[i].url,
           entry' = [entry EXCEPT ![i] = e],
           UNCHANGED <<up, table, body, index, born>>,
           meta' \in [Ids -> {"none", "part", "whole"}],
           held' \subseteq Threads \X Ids,
           iface' \in Threads \cup {None}, want' \in Urls \cup {None}, cur' \in Ids \cup {0}
    PROVE  /\ Typed' /\ MadeBefore' /\ OneInIndex' /\ OnePerUrl'
           /\ i \in Ids /\ entry[i] \in Entry /\ entry'[i] = e
           /\ \A j \in table \ {i} : entry'[j] = entry[j]
<1>1. i \in Ids /\ entry[i] \in Entry /\ entry'[i] = e /\ \A j \in Ids \ {i} : entry'[j] = entry[j]
    BY DEF IInv, Typed
<1>2. Typed'
    BY <1>1 DEF IInv, Typed
<1>3. \A j \in table : entry'[j].url = entry[j].url
    BY <1>1 DEF IInv, Typed
<1>4. MadeBefore' /\ OneInIndex' /\ OnePerUrl'
    BY <1>3 DEF IInv, MadeBefore, OneInIndex, OnePerUrl
<1> QED  BY <1>1, <1>2, <1>4 DEF IInv, Typed

\* What the operations on locks make of an entry.
LEMMA LockedEntries ==
    ASSUME NEW e \in Entry
    PROVE  /\ WriteLocked(e) \in Entry /\ WriteLocked(e).url = e.url
           /\ WriteLocked(e).readers = e.readers /\ WriteLocked(e).rl /\ WriteLocked(e).wl
           /\ WriteUnlocked(e) \in Entry /\ WriteUnlocked(e).url = e.url
           /\ WriteUnlocked(e).readers = e.readers
           /\ ~WriteUnlocked(e).rl /\ ~WriteUnlocked(e).wl
           /\ ReadLocked(e) \in Entry /\ ReadLocked(e).url = e.url
           /\ ReadLocked(e).readers = e.readers + 1
           /\ ReadLocked(e).rl /\ (ReadLocked(e).wl <=> e.wl)
           /\ ReadUnlocked(e) \in Entry /\ ReadUnlocked(e).url = e.url
           /\ ReadUnlocked(e).readers = e.readers - 1
           /\ (ReadUnlocked(e).rl <=> e.rl /\ e.readers # 1) /\ (ReadUnlocked(e).wl <=> e.wl)
<1>1. e.readers \in Int /\ e.rl \in BOOLEAN
    BY DEF Entry
<1>0. \A n \in Int, b \in BOOLEAN : [e EXCEPT !.readers = n, !.rl = b] \in Entry
    BY DEF Entry
<1>2. ReadUnlocked(e) \in Entry
    <2>1. e.readers - 1 \in Int /\ (e.rl /\ e.readers # 1) \in BOOLEAN
        BY <1>1
    <2>2. ReadUnlocked(e) = [e EXCEPT !.readers = e.readers - 1, !.rl = e.rl /\ e.readers # 1]
        BY DEF ReadUnlocked, Entry
    <2> QED  BY <1>0, <2>1, <2>2
<1>3. /\ ReadUnlocked(e).url = e.url /\ ReadUnlocked(e).readers = e.readers - 1
    BY DEF ReadUnlocked, Entry
<1>4. (ReadUnlocked(e).wl <=> e.wl)
    BY DEF ReadUnlocked, Entry
<1>5. (ReadUnlocked(e).rl <=> e.rl /\ e.readers # 1)
    BY DEF ReadUnlocked, Entry
<1>6. ReadLocked(e) \in Entry
    <2>1. ReadLocked(e) = [e EXCEPT !.readers = e.readers + 1, !.rl = TRUE]
        BY DEF ReadLocked, Entry
    <2>2. e.readers + 1 \in Int /\ TRUE \in BOOLEAN
        BY <1>1
    <2> QED  BY <1>0, <2>1, <2>2
<1>7. /\ ReadLocked(e).url = e.url /\ ReadLocked(e).readers = e.readers + 1 /\ ReadLocked(e).rl
    BY DEF ReadLocked, Entry
<1>8. (ReadLocked(e).wl <=> e.wl)
    BY DEF ReadLocked, Entry
<1> QED  BY <1>2, <1>3, <1>4, <1>5, <1>6, <1>7, <1>8 DEF WriteLocked, WriteUnlocked, Entry

-----------------------------------------------------------------------------
(* The steps of cache_response().                                          *)

LEMMA CreateLocationKeeps ==
    ASSUME IInv, NEW n \in Sizes, CreateLocation(n)
    PROVE  IInv'
<1> DEFINE c == born + 1
           e == [Blank EXCEPT !.url = want, !.blocks = n]
<1>1. c \in Ids /\ c \notin table /\ \A r \in index : r.id # c
    BY BoundsAssumption DEF IInv, Typed, MadeBefore, CallKnows, CreateLocation, Ids, Saved
<1>2. want \in Urls
    BY DEF IInv, OneCall, CreateLocation
<1>3. e \in Entry /\ e.url = want /\ e.readers = 0
    BY <1>2, BlankEntry DEF Entry
<1>4. /\ WriteLocked(e) \in Entry /\ WriteLocked(e).url = want /\ WriteLocked(e).readers = 0
    BY <1>3, LockedEntries
<1>5. /\ entry' \in [Ids -> Entry] /\ entry'[c].url = want /\ entry'[c].readers = 0
      /\ \A i \in Ids \ {c} : entry'[i] = entry[i]
    BY <1>1, <1>4 DEF IInv, Typed, CreateLocation
<1>6. Of(want)' = Of(want)
    BY <1>1, <1>5 DEF IInv, Typed, Of, CreateLocation
<1>7. OneCall' /\ CallKnows'
    BY <1>1, <1>5, <1>6 DEF IInv, Typed, OneCall, CallKnows, CreateLocation, Ids
<1> QED  BY <1>1, <1>5, <1>7, MakeKeeps DEF IInv, Typed, CreateLocation, Ids

LEMMA WriteKeeps ==
    ASSUME IInv, WriteBody \/ WriteMetadata
    PROVE  IInv'
<1>1. cur \in Ids /\ cur \notin table /\ \A r \in index : r.id # cur
    BY DEF IInv, CallKnows, WriteBody, WriteMetadata
<1>2. OneCall' /\ CallKnows'
    <2>1. CASE WriteBody
        BY <2>1 DEF IInv, Typed, OneCall, CallKnows, WriteBody, Goto, Of, locked, counts,
           Closed, IOError
    <2>2. CASE WriteMetadata
        BY <2>2 DEF IInv, Typed, OneCall, CallKnows, WriteMetadata, Goto, Of, locked, counts,
           Closed, IOError
    <2> QED  BY <2>1, <2>2
<1> QED
    BY <1>1, <1>2, MakeKeeps
       DEF IInv, Typed, WriteBody, WriteMetadata, Goto, locked, Closed, counts, IOError

LEMMA NotCachedKeeps ==
    ASSUME IInv, NotCached, up # "down"
    PROVE  IInv'
<1>1. CASE at = "create"
    BY <1>1, MoveKeeps DEF NotCached, IOError, Leave, Ended, locked, IInv, Typed
<1>2. CASE at \in {"body", "meta"}
    <2>1. cur \in Ids /\ cur \notin table /\ \A r \in index : r.id # cur
        BY <1>2 DEF IInv, CallKnows
    <2>2. OneCall' /\ CallKnows'
        BY DEF OneCall, CallKnows, NotCached, Leave, Ended
    <2> QED
        BY <1>2, <2>1, <2>2, BlankEntry, MakeKeeps DEF IInv, Typed, NotCached, Leave, Ended, IOError
<1> QED  BY <1>1, <1>2 DEF NotCached

LEMMA AddEntryKeeps ==
    ASSUME IInv, AddEntry
    PROVE  IInv'
<1>1. /\ at = "add" /\ cur \in Ids /\ cur <= born /\ cur \notin table
      /\ \A r \in index : r.id # cur
      /\ entry[cur].url = want /\ entry[cur].readers = 0 /\ Of(want) = {} /\ entry[cur] \in Entry
    BY DEF IInv, Typed, CallKnows, AddEntry
<1>2. /\ entry' \in [Ids -> Entry] /\ entry'[cur].url = want /\ entry'[cur].readers = 0
      /\ ~entry'[cur].rl /\ ~entry'[cur].wl
      /\ \A i \in table : i # cur /\ i \in Ids /\ entry'[i] = entry[i]
    BY <1>1, LockedEntries DEF IInv, Typed, AddEntry
<1>3. /\ table' = table \cup {cur} /\ UNCHANGED <<held, body, meta, index, born, up>>
      /\ at' \in {"gc", "save", "idle"} /\ iface' \in {iface, None}
      /\ want' \in {want, None} /\ cur' \in {cur, 0} /\ (iface' = None <=> at' = "idle")
    BY <1>1 DEF AddEntry, files, counts, Goto, Leave, Ended, IInv, OneCall
<1>4. Typed' /\ OneCall'
    BY <1>1, <1>2, <1>3 DEF IInv, Typed, OneCall
<1>5. LocksAgree' /\ CallKnows' /\ MadeBefore' /\ OneInIndex'
    BY <1>1, <1>2, <1>3 DEF IInv, LocksAgree, CallKnows, MadeBefore, OneInIndex
<1>6. OnePerUrl'
    BY <1>1, <1>2, <1>3 DEF IInv, OnePerUrl, Of
<1>7. HeldCounted'
    BY <1>1, <1>2, <1>3 DEF IInv, HeldCounted, HandlesOf
<1> QED  BY <1>4, <1>5, <1>6, <1>7 DEF IInv

-----------------------------------------------------------------------------
(* The steps of update_response().                                         *)

\* An entry with a free read lock, or a write lock, is held by nobody: a change
\* of its locks leaves the handles as they are.
LEMMA NotHeldKeeps ==
    ASSUME IInv, NEW i \in table, ~entry[i].rl \/ entry[i].wl,
           \A j \in table \ {i} : entry'[j] = entry[j] /\ meta'[j] = meta[j],
           UNCHANGED <<table, body, held, up>>
    PROVE  HeldCounted'
<1>1. \A h \in held : h[2] \in table \ {i}
    BY IdleNotHeld DEF IInv, HeldCounted
<1>2. \A h \in held : HandlesOf(h[2])' = HandlesOf(h[2])
    BY DEF HandlesOf
<1> QED  BY <1>1, <1>2 DEF IInv, HeldCounted

LEMMA LockForUpdateKeeps ==
    ASSUME IInv, LockForUpdate
    PROVE  IInv'
<1>1. PICK i \in Of(want) : CanWrite(i) /\ entry' = [entry EXCEPT ![i] = WriteLocked(@)] /\ cur' = i
    BY DEF LockForUpdate
<1>2. /\ i \in table /\ i \in Ids /\ entry[i] \in Entry /\ ~entry[i].rl /\ entry[i].readers = 0
      /\ entry' = [entry EXCEPT ![i] = WriteLocked(entry[i])]
    BY <1>1 DEF Of, CanWrite, IInv, LocksAgree, Typed
<1> DEFINE e == WriteLocked(entry[i])
<1>3. /\ e \in Entry /\ e.url = entry[i].url /\ e.readers = 0 /\ e.rl /\ e.wl
      /\ entry' = [entry EXCEPT ![i] = e]
    BY <1>2, LockedEntries
<1>4. /\ Typed' /\ MadeBefore' /\ OneInIndex' /\ OnePerUrl'
      /\ entry'[i] = e /\ \A j \in table \ {i} : entry'[j] = entry[j]
    <2> HIDE DEF e
    <2>1. /\ UNCHANGED <<up, iface, want, table, held, body, meta, index, born>>
          /\ cur' \in Ids \cup {0}
        BY <1>1, <1>2 DEF LockForUpdate, files, counts
    <2>2. /\ meta' \in [Ids -> {"none", "part", "whole"}] /\ held' \subseteq Threads \X Ids
          /\ iface' \in Threads \cup {None} /\ want' \in Urls \cup {None}
        BY <2>1 DEF IInv, Typed
    <2> QED
        BY <1>2, <1>3, <2>1, <2>2, LockStep
<1>5. OneCall' /\ LocksAgree' /\ CallKnows'
    <2> HIDE DEF e
    <2> QED
        BY <1>1, <1>2, <1>3, <1>4 DEF IInv, OneCall, LocksAgree, CallKnows, LockForUpdate
<1>6. HeldCounted'
    BY <1>2, <1>4, NotHeldKeeps DEF LockForUpdate, files
<1> QED  BY <1>4, <1>5, <1>6 DEF IInv

\* The steps that follow: the headers are merged and written, or it fails.
LEMMA UpdateKeeps ==
    ASSUME IInv, MergeHeaders \/ RewriteMetadata \/ UpdateFails
    PROVE  IInv'
<1> DEFINE e == entry'[cur]
<1>1. /\ cur \in table /\ cur \in Ids /\ entry[cur] \in Entry /\ entry[cur].rl /\ entry[cur].wl
      /\ entry[cur].readers = 0 /\ up # "down"
    BY DEF IInv, CallKnows, Typed, OneCall, MergeHeaders, RewriteMetadata, UpdateFails
<1>2. /\ e \in Entry /\ e.url = entry[cur].url /\ entry' = [entry EXCEPT ![cur] = e]
      /\ e.wl => e.rl
      /\ ~e.rl => e.readers = 0
      /\ ~e.wl => e.readers >= 0
      /\ at' = "rewrite" => e.rl /\ e.wl /\ e.readers = 0
    <2>1. CASE MergeHeaders
        BY <2>1, <1>1 DEF MergeHeaders, locked, IInv, Typed
    <2>2. CASE RewriteMetadata
        <3>1. e = WriteUnlocked(entry[cur])
            BY <2>2, <1>1 DEF RewriteMetadata, IInv, Typed
        <3>2. entry' = [entry EXCEPT ![cur] = WriteUnlocked(entry[cur])]
            BY <2>2, <1>1 DEF RewriteMetadata, IInv, Typed
        <3>3. at' = "idle" /\ entry' = [entry EXCEPT ![cur] = e]
            BY <2>2, <3>1, <3>2 DEF RewriteMetadata, Leave, Ended
        <3> HIDE DEF e
        <3> QED  BY <3>1, <3>3, <1>1, LockedEntries
    <2>3. CASE UpdateFails
        <3>1. e = ReadUnlocked(entry[cur])
            BY <2>3, <1>1 DEF UpdateFails, IInv, Typed
        <3>2. entry' = [entry EXCEPT ![cur] = ReadUnlocked(entry[cur])]
            BY <2>3, <1>1 DEF UpdateFails, IInv, Typed
        <3>3. at' = "idle" /\ entry' = [entry EXCEPT ![cur] = e]
            BY <2>3, <3>1, <3>2 DEF UpdateFails, Leave, Ended
        <3> HIDE DEF e
        <3> QED  BY <3>1, <3>3, <1>1, LockedEntries
    <2> QED  BY <2>1, <2>2, <2>3
<1>3. /\ meta' \in [Ids -> {"none", "part", "whole"}]
      /\ \A j \in table \ {cur} : meta'[j] = meta[j]
      /\ UNCHANGED <<up, table, held, body, index, born>>
      /\ \/ at' = "idle" /\ iface' = None /\ want' = None /\ cur' = 0
         \/ at' = "rewrite" /\ iface' = iface /\ want' = want /\ cur' = cur
      /\ iface # None
    BY <1>1 DEF MergeHeaders, RewriteMetadata, UpdateFails, IInv, Typed, OneCall, Goto, Leave,
       Ended, IOError, Closed, locked, files, counts
<1>4. /\ Typed' /\ MadeBefore' /\ OneInIndex' /\ OnePerUrl'
      /\ \A j \in table \ {cur} : entry'[j] = entry[j]
    <2> HIDE DEF e
    <2> QED
        BY <1>1, <1>2, <1>3, LockStep DEF IInv, Typed
<1>5. OneCall' /\ LocksAgree' /\ CallKnows'
    BY <1>1, <1>2, <1>3, <1>4 DEF IInv, OneCall, LocksAgree, CallKnows
<1>6. HeldCounted'
    BY <1>1, <1>3, <1>4, NotHeldKeeps
<1> QED  BY <1>4, <1>5, <1>6 DEF IInv

-----------------------------------------------------------------------------
(* Getting a response and releasing it.                                    *)

LEMMA LockForReadingKeeps ==
    ASSUME IInv, LockForReading
    PROVE  IInv'
<1>1. PICK i \in Of(want) : CanRead(i) /\ entry' = [entry EXCEPT ![i] = ReadLocked(@)] /\ cur' = i
    BY DEF LockForReading
<1>2. /\ i \in table /\ i \in Ids /\ entry[i] \in Entry /\ entry[i].readers \in Int
      /\ ~entry[i].wl /\ entry[i].readers >= 0
      /\ entry' = [entry EXCEPT ![i] = ReadLocked(entry[i])]
    BY <1>1 DEF Of, CanRead, IInv, LocksAgree, Typed, Entry
<1> DEFINE e == ReadLocked(entry[i])
<1>3. /\ e \in Entry /\ e.url = entry[i].url /\ e.readers = entry[i].readers + 1
      /\ e.rl /\ ~e.wl /\ entry' = [entry EXCEPT ![i] = e]
    BY <1>2, LockedEntries
<1> HIDE DEF e
<1>4. /\ UNCHANGED <<up, iface, want, table, held, body, meta, index, born>>
      /\ cur' = i /\ at' = "open" /\ at = "get"
    BY <1>1 DEF LockForReading, files, counts
<1>5. /\ Typed' /\ MadeBefore' /\ OneInIndex' /\ OnePerUrl'
      /\ entry'[i] = e /\ \A j \in table \ {i} : entry'[j] = entry[j]
    <2>1. /\ meta' \in [Ids -> {"none", "part", "whole"}] /\ held' \subseteq Threads \X Ids
          /\ iface' \in Threads \cup {None} /\ want' \in Urls \cup {None} /\ cur' \in Ids \cup {0}
        BY <1>2, <1>4 DEF IInv, Typed
    <2> QED
        BY <1>2, <1>3, <1>4, <2>1, LockStep
<1>6. \A j : HandlesOf(j)' = HandlesOf(j) /\ Cardinality(HandlesOf(j)) \in Nat
    BY <1>4, HandlesFinite DEF HandlesOf, IInv, HeldCounted
<1>7. entry[i].readers >= Cardinality(HandlesOf(i))
    <2>1. CASE HandlesOf(i) = {}
        BY <2>1, <1>2, HandlesFinite DEF IInv, HeldCounted
    <2>2. CASE HandlesOf(i) # {}
        BY <2>2 DEF IInv, HeldCounted, HandlesOf
    <2> QED  BY <2>1, <2>2
<1>8. HeldCounted'
    <2> SUFFICES ASSUME NEW h \in held
                 PROVE  /\ entry'[h[2]].rl /\ ~entry'[h[2]].wl /\ entry'[h[2]].url \in Urls
                        /\ entry'[h[2]].readers >= Cardinality(HandlesOf(h[2]))
        BY <1>4, <1>6 DEF IInv, HeldCounted
    <2>1. CASE h[2] = i
        BY <2>1, <1>2, <1>3, <1>5, <1>6, <1>7 DEF IInv, HeldCounted
    <2>2. CASE h[2] # i
        BY <2>2, <1>5 DEF IInv, HeldCounted
    <2> QED  BY <2>1, <2>2
<1>9. OneCall' /\ LocksAgree' /\ CallKnows'
    <2>1. entry[i].url \in Urls
        BY <1>1, <1>4 DEF Of, IInv, OneCall
    <2> QED
        BY <2>1, <1>2, <1>3, <1>4, <1>5, <1>6, <1>7 DEF IInv, OneCall, LocksAgree, CallKnows
<1> QED  BY <1>5, <1>8, <1>9 DEF IInv

LEMMA OpenBodyKeeps ==
    ASSUME IInv, OpenBody
    PROVE  IInv'
<1> SUFFICES ASSUME NEW i \in Ids, i = cur PROVE IInv'
    BY DEF IInv, CallKnows, Typed, OpenBody
<1> DEFINE e == entry'[i]
<1>1. /\ i \in table /\ i \in Ids /\ entry[i] \in Entry
      /\ entry[i].rl /\ ~entry[i].wl /\ entry[i].readers \in Int
      /\ entry[i].readers >= Cardinality(HandlesOf(i)) + 1
      /\ iface \in Threads /\ body[i] # "none" /\ meta[i] # "none" /\ up # "down"
      /\ entry[i].url \in Urls
    BY DEF IInv, CallKnows, OneCall, MadeBefore, Typed, Entry, OpenBody
<1>2. /\ e \in Entry /\ e.url = entry[i].url /\ e.readers = entry[i].readers
      /\ e.rl /\ ~e.wl /\ entry' = [entry EXCEPT ![i] = e]
    <2>1. entry' = [entry EXCEPT ![i] = [entry[i] EXCEPT !.hits = e.hits]]
          /\ e = [entry[i] EXCEPT !.hits = e.hits] /\ e.hits \in 0 .. MaxHits
        BY <1>1, BoundsAssumption DEF OpenBody, IInv, Typed, Entry
    <2>2. \A n \in 0 .. MaxHits :
             /\ [entry[i] EXCEPT !.hits = n] \in Entry
             /\ [entry[i] EXCEPT !.hits = n].url = entry[i].url
             /\ [entry[i] EXCEPT !.hits = n].readers = entry[i].readers
             /\ [entry[i] EXCEPT !.hits = n].rl /\ ~[entry[i] EXCEPT !.hits = n].wl
        BY <1>1 DEF Entry
    <2> HIDE DEF e
    <2> QED  BY <2>1, <2>2
<1> HIDE DEF e
<1>3. /\ UNCHANGED <<up, table, body, meta, index, born>>
      /\ held' = held \cup {<<iface, i>>}
      /\ at' = "idle" /\ iface' = None /\ want' = None /\ cur' = 0
    BY DEF OpenBody, Leave, Ended, files, counts
<1>4. /\ Typed' /\ MadeBefore' /\ OneInIndex' /\ OnePerUrl'
      /\ entry'[i] = e /\ \A j \in table \ {i} : entry'[j] = entry[j]
    <2>1. /\ meta' \in [Ids -> {"none", "part", "whole"}] /\ held' \subseteq Threads \X Ids
        BY <1>1, <1>3 DEF IInv, Typed
    <2> QED
        BY <1>1, <1>2, <1>3, <2>1, LockStep
<1>5. /\ IsFiniteSet(held')
      /\ Cardinality(HandlesOf(i)') <= Cardinality(HandlesOf(i)) + 1
      /\ \A j : j # i => HandlesOf(j)' = HandlesOf(j)
      /\ Cardinality(HandlesOf(i)') \in Nat /\ Cardinality(HandlesOf(i)) \in Nat
    <2>1. IsFiniteSet(held)
        BY DEF IInv, HeldCounted
    <2>2. /\ IsFiniteSet(held')
          /\ Cardinality(HandlesOf(i)') <= Cardinality(HandlesOf(i)) + 1
          /\ \A j : j # i => HandlesOf(j)' = HandlesOf(j)
        BY <2>1, <1>3, HandleAdded
    <2>3. Cardinality(HandlesOf(i)) \in Nat
        BY <2>1, HandlesFinite
    <2>4. HandlesOf(i)' \in SUBSET held'
        BY DEF HandlesOf
    <2>5. Cardinality(HandlesOf(i)') \in Nat
        BY <2>2, <2>4, FS_Subset, FS_CardinalityType
    <2> QED  BY <2>2, <2>3, <2>5
<1>6. \A h \in held' : \/ h[2] = i
                       \/ h \in held /\ h[2] # i
    BY <1>3
<1>7. HeldCounted'
    <2> SUFFICES ASSUME NEW h \in held'
                 PROVE  /\ h[2] \in table' /\ body'[h[2]] # "none" /\ meta'[h[2]] # "none"
                        /\ entry'[h[2]].rl /\ ~entry'[h[2]].wl /\ entry'[h[2]].url \in Urls
                        /\ entry'[h[2]].readers >= Cardinality(HandlesOf(h[2])')
        BY <1>1, <1>3, <1>5 DEF HeldCounted
    <2>1. CASE h[2] # i
        <3>1. h \in held /\ h[2] \in table \ {i}
            BY <2>1, <1>6 DEF IInv, HeldCounted
        <3>2. entry'[h[2]] = entry[h[2]] /\ HandlesOf(h[2])' = HandlesOf(h[2])
            BY <2>1, <3>1, <1>4, <1>5
        <3> QED  BY <3>1, <3>2, <1>3 DEF IInv, HeldCounted
    <2>2. CASE h[2] = i
        BY <2>2, <1>1, <1>2, <1>3, <1>4, <1>5
    <2> QED  BY <2>1, <2>2
<1>8. OneCall' /\ LocksAgree' /\ CallKnows'
    BY <1>1, <1>2, <1>3, <1>4 DEF IInv, OneCall, LocksAgree, CallKnows
<1> QED  BY <1>4, <1>7, <1>8 DEF IInv

LEMMA ReleaseKeeps ==
    ASSUME IInv, NEW t \in Threads, NEW i \in Ids, ReleaseCachedResponse(t, i)
    PROVE  IInv'
<1> DEFINE e == ReadUnlocked(entry[i])
<1>1. /\ i \in table /\ entry[i] \in Entry /\ entry[i].rl /\ ~entry[i].wl
      /\ entry[i].readers \in Int /\ entry[i].readers >= Cardinality(HandlesOf(i))
      /\ <<t, i>> \in held /\ up = "open" /\ iface = None /\ at = "idle"
      /\ body[i] # "none" /\ meta[i] # "none" /\ entry[i].url \in Urls
    BY DEF IInv, HeldCounted, OneCall, Typed, Entry, ReleaseCachedResponse, Free
<1>2. /\ e \in Entry /\ e.url = entry[i].url /\ e.readers = entry[i].readers - 1
      /\ (e.rl <=> entry[i].readers # 1) /\ ~e.wl
      /\ entry' = [entry EXCEPT ![i] = e]
    BY <1>1, LockedEntries DEF ReleaseCachedResponse
<1> HIDE DEF e
<1>3. /\ UNCHANGED <<up, iface, at, want, cur, table, body, meta, index, born>>
      /\ held' = held \ {<<t, i>>}
    BY DEF ReleaseCachedResponse, call, files, counts
<1>4. /\ Typed' /\ MadeBefore' /\ OneInIndex' /\ OnePerUrl'
      /\ entry'[i] = e /\ \A j \in table \ {i} : entry'[j] = entry[j]
    <2>1. /\ meta' \in [Ids -> {"none", "part", "whole"}] /\ held' \subseteq Threads \X Ids
          /\ iface' \in Threads \cup {None} /\ want' \in Urls \cup {None} /\ cur' \in Ids \cup {0}
        BY <1>1, <1>3 DEF IInv, Typed
    <2> QED
        BY <1>1, <1>2, <1>3, <2>1, LockStep
<1>5. /\ IsFiniteSet(held')
      /\ Cardinality(HandlesOf(i)') = Cardinality(HandlesOf(i)) - 1
      /\ \A j : j # i => HandlesOf(j)' = HandlesOf(j)
      /\ Cardinality(HandlesOf(i)) \in Nat /\ Cardinality(HandlesOf(i)') \in Nat
      /\ Cardinality(HandlesOf(i)') = 0 => HandlesOf(i)' = {}
    <2>1. IsFiniteSet(held)
        BY DEF IInv, HeldCounted
    <2>2. /\ IsFiniteSet(held')
          /\ Cardinality(HandlesOf(i)') = Cardinality(HandlesOf(i)) - 1
          /\ \A j : j # i => HandlesOf(j)' = HandlesOf(j)
        BY <2>1, <1>1, <1>3, HandleRemoved
    <2>3. Cardinality(HandlesOf(i)) \in Nat
        BY <2>1, HandlesFinite
    <2>4. HandlesOf(i)' \in SUBSET held'
        BY DEF HandlesOf
    <2>5. IsFiniteSet(HandlesOf(i)')
        BY <2>2, <2>4, FS_Subset
    <2> QED  BY <2>2, <2>3, <2>5, FS_CardinalityType, FS_EmptySet
<1>6. entry[i].readers >= 1
    <2>1. <<t, i>> \in HandlesOf(i)
        BY <1>1 DEF HandlesOf
    <2>2. Cardinality(HandlesOf(i)) # 0
        BY <2>1, HandlesFinite DEF IInv, HeldCounted
    <2> QED  BY <1>1, <1>5, <2>2
<1>7. \A h \in held' : h \in held /\ (h[2] = i => h \in HandlesOf(i)')
    BY <1>3 DEF HandlesOf
<1>8. HeldCounted'
    <2> SUFFICES ASSUME NEW h \in held'
                 PROVE  /\ h[2] \in table' /\ body'[h[2]] # "none" /\ meta'[h[2]] # "none"
                        /\ entry'[h[2]].rl /\ ~entry'[h[2]].wl /\ entry'[h[2]].url \in Urls
                        /\ entry'[h[2]].readers >= Cardinality(HandlesOf(h[2])')
        BY <1>1, <1>3, <1>5 DEF HeldCounted
    <2>1. CASE h[2] # i
        BY <2>1, <1>3, <1>4, <1>5, <1>7 DEF IInv, HeldCounted
    <2>2. CASE h[2] = i
        <3>1. Cardinality(HandlesOf(i)') # 0
            BY <2>2, <1>5, <1>7
        <3>2. entry[i].readers >= 2
            BY <3>1, <1>1, <1>5
        <3> QED  BY <2>2, <3>2, <1>1, <1>2, <1>3, <1>4, <1>5
    <2> QED  BY <2>1, <2>2
<1>9. OneCall' /\ LocksAgree' /\ CallKnows'
    BY <1>1, <1>2, <1>3, <1>4, <1>6 DEF IInv, OneCall, LocksAgree, CallKnows
<1> QED  BY <1>4, <1>8, <1>9 DEF IInv

-----------------------------------------------------------------------------
(* The next process reads the index.                                       *)

LEMMA RestartKeeps ==
    ASSUME IInv, Restart
    PROVE  IInv'
<1>0. PICK lines \in SUBSET index :
          /\ Unreadable \notin lines
          /\ table' = {r.id : r \in lines}
          /\ entry' = [i \in Ids |-> IF i \in table'
                            THEN Unlocked(CHOOSE r \in lines : r.id = i) ELSE Blank]
    BY DEF Restart
<1> DEFINE saved(i) == CHOOSE r \in lines : r.id = i
<1>1. /\ table' = {r.id : r \in lines} /\ table' \subseteq Ids
      /\ \A i \in table' : saved(i) \in lines /\ saved(i).id = i /\ saved(i) \in Saved
    BY <1>0 DEF IInv, Typed, Saved, OneInIndex
<1>2. \A i \in table' : Unlocked(saved(i)) \in Entry
    <2>1. \A r \in Saved : Unlocked(r) \in Entry
        BY DEF Unlocked, Entry, Saved
    <2> QED  BY <1>1, <2>1
<1>3. /\ entry' = [i \in Ids |-> IF i \in table' THEN Unlocked(saved(i)) ELSE Blank]
      /\ UNCHANGED <<iface, at, want, cur, held, body, meta, index, born>>
      /\ up = "down" /\ up' = "open"
    BY <1>0 DEF Restart, call, files, counts, IOError
<1> HIDE DEF saved
<1>4. /\ entry' \in [Ids -> Entry]
      /\ \A i \in table' : /\ entry'[i] = Unlocked(saved(i))
                           /\ entry'[i].url = saved(i).url /\ entry'[i].readers = 0
                           /\ ~entry'[i].rl /\ ~entry'[i].wl
    BY <1>1, <1>2, <1>3, BlankEntry DEF Unlocked
<1>5. Typed' /\ OneCall'
    BY <1>1, <1>3, <1>4 DEF IInv, Typed, OneCall
<1>6. LocksAgree'
    BY <1>4 DEF LocksAgree
<1>7. HeldCounted'
    BY <1>3 DEF IInv, HeldCounted
<1>8. CallKnows'
    BY <1>3 DEF IInv, OneCall, CallKnows
<1>9. MadeBefore' /\ OneInIndex'
    BY <1>1, <1>3 DEF IInv, MadeBefore, OneInIndex
<1>10. OnePerUrl'
    BY <1>1, <1>4 DEF IInv, OneInIndex, OnePerUrl
<1> QED  BY <1>5, <1>6, <1>7, <1>8, <1>9, <1>10 DEF IInv

-----------------------------------------------------------------------------
(* Every step keeps the invariant.                                         *)

LEMMA StepKeeps == IInv /\ Step => IInv'
<1> SUFFICES ASSUME IInv, Step PROVE IInv'
    OBVIOUS
<1>0. /\ at # "idle" /\ iface # None /\ up # "down" /\ iface \in Threads
      /\ up \in {"open", "closing"} /\ want \in Urls \cup {None} /\ cur \in Ids \cup {0}
    BY DEF IInv, OneCall, Typed, Step, RemoveOld, NotCacheable, WriteBody, WriteMetadata,
       CreateLocation, AddEntry, NotCached, CollectGarbage, CollectByHits, CollectedEnough,
       OpenIndex, WriteIndex, IndexNotWritten, IndexCutOff, LockForUpdate, MergeHeaders, RewriteMetadata,
       UpdateFails, LockForReading, OpenBody, GetFails, Answer, NoEntry
<1>1. CASE RemoveOld
    <2>1. Of(want) \subseteq table /\ \A i \in Of(want) : ~entry[i].rl
        BY <1>1 DEF RemoveOld, CanWrite, Of
    <2> QED  BY <1>0, <1>1, <2>1, RemoveKeeps DEF RemoveOld, Goto, counts, IInv, OneCall, CallKnows
<1>20. Lines(Snapshot) /\ Lines({}) /\ \A L \in CutOff(Snapshot) : Lines(L)
    BY LinesWritten DEF IInv
<1>2. CASE NotCacheable \/ CollectedEnough \/ Answer \/ NoEntry \/ OpenIndex
    BY <1>0, <1>2, <1>20, MoveKeeps
       DEF NotCacheable, CollectedEnough, Answer, NoEntry, OpenIndex, Goto, Leave, Ended, counts
<1>3. CASE \E n \in Sizes : CreateLocation(n)
    BY <1>3, CreateLocationKeeps
<1>4. CASE WriteBody \/ WriteMetadata
    BY <1>4, WriteKeeps
<1>5. CASE AddEntry
    BY <1>5, AddEntryKeeps
<1>6. CASE NotCached
    BY <1>0, <1>6, NotCachedKeeps
<1>7. CASE CollectGarbage
    <2>1. PICK S \in SUBSET table : Remove(S) /\ \A i \in S : entry[i].readers = 0
        BY <1>7 DEF CollectGarbage
    <2> QED  BY <1>0, <1>7, <2>1, RemoveKeeps DEF CollectGarbage, counts
<1>8. CASE CollectByHits
    <2>1. PICK S \in SUBSET table : Remove(S) /\ \A i \in S : entry[i].readers = 0
        BY <1>8 DEF CollectByHits
    <2> QED  BY <1>0, <1>8, <2>1, RemoveKeeps DEF CollectByHits, counts
<1>9. CASE WriteIndex
    <2>1. CASE up = "closing"
        BY <2>1, <1>9, <1>20, DieKeeps DEF WriteIndex, counts
    <2>2. CASE up # "closing"
        BY <2>2, <1>0, <1>9, <1>20, MoveKeeps DEF WriteIndex, Leave, Ended, counts
    <2> QED  BY <2>1, <2>2
<1>10. CASE IndexNotWritten
    <2>1. CASE up = "closing"
        BY <2>1, <1>10, DieKeeps DEF IndexNotWritten, IOError
    <2>2. CASE up # "closing"
        BY <2>2, <1>0, <1>10, MoveKeeps DEF IndexNotWritten, IOError, Leave, Ended
    <2> QED  BY <2>1, <2>2
<1>16. CASE IndexCutOff
    <2>1. CASE up = "closing"
        BY <2>1, <1>16, <1>20, DieKeeps DEF IndexCutOff, IOError
    <2>2. CASE up # "closing"
        BY <2>2, <1>0, <1>16, <1>20, MoveKeeps DEF IndexCutOff, IOError, Leave, Ended
    <2> QED  BY <2>1, <2>2
<1>11. CASE LockForUpdate
    BY <1>11, LockForUpdateKeeps
<1>12. CASE MergeHeaders \/ RewriteMetadata \/ UpdateFails
    BY <1>12, UpdateKeeps
<1>13. CASE LockForReading
    BY <1>13, LockForReadingKeeps
<1>14. CASE OpenBody
    BY <1>14, OpenBodyKeeps
<1>15. CASE GetFails
    BY <1>0, <1>15, MoveKeeps DEF GetFails, IOError, Leave, Ended, counts
<1> QED
    BY <1>1, <1>2, <1>3, <1>4, <1>5, <1>6, <1>7, <1>8, <1>9, <1>10, <1>11, <1>12, <1>13,
       <1>14, <1>15, <1>16 DEF Step

LEMMA NextKeeps == IInv /\ [Next]_vars => IInv'
<1> SUFFICES ASSUME IInv, [Next]_vars PROVE IInv'
    OBVIOUS
<1>1. CASE Step
    BY <1>1, StepKeeps
<1>2. ASSUME NEW t \in Threads, Call(t) PROVE IInv'
    <2>0. /\ t # None /\ up = "open" /\ iface = None /\ at = "idle"
          /\ want \in Urls \cup {None} /\ cur \in Ids \cup {0}
        BY <1>2, ThreadsAssumption
           DEF Call, CacheResponse, UpdateResponse, GetCachedResponse, Query, SetMaxSize, Close,
               Enter, Free, IInv, OneCall, Typed
    <2>1. ASSUME NEW u \in Urls,
                 CacheResponse(t, u) \/ UpdateResponse(t, u) \/ GetCachedResponse(t, u) \/ Query(t, u)
          PROVE  IInv'
        BY <2>0, <2>1, MoveKeeps
           DEF CacheResponse, UpdateResponse, GetCachedResponse, Query, Enter, counts
    <2>2. ASSUME NEW n \in Limits, SetMaxSize(t, n) PROVE IInv'
        BY <2>0, <2>2, MoveKeeps DEF SetMaxSize, counts
    <2>3. CASE Close(t)
        BY <2>0, <2>3, MoveKeeps DEF Close, counts
    <2> QED  BY <1>2, <2>1, <2>2, <2>3 DEF Call
<1>3. ASSUME NEW t \in Threads, Release(t) PROVE IInv'
    BY <1>3, ReleaseKeeps DEF Release
<1>4. CASE PurgeCache
    <2>1. PICK S \in SUBSET table : Remove(S) /\ \A i \in S : entry[i].readers = 0
        BY <1>4 DEF PurgeCache
    <2>2. up = "open" /\ iface = None /\ at = "idle" /\ iface' \in Threads \cup {None}
        BY <1>4 DEF PurgeCache, Free, call, IInv, OneCall, Typed
    <2> QED  BY <1>4, <2>1, <2>2, RemoveKeeps DEF PurgeCache, call, counts
<1>5. CASE Crash
    <2>1. Lines(index') \/ index' = index
        BY <1>5, LinesWritten DEF Crash, IInv
    <2> QED  BY <1>5, <2>1, DieKeeps DEF Crash
<1>6. CASE Restart
    BY <1>6, RestartKeeps
<1>7. CASE UNCHANGED vars
    <2>1. /\ UNCHANGED <<iface, at, want, cur, up, table, entry, held, body, meta, index, born>>
        BY <1>7 DEF vars, call, locked, files, counts
    <2>2. \A i : HandlesOf(i)' = HandlesOf(i) /\ Of(i)' = Of(i)
        BY <2>1 DEF HandlesOf, Of
    <2>3. HeldCounted'
        BY <2>1, <2>2 DEF IInv, HeldCounted
    <2>4. CallKnows'
        BY <2>1, <2>2 DEF IInv, CallKnows
    <2> QED
        BY <2>1, <2>3, <2>4
           DEF IInv, Typed, OneCall, LocksAgree, MadeBefore, OneInIndex, OnePerUrl
<1> QED
    BY <1>1, <1>2, <1>3, <1>4, <1>5, <1>6, <1>7 DEF Next

-----------------------------------------------------------------------------
(* The theorems.                                                           *)

\* The invariant the others follow from: locks, readers and handles agree, and
\* each call knows what it needs of the entry it works on.
THEOREM Invariance == Spec => []IInv
<1> QED  BY InitIInv, NextKeeps, PTL DEF Spec

\* The table never has two entries of a URL, crashes or not.
THEOREM Unique == Spec => []OnePerUrl
<1>1. IInv => OnePerUrl
    BY DEF IInv
<1> QED  BY <1>1, Invariance, PTL

-----------------------------------------------------------------------------
(* As long as no write fails, what is named is whole, and crashes do not   *)
(* change that: a body is whole before its entry is put into the table,    *)
(* and an index only names what is in the table.                           *)

WholeMade == at \in {"meta", "add"} => body[cur] = "whole"
TInv == /\ IInv /\ fails \in Nat
        /\ fails = 0 => TornOnlyByFailure /\ WholeMade

LEMMA CountersGrow ==
    ASSUME [Next]_vars
    PROVE  fails' \in {fails, fails + 1} /\ crashes' \in {crashes, crashes + 1}
<1>1. CASE Step
    BY <1>1 DEF Step, RemoveOld, NotCacheable, WriteBody, WriteMetadata, CreateLocation,
       AddEntry, NotCached, CollectGarbage, CollectByHits, CollectedEnough, OpenIndex, WriteIndex,
       IndexNotWritten, IndexCutOff, LockForUpdate, MergeHeaders, RewriteMetadata, UpdateFails,
       LockForReading, OpenBody, GetFails, Answer, NoEntry, Closed, IOError, counts
<1>2. CASE PurgeCache \/ Crash \/ Restart \/ UNCHANGED vars \/ \E t \in Threads : Call(t) \/ Release(t)
    BY <1>2 DEF PurgeCache, Crash, Restart, vars, Call, CacheResponse, UpdateResponse, Release,
       GetCachedResponse, Query, SetMaxSize, Close, ReleaseCachedResponse, IOError, counts
<1> QED  BY <1>1, <1>2 DEF Next

\* A step that takes bodies away, or leaves them, and names no more entries.
LEMMA NamesNoMore ==
    ASSUME TInv, IInv', fails = 0, fails' = 0,
           \A i \in Ids : body'[i] \in {body[i], "none"},
           table' \subseteq table \cup Indexed, Indexed' \subseteq Indexed \cup table \cup {0},
           at' \in {"meta", "add"} => UNCHANGED <<at, cur, body>>
    PROVE  TInv'
<1>1. ASSUME NEW i \in Ids, i \in table' \cup (Indexed' \cap Ids) PROVE body'[i] # "part"
    <2>1. i \in table \cup (Indexed \cap Ids)
        BY <1>1 DEF Ids
    <2> QED  BY <2>1 DEF TInv, TornOnlyByFailure, Torn
<1>2. table' \subseteq Ids
    BY DEF IInv, Typed
<1>3. Torn' = {}
    BY <1>1, <1>2 DEF Torn
<1>4. WholeMade'
    BY DEF TInv, WholeMade
<1> QED  BY <1>3, <1>4 DEF TInv, TornOnlyByFailure

LEMMA TornKeeps == TInv /\ [Next]_vars => TInv'
<1> SUFFICES ASSUME TInv, [Next]_vars, IInv', fails \in Nat, fails' \in Nat, IInv,
                    fails = 0, fails' = 0
             PROVE  TInv'
    BY NextKeeps, CountersGrow DEF TInv
<1>0. /\ ~IOError
      /\ \A i \in table \cup (Indexed \cap Ids) : body[i] # "part"
      /\ WholeMade /\ body \in [Ids -> {"none", "part", "whole"}] /\ table \subseteq Ids
    BY DEF IOError, TInv, TornOnlyByFailure, Torn, IInv, Typed
<1>1. ASSUME NEW n \in Sizes, CreateLocation(n) PROVE TInv'
    <2>1. /\ at = "create" /\ at' = "body" /\ UNCHANGED <<table, index>>
          /\ body' = [body EXCEPT ![born + 1] = "part"]
        BY <1>1 DEF CreateLocation
    <2>2. \A i \in table \cup (Indexed \cap Ids) : i <= born
        BY DEF IInv, MadeBefore, Indexed
    <2>3. \A i \in table \cup (Indexed \cap Ids) : body'[i] = body[i]
        BY <1>0, <2>1, <2>2 DEF IInv, Typed, Ids
    <2> QED
        BY <1>0, <2>1, <2>3 DEF TInv, TornOnlyByFailure, Torn, WholeMade, Indexed
<1>2. CASE WriteBody
    <2>1. /\ at' = "meta" /\ UNCHANGED <<table, index, cur>> /\ cur \in Ids
          /\ body' = [body EXCEPT ![cur] = "whole"]
        BY <1>0, <1>2 DEF WriteBody, Closed, Goto, locked, IInv, CallKnows
    <2> QED
        BY <1>0, <2>1 DEF TInv, TornOnlyByFailure, Torn, WholeMade, Indexed
<1>3. CASE WriteMetadata
    <2>1. /\ at = "meta" /\ at' = "add" /\ UNCHANGED <<table, index, cur, body>>
        BY <1>3 DEF WriteMetadata, Goto, locked
    <2> QED
        BY <1>0, <2>1 DEF TInv, TornOnlyByFailure, Torn, WholeMade, Indexed
<1>4. CASE AddEntry
    <2>1. /\ at = "add" /\ at' \notin {"meta", "add"} /\ UNCHANGED <<index, body>>
          /\ table' = table \cup {cur}
        BY <1>4 DEF AddEntry, Goto, Leave, Ended, files
    <2> QED
        BY <1>0, <2>1 DEF TInv, TornOnlyByFailure, Torn, WholeMade, Indexed
<1>5. CASE RemoveOld \/ CollectGarbage \/ CollectByHits \/ PurgeCache
    <2>1. PICK S : Remove(S)
        BY <1>5 DEF RemoveOld, CollectGarbage, CollectByHits, PurgeCache
    <2>2. /\ at' \notin {"meta", "add"} /\ table' \subseteq table /\ index' \in {index, {}}
        BY <1>5, <2>1 DEF RemoveOld, CollectGarbage, CollectByHits, PurgeCache, Remove, Goto, call,
           Free, IInv, OneCall
    <2>3. \A i \in Ids : body'[i] \in {body[i], "none"}
        BY <2>1 DEF Remove
    <2> QED
        BY <2>2, <2>3, NamesNoMore DEF Indexed
<1>6. CASE OpenIndex \/ WriteIndex \/ Crash
    <2>1. /\ at' \notin {"meta", "add"} /\ table' \subseteq table /\ body' = body
          /\ index' = index \/ Lines(index')
        BY <1>6, LinesWritten
           DEF OpenIndex, WriteIndex, Crash, Goto, Leave, Ended, Die, locked, files, IInv
    <2>2. Indexed' \subseteq Indexed \cup table \cup {0}
        BY <2>1, UnreadableLine DEF Lines, Indexed
    <2> QED
        BY <2>1, <2>2, NamesNoMore
<1>7. CASE Restart
    <2>1. /\ at' = at /\ table' \subseteq Indexed /\ UNCHANGED <<body, index, cur>>
        BY <1>7 DEF Restart, call, files, Indexed
    <2> QED
        BY <2>1, NamesNoMore DEF Indexed
<1>8. CASE /\ UNCHANGED <<table, index, body>>
           /\ at' \in {"meta", "add"} => UNCHANGED <<at, cur>>
    BY <1>8, NamesNoMore DEF Indexed
<1>9. CASE Step
    <2>1. CASE \/ NotCacheable \/ CollectedEnough \/ MergeHeaders \/ RewriteMetadata \/ UpdateFails
               \/ GetFails \/ Answer \/ NoEntry \/ LockForUpdate \/ LockForReading \/ OpenBody
        BY <1>8, <2>1 DEF NotCacheable, CollectedEnough, MergeHeaders, RewriteMetadata, UpdateFails,
           GetFails, Answer, NoEntry, LockForUpdate, LockForReading, OpenBody, Goto, Leave, Ended,
           locked, files
    <2>2. ~NotCached /\ ~IndexNotWritten /\ ~IndexCutOff
        BY <1>0 DEF NotCached, IndexNotWritten, IndexCutOff
    <2> QED
        BY <1>9, <1>1, <1>2, <1>3, <1>4, <1>5, <1>6, <2>1, <2>2 DEF Step
<1>10. CASE \E t \in Threads : Call(t) \/ Release(t)
    BY <1>8, <1>10 DEF Call, CacheResponse, UpdateResponse, GetCachedResponse, Query, SetMaxSize,
       Close, Release, ReleaseCachedResponse, Enter, locked, files, call
<1>11. CASE UNCHANGED vars
    BY <1>8, <1>11 DEF vars, call, locked, files
<1> QED  BY <1>5, <1>6, <1>7, <1>9, <1>10, <1>11 DEF Next

\* As long as no write fails, neither the table nor the index ever names half a body,
\* whenever a process dies and whatever the next one reads.
THEOREM Untorn == Spec => [](IInv /\ TornOnlyByFailure)
<1>1. Init => TInv
    BY InitIInv DEF Init, TInv, TornOnlyByFailure, Torn, WholeMade, Indexed
<1>2. TInv => IInv /\ TornOnlyByFailure
    BY DEF TInv, TornOnlyByFailure
<1> QED  BY <1>1, <1>2, TornKeeps, PTL DEF Spec

\* A response that is held stays in the table, locked and counted, until it is
\* released (HTTPCacheTable.h:203-240); and it is whole unless a write failed.
THEOREM Held == Spec => []HeldStays
<1>1. IInv /\ TornOnlyByFailure => HeldStays
    <2> SUFFICES ASSUME IInv, TornOnlyByFailure, NEW h \in held, NEW i, i = h[2]
                 PROVE  /\ i \in table /\ body[i] # "none" /\ meta[i] # "none"
                        /\ fails = 0 => body[i] = "whole"
                        /\ entry[i].rl /\ ~entry[i].wl /\ ~Updating(i)
                        /\ entry[i].readers >= Cardinality(HandlesOf(i))
        BY DEF HeldStays
    <2>1. /\ i \in table /\ body[i] # "none" /\ meta[i] # "none"
          /\ entry[i].rl /\ ~entry[i].wl
          /\ entry[i].readers >= Cardinality(HandlesOf(i))
        BY DEF IInv, HeldCounted
    <2>2. ~Updating(i)
        BY <2>1 DEF IInv, CallKnows, Updating
    <2>3. fails = 0 => body[i] = "whole"
        BY <2>1 DEF TornOnlyByFailure, Torn, IInv, Typed
    <2> QED  BY <2>1, <2>2, <2>3
<1> QED  BY <1>1, Untorn, PTL

-----------------------------------------------------------------------------
(* HTTPCache implements ResponseCache.  Each step maps to one of its steps *)
(* or to none: what removes entries to Drop, AddEntry to Replace, OpenBody *)
(* to Get, what writes the index to Save, and the death of the process to  *)
(* End.                                                                    *)

\* What this needs beside IInv: no thread gets what it has; no process, no table.
Fresh ==
    /\ at = "get" => \A i \in Of(want) : <<iface, i>> \notin held
    /\ at = "open" => <<iface, cur>> \notin held
    /\ up = "down" => table = {}

RInv == IInv /\ Fresh

Response(i) == <<entry[i].url, i>>
Cached == {<<entry[i].url, i>> : i \in {j \in table : entry[j].url # None}}
Open == {<<h[1], <<entry[h[2]].url, h[2]>>>> : h \in held}
Listed == {<<r.url, r.id>> : r \in {q \in index : q.url # None}}

-----------------------------------------------------------------------------
(* Steps that leave the table, or the handles, as they are.                *)

\* Locks, counters and files of the entries are not seen.
LEMMA NotSeen ==
    ASSUME IInv, UNCHANGED <<table, held>>, \A i \in table : entry'[i].url = entry[i].url
    PROVE  Cached' = Cached /\ Open' = Open
<1>1. \A h \in held : h[2] \in table
    BY DEF IInv, HeldCounted
<1> QED  BY <1>1 DEF Cached, Open

\* What is removed is what nobody has open, and nothing else goes.
LEMMA RemoveDrops ==
    ASSUME IInv, NEW S \in SUBSET table, Remove(S), UNCHANGED held,
           \A i \in S : entry[i].readers = 0 \/ ~entry[i].rl
    PROVE  \E D \in SUBSET Cached : Promise!Drop(D)
<1> DEFINE D == {Response(i) : i \in {j \in S : entry[j].url # None}}
<1>1. \A i \in table \ S : entry'[i] = entry[i]
    BY DEF Remove, IInv, Typed
<1>2. \A h \in held : h[2] \in table \ S
    BY IdleNotHeld DEF IInv, HeldCounted
<1>3. table' = table \ S
    BY DEF Remove
<1>4. Cached' = Cached \ D
    BY <1>1, <1>3 DEF Cached, Response
<1>5. Open' = Open
    BY <1>1, <1>2 DEF Open
<1>6. \A o \in Open : o[2] \notin D
    BY <1>2 DEF Open, Response
<1>7. D \in SUBSET Cached
    BY DEF Cached, Response
<1> HIDE DEF D
<1> QED  BY <1>4, <1>5, <1>6, <1>7 DEF Promise!Drop, Promise!Opened, Cached, Open

\* What the index lists is in the table.
LEMMA IndexSaves ==
    ASSUME IInv, Lines(index')
    PROVE  Promise!Save
<1>1. Listed' \subseteq Cached
    BY UnreadableLine DEF Listed, Cached, Lines
<1> QED  BY <1>1 DEF Promise!Save, Listed, Cached

LEMMA DieEnds ==
    ASSUME IInv, Die, index' = index \/ Lines(index')
    PROVE  Promise!End
<1>1. Cached' = {} /\ Open' = {}
    BY DEF Die, Cached, Open
<1>2. Listed' = Listed \/ Promise!Save
    BY IndexSaves DEF Listed
<1> QED  BY <1>1, <1>2 DEF Promise!End, Cached, Open, Listed

-----------------------------------------------------------------------------
(* Steps of calls.                                                         *)

LEMMA AddEntryReplaces ==
    ASSUME IInv, AddEntry
    PROVE  \E e \in Urls \X Ids : Promise!Replace(e)
<1>1. /\ cur \in Ids /\ cur \notin table /\ want \in Urls
      /\ \A r \in index : r.id # cur
      /\ entry[cur].url = want /\ Of(want) = {} /\ entry[cur] \in Entry /\ want # None
    BY UrlsAssumption DEF IInv, Typed, CallKnows, OneCall, AddEntry
<1>2. /\ entry'[cur].url = want
      /\ \A i \in table : i # cur /\ entry'[i] = entry[i]
      /\ table' = table \cup {cur} /\ held' = held
    BY <1>1, LockedEntries DEF IInv, Typed, AddEntry
<1>3. \A h \in held : h[2] \in table
    BY DEF IInv, HeldCounted
<1>4. Cached' = Cached \cup {<<want, cur>>} /\ Open' = Open
    <2>1. {j \in table' : entry'[j].url # None} = {j \in table : entry[j].url # None} \cup {cur}
        BY <1>1, <1>2
    <2>2. Cached' = Cached \cup {<<want, cur>>}
        BY <1>2, <2>1 DEF Cached
    <2> QED  BY <1>2, <1>3, <2>2 DEF Open
<1>5. \A d \in Cached : d[1] # want
    BY <1>1 DEF Cached, Of
<1>6. cur \notin {d[2] : d \in Cached \cup Listed}
    BY <1>1 DEF Cached, Listed
<1>7. <<want, cur>> \in Urls \X Ids /\ <<want, cur>>[1] = want /\ <<want, cur>>[2] = cur
    BY <1>1
<1>8. \A e : e[1] = want /\ e[2] = cur /\ Cached' = Cached \cup {e} => Promise!Replace(e)
    <2> SUFFICES ASSUME NEW e, e[1] = want, e[2] = cur, Cached' = Cached \cup {e}
                 PROVE  Promise!Replace(e)
        OBVIOUS
    <2>1. {d \in Cached : d[1] = e[1]} = {}
        BY <1>5
    <2> QED
        BY <2>1, <1>4, <1>6 DEF Promise!Replace, Promise!InCache, Promise!Opened, Cached, Open, Listed
<1> QED  BY <1>4, <1>7, <1>8

LEMMA OpenBodyGets ==
    ASSUME RInv, OpenBody
    PROVE  \E t \in Threads, e \in Urls \X Ids : Promise!Get(t, e)
<1>1. /\ cur \in table /\ cur \in Ids /\ entry[cur] \in Entry /\ iface \in Threads
      /\ <<iface, cur>> \notin held /\ entry[cur].url \in Urls
    BY DEF RInv, IInv, Fresh, CallKnows, OneCall, Typed, Entry, OpenBody
<1>2. /\ table' = table /\ held' = held \cup {<<iface, cur>>}
      /\ \A i \in table : entry'[i].url = entry[i].url
    BY <1>1 DEF OpenBody, RInv, IInv, Typed, Entry
<1>3. Cached' = Cached
    BY <1>2 DEF Cached
<1>4. \A h \in held : h[2] \in table
    BY DEF RInv, IInv, HeldCounted
<1>5. Open' = Open \cup {<<iface, Response(cur)>>}
    BY <1>1, <1>2, <1>4 DEF Open, Response
<1>6. <<iface, Response(cur)>> \notin Open
    <2> SUFFICES ASSUME NEW h \in held,
                        <<h[1], Response(h[2])>> = <<iface, Response(cur)>>
                 PROVE  FALSE
        BY DEF Open, Response
    <2>1. h[1] = iface /\ h[2] = cur
        BY DEF Response
    <2>2. h = <<h[1], h[2]>>
        BY DEF RInv, IInv, Typed
    <2> QED  BY <2>1, <2>2, <1>1
<1>7. Response(cur) \in Cached /\ Response(cur) \in Urls \X Ids
    BY <1>1, UrlsAssumption DEF Cached, Response
<1> HIDE DEF Response
<1> QED  BY <1>1, <1>3, <1>5, <1>6, <1>7 DEF Promise!Get, Cached, Open

LEMMA ReleaseReleases ==
    ASSUME IInv, NEW t \in Threads, NEW i \in Ids, ReleaseCachedResponse(t, i)
    PROVE  \E e \in Urls \X Ids : Promise!Release(t, e)
<1>1. /\ i \in table /\ <<t, i>> \in held /\ entry[i] \in Entry /\ entry[i].url \in Urls
    BY DEF IInv, HeldCounted, Typed, Entry, ReleaseCachedResponse
<1>2. /\ table' = table /\ held' = held \ {<<t, i>>}
      /\ \A j \in table : entry'[j].url = entry[j].url
    BY <1>1, LockedEntries DEF ReleaseCachedResponse, IInv, Typed
<1>3. Cached' = Cached
    BY <1>2 DEF Cached
<1>4. \A h \in held : h[2] \in table /\ h = <<h[1], h[2]>>
    BY DEF IInv, HeldCounted, Typed
<1>5. Open' = {<<h[1], Response(h[2])>> : h \in held \ {<<t, i>>}}
    BY <1>2, <1>4 DEF Open, Response
<1>6. \A h \in held : <<h[1], Response(h[2])>> = <<t, Response(i)>> => h = <<t, i>>
    BY <1>4 DEF Response
<1>7. Open' = Open \ {<<t, Response(i)>>}
    <2> HIDE DEF Response
    <2> QED
        BY <1>5, <1>6 DEF Open, Response
<1>8. <<t, Response(i)>> \in Open /\ Response(i) \in Urls \X Ids
    BY <1>1 DEF Open, Response
<1> HIDE DEF Response
<1> QED  BY <1>3, <1>7, <1>8 DEF Promise!Release, Cached, Open

LEMMA RestartReads ==
    ASSUME RInv, Restart
    PROVE  Promise!Restart
<1>0. PICK lines \in SUBSET index :
          /\ table' = {r.id : r \in lines} /\ Unreadable \notin lines
          /\ entry' = [i \in Ids |-> IF i \in table'
                            THEN Unlocked(CHOOSE r \in lines : r.id = i) ELSE Blank]
    BY DEF Restart
<1> DEFINE row(i) == CHOOSE r \in lines : r.id = i
<1>1. table = {} /\ held = {} /\ held' = held /\ index' = index
    BY DEF RInv, IInv, Fresh, HeldCounted, Restart
<1>2. \A r \in lines : row(r.id) = r /\ r.id \in Ids
    <2> SUFFICES ASSUME NEW r \in lines PROVE row(r.id) = r /\ r.id \in Ids
        OBVIOUS
    <2>1. row(r.id) \in lines /\ row(r.id).id = r.id
        OBVIOUS
    <2> QED  BY <2>1, <1>0 DEF RInv, IInv, OneInIndex, Typed, Saved
<1>3. \A r \in lines : entry'[r.id] = Unlocked(r)
    BY <1>0, <1>2
<1>4. \A r \in lines : entry'[r.id].url = r.url
    <2>1. \A r : Unlocked(r).url = r.url
        BY DEF Unlocked
    <2> QED  BY <1>3, <2>1
<1>5. Cached' \subseteq Listed
    BY <1>0, <1>4 DEF Cached, Listed
<1>6. Cached = {} /\ Open' = Open /\ Listed' = Listed
    BY <1>1 DEF Cached, Open, Listed
<1> QED  BY <1>5, <1>6 DEF Promise!Restart, Cached, Open, Listed

-----------------------------------------------------------------------------
(* Every step maps to a step, and keeps what was added to the invariant.   *)

\* A step that is none for those who call the cache.
LEMMA Stutters ==
    ASSUME IInv, UNCHANGED <<table, held, index>>,
           \A i \in table : entry'[i].url = entry[i].url
    PROVE  UNCHANGED Promise!cacheVars
<1>1. Listed' = Listed
    BY DEF Listed
<1> QED  BY <1>1, NotSeen DEF Promise!cacheVars, Cached, Open, Listed

LEMMA RemoveMaps ==
    ASSUME IInv, NEW S \in SUBSET table, Remove(S), UNCHANGED held, index' \in {index, {}},
           \A i \in S : entry[i].readers = 0 \/ ~entry[i].rl
    PROVE  Promise!CacheNext
<1>1. PICK D \in SUBSET Cached : Promise!Drop(D)
    BY RemoveDrops
<1>2. Listed' = Listed \/ Promise!Save
    BY IndexSaves, LinesWritten DEF Listed, IInv
<1> QED  BY <1>1, <1>2 DEF Promise!CacheNext, Cached, Listed

LEMMA SaveMaps ==
    ASSUME IInv, UNCHANGED <<table, entry, held>>, Lines(index')
    PROVE  Promise!CacheNext
<1>1. Promise!Save
    BY IndexSaves
<1> QED  BY <1>1 DEF Promise!CacheNext

LEMMA StepMaps ==
    ASSUME RInv, Step
    PROVE  [Promise!CacheNext]_(Promise!cacheVars)
<1>0. IInv /\ up # "down"
    BY DEF RInv, IInv, OneCall, Step, RemoveOld, NotCacheable, WriteBody, WriteMetadata,
       CreateLocation, AddEntry, NotCached, CollectGarbage, CollectByHits, CollectedEnough,
       OpenIndex, WriteIndex, IndexNotWritten, IndexCutOff, LockForUpdate, MergeHeaders, RewriteMetadata,
       UpdateFails, LockForReading, OpenBody, GetFails, Answer, NoEntry
<1>1. CASE RemoveOld
    <2>1. Of(want) \in SUBSET table /\ \A i \in Of(want) : ~entry[i].rl
        BY <1>1 DEF RemoveOld, CanWrite, Of
    <2> QED  BY <1>0, <1>1, <2>1, RemoveMaps DEF RemoveOld
<1>2. CASE NotCacheable \/ WriteBody \/ WriteMetadata \/ CollectedEnough \/ GetFails \/ Answer
           \/ NoEntry
    BY <1>0, <1>2, Stutters
       DEF NotCacheable, WriteBody, WriteMetadata, CollectedEnough, GetFails, Answer, NoEntry, locked
<1>3. CASE (\E n \in Sizes : CreateLocation(n)) \/ NotCached
    <2>1. ASSUME NEW n \in Sizes, CreateLocation(n)
          PROVE  \A i \in table : entry'[i] = entry[i]
        <3>1. \A i \in table : i <= born /\ i \in Ids /\ i # born + 1
            BY <1>0 DEF IInv, MadeBefore, Typed, Ids
        <3> QED  BY <1>0, <2>1, <3>1 DEF CreateLocation, IInv, Typed
    <2>2. NotCached => \A i \in table : entry'[i] = entry[i]
        BY <1>0 DEF NotCached, IInv, CallKnows, Typed
    <2> QED  BY <1>0, <1>3, <2>1, <2>2, Stutters DEF CreateLocation, NotCached
<1>4. CASE AddEntry
    <2>1. UNCHANGED index
        BY <1>4 DEF AddEntry
    <2>2. PICK e \in Urls \X Ids : Promise!Replace(e)
        BY <1>0, <1>4, AddEntryReplaces
    <2> QED  BY <2>1, <2>2 DEF Promise!CacheNext, Promise!Entries
<1>5. CASE CollectGarbage
    <2>1. PICK S \in SUBSET table : Remove(S) /\ \A i \in S : entry[i].readers = 0
        BY <1>5 DEF CollectGarbage
    <2> QED  BY <1>0, <1>5, <2>1, RemoveMaps DEF CollectGarbage
<1>6. CASE CollectByHits
    <2>1. PICK S \in SUBSET table : Remove(S) /\ \A i \in S : entry[i].readers = 0
        BY <1>6 DEF CollectByHits
    <2> QED  BY <1>0, <1>6, <2>1, RemoveMaps DEF CollectByHits
<1>12. Lines(Snapshot) /\ Lines({}) /\ \A L \in CutOff(Snapshot) : Lines(L)
    BY <1>0, LinesWritten DEF IInv
<1>7. CASE OpenIndex
    BY <1>0, <1>7, <1>12, SaveMaps DEF OpenIndex, locked
<1>8. CASE WriteIndex \/ IndexNotWritten \/ IndexCutOff
    <2>0. index' = index \/ Lines(index')
        BY <1>8, <1>12 DEF WriteIndex, IndexNotWritten, IndexCutOff
    <2>1. CASE Die
        BY <1>0, <2>0, <2>1, DieEnds DEF Promise!CacheNext
    <2>2. CASE UNCHANGED locked /\ Lines(index')
        BY <1>0, <2>2, SaveMaps DEF locked
    <2>3. CASE UNCHANGED locked /\ index' = index
        BY <1>0, <2>3, Stutters DEF locked
    <2> QED  BY <1>8, <2>0, <2>1, <2>2, <2>3 DEF WriteIndex, IndexNotWritten, IndexCutOff
<1>9. CASE LockForUpdate \/ LockForReading
    <2>1. \A i \in table : entry[i] \in Entry
        BY <1>0 DEF IInv, Typed
    <2>2. \A i \in table : entry'[i].url = entry[i].url
        BY <1>0, <1>9, <2>1, LockedEntries DEF LockForUpdate, LockForReading, IInv, Typed
    <2> QED  BY <1>0, <1>9, <2>2, Stutters DEF LockForUpdate, LockForReading
<1>10. CASE MergeHeaders \/ RewriteMetadata \/ UpdateFails
    <2>1. \A i \in table : entry[i] \in Entry
        BY <1>0 DEF IInv, Typed
    <2>2. \A i \in table : entry'[i].url = entry[i].url
        BY <1>0, <1>10, <2>1, LockedEntries
           DEF MergeHeaders, RewriteMetadata, UpdateFails, IInv, Typed, locked
    <2> QED  BY <1>0, <1>10, <2>2, Stutters DEF MergeHeaders, RewriteMetadata, UpdateFails, locked
<1>11. CASE OpenBody
    <2>1. UNCHANGED index
        BY <1>11 DEF OpenBody
    <2>2. PICK t \in Threads, e \in Urls \X Ids : Promise!Get(t, e)
        BY <1>11, OpenBodyGets
    <2> QED  BY <2>1, <2>2 DEF Promise!CacheNext, Promise!Entries
<1> QED
    BY <1>1, <1>2, <1>3, <1>4, <1>5, <1>6, <1>7, <1>8, <1>9, <1>10, <1>11 DEF Step

LEMMA NextMaps ==
    ASSUME RInv, [Next]_vars
    PROVE  [Promise!CacheNext]_(Promise!cacheVars)
<1>0. IInv
    BY DEF RInv
<1>1. CASE Step
    BY <1>1, StepMaps
<1>2. ASSUME NEW t \in Threads, Call(t) PROVE UNCHANGED Promise!cacheVars
    <2>1. UNCHANGED <<table, entry, held, index>>
        BY <1>2 DEF Call, CacheResponse, UpdateResponse, GetCachedResponse, Query, SetMaxSize,
           Close, locked
    <2> QED  BY <1>0, <2>1, Stutters
<1>3. ASSUME NEW t \in Threads, Release(t) PROVE Promise!CacheNext
    <2>1. PICK i \in Ids : ReleaseCachedResponse(t, i)
        BY <1>3 DEF Release
    <2>2. PICK e \in Urls \X Ids : Promise!Release(t, e)
        BY <1>0, <2>1, ReleaseReleases
    <2>3. UNCHANGED index
        BY <2>1 DEF ReleaseCachedResponse
    <2> QED  BY <2>2, <2>3 DEF Promise!CacheNext, Promise!Entries
<1>4. CASE PurgeCache
    <2>1. PICK S \in SUBSET table : Remove(S) /\ \A i \in S : entry[i].readers = 0
        BY <1>4 DEF PurgeCache
    <2> QED  BY <1>0, <1>4, <2>1, RemoveMaps DEF PurgeCache
<1>5. CASE Crash
    BY <1>0, <1>5, DieEnds, LinesWritten DEF Crash, IInv, Promise!CacheNext
<1>6. CASE Restart
    BY <1>6, RestartReads DEF Promise!CacheNext
<1>7. CASE UNCHANGED vars
    BY <1>0, <1>7, Stutters DEF vars, locked
<1> QED
    BY <1>1, <1>2, <1>3, <1>4, <1>5, <1>6, <1>7 DEF Next

\* A thread waits to get only what it does not have; a table is a process's.
LEMMA FreshKeeps ==
    ASSUME RInv, [Next]_vars
    PROVE  Fresh'
<1>1. IInv /\ Fresh
    BY DEF RInv
<1>2. CASE Step
    <2>1. at # "idle" /\ up # "down"
        BY <1>1, <1>2 DEF IInv, OneCall, Step, RemoveOld, NotCacheable, WriteBody,
           WriteMetadata, CreateLocation, AddEntry, NotCached, CollectGarbage, CollectByHits,
           CollectedEnough, OpenIndex, WriteIndex, IndexNotWritten, IndexCutOff, LockForUpdate, MergeHeaders,
           RewriteMetadata, UpdateFails, LockForReading, OpenBody, GetFails, Answer, NoEntry
    <2>2. CASE LockForReading
        BY <1>1, <2>1, <2>2 DEF LockForReading, Fresh
    <2>3. CASE Die
        BY <2>3 DEF Die, Ended, Fresh
    <2>4. CASE ~LockForReading /\ ~Die
        <3>1. at' \notin {"get", "open"} /\ up' = up
            BY <1>2, <2>4 DEF Step, RemoveOld, NotCacheable, WriteBody, WriteMetadata,
               CreateLocation, AddEntry, NotCached, CollectGarbage, CollectByHits, CollectedEnough,
               OpenIndex, WriteIndex, IndexNotWritten, IndexCutOff, LockForUpdate, MergeHeaders,
               RewriteMetadata, UpdateFails, OpenBody, GetFails, Answer, NoEntry, Goto, Leave, Ended
        <3> QED  BY <2>1, <3>1 DEF Fresh
    <2> QED  BY <2>2, <2>3, <2>4
<1>3. ASSUME NEW t \in Threads, Call(t) PROVE Fresh'
    <2>1. up = "open" /\ at = "idle"
        BY <1>1, <1>3 DEF Call, CacheResponse, UpdateResponse, GetCachedResponse, Query,
           SetMaxSize, Close, Enter, Free, IInv, OneCall
    <2>2. CASE \E u \in Urls : GetCachedResponse(t, u)
        <3>1. PICK u \in Urls : GetCachedResponse(t, u)
            BY <2>2
        <3>2. /\ iface' = t /\ want' = u /\ at' = "get" /\ up' = "open"
              /\ UNCHANGED <<table, entry, held>>
              /\ \A i \in Of(u) : <<t, i>> \notin held
            BY <2>1, <3>1 DEF GetCachedResponse, Enter, locked
        <3>3. Of(u)' = Of(u)
            BY <3>2 DEF Of
        <3>4. Of(want)' = Of(u)'
            BY <3>2 DEF Of
        <3> QED  BY <3>2, <3>3, <3>4 DEF Fresh
    <2>3. CASE ~\E u \in Urls : GetCachedResponse(t, u)
        BY <1>3, <2>1, <2>3 DEF Call, CacheResponse, UpdateResponse, Query, SetMaxSize, Close,
           Enter, Fresh
    <2> QED  BY <2>2, <2>3
<1>4. CASE PurgeCache \/ \E t \in Threads : Release(t)
    BY <1>1, <1>4 DEF PurgeCache, Release, ReleaseCachedResponse, Free, call, IInv, OneCall, Fresh
<1>5. CASE Crash
    BY <1>5 DEF Crash, Die, Ended, Fresh
<1>6. CASE Restart
    BY <1>1, <1>6 DEF Restart, call, IInv, OneCall, Fresh
<1>7. CASE UNCHANGED vars
    <2>1. UNCHANGED <<up, iface, at, want, cur, table, entry, held>>
        BY <1>7 DEF vars, call, locked
    <2>2. Of(want)' = Of(want)
        BY <2>1 DEF Of
    <2> QED  BY <1>1, <2>1, <2>2 DEF Fresh
<1> QED
    BY <1>2, <1>3, <1>4, <1>5, <1>6, <1>7 DEF Next

-----------------------------------------------------------------------------
\* For those who call it, the cache does what ResponseCache says and no more:
\* a lookup finds the response stored last, one that is open is not let go
\* by any call (HTTPCacheTable.h:203-240), and after a crash a process finds
\* only what was in the cache when the index was written (HTTPCacheTable.cc:401-430).
THEOREM Refinement == Spec => KeepsPromise
<1>1. Init => RInv
    BY InitIInv DEF RInv, Fresh, Init
<1>2. RInv /\ [Next]_vars => RInv'
    BY NextKeeps, FreshKeeps DEF RInv
<1>3. Init => Promise!CacheInit
    BY DEF Init, Promise!CacheInit
<1>4. RInv /\ [Next]_vars => [Promise!CacheNext]_(Promise!cacheVars)
    BY NextMaps
<1> QED  BY <1>1, <1>2, <1>3, <1>4, PTL DEF Spec, KeepsPromise, Promise!CacheSpec

-----------------------------------------------------------------------------
(* The accounts: the size of the cache is that of its entries.             *)

\* The disk blocks of the entries S, each by its entry and its number.
Disk(S) == UNION {{i} \X (1 .. entry[i].blocks) : i \in S}

\* Their size is the number of these.
LEMMA BlocksOfDisk == \A S : Blocks(S) = Cardinality(Disk(S))
BY DEF Blocks, Sum, Disk

\* An entry takes the blocks that it says.
LEMMA DiskOfOne ==
    ASSUME IInv, NEW i \in Ids
    PROVE  /\ entry[i].blocks \in Nat
           /\ IsFiniteSet({i} \X (1 .. entry[i].blocks))
           /\ Cardinality({i} \X (1 .. entry[i].blocks)) = entry[i].blocks
<1>1. entry[i].blocks \in Nat
    <2>1. entry[i] \in Entry
        BY DEF IInv, Typed
    <2>2. entry[i].blocks \in Sizes
        BY <2>1 DEF Entry
    <2> QED  BY <2>2, SizesAssumption
<1> DEFINE n == entry[i].blocks
<1> HIDE DEF n
<1>2. n \in Nat
    BY <1>1 DEF n
<1>3. IsFiniteSet({i}) /\ Cardinality({i}) = 1
    BY FS_Singleton
<1>4. IsFiniteSet(1 .. n) /\ Cardinality(1 .. n) = n
    BY <1>2, FS_Interval
<1>5. /\ IsFiniteSet({i} \X (1 .. n))
      /\ Cardinality({i} \X (1 .. n)) = Cardinality({i}) * Cardinality(1 .. n)
    BY <1>3, <1>4, FS_Product
<1>6. Cardinality({i} \X (1 .. n)) = n
    BY <1>2, <1>3, <1>4, <1>5
<1> QED  BY <1>1, <1>5, <1>6 DEF n

\* What entries take on disk is finite.
LEMMA DiskFinite ==
    ASSUME IInv, NEW S \in SUBSET Ids
    PROVE  IsFiniteSet(Disk(S)) /\ Cardinality(Disk(S)) \in Nat
<1> DEFINE extent(i) == {i} \X (1 .. entry[i].blocks)
           extents == {extent(i) : i \in S}
           f == [i \in S |-> extent(i)]
<1>1. IsFiniteSet(Ids)
    BY FS_Interval, BoundsAssumption DEF Ids
<1>2. IsFiniteSet(S)
    BY <1>1, FS_Subset
<1>3. \A i \in S : IsFiniteSet(extent(i))
    BY DiskOfOne
<1>6. Disk(S) = UNION extents
    BY DEF Disk
<1> HIDE DEF extent
<1>4. IsFiniteSet(extents)
    <2>1. f \in Surjection(S, extents)
        BY DEF Surjection
    <2> QED  BY <1>2, <2>1, FS_Surjection
<1>5. IsFiniteSet(UNION extents)
    BY <1>3, <1>4, FS_UNION
<1> QED  BY <1>5, <1>6, FS_CardinalityType

\* Taking entries from a set takes their blocks from its blocks.
LEMMA DiskSplits ==
    ASSUME IInv, NEW T \in SUBSET Ids, NEW S \in SUBSET T
    PROVE  Cardinality(Disk(T)) = Cardinality(Disk(S)) + Cardinality(Disk(T \ S))
<1>1. Disk(T) = Disk(S) \cup Disk(T \ S)
    BY DEF Disk
<1>2. Disk(S) \cap Disk(T \ S) = {}
    BY DEF Disk
<1>3. /\ IsFiniteSet(Disk(S)) /\ IsFiniteSet(Disk(T \ S))
      /\ Cardinality(Disk(S)) \in Nat /\ Cardinality(Disk(T \ S)) \in Nat
    BY DiskFinite
<1>4. Cardinality(Disk(S) \cup Disk(T \ S)) =
          Cardinality(Disk(S)) + Cardinality(Disk(T \ S)) - Cardinality(Disk(S) \cap Disk(T \ S))
    BY <1>3, FS_Union
<1>5. Cardinality(Disk(S) \cap Disk(T \ S)) = 0
    BY <1>2, FS_EmptySet
<1> QED  BY <1>1, <1>3, <1>4, <1>5

\* A step that leaves the blocks of the entries in the table as they are.
LEMMA SameSize ==
    ASSUME SizeExact, UNCHANGED <<table, size>>,
           \A i \in table : entry'[i].blocks = entry[i].blocks
    PROVE  SizeExact'
<1>1. Disk(table)' = Disk(table)
    BY DEF Disk
<1>2. Blocks(table) = Cardinality(Disk(table)) /\ Blocks(table)' = Cardinality(Disk(table)')
    BY DEF Blocks, Sum, Disk
<1> QED  BY <1>1, <1>2 DEF SizeExact

\* remove_cache_entry() takes from the size what it removes from the table.
LEMMA RemoveCounts ==
    ASSUME IInv, SizeExact, NEW S \in SUBSET table, Remove(S)
    PROVE  SizeExact'
<1>1. table \in SUBSET Ids /\ S \in SUBSET Ids /\ table \ S \in SUBSET Ids
    BY DEF IInv, Typed
<1>2. Cardinality(Disk(table)) = Cardinality(Disk(S)) + Cardinality(Disk(table \ S))
    BY <1>1, DiskSplits
<1>3. Cardinality(Disk(S)) \in Nat /\ Cardinality(Disk(table \ S)) \in Nat
    BY <1>1, DiskFinite
<1>4. size = Cardinality(Disk(table)) /\ Blocks(S) = Cardinality(Disk(S))
    BY BlocksOfDisk DEF SizeExact
<1>5. size' = Cardinality(Disk(table \ S))
    BY <1>2, <1>3, <1>4 DEF Remove
<1>6. table' = table \ S /\ \A i \in table \ S : entry'[i] = entry[i]
    BY <1>1 DEF Remove
<1>7. Disk(table)' = Disk(table \ S)
    BY <1>6 DEF Disk
<1>8. Blocks(table)' = Cardinality(Disk(table)')
    BY DEF Blocks, Sum, Disk
<1> QED  BY <1>5, <1>7, <1>8 DEF SizeExact

\* add_entry_to_cache_table() adds the blocks of the entry that was made.
LEMMA AddCounts ==
    ASSUME IInv, SizeExact, AddEntry
    PROVE  SizeExact'
<1>1. /\ cur \in Ids /\ cur \notin table /\ table \in SUBSET Ids /\ table \cup {cur} \in SUBSET Ids
      /\ {cur} \in SUBSET (table \cup {cur}) /\ (table \cup {cur}) \ {cur} = table
    BY DEF IInv, Typed, CallKnows, AddEntry
<1>2. Cardinality(Disk(table \cup {cur})) = Cardinality(Disk({cur})) + Cardinality(Disk(table))
    BY <1>1, DiskSplits
<1>3. Cardinality(Disk({cur})) = entry[cur].blocks
    BY <1>1, DiskOfOne DEF Disk
<1>4. size = Cardinality(Disk(table)) /\ Cardinality(Disk(table)) \in Nat
      /\ entry[cur].blocks \in Nat
    BY <1>1, BlocksOfDisk, DiskFinite, DiskOfOne DEF SizeExact
<1>5. table' = table \cup {cur} /\ size' = size + entry[cur].blocks
    BY DEF AddEntry
<1>6. \A i \in table \cup {cur} : entry'[i].blocks = entry[i].blocks
    BY <1>1 DEF AddEntry, WriteUnlocked, IInv, Typed, Entry
<1>7. Disk(table)' = Disk(table \cup {cur})
    BY <1>5, <1>6 DEF Disk
<1>8. Blocks(table)' = Cardinality(Disk(table)')
    BY DEF Blocks, Sum, Disk
<1> QED  BY <1>2, <1>3, <1>4, <1>5, <1>7, <1>8 DEF SizeExact

\* Without entries nothing is on disk.
LEMMA EmptyCounts == table = {} /\ size = 0 => SizeExact
<1>1. Disk({}) = {}
    BY DEF Disk
<1> QED  BY <1>1, BlocksOfDisk, FS_EmptySet DEF SizeExact

\* cache_index_read() counts the entries that it puts into the table.
LEMMA RestartCounts ==
    ASSUME IInv, Restart
    PROVE  SizeExact'
<1>0. PICK lines \in SUBSET index :
          /\ table' = {r.id : r \in lines} /\ Unreadable \notin lines
          /\ entry' = [i \in Ids |-> IF i \in table'
                            THEN Unlocked(CHOOSE r \in lines : r.id = i) ELSE Blank]
          /\ size' = Sum(LAMBDA r : r.blocks, lines)
    BY DEF Restart
<1> DEFINE saved(i) == CHOOSE r \in lines : r.id = i
           listed == UNION {{r} \X (1 .. r.blocks) : r \in lines}
           disk == Disk(table)'
           id(x) == <<x[1].id, x[2]>>
           f == [x \in listed |-> id(x)]
<1>1. /\ table' = {r.id : r \in lines} /\ lines \subseteq Saved
      /\ size' = Cardinality(listed) /\ \A r \in lines : r.id \in Ids
    BY <1>0 DEF IInv, Typed, OneInIndex, Saved, Sum
<1>2. \A r \in lines : saved(r.id) = r
    BY DEF IInv, OneInIndex
<1>3. \A r \in lines : entry'[r.id].blocks = r.blocks
    <2> TAKE r \in lines
    <2>1. r.id \in Ids /\ r.id \in table'
        BY <1>1
    <2>2. entry'[r.id] = Unlocked(saved(r.id))
        BY <2>1, <1>0
    <2> HIDE DEF saved
    <2>3. entry'[r.id] = Unlocked(r)
        BY <2>2, <1>2
    <2> QED  BY <2>3 DEF Unlocked
<1>4. disk = {id(x) : x \in listed}
    <2>1. disk = UNION {{i} \X (1 .. entry'[i].blocks) : i \in {r.id : r \in lines}}
        BY <1>1 DEF Disk
    <2>2. disk = UNION {{r.id} \X (1 .. r.blocks) : r \in lines}
        BY <2>1, <1>3
    <2>3. ASSUME NEW y \in disk PROVE \E x \in listed : y = id(x)
        <3>1. PICK r \in lines : y \in {r.id} \X (1 .. r.blocks)
            BY <2>2, <2>3
        <3>2. y = id(<<r, y[2]>>) /\ <<r, y[2]>> \in {r} \X (1 .. r.blocks)
            BY <3>1
        <3> QED  BY <3>2
    <2>4. ASSUME NEW x \in listed PROVE id(x) \in disk
        <3>1. PICK r \in lines : x \in {r} \X (1 .. r.blocks)
            BY <2>4
        <3>2. id(x) \in {r.id} \X (1 .. r.blocks)
            BY <3>1
        <3> HIDE DEF disk, id
        <3> QED  BY <2>2, <3>2
    <2> HIDE DEF disk, listed, id
    <2> QED  BY <2>3, <2>4
<1>5. \A x, y \in listed : id(x) = id(y) => x = y
    BY DEF IInv, OneInIndex
<1> HIDE DEF listed, disk, id
<1>6. f \in Bijection(listed, disk)
    BY <1>4, <1>5 DEF Bijection, Injection, Surjection, IsInjective
<1>7. IsFiniteSet(listed)
    <2> DEFINE g == [r \in lines |-> r.id]
               extent(r) == {r} \X (1 .. r.blocks)
               extents == {extent(r) : r \in lines}
               h == [r \in lines |-> extent(r)]
    <2>1. g \in Injection(lines, Ids)
        BY <1>1 DEF Injection, IsInjective, IInv, OneInIndex, Saved
    <2>2. IsFiniteSet(Ids)
        BY FS_Interval, BoundsAssumption DEF Ids
    <2>3. IsFiniteSet(lines)
        BY <2>1, <2>2, FS_Injection
    <2>4. \A r \in lines : IsFiniteSet(extent(r))
        <3> TAKE r \in lines
        <3>1. r.blocks \in Sizes
            BY <1>1 DEF Saved
        <3>2. \A n \in Sizes : IsFiniteSet(1 .. n)
            BY SizesAssumption, FS_Interval
        <3>3. IsFiniteSet({r}) /\ IsFiniteSet(1 .. r.blocks)
            BY <3>1, <3>2, FS_Singleton
        <3> QED  BY <3>3, FS_Product
    <2>5. listed = UNION extents
        BY DEF listed
    <2> HIDE DEF extent, g
    <2>6. h \in Surjection(lines, extents)
        BY DEF Surjection
    <2>7. IsFiniteSet(extents)
        BY <2>3, <2>6, FS_Surjection
    <2> QED  BY <2>4, <2>5, <2>7, FS_UNION
<1>8. Cardinality(disk) = Cardinality(listed)
    BY <1>6, <1>7, FS_Bijection DEF ExistsBijection
<1>9. Blocks(table)' = Cardinality(disk)
    BY DEF Blocks, Sum, Disk, disk
<1> QED  BY <1>1, <1>8, <1>9 DEF SizeExact

\* Locking an entry and counting its readers is not about its size.
LEMMA LockedBlocks ==
    ASSUME NEW e \in Entry
    PROVE  /\ WriteLocked(e).blocks = e.blocks /\ WriteUnlocked(e).blocks = e.blocks
           /\ ReadLocked(e).blocks = e.blocks /\ ReadUnlocked(e).blocks = e.blocks
           /\ \A n : [e EXCEPT !.hits = n].blocks = e.blocks
BY DEF Entry, WriteLocked, WriteUnlocked, ReadLocked, ReadUnlocked

\* A step that changes one entry: one that is not in the table, or keeps its size.
LEMMA OneEntryCounts ==
    ASSUME IInv, SizeExact, UNCHANGED <<table, size>>,
           NEW i, NEW e, entry' = [entry EXCEPT ![i] = e],
           i \in table => e.blocks = entry[i].blocks
    PROVE  SizeExact'
<1>1. \A j \in table : entry'[j].blocks = entry[j].blocks
    BY DEF IInv, Typed
<1> QED  BY <1>1, SameSize

\* The end of the process forgets the table and the size.
LEMMA DieCounts ==
    ASSUME Die
    PROVE  SizeExact'
<1>1. table' = {} /\ size' = 0
    BY DEF Die
<1>2. Disk(table)' = {} /\ Blocks(table)' = Cardinality(Disk(table)')
    BY <1>1 DEF Blocks, Sum, Disk
<1> QED  BY <1>1, <1>2, FS_EmptySet DEF SizeExact

\* Every step keeps the account.
LEMMA SizeKeeps ==
    ASSUME IInv, SizeExact, [Next]_vars
    PROVE  SizeExact'
<1>0. table \subseteq Ids /\ \A i \in Ids : entry[i] \in Entry
    BY DEF IInv, Typed
<1>1. CASE RemoveOld \/ CollectGarbage \/ CollectByHits \/ PurgeCache
    <2>1. PICK S \in SUBSET table : Remove(S)
        BY <1>1 DEF RemoveOld, CollectGarbage, CollectByHits, PurgeCache, Of
    <2> QED  BY <2>1, RemoveCounts
<1>2. CASE AddEntry
    BY <1>2, AddCounts
<1>3. CASE Die
    BY <1>3, DieCounts
<1>4. CASE Restart
    BY <1>4, RestartCounts
<1>5. CASE UNCHANGED <<table, entry, size>>
    BY <1>5, SameSize
<1>6. CASE \E n \in Sizes : CreateLocation(n)
    <2>1. PICK n \in Sizes : CreateLocation(n)
        BY <1>6
    <2>2. born + 1 \notin table
        BY <2>1 DEF IInv, MadeBefore, Typed, Ids
    <2>3. \A i \in table : entry'[i].blocks = entry[i].blocks
        BY <1>0, <2>1, <2>2 DEF CreateLocation, IInv, Typed
    <2> QED  BY <2>1, <2>3, SameSize DEF CreateLocation, sizes
<1>7. CASE NotCached /\ at \in {"body", "meta"}
    <2>1. cur \notin table /\ entry' = [entry EXCEPT ![cur] = Blank]
        BY <1>7 DEF NotCached, IInv, CallKnows
    <2> QED  BY <1>7, <2>1, OneEntryCounts DEF NotCached, sizes
<1>8. CASE RewriteMetadata \/ UpdateFails
    <2>1. /\ cur \in Ids /\ UNCHANGED <<table, size>>
          /\ \/ entry' = [entry EXCEPT ![cur] = WriteUnlocked(entry[cur])]
             \/ entry' = [entry EXCEPT ![cur] = ReadUnlocked(entry[cur])]
        BY <1>0, <1>8 DEF RewriteMetadata, UpdateFails, IInv, CallKnows, sizes
    <2> QED  BY <1>0, <2>1, LockedBlocks, OneEntryCounts
<1>9. CASE LockForUpdate
    <2>1. PICK i \in Of(want) : entry' = [entry EXCEPT ![i] = WriteLocked(entry[i])]
        BY <1>9 DEF LockForUpdate
    <2>2. i \in Ids /\ UNCHANGED <<table, size>>
        BY <1>0, <1>9 DEF LockForUpdate, Of, sizes
    <2> QED  BY <1>0, <2>1, <2>2, LockedBlocks, OneEntryCounts
<1>10. CASE LockForReading
    <2>1. PICK i \in Of(want) : entry' = [entry EXCEPT ![i] = ReadLocked(entry[i])]
        BY <1>10 DEF LockForReading
    <2>2. i \in Ids /\ UNCHANGED <<table, size>>
        BY <1>0, <1>10 DEF LockForReading, Of, sizes
    <2> QED  BY <1>0, <2>1, <2>2, LockedBlocks, OneEntryCounts
<1>11. CASE OpenBody
    <2>1. cur \in Ids /\ UNCHANGED <<table, size>>
        BY <1>0, <1>11 DEF OpenBody, IInv, CallKnows, sizes
    <2>2. PICK n : entry' = [entry EXCEPT ![cur] = [entry[cur] EXCEPT !.hits = n]]
        BY <1>11 DEF OpenBody
    <2> QED  BY <1>0, <2>1, <2>2, LockedBlocks, OneEntryCounts
<1>12. CASE \E t \in Threads : Release(t)
    <2>1. PICK i \in Ids : entry' = [entry EXCEPT ![i] = ReadUnlocked(entry[i])]
        BY <1>12 DEF Release, ReleaseCachedResponse
    <2>2. UNCHANGED <<table, size>>
        BY <1>12 DEF Release, ReleaseCachedResponse, sizes
    <2> QED  BY <1>0, <2>1, <2>2, LockedBlocks, OneEntryCounts
<1>13. CASE Step
    <2>1. CASE \/ NotCacheable \/ WriteBody \/ WriteMetadata \/ CollectedEnough \/ OpenIndex
               \/ MergeHeaders \/ GetFails \/ Answer \/ NoEntry
        BY <2>1, <1>5 DEF NotCacheable, WriteBody, WriteMetadata, CollectedEnough, OpenIndex,
           MergeHeaders, GetFails, Answer, NoEntry, locked, sizes
    <2>2. CASE WriteIndex \/ IndexNotWritten \/ IndexCutOff \/ (NotCached /\ at = "create")
        BY <2>2, <1>3, <1>5 DEF WriteIndex, IndexNotWritten, IndexCutOff, NotCached, locked, sizes
    <2>3. CASE NotCached
        BY <2>2, <2>3, <1>7 DEF NotCached
    <2> QED  BY <1>13, <1>1, <1>2, <1>6, <1>8, <1>9, <1>10, <1>11, <2>1, <2>2, <2>3 DEF Step
<1>14. CASE \E t \in Threads : Call(t)
    BY <1>14, <1>5 DEF Call, CacheResponse, UpdateResponse, GetCachedResponse, Query, SetMaxSize,
       Close, locked, sizes
<1>15. CASE Crash
    BY <1>15, <1>3 DEF Crash
<1>16. CASE UNCHANGED vars
    BY <1>16, <1>5 DEF vars, locked, sizes
<1> QED  BY <1>1, <1>4, <1>12, <1>13, <1>14, <1>15, <1>16 DEF Next

\* d_current_size is what the entries in the table take on disk, whatever is stored,
\* collected, purged, lost in a crash or read again (HTTPCacheTable.cc:561-582, 652-669).
THEOREM SizeIsExact == Spec => []SizeExact
<1>1. Init => SizeExact
    BY EmptyCounts DEF Init
<1>2. IInv /\ SizeExact /\ [Next]_vars => SizeExact'
    BY SizeKeeps
<1> QED  BY <1>1, <1>2, Invariance, PTL DEF Spec

-----------------------------------------------------------------------------
(* What a crash may lose.                                                  *)

\* The entries that the index does not have.
Unsaved == table \ Indexed

\* What holds as long as no write fails: d_new_entries counts at least the
\* entries that the index does not have, and who ends a call with too many of
\* them has written the index.
Counted ==
    /\ new \in Nat
    /\ at # "index" => Cardinality(Unsaved) <= new
    /\ at \notin {"gc", "hits", "save", "index"} => new <= DumpFrequency

\* Fewer entries, or more of them in the index, are not more to lose.
LEMMA FewerUnsaved ==
    ASSUME IInv, Counted, at # "index", Unsaved' \subseteq Unsaved
    PROVE  Cardinality(Unsaved') <= new
<1>1. IsFiniteSet(Ids)
    BY FS_Interval, BoundsAssumption DEF Ids
<1>2. IsFiniteSet(Unsaved)
    BY <1>1, FS_Subset DEF Unsaved, IInv, Typed
<1>3. /\ Unsaved' \in SUBSET Unsaved
    OBVIOUS
<1>4. IsFiniteSet(Unsaved') /\ Cardinality(Unsaved') <= Cardinality(Unsaved)
    BY <1>2, <1>3, FS_Subset
<1>5. Cardinality(Unsaved') \in Nat /\ Cardinality(Unsaved) \in Nat
    BY <1>2, <1>4, FS_CardinalityType
<1> QED  BY <1>4, <1>5 DEF Counted

\* A new entry is counted; the count is cleared when the index has the table.
LEMMA CountedKeeps ==
    ASSUME IInv, Counted, [Next]_vars, fails = 0, fails' = 0
    PROVE  Counted'
<1>0. /\ DumpFrequency \in Nat
      /\ \A S : S = {} => Cardinality(S) = 0
    BY BoundsAssumption, FS_EmptySet
<1>1. CASE RemoveOld \/ CollectGarbage \/ CollectByHits
    <2>1. /\ Unsaved' \subseteq Unsaved /\ UNCHANGED <<new, fails>>
          /\ \/ at = "remove" /\ at' = "create"
             \/ at \in {"gc", "hits"} /\ at' \in {"hits", "save"}
        BY <1>1 DEF RemoveOld, CollectGarbage, CollectByHits, Remove, Unsaved, Indexed, Goto, counts
    <2> QED  BY <2>1, FewerUnsaved DEF Counted
<1>2. CASE PurgeCache
    <2>0. at = "idle" /\ at' = "idle" /\ fails' = fails
        BY <1>2 DEF PurgeCache, Free, IInv, OneCall, call, counts
    <2>1. CASE new' = 0 /\ index' = {} /\ table' = {}
        BY <1>0, <2>0, <2>1 DEF Counted, Unsaved, Indexed
    <2>2. CASE UNCHANGED <<index, new>> /\ table' \subseteq table
        <3>1. Unsaved' \subseteq Unsaved
            BY <2>2 DEF Unsaved, Indexed
        <3> QED  BY <2>0, <2>2, <3>1, FewerUnsaved DEF Counted
    <2> QED  BY <1>2, <2>1, <2>2 DEF PurgeCache, Remove
<1>3. CASE AddEntry
    <2>1. IsFiniteSet(Ids)
        BY FS_Interval, BoundsAssumption DEF Ids
    <2>2. IsFiniteSet(Unsaved)
        BY <2>1, FS_Subset DEF Unsaved, IInv, Typed
    <2>3. Unsaved' \subseteq Unsaved \cup {cur} /\ new' = new + 1 /\ fails' = fails
        BY <1>3 DEF AddEntry, Unsaved, Indexed, counts
    <2>4. /\ IsFiniteSet(Unsaved \cup {cur})
          /\ Cardinality(Unsaved \cup {cur}) <= Cardinality(Unsaved) + 1
          /\ Cardinality(Unsaved) \in Nat
        BY <2>2, FS_AddElement, FS_CardinalityType
    <2>5. IsFiniteSet(Unsaved') /\ Cardinality(Unsaved') <= Cardinality(Unsaved \cup {cur})
        BY <2>3, <2>4, FS_Subset
    <2>6. Cardinality(Unsaved') \in Nat /\ Cardinality(Unsaved \cup {cur}) \in Nat
        BY <2>4, <2>5, FS_CardinalityType
    <2>7. at = "add" /\ (at' \in {"gc", "save"} \/ new' <= DumpFrequency)
        BY <1>0, <1>3 DEF AddEntry, Goto, Counted
    <2> QED  BY <2>3, <2>4, <2>5, <2>6, <2>7 DEF Counted
<1>4. CASE OpenIndex
    BY <1>4 DEF OpenIndex, Goto, Counted, sizes, counts
<1>5. CASE WriteIndex
    <2>1. index' = Snapshot /\ new' = 0 /\ table' \subseteq table
        BY <1>5 DEF WriteIndex, Die, locked
    <2>2. \A i \in table : \E r \in Snapshot : r.id = i
        <3> TAKE i \in table
        <3> DEFINE r == [id |-> i, url |-> entry[i].url, blocks |-> entry[i].blocks,
                         hits |-> entry[i].hits]
        <3>1. r \in Snapshot /\ r.id = i
            BY DEF Snapshot
        <3> HIDE DEF r
        <3> QED  BY <3>1
    <2>3. Unsaved' = {}
        BY <2>1, <2>2 DEF Unsaved, Indexed
    <2> QED  BY <1>0, <2>1, <2>3 DEF Counted
<1>6. CASE Die
    <2>1. Unsaved' = {} /\ new' = 0
        BY <1>6 DEF Die, Unsaved
    <2> QED  BY <1>0, <2>1 DEF Counted
<1>7. ~IOError
    BY DEF IOError
<1>8. CASE Restart
    <2>1. Unsaved' = {} /\ UNCHANGED <<new, at, fails>>
        BY <1>7, <1>8 DEF Restart, Unsaved, Indexed, call, counts
    <2> QED  BY <1>0, <2>1 DEF Counted
<1>9. ASSUME UNCHANGED <<table, index, new>>, at # "index", fails' \in {fails, fails + 1},
             \/ at' \in {"gc", "hits", "save", "index"}
             \/ at \notin {"gc", "hits", "save", "index"}
      PROVE Counted'
    <2>1. Unsaved' \subseteq Unsaved
        BY <1>9 DEF Unsaved, Indexed
    <2> QED  BY <1>9, <2>1, FewerUnsaved DEF Counted
<1>10. CASE Step
    <2>1. CASE \/ NotCacheable \/ WriteBody \/ WriteMetadata \/ CollectedEnough
               \/ MergeHeaders \/ RewriteMetadata \/ UpdateFails \/ GetFails \/ Answer \/ NoEntry
        BY <2>1, <1>9 DEF NotCacheable, WriteBody, WriteMetadata, CollectedEnough, Closed,
           MergeHeaders, RewriteMetadata, UpdateFails, GetFails, Answer, NoEntry, IOError,
           Goto, locked, sizes, counts
    <2>2. CASE (\E n \in Sizes : CreateLocation(n)) \/ LockForUpdate \/ LockForReading \/ OpenBody
        BY <2>2, <1>9 DEF CreateLocation, LockForUpdate, LockForReading, OpenBody, sizes, counts
    <2>3. ~NotCached /\ ~IndexNotWritten /\ ~IndexCutOff
        BY <1>7 DEF NotCached, IndexNotWritten, IndexCutOff
    <2> QED  BY <1>10, <1>1, <1>3, <1>4, <1>5, <2>1, <2>2, <2>3 DEF Step
<1>11. ASSUME NEW t \in Threads, Call(t) PROVE Counted'
    <2>1. at = "idle" /\ UNCHANGED <<table, index, new, fails>>
        BY <1>11 DEF Call, CacheResponse, UpdateResponse, GetCachedResponse, Query, SetMaxSize,
           Close, Enter, Free, IInv, OneCall, locked, sizes, counts
    <2> QED  BY <2>1, <1>9
<1>12. CASE \E t \in Threads : Release(t)
    <2>1. at = "idle" /\ UNCHANGED <<table, index, new, fails>>
        BY <1>12 DEF Release, ReleaseCachedResponse, Free, IInv, OneCall, sizes, counts
    <2> QED  BY <2>1, <1>9
<1>13. CASE UNCHANGED vars
    <2>1. UNCHANGED <<table, index, new, at, fails>>
        BY <1>13 DEF vars, call, locked, sizes, counts
    <2>2. Unsaved' = Unsaved
        BY <2>1 DEF Unsaved, Indexed
    <2> QED  BY <2>1, <2>2 DEF Counted
<1> QED  BY <1>2, <1>6, <1>8, <1>10, <1>11, <1>12, <1>13 DEF Next, Crash

\* As long as no write fails, a crash loses at most d_new_entries entries, and that is
\* at most DUMP_FREQUENCY between calls (HTTPCache.cc:1213-1218).
THEOREM LossIsBounded == Spec => []LossBounded
<1> DEFINE CInv == fails \in Nat /\ (fails = 0 => Counted)
<1>1. Init => CInv
    <2>1. Init => Unsaved = {}
        BY DEF Init, Unsaved
    <2> QED  BY <2>1, FS_EmptySet, BoundsAssumption DEF Init, Counted
<1>2. IInv /\ CInv /\ [Next]_vars => CInv'
    <2> SUFFICES ASSUME IInv, CInv, [Next]_vars PROVE CInv'
        OBVIOUS
    <2>1. fails' \in Nat /\ (fails' = 0 => fails = 0)
        BY CountersGrow
    <2> QED  BY <2>1, CountedKeeps
<1>3. IInv /\ CInv => LossBounded
    BY DEF IInv, OneCall, Counted, Unsaved, LossBounded
<1> HIDE DEF CInv
<1> QED  BY <1>1, <1>2, <1>3, Invariance, PTL DEF Spec

-----------------------------------------------------------------------------
(* Undisturbed, locks are given back and files come and go with entries.   *)

LockedExactly(i) ==
    /\ entry[i].readers = Cardinality(HandlesOf(i)) + (IF Opening(i) THEN 1 ELSE 0)
    /\ entry[i].rl <=> entry[i].readers > 0 \/ Updating(i)
    /\ entry[i].wl <=> Updating(i)

Here(i) == body[i] = "whole" /\ (meta[i] = "whole" \/ Updating(i))
NotHere(i) == Making(i) \/ (body[i] = "none" /\ meta[i] = "none")

\* What is to be on disk: the table of the process, or the index it left behind.
Kept == IF up = "down" THEN {r.id : r \in index} ELSE table

\* The call that is about to add an entry finds its files whole, one that is about
\* to read its headers finds these whole.
FilesThere ==
    /\ at \in {"meta", "add"} => body[cur] = "whole"
    /\ at = "add" => meta[cur] = "whole"
    /\ at = "merge" => meta[cur] = "whole"

Exact ==
    /\ \A i \in table : LockedExactly(i)
    /\ \A i \in Ids : IF i \in Kept THEN Here(i) ELSE NotHere(i)
    /\ FilesThere

\* Together this is what the properties say, where nothing has disturbed the cache.
LEMMA ExactSaysBoth ==
    ASSUME IInv, Undisturbed => Exact
    PROVE  ReadersExact /\ DiskMatchesTable
<1>1. DiskMatchesTable
    BY DEF Exact, Here, NotHere, Kept, DiskMatchesTable, Indexed
<1>2. \A i \in table : entry[i].rl \in BOOLEAN /\ entry[i].wl \in BOOLEAN
    BY DEF IInv, Typed, Entry
<1>3. ReadersExact
    <2> SUFFICES ASSUME Undisturbed, NEW i \in table
                 PROVE  /\ entry[i].readers = Cardinality(HandlesOf(i)) + (IF Opening(i) THEN 1 ELSE 0)
                        /\ entry[i].rl = (entry[i].readers > 0 \/ Updating(i))
                        /\ entry[i].wl = Updating(i)
        BY DEF ReadersExact
    <2>1. LockedExactly(i)
        BY DEF Exact
    <2>2. Updating(i) \in BOOLEAN
        BY DEF Updating
    <2>3. entry[i].wl = Updating(i)
        BY <1>2, <2>1, <2>2 DEF LockedExactly
    <2>4. entry[i].rl = (entry[i].readers > 0 \/ Updating(i))
        BY <1>2, <2>1, <2>2 DEF LockedExactly
    <2> QED  BY <2>1, <2>3, <2>4 DEF LockedExactly
<1> QED  BY <1>1, <1>3

\* Where a call works on no entry.
Quiet == {"idle", "remove", "create", "gc", "hits", "save", "index", "update", "get", "check"}

\* A step between states in which no call works on an entry, that leaves what is
\* in the table, and on disk, as it is.
LEMMA QuietKeepsExact ==
    ASSUME IInv, Exact, UNCHANGED <<locked, files>>, at \in Quiet, at' \in Quiet,
           up # "down", up' # "down"
    PROVE  Exact'
<1>1. \A i : HandlesOf(i)' = HandlesOf(i)
    BY DEF HandlesOf, locked
<1>2. \A i : ~Opening(i) /\ ~Updating(i) /\ ~Making(i)
             /\ ~Opening(i)' /\ ~Updating(i)' /\ ~Making(i)'
    BY DEF Quiet, Opening, Updating, Making
<1>3. \A i \in table : LockedExactly(i) => LockedExactly(i)'
    BY <1>1, <1>2 DEF LockedExactly, locked
<1>4. Kept' = Kept /\ \A i \in Ids : (Here(i) => Here(i)') /\ (NotHere(i) => NotHere(i)')
    BY <1>2 DEF Kept, Here, NotHere, locked, files
<1>5. FilesThere'
    BY DEF FilesThere, Quiet
<1> QED  BY <1>3, <1>4, <1>5 DEF Exact, locked

\* What leaves the table leaves the disk.
LEMMA RemoveKeepsExact ==
    ASSUME IInv, Exact, NEW S \in SUBSET table, Remove(S), held' = held,
           at \in Quiet, at' \in Quiet, up # "down", up' # "down"
    PROVE  Exact'
<1>1. \A i : HandlesOf(i)' = HandlesOf(i)
    BY DEF HandlesOf
<1>2. \A i : ~Opening(i) /\ ~Updating(i) /\ ~Making(i)
             /\ ~Opening(i)' /\ ~Updating(i)' /\ ~Making(i)'
    BY DEF Quiet, Opening, Updating, Making
<1>3. /\ table \subseteq Ids /\ table' = table \ S
      /\ \A i \in Ids \ S : entry'[i] = entry[i] /\ body'[i] = body[i] /\ meta'[i] = meta[i]
      /\ \A i \in S : body'[i] = "none" /\ meta'[i] = "none"
    BY DEF Remove, IInv, Typed
<1>4. \A i \in table' : LockedExactly(i)'
    BY <1>1, <1>2, <1>3 DEF Exact, LockedExactly
<1>5. \A i \in Ids : IF i \in Kept' THEN Here(i)' ELSE NotHere(i)'
    BY <1>2, <1>3 DEF Exact, Kept, Here, NotHere
<1>6. FilesThere'
    BY DEF FilesThere, Quiet
<1> QED  BY <1>4, <1>5, <1>6 DEF Exact

\* A step of a call that works on one entry, c, before and after it.
LEMMA OneEntryExact ==
    ASSUME IInv, Exact, NEW c \in Ids, UNCHANGED <<up, index>>, up # "down",
           \A i : i # c => ~Opening(i) /\ ~Updating(i) /\ ~Making(i),
           \A i : i # c => ~Opening(i)' /\ ~Updating(i)' /\ ~Making(i)',
           \A i : i # c => HandlesOf(i)' = HandlesOf(i),
           \A i \in Ids \ {c} : /\ entry'[i] = entry[i] /\ body'[i] = body[i] /\ meta'[i] = meta[i]
                                /\ i \in table' <=> i \in table,
           table' \subseteq Ids,
           c \in table' => LockedExactly(c)' /\ Here(c)',
           c \notin table' => NotHere(c)',
           FilesThere'
    PROVE  Exact'
<1>1. \A i \in table' \ {c} : LockedExactly(i)'
    BY DEF Exact, LockedExactly
<1>2. \A i \in Ids \ {c} : IF i \in Kept' THEN Here(i)' ELSE NotHere(i)'
    BY DEF Exact, Kept, Here, NotHere
<1>3. Kept' = table'
    BY DEF Kept
<1> QED  BY <1>1, <1>2, <1>3 DEF Exact

\* An entry that is not in the table is held by nobody.
LEMMA NobodyHolds ==
    ASSUME IInv, NEW c, c \notin table
    PROVE  Cardinality(HandlesOf(c)) = 0
<1>1. HandlesOf(c) = {}
    BY DEF IInv, HeldCounted, HandlesOf
<1> QED  BY <1>1, FS_EmptySet

\* Without an I/O error a file is whole when it is closed.
LEMMA ClosedWhole ==
    ASSUME fails \in Nat, fails' = fails, NEW f, Closed(f)
    PROVE  f = "whole"
BY DEF Closed, IOError

\* The steps of cache_response() that make an entry and add it.
LEMMA MakeKeepsExact ==
    ASSUME IInv, Exact, \/ \E n \in Sizes : CreateLocation(n)
                        \/ WriteBody \/ WriteMetadata \/ AddEntry,
           fails \in Nat, fails' = fails
    PROVE  Exact'
<1>0. /\ held' = held /\ up' = up /\ index' = index /\ up # "down" /\ table \subseteq Ids
      /\ entry \in [Ids -> Entry] /\ body \in [Ids -> {"none", "part", "whole"}]
      /\ meta \in [Ids -> {"none", "part", "whole"}]
    BY DEF CreateLocation, WriteBody, WriteMetadata, AddEntry, IInv, Typed, OneCall,
       Goto, Leave, Ended, locked, files
<1>1. \A i : HandlesOf(i)' = HandlesOf(i)
    BY <1>0 DEF HandlesOf
<1>2. ASSUME NEW n \in Sizes, CreateLocation(n) PROVE Exact'
    <2> DEFINE c == born + 1
    <2>0. at = "create" /\ born < MaxEntries /\ born \in Nat /\ MaxEntries \in Nat
        BY <1>2, BoundsAssumption DEF IInv, Typed, CallKnows, CreateLocation
    <2>1. c \in Ids /\ c \notin table
        BY <1>0, <2>0 DEF IInv, MadeBefore, Ids
    <2>2. /\ cur' = c /\ at = "create" /\ at' = "body" /\ table' = table /\ meta' = meta
          /\ \A i \in Ids \ {c} : entry'[i] = entry[i] /\ body'[i] = body[i]
        BY <1>0, <1>2 DEF CreateLocation
    <2> HIDE DEF c
    <2> QED
        BY <1>0, <1>1, <2>1, <2>2, OneEntryExact
           DEF Opening, Updating, Making, NotHere, FilesThere
<1>3. CASE WriteBody \/ WriteMetadata
    <2>1. cur \in Ids /\ cur \notin table
        BY <1>3 DEF IInv, CallKnows, WriteBody, WriteMetadata
    <2>2. /\ cur' = cur /\ at \in {"body", "meta"} /\ at' \in {"meta", "add"}
          /\ table' = table /\ entry' = entry
          /\ \A i \in Ids \ {cur} : body'[i] = body[i] /\ meta'[i] = meta[i]
          /\ body'[cur] = "whole" /\ (at' = "add" => meta'[cur] = "whole")
        BY <1>0, <1>3, <2>1, ClosedWhole DEF WriteBody, WriteMetadata, Goto, locked, Exact, FilesThere
    <2> QED
        BY <1>0, <1>1, <2>1, <2>2, OneEntryExact
           DEF Opening, Updating, Making, NotHere, FilesThere
<1>4. CASE AddEntry
    <2>0. PICK c \in Ids : c = cur
        BY <1>4 DEF IInv, CallKnows, AddEntry
    <2>1. /\ at = "add" /\ c \notin table /\ body[c] = "whole"
          /\ entry[c].readers = 0 /\ entry[c] \in Entry /\ meta[c] = "whole"
        BY <1>0, <1>4, <2>0 DEF IInv, CallKnows, AddEntry, Exact, FilesThere
    <2>2. /\ entry'[c].readers = 0 /\ ~entry'[c].rl /\ ~entry'[c].wl
          /\ \A i \in Ids \ {c} : entry'[i] = entry[i]
        BY <1>0, <1>4, <2>0, <2>1, LockedEntries DEF AddEntry
    <2>3. /\ table' = table \cup {c} /\ body' = body /\ meta' = meta
          /\ at' \in {"gc", "save", "idle"}
        BY <1>4, <2>0 DEF AddEntry, files, Goto, Leave, Ended
    <2>4. Cardinality(HandlesOf(c)') = 0
        BY <1>1, <2>1, NobodyHolds
    <2>6. LockedExactly(c)' /\ Here(c)'
        BY <2>1, <2>2, <2>3, <2>4 DEF LockedExactly, Here, Opening, Updating
    <2>7. \A i : i # c => ~Opening(i) /\ ~Updating(i) /\ ~Making(i)
        BY <2>0, <2>1 DEF Opening, Updating, Making
    <2>8. \A i : ~Opening(i)' /\ ~Updating(i)' /\ ~Making(i)'
        BY <2>3 DEF Opening, Updating, Making
    <2> QED
        BY <1>0, <1>1, <2>1, <2>2, <2>3, <2>6, <2>7, <2>8, OneEntryExact DEF FilesThere
<1> QED  BY <1>2, <1>3, <1>4

\* The steps of update_response(): it fails only when an I/O error makes it.
LEMMA UpdateKeepsExact ==
    ASSUME IInv, Exact, LockForUpdate \/ MergeHeaders \/ RewriteMetadata \/ UpdateFails,
           fails \in Nat, fails' = fails
    PROVE  Exact'
<1>0. /\ held' = held /\ up' = up /\ index' = index /\ table' = table /\ body' = body
      /\ up # "down" /\ table \subseteq Ids
      /\ entry \in [Ids -> Entry] /\ meta \in [Ids -> {"none", "part", "whole"}]
      /\ \A i \in table : body[i] = "whole"
    BY DEF LockForUpdate, MergeHeaders, RewriteMetadata, UpdateFails, IInv, Typed, OneCall,
       Goto, Leave, Ended, locked, files, Exact, Kept, Here
<1>1. \A i : HandlesOf(i)' = HandlesOf(i)
    BY <1>0 DEF HandlesOf
<1>2. CASE LockForUpdate
    <2>1. PICK c \in Of(want) : /\ CanWrite(c) /\ cur' = c
                                /\ entry' = [entry EXCEPT ![c] = WriteLocked(entry[c])]
        BY <1>2 DEF LockForUpdate
    <2>2. /\ c \in table /\ c \in Ids /\ at = "update" /\ at' = "merge" /\ meta' = meta
        BY <1>0, <1>2, <2>1 DEF LockForUpdate, Of, files
    <2>3. \A i : ~Opening(i) /\ ~Updating(i) /\ ~Making(i) /\ ~Opening(i)' /\ ~Making(i)'
                 /\ (Updating(i)' <=> i = c)
        BY <2>1, <2>2 DEF Opening, Updating, Making
    <2>4. /\ LockedExactly(c) /\ Here(c) /\ ~entry[c].rl /\ entry[c].readers \in Int
        BY <1>0, <2>1, <2>2 DEF Exact, Kept, CanWrite, Entry
    <2>5. /\ entry[c].readers = 0 /\ Cardinality(HandlesOf(c)) = 0
        <3>1. Cardinality(HandlesOf(c)) \in Nat
            BY HandlesFinite DEF IInv, HeldCounted
        <3> QED  BY <2>3, <2>4, <3>1 DEF LockedExactly
    <2>6. /\ entry'[c].readers = 0 /\ entry'[c].rl /\ entry'[c].wl
          /\ \A i \in Ids \ {c} : entry'[i] = entry[i]
        BY <1>0, <2>1, <2>2, <2>5, LockedEntries
    <2>7. LockedExactly(c)'
        BY <1>1, <2>3, <2>5, <2>6 DEF LockedExactly
    <2>8. Here(c)' /\ FilesThere'
        BY <1>0, <2>1, <2>2, <2>3, <2>4 DEF Here, FilesThere
    <2> QED
        BY <1>0, <1>1, <2>2, <2>3, <2>6, <2>7, <2>8, OneEntryExact
<1>3. CASE MergeHeaders \/ RewriteMetadata
    <2>1. PICK c \in Ids : c = cur /\ c \in table /\ entry[c].readers = 0 /\ entry[c].rl /\ entry[c].wl
        BY <1>0, <1>3 DEF IInv, CallKnows, MergeHeaders, RewriteMetadata
    <2>2. /\ at \in {"merge", "rewrite"} /\ body[c] = "whole" /\ LockedExactly(c)
          /\ \/ at' = "rewrite" /\ cur' = c /\ entry' = entry
             \/ at' = "idle" /\ entry' = [entry EXCEPT ![c] = WriteUnlocked(entry[c])]
                /\ meta'[c] = "whole"
          /\ \A i \in Ids \ {c} : meta'[i] = meta[i]
        BY <1>0, <1>3, <2>1, ClosedWhole
           DEF MergeHeaders, RewriteMetadata, Goto, Leave, Ended, locked, Exact
    <2>3. /\ \A i \in Ids \ {c} : entry'[i] = entry[i]
          /\ entry'[c].readers = 0
          /\ (entry'[c].rl <=> at' = "rewrite") /\ (entry'[c].wl <=> at' = "rewrite")
        BY <1>0, <2>1, <2>2, LockedEntries
    <2>4. \A i : /\ ~Opening(i) /\ ~Making(i) /\ ~Opening(i)' /\ ~Making(i)'
                 /\ (Updating(i) <=> i = c) /\ (Updating(i)' <=> i = c /\ at' = "rewrite")
        BY <2>1, <2>2 DEF Opening, Updating, Making
    <2>5. Cardinality(HandlesOf(c)) = 0
        <3>1. Cardinality(HandlesOf(c)) \in Nat
            BY HandlesFinite DEF IInv, HeldCounted
        <3> QED  BY <2>1, <2>2, <2>4, <3>1 DEF LockedExactly
    <2>6. LockedExactly(c)'
        BY <1>1, <2>3, <2>4, <2>5 DEF LockedExactly
    <2>7. Here(c)' /\ FilesThere'
        BY <1>0, <2>2, <2>4 DEF Here, FilesThere
    <2> QED
        BY <1>0, <1>1, <2>1, <2>3, <2>2, <2>4, <2>6, <2>7, OneEntryExact
<1>4. CASE UpdateFails
    <2>1. at = "merge" /\ meta[cur] = "none"
        BY <1>4 DEF UpdateFails, IOError
    <2> QED  BY <2>1 DEF Exact, FilesThere
<1> QED  BY <1>2, <1>3, <1>4

\* Getting a response, and releasing it.
LEMMA GetKeepsExact ==
    ASSUME RInv, Exact, LockForReading \/ OpenBody \/ GetFails, fails \in Nat, fails' = fails
    PROVE  Exact'
<1>0. /\ IInv /\ Fresh /\ up' = up /\ index' = index /\ table' = table /\ body' = body
      /\ meta' = meta /\ up # "down" /\ table \subseteq Ids /\ entry \in [Ids -> Entry]
    BY DEF RInv, LockForReading, OpenBody, GetFails, IInv, Typed, OneCall, Leave, locked, files
<1>1. \A i : Cardinality(HandlesOf(i)) \in Nat
    BY <1>0, HandlesFinite DEF IInv, HeldCounted
<1>2. CASE LockForReading
    <2>1. PICK c \in Of(want) : /\ CanRead(c) /\ cur' = c
                                /\ entry' = [entry EXCEPT ![c] = ReadLocked(entry[c])]
        BY <1>2 DEF LockForReading
    <2>2. /\ c \in table /\ c \in Ids /\ at = "get" /\ at' = "open" /\ held' = held
        BY <1>0, <1>2, <2>1 DEF LockForReading, Of
    <2>3. \A i : ~Opening(i) /\ ~Updating(i) /\ ~Making(i) /\ ~Updating(i)' /\ ~Making(i)'
                 /\ (Opening(i)' <=> i = c)
        BY <2>1, <2>2 DEF Opening, Updating, Making
    <2>4. LockedExactly(c) /\ Here(c)
        BY <1>0, <2>2 DEF Exact, Kept
    <2>5. /\ \A i \in Ids \ {c} : entry'[i] = entry[i]
          /\ entry'[c].readers = entry[c].readers + 1 /\ entry'[c].rl
          /\ (entry'[c].wl <=> entry[c].wl)
        BY <1>0, <2>1, <2>2, LockedEntries
    <2>6. \A i : HandlesOf(i)' = HandlesOf(i)
        BY <2>2 DEF HandlesOf
    <2>7. LockedExactly(c)'
        BY <1>1, <2>3, <2>4, <2>5, <2>6 DEF LockedExactly
    <2>8. Here(c)' /\ FilesThere'
        BY <1>0, <2>2, <2>3, <2>4 DEF Here, FilesThere
    <2> QED
        BY <1>0, <2>2, <2>3, <2>5, <2>6, <2>7, <2>8, OneEntryExact
<1>3. CASE OpenBody
    <2>1. PICK c \in Ids : c = cur /\ c \in table /\ <<iface, c>> \notin held
        BY <1>0, <1>3 DEF IInv, CallKnows, Fresh, OpenBody
    <2>2. /\ at = "open" /\ at' = "idle" /\ held' = held \cup {<<iface, c>>}
          /\ \E n : entry' = [entry EXCEPT ![c] = [entry[c] EXCEPT !.hits = n]]
        BY <1>3, <2>1 DEF OpenBody, Leave, Ended
    <2>3. /\ \A i : i # c => HandlesOf(i)' = HandlesOf(i)
          /\ Cardinality(HandlesOf(c)') = Cardinality(HandlesOf(c)) + 1
        BY <1>0, <2>1, <2>2, HandleAdded DEF IInv, HeldCounted
    <2>4. /\ \A i \in Ids \ {c} : entry'[i] = entry[i]
          /\ entry'[c].readers = entry[c].readers /\ (entry'[c].rl <=> entry[c].rl)
          /\ (entry'[c].wl <=> entry[c].wl)
        <3>1. \A n : \A e \in Entry : LET d == [e EXCEPT !.hits = n] IN
                 d.readers = e.readers /\ d.rl = e.rl /\ d.wl = e.wl
            BY DEF Entry
        <3> QED  BY <1>0, <2>2, <3>1
    <2>5. \A i : ~Updating(i) /\ ~Making(i) /\ ~Updating(i)' /\ ~Making(i)' /\ ~Opening(i)'
                 /\ (Opening(i) <=> i = c)
        BY <2>1, <2>2 DEF Opening, Updating, Making
    <2>6. LockedExactly(c) /\ Here(c)
        BY <1>0, <2>1 DEF Exact, Kept
    <2>7. LockedExactly(c)'
        BY <1>1, <2>3, <2>4, <2>5, <2>6 DEF LockedExactly
    <2>8. Here(c)' /\ FilesThere'
        BY <1>0, <2>2, <2>5, <2>6 DEF Here, FilesThere
    <2> QED
        BY <1>0, <2>1, <2>3, <2>4, <2>5, <2>7, <2>8, OneEntryExact
<1>4. CASE GetFails
    <2>1. at = "open" /\ cur \in table /\ "none" \in {meta[cur], body[cur]}
        BY <1>0, <1>4 DEF GetFails, IOError, IInv, CallKnows
    <2>2. Here(cur) /\ ~Updating(cur)
        BY <1>0, <2>1 DEF Exact, Kept, Updating
    <2> QED  BY <2>1, <2>2 DEF Here
<1> QED  BY <1>2, <1>3, <1>4

\* Who releases a response takes its handle and one reader from the entry.
LEMMA ReleaseKeepsExact ==
    ASSUME IInv, Exact, NEW t \in Threads, NEW i \in Ids, ReleaseCachedResponse(t, i)
    PROVE  Exact'
<1>1. /\ i \in table /\ up = "open" /\ at = "idle" /\ <<t, i>> \in held /\ table \subseteq Ids
      /\ UNCHANGED <<up, at, cur, table, body, meta, index>> /\ held' = held \ {<<t, i>>}
      /\ entry \in [Ids -> Entry] /\ entry' = [entry EXCEPT ![i] = ReadUnlocked(entry[i])]
    BY DEF ReleaseCachedResponse, Free, call, files, IInv, OneCall, HeldCounted, Typed
<1>2. /\ \A j : j # i => HandlesOf(j)' = HandlesOf(j)
      /\ Cardinality(HandlesOf(i)') = Cardinality(HandlesOf(i)) - 1
      /\ Cardinality(HandlesOf(i)) \in Nat
    BY <1>1, HandleRemoved, HandlesFinite DEF IInv, HeldCounted
<1>3. /\ \A j \in Ids \ {i} : entry'[j] = entry[j]
      /\ entry'[i].readers = entry[i].readers - 1
      /\ (entry'[i].rl <=> entry[i].rl /\ entry[i].readers # 1) /\ (entry'[i].wl <=> entry[i].wl)
    BY <1>1, LockedEntries
<1>4. \A j : ~Opening(j) /\ ~Updating(j) /\ ~Making(j)
             /\ ~Opening(j)' /\ ~Updating(j)' /\ ~Making(j)'
    BY <1>1 DEF Opening, Updating, Making
<1>5. LockedExactly(i) /\ Here(i)
    BY <1>1 DEF Exact, Kept
<1>6. LockedExactly(i)'
    BY <1>2, <1>3, <1>4, <1>5 DEF LockedExactly
<1>7. Here(i)' /\ FilesThere'
    BY <1>1, <1>4, <1>5 DEF Here, FilesThere
<1> QED  BY <1>1, <1>2, <1>3, <1>4, <1>6, <1>7, OneEntryExact

\* The process ends in order: what is on disk is what the index names.
LEMMA DieKeepsExact ==
    ASSUME IInv, Exact, Die, index' = Snapshot, UNCHANGED files, at = "index", up # "down"
    PROVE  Exact'
<1>1. \A i \in table : \E r \in Snapshot : r.id = i
    <2> TAKE i \in table
    <2> DEFINE r == [id |-> i, url |-> entry[i].url, blocks |-> entry[i].blocks,
                     hits |-> entry[i].hits]
    <2>1. r \in Snapshot /\ r.id = i
        BY DEF Snapshot
    <2> HIDE DEF r
    <2> QED  BY <2>1
<1>2. \A r \in Snapshot : r.id \in table
    BY DEF Snapshot
<1>3. Kept = table /\ Kept' = table
    BY <1>1, <1>2 DEF Kept, Die
<1>4. \A i : ~Updating(i) /\ ~Making(i) /\ ~Updating(i)' /\ ~Making(i)'
    BY DEF Die, Ended, Updating, Making
<1>5. \A i \in Ids : (Here(i) => Here(i)') /\ (NotHere(i) => NotHere(i)')
    BY <1>4 DEF Here, NotHere, files
<1>6. table' = {} /\ FilesThere'
    BY DEF Die, Ended, FilesThere
<1> QED  BY <1>3, <1>5, <1>6 DEF Exact

\* The next process starts with what the index names.
LEMMA RestartKeepsExact ==
    ASSUME IInv, Exact, Restart, fails \in Nat, fails' = fails
    PROVE  Exact'
<1>1. /\ up = "down" /\ up' = "open" /\ table' = {r.id : r \in index} /\ at = "idle"
      /\ UNCHANGED <<at, cur, held, body, meta, index>> /\ held = {} /\ table' \subseteq Ids
    <2>1. PICK lines \in SUBSET index : /\ lines = index \/ IOError
                                       /\ table' = {r.id : r \in lines}
        BY DEF Restart
    <2>2. lines = index
        BY <2>1 DEF IOError
    <2>3. table' \subseteq Ids
        BY RestartKeeps DEF IInv, Typed
    <2> QED  BY <2>1, <2>2, <2>3 DEF Restart, call, files, IInv, OneCall, HeldCounted
<1>2. Kept' = Kept
    BY <1>1 DEF Kept
<1>3. \A i : ~Opening(i)' /\ ~Updating(i) /\ ~Making(i) /\ ~Updating(i)' /\ ~Making(i)'
    BY <1>1 DEF Opening, Updating, Making
<1>4. \A i : Cardinality(HandlesOf(i)') = 0
    <2>1. \A i : HandlesOf(i)' = {}
        BY <1>1 DEF HandlesOf
    <2> QED  BY <2>1, FS_EmptySet
<1>5. \A i \in table' : /\ entry'[i].readers = 0 /\ ~entry'[i].rl /\ ~entry'[i].wl
    <2> TAKE i \in table'
    <2>1. \E r : entry'[i] = Unlocked(r)
        BY <1>1 DEF Restart
    <2> QED  BY <2>1 DEF Unlocked
<1>6. \A i \in table' : LockedExactly(i)'
    BY <1>3, <1>4, <1>5 DEF LockedExactly
<1>7. \A i \in Ids : (Here(i) => Here(i)') /\ (NotHere(i) => NotHere(i)')
    BY <1>1, <1>3 DEF Here, NotHere
<1>8. FilesThere'
    BY <1>1 DEF FilesThere
<1> QED  BY <1>2, <1>6, <1>7, <1>8 DEF Exact

\* No step that is neither an I/O error nor a crash leaves a lock or a file behind.
LEMMA ExactKeeps ==
    ASSUME RInv, Exact, fails = 0, crashes = 0, fails' = 0, crashes' = 0, [Next]_vars
    PROVE  Exact'
<1>0. IInv /\ Fresh
    BY DEF RInv
<1>1. CASE RemoveOld \/ CollectGarbage \/ CollectByHits \/ PurgeCache
    <2>1. PICK S \in SUBSET table : Remove(S)
        BY <1>1 DEF RemoveOld, CollectGarbage, CollectByHits, PurgeCache, Of
    <2>2. /\ held' = held /\ up # "down" /\ up' = up /\ at \in Quiet /\ at' \in Quiet
        BY <1>0, <1>1 DEF RemoveOld, CollectGarbage, CollectByHits, PurgeCache, Free, call, Goto,
           IInv, OneCall, Quiet
    <2> QED  BY <1>0, <2>1, <2>2, RemoveKeepsExact
<1>2. CASE Step
    <2>0. up # "down" /\ at # "idle"
        BY <1>0, <1>2 DEF IInv, OneCall, Step, RemoveOld, NotCacheable, WriteBody,
           WriteMetadata, CreateLocation, AddEntry, NotCached, CollectGarbage, CollectByHits,
           CollectedEnough, OpenIndex, WriteIndex, IndexNotWritten, IndexCutOff, LockForUpdate, MergeHeaders,
           RewriteMetadata, UpdateFails, LockForReading, OpenBody, GetFails, Answer, NoEntry
    <2>1. ~IOError
        BY DEF IOError
    <2>2. CASE NotCacheable \/ CollectedEnough \/ OpenIndex \/ Answer \/ NoEntry
        BY <1>0, <2>0, <2>2, QuietKeepsExact
           DEF NotCacheable, CollectedEnough, OpenIndex, Answer, NoEntry, Goto, Leave, Ended, Quiet
    <2>3. CASE WriteIndex
        <3>1. CASE up = "closing"
            BY <1>0, <2>0, <2>3, <3>1, DieKeepsExact DEF WriteIndex
        <3>2. CASE up # "closing"
            BY <1>0, <2>0, <2>3, <3>2, QuietKeepsExact DEF WriteIndex, Leave, Ended, Quiet
        <3> QED  BY <3>1, <3>2
    <2>4. CASE NotCached \/ IndexNotWritten \/ IndexCutOff
        BY <2>1, <2>4 DEF NotCached, IndexNotWritten, IndexCutOff
    <2> QED
        BY <1>0, <1>1, <1>2, <2>2, <2>3, <2>4, MakeKeepsExact, UpdateKeepsExact, GetKeepsExact
           DEF Step
<1>3. ASSUME NEW t \in Threads, Call(t) PROVE Exact'
    <2>1. /\ at = "idle" /\ up = "open" /\ up' # "down" /\ at' \in Quiet
          /\ UNCHANGED <<locked, files>>
        BY <1>0, <1>3 DEF Call, CacheResponse, UpdateResponse, GetCachedResponse, Query,
           SetMaxSize, Close, Enter, Free, IInv, OneCall, Quiet
    <2> QED  BY <1>0, <2>1, QuietKeepsExact DEF Quiet
<1>4. CASE \E t \in Threads : Release(t)
    BY <1>0, <1>4, ReleaseKeepsExact DEF Release
<1>5. CASE Crash
    BY <1>5 DEF Crash
<1>6. CASE Restart
    BY <1>0, <1>6, RestartKeepsExact
<1>7. CASE UNCHANGED vars
    <2>1. UNCHANGED <<at, cur, up, table, entry, held, body, meta, index>>
        BY <1>7 DEF vars, call, locked, files
    <2>2. \A i : /\ HandlesOf(i)' = HandlesOf(i) /\ (Opening(i)' <=> Opening(i))
                 /\ (Updating(i)' <=> Updating(i)) /\ (Making(i)' <=> Making(i))
        BY <2>1 DEF HandlesOf, Opening, Updating, Making
    <2>3. \A i : /\ LockedExactly(i) => LockedExactly(i)'
                 /\ (Here(i) => Here(i)') /\ (NotHere(i) => NotHere(i)')
        BY <2>1, <2>2 DEF LockedExactly, Here, NotHere
    <2>4. Kept' = Kept
        BY <2>1 DEF Kept
    <2> QED  BY <2>1, <2>3, <2>4 DEF Exact, FilesThere
<1> QED  BY <1>1, <1>2, <1>3, <1>4, <1>5, <1>6, <1>7 DEF Next

\* What Exact says holds until the first failure.
EInv == /\ RInv /\ fails \in Nat /\ crashes \in Nat
        /\ Undisturbed => Exact

\* The invariant of an undisturbed cache.
THEOREM ExactInvariance == Spec => []EInv
<1>1. Init => EInv
    <2>1. Init => Exact
        BY DEF Init, Exact, LockedExactly, Here, NotHere, Kept, FilesThere
    <2> QED  BY <2>1, InitIInv DEF RInv, Fresh, Init, EInv
<1>2. EInv /\ [Next]_vars => EInv'
    <2> SUFFICES ASSUME EInv, [Next]_vars PROVE EInv'
        OBVIOUS
    <2>1. RInv' /\ fails' \in {fails, fails + 1} /\ crashes' \in {crashes, crashes + 1}
        BY NextKeeps, FreshKeeps, CountersGrow DEF EInv, RInv
    <2>2. Undisturbed' => fails = 0 /\ crashes = 0 /\ fails' = 0 /\ crashes' = 0
        BY <2>1 DEF EInv, Undisturbed
    <2>3. Undisturbed' => Exact'
        BY <2>2, ExactKeeps DEF EInv, Undisturbed
    <2> QED  BY <2>1, <2>3 DEF EInv
<1> QED  BY <1>1, <1>2, PTL DEF Spec

\* Without I/O errors and crashes every call gives back the locks it took: an
\* entry counts those who have it open or are opening it (HTTPCacheTable.h:203-240).
THEOREM LocksGivenBack == Spec => []ReadersExact
<1>1. EInv => ReadersExact
    BY ExactSaysBoth DEF EInv, RInv
<1> QED  BY <1>1, ExactInvariance, PTL

\* Without I/O errors and crashes the files on disk are those of the table, or
\* between two processes those of the index (HTTPCacheTable.cc:347-430).
THEOREM FilesMatch == Spec => []DiskMatchesTable
<1>1. EInv => DiskMatchesTable
    BY ExactSaysBoth DEF EInv, RInv
<1> QED  BY <1>1, ExactInvariance, PTL
====
