---- MODULE DAPCache3 ----
(***************************************************************************)
(* The cache of function results: processes of a server share files in a   *)
(* directory, and an info file that holds the sum of their sizes, by       *)
(* advisory fcntl() locks on the files and on the info file (DAPCache3.cc);*)
(* with the one protocol of calls the repository uses it by                *)
(* (old/D4ResponseBuilder.cc, read_cached_dataset() and its callers).      *)
(*                                                                         *)
(* Each process handles one request at a time, and a program counter says  *)
(* which lock it asks for next or what it does under the locks it has.     *)
(* What happens under the exclusive lock of the cache without waiting is   *)
(* one step.  A file is an inode under a name: a name can be unlinked and  *)
(* made again while processes still have the old inode open or locked.     *)
(*                                                                         *)
(* As POSIX has it, locks belong to a process and an inode: a process is   *)
(* never hindered by its own, gives them up when it closes ANY descriptor  *)
(* of the inode, and gets EDEADLK for a wait that closes a cycle.          *)
(***************************************************************************)
EXTENDS Integers, FiniteSets

CONSTANTS
    Procs,          \* the server's processes
    Files,          \* names of cache files
    NoFile,         \* no name
    Sizes,          \* what a complete file may measure
    MaxSize,        \* d_max_cache_size_in_bytes
    TargetSize,     \* d_target_size
    Word,           \* 2^64: the recorded size is an unsigned long long
    MaxRequests,    \* bound: requests in all
    MaxFiles,       \* bound: files made; each request makes one at most
    MaxFails,       \* bound: exceptions, full disks and deaths of processes
    MaxChanges      \* bound: times a data set becomes newer than its file

ASSUME FilesAssumption == NoFile \notin Files
ASSUME SizesAssumption == Sizes \subseteq Nat \ {0} /\ Sizes # {}
ASSUME WordAssumption == Word \in Nat \ {0}
ASSUME LimitAssumption ==
    {MaxSize, TargetSize, MaxRequests, MaxFiles, MaxFails, MaxChanges} \subseteq Nat

Inodes == 1 .. MaxFiles

VARIABLES
    pc,         \* where each process is ("off": not running; "idle": no request)
    file,       \* the file its request is about (cache_file_name)
    second,     \* it calls get_read_lock() for the second time
    mine,       \* the inode it made (fd), or 0
    opened,     \* the inode it reads through its own fopen()
    num,        \* a size that purge_file() has read or computed
    rec,        \* d_locks: the inode recorded for each file, or 0
    cl,         \* its lock on the info file
    fl,         \* its locks on inodes
    dir,        \* the inode of each name, or 0
    bytes,      \* the size of each inode
    text,       \* "part" or "whole": what is in it
    stale,      \* the inodes that are older than their data set
    info,       \* the info file: "none", "empty" or "valid"
    total,      \* the number in it
    made, fails, changes, requests,     \* counters
    alone,      \* history: no two requests have been served at a time
    failed      \* history: processes that had a request end by exception or death

session == <<pc, file, second, mine, opened, num, rec>>
locks == <<cl, fl>>
disk == <<dir, bytes, text, stale, info, total>>
history == <<alone, failed>>
counts == <<made, fails, changes, requests>>
vars == <<session, locks, disk, history, counts>>

Init ==
    /\ pc = [p \in Procs |-> "off"]
    /\ file = [p \in Procs |-> NoFile]
    /\ second = [p \in Procs |-> FALSE]
    /\ mine = [p \in Procs |-> 0] /\ opened = [p \in Procs |-> 0]
    /\ num = [p \in Procs |-> 0]
    /\ rec = [p \in Procs |-> [f \in Files |-> 0]]
    /\ cl = [p \in Procs |-> "no"]
    /\ fl = [p \in Procs |-> [i \in Inodes |-> "no"]]
    /\ dir = [f \in Files |-> 0]
    /\ bytes = [i \in Inodes |-> 0] /\ text = [i \in Inodes |-> "part"]
    /\ stale = {}
    /\ info = "none" /\ total = 0
    /\ made = 0 /\ fails = 0 /\ changes = 0 /\ requests = 0
    /\ alone = TRUE /\ failed = {}

-----------------------------------------------------------------------------
(* fcntl() and close().                                                    *)

Hinders(have, ask) == have = "w" \/ (have = "r" /\ ask = "w")
CacheFree(p, ask) == \A q \in Procs \ {p} : ~Hinders(cl[q], ask)
FileFree(p, i, ask) == \A q \in Procs \ {p} : ~Hinders(fl[q][i], ask)

LockFile(p, i, mode) == fl' = [fl EXCEPT ![p][i] = mode]
Close(p, S) == fl' = [fl EXCEPT ![p] = [i \in Inodes |-> IF i \in S THEN "no" ELSE @[i]]]
LockCache(p, mode) == cl' = [cl EXCEPT ![p] = mode]

Named(p) == dir[file[p]]
AsksCache(p) == IF pc[p] \in {"purge", "create", "count", "shrink"} THEN "w"
                ELSE IF pc[p] = "get" THEN "r" ELSE "no"
AsksFile(p) == IF pc[p] = "unlink" THEN <<Named(p), "w">>
               ELSE IF pc[p] = "wait" THEN <<Named(p), "r">>
               ELSE IF pc[p] = "downgrade" THEN <<mine[p], "r">> ELSE <<0, "no">>
WaitsFor(p, q) ==
    /\ p # q
    /\ \/ AsksCache(p) # "no" /\ Hinders(cl[q], AsksCache(p))
       \/ AsksFile(p)[1] # 0 /\ Hinders(fl[q][AsksFile(p)[1]], AsksFile(p)[2])
\* p is one of several processes each of which waits, by way of the others,
\* for every other
InCycle(p) ==
    \E S \in SUBSET Procs :
        /\ p \in S /\ S # {p}
        /\ \A T \in (SUBSET S) \ {{}, S} : \E q \in T, r \in S \ T : WaitsFor(q, r)

Goto(p, l) == pc' = [pc EXCEPT ![p] = l]
\* m_record_descriptor(): map::insert() does nothing for a key it has
Record(p, i) ==
    rec' = [rec EXCEPT ![p][file[p]] = IF @ = 0 THEN i ELSE @]

EndRequest(p, l) ==
    /\ Goto(p, l)
    /\ file' = [file EXCEPT ![p] = NoFile]
    /\ second' = [second EXCEPT ![p] = FALSE]
    /\ mine' = [mine EXCEPT ![p] = 0] /\ opened' = [opened EXCEPT ![p] = 0]
    /\ num' = [num EXCEPT ![p] = 0]

\* An exception leaves the request: read_cached_dataset() unlocks the cache,
\* nobody closes the file.
Abandon(p) ==
    /\ EndRequest(p, "idle") /\ LockCache(p, "no")
    /\ failed' = failed \cup {p}
    /\ UNCHANGED <<rec, alone>>
Throw(p) == Abandon(p) /\ UNCHANGED <<fl, disk>>

Quiet(p) == \A q \in Procs \ {p} : pc[q] \in {"off", "idle"}

-----------------------------------------------------------------------------
(* m_initialize_cache_info(): the info file exists before it is locked and *)
(* before there is a number in it.                                         *)

Start(p) ==
    /\ pc[p] = "off"
    /\ IF info = "none" THEN Goto(p, "init") /\ info' = "empty"
       ELSE Goto(p, "idle") /\ UNCHANGED info
    /\ alone' = (alone /\ Quiet(p))
    /\ UNCHANGED <<file, second, mine, opened, num, rec, locks,
                   dir, bytes, text, stale, total, failed, counts>>

WriteInfo(p) ==
    /\ pc[p] = "init" /\ CacheFree(p, "w")
    /\ info' = "valid" /\ total' = 0
    /\ Goto(p, "idle")
    /\ UNCHANGED <<file, second, mine, opened, num, rec, locks,
                   dir, bytes, text, stale, history, counts>>

-----------------------------------------------------------------------------
(* is_valid(), and purge_file() of what is not: an empty file, or one that *)
(* is older than its data set.                                             *)

Valid(f) == dir[f] # 0 /\ bytes[dir[f]] > 0 /\ dir[f] \notin stale

Request(p, f) ==
    /\ pc[p] = "idle" /\ requests < MaxRequests
    /\ requests' = requests + 1
    /\ file' = [file EXCEPT ![p] = f]
    /\ Goto(p, IF Valid(f) THEN "get" ELSE "purge")
    /\ alone' = (alone /\ Quiet(p))
    /\ UNCHANGED <<second, mine, opened, num, rec, locks, disk, failed,
                   made, fails, changes>>

Purge(p) ==
    /\ pc[p] = "purge" /\ CacheFree(p, "w")
    /\ IF Named(p) = 0 THEN Goto(p, "get") /\ UNCHANGED cl
       ELSE Goto(p, "unlink") /\ LockCache(p, "w")
    /\ UNCHANGED <<file, second, mine, opened, num, rec, fl, disk, history, counts>>

Unlink(p) ==
    /\ pc[p] = "unlink" /\ FileFree(p, Named(p), "w")
    /\ num' = [num EXCEPT ![p] = bytes[Named(p)]]
    /\ dir' = [dir EXCEPT ![file[p]] = 0]
    /\ Close(p, {Named(p)})
    /\ Goto(p, "resize")
    /\ UNCHANGED <<file, second, mine, opened, rec, cl,
                   bytes, text, stale, info, total, history, counts>>

\* get_cache_size() turns the exclusive lock into a shared one and drops it
Resize(p) ==
    /\ pc[p] = "resize"
    /\ \/ /\ info = "valid"
          /\ num' = [num EXCEPT ![p] = (total - @) % Word]
          /\ LockCache(p, "no") /\ Goto(p, "store")
          /\ UNCHANGED <<file, second, mine, opened, rec, fl, disk, history>>
       \/ info # "valid" /\ Throw(p)
    /\ UNCHANGED counts

\* so the new size is written without a lock
Store(p) ==
    /\ pc[p] = "store"
    /\ total' = num[p]
    /\ num' = [num EXCEPT ![p] = 0]
    /\ Goto(p, "get")
    /\ UNCHANGED <<file, second, mine, opened, rec, locks,
                   dir, bytes, text, stale, info, history, counts>>

-----------------------------------------------------------------------------
(* get_read_lock() waits for a writer with the cache locked for reading;   *)
(* then the file is opened by its name, read and closed.                   *)

Get(p) ==
    /\ pc[p] = "get" /\ CacheFree(p, "r")
    /\ \/ /\ Named(p) # 0
          /\ Goto(p, "wait") /\ LockCache(p, "r")
          /\ UNCHANGED <<file, second, mine, opened, num, rec, fl, disk, history>>
       \/ /\ Named(p) = 0 /\ ~second[p]
          /\ Goto(p, "create")
          /\ UNCHANGED <<file, second, mine, opened, num, rec, locks, disk, history>>
       \/ Named(p) = 0 /\ second[p] /\ Throw(p)
    /\ UNCHANGED counts

WaitNot(p) ==
    /\ pc[p] = "wait"
    /\ LockFile(p, Named(p), "r") /\ Record(p, Named(p))
    /\ LockCache(p, "no") /\ Goto(p, "read")
    /\ UNCHANGED <<file, second, mine, opened, num, disk, history, counts>>
WaitKeepsCache(p) ==
    /\ pc[p] = "wait" /\ FileFree(p, Named(p), "r")
    /\ LockFile(p, Named(p), "r") /\ Record(p, Named(p))
    /\ Goto(p, "read")
    /\ UNCHANGED <<file, second, mine, opened, num, cl, disk, history, counts>>
Wait(p) ==
    /\ pc[p] = "wait" /\ FileFree(p, Named(p), "r")
    /\ LockFile(p, Named(p), "r") /\ Record(p, Named(p))
    /\ LockCache(p, "no") /\ Goto(p, "read")
    /\ UNCHANGED <<file, second, mine, opened, num, disk, history, counts>>

Open(p) ==
    /\ pc[p] = "read"
    /\ opened' = [opened EXCEPT ![p] = Named(p)]
    /\ Goto(p, "reading")
    /\ UNCHANGED <<file, second, mine, num, rec, locks, disk, history, counts>>

\* fclose() gives up the lock that get_read_lock() got
Read(p) ==
    /\ pc[p] = "reading"
    /\ \/ /\ text[opened[p]] = "whole"
          /\ Close(p, {opened[p]})
          /\ opened' = [opened EXCEPT ![p] = 0]
          /\ Goto(p, IF second[p] THEN "using" ELSE "create")
          /\ UNCHANGED <<file, second, mine, num, rec, cl, disk, history>>
       \/ text[opened[p]] # "whole" /\ Throw(p)
    /\ UNCHANGED counts

-----------------------------------------------------------------------------
(* create_and_lock(), which fails for a file that was just read; the       *)
(* result is computed, and written by way of the name.                     *)

Create(p) ==
    /\ pc[p] = "create" /\ CacheFree(p, "w")
    /\ IF Named(p) # 0
       THEN /\ second' = [second EXCEPT ![p] = TRUE]
            /\ Goto(p, "get")
            /\ UNCHANGED <<mine, rec, fl, dir, made>>
       ELSE /\ made < MaxFiles /\ made' = made + 1
            /\ dir' = [dir EXCEPT ![file[p]] = made']
            /\ mine' = [mine EXCEPT ![p] = made']
            /\ LockFile(p, made', "w") /\ Record(p, made')
            /\ Goto(p, "compute")
            /\ UNCHANGED second
    /\ UNCHANGED <<file, opened, num, cl, bytes, text, stale, info, total, history,
                   fails, changes, requests>>

Compute(p) ==
    /\ pc[p] = "compute"
    /\ bytes' = [bytes EXCEPT ![mine[p]] = CHOOSE n \in Sizes : TRUE]
    /\ Goto(p, "writing")
    /\ UNCHANGED <<file, second, mine, opened, num, rec, locks,
                   dir, text, stale, info, total, history, counts>>

CloseNewLocked(p) ==
    /\ pc[p] = "writing"
    /\ UNCHANGED fl
    /\ stale' = stale \ {mine[p]}
    /\ Goto(p, "count")
    /\ UNCHANGED <<file, second, mine, opened, num, rec, cl, dir, info, total, history, made,
                   changes, requests>>
\* close() of the output stream gives up the exclusive lock
CloseNew(p) ==
    /\ pc[p] = "writing"
    /\ Close(p, {mine[p]})
    /\ stale' = stale \ {mine[p]}
    /\ Goto(p, "downgrade")
    /\ UNCHANGED <<file, second, mine, opened, num, rec, cl, dir, info, total, history, made,
                   changes, requests>>
Write(p) ==
    /\ CloseNew(p)
    /\ text' = [text EXCEPT ![mine[p]] = "whole"]
    /\ \E n \in Sizes : bytes' = [bytes EXCEPT ![mine[p]] = n]
    /\ UNCHANGED fails
\* the disk is full; the state of the output stream is not looked at
WriteShort(p) ==
    /\ fails < MaxFails /\ fails' = fails + 1
    /\ CloseNew(p)
    /\ UNCHANGED <<text, bytes>>

Downgrade(p) ==     \* exclusive_to_shared_lock()
    /\ pc[p] = "downgrade" /\ FileFree(p, mine[p], "r")
    /\ LockFile(p, mine[p], "r")
    /\ Goto(p, "count")
    /\ UNCHANGED <<file, second, mine, opened, num, rec, cl, disk, history, counts>>

-----------------------------------------------------------------------------
(* update_cache_info() and update_and_purge().                             *)

Count(p) ==
    /\ pc[p] = "count" /\ CacheFree(p, "w")
    /\ \/ /\ info = "valid" /\ Named(p) # 0
          /\ total' = (total + bytes[Named(p)]) % Word
          /\ Goto(p, IF total' > MaxSize THEN "shrink" ELSE "using")
          /\ UNCHANGED <<file, second, mine, opened, num, rec, locks,
                         dir, bytes, text, stale, info, history>>
       \/ (info # "valid" \/ Named(p) = 0) /\ Throw(p)
    /\ UNCHANGED counts

SizeOf(F) == Cardinality(UNION {{f} \X (1 .. bytes[dir[f]]) : f \in F})
Present == {f \in Files : dir[f] # 0}
Idle(p, f) == FileFree(p, dir[f], "w")

\* Files go in the order of their access times, whatever that is, until the
\* rest is small enough; those in use are skipped, but opening and closing one
\* gives up a lock this process has on it.  F are removed, V skipped.
TooBig == SizeOf(Present) > MaxSize
Evicts(p, F, V) ==
    /\ \A f \in F : Idle(p, f)
    /\ \A f \in V : ~Idle(p, f)
    /\ F \cup V # {} => TooBig
    /\ F # {} => \E f \in F : SizeOf(Present \ (F \ {f})) > TargetSize
    /\ TooBig /\ SizeOf(Present \ F) > TargetSize => F \cup V = Present \ {file[p]}
ShrinkUnasked(p) ==
    /\ pc[p] = "shrink" /\ CacheFree(p, "w")
    /\ \E F \in SUBSET (Present \ {file[p]}) :
        /\ total' = SizeOf(Present \ F)
        /\ dir' = [f \in Files |-> IF f \in F THEN 0 ELSE dir[f]]
    /\ Goto(p, "using")
    /\ UNCHANGED <<file, second, mine, opened, num, rec, locks, bytes, text, stale, info,
                   history, counts>>
ShrinkUnrecorded(p) ==
    /\ pc[p] = "shrink" /\ CacheFree(p, "w")
    /\ \E F \in SUBSET (Present \ {file[p]}) : \E V \in SUBSET (Present \ {file[p]}) :
        /\ Evicts(p, F, V)
        /\ dir' = [f \in Files |-> IF f \in F THEN 0 ELSE dir[f]]
        /\ Close(p, {dir[f] : f \in F \cup V})
    /\ Goto(p, "using")
    /\ UNCHANGED <<file, second, mine, opened, num, rec, cl, bytes, text, stale, info, total,
                   history, counts>>
Shrink(p) ==
    /\ pc[p] = "shrink" /\ CacheFree(p, "w")
    /\ \E F \in SUBSET (Present \ {file[p]}) : \E V \in SUBSET (Present \ {file[p]}) :
        /\ Evicts(p, F, V)
        /\ total' = SizeOf(Present \ F)
        /\ dir' = [f \in Files |-> IF f \in F THEN 0 ELSE dir[f]]
        /\ Close(p, {dir[f] : f \in F \cup V})
    /\ Goto(p, "using")
    /\ UNCHANGED <<file, second, mine, opened, num, rec, cl, bytes, text, stale, info,
                   history, counts>>

-----------------------------------------------------------------------------
(* The response is sent and unlock_and_close() called; or something fails. *)

Use(p) ==
    /\ pc[p] = "using"
    /\ Close(p, {rec[p][file[p]]})
    /\ rec' = [rec EXCEPT ![p][file[p]] = 0]
    /\ EndRequest(p, "idle")
    /\ UNCHANGED <<cl, disk, history, counts>>

\* the evaluation of the function or of the constraint throws; on its way out
\* of the writing the output stream is closed
Fail(p) ==
    /\ pc[p] \in {"compute", "writing", "using"}
    /\ fails < MaxFails /\ fails' = fails + 1
    /\ Abandon(p)
    /\ IF pc[p] = "writing" THEN Close(p, {mine[p]}) ELSE UNCHANGED fl
    /\ UNCHANGED <<disk, made, changes, requests>>

\* EDEADLK; the helpers that open a file close it
Refused(p) ==
    /\ InCycle(p)
    /\ Abandon(p)
    /\ IF pc[p] \in {"unlink", "wait"} THEN Close(p, {Named(p)}) ELSE UNCHANGED fl
    /\ UNCHANGED <<disk, counts>>

\* a process ends, in a request or between two
Die(p) ==
    /\ pc[p] # "off" /\ fails < MaxFails
    /\ fails' = fails + 1
    /\ EndRequest(p, "off") /\ LockCache(p, "no") /\ Close(p, Inodes)
    /\ rec' = [rec EXCEPT ![p] = [f \in Files |-> 0]]
    /\ failed' = IF pc[p] = "idle" THEN failed ELSE failed \cup {p}
    /\ UNCHANGED <<disk, alone, made, changes, requests>>

DatasetChanges(f) ==
    /\ dir[f] # 0 /\ changes < MaxChanges
    /\ changes' = changes + 1
    /\ stale' = stale \cup {dir[f]}
    /\ UNCHANGED <<session, locks, dir, bytes, text, info, total, history,
                   made, fails, requests>>

-----------------------------------------------------------------------------
Step(p) ==
    \/ WriteInfo(p) \/ Purge(p) \/ Unlink(p) \/ Resize(p) \/ Store(p)
    \/ Get(p) \/ Wait(p) \/ Open(p) \/ Read(p)
    \/ Create(p) \/ Compute(p) \/ Write(p) \/ Downgrade(p)
    \/ Count(p) \/ Shrink(p) \/ Use(p) \/ Refused(p)

Next ==
    \/ \E p \in Procs : Step(p) \/ Start(p) \/ WriteShort(p) \/ Fail(p) \/ Die(p)
    \/ \E p \in Procs, f \in Files : Request(p, f)
    \/ \E f \in Files : DatasetChanges(f)

Spec == Init /\ [][Next]_vars

\* The system schedules each process, and a lock that nobody holds is granted;
\* with a bounded number of requests nobody is passed over for ever.
FairSpec == Spec /\ \A p \in Procs : WF_vars(Step(p))

-----------------------------------------------------------------------------
(* Properties.                                                             *)

InRequest(p) == pc[p] \notin {"off", "idle"}

\* The types of the variables; the recorded size never leaves the word it is
\* kept in, as the subtraction in purge_file() is unsigned.
TypeOK ==
    /\ pc \in [Procs -> {"off", "init", "idle", "purge", "unlink", "resize", "store", "get",
                         "wait", "read", "reading", "create", "compute", "writing",
                         "downgrade", "count", "shrink", "using"}]
    /\ file \in [Procs -> Files \cup {NoFile}] /\ second \in [Procs -> BOOLEAN]
    /\ {mine, opened} \subseteq [Procs -> Inodes \cup {0}]
    /\ num \in [Procs -> 0 .. Word - 1]
    /\ rec \in [Procs -> [Files -> Inodes \cup {0}]]
    /\ cl \in [Procs -> {"no", "r", "w"}]
    /\ fl \in [Procs -> [Inodes -> {"no", "r", "w"}]]
    /\ dir \in [Files -> Inodes \cup {0}]
    /\ bytes \in [Inodes -> Sizes \cup {0}] /\ text \in [Inodes -> {"part", "whole"}]
    /\ stale \subseteq Inodes
    /\ info \in {"none", "empty", "valid"} /\ total \in 0 .. Word - 1
    /\ made <= MaxFiles
    /\ {made, fails, changes} \subseteq Nat /\ requests \in 0 .. MaxRequests
    /\ alone \in BOOLEAN /\ failed \subseteq Procs

\* "... the cache can be purged, without disrupting the existing read
\* operations" (DAPCache3.h:63-64): a file that get_read_lock() found is there
\* when it is opened by its name, and keeps its name while it is read.  Nobody
\* reads what another process is still writing, although is_valid() finds the
\* file before it is complete; without failures, what is read is complete.
ReadUndisturbed ==
    \A p \in Procs :
        /\ pc[p] = "read" => Named(p) # 0
        /\ pc[p] = "reading" =>
            /\ opened[p] # 0 /\ Named(p) = opened[p]
            /\ \A q \in Procs : pc[q] \in {"compute", "writing"} => mine[q] # opened[p]
            /\ fails = 0 /\ failed = {} => text[opened[p]] = "whole"

\* Once its maker has the shared lock, a new file stays in the directory until
\* the response is sent, whoever makes room and whatever for
\* (old/D4ResponseBuilder.cc:393-395, DAPCache3.cc:892).
NewFileStays ==
    [][\A p \in Procs : mine[p] # 0 /\ pc[p] \in {"count", "shrink", "using"}
                          /\ Named(p) = mine[p] => dir'[file[p]] = mine[p]]_vars

\* As long as requests are served one at a time and none fails, the recorded
\* size is the size of the files, across additions, evictions and the removal
\* of files that are older than their data set.
SizeExactAlone ==
    alone /\ failed = {} /\ info = "valid" /\ (\A p \in Procs : ~InRequest(p))
        => total = SizeOf(Present)

\* get_read_lock() waits for a writer with the cache locked, and yet only
\* purge_file(), which waits for a reader or a writer with the cache locked, has
\* a part in a deadlock: what exclusive_to_shared_lock() is for
\* (DAPCache3.cc:611-615).
OnlyPurgeDeadlocks ==
    failed = {} /\ (\E p \in Procs : InCycle(p)) => \E p \in Procs : pc[p] = "unlink"

\* Processes that wait for each other for ever: none, if "by changing the
\* exclusive lock to a shared lock, the first process can get its shared lock
\* and then release the cache" (DAPCache3.cc:613-615) holds of every process
\* that has the cache locked and waits for a file.
NoDeadlock == failed = {} => \A p \in Procs : ~InCycle(p)

\* Every request ends, with a response or an exception, unless a process that
\* has no request sits on the lock of a file: its request failed, or closed a
\* descriptor of d_locks that was an older one (DAPCache3.cc:183, 690).
RequestEnds ==
    \A p \in Procs : InRequest(p) ~>
        \/ ~InRequest(p)
        \/ \E q \in Procs, f \in Present : ~InRequest(q) /\ fl[q][dir[f]] # "no"
====
