---- MODULE DAPCache3Proofs ----
(***************************************************************************)
(* Proofs about DAPCache3.  That a reader is not disturbed and that a new  *)
(* file stays both follow from one fact: a file that a process works on is *)
(* locked by it, under the name the process knows it by.  The rest of the  *)
(* inductive invariant says where the locks come from and that an inode    *)
(* has one name at most.  Deadlocks follow from who may wait while others  *)
(* wait for it.  For the recorded size, served one request at a time, the  *)
(* invariant says at each place of a request what the sum has of the file  *)
(* that is added or removed.                                               *)
(***************************************************************************)
EXTENDS DAPCache3, FiniteSetTheorems, TLAPS

Making == {"compute", "writing"}
Keeping == {"count", "shrink", "using"}
Modes == {"no", "r", "w"}

Labels == {"off", "init", "idle", "purge", "unlink", "resize", "store", "get", "wait", "read",
           "reading", "create", "compute", "writing", "downgrade", "count", "shrink", "using"}

Types ==
    /\ pc \in [Procs -> Labels]
    /\ file \in [Procs -> Files \cup {NoFile}]
    /\ mine \in [Procs -> Inodes \cup {0}] /\ opened \in [Procs -> Inodes \cup {0}]
    /\ cl \in [Procs -> Modes]
    /\ fl \in [Procs -> [Inodes -> Modes]]
    /\ dir \in [Files -> Inodes \cup {0}]
    /\ text \in [Inodes -> {"part", "whole"}]
    /\ made \in 0 .. MaxFiles /\ fails \in Nat
    /\ failed \subseteq Procs

\* Readers and writers of the info file exclude each other.
CacheLocked ==
    \A p, q \in Procs : p # q /\ cl[p] = "w" => cl[q] = "no"

\* So do those of a file.
FilesLocked ==
    \A p, q \in Procs, i \in Inodes : p # q /\ fl[p][i] = "w" => fl[q][i] = "no"

\* Only files that were made are locked.
OldLocked ==
    \A p \in Procs, i \in Inodes : fl[p][i] # "no" => i <= made

\* An inode has one name at most, and is one that was made.
Names ==
    /\ \A f \in Files : dir[f] <= made
    /\ \A f, g \in Files : dir[f] = dir[g] /\ dir[f] # 0 => f = g

\* A process that works on a file has locked it, under the name it knows.
OnFile(p) ==
    /\ pc[p] \notin {"off", "init", "idle"} => file[p] \in Files
    /\ pc[p] \in {"wait", "unlink"} => Named(p) # 0
    /\ pc[p] = "wait" => cl[p] = "r"
    /\ pc[p] = "unlink" => cl[p] = "w"
    /\ pc[p] = "read" => Named(p) # 0 /\ fl[p][Named(p)] = "r"
    /\ pc[p] = "reading" => opened[p] # 0 /\ Named(p) = opened[p] /\ fl[p][opened[p]] = "r"

\* The file a process makes is its own: it has the name of the request or none.
OnNew(p) ==
    /\ mine[p] <= made
    /\ pc[p] \notin Making \cup Keeping \cup {"downgrade"} => mine[p] = 0
    /\ pc[p] \in Making => mine[p] # 0 /\ Named(p) = mine[p] /\ fl[p][mine[p]] = "w"
    /\ pc[p] = "downgrade" => mine[p] # 0
    /\ pc[p] \in Keeping /\ mine[p] # 0 => fl[p][mine[p]] = "r"
    /\ mine[p] # 0 => \A f \in Files : dir[f] = mine[p] => f = file[p]

\* Without failures a file is complete or being written.
Complete ==
    fails = 0 /\ failed = {} => \A i \in Inodes : i <= made =>
        text[i] = "whole" \/ \E q \in Procs : pc[q] \in Making /\ mine[q] = i

IInv ==
    /\ Types /\ CacheLocked /\ FilesLocked /\ OldLocked /\ Names
    /\ \A p \in Procs : OnFile(p) /\ OnNew(p)
    /\ Complete

-----------------------------------------------------------------------------
(* What close() and fcntl() do to the locks.                               *)

Closed(p, S) ==
    /\ fl' \in [Procs -> [Inodes -> Modes]]
    /\ \A q \in Procs, i \in Inodes : fl'[q][i] = IF q = p /\ i \in S THEN "no" ELSE fl[q][i]

\* Closing files changes the locks of the process on them and nothing else.
LEMMA CloseEffect ==
    ASSUME Types, NEW p \in Procs, NEW S, Close(p, S)
    PROVE Closed(p, S)
  BY DEF Types, Close, Closed, Modes

\* What changes no lock closes nothing.
LEMMA NothingClosed ==
    ASSUME Types, NEW p \in Procs, UNCHANGED fl
    PROVE Closed(p, {})
  BY DEF Types, Closed

Locked(p, i, m) ==
    /\ fl' \in [Procs -> [Inodes -> Modes]]
    /\ \A q \in Procs, j \in Inodes : fl'[q][j] = IF q = p /\ j = i THEN m ELSE fl[q][j]

\* Locking a file changes the lock of the process on it and nothing else.
LEMMA LockEffect ==
    ASSUME Types, NEW p \in Procs, NEW i \in Inodes, NEW m \in Modes, LockFile(p, i, m)
    PROVE Locked(p, i, m)
  BY DEF Types, LockFile, Locked, Modes

\* Closing files, of any process, leaves the rest of the locks as they were.
LEMMA CloseKeepsLocked ==
    ASSUME Types, FilesLocked, OldLocked, NEW p \in Procs, NEW S, Closed(p, S), made' = made
    PROVE FilesLocked' /\ OldLocked'
<1>1. FilesLocked'
  BY DEF FilesLocked, Closed, Types, Modes
<1>2. OldLocked'
  BY DEF OldLocked, Closed, Types, Modes
<1> QED  BY <1>1, <1>2

\* A lock is granted only if the locks of the others allow it.
LEMMA LockKeepsLocked ==
    ASSUME Types, FilesLocked, OldLocked, NEW p \in Procs, NEW i \in Inodes,
           NEW m \in {"r", "w"}, Locked(p, i, m), FileFree(p, i, m),
           made' \in Nat, made <= made', i <= made'
    PROVE FilesLocked' /\ OldLocked'
<1>1. FilesLocked'
  <2> SUFFICES ASSUME NEW q \in Procs, NEW r \in Procs, NEW j \in Inodes, q # r, fl'[q][j] = "w"
               PROVE fl'[r][j] = "no"
    BY DEF FilesLocked
  <2>1. CASE q = p /\ j = i
    BY <2>1 DEF Locked, FileFree, Hinders, Types, Modes
  <2>2. CASE r = p /\ j = i
    BY <2>2 DEF Locked, FileFree, Hinders, Types, Modes
  <2>3. CASE ~(q = p /\ j = i) /\ ~(r = p /\ j = i)
    BY <2>3 DEF Locked, FilesLocked
  <2> QED  BY <2>1, <2>2, <2>3
<1>2. OldLocked'
  BY DEF OldLocked, Locked, Types, Inodes
<1> QED  BY <1>1, <1>2

-----------------------------------------------------------------------------
(* Each action keeps the invariant.                                        *)

\* The other processes are where they were, with the locks they had.
Others(p) ==
    \A q \in Procs \ {p} :
        /\ pc'[q] = pc[q] /\ file'[q] = file[q]
        /\ mine'[q] = mine[q] /\ opened'[q] = opened[q]
        /\ cl'[q] = cl[q] /\ \A i \in Inodes : fl'[q][i] = fl[q][i]

\* A reader has a file of the directory locked, a maker its own.
LEMMA FileOfReader ==
    ASSUME IInv, NEW p \in Procs, pc[p] \in {"read", "reading"}
    PROVE file[p] \in Files /\ Named(p) \in Inodes /\ fl[p][Named(p)] = "r"
<1>1. file[p] \in Files
  BY DEF IInv, OnFile
<1>2. Named(p) # 0 /\ fl[p][Named(p)] = "r"
  BY DEF IInv, OnFile
<1>3. dir \in [Files -> Inodes \cup {0}]
  BY DEF IInv, Types
<1> QED  BY <1>1, <1>2, <1>3 DEF Named

\* While no name changes, a process disturbs what holds of itself only.
LEMMA Frame ==
    ASSUME IInv, NEW p \in Procs, Others(p), UNCHANGED <<dir, made>>,
           Types', CacheLocked', FilesLocked', OldLocked', OnFile(p)', OnNew(p)', Complete'
    PROVE IInv'
<1>1. Names'
  BY DEF IInv, Names
<1>2. ASSUME NEW q \in Procs PROVE OnFile(q)' /\ OnNew(q)'
  <2>1. CASE q = p
    BY <2>1
  <2>2. CASE q # p
    <3>0. pc[q] \in {"read", "reading"} => Named(q) \in Inodes
      BY FileOfReader
    <3>1. Named(q)' = Named(q)
      BY <2>2 DEF Others, Named
    <3>2. OnFile(q)'
      BY <2>2, <3>0, <3>1 DEF IInv, Others, OnFile
    <3>3. mine[q] \in Inodes \cup {0}
      BY DEF IInv, Types
    <3>4. OnNew(q)'
      BY <2>2, <3>1, <3>3 DEF IInv, Others, OnNew, Making
    <3> QED  BY <3>2, <3>4
  <2> QED  BY <2>1, <2>2
<1> QED  BY <1>1, <1>2 DEF IInv

\* An exception leaves the request, whatever files it closes on its way.
LEMMA AbandonKeeps ==
    ASSUME IInv, NEW p \in Procs, NEW S, Abandon(p), Closed(p, S),
           UNCHANGED <<dir, text, made>>, fails' \in Nat
    PROVE IInv'
<1> USE DEF Abandon, EndRequest, Goto, LockCache, history
<1>1. Types' /\ Others(p)
  BY DEF IInv, Types, Labels, Modes, Closed, Others
<1>2. CacheLocked'
  BY DEF IInv, Types, CacheLocked
<1>3. FilesLocked' /\ OldLocked'
  BY CloseKeepsLocked DEF IInv
<1>4. OnFile(p)' /\ OnNew(p)'
  BY DEF IInv, Types, OnFile, OnNew, Making, Keeping, Inodes
<1>5. Complete'
  BY DEF IInv, Types, Complete
<1> QED  BY <1>1, <1>2, <1>3, <1>4, <1>5, Frame

\* A process starts and may make the info file.
LEMMA StartKeeps ==
    ASSUME IInv, NEW p \in Procs, Start(p)
    PROVE IInv'
<1> USE DEF Start, Goto, session, locks, disk, history, counts
<1>0. Closed(p, {})
  BY NothingClosed DEF IInv, Types
<1>9. pc' \in [Procs -> Labels]
  BY DEF IInv, Types, Labels
<1>1. Types' /\ Others(p)
  <2>1. Types'
    BY <1>0, <1>9 DEF IInv, Types, Modes, Inodes, OnFile, OnNew, Making, Named, Closed
  <2>2. Others(p)
    BY <1>0 DEF IInv, Types, Modes, Closed, Others
  <2> QED  BY <2>1, <2>2
<1>2. CacheLocked'
  BY DEF IInv, Types, Modes, CacheLocked, CacheFree, Hinders
<1>3. FilesLocked' /\ OldLocked'
  BY <1>0, CloseKeepsLocked DEF IInv
<1>4. OnFile(p)' /\ OnNew(p)'
  BY <1>0, <1>1 DEF IInv, Types, OnFile, OnNew, Making, Keeping, Named, Inodes, Closed
<1>5. Complete'
  BY <1>1 DEF IInv, Types, Complete, OnNew, Making, Inodes
<1> QED  BY <1>1, <1>2, <1>3, <1>4, <1>5, Frame

\* The maker of the info file writes it.
LEMMA WriteInfoKeeps ==
    ASSUME IInv, NEW p \in Procs, WriteInfo(p)
    PROVE IInv'
<1> USE DEF WriteInfo, Goto, session, locks, disk, history, counts
<1>0. Closed(p, {})
  BY NothingClosed DEF IInv, Types
<1>9. pc' \in [Procs -> Labels]
  BY DEF IInv, Types, Labels
<1>1. Types' /\ Others(p)
  <2>1. Types'
    BY <1>0, <1>9 DEF IInv, Types, Modes, Inodes, OnFile, OnNew, Making, Named, Closed
  <2>2. Others(p)
    BY <1>0 DEF IInv, Types, Modes, Closed, Others
  <2> QED  BY <2>1, <2>2
<1>2. CacheLocked'
  BY DEF IInv, Types, Modes, CacheLocked, CacheFree, Hinders
<1>3. FilesLocked' /\ OldLocked'
  BY <1>0, CloseKeepsLocked DEF IInv
<1>4. OnFile(p)' /\ OnNew(p)'
  BY <1>0, <1>1 DEF IInv, Types, OnFile, OnNew, Making, Keeping, Named, Inodes, Closed
<1>5. Complete'
  BY <1>1 DEF IInv, Types, Complete, OnNew, Making, Inodes
<1> QED  BY <1>1, <1>2, <1>3, <1>4, <1>5, Frame

\* A request comes: nothing is locked yet.
LEMMA RequestKeeps ==
    ASSUME IInv, NEW p \in Procs, NEW f \in Files, Request(p, f)
    PROVE IInv'
<1> USE DEF Request, Goto, session, locks, disk, history, counts
<1>0. Closed(p, {})
  BY NothingClosed DEF IInv, Types
<1>9. pc' \in [Procs -> Labels]
  BY DEF IInv, Types, Labels
<1>1. Types' /\ Others(p)
  <2>1. Types'
    BY <1>0, <1>9 DEF IInv, Types, Modes, Inodes, OnFile, OnNew, Making, Named, Closed
  <2>2. Others(p)
    BY <1>0 DEF IInv, Types, Modes, Closed, Others
  <2> QED  BY <2>1, <2>2
<1>2. CacheLocked'
  BY DEF IInv, Types, Modes, CacheLocked, CacheFree, Hinders
<1>3. FilesLocked' /\ OldLocked'
  BY <1>0, CloseKeepsLocked DEF IInv
<1>4. OnFile(p)' /\ OnNew(p)'
  BY <1>0, <1>1 DEF IInv, Types, OnFile, OnNew, Making, Keeping, Named, Inodes, Closed
<1>5. Complete'
  BY <1>1 DEF IInv, Types, Complete, OnNew, Making, Inodes
<1> QED  BY <1>1, <1>2, <1>3, <1>4, <1>5, Frame

\* A step of p from one label to another.
LEMMA GotoTyped ==
    ASSUME Types, NEW p \in Procs, NEW l \in Labels, Goto(p, l)
    PROVE pc' \in [Procs -> Labels]
  BY DEF Types, Goto

\* purge_file() locks the cache, exclusively.
LEMMA PurgeKeeps ==
    ASSUME IInv, NEW p \in Procs, Purge(p)
    PROVE IInv'
<1> USE DEF Purge, Goto, LockCache, session, locks, disk, history, counts
<1>0. Closed(p, {})
  BY NothingClosed DEF IInv, Types
<1>9. pc' \in [Procs -> Labels]
  <2>1. "get" \in Labels /\ "unlink" \in Labels
    BY DEF Labels
  <2> QED  BY <2>1, GotoTyped DEF IInv
<1>1. Types' /\ Others(p)
  <2>1. Types'
    BY <1>0, <1>9 DEF IInv, Types, Modes, Inodes, OnFile, OnNew, Making, Named, Closed
  <2>2. Others(p)
    BY <1>0 DEF IInv, Types, Modes, Closed, Others
  <2> QED  BY <2>1, <2>2
<1>2. CacheLocked'
  BY DEF IInv, Types, Modes, CacheLocked, CacheFree, Hinders
<1>3. FilesLocked' /\ OldLocked'
  BY <1>0, CloseKeepsLocked DEF IInv
<1>4. OnFile(p)' /\ OnNew(p)'
  BY <1>0, <1>1 DEF IInv, Types, OnFile, OnNew, Making, Keeping, Named, Inodes, Closed
<1>5. Complete'
  BY <1>1 DEF IInv, Types, Complete, OnNew, Making, Inodes
<1> QED  BY <1>1, <1>2, <1>3, <1>4, <1>5, Frame

\* Where a name goes, the file had no other user: p alone had it locked.
LEMMA GoneKeeps ==
    ASSUME IInv, NEW p \in Procs, NEW S, NEW F \in SUBSET Files, Others(p), Closed(p, S),
           UNCHANGED <<text, made, fails, failed, mine>>, Types', CacheLocked',
           dir' = [f \in Files |-> IF f \in F THEN 0 ELSE dir[f]],
           \A f \in F : dir[f] # 0 /\ FileFree(p, dir[f], "w"),
           \A q \in Procs \ {p} : cl[q] = "no",
           OnFile(p)', OnNew(p)', Complete'
    PROVE IInv'
<1>1. FilesLocked' /\ OldLocked'
  BY CloseKeepsLocked DEF IInv
<1>2. Names'
  BY DEF IInv, Types, Names, Inodes
<1>3. ASSUME NEW q \in Procs, q # p PROVE OnFile(q)' /\ OnNew(q)'
  <2>1. \A f \in F : dir[f] \in Inodes /\ fl[q][dir[f]] = "no"
    <3> SUFFICES ASSUME NEW f \in F PROVE dir[f] \in Inodes /\ fl[q][dir[f]] = "no"
      OBVIOUS
    <3>1. dir[f] \in Inodes
      BY DEF IInv, Types
    <3>2. fl[q][dir[f]] \in Modes
      <4>1. fl \in [Procs -> [Inodes -> Modes]]
        BY DEF IInv, Types
      <4>2. fl[q] \in [Inodes -> Modes]
        BY <4>1
      <4> QED  BY <3>1, <4>2
    <3>3. FileFree(p, dir[f], "w")
      OBVIOUS
    <3>4. ~Hinders(fl[q][dir[f]], "w")
      BY <1>3, <3>3 DEF FileFree
    <3> QED  BY <3>1, <3>2, <3>4 DEF Modes, Hinders
  <2>2. OnFile(q)'
    <3>1. pc[q] \notin {"wait", "unlink"}
      BY <1>3 DEF IInv, OnFile
    <3>2. pc[q] \in {"read", "reading"} => Named(q) \in Inodes /\ file[q] \notin F
      BY <2>1, FileOfReader DEF Named
    <3>3. pc[q] \in {"read", "reading"} => Named(q)' = Named(q)
      BY <1>3, <3>2, FileOfReader DEF Others, Named
    <3> QED  BY <1>3, <3>1, <3>2, <3>3 DEF IInv, Others, OnFile
  <2>3. OnNew(q)'
    <3>1. pc[q] \in Making => file[q] \in Files /\ file[q] \notin F
      <4>1. pc[q] \in Making => file[q] \in Files
        BY DEF IInv, OnFile, Making
      <4>2. pc[q] \in Making => fl[q][dir[file[q]]] = "w"
        BY DEF IInv, OnNew, Named
      <4> QED  BY <2>1, <4>1, <4>2
    <3>2. pc[q] \in Making => Named(q)' = Named(q)
      BY <1>3, <3>1 DEF IInv, Types, Others, Named
    <3>3. mine[q] # 0 => mine[q] \in Inodes
      BY DEF IInv, Types
    <3>4. mine[q] # 0 => \A f \in Files : dir'[f] = mine[q] => f = file[q]
      BY <3>3 DEF IInv, Types, OnNew, Inodes
    <3> QED  BY <1>3, <3>2, <3>3, <3>4 DEF IInv, Others, OnNew, Making
  <2> QED  BY <2>2, <2>3
<1> QED  BY <1>1, <1>2, <1>3 DEF IInv

\* purge_file() removes a file that nobody else has locked.
LEMMA UnlinkKeeps ==
    ASSUME IInv, NEW p \in Procs, Unlink(p)
    PROVE IInv'
<1> USE DEF Unlink, Goto, history, counts
<1>0. Closed(p, {Named(p)})
  BY CloseEffect DEF IInv
<1>9. pc' \in [Procs -> Labels]
  BY DEF IInv, Types, Labels
<1>1. /\ file[p] \in Files /\ dir[file[p]] # 0 /\ FileFree(p, dir[file[p]], "w")
      /\ \A q \in Procs \ {p} : cl[q] = "no"
  BY DEF IInv, OnFile, Named, CacheLocked
<1>6. dir' = [f \in Files |-> IF f \in {file[p]} THEN 0 ELSE dir[f]]
  BY DEF IInv, Types
<1>2. Types' /\ Others(p)
  BY <1>0, <1>1, <1>6, <1>9 DEF IInv, Types, Inodes, Closed, Others
<1>3. CacheLocked'
  BY DEF IInv, CacheLocked
<1>4. OnFile(p)' /\ OnNew(p)'
  BY <1>1, <1>2 DEF IInv, Types, OnFile, OnNew, Making, Keeping, Named
<1>5. Complete'
  BY <1>2 DEF IInv, Types, Complete, OnNew, Making
<1> QED  BY <1>0, <1>1, <1>2, <1>3, <1>4, <1>5, <1>6, GoneKeeps

\* purge_file() reads the size, and gives the lock of the cache up.
LEMMA ResizeKeeps ==
    ASSUME IInv, NEW p \in Procs, Resize(p)
    PROVE IInv'
<1>1. CASE Throw(p)
  BY <1>1, NothingClosed, AbandonKeeps DEF IInv, Types, Throw, Resize, disk, counts
<1>2. CASE ~Throw(p)
  <2> USE <1>2 DEF Resize, Goto, LockCache, session, locks, disk, history, counts
  <2>0. Closed(p, {})
    BY NothingClosed DEF IInv, Types
  <2>9. pc' \in [Procs -> Labels]
    BY DEF IInv, Types, Labels
  <2>1. Types' /\ Others(p)
    <3>1. Types'
      BY <2>0, <2>9 DEF IInv, Types, Modes, Inodes, Closed
    <3>2. Others(p)
      BY <2>0 DEF IInv, Types, Modes, Closed, Others
    <3> QED  BY <3>1, <3>2
  <2>2. CacheLocked'
    BY DEF IInv, Types, Modes, CacheLocked, CacheFree, Hinders
  <2>3. FilesLocked' /\ OldLocked'
    BY <2>0, CloseKeepsLocked DEF IInv
  <2>4. OnFile(p)' /\ OnNew(p)'
    BY <2>0, <2>1 DEF IInv, Types, OnFile, OnNew, Making, Keeping, Named, Inodes, Closed
  <2>5. Complete'
    BY <2>1 DEF IInv, Types, Complete, OnNew, Making, Inodes
  <2> QED  BY <2>1, <2>2, <2>3, <2>4, <2>5, Frame
<1> QED  BY <1>1, <1>2

\* purge_file() writes the size.
LEMMA StoreKeeps ==
    ASSUME IInv, NEW p \in Procs, Store(p)
    PROVE IInv'
<1> USE DEF Store, Goto, session, locks, disk, history, counts
<1>0. Closed(p, {})
  BY NothingClosed DEF IInv, Types
<1>9. pc' \in [Procs -> Labels]
  BY DEF IInv, Types, Labels
<1>1. Types' /\ Others(p)
  <2>1. Types'
    BY <1>0, <1>9 DEF IInv, Types, Modes, Inodes, OnFile, OnNew, Making, Named, Closed
  <2>2. Others(p)
    BY <1>0 DEF IInv, Types, Modes, Closed, Others
  <2> QED  BY <2>1, <2>2
<1>2. CacheLocked'
  BY DEF IInv, Types, Modes, CacheLocked, CacheFree, Hinders
<1>3. FilesLocked' /\ OldLocked'
  BY <1>0, CloseKeepsLocked DEF IInv
<1>4. OnFile(p)' /\ OnNew(p)'
  BY <1>0, <1>1 DEF IInv, Types, OnFile, OnNew, Making, Keeping, Named, Inodes, Closed
<1>5. Complete'
  BY <1>1 DEF IInv, Types, Complete, OnNew, Making, Inodes
<1> QED  BY <1>1, <1>2, <1>3, <1>4, <1>5, Frame

\* get_read_lock() opens the file with the cache locked for reading.
LEMMA GetKeeps ==
    ASSUME IInv, NEW p \in Procs, Get(p)
    PROVE IInv'
<1>1. CASE Throw(p)
  BY <1>1, NothingClosed, AbandonKeeps DEF IInv, Types, Throw, Get, disk, counts
<1>2. CASE ~Throw(p)
  <2> USE <1>2 DEF Get, Goto, LockCache, session, locks, disk, history, counts
  <2>0. Closed(p, {})
    BY NothingClosed DEF IInv, Types
  <2>9. pc' \in [Procs -> Labels]
    BY DEF IInv, Types, Labels
  <2>1. Types' /\ Others(p)
    <3>1. Types'
      BY <2>0, <2>9 DEF IInv, Types, Modes, Inodes, OnFile, OnNew, Making, Named, Closed
    <3>2. Others(p)
      BY <2>0 DEF IInv, Types, Modes, Closed, Others
    <3> QED  BY <3>1, <3>2
  <2>2. CacheLocked'
    BY DEF IInv, Types, Modes, CacheLocked, CacheFree, Hinders
  <2>3. FilesLocked' /\ OldLocked'
    BY <2>0, CloseKeepsLocked DEF IInv
  <2>4. OnFile(p)' /\ OnNew(p)'
    BY <2>0, <2>1 DEF IInv, Types, OnFile, OnNew, Making, Keeping, Named, Inodes, Closed
  <2>5. Complete'
    BY <2>1 DEF IInv, Types, Complete, OnNew, Making, Inodes
  <2> QED  BY <2>1, <2>2, <2>3, <2>4, <2>5, Frame
<1> QED  BY <1>1, <1>2

\* get_read_lock() gets its lock and gives that of the cache up.
LEMMA WaitKeeps ==
    ASSUME IInv, NEW p \in Procs, Wait(p)
    PROVE IInv'
<1> USE DEF Wait, Goto, LockCache, Record, session, locks, disk, history, counts
<1>0. Named(p) \in Inodes /\ Named(p) <= made /\ made \in Nat
  BY DEF IInv, Types, Names, OnFile, OnNew, Named, Making, Inodes
<1>1. Locked(p, Named(p), "r")
  BY <1>0, LockEffect DEF IInv, Modes
<1>9. pc'[p] = "read" /\ file'[p] = file[p]
  BY DEF IInv, Types
<1>2. Types' /\ Others(p)
  BY <1>1 DEF IInv, Types, Labels, Modes, Locked, Others
<1>3. CacheLocked'
  BY DEF IInv, Types, Modes, CacheLocked
<1>4. FilesLocked' /\ OldLocked'
  BY <1>0, <1>1, LockKeepsLocked DEF IInv, Inodes
<1>5. OnFile(p)' /\ OnNew(p)'
  <2>1. OnFile(p)'
    BY <1>0, <1>1, <1>9 DEF IInv, OnFile, Named, Locked
  <2>2. OnNew(p)'
    BY <1>0, <1>1 DEF IInv, Types, OnNew, Making, Keeping, Named, Locked
  <2> QED  BY <2>1, <2>2
<1>6. Complete'
  BY <1>2 DEF IInv, Types, Complete, OnNew, Making, Inodes
<1> QED  BY <1>2, <1>3, <1>4, <1>5, <1>6, Frame

\* The file is opened again, by its name.
LEMMA OpenKeeps ==
    ASSUME IInv, NEW p \in Procs, Open(p)
    PROVE IInv'
<1> USE DEF Open, Goto, session, locks, disk, history, counts
<1>0. Closed(p, {})
  BY NothingClosed DEF IInv, Types
<1>9. pc' \in [Procs -> Labels]
  BY DEF IInv, Types, Labels
<1>1. Types' /\ Others(p)
  <2>1. Types'
    BY <1>0, <1>9 DEF IInv, Types, Modes, Inodes, OnFile, OnNew, Making, Named, Closed
  <2>2. Others(p)
    BY <1>0 DEF IInv, Types, Modes, Closed, Others
  <2> QED  BY <2>1, <2>2
<1>2. CacheLocked'
  BY DEF IInv, Types, Modes, CacheLocked, CacheFree, Hinders
<1>3. FilesLocked' /\ OldLocked'
  BY <1>0, CloseKeepsLocked DEF IInv
<1>4. OnFile(p)' /\ OnNew(p)'
  BY <1>0, <1>1 DEF IInv, Types, OnFile, OnNew, Making, Keeping, Named, Inodes, Closed
<1>5. Complete'
  BY <1>1 DEF IInv, Types, Complete, OnNew, Making, Inodes
<1> QED  BY <1>1, <1>2, <1>3, <1>4, <1>5, Frame

\* The file is read; closing it gives its lock up.
LEMMA ReadKeeps ==
    ASSUME IInv, NEW p \in Procs, Read(p)
    PROVE IInv'
<1>1. CASE Throw(p)
  BY <1>1, NothingClosed, AbandonKeeps DEF IInv, Types, Throw, Read, disk, counts
<1>2. CASE ~Throw(p)
  <2> USE <1>2 DEF Read, Goto, session, locks, disk, history, counts
  <2>0. Closed(p, {opened[p]})
    BY CloseEffect DEF IInv, Types
  <2>9. pc' \in [Procs -> Labels]
    BY DEF IInv, Types, Labels
  <2>1. Types' /\ Others(p)
    <3>1. Types'
      BY <2>0, <2>9 DEF IInv, Types, Modes, Inodes, Closed
    <3>2. Others(p)
      BY <2>0 DEF IInv, Types, Modes, Closed, Others
    <3> QED  BY <3>1, <3>2
  <2>2. CacheLocked'
    BY DEF IInv, Types, Modes, CacheLocked, CacheFree, Hinders
  <2>3. FilesLocked' /\ OldLocked'
    BY <2>0, CloseKeepsLocked DEF IInv
  <2>4. OnFile(p)' /\ OnNew(p)'
    <3>1. OnFile(p)'
      BY DEF IInv, Types, OnFile, OnNew, Named
    <3>2. OnNew(p)'
      BY DEF IInv, Types, OnNew, Making, Keeping
    <3> QED  BY <3>1, <3>2
  <2>5. Complete'
    BY <2>1 DEF IInv, Types, Complete, OnNew, Making, Inodes
  <2> QED  BY <2>1, <2>2, <2>3, <2>4, <2>5, Frame
<1> QED  BY <1>1, <1>2

\* create_and_lock() makes a file, which nobody can have locked before.
LEMMA CreateKeeps ==
    ASSUME IInv, NEW p \in Procs, Create(p)
    PROVE IInv'
<1> USE DEF Create, Goto, Record, history
<1>9. pc' \in [Procs -> Labels]
  <2>1. "get" \in Labels /\ "compute" \in Labels
    BY DEF Labels
  <2> QED  BY <2>1, GotoTyped DEF IInv
<1>1. CASE Named(p) # 0
  <2> USE <1>1
  <2>0. Closed(p, {})
    BY NothingClosed DEF IInv, Named
  <2>1. Types' /\ Others(p)
    BY <1>9 DEF IInv, Types, Named, Others
  <2>2. CacheLocked'
    BY DEF IInv, CacheLocked
  <2>3. FilesLocked' /\ OldLocked'
    BY <2>0, CloseKeepsLocked DEF IInv, Named
  <2>4. OnFile(p)' /\ OnNew(p)'
    BY <2>1 DEF IInv, Types, OnFile, OnNew, Making, Keeping, Named, Inodes
  <2>5. Complete'
    BY <2>1 DEF IInv, Types, Complete, OnNew, Making, Named
  <2> QED  BY <2>1, <2>2, <2>3, <2>4, <2>5, Frame DEF Named
<1>2. CASE Named(p) = 0
  <2> DEFINE n == made + 1
  <2>0. /\ n \in Inodes /\ made' = n /\ file[p] \in Files /\ mine[p] = 0
        /\ mine' = [mine EXCEPT ![p] = n] /\ dir' = [dir EXCEPT ![file[p]] = n]
        /\ LockFile(p, n, "w") /\ UNCHANGED <<file, opened, cl, text, fails, failed>>
        /\ pc[p] = "create" /\ pc' = [pc EXCEPT ![p] = "compute"]
        /\ made \in Nat /\ made < n
    <3>1. made \in Nat /\ made < MaxFiles /\ MaxFiles \in Nat
      BY <1>2, LimitAssumption DEF IInv, Types, Named
    <3>2. file[p] \in Files /\ mine[p] = 0
      BY DEF IInv, OnFile, OnNew, Making, Keeping
    <3> QED  BY <1>2, <3>1, <3>2 DEF Named, Inodes
  <2>1. Locked(p, n, "w")
    BY <2>0, LockEffect DEF IInv, Modes
  <2> HIDE DEF n, Create
  <2>2. Types' /\ Others(p)
    <3>1. Types'
      <4>1. dir' \in [Files -> Inodes \cup {0}] /\ mine' \in [Procs -> Inodes \cup {0}]
        BY <2>0 DEF IInv, Types
      <4>2. made' \in 0 .. MaxFiles
        BY <2>0 DEF Inodes
      <4> QED  BY <1>9, <2>0, <2>1, <4>1, <4>2 DEF IInv, Types, Locked
    <3>2. Others(p)
      BY <2>0, <2>1 DEF IInv, Types, Locked, Others
    <3> QED  BY <3>1, <3>2
  <2>3. CacheLocked'
    BY <2>0 DEF IInv, CacheLocked
  <2>4. FilesLocked' /\ OldLocked'
    <3>1. \A q \in Procs : fl[q][n] = "no"
      BY <2>0 DEF IInv, OldLocked, Inodes
    <3>2. FileFree(p, n, "w")
      BY <3>1 DEF FileFree, Hinders
    <3>3. made' \in Nat /\ made <= made' /\ n <= made'
      BY <2>0 DEF Inodes
    <3> QED  BY <2>0, <2>1, <3>2, <3>3, LockKeepsLocked DEF IInv
  <2>5. Names'
    BY <2>0 DEF IInv, Types, Names, Inodes
  <2>6. ASSUME NEW q \in Procs, q # p PROVE OnFile(q)'
    <3>1. Named(q) # 0 => file[q] # file[p]
      BY <1>2 DEF Named
    <3>2. pc[q] \in {"read", "reading", "wait", "unlink"} => Named(q) \in Inodes
      <4>1. pc[q] \in {"wait", "unlink"} => file[q] \in Files /\ Named(q) # 0
        BY DEF IInv, OnFile
      <4> QED  BY <4>1, FileOfReader DEF IInv, Types, Named
    <3>3. pc[q] \in {"read", "reading", "wait", "unlink"} => Named(q)' = Named(q)
      BY <2>0, <2>2, <2>6, <3>1, <3>2 DEF IInv, Types, OnFile, Others, Named, Inodes
    <3> QED  BY <2>2, <2>6, <3>2, <3>3 DEF IInv, Others, OnFile
  <2>7. ASSUME NEW q \in Procs, q # p PROVE OnNew(q)'
    <3>1. Named(q) # 0 => file[q] # file[p]
      BY <1>2 DEF Named
    <3>2. pc[q] \in Making => Named(q)' = Named(q)
      BY <2>0, <2>2, <2>7, <3>1 DEF IInv, Types, OnFile, OnNew, Others, Named, Making
    <3>3. mine[q] # 0 => mine[q] \in Inodes /\ mine[q] # n
      BY <2>0 DEF IInv, Types, OnNew, Inodes
    <3>4. mine[q] # 0 => \A f \in Files : dir'[f] = mine[q] => f = file[q]
      BY <2>0, <3>3 DEF IInv, Types, OnNew
    <3> QED  BY <2>0, <2>2, <2>7, <3>2, <3>3, <3>4 DEF IInv, Types, Others, OnNew, Inodes, Making
  <2>8. OnFile(p)'
    BY <2>0, <2>2 DEF IInv, Types, OnFile, Named
  <2>9. OnNew(p)'
    BY <2>0, <2>1, <2>2 DEF IInv, Types, Names, OnNew, Named, Making, Keeping, Locked
  <2>10. Complete'
    <3> SUFFICES ASSUME fails = 0 /\ failed = {}, NEW i \in Inodes, i <= n
                 PROVE text[i] = "whole" \/ \E q \in Procs : pc'[q] \in Making /\ mine'[q] = i
      BY <2>0 DEF Complete, IInv, Types
    <3>1. CASE i = n
      BY <2>0, <3>1 DEF IInv, Types, Making
    <3>2. CASE i # n
      <4>1. i <= made
        BY <2>0, <3>2 DEF Inodes, n
      <4> QED  BY <2>0, <4>1 DEF IInv, Types, Complete, Making
    <3> QED  BY <3>1, <3>2
  <2> QED  BY <2>2, <2>3, <2>4, <2>5, <2>6, <2>7, <2>8, <2>9, <2>10 DEF IInv
<1> QED  BY <1>1, <1>2

\* The function is computed.
LEMMA ComputeKeeps ==
    ASSUME IInv, NEW p \in Procs, Compute(p)
    PROVE IInv'
<1> USE DEF Compute, Goto, session, locks, disk, history, counts
<1>0. Closed(p, {})
  BY NothingClosed DEF IInv, Types
<1>9. pc' \in [Procs -> Labels]
  BY DEF IInv, Types, Labels
<1>1. Types' /\ Others(p)
  <2>1. Types'
    BY <1>0, <1>9 DEF IInv, Types, Modes, Inodes, OnFile, OnNew, Making, Named, Closed
  <2>2. Others(p)
    BY <1>0 DEF IInv, Types, Modes, Closed, Others
  <2> QED  BY <2>1, <2>2
<1>2. CacheLocked'
  BY DEF IInv, Types, Modes, CacheLocked, CacheFree, Hinders
<1>3. FilesLocked' /\ OldLocked'
  BY <1>0, CloseKeepsLocked DEF IInv
<1>4. OnFile(p)' /\ OnNew(p)'
  BY <1>0, <1>1 DEF IInv, Types, OnFile, OnNew, Making, Keeping, Named, Inodes, Closed
<1>5. Complete'
  BY <1>1 DEF IInv, Types, Complete, OnNew, Making, Inodes
<1> QED  BY <1>1, <1>2, <1>3, <1>4, <1>5, Frame

\* The file is written; closing it gives its lock up.
LEMMA WriteKeeps ==
    ASSUME IInv, NEW p \in Procs, Write(p)
    PROVE IInv'
<1> USE DEF Write, CloseNew, Goto, session, locks, disk, history, counts
<1>0. Closed(p, {mine[p]})
  BY CloseEffect DEF IInv, Types
<1>9. pc' \in [Procs -> Labels]
  BY DEF IInv, Types, Labels
<1>1. Types' /\ Others(p)
  <2>1. Types'
    BY <1>0, <1>9 DEF IInv, Types, Modes, Inodes, OnFile, OnNew, Making, Named, Closed
  <2>2. Others(p)
    BY <1>0 DEF IInv, Types, Modes, Closed, Others
  <2> QED  BY <2>1, <2>2
<1>2. CacheLocked'
  BY DEF IInv, Types, Modes, CacheLocked, CacheFree, Hinders
<1>3. FilesLocked' /\ OldLocked'
  BY <1>0, CloseKeepsLocked DEF IInv
<1>4. OnFile(p)' /\ OnNew(p)'
  BY <1>0, <1>1 DEF IInv, Types, OnFile, OnNew, Making, Keeping, Named, Inodes, Closed
<1>5. Complete'
  BY <1>1 DEF IInv, Types, Complete, OnNew, Making, Inodes
<1> QED  BY <1>1, <1>2, <1>3, <1>4, <1>5, Frame

\* The file is written in part; closing it gives its lock up.
LEMMA WriteShortKeeps ==
    ASSUME IInv, NEW p \in Procs, WriteShort(p)
    PROVE IInv'
<1> USE DEF WriteShort, CloseNew, Goto, session, locks, disk, history, counts
<1>0. Closed(p, {mine[p]})
  BY CloseEffect DEF IInv, Types
<1>9. pc' \in [Procs -> Labels]
  BY DEF IInv, Types, Labels
<1>1. Types' /\ Others(p)
  <2>1. Types'
    BY <1>0, <1>9 DEF IInv, Types, Modes, Inodes, OnFile, OnNew, Making, Named, Closed
  <2>2. Others(p)
    BY <1>0 DEF IInv, Types, Modes, Closed, Others
  <2> QED  BY <2>1, <2>2
<1>2. CacheLocked'
  BY DEF IInv, Types, Modes, CacheLocked, CacheFree, Hinders
<1>3. FilesLocked' /\ OldLocked'
  BY <1>0, CloseKeepsLocked DEF IInv
<1>4. OnFile(p)' /\ OnNew(p)'
  BY <1>0, <1>1 DEF IInv, Types, OnFile, OnNew, Making, Keeping, Named, Inodes, Closed
<1>5. Complete'
  BY <1>1 DEF IInv, Types, Complete, OnNew, Making, Inodes
<1> QED  BY <1>1, <1>2, <1>3, <1>4, <1>5, Frame

\* The maker locks its file again, for reading.
LEMMA DowngradeKeeps ==
    ASSUME IInv, NEW p \in Procs, Downgrade(p)
    PROVE IInv'
<1> USE DEF Downgrade, Goto, session, locks, disk, history, counts
<1>0. mine[p] \in Inodes /\ mine[p] <= made /\ made \in Nat
  BY DEF IInv, Types, Names, OnFile, OnNew, Named, Making, Inodes
<1>1. Locked(p, mine[p], "r")
  BY <1>0, LockEffect DEF IInv, Modes
<1>9. pc'[p] = "count" /\ file'[p] = file[p]
  BY DEF IInv, Types
<1>2. Types' /\ Others(p)
  BY <1>1 DEF IInv, Types, Labels, Modes, Locked, Others
<1>3. CacheLocked'
  BY DEF IInv, Types, Modes, CacheLocked
<1>4. FilesLocked' /\ OldLocked'
  BY <1>0, <1>1, LockKeepsLocked DEF IInv, Inodes
<1>5. OnFile(p)' /\ OnNew(p)'
  <2>1. OnFile(p)'
    BY <1>0, <1>1, <1>9 DEF IInv, OnFile, Named, Locked
  <2>2. OnNew(p)'
    BY <1>0, <1>1 DEF IInv, Types, OnNew, Making, Keeping, Named, Locked
  <2> QED  BY <2>1, <2>2
<1>6. Complete'
  BY <1>2 DEF IInv, Types, Complete, OnNew, Making, Inodes
<1> QED  BY <1>2, <1>3, <1>4, <1>5, <1>6, Frame

\* update_cache_info() adds the size of the file.
LEMMA CountKeeps ==
    ASSUME IInv, NEW p \in Procs, Count(p)
    PROVE IInv'
<1>1. CASE Throw(p)
  BY <1>1, NothingClosed, AbandonKeeps DEF IInv, Types, Throw, Count, disk, counts
<1>2. CASE ~Throw(p)
  <2> USE <1>2 DEF Count, Goto, session, locks, disk, history, counts
  <2>0. Closed(p, {})
    BY NothingClosed DEF IInv, Types
  <2>9. pc' \in [Procs -> Labels]
    BY DEF IInv, Types, Labels
  <2>1. Types' /\ Others(p)
    <3>1. Types'
      BY <2>0, <2>9 DEF IInv, Types, Modes, Inodes, OnFile, OnNew, Making, Named, Closed
    <3>2. Others(p)
      BY <2>0 DEF IInv, Types, Modes, Closed, Others
    <3> QED  BY <3>1, <3>2
  <2>2. CacheLocked'
    BY DEF IInv, Types, Modes, CacheLocked, CacheFree, Hinders
  <2>3. FilesLocked' /\ OldLocked'
    BY <2>0, CloseKeepsLocked DEF IInv
  <2>4. OnFile(p)' /\ OnNew(p)'
    BY <2>0, <2>1 DEF IInv, Types, OnFile, OnNew, Making, Keeping, Named, Inodes, Closed
  <2>5. Complete'
    BY <2>1 DEF IInv, Types, Complete, OnNew, Making, Inodes
  <2> QED  BY <2>1, <2>2, <2>3, <2>4, <2>5, Frame
<1> QED  BY <1>1, <1>2

\* update_and_purge() removes files nobody has locked, but for the one just made.
LEMMA ShrinkKeeps ==
    ASSUME IInv, NEW p \in Procs, Shrink(p)
    PROVE IInv'
<1> USE DEF Goto, history, counts
<1>1. PICK F \in SUBSET (Present \ {file[p]}), V \in SUBSET (Present \ {file[p]}) :
        /\ \A f \in F : Idle(p, f)
        /\ dir' = [f \in Files |-> IF f \in F THEN 0 ELSE dir[f]]
        /\ Close(p, {dir[f] : f \in F \cup V})
  BY DEF Shrink, Evicts
<1> DEFINE S == {dir[f] : f \in F \cup V}
<1>2. Closed(p, S)
  BY <1>1, CloseEffect DEF IInv
<1>3. /\ pc[p] = "shrink" /\ pc' = [pc EXCEPT ![p] = "using"] /\ file[p] \in Files
      /\ UNCHANGED <<file, mine, opened, cl, text, made, fails, failed>>
      /\ \A q \in Procs \ {p} : cl[q] = "no"
  BY DEF Shrink, IInv, Types, Modes, OnFile, CacheFree, Hinders
<1>4. F \in SUBSET Files /\ \A f \in F : dir[f] # 0 /\ FileFree(p, dir[f], "w")
  BY <1>1 DEF Present, Idle
<1>5. mine[p] # 0 => mine[p] \notin S
  BY DEF IInv, OnNew, Present
<1> HIDE DEF S
<1>9. pc' \in [Procs -> Labels]
  BY <1>3 DEF IInv, Types, Labels
<1>6. Types' /\ Others(p)
  BY <1>1, <1>2, <1>3, <1>9 DEF IInv, Types, Inodes, Closed, Others
<1>7. CacheLocked'
  BY <1>3 DEF IInv, CacheLocked
<1>8. OnFile(p)'
  BY <1>3 DEF IInv, Types, OnFile
<1>10. OnNew(p)'
  <2>1. mine[p] # 0 => fl'[p][mine[p]] = "r"
    BY <1>2, <1>3, <1>5 DEF IInv, Types, OnNew, Keeping, Closed, Inodes
  <2>2. mine[p] # 0 => \A f \in Files : dir'[f] = mine[p] => f = file[p]
    BY <1>1 DEF IInv, Types, OnNew
  <2> QED  BY <1>3, <2>1, <2>2 DEF IInv, Types, OnNew, Making, Keeping
<1>11. Complete'
  BY <1>3, <1>6 DEF IInv, Types, Complete, OnNew, Making
<1> QED  BY <1>1, <1>2, <1>3, <1>4, <1>6, <1>7, <1>8, <1>10, <1>11, GoneKeeps

\* unlock_and_close() at the end of the request.
LEMMA UseKeeps ==
    ASSUME IInv, NEW p \in Procs, Use(p)
    PROVE IInv'
<1> USE DEF Use, EndRequest, Goto, session, locks, disk, history, counts
<1>0. Closed(p, {rec[p][file[p]]})
  BY CloseEffect DEF IInv, Types
<1>9. pc' \in [Procs -> Labels]
  BY DEF IInv, Types, Labels
<1>1. Types' /\ Others(p)
  <2>1. Types'
    BY <1>0, <1>9 DEF IInv, Types, Modes, Inodes, OnFile, OnNew, Making, Named, Closed
  <2>2. Others(p)
    BY <1>0 DEF IInv, Types, Modes, Closed, Others
  <2> QED  BY <2>1, <2>2
<1>2. CacheLocked'
  BY DEF IInv, Types, Modes, CacheLocked, CacheFree, Hinders
<1>3. FilesLocked' /\ OldLocked'
  BY <1>0, CloseKeepsLocked DEF IInv
<1>4. OnFile(p)' /\ OnNew(p)'
  BY <1>0, <1>1 DEF IInv, Types, OnFile, OnNew, Making, Keeping, Named, Inodes, Closed
<1>5. Complete'
  BY <1>1 DEF IInv, Types, Complete, OnNew, Making, Inodes
<1> QED  BY <1>1, <1>2, <1>3, <1>4, <1>5, Frame

\* An exception ends a request.
LEMMA FailKeeps ==
    ASSUME IInv, NEW p \in Procs, Fail(p)
    PROVE IInv'
<1>1. PICK S \in {{}, {mine[p]}} : Closed(p, S)
  BY CloseEffect, NothingClosed DEF IInv, Fail
<1> QED  BY <1>1, AbandonKeeps DEF IInv, Types, Fail, disk

\* EDEADLK ends a request.
LEMMA RefusedKeeps ==
    ASSUME IInv, NEW p \in Procs, Refused(p)
    PROVE IInv'
<1>1. PICK S \in {{}, {Named(p)}} : Closed(p, S)
  BY CloseEffect, NothingClosed DEF IInv, Refused
<1> QED  BY <1>1, AbandonKeeps DEF IInv, Types, Refused, disk, counts

\* A process ends.
LEMMA DieKeeps ==
    ASSUME IInv, NEW p \in Procs, Die(p)
    PROVE IInv'
<1> USE DEF Die, EndRequest, Goto, LockCache, session, locks, disk, history, counts
<1>0. Closed(p, Inodes)
  BY CloseEffect DEF IInv, Types
<1>9. pc' \in [Procs -> Labels]
  BY DEF IInv, Types, Labels
<1>1. Types' /\ Others(p)
  <2>1. Types'
    BY <1>0, <1>9 DEF IInv, Types, Modes, Inodes, OnFile, OnNew, Making, Named, Closed
  <2>2. Others(p)
    BY <1>0 DEF IInv, Types, Modes, Closed, Others
  <2> QED  BY <2>1, <2>2
<1>2. CacheLocked'
  BY DEF IInv, Types, Modes, CacheLocked, CacheFree, Hinders
<1>3. FilesLocked' /\ OldLocked'
  BY <1>0, CloseKeepsLocked DEF IInv
<1>4. OnFile(p)' /\ OnNew(p)'
  BY <1>0, <1>1 DEF IInv, Types, OnFile, OnNew, Making, Keeping, Named, Inodes, Closed
<1>5. Complete'
  BY <1>1 DEF IInv, Types, Complete, OnNew, Making, Inodes
<1> QED  BY <1>1, <1>2, <1>3, <1>4, <1>5, Frame

\* A data set changes: no concern of the locks.
LEMMA DatasetChangesKeeps ==
    ASSUME IInv, NEW f \in Files, DatasetChanges(f)
    PROVE IInv'
  BY DEF DatasetChanges, session, locks, history, IInv, Types, CacheLocked, FilesLocked,
         OldLocked, Names, OnFile, OnNew, Named, Complete

-----------------------------------------------------------------------------
(* The theorems.                                                           *)

\* Nothing is locked before the first process starts.
LEMMA InitHolds == Init => IInv
  BY LimitAssumption DEF Init, IInv, Types, Labels, Modes, CacheLocked, FilesLocked, OldLocked,
         Names, OnFile, OnNew, Named, Complete, Making, Keeping, Inodes

\* Every step of every process keeps the invariant.
LEMMA NextKeeps == IInv /\ [Next]_vars => IInv'
<1> SUFFICES ASSUME IInv, [Next]_vars PROVE IInv'
  OBVIOUS
<1>1. ASSUME NEW p \in Procs, Step(p) PROVE IInv'
  BY <1>1, WriteInfoKeeps, PurgeKeeps, UnlinkKeeps, ResizeKeeps, StoreKeeps, GetKeeps,
     WaitKeeps, OpenKeeps, ReadKeeps, CreateKeeps, ComputeKeeps, WriteKeeps, DowngradeKeeps,
     CountKeeps, ShrinkKeeps, UseKeeps, RefusedKeeps DEF Step
<1>2. ASSUME NEW p \in Procs, Start(p) \/ WriteShort(p) \/ Fail(p) \/ Die(p) PROVE IInv'
  BY <1>2, StartKeeps, WriteShortKeeps, FailKeeps, DieKeeps
<1>3. ASSUME NEW p \in Procs, NEW f \in Files, Request(p, f) PROVE IInv'
  BY <1>3, RequestKeeps
<1>4. ASSUME NEW f \in Files, DatasetChanges(f) PROVE IInv'
  BY <1>4, DatasetChangesKeeps
<1>5. CASE UNCHANGED vars
  BY <1>5 DEF vars, session, locks, disk, history, counts, IInv, Types, CacheLocked,
       FilesLocked, OldLocked, Names, OnFile, OnNew, Named, Complete
<1> QED  BY <1>1, <1>2, <1>3, <1>4, <1>5 DEF Next

\* Locks are held by the processes that work on the files, under the names the
\* processes know, whatever fails or dies (DAPCache3.cc:356-384, 562-632).
THEOREM Invariance == Spec => []IInv
  BY InitHolds, NextKeeps, PTL DEF Spec

\* No reader of a file is disturbed, by whatever removes files or makes them:
\* purge_file(), update_and_purge(), the makers (DAPCache3.h:63-64).
THEOREM Undisturbed == Spec => []ReadUndisturbed
<1>1. IInv => ReadUndisturbed
  <2> SUFFICES ASSUME IInv, NEW p \in Procs
               PROVE /\ pc[p] = "read" => Named(p) # 0
                     /\ pc[p] = "reading" =>
                        /\ opened[p] # 0 /\ Named(p) = opened[p]
                        /\ \A q \in Procs : pc[q] \in {"compute", "writing"} => mine[q] # opened[p]
                        /\ fails = 0 /\ failed = {} => text[opened[p]] = "whole"
    BY DEF ReadUndisturbed
  <2>1. pc[p] = "read" => Named(p) # 0
    BY DEF IInv, OnFile
  <2>2. ASSUME pc[p] = "reading"
        PROVE /\ opened[p] \in Inodes /\ Named(p) = opened[p] /\ opened[p] <= made
              /\ fl[p][opened[p]] = "r"
    BY <2>2 DEF IInv, Types, OnFile, OldLocked, Inodes
  <2>3. ASSUME pc[p] = "reading", NEW q \in Procs, pc[q] \in Making
        PROVE mine[q] # opened[p]
    BY <2>2, <2>3 DEF IInv, FilesLocked, OnNew, Making
  <2> QED  BY <2>1, <2>2, <2>3 DEF IInv, Complete, Making, Inodes
<1> QED  BY <1>1, Invariance, PTL

\* A process's new file is removed by nobody while the process has it locked
\* (DAPCache3.cc:892, 953).
THEOREM Stays == Spec => NewFileStays
<1> DEFINE Stay == \A p \in Procs : mine[p] # 0 /\ pc[p] \in {"count", "shrink", "using"}
                          /\ Named(p) = mine[p] => dir'[file[p]] = mine[p]
<1>1. IInv /\ [Next]_vars => [Stay]_vars
  <2> SUFFICES ASSUME IInv, [Next]_vars, NEW p \in Procs, mine[p] # 0,
                      pc[p] \in {"count", "shrink", "using"}, Named(p) = mine[p]
               PROVE dir'[file[p]] = dir[file[p]]
    BY DEF Named
  <2>0. /\ file[p] \in Files /\ dir[file[p]] \in Inodes /\ dir[file[p]] = mine[p]
        /\ fl[p][dir[file[p]]] = "r"
    BY DEF IInv, Types, OnFile, OnNew, Named, Keeping, Inodes
  <2>1. ASSUME NEW q \in Procs, Unlink(q) PROVE dir'[file[p]] = dir[file[p]]
    <3>1. q # p
      BY <2>1 DEF Unlink
    <3>2. file[q] # file[p]
      BY <2>0, <2>1, <3>1 DEF Unlink, FileFree, Hinders, Named
    <3> QED  BY <2>0, <2>1, <3>2 DEF Unlink, IInv, Types
  <2>2. ASSUME NEW q \in Procs, Create(q) PROVE dir'[file[p]] = dir[file[p]]
    BY <2>0, <2>2 DEF Create, IInv, Types, Named, Inodes
  <2>3. ASSUME NEW q \in Procs, Shrink(q) PROVE dir'[file[p]] = dir[file[p]]
    <3>1. PICK F \in SUBSET (Present \ {file[q]}) :
            /\ \A f \in F : Idle(q, f)
            /\ dir' = [f \in Files |-> IF f \in F THEN 0 ELSE dir[f]]
      BY <2>3 DEF Shrink, Evicts
    <3>2. file[p] \notin F
      BY <2>0, <3>1 DEF Idle, FileFree, Hinders
    <3> QED  BY <2>0, <3>1, <3>2
  <2>4. ASSUME NEW q \in Procs,
               Step(q) \/ Start(q) \/ WriteShort(q) \/ Fail(q) \/ Die(q),
               ~Unlink(q), ~Create(q), ~Shrink(q)
        PROVE UNCHANGED dir
    BY <2>4 DEF Step, WriteInfo, Purge, Resize, Store, Get, Wait, Open, Read, Compute, Write,
         CloseNew, WriteShort, Downgrade, Count, Use, Refused, Start, Fail, Die, Throw, disk
  <2>5. ASSUME NEW q \in Procs, NEW f \in Files, Request(q, f) PROVE UNCHANGED dir
    BY <2>5 DEF Request, disk
  <2>6. ASSUME NEW f \in Files, DatasetChanges(f) PROVE UNCHANGED dir
    BY <2>6 DEF DatasetChanges
  <2>7. CASE UNCHANGED vars
    BY <2>7 DEF vars, disk
  <2> QED  BY <2>1, <2>2, <2>3, <2>4, <2>5, <2>6, <2>7 DEF Next, Step
<1> QED  BY <1>1, Invariance, PTL DEF Spec, NewFileStays

-----------------------------------------------------------------------------
(* Deadlocks.                                                              *)

\* Who keeps the cache locked while it does something else.
CacheHeld == \A p \in Procs : cl[p] # "no" => pc[p] \in {"unlink", "resize", "wait"}

\* Without failures only the maker of a file has it locked for writing.
NewWritten ==
    failed = {} => \A p \in Procs, i \in Inodes :
        fl[p][i] = "w" => pc[p] \in Making /\ mine[p] = i

\* What deadlocks depend on.
LInv == IInv /\ CacheHeld /\ NewWritten

\* Closing files and moving on locks nothing for writing.
LEMMA NotWritten ==
    ASSUME Types, NewWritten, NEW p \in Procs, NEW S, Closed(p, S), failed \subseteq failed',
           \A q \in Procs \ {p} : pc'[q] = pc[q] /\ mine'[q] = mine[q],
           \/ pc'[p] = pc[p] /\ mine'[p] = mine[p]
           \/ pc[p] \notin Making
           \/ pc[p] \in Making /\ pc'[p] \in Making /\ mine'[p] = mine[p]
           \/ mine[p] \in S
           \/ failed' # {}
    PROVE  NewWritten'
<1> SUFFICES ASSUME failed' = {}, NEW q \in Procs, NEW i \in Inodes, fl'[q][i] = "w"
             PROVE  pc'[q] \in Making /\ mine'[q] = i
    BY DEF NewWritten
<1>1. fl[q][i] = "w" /\ ~(q = p /\ i \in S)
    BY DEF Closed
<1>2. failed = {}
    OBVIOUS
<1>3. pc[q] \in Making /\ mine[q] = i
    BY <1>1, <1>2 DEF NewWritten
<1> QED  BY <1>1, <1>3

\* Every step of a process keeps to that.
LEMMA LocksKept ==
    ASSUME LInv, NEW p \in Procs,
           Step(p) \/ Start(p) \/ WriteShort(p) \/ Fail(p) \/ Die(p) \/ \E f \in Files : Request(p, f)
    PROVE  CacheHeld' /\ NewWritten'
<1>0. Types /\ CacheHeld /\ NewWritten
    BY DEF LInv, IInv
<1> USE DEF Goto, LockCache, history, locks, EndRequest, Abandon, Throw
<1>1. CASE Start(p) \/ WriteInfo(p) \/ Purge(p) \/ Resize(p) \/ Store(p) \/ Get(p) \/ Open(p)
           \/ Compute(p) \/ Count(p) \/ \E f \in Files : Request(p, f)
    <2>1. Closed(p, {})
        BY <1>0, <1>1, NothingClosed DEF Start, WriteInfo, Purge, Resize, Store, Get, Open,
           Compute, Count, Request
    <2>2. CacheHeld'
        BY <1>0, <1>1 DEF Start, WriteInfo, Purge, Resize, Store, Get, Open, Compute, Count, Request,
           CacheHeld, Types
    <2>3. /\ failed \subseteq failed' /\ \A q \in Procs \ {p} : pc'[q] = pc[q] /\ mine'[q] = mine[q]
          /\ pc[p] \notin Making \/ (pc'[p] \in Making /\ mine'[p] = mine[p])
        BY <1>0, <1>1 DEF Start, WriteInfo, Purge, Resize, Store, Get, Open, Compute, Count, Request,
           Types, Making
    <2> QED  BY <1>0, <2>1, <2>2, <2>3, NotWritten
<1>2. CASE Read(p) \/ Unlink(p) \/ Shrink(p) \/ Use(p) \/ Die(p) \/ Write(p) \/ WriteShort(p)
    <2>1. CacheHeld'
        BY <1>0, <1>2 DEF Read, Unlink, Shrink, Use, Die, Write, WriteShort, CloseNew, CacheHeld, Types
    <2>2. PICK S : Closed(p, S) /\ (pc[p] \in Making => mine[p] \in S \/ failed' # {})
        <3>1. CASE Read(p)
            <4>1. PICK S : Closed(p, S)
                BY <1>0, <3>1, CloseEffect, NothingClosed DEF Read
            <4> QED  BY <3>1, <4>1 DEF Read, Making
        <3>2. CASE Unlink(p)
            BY <1>0, <3>2, CloseEffect DEF Unlink, Making
        <3>3. CASE Shrink(p)
            <4>1. PICK S : Close(p, S)
                BY <3>3 DEF Shrink
            <4> QED  BY <1>0, <3>3, <4>1, CloseEffect DEF Shrink, Making
        <3>4. CASE Use(p)
            BY <1>0, <3>4, CloseEffect DEF Use, Making
        <3>5. CASE Die(p)
            <4>1. pc[p] \in Making => failed' # {}
                BY <3>5 DEF Die, Making
            <4> QED  BY <1>0, <3>5, <4>1, CloseEffect DEF Die
        <3>6. CASE Write(p) \/ WriteShort(p)
            BY <1>0, <3>6, CloseEffect DEF Write, WriteShort, CloseNew
        <3> QED  BY <1>2, <3>1, <3>2, <3>3, <3>4, <3>5, <3>6
    <2>3. failed \subseteq failed' /\ \A q \in Procs \ {p} : pc'[q] = pc[q] /\ mine'[q] = mine[q]
        BY <1>0, <1>2 DEF Read, Unlink, Shrink, Use, Die, Write, WriteShort, CloseNew, Types
    <2> QED  BY <1>0, <2>1, <2>2, <2>3, NotWritten
<1>3. CASE Wait(p) \/ Downgrade(p)
    <2>1. PICK i \in Inodes : Locked(p, i, "r")
        <3>1. Named(p) \in Inodes \/ pc[p] # "wait"
            BY <1>0 DEF LInv, IInv, OnFile, Types, Named
        <3>2. mine[p] \in Inodes \/ pc[p] # "downgrade"
            BY <1>0 DEF LInv, IInv, OnNew, Types
        <3> QED  BY <1>0, <1>3, <3>1, <3>2, LockEffect DEF Wait, Downgrade, Modes
    <2>2. CacheHeld'
        BY <1>0, <1>3 DEF Wait, Downgrade, CacheHeld, Types
    <2>3. /\ failed' = failed /\ mine' = mine /\ pc[p] \notin Making
          /\ \A q \in Procs \ {p} : pc'[q] = pc[q]
        BY <1>0, <1>3 DEF Wait, Downgrade, Types, Making
    <2>4. \A q \in Procs, j \in Inodes : fl'[q][j] = "w" => fl[q][j] = "w"
        BY <2>1 DEF Locked
    <2> QED  BY <2>2, <2>3, <2>4, <1>0 DEF NewWritten
<1>4. CASE Create(p)
    <2>1. CacheHeld'
        BY <1>0, <1>4 DEF Create, CacheHeld, Types
    <2>2. CASE Named(p) # 0
        <3>1. Closed(p, {})
            BY <1>0, <1>4, <2>2, NothingClosed DEF Create
        <3>2. /\ failed' = failed /\ pc[p] \notin Making
              /\ \A q \in Procs \ {p} : pc'[q] = pc[q] /\ mine'[q] = mine[q]
            BY <1>0, <1>4, <2>2 DEF Create, Types, Making
        <3> QED  BY <1>0, <2>1, <3>1, <3>2, NotWritten
    <2>3. CASE Named(p) = 0
        <3>1. made' \in Inodes /\ LockFile(p, made', "w")
            BY <1>0, <1>4, <2>3, LimitAssumption DEF Create, Types, Inodes
        <3>2. Locked(p, made', "w")
            BY <1>0, <3>1, LockEffect DEF Modes
        <3>3. /\ failed' = failed /\ pc[p] \notin Making /\ pc'[p] \in Making /\ mine'[p] = made'
              /\ \A q \in Procs \ {p} : pc'[q] = pc[q] /\ mine'[q] = mine[q]
            BY <1>0, <1>4, <2>3 DEF Create, Types, Making
        <3>4. ASSUME failed = {}, NEW q \in Procs, NEW j \in Inodes, fl'[q][j] = "w"
              PROVE  pc'[q] \in Making /\ mine'[q] = j
            <4>1. fl[q][j] = "w" \/ (q = p /\ j = made')
                BY <3>2, <3>4 DEF Locked
            <4> QED  BY <1>0, <3>3, <3>4, <4>1 DEF NewWritten
        <3> QED  BY <2>1, <3>3, <3>4 DEF NewWritten
    <2> QED  BY <2>2, <2>3
<1>5. CASE Fail(p) \/ Refused(p)
    <2>1. failed' # {} /\ cl' = [cl EXCEPT ![p] = "no"] /\ \A q \in Procs \ {p} : pc'[q] = pc[q]
        BY <1>0, <1>5 DEF Fail, Refused, Types
    <2> QED  BY <1>0, <2>1 DEF CacheHeld, NewWritten, Types
<1> QED  BY <1>1, <1>2, <1>3, <1>4, <1>5 DEF Step

\* Every step keeps it.
LEMMA LInvKeeps == LInv /\ [Next]_vars => LInv'
<1> SUFFICES ASSUME LInv, [Next]_vars PROVE LInv'
    OBVIOUS
<1>1. IInv'
    BY NextKeeps DEF LInv
<1>2. CASE \/ \E p \in Procs : Step(p) \/ Start(p) \/ WriteShort(p) \/ Fail(p) \/ Die(p)
           \/ \E p \in Procs, f \in Files : Request(p, f)
    BY <1>1, <1>2, LocksKept DEF LInv
<1>3. CASE UNCHANGED <<pc, mine, cl, fl, failed>>
    BY <1>1, <1>3 DEF LInv, CacheHeld, NewWritten
<1>4. CASE \E f \in Files : DatasetChanges(f)
    BY <1>3, <1>4 DEF DatasetChanges, session, locks, history
<1> QED  BY <1>2, <1>3, <1>4 DEF Next, vars, session, locks, history

\* Without failures, processes wait for each other for ever only when one of them
\* is purge_file(), which waits for a file with the cache locked; get_read_lock()
\* does that too, but the maker it waits for does not wait (DAPCache3.cc:562-632).
THEOREM PurgeDeadlocks == Spec => []OnlyPurgeDeadlocks
<1>1. Init => LInv
    BY InitHolds DEF Init, LInv, CacheHeld, NewWritten
<1>2. LInv => OnlyPurgeDeadlocks
    <2> SUFFICES ASSUME LInv, failed = {}, \A p \in Procs : pc[p] # "unlink",
                        NEW p \in Procs, InCycle(p)
                 PROVE  FALSE
        BY DEF OnlyPurgeDeadlocks
    <2>1. PICK S \in SUBSET Procs :
            /\ p \in S /\ S # {p}
            /\ \A T \in (SUBSET S) \ {{}, S} : \E q \in T, r \in S \ T : WaitsFor(q, r)
        BY DEF InCycle
    <2>2. ASSUME NEW q \in S PROVE \E r \in S : WaitsFor(q, r)
        <3>1. {q} \in (SUBSET S) \ {{}, S}
            BY <2>1
        <3> QED  BY <2>1, <3>1
    <2>3. ASSUME NEW q \in S, NEW r \in S, WaitsFor(q, r) PROVE AsksFile(q)[1] = 0 /\ pc[r] = "wait"
        <3>1. PICK x \in S : WaitsFor(r, x)
            BY <2>2
        <3>2. pc[r] \notin Making \cup {"resize"}
            BY <3>1 DEF WaitsFor, AsksCache, AsksFile, Making
        <3>3. ASSUME AsksFile(q)[1] # 0, Hinders(fl[r][AsksFile(q)[1]], AsksFile(q)[2]) PROVE FALSE
            <4>1. AsksFile(q)[2] = "r" /\ AsksFile(q)[1] \in Inodes
                BY <3>3 DEF AsksFile, LInv, IInv, OnFile, OnNew, Types, Named
            <4>2. fl[r][AsksFile(q)[1]] = "w"
                BY <3>3, <4>1 DEF Hinders
            <4> QED  BY <3>2, <4>1, <4>2 DEF LInv, NewWritten
        <3>4. AsksCache(q) # "no" /\ Hinders(cl[r], AsksCache(q))
            BY <2>3, <3>3 DEF WaitsFor
        <3>5. pc[r] = "wait"
            BY <3>2, <3>4 DEF Hinders, LInv, CacheHeld
        <3>6. AsksFile(q)[1] = 0
            BY <3>4 DEF AsksCache, AsksFile
        <3> QED  BY <3>5, <3>6
    <2>4. PICK q \in S : WaitsFor(p, q)
        BY <2>1, <2>2
    <2>5. PICK r \in S : WaitsFor(q, r)
        BY <2>2
    <2>6. pc[q] = "wait" /\ AsksFile(q)[1] = 0
        BY <2>1, <2>3, <2>4, <2>5
    <2> QED  BY <2>1, <2>6 DEF AsksFile, LInv, IInv, OnFile
<1> QED  BY <1>1, <1>2, LInvKeeps, PTL DEF Spec

-----------------------------------------------------------------------------
(* The recorded size.                                                      *)

\* When the new file of a request is in the directory, but not in the sum.
Uncounted == {"compute", "writing", "downgrade", "count"}

\* What is recorded while a process has a request, or makes the info file.
Recorded(p) ==
    /\ pc[p] = "init" => info = "empty" /\ Present = {}
    /\ pc[p] # "init" => info = "valid"
    /\ pc[p] = "resize" => num[p] \in Nat /\ total = SizeOf(Present) + num[p]
    /\ pc[p] = "store" => num[p] = SizeOf(Present)
    /\ pc[p] \in Uncounted => Named(p) # 0 /\ total = SizeOf(Present \ {file[p]})
    /\ pc[p] \notin Uncounted \cup {"init", "resize", "store"} => total = SizeOf(Present)

\* And while none has.
Settled == info # "empty" /\ (info = "valid" => total = SizeOf(Present))

\* Requests are served one by one.
OneAtATime == \A p, q \in Procs : InRequest(p) /\ InRequest(q) => p = q

\* The account, from request to request.
AInv ==
    /\ bytes \in [Inodes -> Nat] /\ DOMAIN num = Procs
    /\ info \in {"none", "empty", "valid"}
    /\ failed = {} /\ info = "none" => Present = {} /\ \A p \in Procs : pc[p] = "off"
    /\ alone /\ failed = {} =>
        /\ OneAtATime
        /\ \A p \in Procs : InRequest(p) => Recorded(p)
        /\ (\A p \in Procs : ~InRequest(p)) => Settled

\* The bytes of the files F, each by its file and its number.
Bytes(F) == UNION {{f} \X (1 .. bytes[dir[f]]) : f \in F}

\* Their size is the number of these.
LEMMA SizeOfBytes == \A F : SizeOf(F) = Cardinality(Bytes(F))
BY DEF SizeOf, Bytes

\* A file measures what it measures.
LEMMA BytesOfOne ==
    ASSUME NEW f, NEW n \in Nat
    PROVE  IsFiniteSet({f} \X (1 .. n)) /\ Cardinality({f} \X (1 .. n)) = n
<1>1. IsFiniteSet({f}) /\ Cardinality({f}) = 1
    BY FS_Singleton
<1>2. IsFiniteSet(1 .. n) /\ Cardinality(1 .. n) = n
    BY FS_Interval
<1>3. /\ IsFiniteSet({f} \X (1 .. n))
      /\ Cardinality({f} \X (1 .. n)) = Cardinality({f}) * Cardinality(1 .. n)
    BY <1>1, <1>2, FS_Product
<1> QED  BY <1>1, <1>2, <1>3

\* There are as many names as inodes at most, and so finitely many.
LEMMA PresentFinite ==
    ASSUME IInv, NEW F \in SUBSET Present
    PROVE  IsFiniteSet(F)
<1> DEFINE inode == [f \in F |-> dir[f]]
<1>0. MaxFiles \in Nat
    BY LimitAssumption
<1>1. IsFiniteSet(Inodes)
    BY <1>0, FS_Interval DEF Inodes
<1>2. inode \in Injection(F, Inodes)
    BY DEF Injection, IsInjective, IInv, Types, Names, Present
<1> QED  BY <1>1, <1>2, FS_Injection

\* What files take is finite.
LEMMA BytesFinite ==
    ASSUME IInv, bytes \in [Inodes -> Nat], NEW F \in SUBSET Present
    PROVE  IsFiniteSet(Bytes(F)) /\ SizeOf(F) \in Nat
<1> DEFINE extent(f) == {f} \X (1 .. bytes[dir[f]])
           extents == {extent(f) : f \in F}
           g == [f \in F |-> extent(f)]
<1>1. \A f \in F : bytes[dir[f]] \in Nat
    BY DEF IInv, Types, Present
<1>2. \A f \in F : IsFiniteSet(extent(f))
    BY <1>1, BytesOfOne
<1>3. Bytes(F) = UNION extents
    BY DEF Bytes
<1> HIDE DEF extent
<1>4. IsFiniteSet(extents)
    <2>1. g \in Surjection(F, extents)
        BY DEF Surjection
    <2> QED  BY <2>1, PresentFinite, FS_Surjection
<1>5. IsFiniteSet(UNION extents)
    BY <1>2, <1>4, FS_UNION
<1> QED  BY <1>3, <1>5, FS_CardinalityType, SizeOfBytes

\* A file that is left out measures what is missing.
LEMMA SizeWithout ==
    ASSUME IInv, bytes \in [Inodes -> Nat], NEW F \in SUBSET Present, NEW f \in F
    PROVE  SizeOf(F) = SizeOf(F \ {f}) + bytes[dir[f]]
<1> DEFINE E == {f} \X (1 .. bytes[dir[f]])
<1>1. Bytes(F) = Bytes(F \ {f}) \cup E /\ Bytes(F \ {f}) \cap E = {}
    BY DEF Bytes
<1>2. bytes[dir[f]] \in Nat
    BY DEF IInv, Types, Present
<1>3. IsFiniteSet(E) /\ Cardinality(E) = bytes[dir[f]]
    BY <1>2, BytesOfOne
<1>4. IsFiniteSet(Bytes(F \ {f})) /\ SizeOf(F \ {f}) \in Nat
    BY BytesFinite
<1>5. Cardinality(Bytes(F)) = Cardinality(Bytes(F \ {f})) + Cardinality(E)
                              - Cardinality(Bytes(F \ {f}) \cap E)
    BY <1>1, <1>3, <1>4, FS_Union
<1>6. Cardinality(Bytes(F \ {f}) \cap E) = 0
    BY <1>1, FS_EmptySet
<1> QED  BY <1>2, <1>3, <1>4, <1>5, <1>6, SizeOfBytes

\* No files take nothing.
LEMMA NoSize == SizeOf({}) = 0
<1>1. UNION {{f} \X (1 .. bytes[dir[f]]) : f \in {}} = {}
    OBVIOUS
<1> QED  BY <1>1, FS_EmptySet DEF SizeOf

-----------------------------------------------------------------------------
(* One request at a time: what holds of the process that has it.           *)

\* What holds of the process that has the only request, or of one when none has.
Alone(p) == IF InRequest(p) THEN Recorded(p) ELSE Settled

\* The others have no request, and what a process does concerns it alone.
LEMMA OneProcess ==
    ASSUME NEW p \in Procs, \A q \in Procs \ {p} : ~InRequest(q)', Alone(p)'
    PROVE  (/\ OneAtATime
            /\ \A q \in Procs : InRequest(q) => Recorded(q)
            /\ (\A q \in Procs : ~InRequest(q)) => Settled)'
<1>1. ASSUME NEW q \in Procs, InRequest(q)' PROVE q = p
    BY <1>1
<1>2. (InRequest(p) => Recorded(p))' /\ (~InRequest(p) => Settled)'
    BY DEF Alone
<1> QED  BY <1>1, <1>2 DEF OneAtATime

\* And the one who has a request, or may begin one, is such a process.
LEMMA OnlyOne ==
    ASSUME AInv, alone, failed = {}, NEW p \in Procs, InRequest(p) \/ Quiet(p)
    PROVE  Alone(p) /\ \A q \in Procs \ {p} : ~InRequest(q)
<1>1. \A q \in Procs \ {p} : ~InRequest(q)
    BY DEF AInv, OneAtATime, Quiet, InRequest
<1> QED  BY <1>1 DEF AInv, Alone

\* Where nothing is written, the sums are as they were.
LEMMA SameSums ==
    ASSUME UNCHANGED <<bytes, dir>>
    PROVE  /\ Present' = Present /\ SizeOf(Present)' = SizeOf(Present)
           /\ \A f : SizeOf(Present \ {f})' = SizeOf(Present \ {f})
BY DEF SizeOf, Present

\* Where no sum is open.
Plain == {"purge", "unlink", "get", "wait", "read", "reading", "create", "shrink", "using"}

\* Steps that lead from lock to lock, without a change of the cache.
LEMMA LockStepCounts ==
    ASSUME IInv, NEW p \in Procs, failed' = {}, InRequest(p), Alone(p),
           \/ Purge(p) \/ Get(p) \/ Wait(p) \/ Open(p) \/ Read(p) \/ Downgrade(p) \/ Use(p)
           \/ Create(p) /\ Named(p) # 0
    PROVE  Alone(p)'
<1>0. Types
    BY DEF IInv
<1> USE DEF Purge, Get, Wait, Open, Read, Downgrade, Use, Create, disk, Throw, Abandon, Goto, EndRequest
<1>1. UNCHANGED <<bytes, dir, info, total>>
    OBVIOUS
<1>2. /\ Present' = Present /\ SizeOf(Present)' = SizeOf(Present)
      /\ \A f : SizeOf(Present \ {f})' = SizeOf(Present \ {f})
    BY <1>1, SameSums
<1>3. \/ pc[p] \in Plain /\ pc'[p] \in Plain
      \/ pc[p] = "downgrade" /\ pc'[p] = "count" /\ file' = file
      \/ pc[p] = "using" /\ pc'[p] = "idle"
    BY <1>0 DEF Plain, Types
<1> QED
    BY <1>0, <1>1, <1>2, <1>3 DEF Alone, Recorded, Settled, InRequest, Plain, Uncounted, Named

\* A process that starts, with the info file or to make it, and a new request.
LEMMA BeginsCounted ==
    ASSUME IInv, AInv, failed = {}, NEW p \in Procs, ~InRequest(p), Alone(p),
           Start(p) \/ \E f \in Files : Request(p, f)
    PROVE  Alone(p)'
<1>0. Types
    BY DEF IInv
<1>1. UNCHANGED <<bytes, dir, total>>
    BY DEF Start, Request, disk
<1>2. Present' = Present /\ SizeOf(Present)' = SizeOf(Present)
    BY <1>1, SameSums
<1>3. CASE Start(p) /\ info = "none"
    BY <1>0, <1>2, <1>3 DEF AInv, Start, Goto, Alone, Recorded, InRequest, Uncounted, Types
<1>4. CASE Start(p) /\ info # "none"
    BY <1>0, <1>1, <1>2, <1>4 DEF AInv, Start, Goto, Alone, Settled, InRequest, Types
<1>5. CASE \E f \in Files : Request(p, f)
    <2>1. /\ pc[p] = "idle" /\ pc'[p] \in Plain /\ info' = info
        BY <1>0, <1>5 DEF Request, Goto, Types, Plain, disk
    <2>2. info = "valid" /\ total = SizeOf(Present)
        BY <2>1 DEF AInv, Alone, Settled
    <2> QED  BY <1>1, <1>2, <2>1, <2>2 DEF Alone, Recorded, InRequest, Uncounted, Plain
<1> QED  BY <1>3, <1>4, <1>5

\* The info file is made when there are no files.
LEMMA WriteInfoCounts ==
    ASSUME IInv, NEW p \in Procs, Alone(p), WriteInfo(p)
    PROVE  Alone(p)'
<1>1. /\ pc[p] = "init" /\ pc'[p] = "idle" /\ info' = "valid" /\ total' = 0
      /\ UNCHANGED <<bytes, dir>>
    BY DEF WriteInfo, Goto, IInv, Types
<1>2. Present = {}
    BY <1>1 DEF Alone, InRequest, Recorded
<1> QED  BY <1>1, <1>2, SameSums, NoSize DEF Alone, InRequest, Settled

\* purge_file(): the size of the file is taken from the sum, in three steps.
LEMMA UnlinkCounts ==
    ASSUME IInv, bytes \in [Inodes -> Nat], DOMAIN num = Procs, NEW p \in Procs, Alone(p), Unlink(p)
    PROVE  Alone(p)'
<1>1. /\ pc[p] = "unlink" /\ pc'[p] = "resize" /\ file[p] \in Present
      /\ num'[p] = bytes[dir[file[p]]] /\ UNCHANGED <<bytes, info, total>>
      /\ dir' = [dir EXCEPT ![file[p]] = 0] /\ dir[file[p]] \in Inodes
    BY DEF Unlink, Goto, IInv, Types, OnFile, Named, Present
<1>2. Present' = Present \ {file[p]}
    BY <1>1 DEF Present, IInv, Types
<1>3. SizeOf(Present)' = SizeOf(Present \ {file[p]})
    <2>1. \A f \in Present \ {file[p]} : bytes'[dir'[f]] = bytes[dir[f]]
        BY <1>1 DEF Present, IInv, Types
    <2>2. SizeOf(Present)' = Cardinality(UNION {{f} \X (1 .. bytes'[dir'[f]]) : f \in Present \ {file[p]}})
        BY <1>2 DEF SizeOf
    <2> QED  BY <2>1, <2>2 DEF SizeOf
<1>4. SizeOf(Present) = SizeOf(Present \ {file[p]}) + bytes[dir[file[p]]]
    BY <1>1, SizeWithout
<1>5. info = "valid" /\ total = SizeOf(Present)
    BY <1>1 DEF Alone, InRequest, Recorded, Uncounted
<1> QED  BY <1>1, <1>3, <1>4, <1>5 DEF Alone, InRequest, Recorded, Uncounted

\* A size that fits its word is recorded as it is.
LEMMA Fits == \A n \in Nat : n < Word => n % Word = n
BY WordAssumption

\* get_cache_size() and the subtraction, which does not wrap here.
LEMMA ResizeCounts ==
    ASSUME IInv, bytes \in [Inodes -> Nat], NEW p \in Procs, Alone(p), Resize(p),
           DOMAIN num = Procs, failed' = {}, SizeOf(Present) < Word
    PROVE  Alone(p)'
<1>1. /\ pc[p] = "resize" /\ pc'[p] = "store" /\ UNCHANGED <<bytes, dir, info, total>>
      /\ num'[p] = (total - num[p]) % Word
    <2>1. ~Throw(p)
        BY DEF Throw, Abandon
    <2> QED  BY <2>1 DEF Resize, Goto, IInv, Types, disk
<1>2. info = "valid" /\ num[p] \in Nat /\ total = SizeOf(Present) + num[p]
    BY <1>1 DEF Alone, InRequest, Recorded
<1>3. SizeOf(Present) \in Nat
    BY BytesFinite
<1>4. total - num[p] = SizeOf(Present) /\ num'[p] = SizeOf(Present) % Word
    BY <1>1, <1>2, <1>3
<1>5. num'[p] = SizeOf(Present)
    BY <1>3, <1>4, Fits
<1> QED  BY <1>1, <1>2, <1>5, SameSums DEF Alone, InRequest, Recorded, Uncounted

\* The new size is written.
LEMMA StoreCounts ==
    ASSUME IInv, NEW p \in Procs, Alone(p), Store(p)
    PROVE  Alone(p)'
<1>1. /\ pc[p] = "store" /\ pc'[p] = "get" /\ UNCHANGED <<bytes, dir, info>>
      /\ total' = num[p]
    BY DEF Store, Goto, IInv, Types
<1> QED  BY <1>1, SameSums DEF Alone, InRequest, Recorded, Uncounted

\* A new file is in the directory and not in the sum, whatever it measures.
LEMMA CreateCounts ==
    ASSUME IInv, NEW p \in Procs, Alone(p), Create(p), Named(p) = 0
    PROVE  Alone(p)'
<1>1. /\ pc[p] = "create" /\ pc'[p] = "compute" /\ UNCHANGED <<bytes, info, total, file>>
      /\ dir' = [dir EXCEPT ![file[p]] = made'] /\ made' # 0 /\ file[p] \in Files
    BY DEF Create, Goto, IInv, Types, OnFile
<1>2. Present = Present' \ {file[p]} /\ Named(p)' # 0
    BY <1>1 DEF Present, IInv, Types, Named
<1>3. SizeOf(Present \ {file[p]})' = SizeOf(Present)
    <2>1. \A f \in Present : bytes'[dir'[f]] = bytes[dir[f]]
        BY <1>1, <1>2 DEF IInv, Types, Present
    <2> QED  BY <1>1, <1>2, <2>1 DEF SizeOf
<1> QED  BY <1>1, <1>2, <1>3 DEF Alone, InRequest, Recorded, Uncounted

\* The new file grows; no other file has its inode.
LEMMA WriteCounts ==
    ASSUME IInv, bytes \in [Inodes -> Nat], NEW p \in Procs, Alone(p), Compute(p) \/ Write(p) \/ WriteShort(p)
    PROVE  Alone(p)'
<1>1. /\ pc[p] \in Making /\ pc'[p] \in Uncounted /\ UNCHANGED <<info, total, file, dir>>
      /\ \A i \in Inodes \ {mine[p]} : bytes'[i] = bytes[i]
    BY DEF Compute, Write, WriteShort, CloseNew, Goto, IInv, Types, Making, Uncounted
<1>2. \A f \in Present \ {file[p]} : bytes'[dir'[f]] = bytes[dir[f]]
    BY <1>1 DEF IInv, OnNew, Present, Types
<1>3. SizeOf(Present \ {file[p]})' = SizeOf(Present \ {file[p]})
    BY <1>1, <1>2 DEF SizeOf, Present
<1> QED  BY <1>1, <1>3 DEF Alone, InRequest, Recorded, Uncounted, Making, Named

\* update_cache_info(): now it is.
LEMMA CountCounts ==
    ASSUME IInv, bytes \in [Inodes -> Nat], NEW p \in Procs, Alone(p), Count(p),
           failed' = {}, SizeOf(Present) < Word
    PROVE  Alone(p)'
<1>1. /\ pc[p] = "count" /\ pc'[p] \in {"shrink", "using"} /\ UNCHANGED <<bytes, info, file, dir>>
      /\ total' = (total + bytes[dir[file[p]]]) % Word
    BY DEF Count, Goto, IInv, Types, Throw, Abandon, Named
<1>2. info = "valid" /\ file[p] \in Present /\ total = SizeOf(Present \ {file[p]})
    BY <1>1 DEF Alone, InRequest, Recorded, Uncounted, IInv, OnFile, Named, Present
<1>3. SizeOf(Present) = SizeOf(Present \ {file[p]}) + bytes[dir[file[p]]] /\ SizeOf(Present) \in Nat
    BY <1>2, SizeWithout, BytesFinite
<1>4. total' = SizeOf(Present)
    BY <1>1, <1>2, <1>3, Fits
<1> QED  BY <1>1, <1>2, <1>4, SameSums DEF Alone, InRequest, Recorded, Uncounted

\* update_and_purge(): the sum of what is left is written.
LEMMA ShrinkCounts ==
    ASSUME IInv, NEW p \in Procs, Alone(p), Shrink(p)
    PROVE  Alone(p)'
<1>1. PICK F \in SUBSET (Present \ {file[p]}) :
        /\ total' = SizeOf(Present \ F)
        /\ dir' = [f \in Files |-> IF f \in F THEN 0 ELSE dir[f]]
    BY DEF Shrink
<1>2. pc[p] = "shrink" /\ pc'[p] = "using" /\ UNCHANGED <<bytes, info>>
    BY DEF Shrink, Goto, IInv, Types
<1>3. Present' = Present \ F
    BY <1>1 DEF Present
<1>4. SizeOf(Present)' = SizeOf(Present \ F)
    <2>1. \A f \in Present \ F : bytes'[dir'[f]] = bytes[dir[f]]
        BY <1>1, <1>2 DEF Present
    <2> QED  BY <1>3, <2>1 DEF SizeOf
<1> QED  BY <1>1, <1>2, <1>4 DEF Alone, InRequest, Recorded, Uncounted

\* The process that has the only request.
LEMMA RequestCounts ==
    ASSUME IInv, AInv, SizeOf(Present) < Word, failed' = {}, NEW p \in Procs, InRequest(p), Alone(p),
           Step(p) \/ WriteShort(p)
    PROVE  Alone(p)'
<1>0. bytes \in [Inodes -> Nat] /\ DOMAIN num = Procs
    BY DEF AInv
<1>1. ~Refused(p)
    BY DEF Refused, Abandon
<1>2. CASE Create(p)
    BY <1>2, LockStepCounts, CreateCounts
<1> QED  BY <1>0, <1>1, <1>2, WriteInfoCounts, LockStepCounts, UnlinkCounts, ResizeCounts, StoreCounts,
            WriteCounts, CountCounts, ShrinkCounts DEF Step

\* A process moves itself; a failure is not forgotten, nor a second request.
LEMMA MovesAlone ==
    ASSUME Types, NEW p \in Procs,
           Step(p) \/ Start(p) \/ WriteShort(p) \/ Fail(p) \/ Die(p) \/ \E f \in Files : Request(p, f)
    PROVE  /\ \A q \in Procs \ {p} : pc'[q] = pc[q]
           /\ failed \subseteq failed' /\ (alone' => alone)
<1> USE DEF Types, Goto, EndRequest, Abandon, Throw, history
<1>1. CASE Start(p) \/ Fail(p) \/ Die(p) \/ \E f \in Files : Request(p, f)
    <2>1. alone' => alone
        BY <1>1 DEF Start, Fail, Die, Request
    <2>2. \A q \in Procs \ {p} : pc'[q] = pc[q]
        BY <1>1 DEF Start, Fail, Die, Request
    <2>3. failed \subseteq failed'
        BY <1>1 DEF Start, Fail, Die, Request
    <2> QED  BY <2>1, <2>2, <2>3
<1>2. CASE WriteInfo(p) \/ Purge(p) \/ Unlink(p) \/ Resize(p) \/ Store(p) \/ Get(p) \/ Wait(p) \/ Open(p)
    BY <1>2 DEF WriteInfo, Purge, Unlink, Resize, Store, Get, Wait, Open
<1>3. CASE Read(p) \/ Create(p) \/ Compute(p) \/ Write(p) \/ Downgrade(p) \/ Count(p) \/ Use(p)
           \/ Refused(p) \/ WriteShort(p)
    BY <1>3 DEF Read, Create, Compute, Write, Downgrade, Count, Use, Refused, WriteShort, CloseNew
<1>4. CASE Shrink(p)
    BY <1>4 DEF Shrink
<1> QED  BY <1>1, <1>2, <1>3, <1>4 DEF Step

\* Who takes a step has a request, but for a failure.
LEMMA StepsInRequest ==
    ASSUME NEW p \in Procs, Step(p) \/ WriteShort(p), failed' = {}
    PROVE  InRequest(p)
<1>1. ~Refused(p)
    BY DEF Refused, Abandon
<1> QED
    BY <1>1 DEF Step, WriteInfo, Purge, Unlink, Resize, Store, Get, Wait, Open, Read, Create, Compute,
       Write, WriteShort, CloseNew, Downgrade, Count, Shrink, Use, InRequest

\* The types that the account needs.
Measured == bytes \in [Inodes -> Nat] /\ DOMAIN num = Procs /\ info \in {"none", "empty", "valid"}

\* Sizes stay numbers, and the info file is never taken away.
LEMMA StaysMeasured ==
    ASSUME IInv, Measured, [Next]_vars
    PROVE  Measured' /\ (info' = "none" => info = "none")
<1> USE DEF Measured, EndRequest, Abandon, Throw, session, disk
<1>1. CASE UNCHANGED vars \/ \E f \in Files : DatasetChanges(f)
    BY <1>1 DEF vars, DatasetChanges
<1>2. ASSUME NEW p \in Procs,
             Start(p) \/ Fail(p) \/ Die(p) \/ (\E f \in Files : Request(p, f)) \/ WriteInfo(p) \/ Purge(p)
      PROVE  Measured' /\ (info' = "none" => info = "none")
    BY <1>2 DEF Start, Fail, Die, Request, WriteInfo, Purge
<1>3. ASSUME NEW p \in Procs,
             Unlink(p) \/ Resize(p) \/ Store(p) \/ Get(p) \/ Wait(p) \/ Open(p) \/ Read(p) \/ Create(p)
      PROVE  Measured' /\ (info' = "none" => info = "none")
    BY <1>3 DEF Unlink, Resize, Store, Get, Wait, Open, Read, Create
<1>4. ASSUME NEW p \in Procs, Downgrade(p) \/ Count(p) \/ Use(p) \/ Refused(p) \/ Shrink(p)
      PROVE  Measured' /\ (info' = "none" => info = "none")
    BY <1>4 DEF Downgrade, Count, Use, Refused, Shrink
<1>5. ASSUME NEW p \in Procs, Compute(p) \/ Write(p) \/ WriteShort(p)
      PROVE  Measured' /\ (info' = "none" => info = "none")
    <2>1. \A n \in Sizes : n \in Nat
        BY SizesAssumption
    <2>2. bytes' = bytes \/ \E n \in Nat : bytes' = [bytes EXCEPT ![mine[p]] = n]
        BY <1>5, <2>1, SizesAssumption DEF Compute, Write, WriteShort
    <2> QED  BY <1>5, <2>2 DEF Compute, Write, WriteShort, CloseNew
<1> QED  BY <1>1, <1>2, <1>3, <1>4, <1>5 DEF Next, Step

\* Every step keeps the account.
LEMMA AInvKeeps ==
    ASSUME IInv, AInv, SizeOf(Present) < Word, [Next]_vars
    PROVE  AInv'
<1>0. Types /\ Measured /\ Measured' /\ (info' = "none" => info = "none")
    BY StaysMeasured DEF IInv, AInv, Measured
<1>1. ASSUME NEW p \in Procs,
             Step(p) \/ Start(p) \/ WriteShort(p) \/ Fail(p) \/ Die(p) \/ \E f \in Files : Request(p, f)
      PROVE  AInv'
    <2>0. /\ \A q \in Procs \ {p} : pc'[q] = pc[q]
          /\ failed \subseteq failed' /\ (alone' => alone)
        BY <1>0, <1>1, MovesAlone
    <2>1. CASE failed' # {}
        BY <1>0, <2>1 DEF AInv, Measured
    <2> SUFFICES ASSUME failed' = {} PROVE AInv'
        BY <2>1
    <2>2. failed = {} /\ ~Fail(p)
        BY <2>0 DEF Fail, Abandon
    <2>3. ASSUME Step(p) \/ WriteShort(p) PROVE InRequest(p)
        BY <2>3, StepsInRequest
    <2>4. info' # "none" \/ (Present' = {} /\ \A q \in Procs : pc'[q] = "off")
        <3> SUFFICES ASSUME info' = "none" PROVE FALSE
            OBVIOUS
        <3>1. pc[p] = "off" /\ info = "none"
            BY <1>0, <2>2 DEF AInv
        <3> QED  BY <1>1, <2>2, <2>3, <3>1 DEF Start, Die, Request, InRequest
    <2>5. CASE Die(p)
        <3>1. /\ pc[p] = "idle" /\ pc' = [pc EXCEPT ![p] = "off"] /\ num' = [num EXCEPT ![p] = 0]
              /\ file' = [file EXCEPT ![p] = NoFile] /\ UNCHANGED <<disk, alone>>
            BY <2>5 DEF Die, EndRequest, Goto
        <3>2. \A q \in Procs : InRequest(q)' = InRequest(q)
            BY <1>0, <3>1 DEF InRequest, Types
        <3>3. Settled' = Settled
            BY <3>1, SameSums DEF Settled, disk
        <3>4. ASSUME NEW q \in Procs, InRequest(q), Recorded(q) PROVE Recorded(q)'
            <4>1. pc'[q] = pc[q] /\ num'[q] = num[q] /\ file'[q] = file[q]
                BY <1>0, <3>1, <3>4 DEF InRequest, Types
            <4> QED  BY <3>1, <3>4, <4>1, SameSums DEF Recorded, Named, disk
        <3> QED  BY <1>0, <2>2, <2>4, <3>1, <3>2, <3>3, <3>4 DEF AInv, OneAtATime, Measured
    <2>6. CASE ~Die(p) /\ alone'
        <3>1. InRequest(p) \/ Quiet(p)
            BY <1>1, <2>2, <2>3, <2>6 DEF Start, Request
        <3>2. Alone(p) /\ alone /\ \A q \in Procs \ {p} : ~InRequest(q)
            BY <2>0, <2>2, <2>6, <3>1, OnlyOne
        <3>3. Alone(p)'
            <4>1. CASE Step(p) \/ WriteShort(p)
                BY <2>3, <3>2, <4>1, RequestCounts
            <4>2. CASE Start(p) \/ \E f \in Files : Request(p, f)
                BY <2>2, <3>2, <4>2, BeginsCounted DEF Start, Request, InRequest
            <4> QED  BY <1>1, <2>2, <2>6, <4>1, <4>2
        <3>4. \A q \in Procs \ {p} : ~InRequest(q)'
            BY <2>0, <3>2 DEF InRequest
        <3> QED  BY <1>0, <2>4, <3>3, <3>4, OneProcess DEF AInv, Measured
    <2> QED  BY <1>0, <2>4, <2>5, <2>6 DEF AInv, Measured
<1>2. CASE UNCHANGED vars \/ \E f \in Files : DatasetChanges(f)
    <2>1. UNCHANGED <<session, dir, bytes, info, total, history>>
        BY <1>2 DEF vars, disk, DatasetChanges
    <2>2. \A q \in Procs : InRequest(q)' = InRequest(q) /\ Recorded(q)' = Recorded(q)
        BY <2>1, SameSums DEF InRequest, Recorded, session, Named
    <2>3. Settled' = Settled /\ Present' = Present
        BY <2>1, SameSums DEF Settled
    <2> QED  BY <2>1, <2>2, <2>3 DEF AInv, OneAtATime, session, history
<1> QED  BY <1>1, <1>2 DEF Next

\* As long as all the files together measure less than 2^64, the recorded size is
\* theirs when requests are served one by one and none fails, whatever files they
\* add, evict and purge (DAPCache3.cc:719-757, 800-986).
THEOREM SizeIsRecorded == Spec /\ [](SizeOf(Present) < Word) => []SizeExactAlone
<1> DEFINE Fit == SizeOf(Present) < Word
<1>1. Init => AInv
    <2> SUFFICES ASSUME Init PROVE AInv
        OBVIOUS
    <2>1. Present = {} /\ \A p \in Procs : ~InRequest(p)
        BY DEF Init, Present, InRequest
    <2> QED  BY <2>1 DEF Init, AInv, OneAtATime, Settled
<1>2. IInv /\ AInv /\ Fit /\ [Next]_vars => AInv'
    BY AInvKeeps
<1>3. AInv => SizeExactAlone
    BY DEF AInv, Settled, SizeExactAlone
<1> HIDE DEF Fit
<1>4. Spec /\ []Fit => []SizeExactAlone
    BY <1>1, <1>2, <1>3, Invariance, PTL DEF Spec
<1> QED  BY <1>4 DEF Fit
====
