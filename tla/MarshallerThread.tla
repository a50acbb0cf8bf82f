---- MODULE MarshallerThread ----
(***************************************************************************)
(* MarshallerThread.cc/.h: how a stream marshaller shares its ostream with *)
(* the one detached child thread that writes large blocks.                 *)
(*                                                                         *)
(* The main thread runs the put_*() calls of XDRStreamMarshaller or        *)
(* D4StreamMarshaller.  Each call constructs a Locker (mutex, then wait    *)
(* until d_child_thread_count is zero) and, inside it, writes a block to   *)
(* the stream itself ("direct"), hands a block to a new child ("thread"),  *)
(* or does the first and then the second ("opaque":                        *)
(* D4StreamMarshaller::put_opaque_dap4).  The blocks are numbered in the   *)
(* order they are put and a child is named by the block it writes.         *)
(*                                                                         *)
(* d_child_thread_count is read and written under d_out_mutex only, so     *)
(* taking the mutex and testing the count is one step, and so is           *)
(* everything else between two points where another thread can run.  A     *)
(* write to the stream is two steps (it starts when the thread enters      *)
(* "write"), so overlapping writes would be seen.                          *)
(***************************************************************************)
EXTENDS Integers, Sequences

CONSTANTS
    MaxPuts,            \* bound on the blocks put in the life of the marshaller
    WriteFails,         \* a write to the stream may fail
    CreateFails,        \* pthread_create() may fail
    SpuriousWakeups,    \* pthread_cond_wait() may return without a signal
    StreamThrows        \* the stream throws on errors: TRUE for D4StreamMarshaller
                        \* (out.exceptions(...)), FALSE for XDRStreamMarshaller

ASSUME MaxPutsAssumption == MaxPuts \in Nat \ {0}
ASSUME SwitchesAssumption ==
    {WriteFails, CreateFails, SpuriousWakeups, StreamThrows} \subseteq BOOLEAN

VARIABLES
    main,           \* where the main thread is
    op,             \* the kind of the put_*() call in progress
    n,              \* the number of the last block put
    owner,          \* who holds d_out_mutex
    count,          \* d_child_thread_count
    signalled,      \* the waiting main thread was sent d_out_cond
    child,          \* where the child thread of each block is
    out,            \* the blocks on the stream, in stream order
    stream,         \* the state of the ostream
    dropped,        \* pthread_create() failed and the block was deleted
    d_thread_error, \* the error text a child leaves; no code reads it
    aborted,        \* an exception left a child thread: std::terminate()
    early           \* the wait of the destructor returned without a signal
                    \* (history, no variable of the code)

vars == <<main, op, n, owner, count, signalled, child, out, stream, dropped,
                   d_thread_error, aborted, early>>

Blocks == 1..MaxPuts
Main == 0
NoOne == -1

Ops == {"direct", "thread", "opaque"}
ChildPcs == {"none", "started", "write", "exit", "done"}
MainPcs == {"idle", "lock", "wait", "write", "create", "unlock", "unwind",
            "dtor", "dtorwait", "dtorwoken", "dtorunlock", "destroy", "gone"}

\* Where the main thread is between the acquisition and the release of the mutex.
MainHolds == {"write", "create", "unlock", "unwind", "dtorunlock"}

\* A child exists from pthread_create() until its ChildLocker is destroyed.
Live == {b \in Blocks : child[b] \in {"started", "write", "exit"}}

\* The MarshallerThread constructor.
Init ==
    /\ main = "idle"
    /\ op = "direct"
    /\ n = 0
    /\ owner = NoOne
    /\ count = 0
    /\ signalled = FALSE
    /\ child = [b \in Blocks |-> "none"]
    /\ out = << >>
    /\ stream = "good"
    /\ dropped = FALSE
    /\ d_thread_error = FALSE
    /\ aborted = FALSE
    /\ early = FALSE

\* One ostream::write() by a thread, of block b: nothing happens to a stream that
\* has failed before; otherwise it succeeds, or fails and sets the fail bit.
StreamWrite(b) ==
    \/ /\ stream = "good"
       /\ out' = Append(out, b)
       /\ UNCHANGED stream
    \/ /\ stream = "failed" \/ WriteFails
       /\ stream' = "failed"
       /\ UNCHANGED out

----
(* The main thread: the put_*() calls *)

\* A put_*() call begins: the value is encoded, then a Locker is constructed.
Put(o) ==
    /\ ~aborted
    /\ main = "idle"
    /\ n + (IF o = "opaque" THEN 2 ELSE 1) <= MaxPuts
    /\ main' = "lock"
    /\ op' = o
    /\ n' = n + 1
    /\ UNCHANGED <<owner, count, signalled, child, out, stream, dropped,
                   d_thread_error, aborted, early>>

\* Bug: the call goes on without a Locker.
LockerLockNoLocker ==
    /\ ~aborted
    /\ main = "lock"
    /\ main' = IF op = "thread" THEN "create" ELSE "write"
    /\ UNCHANGED <<op, n, owner, count, signalled, child, out, stream, dropped,
                   d_thread_error, aborted, early>>

\* Locker::Locker(): lock; while the count is not zero, wait (which releases the
\* mutex); come back here to lock and test again after a wake-up.
LockerLock ==
    /\ ~aborted
    /\ main = "lock"
    /\ owner = NoOne
    /\ IF count # 0
          THEN /\ main' = "wait"
               /\ UNCHANGED owner
          ELSE /\ owner' = Main
               /\ main' = IF op = "thread" THEN "create" ELSE "write"
    /\ signalled' = FALSE
    /\ UNCHANGED <<op, n, count, child, out, stream, dropped,
                   d_thread_error, aborted, early>>

\* pthread_cond_wait() returns to the loop of Locker::Locker().
LockerWake ==
    /\ ~aborted
    /\ main = "wait"
    /\ signalled \/ SpuriousWakeups
    /\ main' = "lock"
    /\ UNCHANGED <<op, n, owner, count, signalled, child, out, stream, dropped,
                   d_thread_error, aborted, early>>

\* d_out.write() by the main thread.  A D4 stream throws when the write fails; the
\* exception destroys the Locker and then the marshaller, a local of the caller.
MainWrite ==
    /\ ~aborted
    /\ main = "write"
    /\ StreamWrite(n)
    /\ IF stream' = "failed" /\ StreamThrows
          THEN main' = "unwind" /\ UNCHANGED <<op, n>>
          ELSE IF op = "opaque"
          THEN main' = "create" /\ op' = "thread" /\ n' = n + 1
          ELSE main' = "unlock" /\ UNCHANGED <<op, n>>
    /\ UNCHANGED <<owner, count, signalled, child, dropped,
                   d_thread_error, aborted, early>>

\* Bug: the count is not incremented before the child is started.
StartThreadNoIncrement ==
    /\ ~aborted
    /\ main = "create"
    /\ child' = [child EXCEPT ![n] = "started"]
    /\ main' = "unlock"
    /\ UNCHANGED <<op, n, owner, count, signalled, out, stream, dropped,
                   d_thread_error, aborted, early>>

\* increment_child_thread_count(), then start_thread().  When pthread_create()
\* fails the count keeps its increment; the exception destroys the Locker, then
\* the marshaller.
StartThread ==
    /\ ~aborted
    /\ main = "create"
    /\ count' = count + 1
    /\ \/ /\ child' = [child EXCEPT ![n] = "started"]
          /\ main' = "unlock"
          /\ UNCHANGED dropped
       \/ /\ CreateFails
          /\ dropped' = TRUE
          /\ main' = "unwind"
          /\ UNCHANGED child
    /\ UNCHANGED <<op, n, owner, signalled, out, stream,
                   d_thread_error, aborted, early>>

\* Locker::~Locker(), at the end of the call or while an exception unwinds it.
LockerUnlock ==
    /\ ~aborted
    /\ main \in {"unlock", "unwind"}
    /\ owner' = NoOne
    /\ main' = IF main = "unlock" THEN "idle" ELSE "dtor"
    /\ UNCHANGED <<op, n, count, signalled, child, out, stream, dropped,
                   d_thread_error, aborted, early>>

----
(* The main thread: ~MarshallerThread() *)

\* The marshaller goes out of scope.
Destruct ==
    /\ ~aborted
    /\ main = "idle"
    /\ main' = "dtor"
    /\ UNCHANGED <<op, n, owner, count, signalled, child, out, stream, dropped,
                   d_thread_error, aborted, early>>

\* Bug: the destructor does not wait for the child.
DtorLockNoWait ==
    /\ ~aborted
    /\ main = "dtor"
    /\ owner = NoOne
    /\ main' = "dtorunlock"
    /\ owner' = Main
    /\ UNCHANGED <<op, n, count, signalled, child, out, stream, dropped,
                   d_thread_error, aborted, early>>

\* Lock; if the count is not zero, wait once.
DtorLock ==
    /\ ~aborted
    /\ main = "dtor"
    /\ owner = NoOne
    /\ IF count # 0
          THEN main' = "dtorwait" /\ UNCHANGED owner
          ELSE main' = "dtorunlock" /\ owner' = Main
    /\ signalled' = FALSE
    /\ UNCHANGED <<op, n, count, child, out, stream, dropped,
                   d_thread_error, aborted, early>>

DtorWake ==
    /\ ~aborted
    /\ main = "dtorwait"
    /\ \/ signalled /\ UNCHANGED early
       \/ ~signalled /\ SpuriousWakeups /\ early' = TRUE
    /\ main' = "dtorwoken"
    /\ UNCHANGED <<op, n, owner, count, signalled, child, out, stream, dropped,
                   d_thread_error, aborted>>

\* The wait returns with the mutex; the count is set to zero, not tested again.
DtorRelock ==
    /\ ~aborted
    /\ main = "dtorwoken"
    /\ owner = NoOne
    /\ owner' = Main
    /\ count' = 0
    /\ main' = "dtorunlock"
    /\ UNCHANGED <<op, n, signalled, child, out, stream, dropped,
                   d_thread_error, aborted, early>>

DtorUnlock ==
    /\ ~aborted
    /\ main = "dtorunlock"
    /\ owner' = NoOne
    /\ main' = "destroy"
    /\ UNCHANGED <<op, n, count, signalled, child, out, stream, dropped,
                   d_thread_error, aborted, early>>

\* pthread_mutex_destroy(), pthread_cond_destroy(); the object is gone.
Destroy ==
    /\ ~aborted
    /\ main = "destroy"
    /\ main' = "gone"
    /\ UNCHANGED <<op, n, owner, count, signalled, child, out, stream, dropped,
                   d_thread_error, aborted, early>>

----
(* The child thread: write_thread() and write_thread_part() *)

\* ChildLocker::ChildLocker().
ChildLock(b) ==
    /\ ~aborted
    /\ child[b] = "started"
    /\ main # "gone"
    /\ owner = NoOne
    /\ owner' = b
    /\ child' = [child EXCEPT ![b] = "write"]
    /\ UNCHANGED <<main, op, n, count, signalled, out, stream, dropped,
                   d_thread_error, aborted, early>>

\* args->d_out.write().  A failure leaves an error text, unless the stream throws:
\* nothing in the thread catches that exception and the process is terminated.
ChildWrite(b) ==
    /\ ~aborted
    /\ child[b] = "write"
    /\ StreamWrite(b)
    /\ IF stream' = "failed" /\ StreamThrows
          THEN aborted' = TRUE /\ UNCHANGED d_thread_error
          ELSE d_thread_error' = (d_thread_error \/ stream' = "failed")
               /\ UNCHANGED aborted
    /\ child' = [child EXCEPT ![b] = "exit"]
    /\ UNCHANGED <<main, op, n, owner, count, signalled, dropped, early>>

\* Bug: the child releases the mutex without telling the waiting thread.
ChildUnlockNoSignal(b) ==
    /\ ~aborted
    /\ child[b] = "exit"
    /\ owner' = NoOne
    /\ count' = 0
    /\ child' = [child EXCEPT ![b] = "done"]
    /\ UNCHANGED <<main, op, n, signalled, out, stream, dropped,
                   d_thread_error, aborted, early>>

\* Bug: the child leaves the count as it is.
ChildUnlockNoReset(b) ==
    /\ ~aborted
    /\ child[b] = "exit"
    /\ owner' = NoOne
    /\ signalled' = (main \in {"wait", "dtorwait"})
    /\ child' = [child EXCEPT ![b] = "done"]
    /\ UNCHANGED <<main, op, n, count, out, stream, dropped,
                   d_thread_error, aborted, early>>

\* ChildLocker::~ChildLocker(), on every way out of the thread function.  A signal
\* nobody waits for is lost.
ChildUnlock(b) ==
    /\ ~aborted
    /\ child[b] = "exit"
    /\ owner' = NoOne
    /\ count' = 0
    /\ signalled' = (main \in {"wait", "dtorwait"})
    /\ child' = [child EXCEPT ![b] = "done"]
    /\ UNCHANGED <<main, op, n, out, stream, dropped,
                   d_thread_error, aborted, early>>

----

\* What the main thread does inside a call, and the child.
MainStep == \/ LockerLock \/ LockerWake \/ MainWrite \/ StartThread \/ LockerUnlock
            \/ DtorLock \/ DtorWake \/ DtorRelock \/ DtorUnlock \/ Destroy
ChildStep(b) == ChildLock(b) \/ ChildWrite(b) \/ ChildUnlock(b)

\* Nothing runs after the marshaller is destroyed or the process terminated.
Finished == (main = "gone" \/ aborted) /\ UNCHANGED vars

Next ==
    \/ \E o \in Ops : Put(o)
    \/ LockerLock \/ LockerWake \/ MainWrite \/ StartThread \/ LockerUnlock
    \/ Destruct
    \/ DtorLock \/ DtorWake \/ DtorRelock \/ DtorUnlock \/ Destroy
    \/ \E b \in Blocks : ChildLock(b) \/ ChildWrite(b) \/ ChildUnlock(b)
    \/ Finished

Spec == Init /\ [][Next]_vars

\* The scheduler runs every thread that can run; no fairness is assumed of the
\* caller (it may put, destroy or do neither) nor of spurious wake-ups.
Fairness ==
    /\ WF_vars(MainStep /\ (main \in {"wait", "dtorwait"} => signalled))
    /\ \A b \in Blocks : WF_vars(ChildStep(b))

FairSpec == Spec /\ Fairness

----
(* Properties *)

TypeOK ==
    /\ main \in MainPcs
    /\ op \in Ops
    /\ n \in 0..MaxPuts
    /\ owner \in {NoOne, Main} \cup Blocks
    /\ count \in 0..1
    /\ signalled \in BOOLEAN
    /\ child \in [Blocks -> ChildPcs]
    /\ out \in Seq(Blocks)
    /\ stream \in {"good", "failed"}
    /\ dropped \in BOOLEAN
    /\ d_thread_error \in BOOLEAN
    /\ aborted \in BOOLEAN
    /\ early \in BOOLEAN

\* No two threads are ever inside ostream::write() on the shared stream: Locker and
\* ChildLocker serialise the main thread and the children (MarshallerThread.cc:79-87).
OneWriter ==
    /\ \A b \in Blocks : child[b] = "write" => main # "write"
    /\ \A a, b \in Blocks : child[a] = "write" /\ child[b] = "write" => a = b

\* The stream holds the blocks in the order of the put_*() calls, without a gap,
\* whichever threads wrote them and whatever failed ("keeps the write operations in
\* the correct order", MarshallerThread.cc:84-86).
InOrder == \A i \in 1..Len(out) : out[i] = i

\* A second child is never started while one exists (MarshallerThread.cc:84-85).
AtMostOneChild == \A a, b \in Live : a = b

\* The mutex and the condition variable outlive the children that use them: the
\* destructor waits for the child (MarshallerThread.cc:175-207).  The one exception
\* is a wait that returned without a signal, which is not repeated: then, and only
\* then, may a child be left, and nothing else brings the destructor past a child.
NoChildAfterDestroy == main \in {"destroy", "gone"} /\ ~early => Live = {}

\* "the shared 'count' predicate that tells how many (0 or 1) child threads exist"
\* (MarshallerThread.cc:126-127), at every moment when the mutex is free and a child
\* could be created.
CountAlwaysTells ==
    owner = NoOne /\ main # "gone" /\ ~dropped => (count = 0 <=> Live = {})

\* The same, unless the wait of the destructor returned without a signal; where a
\* child could not be created, the count keeps an increment for no child.
CountTellsChildren ==
    owner = NoOne /\ main # "gone" /\ ~dropped /\ ~early => (count = 0 <=> Live = {})

\* A Locker is eventually granted, and a put_*() call or the destructor returns: the
\* Locker waits only until the child signals (MarshallerThread.h:44-51).
CallsAlwaysReturn == (main # "idle") ~> (main \in {"idle", "gone"} \/ aborted)

\* The same as long as every child could be created.
CallsReturn == (main # "idle") ~> (main \in {"idle", "gone"} \/ aborted \/ dropped)

\* A block accepted by put_*() reaches the stream without any further call, unless
\* the stream fails or the child could not be created, or the destructor takes the
\* mutex away from the child as its wait returned without a signal.
BlocksReachStream ==
    \A b \in Blocks : (n >= b) ~> (Len(out) >= b \/ stream = "failed" \/ dropped \/ early)

\* The marshaller is an ordered writer, one that ends only with all blocks on the
\* stream; after a wait of the destructor that returned without a signal the end is
\* not an end in order, and that much is not promised of it.
Abstract == INSTANCE OrderedWriter WITH
    accepted <- n,
    written <- out,
    failed <- (stream = "failed" \/ dropped),
    closed <- (main = "gone" /\ ~early)

ImplementsOrderedWriter == Abstract!Spec

----
(* The inductive invariant behind the safety properties and the refinement.     *)

\* The mutex is held by exactly the thread that is between lock and unlock.
LockInv ==
    /\ owner = Main <=> main \in MainHolds
    /\ \A b \in Blocks : owner = b <=> child[b] \in {"write", "exit"}

\* The count announces every child until the destructor resets it, and the main
\* thread uses the stream only when the count says there is none.
CountInv ==
    /\ \A b \in Live : count = 1 \/ main \in {"dtorunlock", "destroy", "gone"}
    /\ main \in {"write", "create"} => count = 0
    /\ AtMostOneChild

\* The block of the call in progress has a number and, for "opaque", a successor.
CallInv ==
    /\ main \in {"lock", "wait", "write", "create"} => n >= 1
    /\ main \in {"lock", "wait", "write"} /\ op = "opaque" => n < MaxPuts
    /\ dropped => Live = {} /\ main \notin {"idle", "lock", "wait", "write",
                                            "create", "unlock"}

\* How many blocks the main thread is done with.
HandedOver == IF main \in {"lock", "wait", "write", "create"} THEN n - 1 ELSE n

\* A child that has not written yet carries the last block handed over, and as
\* long as the stream is good every other block handed over is on it.
OrderInv ==
    /\ InOrder
    /\ \A b \in Blocks : child[b] \in {"started", "write"} => b = HandedOver
    /\ stream = "good" =>
          Len(out) = IF dropped \/ \E b \in Blocks : child[b] \in {"started", "write"}
                        THEN HandedOver - 1
                        ELSE HandedOver

\* The destructor goes on only after the last child, unless its wait returned
\* without a signal.
DtorInv ==
    /\ early => SpuriousWakeups
    /\ ~early =>
        /\ main \in {"dtorwoken", "dtorunlock", "destroy", "gone"} => Live = {}
        /\ main = "dtorwait" /\ signalled => Live = {}

IInv == TypeOK /\ LockInv /\ CountInv /\ CallInv /\ OrderInv /\ DtorInv

====
