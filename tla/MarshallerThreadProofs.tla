---- MODULE MarshallerThreadProofs ----
(***************************************************************************)
(* What holds of MarshallerThread for every number of blocks and every     *)
(* combination of failures.  IInv is inductive: one lemma per action, one  *)
(* step per conjunct.  The safety properties, and the refinement of        *)
(* OrderedWriter, follow from it.                                          *)
(***************************************************************************)
EXTENDS MarshallerThread, TLAPS

USE MaxPutsAssumption, SwitchesAssumption DEF Blocks, Main, NoOne

\* The state after the constructor satisfies the invariant.
LEMMA InitInv == Init => IInv
<1> SUFFICES ASSUME Init PROVE IInv
  OBVIOUS
<1>1. TypeOK
  <2>1. out \in Seq(Blocks)
    BY DEF Init
  <2>2. child \in [Blocks -> ChildPcs]
    BY DEF Init, ChildPcs
  <2>3. /\ main \in MainPcs /\ op \in Ops /\ n \in 0..MaxPuts
        /\ owner \in {NoOne, Main} \cup Blocks
    BY DEF Init, MainPcs, Ops
  <2>4. count \in 0..1 /\ stream \in {"good", "failed"}
    BY DEF Init
  <2>5. {signalled, dropped, d_thread_error, aborted, early} \subseteq BOOLEAN
    BY DEF Init
  <2> QED
    BY <2>1, <2>2, <2>3, <2>4, <2>5 DEF TypeOK
<1>2. LockInv
  BY DEF Init, LockInv, MainHolds
<1>3. CountInv /\ CallInv /\ DtorInv
  BY DEF Init, CountInv, CallInv, DtorInv, AtMostOneChild, Live
<1>4. OrderInv
  BY DEF Init, OrderInv, InOrder, HandedOver
<1> QED
  BY <1>1, <1>2, <1>3, <1>4 DEF IInv

\* A write of the next block keeps the stream in order; a write that does not
\* leave the stream good adds nothing (ostream::write in MainWrite, ChildWrite).
LEMMA StreamWriteInOrder ==
    ASSUME NEW b \in Blocks, out \in Seq(Blocks), InOrder, StreamWrite(b),
           stream = "good" => b = Len(out) + 1
    PROVE  /\ InOrder'
           /\ stream' = "good" => stream = "good" /\ Len(out') = Len(out) + 1
<1>1. CASE stream = "good" /\ out' = Append(out, b) /\ stream' = stream
  <2>1. Len(out') = Len(out) + 1
    BY <1>1
  <2>2. \A i \in 1..Len(out') : out'[i] = IF i <= Len(out) THEN out[i] ELSE b
    BY <1>1
  <2> QED
    BY <1>1, <2>1, <2>2 DEF InOrder
<1>2. CASE stream' = "failed" /\ out' = out
  BY <1>2 DEF InOrder
<1> QED
  BY <1>1, <1>2 DEF StreamWrite

\* The invariant when put_*() begins.
LEMMA PutInv == ASSUME NEW o \in Ops, IInv, Put(o) PROVE IInv'
<1>1. TypeOK'
  BY DEF IInv, Put, TypeOK, MainPcs, ChildPcs, Ops
<1>2. LockInv'
  BY DEF IInv, Put, LockInv, MainHolds
<1>3. CountInv'
  BY DEF IInv, Put, CountInv, AtMostOneChild, Live
<1>4. CallInv'
  BY DEF IInv, Put, CallInv, TypeOK, Live
<1>5. OrderInv'
  BY DEF IInv, Put, OrderInv, TypeOK, InOrder, HandedOver
<1>6. DtorInv'
  BY DEF IInv, Put, DtorInv, Live
<1> QED
  BY <1>1, <1>2, <1>3, <1>4, <1>5, <1>6 DEF IInv

\* The invariant when Locker::Locker() takes the mutex or waits.
LEMMA LockerLockInv == ASSUME IInv, LockerLock PROVE IInv'
<1>1. TypeOK'
  BY DEF IInv, LockerLock, TypeOK, MainPcs, ChildPcs, Ops
<1>2. LockInv'
  BY DEF IInv, LockerLock, LockInv, MainHolds
<1>3. CountInv'
  BY DEF IInv, LockerLock, CountInv, AtMostOneChild, Live
<1>4. CallInv'
  BY DEF IInv, LockerLock, CallInv, Live
<1>5. OrderInv'
  BY DEF IInv, LockerLock, OrderInv, InOrder, HandedOver
<1>6. DtorInv'
  BY DEF IInv, LockerLock, DtorInv, Live
<1> QED
  BY <1>1, <1>2, <1>3, <1>4, <1>5, <1>6 DEF IInv

\* The invariant when a wait in Locker::Locker() returns.
LEMMA LockerWakeInv == ASSUME IInv, LockerWake PROVE IInv'
<1>1. TypeOK'
  BY DEF IInv, LockerWake, TypeOK, MainPcs, ChildPcs, Ops
<1>2. LockInv'
  BY DEF IInv, LockerWake, LockInv, MainHolds
<1>3. CountInv'
  BY DEF IInv, LockerWake, CountInv, AtMostOneChild, Live
<1>4. CallInv'
  BY DEF IInv, LockerWake, CallInv, Live
<1>5. OrderInv'
  BY DEF IInv, LockerWake, OrderInv, InOrder, HandedOver
<1>6. DtorInv'
  BY DEF IInv, LockerWake, DtorInv, Live
<1> QED
  BY <1>1, <1>2, <1>3, <1>4, <1>5, <1>6 DEF IInv

\* The invariant when the main thread writes.
LEMMA MainWriteInv == ASSUME IInv, MainWrite PROVE IInv'
<1>1. TypeOK'
  <2>1. n \in Blocks /\ out \in Seq(Blocks) /\ n' \in 0..MaxPuts
    <3>1. main = "write" /\ n >= 1 /\ n \in 0..MaxPuts /\ out \in Seq(Blocks)
      BY DEF IInv, MainWrite, TypeOK, CallInv
    <3>2. n' = n \/ (op = "opaque" /\ n' = n + 1)
      BY DEF MainWrite
    <3>3. op = "opaque" => n < MaxPuts
      BY <3>1 DEF IInv, CallInv
    <3> QED
      BY <3>1, <3>2, <3>3, MaxPutsAssumption DEF Blocks
  <2>2. out' \in Seq(Blocks) /\ stream' \in {"good", "failed"}
    <3>1. \/ out' = Append(out, n) /\ stream' = stream
          \/ out' = out /\ stream' = "failed"
      BY DEF MainWrite, StreamWrite
    <3>2. stream \in {"good", "failed"}
      BY DEF IInv, TypeOK
    <3>3. Append(out, n) \in Seq(Blocks)
      BY <2>1
    <3> QED
      BY <2>1, <3>1, <3>2, <3>3
  <2>3. main' \in MainPcs /\ op' \in Ops
    BY DEF IInv, MainWrite, TypeOK, MainPcs, Ops
  <2>4. /\ UNCHANGED <<owner, count, signalled, child, dropped, d_thread_error, aborted, early>>
        /\ TypeOK
    BY DEF IInv, MainWrite
  <2>5. /\ signalled' \in BOOLEAN /\ dropped' \in BOOLEAN
        /\ d_thread_error' \in BOOLEAN /\ aborted' \in BOOLEAN /\ early' \in BOOLEAN
    BY <2>4, Zenon DEF TypeOK
  <2>6. /\ owner' \in {NoOne, Main} \cup Blocks /\ count' \in 0..1
        /\ child' \in [Blocks -> ChildPcs]
    BY <2>4, Zenon DEF TypeOK
  <2> QED
    BY <2>1, <2>2, <2>3, <2>5, <2>6 DEF TypeOK
<1>2. LockInv'
  BY DEF IInv, MainWrite, StreamWrite, LockInv, MainHolds
<1>3. CountInv'
  BY DEF IInv, MainWrite, StreamWrite, CountInv, AtMostOneChild, Live
<1>4. CallInv'
  BY DEF IInv, MainWrite, StreamWrite, CallInv, TypeOK, Live
<1>5. OrderInv'
  <2> USE DEF IInv
  <2>1. n \in Blocks /\ HandedOver = n - 1
    BY DEF CallInv, TypeOK, MainWrite, HandedOver
  <2>2. \A b \in Blocks : child[b] \notin {"started", "write", "exit"}
    BY DEF MainWrite, CountInv, Live
  <2>3. ~dropped
    BY DEF MainWrite, CallInv
  <2>4. stream = "good" => n = Len(out) + 1
    BY <2>1, <2>2, <2>3 DEF OrderInv, TypeOK
  <2>5. /\ InOrder'
        /\ stream' = "good" => stream = "good" /\ Len(out') = Len(out) + 1
    BY <2>1, <2>4, StreamWriteInOrder DEF OrderInv, MainWrite, TypeOK
  <2>6. HandedOver' = n \/ stream' = "failed"
    BY <2>1 DEF MainWrite, HandedOver
  <2>7. stream' = "good" => Len(out') = HandedOver'
    BY <2>4, <2>5, <2>6
  <2> QED
    BY <2>2, <2>3, <2>5, <2>7 DEF OrderInv, MainWrite
<1>6. DtorInv'
  BY DEF IInv, MainWrite, StreamWrite, DtorInv, Live
<1> QED
  BY <1>1, <1>2, <1>3, <1>4, <1>5, <1>6 DEF IInv

\* The invariant when a child is started, or pthread_create() fails.
LEMMA StartThreadInv == ASSUME IInv, StartThread PROVE IInv'
<1>1. TypeOK'
  <2>1. count' \in 0..1
    BY DEF IInv, StartThread, CountInv, TypeOK
  <2>2. child' \in [Blocks -> ChildPcs]
    BY DEF IInv, StartThread, CallInv, TypeOK, ChildPcs
  <2>3. dropped' \in BOOLEAN
    BY DEF IInv, StartThread, TypeOK
  <2> QED
    BY <2>1, <2>2, <2>3 DEF IInv, StartThread, TypeOK, MainPcs
<1>2. LockInv'
  BY DEF IInv, StartThread, LockInv, TypeOK, MainHolds
<1>3. CountInv'
  BY DEF IInv, StartThread, CountInv, TypeOK, AtMostOneChild, Live
<1>4. CallInv'
  BY DEF IInv, StartThread, CallInv, CountInv, TypeOK, Live, AtMostOneChild
<1>5. OrderInv'
  BY DEF IInv, StartThread, OrderInv, CountInv, CallInv, TypeOK, InOrder,
         HandedOver, AtMostOneChild, Live
<1>6. DtorInv'
  BY DEF IInv, StartThread, DtorInv, Live
<1> QED
  BY <1>1, <1>2, <1>3, <1>4, <1>5, <1>6 DEF IInv

\* The invariant when Locker::~Locker().
LEMMA LockerUnlockInv == ASSUME IInv, LockerUnlock PROVE IInv'
<1>1. TypeOK'
  BY DEF IInv, LockerUnlock, TypeOK, MainPcs, ChildPcs, Ops
<1>2. LockInv'
  BY DEF IInv, LockerUnlock, LockInv, MainHolds
<1>3. CountInv'
  BY DEF IInv, LockerUnlock, CountInv, AtMostOneChild, Live
<1>4. CallInv'
  BY DEF IInv, LockerUnlock, CallInv, Live
<1>5. OrderInv'
  BY DEF IInv, LockerUnlock, OrderInv, InOrder, HandedOver
<1>6. DtorInv'
  BY DEF IInv, LockerUnlock, DtorInv, Live
<1> QED
  BY <1>1, <1>2, <1>3, <1>4, <1>5, <1>6 DEF IInv

\* The invariant when ~MarshallerThread() begins.
LEMMA DestructInv == ASSUME IInv, Destruct PROVE IInv'
<1>1. TypeOK'
  BY DEF IInv, Destruct, TypeOK, MainPcs, ChildPcs, Ops
<1>2. LockInv'
  BY DEF IInv, Destruct, LockInv, MainHolds
<1>3. CountInv'
  BY DEF IInv, Destruct, CountInv, AtMostOneChild, Live
<1>4. CallInv'
  BY DEF IInv, Destruct, CallInv, Live
<1>5. OrderInv'
  BY DEF IInv, Destruct, OrderInv, InOrder, HandedOver
<1>6. DtorInv'
  BY DEF IInv, Destruct, DtorInv, Live
<1> QED
  BY <1>1, <1>2, <1>3, <1>4, <1>5, <1>6 DEF IInv

\* The invariant when the destructor takes the mutex or waits.
LEMMA DtorLockInv == ASSUME IInv, DtorLock PROVE IInv'
<1>1. TypeOK'
  BY DEF IInv, DtorLock, TypeOK, MainPcs, ChildPcs, Ops
<1>2. LockInv'
  BY DEF IInv, DtorLock, LockInv, MainHolds
<1>3. CountInv'
  BY DEF IInv, DtorLock, CountInv, AtMostOneChild, Live
<1>4. CallInv'
  BY DEF IInv, DtorLock, CallInv, Live
<1>5. OrderInv'
  BY DEF IInv, DtorLock, OrderInv, InOrder, HandedOver
<1>6. DtorInv'
  BY DEF IInv, DtorLock, DtorInv, CountInv, TypeOK, Live, AtMostOneChild
<1> QED
  BY <1>1, <1>2, <1>3, <1>4, <1>5, <1>6 DEF IInv

\* The invariant when the wait of the destructor returns.
LEMMA DtorWakeInv == ASSUME IInv, DtorWake PROVE IInv'
<1>1. TypeOK'
  BY DEF IInv, DtorWake, TypeOK, MainPcs, ChildPcs, Ops
<1>2. LockInv'
  BY DEF IInv, DtorWake, LockInv, MainHolds
<1>3. CountInv'
  BY DEF IInv, DtorWake, CountInv, AtMostOneChild, Live
<1>4. CallInv'
  BY DEF IInv, DtorWake, CallInv, Live
<1>5. OrderInv'
  BY DEF IInv, DtorWake, OrderInv, InOrder, HandedOver
<1>6. DtorInv'
  BY DEF IInv, DtorWake, DtorInv, TypeOK, Live
<1> QED
  BY <1>1, <1>2, <1>3, <1>4, <1>5, <1>6 DEF IInv

\* The invariant when the destructor has the mutex again.
LEMMA DtorRelockInv == ASSUME IInv, DtorRelock PROVE IInv'
<1>1. TypeOK'
  BY DEF IInv, DtorRelock, TypeOK, MainPcs, ChildPcs, Ops
<1>2. LockInv'
  BY DEF IInv, DtorRelock, LockInv, MainHolds
<1>3. CountInv'
  BY DEF IInv, DtorRelock, CountInv, AtMostOneChild, Live
<1>4. CallInv'
  BY DEF IInv, DtorRelock, CallInv, Live
<1>5. OrderInv'
  BY DEF IInv, DtorRelock, OrderInv, InOrder, HandedOver
<1>6. DtorInv'
  BY DEF IInv, DtorRelock, DtorInv, Live
<1> QED
  BY <1>1, <1>2, <1>3, <1>4, <1>5, <1>6 DEF IInv

\* The invariant when the destructor releases the mutex.
LEMMA DtorUnlockInv == ASSUME IInv, DtorUnlock PROVE IInv'
<1>1. TypeOK'
  BY DEF IInv, DtorUnlock, TypeOK, MainPcs, ChildPcs, Ops
<1>2. LockInv'
  BY DEF IInv, DtorUnlock, LockInv, MainHolds
<1>3. CountInv'
  BY DEF IInv, DtorUnlock, CountInv, AtMostOneChild, Live
<1>4. CallInv'
  BY DEF IInv, DtorUnlock, CallInv, Live
<1>5. OrderInv'
  BY DEF IInv, DtorUnlock, OrderInv, InOrder, HandedOver
<1>6. DtorInv'
  BY DEF IInv, DtorUnlock, DtorInv, Live
<1> QED
  BY <1>1, <1>2, <1>3, <1>4, <1>5, <1>6 DEF IInv

\* The invariant when the mutex is destroyed.
LEMMA DestroyInv == ASSUME IInv, Destroy PROVE IInv'
<1>1. TypeOK'
  BY DEF IInv, Destroy, TypeOK, MainPcs, ChildPcs, Ops
<1>2. LockInv'
  BY DEF IInv, Destroy, LockInv, MainHolds
<1>3. CountInv'
  BY DEF IInv, Destroy, CountInv, AtMostOneChild, Live
<1>4. CallInv'
  BY DEF IInv, Destroy, CallInv, Live
<1>5. OrderInv'
  BY DEF IInv, Destroy, OrderInv, InOrder, HandedOver
<1>6. DtorInv'
  BY DEF IInv, Destroy, DtorInv, Live
<1> QED
  BY <1>1, <1>2, <1>3, <1>4, <1>5, <1>6 DEF IInv

\* The invariant when ChildLocker::ChildLocker().
LEMMA ChildLockInv == ASSUME NEW b \in Blocks, IInv, ChildLock(b) PROVE IInv'
<1>1. TypeOK'
  BY DEF IInv, ChildLock, TypeOK, MainPcs, ChildPcs, Ops
<1>2. LockInv'
  BY DEF IInv, ChildLock, LockInv, TypeOK, MainHolds
<1>3. CountInv'
  BY DEF IInv, ChildLock, CountInv, AtMostOneChild, Live
<1>4. CallInv'
  BY DEF IInv, ChildLock, CallInv, Live
<1>5. OrderInv'
  BY DEF IInv, ChildLock, OrderInv, InOrder, HandedOver
<1>6. DtorInv'
  BY DEF IInv, ChildLock, DtorInv, Live
<1> QED
  BY <1>1, <1>2, <1>3, <1>4, <1>5, <1>6 DEF IInv

\* The invariant when the child writes.
LEMMA ChildWriteInv == ASSUME NEW b \in Blocks, IInv, ChildWrite(b) PROVE IInv'
<1>1. TypeOK'
  <2>1. out' \in Seq(Blocks)
    <3>1. out \in Seq(Blocks) /\ (out' = out \/ out' = Append(out, b))
      BY DEF IInv, ChildWrite, StreamWrite, TypeOK
    <3> QED
      BY <3>1
  <2>2. child' \in [Blocks -> ChildPcs]
    BY DEF IInv, ChildWrite, TypeOK, ChildPcs
  <2>3. d_thread_error' \in BOOLEAN /\ aborted' \in BOOLEAN
    BY DEF IInv, ChildWrite, TypeOK
  <2>4. stream' \in {"good", "failed"}
    BY DEF IInv, ChildWrite, StreamWrite, TypeOK
  <2> QED
    BY <2>1, <2>2, <2>3, <2>4 DEF IInv, ChildWrite, TypeOK
<1>2. LockInv'
  BY DEF IInv, ChildWrite, StreamWrite, LockInv, MainHolds
<1>3. CountInv'
  BY DEF IInv, ChildWrite, StreamWrite, CountInv, AtMostOneChild, Live
<1>4. CallInv'
  BY DEF IInv, ChildWrite, StreamWrite, CallInv, Live
<1>5. OrderInv'
  <2> USE DEF IInv
  <2>1. stream = "good" => b = Len(out) + 1
    BY DEF OrderInv, ChildWrite, TypeOK, HandedOver, CallInv, Live
  <2>2. /\ InOrder'
        /\ stream' = "good" => stream = "good" /\ Len(out') = Len(out) + 1
    BY <2>1, StreamWriteInOrder DEF OrderInv, ChildWrite, TypeOK
  <2>3. \A c \in Blocks : child'[c] \notin {"started", "write"}
    BY DEF ChildWrite, TypeOK, CountInv, AtMostOneChild, Live
  <2>4. HandedOver' = HandedOver
    BY DEF ChildWrite, HandedOver
  <2>5. ~dropped' /\ b = HandedOver
    BY DEF ChildWrite, OrderInv, CallInv, Live
  <2> QED
    BY <2>1, <2>2, <2>3, <2>4, <2>5 DEF OrderInv, TypeOK
<1>6. DtorInv'
  BY DEF IInv, ChildWrite, StreamWrite, DtorInv, Live
<1> QED
  BY <1>1, <1>2, <1>3, <1>4, <1>5, <1>6 DEF IInv

\* The invariant when ChildLocker::~ChildLocker().
LEMMA ChildUnlockInv == ASSUME NEW b \in Blocks, IInv, ChildUnlock(b) PROVE IInv'
<1>1. TypeOK'
  BY DEF IInv, ChildUnlock, TypeOK, MainPcs, ChildPcs, Ops
<1>2. LockInv'
  <2>1. owner = b /\ owner' = NoOne /\ main' = main
    BY DEF IInv, ChildUnlock, LockInv
  <2>2. main \notin MainHolds
    BY <2>1 DEF IInv, LockInv
  <2>3. \A c \in Blocks : child'[c] \notin {"write", "exit"}
    BY <2>1 DEF IInv, ChildUnlock, LockInv, TypeOK
  <2> QED
    BY <2>1, <2>2, <2>3 DEF LockInv
<1>3. CountInv'
  BY DEF IInv, ChildUnlock, CountInv, TypeOK, AtMostOneChild, Live
<1>4. CallInv'
  BY DEF IInv, ChildUnlock, CallInv, Live
<1>5. OrderInv'
  BY DEF IInv, ChildUnlock, OrderInv, InOrder, HandedOver
<1>6. DtorInv'
  BY DEF IInv, ChildUnlock, DtorInv, CountInv, TypeOK, Live, AtMostOneChild
<1> QED
  BY <1>1, <1>2, <1>3, <1>4, <1>5, <1>6 DEF IInv

\* The invariant survives every step of the main thread and of the children.
LEMMA NextInv == IInv /\ [Next]_vars => IInv'
<1> SUFFICES ASSUME IInv, [Next]_vars PROVE IInv'
  OBVIOUS
<1>1. ASSUME NEW o \in Ops, Put(o) PROVE IInv'
  BY <1>1, PutInv
<1>2. CASE LockerLock
  BY <1>2, LockerLockInv
<1>3. CASE LockerWake
  BY <1>3, LockerWakeInv
<1>4. CASE MainWrite
  BY <1>4, MainWriteInv
<1>5. CASE StartThread
  BY <1>5, StartThreadInv
<1>6. CASE LockerUnlock
  BY <1>6, LockerUnlockInv
<1>7. CASE Destruct
  BY <1>7, DestructInv
<1>8. CASE DtorLock
  BY <1>8, DtorLockInv
<1>9. CASE DtorWake
  BY <1>9, DtorWakeInv
<1>10. CASE DtorRelock
  BY <1>10, DtorRelockInv
<1>11. CASE DtorUnlock
  BY <1>11, DtorUnlockInv
<1>12. CASE Destroy
  BY <1>12, DestroyInv
<1>13. ASSUME NEW b \in Blocks, ChildLock(b) PROVE IInv'
  BY <1>13, ChildLockInv
<1>14. ASSUME NEW b \in Blocks, ChildWrite(b) PROVE IInv'
  BY <1>14, ChildWriteInv
<1>15. ASSUME NEW b \in Blocks, ChildUnlock(b) PROVE IInv'
  BY <1>15, ChildUnlockInv
<1>16. CASE UNCHANGED vars
  BY <1>16 DEF vars, IInv, TypeOK, LockInv, CountInv, CallInv, OrderInv, DtorInv,
     AtMostOneChild, InOrder, HandedOver, Live
<1> QED
  BY <1>1, <1>2, <1>3, <1>4, <1>5, <1>6, <1>7, <1>8, <1>9, <1>10, <1>11, <1>12, <1>13, <1>14, <1>15, <1>16 DEF Next, Finished

\* The inductive invariant holds in every reachable state.
THEOREM Invariance == Spec => []IInv
BY InitInv, NextInv, PTL DEF Spec

\* Every variable has its type; the thread count is zero or one (MarshallerThread.h:104).
THEOREM TypeCorrect == Spec => []TypeOK
<1>1. IInv => TypeOK
  BY DEF IInv
<1> QED
  BY <1>1, Invariance, PTL

\* No two threads write to the stream at the same time, whatever fails and however
\* often a wait wakes up without a signal.
THEOREM MutualExclusion == Spec => []OneWriter
<1>1. IInv => OneWriter
  BY DEF IInv, LockInv, OneWriter, MainHolds, TypeOK
<1> QED
  BY <1>1, Invariance, PTL

\* At most one child thread exists at any time.
THEOREM OneChild == Spec => []AtMostOneChild
<1>1. IInv => AtMostOneChild
  BY DEF IInv, CountInv
<1> QED
  BY <1>1, Invariance, PTL

\* The blocks are on the stream in the order of the calls, without a gap.
THEOREM Ordered == Spec => []InOrder
<1>1. IInv => InOrder
  BY DEF IInv, OrderInv
<1> QED
  BY <1>1, Invariance, PTL

\* The destructor outlives the child, whatever fails and however often a wait in a
\* Locker wakes up without a signal: only its own wait, when that is not signalled,
\* lets it go on before the child (MarshallerThread.cc:183-187).
THEOREM DestroyedLast == Spec => []NoChildAfterDestroy
<1>1. IInv => NoChildAfterDestroy
  BY DEF IInv, DtorInv, NoChildAfterDestroy
<1> QED
  BY <1>1, Invariance, PTL

\* A count that is not zero stands for a child, unless a child could not be created:
\* start_thread() is the only one to increment it, ~ChildLocker() resets it when the
\* child goes.
LEMMA CountHasChild ==
    ASSUME IInv, ~dropped /\ count # 0 => Live # {}, [Next]_vars
    PROVE  ~dropped' /\ count' # 0 => Live' # {}
<1>1. CASE StartThread
  <2>1. n \in Blocks /\ child \in [Blocks -> ChildPcs]
    BY <1>1 DEF StartThread, IInv, CallInv, TypeOK
  <2>2. ~dropped' => child'[n] = "started"
    BY <1>1, <2>1 DEF StartThread
  <2> QED
    BY <2>1, <2>2 DEF Live
<1>2. ASSUME NEW b \in Blocks, ChildLock(b) \/ ChildWrite(b) PROVE Live' = Live /\ UNCHANGED <<count, dropped>>
  BY <1>2 DEF ChildLock, ChildWrite, Live, IInv, TypeOK
<1>3. ASSUME NEW b \in Blocks, ChildUnlock(b) PROVE count' = 0
  BY <1>3 DEF ChildUnlock
<1>4. CASE DtorRelock
  BY <1>4 DEF DtorRelock
<1>5. CASE \/ \E o \in Ops : Put(o)
           \/ LockerLock \/ LockerWake \/ MainWrite \/ LockerUnlock
           \/ Destruct \/ DtorLock \/ DtorWake \/ DtorUnlock \/ Destroy \/ UNCHANGED vars
  <2>1. UNCHANGED <<count, dropped, child>>
    BY <1>5 DEF Put, LockerLock, LockerWake, MainWrite, LockerUnlock, Destruct, DtorLock,
                DtorWake, DtorUnlock, Destroy, vars
  <2> QED
    BY <2>1 DEF Live
<1> QED
  BY <1>1, <1>2, <1>3, <1>4, <1>5 DEF Next, Finished

\* Whenever the mutex is free, the count is zero just when there is no child, unless
\* the wait of the destructor returned without a signal: it then resets the count of a
\* child that is still there (MarshallerThread.cc:126-127, 184-187).
THEOREM CountExact == Spec => []CountTellsChildren
<1> DEFINE HasChild == ~dropped /\ count # 0 => Live # {}
<1>1. Init => HasChild
  BY DEF Init
<1>2. IInv /\ HasChild /\ [Next]_vars => HasChild'
  BY CountHasChild
<1>3. IInv /\ HasChild => CountTellsChildren
  BY DEF IInv, LockInv, CountInv, DtorInv, MainHolds, CountTellsChildren
<1> HIDE DEF HasChild
<1> QED
  BY <1>1, <1>2, <1>3, Invariance, PTL DEF Spec

----
(* MarshallerThread implements OrderedWriter *)

\* The calls that hand over a block are the abstract Accept.
LEMMA PutRefines ==
    ASSUME IInv, NEW o \in Ops, Put(o) PROVE Abstract!Accept
<1>1. n < MaxPuts
  BY DEF Put, Ops, IInv, TypeOK
<1> QED
  BY <1>1 DEF Put, Abstract!Accept

\* A write of the oldest missing block is the abstract Write when it succeeds and the
\* abstract Fail when it does not.
LEMMA StreamWriteRefines ==
    ASSUME NEW b \in Blocks, StreamWrite(b), TypeOK,
           ~(main = "gone" /\ ~early), ~(main' = "gone" /\ ~early'), dropped' = dropped, ~dropped,
           stream = "good" => b = Len(out) + 1 /\ b <= n,
           n' \in {n, n + 1}, n' <= MaxPuts
    PROVE  Abstract!Write \/ Abstract!Fail
<1>1. CASE stream = "good" /\ out' = Append(out, b) /\ stream' = stream
  <2>1. Len(out) < n
    BY <1>1 DEF TypeOK
  <2> QED
    BY <1>1, <2>1 DEF Abstract!Write
<1>2. CASE stream' = "failed" /\ out' = out
  BY <1>2 DEF Abstract!Fail
<1> QED
  BY <1>1, <1>2 DEF StreamWrite

\* A write by the main thread is a write of the block it just accepted.
LEMMA MainWriteRefines ==
    ASSUME IInv, IInv', MainWrite PROVE Abstract!Write \/ Abstract!Fail
<1>1. n \in Blocks /\ HandedOver = n - 1
  BY DEF IInv, CallInv, TypeOK, MainWrite, HandedOver
<1>2. ~dropped /\ \A b \in Blocks : child[b] \notin {"started", "write"}
  BY DEF IInv, MainWrite, CallInv, CountInv, Live
<1>3. stream = "good" => n = Len(out) + 1
  BY <1>1, <1>2 DEF IInv, OrderInv, TypeOK
<1>4. main # "gone" /\ main' # "gone" /\ dropped' = dropped /\ n' \in {n, n + 1}
  BY DEF MainWrite
<1>5. n' <= MaxPuts
  BY DEF IInv, TypeOK
<1>6. StreamWrite(n) /\ TypeOK
  BY DEF MainWrite, IInv
<1> QED
  BY <1>1, <1>2, <1>3, <1>4, <1>5, <1>6, StreamWriteRefines DEF IInv, TypeOK

\* A write by the child is a write of the last block handed over.
LEMMA ChildWriteRefines ==
    ASSUME IInv, NEW b \in Blocks, ChildWrite(b)
    PROVE  Abstract!Write \/ Abstract!Fail
<1> USE DEF IInv
<1>1. b \in Live
  BY DEF ChildWrite, Live
<1>2. ~(main = "gone" /\ ~early) /\ ~dropped
  BY <1>1 DEF DtorInv, CallInv, TypeOK
<1>3. main' = main /\ early' = early /\ dropped' = dropped /\ n' = n /\ n <= MaxPuts
  BY DEF ChildWrite, TypeOK
<1>4. stream = "good" => b = Len(out) + 1 /\ b <= n
  BY <1>2 DEF OrderInv, ChildWrite, TypeOK, HandedOver
<1>5. StreamWrite(b) /\ TypeOK
  BY DEF ChildWrite
<1> QED
  BY <1>2, <1>3, <1>4, <1>5, StreamWriteRefines DEF TypeOK

\* The destructor is done only when nothing is missing from a good stream, unless its
\* wait returned without a signal.
LEMMA DestroyRefines ==
    ASSUME IInv, Destroy, ~early PROVE Abstract!Close
<1>1. \A b \in Blocks : child[b] \notin {"started", "write"}
  BY DEF IInv, DtorInv, Destroy, Live
<1>2. stream = "good" /\ ~dropped => Len(out) = n
  BY <1>1 DEF IInv, OrderInv, HandedOver, Destroy
<1> QED
  BY <1>2 DEF Destroy, Abstract!Close, IInv, TypeOK

\* Every step is an abstract step or changes nothing the abstract writer has.
LEMMA NextRefines ==
    ASSUME IInv, IInv', [Next]_vars
    PROVE  [Abstract!Next]_(Abstract!ovars)
<1> USE DEF Abstract!Next, Abstract!ovars
<1>1. ASSUME NEW o \in Ops, Put(o) PROVE Abstract!Next
  BY <1>1, PutRefines
<1>2. CASE MainWrite
  BY <1>2, MainWriteRefines
<1>3. CASE StartThread
  BY <1>3 DEF StartThread, Abstract!Fail, IInv, TypeOK
<1>4. CASE Destroy
  <2>1. CASE ~early
    BY <1>4, <2>1, DestroyRefines
  <2>2. CASE early
    BY <1>4, <2>2 DEF Destroy
  <2> QED
    BY <2>1, <2>2
<1>5. ASSUME NEW b \in Blocks, ChildWrite(b) PROVE Abstract!Next
  BY <1>5, ChildWriteRefines
<1>6. ASSUME NEW b \in Blocks, ChildLock(b) \/ ChildUnlock(b)
      PROVE  UNCHANGED Abstract!ovars
  BY <1>6 DEF ChildLock, ChildUnlock
<1>7. CASE \/ LockerLock \/ LockerWake \/ LockerUnlock \/ Destruct
           \/ DtorLock \/ DtorWake \/ DtorRelock \/ DtorUnlock
  BY <1>7 DEF LockerLock, LockerWake, LockerUnlock, Destruct, DtorLock, DtorWake,
     DtorRelock, DtorUnlock
<1>8. CASE UNCHANGED vars
  BY <1>8 DEF vars
<1> QED
  BY <1>1, <1>2, <1>3, <1>4, <1>5, <1>6, <1>7, <1>8 DEF Next, Finished

\* A marshaller with its thread is an ordered writer, whatever fails: nothing is lost,
\* reordered or left behind without a failure, and the end of the marshaller is the end
\* of the writer but when the destructor's wait returned without a signal.
THEOREM Refinement == Spec => ImplementsOrderedWriter
<1>1. Init => Abstract!Init
  BY DEF Init, Abstract!Init
<1>2. IInv /\ IInv' /\ [Next]_vars => [Abstract!Next]_(Abstract!ovars)
  BY NextRefines
<1> QED
  BY <1>1, <1>2, Invariance, PTL DEF Spec, Abstract!Spec, ImplementsOrderedWriter

====
