---- MODULE OrderedWriter ----
(***************************************************************************)
(* What a caller of a stream marshaller may rely on, whatever threads the  *)
(* marshaller uses: the blocks it accepts reach the output stream one at a *)
(* time, in the order they were put, and the marshaller is only gone when  *)
(* every accepted block is on the stream, unless an I/O or a thread        *)
(* failure lost some.  MarshallerThread is shown to implement it.          *)
(***************************************************************************)
EXTENDS Naturals, Sequences

CONSTANT MaxPuts      \* bound on the blocks one marshaller is given

VARIABLES
    accepted,   \* how many blocks the callers have put so far
    written,    \* the blocks on the output stream, in stream order
    failed,     \* a write or the creation of a writer thread has failed
    closed      \* the marshaller has been destroyed

ovars == <<accepted, written, failed, closed>>

Init ==
    /\ accepted = 0
    /\ written = << >>
    /\ failed = FALSE
    /\ closed = FALSE

\* A caller hands over the next block.
Accept ==
    /\ ~closed
    /\ accepted < MaxPuts
    /\ accepted' = accepted + 1
    /\ UNCHANGED <<written, failed, closed>>

\* The oldest block that is not on the stream goes to the stream; a block that
\* needs no buffering may be accepted by the step that starts the next one.
Write ==
    /\ ~closed
    /\ ~failed
    /\ Len(written) < accepted
    /\ written' = Append(written, Len(written) + 1)
    /\ accepted' \in {accepted, accepted + 1}
    /\ accepted' <= MaxPuts
    /\ UNCHANGED <<failed, closed>>

\* A failure: the blocks that are not on the stream are lost.
Fail ==
    /\ ~closed
    /\ failed' = TRUE
    /\ accepted' \in {accepted, accepted + 1}
    /\ accepted' <= MaxPuts
    /\ UNCHANGED <<written, closed>>

\* The end of the marshaller.
Close ==
    /\ ~closed
    /\ failed \/ Len(written) = accepted
    /\ closed' = TRUE
    /\ UNCHANGED <<accepted, written, failed>>

Next == Accept \/ Write \/ Fail \/ Close

Spec == Init /\ [][Next]_ovars

====
