---- MODULE ChunkedStream ----
(***************************************************************************)
(* chunked_outbuf and chunked_inbuf: the bytes of a DAP4 response go into  *)
(* the writer's buffer, over the wire in chunks with a type and a size,    *)
(* and through the reader's get area to its caller.                        *)
(*                                                                         *)
(* Bytes are numbered in the order the writer's caller puts them.  A chunk *)
(* says which numbers it disposes of: from+1..to are its body for a data   *)
(* or an end chunk, and the bytes that were thrown away for an error       *)
(* chunk.  Since the buffer always holds the last bytes put, its length is *)
(* enough to know its contents.                                            *)
(*                                                                         *)
(* Writer and reader run at the two ends of a connection.  The loops of    *)
(* xsputn() and xsgetn() take one step per chunk.  When the stream under   *)
(* the writer fails, the chunk being written may arrive in part, and       *)
(* nothing follows it.                                                     *)
(***************************************************************************)
EXTENDS Integers, Sequences

CONSTANTS
    BufSize,        \* the writer's d_buf_size
    ReadSize,       \* the size the reader's buffer is built with
    Reads,          \* how many bytes a caller may ask read() for
    Writes,         \* how many bytes a caller may give write()
    MsgLens,        \* lengths of error messages
    MaxBytes,       \* bound on the bytes put
    MaxChunks,      \* bound on the chunks after which no more are forced
    SinkFails       \* the stream under the writer may fail

ASSUME SizesAssumption == BufSize \in Nat \ {0} /\ ReadSize \in Nat
ASSUME CallsAssumption ==
    Reads \subseteq Nat /\ Writes \subseteq Nat /\ MsgLens \subseteq Nat
ASSUME BoundsAssumption ==
    MaxBytes \in Nat /\ MaxChunks \in Nat /\ SinkFails \in BOOLEAN

VARIABLES
    put,        \* how many bytes the writer's caller has put
    buf,        \* how many of the last of them are in d_buffer: pptr() - pbase()
    left,       \* bytes_still_to_send, while xsputn() is in its loop
    sink,       \* the state of d_os
    ostate,     \* the state of the chunked_ostream
    closed,     \* the chunked_outbuf has been destroyed
    wire,       \* the chunks written
    pos,        \* how many of them the reader has read
    area,       \* the get area: bytes from+1..to, of which those up to real arrived
    cap,        \* the reader's d_buf_size
    want,       \* bytes_left_to_read, while xsgetn() is in its loop
    got,        \* the bytes the reader's caller was given
    rstate,     \* "eof" once the reader's caller was told so
    d_error,    \* an error chunk was read
    skipped     \* read_next_chunk() threw bytes of the get area away

writerVars == <<put, buf, left, sink, ostate, closed, wire>>
readerVars == <<pos, area, cap, want, got, rstate, d_error, skipped>>
vars == <<writerVars, readerVars>>

Garbage == 0
NoBytes == [from |-> 0, to |-> 0, real |-> 0]

\* The constructors.
Init ==
    /\ put = 0
    /\ buf = 0
    /\ left = 0
    /\ sink = "good"
    /\ ostate = "good"
    /\ closed = FALSE
    /\ wire = << >>
    /\ pos = 0
    /\ area = NoBytes
    /\ cap = ReadSize
    /\ want = 0
    /\ got = << >>
    /\ rstate = "good"
    /\ d_error = FALSE
    /\ skipped = FALSE

----
(* The writer *)

\* The number of the last byte that is on the wire or was thrown away.
Disposed == put - left - buf

\* A chunk for the bytes up to number to.
Body(type, to) == [type |-> type, from |-> Disposed, to |-> to,
                   size |-> to - Disposed, arrived |-> to - Disposed]

\* The header and the body of a chunk are written to d_os; d_os may fail before the
\* header or anywhere in the body, and does nothing once it has failed.
Send(c) ==
    \/ /\ sink = "good"
       /\ wire' = Append(wire, c)
       /\ UNCHANGED sink
    \/ /\ sink = "good"
       /\ SinkFails
       /\ sink' = "bad"
       /\ \/ UNCHANGED wire
          \/ \E k \in 0..(c.size - 1) : wire' = Append(wire, [c EXCEPT !.arrived = k])
    \/ /\ sink = "bad"
       /\ UNCHANGED <<wire, sink>>

\* The caller may put n more bytes.
CanPut(n) ==
    /\ ~closed
    /\ left = 0
    /\ ostate = "good"
    /\ put + n <= MaxBytes
    /\ put' = put + n
    /\ UNCHANGED <<left, closed, readerVars>>

\* Bug: a chunk that could not be written is reported as if it were.
PutByteIgnoresError ==
    /\ CanPut(1)
    /\ IF buf < BufSize - 1
          THEN buf' = buf + 1 /\ UNCHANGED <<wire, sink>>
          ELSE /\ Send(Body("data", put + 1))
               /\ buf' = IF sink' = "good" THEN 0 ELSE buf + 1
    /\ UNCHANGED ostate

\* ostream::put(): into the buffer, or, for the last place in it, overflow(), which
\* sends a data chunk.
PutByte ==
    /\ CanPut(1)
    /\ IF buf < BufSize - 1
          THEN buf' = buf + 1 /\ UNCHANGED <<wire, sink, ostate>>
          ELSE /\ Send(Body("data", put + 1))
               /\ IF sink' = "good"
                     THEN buf' = 0 /\ UNCHANGED ostate
                     ELSE buf' = buf + 1 /\ ostate' = "bad"

\* Bytes fewer than a chunk are buffered.
Buffer(n) ==
    /\ CanPut(n)
    /\ buf + n < BufSize
    /\ buf' = buf + n
    /\ UNCHANGED <<wire, sink, ostate>>

\* A chunk of the size of the buffer is sent; rest bytes remain of those the caller
\* gave.  After an error the buffer is empty and the caller is told.
SendFull(rest) ==
    /\ Send(Body("data", Disposed + BufSize))
    /\ CASE sink' # "good" -> left' = 0 /\ buf' = 0 /\ ostate' = "bad"
         [] sink' = "good" /\ rest >= BufSize -> left' = rest /\ buf' = 0 /\ UNCHANGED ostate
         [] OTHER -> left' = 0 /\ buf' = rest /\ UNCHANGED ostate

\* xsputn() of enough bytes for a chunk: the buffer and the first of the bytes go out.
FillChunk(n) ==
    /\ ~closed
    /\ left = 0
    /\ ostate = "good"
    /\ put + n <= MaxBytes
    /\ buf + n >= BufSize
    /\ put' = put + n
    /\ SendFull(n - (BufSize - buf))
    /\ UNCHANGED <<closed, readerVars>>

\* The loop of xsputn().
NextChunk ==
    /\ left > 0
    /\ SendFull(left - BufSize)
    /\ UNCHANGED <<put, closed, readerVars>>

\* A chunk with what is in the buffer; the buffer is kept when that fails.
SendBuffer(c) ==
    /\ ~closed
    /\ left = 0
    /\ Send(c)
    /\ buf' = IF sink' = "good" THEN 0 ELSE buf
    /\ UNCHANGED <<put, left, ostate, readerVars>>

\* data_chunk(), through flush() or write_data_chunk(); sync() tells the stream of no
\* error (not_eof(-1) is 0).
DataChunk ==
    /\ buf > 0
    /\ SendBuffer(Body("data", put))
    /\ UNCHANGED closed

\* write_end_chunk().
EndChunk ==
    /\ Len(wire) < MaxChunks
    /\ SendBuffer(Body("end", put))
    /\ UNCHANGED closed

\* Bug: the bytes in the buffer are kept for the next chunk.
ErrChunkKeepsBuffer(len) ==
    /\ ~closed
    /\ left = 0
    /\ Len(wire) < MaxChunks
    /\ Send([Body("err", put) EXCEPT !.size = len, !.arrived = len])
    /\ UNCHANGED <<put, buf, left, ostate, closed, readerVars>>

\* write_err_chunk(): a message goes out in place of what is in the buffer.
ErrChunk(len) ==
    /\ Len(wire) < MaxChunks
    /\ SendBuffer([Body("err", put) EXCEPT !.size = len, !.arrived = len])
    /\ UNCHANGED closed

\* Bug: the destructor only closes.
CloseNoEndChunk ==
    /\ ~closed
    /\ left = 0
    /\ closed' = TRUE
    /\ UNCHANGED <<put, buf, left, sink, ostate, wire, readerVars>>

\* ~chunked_outbuf().
Close ==
    /\ SendBuffer(Body("end", put))
    /\ closed' = TRUE

----
(* The reader *)

\* A chunk of which not everything arrived.
Cut(c) == c.arrived < c.size
SawCut == pos > 0 /\ Cut(wire[pos])

\* d_is reaches its end when a header is read; or there is a chunk to read.
AtEnd == SawCut \/ (pos = Len(wire) /\ (closed \/ sink = "bad"))
HasChunk == ~SawCut /\ pos < Len(wire)
Chunk == wire[pos + 1]

\* The body of a chunk as the get area: the test of d_is.bad() does not notice that
\* some of it did not arrive, and what the buffer held before is taken for it.
Arrived(c) == [from |-> c.from, to |-> c.to, real |-> c.from + c.arrived]
InArea == area.to - area.from

\* The caller is given the first n bytes of some.
Give(bytes, n) ==
    got' = got \o [i \in 1..n |-> IF bytes.from + i <= bytes.real THEN bytes.from + i
                                                                   ELSE Garbage]
After(bytes, n) == [bytes EXCEPT !.from = @ + n]

\* Bug: the buffer stays as it is.
GrowNot(need) == UNCHANGED cap

\* The buffer is made as large as the chunk when need bytes do not fit.
Grow(need) == cap' = IF need > cap THEN Chunk.size ELSE cap

\* Bug: the get area starts with bytes the caller has.
KeepAll(n) == area' = Arrived(Chunk)

\* The get area is what the caller did not take of the chunk.
Keep(n) == area' = After(Arrived(Chunk), n)

\* The caller is told that there is no more.
TellEof ==
    /\ rstate' = "eof"
    /\ want' = 0
    /\ UNCHANGED <<area, cap, got, writerVars>>

\* Bug: the end of d_is is not noticed, and the loop goes on.
NoMoreAtEndLoops ==
    \/ AtEnd /\ UNCHANGED vars
    \/ /\ HasChunk
       /\ \/ Chunk.type = "err" /\ d_error' = TRUE
          \/ Chunk.type = "end" /\ Chunk.size = 0 /\ UNCHANGED d_error
       /\ pos' = pos + 1
       /\ TellEof

\* The end of the stream, an empty end chunk or an error chunk.  (What the get area
\* holds is not read any more.)
NoMore ==
    /\ \/ AtEnd /\ UNCHANGED <<pos, d_error>>
       \/ /\ HasChunk
          /\ \/ Chunk.type = "err" /\ d_error' = TRUE
             \/ Chunk.type = "end" /\ Chunk.size = 0 /\ UNCHANGED d_error
          /\ pos' = pos + 1
    /\ TellEof

\* A chunk with data.
HasData == HasChunk /\ (Chunk.type = "data" \/ (Chunk.type = "end" /\ Chunk.size > 0))
ReadData == HasData /\ pos' = pos + 1 /\ UNCHANGED d_error

\* istream::get() of a byte in the get area.
GetByte ==
    /\ rstate = "good"
    /\ want = 0
    /\ InArea > 0
    /\ Give(area, 1)
    /\ area' = After(area, 1)
    /\ UNCHANGED <<pos, cap, want, rstate, d_error, skipped, writerVars>>

\* istream::get() with an empty get area: underflow() reads a chunk into it.
Underflow ==
    /\ rstate = "good"
    /\ want = 0
    /\ InArea <= 0
    /\ \/ NoMore
       \/ /\ ReadData
          /\ Grow(Chunk.size)
          /\ Give(Arrived(Chunk), 1)
          /\ Keep(1)
          /\ UNCHANGED <<want, rstate, writerVars>>
    /\ UNCHANGED skipped

\* istream::read(): xsgetn() takes what it needs, or all there is, from the get area.
Read(n) ==
    /\ rstate = "good"
    /\ want = 0
    /\ LET m == IF n <= InArea THEN n ELSE InArea
       IN  /\ Give(area, m)
           /\ area' = After(area, m)
           /\ want' = n - m
    /\ UNCHANGED <<pos, cap, rstate, d_error, skipped, writerVars>>

\* The loop of xsgetn(): a chunk goes to the caller; what is too much goes to the get
\* area, after the buffer was made larger if that does not fit.  An end chunk ends the
\* call, and when it was too short istream::read() marks the end of the stream.
ReadChunk ==
    /\ want > 0
    /\ \/ NoMore
       \/ /\ ReadData
          /\ LET m == IF Chunk.size > want THEN want ELSE Chunk.size
             IN  /\ Give(Arrived(Chunk), m)
                 /\ Grow(IF Chunk.size > want THEN Chunk.size - want ELSE Chunk.size)
                 /\ Keep(m)
                 /\ want' = IF Chunk.type = "end" THEN 0 ELSE want - m
                 /\ rstate' = IF Chunk.type = "end" /\ m < want THEN "eof" ELSE "good"
          /\ UNCHANGED writerVars
    /\ UNCHANGED skipped

\* read_next_chunk(): the next chunk replaces what is left in the get area.
ReadNextChunk ==
    /\ rstate = "good"
    /\ want = 0
    /\ skipped' = (skipped \/ InArea > 0)
    /\ \/ NoMore
       \/ /\ ReadData
          /\ Grow(Chunk.size)
          /\ Keep(0)
          /\ UNCHANGED <<want, got, rstate, writerVars>>

\* Both ends are done.
Finished == closed /\ rstate = "eof" /\ UNCHANGED vars

----

Next ==
    \/ PutByte
    \/ \E n \in Writes : Buffer(n) \/ FillChunk(n)
    \/ NextChunk
    \/ DataChunk \/ EndChunk \/ \E len \in MsgLens : ErrChunk(len)
    \/ Close
    \/ GetByte \/ Underflow \/ \E n \in Reads : Read(n)
    \/ ReadChunk
    \/ ReadNextChunk
    \/ Finished

Spec == Init /\ [][Next]_vars

\* The processor runs the loops of both ends; nothing makes the callers go on.
FairSpec == Spec /\ WF_vars(NextChunk) /\ WF_vars(ReadChunk)

----
(* Properties *)

ChunkSet == [type : {"data", "end", "err"}, from : Nat, to : Nat, size : Nat, arrived : Nat]

TypeOK ==
    /\ put \in Nat
    /\ buf \in Nat
    /\ left \in Nat
    /\ sink \in {"good", "bad"}
    /\ ostate \in {"good", "bad"}
    /\ closed \in BOOLEAN
    /\ wire \in Seq(ChunkSet)
    /\ pos \in 0..Len(wire)
    /\ area \in [from : Nat, to : Nat, real : Nat]
    /\ cap \in Nat
    /\ want \in Nat
    /\ got \in Seq(Nat)
    /\ rstate \in {"good", "eof"}
    /\ d_error \in BOOLEAN
    /\ skipped \in BOOLEAN

\* Every byte put is disposed of by exactly one chunk, or is in the buffer, or is
\* still the caller's; nothing is sent twice, whatever mixture of puts, writes, flushes,
\* end and error chunks the caller makes ("the code must have sent num bytes",
\* chunked_ostream.cc:318-319).
NothingTwice ==
    /\ \A i \in 1..Len(wire) : wire[i].from = IF i = 1 THEN 0 ELSE wire[i - 1].to
    /\ sink = "good" =>
          Disposed = IF wire = << >> THEN 0 ELSE wire[Len(wire)].to

\* A data chunk is neither empty (underflow() would give its caller a byte that is not
\* there) nor larger than the buffer, and d_buffer is never written past its end,
\* also not by overflow() after a chunk could not be sent.
ChunksFit ==
    /\ \A i \in 1..Len(wire) : wire[i].type = "data" => wire[i].size \in 1..BufSize
    /\ buf <= BufSize

\* What is in the get area fits the buffer it is in (chunked_istream.cc:122-125 and
\* 262-265 make it larger), and the read position never passes its end.
AreaFits == area.from <= area.to /\ InArea <= cap

\* The reader's caller gets bytes in the order they were put, none twice, and nothing
\* else unless a chunk was cut short.
InOrder ==
    /\ \A i, j \in 1..Len(got) : i < j /\ got[j] # Garbage => got[i] < got[j]
    /\ (\E i \in 1..Len(got) : got[i] = Garbage) => SawCut

\* A caller who reads to the end, and is told of no error, got a byte for every byte put
\* before the end chunk.  It is said while the stream under the writer works, as who
\* writes is told of its failure, and it counts what a chunk that was cut short should
\* have brought: those bytes are the garbage of InOrder (chunked_istream.cc:257).
NothingLost ==
    rstate = "eof" /\ ~d_error /\ ~skipped /\ sink = "good" =>
        pos > 0 /\ wire[pos].type = "end" /\ Len(got) = wire[pos].to

\* A read() returns once the writer is done.
ReadsReturn == (want > 0 /\ closed) ~> (want = 0)

----
(* The inductive invariant behind the safety properties *)

\* xsputn() is in its loop only with an empty buffer and bytes for a chunk; the last
\* place of the buffer is taken only after an error.
WriterInv ==
    /\ left > 0 => left >= BufSize /\ buf = 0 /\ ostate = "good"
    /\ ostate = "good" => buf < BufSize
    /\ Disposed >= 0
    /\ closed => left = 0

\* What a chunk says of itself; only the last chunk can be cut short.
WireInv ==
    /\ \A i \in 1..Len(wire) :
          /\ wire[i].from <= wire[i].to
          /\ wire[i].arrived <= wire[i].size
          /\ wire[i].type # "err" => wire[i].size = wire[i].to - wire[i].from
          /\ Cut(wire[i]) => i = Len(wire) /\ sink = "bad"
    /\ closed /\ sink = "good" => Len(wire) > 0 /\ wire[Len(wire)].type = "end"

\* The get area is the tail of the last chunk read, the caller has only bytes before
\* it, and all of them unless some were thrown away.
ReaderInv ==
    /\ want > 0 => InArea = 0 /\ rstate = "good"
    /\ rstate = "good" => area.to = IF pos = 0 THEN 0 ELSE wire[pos].to
    /\ area.real < area.to => SawCut
    /\ \A i \in 1..Len(got) : got[i] <= area.from
    /\ rstate = "good" /\ ~skipped => Len(got) = area.from

IInv ==
    /\ TypeOK
    /\ NothingTwice
    /\ ChunksFit
    /\ AreaFits
    /\ InOrder
    /\ NothingLost
    /\ WriterInv
    /\ WireInv
    /\ ReaderInv

====
