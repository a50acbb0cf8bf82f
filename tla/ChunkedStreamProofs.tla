---- MODULE ChunkedStreamProofs ----
(***************************************************************************)
(* The safety properties of ChunkedStream for every size of the buffers,   *)
(* every mixture of calls and every failure of the stream: IInv holds      *)
(* initially and every action keeps it.  The actions of the writer are     *)
(* instances of one lemma about a chunk being sent, those of the reader of *)
(* one about bytes being given to its caller.                              *)
(***************************************************************************)
EXTENDS ChunkedStream, TLAPS

USE SizesAssumption, CallsAssumption, BoundsAssumption

AreaSet == [from : Nat, to : Nat, real : Nat]

\* The constructors establish the invariant.
LEMMA InitInv == Init => IInv
<1> SUFFICES ASSUME Init PROVE IInv
    OBVIOUS
<1> USE DEF Init
<1>1. wire = << >> /\ Len(wire) = 0 /\ got = << >> /\ Len(got) = 0 /\ Disposed = 0
    BY DEF Disposed
<1>2. TypeOK
    <2>1. wire \in Seq(ChunkSet) /\ got \in Seq(Nat) BY <1>1
    <2>2. area \in [from : Nat, to : Nat, real : Nat] BY DEF NoBytes
    <2>3. pos \in 0..Len(wire) BY <1>1
    <2> QED BY <2>1, <2>2, <2>3 DEF TypeOK
<1>3. NothingTwice /\ ChunksFit /\ AreaFits /\ InOrder /\ NothingLost
    BY <1>1 DEF NothingTwice, ChunksFit, AreaFits, InOrder, NothingLost, NoBytes, InArea
<1>4. WriterInv /\ WireInv
    BY <1>1 DEF WriterInv, WireInv
<1>5. ReaderInv
    BY <1>1 DEF ReaderInv, NoBytes, InArea
<1> QED BY <1>2, <1>3, <1>4, <1>5 DEF IInv

----
(* The writer *)

\* What Send() may do to the wire.
LEMMA SendWire ==
    ASSUME wire \in Seq(ChunkSet), sink \in {"good", "bad"}, NEW c \in ChunkSet, Send(c),
           c.arrived = c.size
    PROVE  /\ wire' \in Seq(ChunkSet)
           /\ sink' \in {"good", "bad"}
           /\ Len(wire') \in {Len(wire), Len(wire) + 1}
           /\ \A i \in 1..Len(wire) : wire'[i] = wire[i]
           /\ sink' = "good" => sink = "good" /\ Len(wire') = Len(wire) + 1
           /\ Len(wire') = Len(wire) + 1 =>
                 LET l == wire'[Len(wire) + 1]
                 IN  /\ sink = "good"
                     /\ l.type = c.type /\ l.from = c.from /\ l.to = c.to /\ l.size = c.size
                     /\ l.arrived <= l.size
                     /\ l.arrived < l.size => sink' = "bad"
<1>1. CASE sink = "good" /\ wire' = Append(wire, c) /\ UNCHANGED sink
    <2>1. /\ wire' \in Seq(ChunkSet) /\ Len(wire') = Len(wire) + 1
          /\ \A i \in 1..Len(wire) : wire'[i] = wire[i]
          /\ wire'[Len(wire) + 1] = c
        BY <1>1
    <2> QED BY <1>1, <2>1 DEF ChunkSet
<1>2. CASE sink = "good" /\ sink' = "bad" /\ wire' = wire
    BY <1>2
<1>3. ASSUME sink = "good", sink' = "bad", NEW k \in 0..(c.size - 1),
             wire' = Append(wire, [c EXCEPT !.arrived = k])
      PROVE  /\ wire' \in Seq(ChunkSet) /\ Len(wire') = Len(wire) + 1
             /\ \A i \in 1..Len(wire) : wire'[i] = wire[i]
             /\ wire'[Len(wire) + 1] = [c EXCEPT !.arrived = k]
             /\ k \in Nat /\ k < c.size
    <2>1. c.size \in Nat /\ k \in Nat /\ k < c.size BY DEF ChunkSet
    <2>2. [c EXCEPT !.arrived = k] \in ChunkSet BY <2>1 DEF ChunkSet
    <2> QED BY <1>3, <2>1, <2>2
<1>4. CASE \E k \in 0..(c.size - 1) : /\ sink = "good" /\ sink' = "bad"
                                     /\ wire' = Append(wire, [c EXCEPT !.arrived = k])
    <2>1. PICK k \in 0..(c.size - 1) : /\ sink = "good" /\ sink' = "bad"
                                      /\ wire' = Append(wire, [c EXCEPT !.arrived = k])
        BY <1>4
    <2>2. LET l == [c EXCEPT !.arrived = k]
          IN  l.type = c.type /\ l.from = c.from /\ l.to = c.to /\ l.size = c.size
              /\ l.arrived = k
        BY DEF ChunkSet
    <2>3. /\ wire' \in Seq(ChunkSet) /\ Len(wire') = Len(wire) + 1
          /\ \A i \in 1..Len(wire) : wire'[i] = wire[i]
          /\ wire'[Len(wire) + 1] = [c EXCEPT !.arrived = k]
          /\ k \in Nat /\ k < c.size
        BY <1>3, <2>1
    <2>4. k <= c.size BY <2>3 DEF ChunkSet
    <2> QED BY <2>1, <2>2, <2>3, <2>4
<1>5. CASE sink = "bad" /\ UNCHANGED <<wire, sink>>
    BY <1>5
<1> QED BY <1>1, <1>2, <1>4, <1>5 DEF Send

\* A step of the writer only adds to the wire: what the reader knows stays true.
LEMMA ReaderKept ==
    ASSUME IInv, UNCHANGED readerVars, wire' \in Seq(ChunkSet), Len(wire') >= Len(wire),
           \A i \in 1..Len(wire) : wire'[i] = wire[i],
           sink' = "good" => sink = "good"
    PROVE  /\ pos' \in 0..Len(wire')
           /\ area' \in AreaSet /\ cap' \in Nat /\ want' \in Nat /\ got' \in Seq(Nat)
           /\ rstate' \in {"good", "eof"} /\ d_error' \in BOOLEAN /\ skipped' \in BOOLEAN
           /\ AreaFits' /\ InOrder' /\ NothingLost' /\ ReaderInv'
<1>1. pos \in 0..Len(wire) /\ (pos > 0 => wire'[pos] = wire[pos])
    BY DEF IInv, TypeOK
<1>2. SawCut' = SawCut BY <1>1 DEF SawCut, Cut, readerVars
<1>3. UNCHANGED <<pos, area, cap, want, got, rstate, d_error, skipped>> BY DEF readerVars
<1>4. AreaFits' BY <1>3 DEF IInv, AreaFits, InArea
<1>5. InOrder' BY <1>2, <1>3 DEF IInv, InOrder, Garbage
<1>6. NothingLost' BY <1>1, <1>3 DEF IInv, NothingLost
<1>7. ReaderInv' BY <1>1, <1>2, <1>3 DEF IInv, ReaderInv, InArea
<1> QED BY <1>1, <1>3, <1>4, <1>5, <1>6, <1>7 DEF IInv, TypeOK, AreaSet

\* A chunk is sent that disposes of the next bytes, and of all up to the new Disposed.
LEMMA SendInv ==
    ASSUME IInv, ~closed, NEW c \in ChunkSet, Send(c), UNCHANGED readerVars,
           c.from = Disposed, c.from <= c.to, c.arrived = c.size,
           c.type # "err" => c.size = c.to - c.from,
           c.type = "data" => c.size \in 1..BufSize,
           put' \in Nat, buf' \in Nat, left' \in Nat, buf' <= BufSize,
           ostate' \in {"good", "bad"}, closed' \in BOOLEAN,
           sink' = "good" => Disposed' = c.to,
           closed' => c.type = "end",
           WriterInv'
    PROVE  IInv'
<1> DEFINE L == Len(wire)
<1>1. /\ wire \in Seq(ChunkSet) /\ sink \in {"good", "bad"} /\ L \in Nat
    BY DEF IInv, TypeOK
<1>2. /\ wire' \in Seq(ChunkSet)
      /\ sink' \in {"good", "bad"}
      /\ Len(wire') \in {L, L + 1}
      /\ \A i \in 1..L : wire'[i] = wire[i]
      /\ sink' = "good" => sink = "good" /\ Len(wire') = L + 1
      /\ Len(wire') = L + 1 =>
            LET l == wire'[L + 1]
            IN  /\ sink = "good"
                /\ l.type = c.type /\ l.from = c.from /\ l.to = c.to /\ l.size = c.size
                /\ l.arrived <= l.size
                /\ l.arrived < l.size => sink' = "bad"
    BY <1>1, SendWire
<1>3. /\ pos' \in 0..Len(wire')
      /\ area' \in AreaSet /\ cap' \in Nat /\ want' \in Nat /\ got' \in Seq(Nat)
      /\ rstate' \in {"good", "eof"} /\ d_error' \in BOOLEAN /\ skipped' \in BOOLEAN
      /\ AreaFits' /\ InOrder' /\ NothingLost' /\ ReaderInv'
    BY <1>1, <1>2, ReaderKept
<1>4. TypeOK' BY <1>2, <1>3 DEF TypeOK, AreaSet
<1>5. NothingTwice'
    <2>1. ASSUME NEW i \in 1..Len(wire')
          PROVE  wire'[i].from = IF i = 1 THEN 0 ELSE wire'[i - 1].to
        <3>1. CASE i \in 1..L
            <4>1. i # 1 => i - 1 \in 1..L BY <3>1, <1>1
            <4>2. wire[i].from = IF i = 1 THEN 0 ELSE wire[i - 1].to
                BY <3>1 DEF IInv, NothingTwice
            <4> QED BY <3>1, <4>1, <4>2, <1>2
        <3>2. CASE i = L + 1 /\ Len(wire') = L + 1
            <4>1. wire'[i].from = Disposed /\ sink = "good" BY <3>2, <1>2
            <4>2. Disposed = IF wire = << >> THEN 0 ELSE wire[L].to
                BY <4>1 DEF IInv, NothingTwice
            <4>3. L > 0 => wire'[L] = wire[L] BY <1>1, <1>2
            <4> QED BY <4>1, <4>2, <4>3, <3>2, <1>1
        <3> QED BY <3>1, <3>2, <1>2, <1>1
    <2>2. ASSUME sink' = "good" PROVE Disposed' = wire'[Len(wire')].to /\ wire' # << >>
        BY <2>2, <1>1, <1>2
    <2> QED BY <2>1, <2>2 DEF NothingTwice
<1>6. ChunksFit'
    BY <1>1, <1>2 DEF IInv, ChunksFit
<1>7. WireInv'
    <2>1. ASSUME NEW i \in 1..Len(wire')
          PROVE  /\ wire'[i].from <= wire'[i].to
                 /\ wire'[i].arrived <= wire'[i].size
                 /\ wire'[i].type # "err" => wire'[i].size = wire'[i].to - wire'[i].from
                 /\ wire'[i].arrived < wire'[i].size => i = Len(wire') /\ sink' = "bad"
        <3>1. CASE i \in 1..L
            <4>1. Cut(wire[i]) => sink = "bad" /\ i = L BY <3>1 DEF IInv, WireInv
            <4>2. Cut(wire[i]) => Len(wire') = L /\ sink' = "bad" BY <4>1, <1>1, <1>2
            <4> QED BY <3>1, <4>1, <4>2, <1>1, <1>2 DEF IInv, WireInv, Cut
        <3>2. CASE i = L + 1 /\ Len(wire') = L + 1
            BY <3>2, <1>2
        <3> QED BY <3>1, <3>2, <1>2, <1>1
    <2>2. closed' /\ sink' = "good" => Len(wire') > 0 /\ wire'[Len(wire')].type = "end"
        BY <1>1, <1>2
    <2> QED BY <2>1, <2>2 DEF WireInv, Cut
<1> QED BY <1>3, <1>4, <1>5, <1>6, <1>7 DEF IInv

\* What the writer may take for granted of its counters.
LEMMA WriterFacts ==
    ASSUME IInv
    PROVE  /\ put \in Nat /\ buf \in Nat /\ left \in Nat /\ BufSize \in Nat \ {0}
           /\ Disposed \in Nat /\ buf <= BufSize
           /\ left > 0 => left >= BufSize /\ buf = 0 /\ ostate = "good"
           /\ ostate = "good" => buf < BufSize
           /\ ostate \in {"good", "bad"} /\ closed \in BOOLEAN
           /\ closed => left = 0
BY DEF IInv, TypeOK, WriterInv, Disposed, ChunksFit

LEMMA BodyFacts ==
    ASSUME Disposed \in Nat, NEW to \in Nat, Disposed <= to, NEW type \in {"data", "end", "err"}
    PROVE  /\ Body(type, to) \in ChunkSet
           /\ Body(type, to).type = type
           /\ Body(type, to).from = Disposed
           /\ Body(type, to).to = to
           /\ Body(type, to).size = to - Disposed
           /\ Body(type, to).arrived = to - Disposed
BY DEF Body, ChunkSet

\* ostream::put(), into the buffer or as the last byte of a chunk.
LEMMA PutByteInv == ASSUME IInv, PutByte PROVE IInv'
<1>1. CASE buf < BufSize - 1
    <2>1. UNCHANGED <<wire, sink, ostate, closed, left>> /\ buf' = buf + 1 /\ put' = put + 1
          /\ UNCHANGED readerVars /\ ostate = "good"
        BY <1>1 DEF PutByte, CanPut
    <2>2. pos' \in 0..Len(wire') /\ area' \in AreaSet /\ cap' \in Nat /\ want' \in Nat
          /\ got' \in Seq(Nat) /\ rstate' \in {"good", "eof"} /\ d_error' \in BOOLEAN
          /\ skipped' \in BOOLEAN /\ AreaFits' /\ InOrder' /\ NothingLost' /\ ReaderInv'
        BY <2>1, ReaderKept DEF IInv, TypeOK
    <2>3. Disposed' = Disposed BY <2>1, WriterFacts DEF Disposed
    <2>4. TypeOK' BY <2>1, <2>2, WriterFacts DEF IInv, TypeOK, AreaSet
    <2>5. NothingTwice' /\ WireInv' BY <2>1, <2>3 DEF IInv, NothingTwice, WireInv, Cut
    <2>6. ChunksFit' BY <1>1, <2>1, WriterFacts DEF IInv, ChunksFit
    <2>7. WriterInv' BY <1>1, <2>1, <2>3, WriterFacts DEF WriterInv, PutByte, CanPut
    <2> QED BY <2>2, <2>4, <2>5, <2>6, <2>7 DEF IInv
<1>2. CASE ~(buf < BufSize - 1)
    <2> DEFINE c == Body("data", put + 1)
    <2>1. /\ Send(c) /\ put' = put + 1 /\ left' = left /\ left = 0 /\ closed' = closed
          /\ ~closed /\ UNCHANGED readerVars /\ ostate = "good" /\ buf = BufSize - 1
          /\ IF sink' = "good" THEN buf' = 0 /\ ostate' = ostate
                               ELSE buf' = buf + 1 /\ ostate' = "bad"
        BY <1>2, WriterFacts DEF PutByte, CanPut
    <2>2. /\ c \in ChunkSet /\ c.type = "data" /\ c.from = Disposed /\ c.to = put + 1
          /\ c.size = BufSize /\ c.arrived = BufSize /\ c.size = c.to - c.from
          /\ c.size \in 1..BufSize
        BY <2>1, WriterFacts, BodyFacts DEF Disposed
    <2>3. sink' = "good" => Disposed' = c.to BY <2>1, <2>2, WriterFacts DEF Disposed
    <2>4. WriterInv' BY <2>1, WriterFacts DEF WriterInv, Disposed
    <2>5. c.from <= c.to BY <2>2, WriterFacts DEF Disposed
    <2>6. /\ put' \in Nat /\ buf' \in Nat /\ left' \in Nat /\ buf' <= BufSize
          /\ ostate' \in {"good", "bad"} /\ closed' \in BOOLEAN /\ ~closed'
        BY <2>1, WriterFacts
    <2> HIDE DEF c
    <2> QED BY <2>1, <2>2, <2>3, <2>4, <2>5, <2>6, SendInv
<1> QED BY <1>1, <1>2

\* Bytes that fit the buffer.
LEMMA BufferInv == ASSUME IInv, NEW n \in Writes, Buffer(n) PROVE IInv'
<1>1. /\ UNCHANGED <<wire, sink, ostate, closed, left>> /\ buf' = buf + n /\ put' = put + n
      /\ UNCHANGED readerVars /\ ostate = "good" /\ buf + n < BufSize /\ n \in Nat
    BY DEF Buffer, CanPut
<1>2. pos' \in 0..Len(wire') /\ area' \in AreaSet /\ cap' \in Nat /\ want' \in Nat
      /\ got' \in Seq(Nat) /\ rstate' \in {"good", "eof"} /\ d_error' \in BOOLEAN
      /\ skipped' \in BOOLEAN /\ AreaFits' /\ InOrder' /\ NothingLost' /\ ReaderInv'
    BY <1>1, ReaderKept DEF IInv, TypeOK
<1>3. Disposed' = Disposed BY <1>1, WriterFacts DEF Disposed
<1>4. TypeOK' BY <1>1, <1>2, WriterFacts DEF IInv, TypeOK, AreaSet
<1>5. NothingTwice' /\ WireInv' BY <1>1, <1>3 DEF IInv, NothingTwice, WireInv, Cut
<1>6. ChunksFit' BY <1>1, WriterFacts DEF IInv, ChunksFit
<1>7. left' = 0 BY <1>1 DEF Buffer, CanPut
<1>8. WriterInv' BY <1>1, <1>3, <1>7, WriterFacts DEF WriterInv
<1> QED BY <1>2, <1>4, <1>5, <1>6, <1>8 DEF IInv

\* A full chunk, with rest bytes to come: the first of xsputn() or one of its loop.
LEMMA SendFullInv ==
    ASSUME IInv, NEW rest \in Nat, SendFull(rest), put' \in Nat, put' >= put,
           put' = Disposed + BufSize + rest, ~closed, closed' = closed,
           UNCHANGED readerVars, ostate = "good"
    PROVE  IInv'
<1> DEFINE c == Body("data", Disposed + BufSize)
<1>1. /\ c \in ChunkSet /\ c.type = "data" /\ c.from = Disposed /\ c.to = Disposed + BufSize
      /\ c.size = BufSize /\ c.arrived = BufSize /\ c.size = c.to - c.from
      /\ c.size \in 1..BufSize /\ c.from <= c.to
    BY WriterFacts, BodyFacts
<1>2. Send(c) BY DEF SendFull
<1>3. /\ left' \in Nat /\ buf' \in Nat /\ buf' <= BufSize
      /\ ostate' \in {"good", "bad"} /\ closed' \in BOOLEAN
      /\ left' > 0 => left' >= BufSize /\ buf' = 0 /\ ostate' = "good"
      /\ ostate' = "good" => buf' < BufSize
      /\ put' - left' - buf' >= 0
      /\ sink' = "good" => put' - left' - buf' = Disposed + BufSize
    BY WriterFacts DEF SendFull
<1>4. sink' = "good" => Disposed' = c.to BY <1>1, <1>3 DEF Disposed
<1>5. WriterInv' BY <1>3 DEF WriterInv, Disposed
<1> HIDE DEF c
<1> QED BY <1>1, <1>2, <1>3, <1>4, <1>5, SendInv

LEMMA FillChunkInv == ASSUME IInv, NEW n \in Writes, FillChunk(n) PROVE IInv'
<1>1. /\ n \in Nat /\ put' = put + n /\ left = 0 /\ buf + n >= BufSize /\ ~closed
      /\ ostate = "good" /\ closed' = closed /\ UNCHANGED readerVars
      /\ SendFull(n - (BufSize - buf))
    BY DEF FillChunk
<1>2. n - (BufSize - buf) \in Nat /\ put' = Disposed + BufSize + (n - (BufSize - buf))
    BY <1>1, WriterFacts DEF Disposed
<1> QED BY <1>1, <1>2, WriterFacts, SendFullInv

LEMMA NextChunkInv == ASSUME IInv, NextChunk PROVE IInv'
<1>1. /\ left > 0 /\ SendFull(left - BufSize) /\ UNCHANGED <<put, closed, readerVars>>
    BY DEF NextChunk
<1>2. /\ left - BufSize \in Nat /\ ostate = "good" /\ ~closed
      /\ put = Disposed + BufSize + (left - BufSize)
    BY <1>1, WriterFacts DEF Disposed
<1> QED BY <1>1, <1>2, WriterFacts, SendFullInv

\* The chunks that take all of the buffer: flush(), end, error, the destructor.
LEMMA SendBufferInv ==
    ASSUME IInv, NEW c \in ChunkSet, SendBuffer(c), c.from = Disposed, c.to = put,
           c.arrived = c.size, c.type # "err" => c.size = c.to - c.from,
           c.type = "data" => buf > 0,
           closed' \in BOOLEAN, closed' => c.type = "end"
    PROVE  IInv'
<1>1. /\ ~closed /\ left = 0 /\ Send(c) /\ buf' = (IF sink' = "good" THEN 0 ELSE buf)
      /\ put' = put /\ left' = left /\ ostate' = ostate /\ UNCHANGED readerVars
    BY DEF SendBuffer
<1>2. c.from <= c.to /\ (c.type = "data" => c.size \in 1..BufSize)
    BY <1>1, WriterFacts DEF Disposed
<1>3. sink' = "good" => Disposed' = c.to BY <1>1, WriterFacts DEF Disposed
<1>4. WriterInv' BY <1>1, WriterFacts DEF WriterInv, Disposed
<1>5. /\ put' \in Nat /\ buf' \in Nat /\ left' \in Nat /\ buf' <= BufSize
      /\ ostate' \in {"good", "bad"}
    BY <1>1, WriterFacts
<1> QED BY <1>1, <1>2, <1>3, <1>4, <1>5, SendInv

LEMMA DisposedFacts == ASSUME IInv PROVE Disposed \in Nat /\ put \in Nat /\ Disposed <= put
BY WriterFacts DEF Disposed

LEMMA DataChunkInv == ASSUME IInv, DataChunk PROVE IInv'
<1> DEFINE c == Body("data", put)
<1>1. /\ c \in ChunkSet /\ c.type = "data" /\ c.from = Disposed /\ c.to = put
      /\ c.size = c.to - c.from /\ c.arrived = c.size
    BY DisposedFacts, BodyFacts
<1>2. SendBuffer(c) /\ buf > 0 /\ closed' = closed /\ ~closed
    BY DEF DataChunk, SendBuffer
<1>3. closed' \in BOOLEAN /\ ~closed' BY <1>2, WriterFacts
<1> HIDE DEF c
<1> QED BY <1>1, <1>2, <1>3, SendBufferInv

LEMMA EndChunkInv ==
    ASSUME IInv, SendBuffer(Body("end", put)), closed' \in BOOLEAN PROVE IInv'
<1> DEFINE c == Body("end", put)
<1>1. /\ c \in ChunkSet /\ c.type = "end" /\ c.from = Disposed /\ c.to = put
      /\ c.size = c.to - c.from /\ c.arrived = c.size
    BY DisposedFacts, BodyFacts
<1>2. SendBuffer(c) OBVIOUS
<1> HIDE DEF c
<1> QED BY <1>1, <1>2, SendBufferInv

LEMMA ErrChunkInv == ASSUME IInv, NEW len \in MsgLens, ErrChunk(len) PROVE IInv'
<1> DEFINE c == [Body("err", put) EXCEPT !.size = len, !.arrived = len]
<1>1. /\ c \in ChunkSet /\ c.type = "err" /\ c.from = Disposed /\ c.to = put
      /\ c.arrived = c.size
    <2>1. len \in Nat OBVIOUS
    <2>2. Body("err", put) \in ChunkSet /\ Body("err", put).type = "err"
          /\ Body("err", put).from = Disposed /\ Body("err", put).to = put
        BY DisposedFacts, BodyFacts
    <2> QED BY <2>1, <2>2 DEF ChunkSet
<1>2. SendBuffer(c) /\ closed' = closed /\ ~closed
    BY DEF ErrChunk, SendBuffer
<1>3. closed' \in BOOLEAN /\ ~closed' BY <1>2, WriterFacts
<1> HIDE DEF c
<1> QED BY <1>1, <1>2, <1>3, SendBufferInv

----
(* The reader *)

\* What the reader's caller is given goes after what it has.
LEMMA GiveFacts ==
    ASSUME got \in Seq(Nat), NEW bytes \in AreaSet, NEW n \in Nat, Give(bytes, n),
           bytes.from + n <= bytes.to, \A i \in 1..Len(got) : got[i] <= bytes.from,
           \A i, j \in 1..Len(got) : i < j /\ got[j] # Garbage => got[i] < got[j]
    PROVE  /\ got' \in Seq(Nat)
           /\ Len(got') = Len(got) + n
           /\ \A i \in 1..Len(got') : got'[i] <= bytes.from + n
           /\ \A i, j \in 1..Len(got') : i < j /\ got'[j] # Garbage => got'[i] < got'[j]
           /\ (\E i \in 1..Len(got') : got'[i] = Garbage) =>
                 (\E i \in 1..Len(got) : got[i] = Garbage) \/ bytes.real < bytes.to
<1> DEFINE run == [i \in 1..n |-> IF bytes.from + i <= bytes.real THEN bytes.from + i
                                                                  ELSE Garbage]
<1>1. bytes.from \in Nat /\ bytes.to \in Nat /\ bytes.real \in Nat
    BY DEF AreaSet
<1>2. run \in Seq(Nat) /\ Len(run) = n /\ \A i \in 1..n : run[i] \in {0, bytes.from + i}
    BY <1>1 DEF Garbage
<1>3. \A i \in 1..n : run[i] = Garbage => bytes.real < bytes.from + i
    BY <1>1 DEF Garbage
<1>4. got' = got \o run BY DEF Give
<1> HIDE DEF run
<1>5. got' \in Seq(Nat) /\ Len(got') = Len(got) + n
    BY <1>2, <1>4
<1>6. \A i \in 1..Len(got') : got'[i] = IF i <= Len(got) THEN got[i] ELSE run[i - Len(got)]
    BY <1>2, <1>4
<1>7. \A i \in 1..Len(got') :
          IF i <= Len(got) THEN i \in 1..Len(got) ELSE i - Len(got) \in 1..n
    BY <1>5
<1>8. \A i \in 1..Len(got') : got'[i] <= bytes.from + n
    <2> SUFFICES ASSUME NEW i \in 1..Len(got') PROVE got'[i] <= bytes.from + n
        OBVIOUS
    <2>1. CASE i <= Len(got) BY <2>1, <1>1, <1>6, <1>7
    <2>2. CASE ~(i <= Len(got))
        <3>1. i - Len(got) \in 1..n /\ got'[i] \in {0, bytes.from + (i - Len(got))}
            BY <2>2, <1>2, <1>6, <1>7
        <3> QED BY <3>1, <1>1
    <2> QED BY <2>1, <2>2
<1>9. ASSUME NEW i \in 1..Len(got'), NEW j \in 1..Len(got'), i < j, got'[j] # Garbage
      PROVE  got'[i] < got'[j]
    <2>1. CASE j <= Len(got) BY <1>9, <2>1, <1>6, <1>7
    <2>2. CASE ~(j <= Len(got))
        <3>1. j - Len(got) \in 1..n /\ got'[j] = bytes.from + (j - Len(got))
            BY <1>9, <2>2, <1>2, <1>6, <1>7 DEF Garbage
        <3>2. CASE i <= Len(got)
            <4>1. got'[i] = got[i] /\ got[i] \in Nat /\ got[i] <= bytes.from
                BY <3>2, <1>6, <1>7
            <4> QED BY <4>1, <3>1, <1>1
        <3>3. CASE ~(i <= Len(got))
            <4>1. i - Len(got) \in 1..n /\ got'[i] \in {0, bytes.from + (i - Len(got))}
                BY <3>3, <1>2, <1>6, <1>7
            <4> QED BY <4>1, <3>1, <1>1, <1>9
        <3> QED BY <3>2, <3>3
    <2> QED BY <2>1, <2>2
<1>10. ASSUME NEW i \in 1..Len(got'), got'[i] = Garbage
       PROVE  (\E k \in 1..Len(got) : got[k] = Garbage) \/ bytes.real < bytes.to
    <2>1. CASE i <= Len(got) BY <2>1, <1>10, <1>6, <1>7
    <2>2. CASE ~(i <= Len(got))
        <3>1. i - Len(got) \in 1..n /\ run[i - Len(got)] = Garbage
            BY <2>2, <1>10, <1>6, <1>7
        <3> QED BY <3>1, <1>3, <1>1
    <2> QED BY <2>1, <2>2
<1> QED BY <1>5, <1>8, <1>9, <1>10

\* A step of the reader leaves what the writer knows.
LEMMA WriterKept ==
    ASSUME IInv, UNCHANGED writerVars
    PROVE  /\ put' \in Nat /\ buf' \in Nat /\ left' \in Nat
           /\ sink' \in {"good", "bad"} /\ ostate' \in {"good", "bad"}
           /\ closed' \in BOOLEAN /\ wire' \in Seq(ChunkSet)
           /\ NothingTwice' /\ ChunksFit' /\ WriterInv' /\ WireInv'
<1>1. UNCHANGED <<put, buf, left, sink, ostate, closed, wire>> BY DEF writerVars
<1>2. Disposed' = Disposed BY <1>1 DEF Disposed
<1>3. NothingTwice' /\ ChunksFit'
    BY <1>1, <1>2 DEF IInv, NothingTwice, ChunksFit
<1>4. WriterInv' /\ WireInv'
    BY <1>1, <1>2 DEF IInv, WriterInv, WireInv, Cut
<1> QED BY <1>1, <1>3, <1>4 DEF IInv, TypeOK

\* The next chunk, for a reader who goes on.
LEMMA ChunkFacts ==
    ASSUME IInv, HasChunk, rstate = "good"
    PROVE  /\ Chunk \in ChunkSet /\ pos + 1 \in 1..Len(wire) /\ pos \in Nat
           /\ Chunk.from = area.to
           /\ Chunk.from <= Chunk.to
           /\ Chunk.arrived <= Chunk.size
           /\ Chunk.type # "err" => Chunk.size = Chunk.to - Chunk.from
           /\ Chunk.type = "data" => Chunk.size > 0
           /\ area.from <= area.to
<1>1. pos + 1 \in 1..Len(wire) /\ pos \in Nat /\ wire \in Seq(ChunkSet)
    BY DEF IInv, TypeOK, HasChunk
<1>2. Chunk \in ChunkSet BY <1>1 DEF Chunk
<1>3. Chunk.from = IF pos = 0 THEN 0 ELSE wire[pos].to
    BY <1>1 DEF IInv, NothingTwice, Chunk
<1>4. area.to = IF pos = 0 THEN 0 ELSE wire[pos].to
    BY DEF IInv, ReaderInv
<1>5. /\ Chunk.from <= Chunk.to
      /\ Chunk.arrived <= Chunk.size
      /\ Chunk.type # "err" => Chunk.size = Chunk.to - Chunk.from
    BY <1>1 DEF IInv, WireInv, Chunk
<1>6. Chunk.type = "data" => Chunk.size \in 1..BufSize
    BY <1>1 DEF IInv, ChunksFit, Chunk
<1>7. area.from <= area.to BY DEF IInv, AreaFits
<1> QED BY <1>1, <1>2, <1>3, <1>4, <1>5, <1>6, <1>7

LEMMA ReaderFacts ==
    ASSUME IInv
    PROVE  /\ area \in AreaSet /\ cap \in Nat /\ want \in Nat /\ got \in Seq(Nat)
           /\ area.from \in Nat /\ area.to \in Nat /\ area.from <= area.to
           /\ InArea \in Nat /\ InArea <= cap
           /\ pos \in 0..Len(wire) /\ Len(wire) \in Nat
           /\ d_error \in BOOLEAN /\ skipped \in BOOLEAN
           /\ \A i \in 1..Len(got) : got[i] <= area.from
           /\ \A i, j \in 1..Len(got) : i < j /\ got[j] # Garbage => got[i] < got[j]
BY DEF IInv, TypeOK, AreaSet, AreaFits, InArea, InOrder, ReaderInv

\* Before a chunk is read, the caller of a reader that skipped nothing has everything.
LEMMA NoMoreInv ==
    ASSUME IInv, NoMore, rstate = "good", want > 0 \/ InArea <= 0 \/ skipped',
           skipped' \in BOOLEAN, skipped => skipped'
    PROVE  IInv'
<1>1. /\ rstate' = "eof" /\ want' = 0 /\ UNCHANGED <<area, cap, got>>
      /\ UNCHANGED writerVars
    BY DEF NoMore, TellEof
<1>2. UNCHANGED <<wire, sink, closed>> BY <1>1 DEF writerVars
<1>3. ~skipped' => Len(got) = area.to
    <2>1. want > 0 => InArea = 0 BY DEF IInv, ReaderInv
    <2>2. ~skipped' => Len(got) = area.from BY DEF IInv, ReaderInv
    <2> QED BY <2>1, <2>2, ReaderFacts DEF InArea
<1>4. CASE AtEnd /\ UNCHANGED <<pos, d_error>>
    <2>1. SawCut' = SawCut BY <1>2, <1>4 DEF SawCut, Cut
    <2>2. TypeOK'
        <3>1. pos' \in 0..Len(wire') /\ d_error' \in BOOLEAN BY <1>2, <1>4, ReaderFacts
        <3> QED BY <1>1, <3>1, ReaderFacts, WriterKept DEF IInv, TypeOK, AreaSet
    <2>3. AreaFits' /\ InOrder' /\ ReaderInv'
        BY <1>1, <1>4, <2>1 DEF IInv, AreaFits, InOrder, ReaderInv, InArea
    <2>4. NothingLost'
        <3> SUFFICES ASSUME ~skipped', sink = "good"
                     PROVE  pos > 0 /\ wire[pos].type = "end" /\ Len(got) = wire[pos].to
            BY <1>1, <1>2, <1>4 DEF NothingLost
        <3>1. ~SawCut
            BY ReaderFacts DEF SawCut, IInv, WireInv
        <3>2. pos = Len(wire) /\ closed BY <1>4, <3>1 DEF AtEnd
        <3>3. pos > 0 /\ wire[pos].type = "end" BY <3>2 DEF IInv, WireInv
        <3>4. area.to = wire[pos].to BY <3>3 DEF IInv, ReaderInv
        <3> QED BY <3>3, <3>4, <1>3
    <2> QED BY <1>1, <2>2, <2>3, <2>4, WriterKept DEF IInv
<1>5. CASE /\ HasChunk
           /\ \/ Chunk.type = "err" /\ d_error' = TRUE
              \/ Chunk.type = "end" /\ Chunk.size = 0 /\ UNCHANGED d_error
           /\ pos' = pos + 1
    <2>1. /\ Chunk \in ChunkSet /\ pos' \in 0..Len(wire') /\ pos' > 0
          /\ Chunk.from = area.to /\ wire'[pos'] = Chunk
        BY <1>2, <1>5, ChunkFacts DEF Chunk
    <2>2. ~SawCut BY <1>5 DEF HasChunk
    <2>3. d_error' \in BOOLEAN BY <1>5, ReaderFacts
    <2>4. TypeOK' BY <1>1, <2>1, <2>3, ReaderFacts, WriterKept DEF IInv, TypeOK, AreaSet
    <2>5. AreaFits' BY <1>1 DEF IInv, AreaFits, InArea
    <2>6. InOrder' BY <1>1, <2>2 DEF IInv, InOrder
    <2>7. ReaderInv' BY <1>1, <2>2 DEF IInv, ReaderInv, InArea
    <2>8. NothingLost'
        <3>1. Chunk.type = "end" => Chunk.to = area.to
            BY <1>5, <2>1, ChunkFacts DEF ChunkSet
        <3>2. ~d_error' => Chunk.type = "end" BY <1>5
        <3> QED BY <1>1, <1>3, <2>1, <3>1, <3>2 DEF NothingLost
    <2> QED BY <1>1, <2>4, <2>5, <2>6, <2>7, <2>8, WriterKept DEF IInv
<1> QED BY <1>4, <1>5 DEF NoMore

\* A chunk with data is read: n of its bytes go to the caller, the rest to the get area.
LEMMA ReadDataInv ==
    ASSUME IInv, ReadData, rstate = "good", want > 0 \/ InArea <= 0 \/ skipped',
           UNCHANGED writerVars, NEW n \in Nat, n <= Chunk.size,
           Give(Arrived(Chunk), n) \/ (n = 0 /\ UNCHANGED got), Keep(n),
           Grow(Chunk.size) \/ (Chunk.size - n <= Chunk.size /\ Grow(Chunk.size - n)),
           want' \in Nat, want' > 0 => n = Chunk.size /\ rstate' = "good",
           rstate' \in {"good", "eof"},
           rstate' = "eof" => Chunk.type = "end" /\ n = Chunk.size,
           skipped' \in BOOLEAN, skipped => skipped'
    PROVE  IInv'
<1> DEFINE c == Chunk
<1>1. UNCHANGED <<wire, sink, closed>> BY DEF writerVars
<1>2. HasChunk /\ pos' = pos + 1 /\ d_error' = d_error /\ c.type # "err"
    BY DEF ReadData, HasData
<1>3. /\ c \in ChunkSet /\ pos' \in 1..Len(wire) /\ pos \in Nat /\ wire'[pos'] = c
      /\ c.from = area.to /\ c.from <= c.to /\ c.arrived <= c.size
      /\ c.size = c.to - c.from
    BY <1>1, <1>2, ChunkFacts DEF Chunk
<1>4. /\ c.from \in Nat /\ c.to \in Nat /\ c.size \in Nat /\ c.arrived \in Nat
    BY <1>3 DEF ChunkSet
<1>5. ~SawCut BY <1>2 DEF HasChunk
<1>6. SawCut' <=> c.arrived < c.size
    BY <1>1, <1>3 DEF SawCut, Cut
<1>7. /\ Arrived(c) \in AreaSet /\ Arrived(c).from = c.from /\ Arrived(c).to = c.to
      /\ Arrived(c).real = c.from + c.arrived
    BY <1>4 DEF Arrived, AreaSet
<1>8. /\ area' \in AreaSet /\ area'.from = c.from + n /\ area'.to = c.to
      /\ area'.real = c.from + c.arrived
    BY <1>4, <1>7 DEF Keep, After, AreaSet
<1>9. /\ got' \in Seq(Nat)
      /\ Len(got') = Len(got) + n
      /\ \A i \in 1..Len(got') : got'[i] <= c.from + n
      /\ \A i, j \in 1..Len(got') : i < j /\ got'[j] # Garbage => got'[i] < got'[j]
      /\ (\E i \in 1..Len(got') : got'[i] = Garbage) =>
            (\E i \in 1..Len(got) : got[i] = Garbage) \/ c.from + c.arrived < c.to
    <2>1. \A i \in 1..Len(got) : got[i] <= c.from
        <3> SUFFICES ASSUME NEW i \in 1..Len(got) PROVE got[i] <= c.from
            OBVIOUS
        <3>1. got[i] \in Nat /\ got[i] <= area.from BY ReaderFacts
        <3> QED BY <3>1, <1>3, ReaderFacts
    <2>2. c.from + n <= c.to BY <1>3, <1>4
    <2>3. CASE Give(Arrived(c), n)
        BY <2>1, <2>2, <2>3, <1>7, ReaderFacts, GiveFacts
    <2>4. CASE n = 0 /\ UNCHANGED got
        BY <2>1, <2>4, <1>4, ReaderFacts
    <2> QED BY <2>3, <2>4
<1>10. cap' \in Nat /\ c.size - n <= cap'
    BY <1>4, ReaderFacts DEF Grow
<1>11. TypeOK'
    <2>1. d_error' \in BOOLEAN BY <1>2, ReaderFacts
    <2>2. pos' \in 0..Len(wire') BY <1>1, <1>3
    <2>3. area' \in [from : Nat, to : Nat, real : Nat] BY <1>8 DEF AreaSet
    <2>4. got' \in Seq(Nat) BY <1>9
    <2>5. cap' \in Nat BY <1>10
    <2>6. skipped' \in BOOLEAN /\ want' \in Nat /\ rstate' \in {"good", "eof"} OBVIOUS
    <2>7. /\ put' \in Nat /\ buf' \in Nat /\ left' \in Nat
          /\ sink' \in {"good", "bad"} /\ ostate' \in {"good", "bad"}
          /\ closed' \in BOOLEAN /\ wire' \in Seq(ChunkSet)
        BY WriterKept
    <2> HIDE DEF c
    <2> QED BY <2>1, <2>2, <2>3, <2>4, <2>5, <2>6, <2>7 DEF TypeOK
<1>12. AreaFits' BY <1>3, <1>4, <1>8, <1>10 DEF AreaFits, InArea
<1>13. InOrder'
    <2>1. ~\E i \in 1..Len(got) : got[i] = Garbage BY <1>5 DEF IInv, InOrder
    <2>2. c.from + c.arrived < c.to => c.arrived < c.size BY <1>3, <1>4
    <2>3. (\E i \in 1..Len(got') : got'[i] = Garbage) => SawCut'
        BY <2>1, <2>2, <1>6, <1>9
    <2> HIDE DEF c
    <2> QED BY <2>3, <1>9 DEF InOrder
<1>14. ~skipped' => Len(got') = c.from + n
    <2>1. want > 0 => InArea = 0 BY DEF IInv, ReaderInv
    <2>2. ~skipped' => Len(got) = area.from BY DEF IInv, ReaderInv
    <2>3. ~skipped' => area.from = area.to BY <2>1, ReaderFacts DEF InArea
    <2> QED BY <2>2, <2>3, <1>3, <1>9
<1>15. NothingLost'
    BY <1>1, <1>3, <1>4, <1>14 DEF NothingLost
<1>16. ReaderInv'
    <2>1. want' > 0 => InArea' = 0 /\ rstate' = "good"
        BY <1>3, <1>4, <1>8 DEF InArea
    <2>2. area'.to = IF pos' = 0 THEN 0 ELSE wire'[pos'].to BY <1>3, <1>8
    <2>3. area'.real < area'.to => SawCut' BY <1>3, <1>4, <1>6, <1>8
    <2>4. \A i \in 1..Len(got') : got'[i] <= area'.from BY <1>8, <1>9
    <2>5. ~skipped' => Len(got') = area'.from BY <1>8, <1>14
    <2> QED BY <2>1, <2>2, <2>3, <2>4, <2>5 DEF ReaderInv
<1> QED BY <1>11, <1>12, <1>13, <1>15, <1>16, WriterKept DEF IInv

\* Taking n bytes moves the read position and nothing else.
LEMMA MovedArea ==
    ASSUME NEW bytes \in AreaSet, NEW n \in Nat
    PROVE  /\ After(bytes, n) \in AreaSet /\ After(bytes, n).from = bytes.from + n
           /\ After(bytes, n).to = bytes.to /\ After(bytes, n).real = bytes.real
BY DEF After, AreaSet

\* What is in the get area goes to the caller.
LEMMA AreaInv ==
    ASSUME IInv, rstate = "good", want = 0, UNCHANGED writerVars,
           UNCHANGED <<pos, cap, rstate, d_error, skipped>>,
           NEW n \in Nat, n <= InArea, Give(area, n), area' = After(area, n),
           want' \in Nat, want' > 0 => n = InArea
    PROVE  IInv'
<1>1. UNCHANGED <<wire, sink, closed>> BY DEF writerVars
<1>2. /\ area' \in AreaSet /\ area'.from = area.from + n /\ area'.to = area.to
      /\ area'.real = area.real
    <2>1. area \in AreaSet BY ReaderFacts
    <2> QED BY <2>1, MovedArea
<1>3. area.from + n <= area.to BY ReaderFacts DEF InArea
<1>4. /\ got' \in Seq(Nat)
      /\ Len(got') = Len(got) + n
      /\ \A i \in 1..Len(got') : got'[i] <= area.from + n
      /\ \A i, j \in 1..Len(got') : i < j /\ got'[j] # Garbage => got'[i] < got'[j]
      /\ (\E i \in 1..Len(got') : got'[i] = Garbage) =>
            (\E i \in 1..Len(got) : got[i] = Garbage) \/ area.real < area.to
    BY <1>3, ReaderFacts, GiveFacts
<1>5. SawCut' = SawCut BY <1>1 DEF SawCut, Cut
<1>6. TypeOK'
    <2>1. d_error' \in BOOLEAN /\ skipped' \in BOOLEAN /\ pos' \in 0..Len(wire')
        BY <1>1, ReaderFacts
    <2> QED BY <2>1, <1>2, <1>4, ReaderFacts, WriterKept DEF TypeOK, AreaSet
<1>7. AreaFits' BY <1>2, <1>3, ReaderFacts DEF AreaFits, InArea
<1>8. InOrder' BY <1>4, <1>5 DEF IInv, InOrder, ReaderInv
<1>9. NothingLost' BY DEF NothingLost
<1>10. ReaderInv'
    <2>1. want' > 0 => InArea' = 0 BY <1>2, ReaderFacts DEF InArea
    <2>2. area'.to = IF pos' = 0 THEN 0 ELSE wire'[pos'].to
        BY <1>1, <1>2 DEF IInv, ReaderInv
    <2>3. area'.real < area'.to => SawCut' BY <1>2, <1>5 DEF IInv, ReaderInv
    <2>4. \A i \in 1..Len(got') : got'[i] <= area'.from BY <1>2, <1>4
    <2>5. ~skipped' => Len(got') = area'.from BY <1>2, <1>4 DEF IInv, ReaderInv
    <2> QED BY <2>1, <2>2, <2>3, <2>4, <2>5 DEF ReaderInv
<1> QED BY <1>6, <1>7, <1>8, <1>9, <1>10, WriterKept DEF IInv

LEMMA GetByteInv == ASSUME IInv, GetByte PROVE IInv'
BY ReaderFacts, AreaInv DEF GetByte

LEMMA ReadInv == ASSUME IInv, NEW n \in Reads, Read(n) PROVE IInv'
<1> DEFINE m == IF n <= InArea THEN n ELSE InArea
<1>1. /\ rstate = "good" /\ want = 0 /\ Give(area, m) /\ area' = After(area, m)
      /\ want' = n - m /\ UNCHANGED <<pos, cap, rstate, d_error, skipped>>
      /\ UNCHANGED writerVars
    BY DEF Read
<1>2. n \in Nat /\ m \in Nat /\ m <= InArea /\ want' \in Nat /\ (want' > 0 => m = InArea)
    BY <1>1, ReaderFacts
<1> HIDE DEF m
<1> QED BY <1>1, <1>2, AreaInv

LEMMA UnderflowInv == ASSUME IInv, Underflow PROVE IInv'
<1>1. rstate = "good" /\ want = 0 /\ InArea <= 0 /\ skipped' = skipped
      /\ skipped' \in BOOLEAN
    BY ReaderFacts DEF Underflow
<1>2. CASE NoMore
    BY <1>1, <1>2, NoMoreInv
<1>3. CASE /\ ReadData /\ Grow(Chunk.size) /\ Give(Arrived(Chunk), 1) /\ Keep(1)
           /\ UNCHANGED <<want, rstate, writerVars>>
    <2>1. 1 <= Chunk.size /\ 1 \in Nat
        BY <1>1, <1>3, ChunkFacts DEF ReadData, HasData, ChunkSet
    <2>2. want' \in Nat /\ ~(want' > 0) /\ rstate' = "good" /\ UNCHANGED writerVars
        BY <1>1, <1>3
    <2>3. UNCHANGED writerVars BY <1>3
    <2> QED BY <1>1, <1>3, <2>1, <2>2, ReadDataInv
<1> QED BY <1>2, <1>3 DEF Underflow

LEMMA ReadChunkInv == ASSUME IInv, ReadChunk PROVE IInv'
<1>1. want > 0 /\ skipped' = skipped /\ skipped' \in BOOLEAN /\ rstate = "good"
      /\ want \in Nat
    BY ReaderFacts DEF ReadChunk, IInv, ReaderInv
<1>2. CASE NoMore
    BY <1>1, <1>2, NoMoreInv
<1>3. CASE ~NoMore
    <2> DEFINE m == IF Chunk.size > want THEN want ELSE Chunk.size
    <2>1. /\ ReadData /\ Give(Arrived(Chunk), m) /\ Keep(m) /\ UNCHANGED writerVars
          /\ Grow(IF Chunk.size > want THEN Chunk.size - want ELSE Chunk.size)
          /\ want' = IF Chunk.type = "end" THEN 0 ELSE want - m
          /\ rstate' = IF Chunk.type = "end" /\ m < want THEN "eof" ELSE "good"
        BY <1>3 DEF ReadChunk
    <2>2. Chunk.size \in Nat BY <1>1, <2>1, ChunkFacts DEF ReadData, HasData, ChunkSet
    <2>3. /\ m \in Nat /\ m <= Chunk.size /\ want' \in Nat
          /\ want' > 0 => m = Chunk.size /\ rstate' = "good"
          /\ rstate' \in {"good", "eof"}
          /\ rstate' = "eof" => Chunk.type = "end" /\ m = Chunk.size
        BY <1>1, <2>1, <2>2
    <2>4. Grow(Chunk.size) \/ (Chunk.size - m <= Chunk.size /\ Grow(Chunk.size - m))
        BY <1>1, <2>1, <2>2
    <2> HIDE DEF m
    <2> QED BY <1>1, <2>1, <2>3, <2>4, ReadDataInv
<1> QED BY <1>2, <1>3

LEMMA ReadNextChunkInv == ASSUME IInv, ReadNextChunk PROVE IInv'
<1>1. /\ rstate = "good" /\ want = 0 /\ skipped' = (skipped \/ InArea > 0)
    BY DEF ReadNextChunk
<1>2. /\ InArea \in Nat /\ skipped \in BOOLEAN BY ReaderFacts
<1>3. skipped' \in BOOLEAN /\ (skipped => skipped') BY <1>1
<1>4. InArea <= 0 \/ skipped'
    <2>1. CASE InArea > 0 BY <1>1, <2>1
    <2>2. CASE ~(InArea > 0) BY <1>2, <2>2
    <2> QED BY <2>1, <2>2
<1>5. CASE NoMore
    BY <1>1, <1>3, <1>4, <1>5, NoMoreInv
<1>6. CASE /\ ReadData /\ Grow(Chunk.size) /\ Keep(0)
           /\ UNCHANGED <<want, got, rstate, writerVars>>
    <2>1. 0 \in Nat /\ 0 <= Chunk.size
        BY <1>1, <1>6, ChunkFacts DEF ReadData, HasData, ChunkSet
    <2>2. want' = 0 /\ rstate' = "good" /\ got' = got /\ UNCHANGED writerVars
        BY <1>1, <1>6
    <2> QED BY <1>1, <1>3, <1>4, <1>6, <2>1, <2>2, ReadDataInv
<1> QED BY <1>5, <1>6 DEF ReadNextChunk

----

\* Every step of either end keeps the invariant.
LEMMA NextInv == IInv /\ [Next]_vars => IInv'
<1> SUFFICES ASSUME IInv, [Next]_vars PROVE IInv'
    OBVIOUS
<1>1. CASE PutByte BY <1>1, PutByteInv
<1>2. CASE \E n \in Writes : Buffer(n) \/ FillChunk(n)
    BY <1>2, BufferInv, FillChunkInv
<1>3. CASE NextChunk BY <1>3, NextChunkInv
<1>4. CASE DataChunk BY <1>4, DataChunkInv
<1>5. CASE EndChunk
    <2>1. closed' \in BOOLEAN /\ SendBuffer(Body("end", put))
        BY <1>5, WriterFacts DEF EndChunk
    <2> QED BY <2>1, EndChunkInv
<1>6. CASE \E len \in MsgLens : ErrChunk(len) BY <1>6, ErrChunkInv
<1>7. CASE Close BY <1>7, EndChunkInv DEF Close
<1>8. CASE GetByte BY <1>8, GetByteInv
<1>9. CASE Underflow BY <1>9, UnderflowInv
<1>10. CASE \E n \in Reads : Read(n) BY <1>10, ReadInv
<1>11. CASE ReadChunk BY <1>11, ReadChunkInv
<1>12. CASE ReadNextChunk BY <1>12, ReadNextChunkInv
<1>13. CASE UNCHANGED vars
    BY <1>13 DEF vars, writerVars, readerVars, IInv, TypeOK, NothingTwice, ChunksFit,
       AreaFits, InOrder, NothingLost, WriterInv, WireInv, ReaderInv, Disposed, InArea,
       SawCut, Cut
<1>14. CASE Finished BY <1>13, <1>14 DEF Finished
<1> QED BY <1>1, <1>2, <1>3, <1>4, <1>5, <1>6, <1>7, <1>8, <1>9, <1>10, <1>11, <1>12,
           <1>13, <1>14 DEF Next

\* The invariant of a chunked stream.
THEOREM Invariance == Spec => []IInv
BY InitInv, NextInv, PTL DEF Spec

\* Types.
THEOREM TypeCorrect == Spec => []TypeOK
<1>1. IInv => TypeOK BY DEF IInv
<1> QED BY <1>1, Invariance, PTL

\* The writer sends every byte at most once and forgets none (data_chunk(), xsputn(),
\* end_chunk(), err_chunk()).
THEOREM SentOnce == Spec => []NothingTwice
<1>1. IInv => NothingTwice BY DEF IInv
<1> QED BY <1>1, Invariance, PTL

\* No empty or oversized data chunk, and d_buffer is not overrun (overflow(), xsputn()).
THEOREM WriterBounded == Spec => []ChunksFit
<1>1. IInv => ChunksFit BY DEF IInv
<1> QED BY <1>1, Invariance, PTL

\* The get area fits its buffer (underflow(), xsgetn(), read_next_chunk()).
THEOREM ReaderBounded == Spec => []AreaFits
<1>1. IInv => AreaFits BY DEF IInv
<1> QED BY <1>1, Invariance, PTL

\* The reader's caller gets the writer's bytes in order.
THEOREM Ordered == Spec => []InOrder
<1>1. IInv => InOrder BY DEF IInv
<1> QED BY <1>1, Invariance, PTL

\* Who reads to the end without an error has everything.
THEOREM Complete == Spec => []NothingLost
<1>1. IInv => NothingLost BY DEF IInv
<1> QED BY <1>1, Invariance, PTL

====
