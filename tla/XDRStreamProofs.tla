---- MODULE XDRStreamProofs ----
(***************************************************************************)
(* The padding of put_vector_end() for every width of the byte counter     *)
(* that is a multiple of four (the code's is 2^32): what follows a vector  *)
(* starts on a four-byte boundary although the counter may have wrapped.   *)
(***************************************************************************)
EXTENDS XDRStream, TLAPS

\* Rounding up gives a multiple of four.
LEMMA RoundUpMultiple ==
    ASSUME NEW len \in Nat
    PROVE  RoundUp(len) \in Nat /\ RoundUp(len) % 4 = 0
BY DEF RoundUp

\* Adding a multiple of four keeps the position in a four-byte word.
LEMMA AddMultiple ==
    ASSUME NEW x \in Nat, NEW y \in Nat, y % 4 = 0
    PROVE  (x + y) % 4 = x % 4
OBVIOUS

\* Adding the same bytes to two counters at the same position of a word.
LEMMA AddSame ==
    ASSUME NEW x \in Nat, NEW y \in Nat, NEW z \in Nat, x % 4 = y % 4
    PROVE  (x + z) % 4 = (y + z) % 4
OBVIOUS

\* A counter that wraps at a multiple of four keeps the position in a word.
LEMMA WrapKeepsRemainder ==
    ASSUME NEW x \in Nat
    PROVE  x % CounterMod \in Nat /\ (x % CounterMod) % 4 = x % 4
<1> DEFINE q == CounterMod \div 4
           d == x \div CounterMod
           r == x % CounterMod
<1>1. CounterMod \in Nat \ {0} /\ CounterMod = 4 * q /\ q \in Nat
  BY CounterAssumption
<1>2. d \in Nat /\ r \in Nat /\ x = CounterMod * d + r
  BY <1>1
<1>3. CounterMod * d = 4 * (q * d) /\ q * d \in Nat
  BY <1>1, <1>2
<1> HIDE DEF q, d, r
<1>4. \A z \in Nat : x = 4 * z + r => x % 4 = r % 4
  BY <1>2
<1>5. x % 4 = r % 4
  BY <1>2, <1>3, <1>4
<1> QED
  BY <1>2, <1>5 DEF r

\* The bytes of a part are a number, and a multiple of four unless it is of bytes.
LEMMA PartBytesFacts ==
    ASSUME NEW k \in Vectors, NEW n \in Nat
    PROVE  /\ PartBytes(k, n) \in Nat
           /\ k # "bytes" => PartBytes(k, n) % 4 = 0
           /\ \A m \in 0..n : PartBytes(k, n) = PartBytes(k, n - m) + PartBytes(k, m)
<1>1. CASE k = "bytes"
  BY <1>1 DEF PartBytes
<1>2. CASE k \in {"vec2", "vec4"}
  BY <1>2 DEF PartBytes, WireWidth, Width
<1>3. CASE k = "vec8"
  BY <1>3 DEF PartBytes, WireWidth, Width
<1> QED
  BY <1>1, <1>2, <1>3 DEF Vectors

\* The padding completes a four-byte word, and completes bytes to their rounded length.
LEMMA PadFacts ==
    ASSUME partial \in Nat, NEW x \in Nat, x % 4 = partial % 4
    PROVE  Pad \in Nat /\ (x + Pad) % 4 = 0 /\ x + Pad = RoundUp(x)
BY DEF Pad, RoundUp

\* A value that is put whole keeps the writer's invariant when its bytes are right.
LEMMA SentInv ==
    ASSUME IInv, NEW k \in AllKinds, NEW len \in Nat, NEW bytes \in Nat,
           Sent(k, len, bytes), bytes % 4 = 0,
           k \in Vectors /\ len > 0 => bytes = 8 + RoundUp(PartBytes(k, len))
    PROVE  IInv'
<1> USE DEF IInv
<1> DEFINE item == [kind |-> k, len |-> len, bytes |-> bytes]
<1>1. item \in Item
  BY DEF Item
<1>2. sent' = Append(sent, item) /\ total' = total + bytes /\ open = NotOpen
      /\ UNCHANGED <<open, partial>>
  BY DEF Sent
<1>3. WriterTypeOK'
  BY <1>1, <1>2 DEF WriterTypeOK
<1>4. WireAligned'
  BY <1>2, AddMultiple DEF WireAligned, WriterTypeOK
<1>5. PartsAsWhole'
  <2>1. \A i \in 1..Len(sent') : sent'[i] = IF i <= Len(sent) THEN sent[i] ELSE item
    BY <1>1, <1>2 DEF WriterTypeOK
  <2>2. Len(sent') = Len(sent) + 1 /\ Len(sent) \in Nat
    BY <1>1, <1>2 DEF WriterTypeOK
  <2> QED
    BY <2>1, <2>2 DEF PartsAsWhole
<1>6. PartsInv'
  BY <1>2 DEF PartsInv
<1> QED
  BY <1>3, <1>4, <1>5, <1>6

\* A part moves the counter and the stream by the same bytes (put_vector_part()).
LEMMA PutVectorPartInv ==
    ASSUME IInv, NEW n \in 1..open.left, PutVectorPart(n) PROVE IInv'
<1> USE DEF IInv
<1> DEFINE bytes == PartBytes(open.kind, n)
           done == open.len - open.left
<1>1. open.kind \in Vectors /\ open.left \in Nat /\ open.len \in Nat /\ n \in Nat
      /\ open.bytes \in Nat /\ done \in Nat /\ done + n \in Nat /\ n <= open.left
      /\ open.left <= open.len /\ open # NotOpen
  BY DEF WriterTypeOK, PartsInv, PutVectorPart
<1>2. bytes \in Nat
  BY <1>1, PartBytesFacts
<1>3. PartBytes(open.kind, done + n) = PartBytes(open.kind, done) + bytes
  <2>1. \A m \in 0..(done + n) :
            PartBytes(open.kind, done + n)
                = PartBytes(open.kind, (done + n) - m) + PartBytes(open.kind, m)
    BY <1>1, PartBytesFacts
  <2>2. n \in 0..(done + n) /\ (done + n) - n = done
    BY <1>1
  <2> QED
    BY <2>1, <2>2
<1>4. open' = [open EXCEPT !.left = @ - n, !.bytes = @ + bytes]
      /\ total' = total + bytes /\ partial' = (partial + bytes) % CounterMod
      /\ sent' = sent
  BY DEF PutVectorPart
<1>5. open'.kind = open.kind /\ open'.left = open.left - n /\ open'.len = open.len
      /\ open'.bytes = open.bytes + bytes
      /\ open' \in [kind : Vectors \cup {"none"}, left : Nat, len : Nat, bytes : Nat]
  <2>1. open \in [kind : Vectors \cup {"none"}, left : Nat, len : Nat, bytes : Nat]
    BY DEF WriterTypeOK
  <2>2. open.left - n \in Nat /\ open.bytes + bytes \in Nat
    BY <1>1, <1>2
  <2>3. open' = [open EXCEPT !.left = open.left - n, !.bytes = open.bytes + bytes]
    BY <1>4
  <2> HIDE DEF bytes
  <2>4. open'.left = open.left - n /\ open'.bytes = open.bytes + bytes
        /\ open'.kind = open.kind /\ open'.len = open.len
    BY <2>1, <2>3
  <2> QED
    BY <2>1, <2>2, <2>3, <2>4
<1>6. total \in Nat /\ partial \in Nat /\ total % 4 = partial % 4
      /\ partial % 4 = open.bytes % 4
  BY <1>1, CounterAssumption DEF WriterTypeOK, PartsInv
<1>7. partial' \in Nat /\ partial' % 4 = (partial + bytes) % 4
  BY <1>2, <1>4, <1>6, WrapKeepsRemainder
<1>8. WriterTypeOK'
  <2>1. partial' \in 0..(CounterMod - 1)
    BY <1>2, <1>4, <1>6, CounterAssumption
  <2> QED
    BY <1>2, <1>4, <1>5, <1>6, <2>1 DEF WriterTypeOK
<1>9. PartsInv'
  <2>1. open'.bytes = 8 + PartBytes(open'.kind, open'.len - open'.left)
    <3>1. open'.len - open'.left = done + n
      BY <1>1, <1>5
    <3>2. open.bytes = 8 + PartBytes(open.kind, done)
      BY <1>1 DEF PartsInv
    <3>3. PartBytes(open.kind, done) \in Nat
      BY <1>1, PartBytesFacts
    <3> QED
      BY <1>2, <1>3, <1>5, <3>1, <3>2, <3>3
  <2>2. (partial + bytes) % 4 = (open.bytes + bytes) % 4
    BY <1>1, <1>2, <1>6, AddSame
  <2>3. (total + bytes) % 4 = (partial + bytes) % 4
    BY <1>2, <1>6, AddSame
  <2>4. partial' % 4 = open'.bytes % 4 /\ total' % 4 = partial' % 4
    BY <1>4, <1>5, <1>7, <2>2, <2>3
  <2>5. open'.kind \in Vectors /\ open'.len > 0 /\ open'.left <= open'.len
    BY <1>1, <1>5 DEF PartsInv
  <2> QED
    BY <2>1, <2>4, <2>5 DEF PartsInv
<1>10. WireAligned'
  BY <1>1, <1>5 DEF WireAligned, NotOpen, Vectors
<1>11. PartsAsWhole'
  BY <1>4 DEF PartsAsWhole
<1> QED
  BY <1>8, <1>9, <1>10, <1>11

\* A vector starts with eight bytes and a counter of zero (put_vector_start()).
LEMMA PutVectorStartInv ==
    ASSUME IInv, NEW k \in Vectors, NEW len \in Lens, PutVectorStart(k, len) PROVE IInv'
<1> USE DEF IInv
<1>1. len \in Nat /\ len > 0 /\ CounterMod \in Nat \ {0}
  BY LensAssumption, CounterAssumption DEF PutVectorStart
<1>2. open' = [kind |-> k, left |-> len, len |-> len, bytes |-> 8]
      /\ total' = total + 8 /\ partial' = 0 /\ sent' = sent /\ open = NotOpen
  BY DEF PutVectorStart
<1>3. PartBytes(k, 0) = 0
  BY DEF PartBytes, WireWidth, Width, Vectors
<1>4. WriterTypeOK'
  BY <1>1, <1>2 DEF WriterTypeOK
<1>5. WireAligned' /\ PartsAsWhole'
  BY <1>1, <1>2 DEF WireAligned, NotOpen, PartsAsWhole, Vectors
<1>6. PartsInv'
  BY <1>1, <1>2, <1>3 DEF PartsInv, WireAligned, WriterTypeOK
<1> QED
  BY <1>4, <1>5, <1>6

\* The padding ends the vector at a multiple of four (put_vector_end()).
LEMMA PutVectorEndInv == ASSUME IInv, PutVectorEnd PROVE IInv'
<1> USE DEF IInv
<1> DEFINE item == [kind |-> open.kind, len |-> open.len, bytes |-> open.bytes + Pad]
<1>1. open # NotOpen /\ open.left = 0 /\ open' = NotOpen /\ total' = total + Pad
      /\ sent' = Append(sent, item) /\ partial' = partial
  BY DEF PutVectorEnd
<1>2. open.kind \in Vectors /\ open.len \in Nat /\ open.len > 0 /\ open.bytes \in Nat
      /\ total \in Nat /\ partial \in Nat
  BY <1>1, CounterAssumption DEF WriterTypeOK, PartsInv
<1>3. total % 4 = partial % 4 /\ open.bytes % 4 = partial % 4
      /\ open.bytes = 8 + PartBytes(open.kind, open.len)
  BY <1>1, <1>2 DEF PartsInv
<1>4. Pad \in Nat /\ (total + Pad) % 4 = 0 /\ open.bytes + Pad = RoundUp(open.bytes)
  BY <1>2, <1>3, PadFacts
<1>5. RoundUp(open.bytes) = 8 + RoundUp(PartBytes(open.kind, open.len))
  <2>1. PartBytes(open.kind, open.len) \in Nat
    BY <1>2, PartBytesFacts
  <2> QED
    BY <1>3, <2>1 DEF RoundUp
<1>6. item \in Item
  BY <1>2, <1>4 DEF Item, AllKinds, Vectors
<1>7. WriterTypeOK'
  BY <1>1, <1>2, <1>4, <1>6 DEF WriterTypeOK, NotOpen
<1>8. WireAligned'
  BY <1>1, <1>4 DEF WireAligned
<1>9. PartsAsWhole'
  <2>1. \A i \in 1..Len(sent') : sent'[i] = IF i <= Len(sent) THEN sent[i] ELSE item
    BY <1>1, <1>6 DEF WriterTypeOK
  <2>2. Len(sent') = Len(sent) + 1 /\ Len(sent) \in Nat
    BY <1>1, <1>6 DEF WriterTypeOK
  <2> QED
    BY <1>4, <1>5, <2>1, <2>2 DEF PartsAsWhole
<1>10. PartsInv'
  BY <1>1 DEF PartsInv
<1> QED
  BY <1>7, <1>8, <1>9, <1>10

\* Each of the other puts adds a multiple of four.
LEMMA PutInv ==
    ASSUME IInv, NEW k \in Vectors, NEW len \in Lens,
           \/ PutScalar \/ PutFloat64 \/ PutStr(len) \/ PutOpaque(len)
           \/ PutVectorBytes(len) \/ PutVector(k, len)
    PROVE  IInv'
<1>0. len \in Nat /\ RoundUp(len) \in Nat /\ RoundUp(len) % 4 = 0
  BY LensAssumption, RoundUpMultiple
<1>1. CASE PutScalar \/ PutFloat64
  BY <1>1, SentInv DEF PutScalar, PutFloat64, AllKinds, Vectors
<1>2. CASE PutStr(len)
  BY <1>0, <1>2, SentInv DEF PutStr, AllKinds, Vectors
<1>3. CASE PutOpaque(len)
  BY <1>0, <1>3, SentInv DEF PutOpaque, AllKinds, Vectors
<1>4. CASE PutVectorBytes(len)
  <2>1. RoundUp(PartBytes("bytes", len)) = RoundUp(len)
    BY DEF PartBytes
  <2> QED
    BY <1>0, <1>4, <2>1, SentInv DEF PutVectorBytes, AllKinds, Vectors
<1>5. CASE PutVector(k, len)
  <2> DEFINE data == len * WireWidth(k)
             bytes == IF len = 0 THEN 4 ELSE 4 + 4 + data
  <2>1. data = PartBytes(k, len) /\ k \in AllKinds
    BY <1>5 DEF PutVector, PartBytes, AllKinds, Vectors
  <2>2. data \in Nat /\ data % 4 = 0
    BY <1>0, <1>5, <2>1, PartBytesFacts DEF PutVector
  <2> HIDE DEF data
  <2>3. RoundUp(data) = data /\ bytes \in Nat /\ bytes % 4 = 0
    BY <2>2 DEF RoundUp
  <2>4. Sent(k, len, bytes)
    BY <1>5 DEF PutVector, data
  <2> QED
    BY <1>0, <2>1, <2>3, <2>4, SentInv
<1> QED
  BY <1>1, <1>2, <1>3, <1>4, <1>5

\* The reader changes nothing the writer has.
LEMMA GetInv ==
    ASSUME IInv,
           \/ GetScalar \/ GetFloat64 \/ GetStr \/ GetOpaque \/ GetVectorBytes
           \/ GetVector \/ UNCHANGED vars
    PROVE  IInv'
<1>1. UNCHANGED <<sent, total, open, partial>>
  BY DEF GetScalar, GetFloat64, GetStr, GetOpaque, GetVectorBytes, GetVector, Got, vars
<1> QED
  BY <1>1 DEF IInv, WriterTypeOK, WireAligned, PartsAsWhole, PartsInv, Item

\* Every step of the writer and of the reader keeps the invariant.
LEMMA NextInv == IInv /\ [Next]_vars => IInv'
<1> SUFFICES ASSUME IInv, [Next]_vars PROVE IInv'
  OBVIOUS
<1>1. CASE PutScalar \/ PutFloat64
  BY <1>1, SentInv DEF PutScalar, PutFloat64, AllKinds, Vectors
<1>2. ASSUME NEW len \in Lens, PutStr(len) \/ PutOpaque(len) \/ PutVectorBytes(len)
      PROVE  IInv'
  BY <1>2, PutInv DEF Vectors
<1>3. ASSUME NEW k \in Vectors, NEW len \in Lens, PutVector(k, len)
      PROVE  IInv'
  BY <1>3, PutInv
<1>4. ASSUME NEW k \in Vectors, NEW len \in Lens, PutVectorStart(k, len)
      PROVE  IInv'
  BY <1>4, PutVectorStartInv
<1>5. ASSUME NEW n \in 1..open.left, PutVectorPart(n) PROVE IInv'
  BY <1>5, PutVectorPartInv
<1>6. CASE PutVectorEnd
  BY <1>6, PutVectorEndInv
<1>7. CASE \/ GetScalar \/ GetFloat64 \/ GetStr \/ GetOpaque \/ GetVectorBytes
           \/ GetVector \/ UNCHANGED vars
  BY <1>7, GetInv
<1> QED
  BY <1>1, <1>2, <1>3, <1>4, <1>5, <1>6, <1>7 DEF Next

\* The empty stream satisfies the invariant.
LEMMA InitInv == Init => IInv
<1> SUFFICES ASSUME Init PROVE IInv
  OBVIOUS
<1>1. WriterTypeOK
  BY CounterAssumption DEF Init, WriterTypeOK, NotOpen, Item
<1>2. WireAligned /\ PartsInv /\ PartsAsWhole
  BY DEF Init, WireAligned, PartsInv, PartsAsWhole
<1> QED
  BY <1>1, <1>2 DEF IInv

\* The inductive invariant holds in every reachable state.
THEOREM Invariance == Spec => []IInv
BY InitInv, NextInv, PTL DEF Spec

\* Between two values the stream is at a multiple of four, for every sequence of
\* calls, every length and every wrap of d_partial_put_byte_count.
THEOREM Aligned == Spec => []WireAligned
<1>1. IInv => WireAligned
  BY DEF IInv
<1> QED
  BY <1>1, Invariance, PTL

\* A vector in parts takes the bytes of the vector put at once, however it is cut.
THEOREM PartsEqualWhole == Spec => []PartsAsWhole
<1>1. IInv => PartsAsWhole
  BY DEF IInv
<1> QED
  BY <1>1, Invariance, PTL

-----------------------------------------------------------------------------
(* The reader: it takes what was put, for every length and both buffers.   *)

\* What XDR makes of the values of each kind.
LEMMA WireBytesOf ==
    ASSUME NEW k \in AllKinds, NEW len
    PROVE  /\ k = "scalar" => WireBytes(k, len) = 4
           /\ k = "double" => WireBytes(k, len) = 8
           /\ k = "str" => WireBytes(k, len) = 4 + RoundUp(len)
           /\ k = "opaque" => WireBytes(k, len) = RoundUp(len)
           /\ k \in Vectors =>
                WireBytes(k, len) = IF len = 0 THEN 4 ELSE 8 + RoundUp(PartBytes(k, len))
BY DEF WireBytes, Vectors

\* A value that is put as XDR has it keeps what the reader relies on.
LEMMA AppendKeeps ==
    ASSUME IInv, ReaderInv, NEW item \in Item, sent' = Append(sent, item),
           UNCHANGED <<read, last>>, item.bytes = WireBytes(item.kind, item.len),
           item.kind = "opaque" => item.len <= WBuf, item.kind = "bytes" => item.len > 0
    PROVE  ReaderInv'
<1>1. /\ Len(sent') = Len(sent) + 1 /\ Len(sent) \in Nat
      /\ \A i \in 1..Len(sent') : sent'[i] = IF i <= Len(sent) THEN sent[i] ELSE item
  BY DEF IInv, WriterTypeOK
<1>2. SentAsPut'
  BY <1>1 DEF ReaderInv, SentAsPut
<1>3. read' = read /\ last' = last /\ read \in 0..Len(sent) /\ (read > 0 => sent'[read] = sent[read])
  BY <1>1 DEF ReaderInv
<1>4. ReaderInStep' /\ ReadsFitBuffer' /\ DecodesWhatItRead'
  BY <1>3 DEF ReaderInv, ReaderInStep, ReadsFitBuffer, DecodesWhatItRead, Misrounded, FillsBuffer, LongBytes
<1>5. read' \in 0..Len(sent')
  BY <1>1, <1>3
<1> QED
  BY <1>2, <1>4, <1>5 DEF ReaderInv

\* The same for a completed put_*().
LEMMA SentKeeps ==
    ASSUME IInv, ReaderInv, NEW k \in AllKinds, NEW len \in Nat, NEW bytes \in Nat,
           Sent(k, len, bytes),
           bytes = WireBytes(k, len),
           k = "opaque" => len <= WBuf, k = "bytes" => len > 0
    PROVE  ReaderInv'
<1> DEFINE item == [kind |-> k, len |-> len, bytes |-> bytes]
<1>1. item \in Item /\ item.kind = k /\ item.len = len /\ item.bytes = bytes
  BY DEF Item
<1>2. sent' = Append(sent, item) /\ UNCHANGED <<read, last>>
  BY DEF Sent
<1> QED
  BY <1>1, <1>2, AppendKeeps

\* The bytes of n elements that are not bytes are a multiple of four already.
LEMMA RoundedElements ==
    ASSUME NEW k \in Vectors \ {"bytes"}, NEW n \in Nat
    PROVE  /\ PartBytes(k, n) = n * WireWidth(k) /\ PartBytes(k, n) \in Nat
           /\ RoundUp(PartBytes(k, n)) = PartBytes(k, n)
<1>1. PartBytes(k, n) \in Nat /\ PartBytes(k, n) % 4 = 0
  BY PartBytesFacts
<1>2. \A x \in Nat : x % 4 = 0 => RoundUp(x) = x
  BY DEF RoundUp
<1> QED
  BY <1>1, <1>2 DEF PartBytes

\* put_byte() to put_float64(), which have no length.
LEMMA PutScalarKeeps ==
    ASSUME IInv, ReaderInv, PutScalar \/ PutFloat64
    PROVE  ReaderInv'
<1>1. CASE PutScalar
  <2>1. Sent("scalar", 1, 4) /\ "scalar" \in AllKinds
    BY <1>1 DEF PutScalar, AllKinds
  <2> QED
    BY <2>1, WireBytesOf, SentKeeps
<1>2. CASE PutFloat64
  <2>1. Sent("double", 1, 8) /\ "double" \in AllKinds
    BY <1>2 DEF PutFloat64, AllKinds
  <2> QED
    BY <2>1, WireBytesOf, SentKeeps
<1> QED
  BY <1>1, <1>2

\* Each put of the writer makes of the value what XDR makes of it.
LEMMA PutKeeps ==
    ASSUME IInv, ReaderInv, NEW k \in Vectors, NEW len \in Lens,
           \/ PutScalar \/ PutFloat64 \/ PutStr(len) \/ PutOpaque(len)
           \/ PutVectorBytes(len) \/ PutVector(k, len)
    PROVE  ReaderInv'
<1>0. len \in Nat /\ RoundUp(len) \in Nat
  BY LensAssumption, RoundUpMultiple
<1>1. CASE PutScalar
  BY <1>1, PutScalarKeeps
<1>2. CASE PutFloat64
  BY <1>2, PutScalarKeeps
<1>3. CASE PutStr(len)
  <2>1. Sent("str", len, 4 + RoundUp(len)) /\ "str" \in AllKinds
    BY <1>3 DEF PutStr, AllKinds
  <2> QED
    BY <1>0, <2>1, WireBytesOf, SentKeeps
<1>4. CASE PutOpaque(len)
  <2>1. Sent("opaque", len, RoundUp(len)) /\ len <= WBuf /\ "opaque" \in AllKinds
    BY <1>4 DEF PutOpaque, AllKinds
  <2> QED
    BY <1>0, <2>1, WireBytesOf, SentKeeps
<1>5. CASE PutVectorBytes(len)
  <2>1. /\ Sent("bytes", len, 4 + 4 + RoundUp(len)) /\ len > 0
        /\ "bytes" \in AllKinds /\ "bytes" \in Vectors
    BY <1>5 DEF PutVectorBytes, AllKinds, Vectors
  <2>2. PartBytes("bytes", len) = len
    BY DEF PartBytes
  <2>3. WireBytes("bytes", len) = 8 + RoundUp(len)
    BY <1>0, <2>1, <2>2, WireBytesOf
  <2> QED
    BY <1>0, <2>1, <2>3, SentKeeps
<1>6. CASE PutVector(k, len)
  <2> DEFINE data == len * WireWidth(k)
             bytes == IF len = 0 THEN 4 ELSE 4 + 4 + data
  <2>1. k \in Vectors \ {"bytes"} /\ k \in AllKinds /\ k # "opaque"
    BY <1>6 DEF PutVector, AllKinds, Vectors
  <2>2. data \in Nat /\ data = PartBytes(k, len) /\ RoundUp(PartBytes(k, len)) = data
    BY <1>0, <2>1, RoundedElements
  <2>3. Sent(k, len, bytes)
    BY <1>6 DEF PutVector
  <2> HIDE DEF data
  <2>4. bytes \in Nat /\ bytes = WireBytes(k, len)
    BY WireBytesOf, <1>0, <2>1, <2>2 DEF Vectors
  <2> QED
    BY <1>0, <2>1, <2>3, <2>4, SentKeeps
<1> QED
  BY <1>1, <1>2, <1>3, <1>4, <1>5, <1>6

\* A vector that is put in parts ends up as the vector that is put at once.
LEMMA PutVectorEndKeeps == ASSUME IInv, ReaderInv, PutVectorEnd PROVE ReaderInv'
<1> DEFINE item == [kind |-> open.kind, len |-> open.len, bytes |-> open.bytes + Pad]
<1>1. sent' = Append(sent, item) /\ UNCHANGED <<read, last>> /\ open # NotOpen /\ open.left = 0
  BY DEF PutVectorEnd
<1>2. open.kind \in Vectors /\ open.len \in Nat /\ open.len > 0 /\ open.bytes \in Nat
      /\ partial \in Nat /\ open.bytes % 4 = partial % 4
      /\ open.bytes = 8 + PartBytes(open.kind, open.len)
  BY <1>1, CounterAssumption DEF IInv, WriterTypeOK, PartsInv
<1>3. Pad \in Nat /\ open.bytes + Pad = RoundUp(open.bytes)
  BY <1>2, PadFacts
<1>4. PartBytes(open.kind, open.len) \in Nat
  BY <1>2, PartBytesFacts
<1>5. RoundUp(open.bytes) = 8 + RoundUp(PartBytes(open.kind, open.len))
  BY <1>2, <1>4 DEF RoundUp
<1>6. item \in Item
  BY <1>2, <1>3 DEF Item, AllKinds, Vectors
<1>7. item.bytes = WireBytes(item.kind, item.len)
  <2>1. open.kind \in AllKinds
    BY <1>2 DEF AllKinds, Vectors
  <2>2. WireBytes(open.kind, open.len) = 8 + RoundUp(PartBytes(open.kind, open.len))
    BY <1>2, <2>1, WireBytesOf
  <2> QED
    BY <1>3, <1>5, <2>2
<1>8. item.kind # "opaque" /\ item.len > 0
  BY <1>2 DEF Vectors
<1> HIDE DEF item
<1> QED
  BY <1>1, <1>6, <1>7, <1>8, AppendKeeps

\* What a get_*() leaves is right for the value v that it took.
RightFor(v, w) ==
    /\ ~Misrounded(v) => w.taken = v.bytes
    /\ ~FillsBuffer(v) => w.need <= w.room
    /\ ~LongBytes(v) => w.decodes = "read"

\* A value as the reader finds it: of XDR's length, and an opaque that d_buf holds.
AsPut(v) ==
    /\ v \in Item /\ v.bytes = WireBytes(v.kind, v.len)
    /\ v.kind = "opaque" => v.len <= WBuf
    /\ v.kind = "bytes" => v.len > 0

\* get_opaque() and get_vector() of bytes round by adding the remainder, which is
\* right when there is none.
LEMMA RoundUpExact ==
    ASSUME NEW len \in Nat, len % 4 = 0
    PROVE  RoundUp(len) = len
BY DEF RoundUp

\* Each get_*() is right for the values of its kind.
LEMMA TakesRight ==
    ASSUME NEW v, AsPut(v)
    PROVE  /\ v.kind = "scalar" => RightFor(v, Took(4))
           /\ v.kind = "double" => RightFor(v, Took(8))
           /\ v.kind = "str" => RightFor(v, StrTakes(v))
           /\ v.kind = "opaque" => RightFor(v, OpaqueTakes(v))
           /\ v.kind = "bytes" => RightFor(v, BytesTakes(v))
           /\ v.kind \in Vectors \ {"bytes"} => RightFor(v, VectorTakes(v))
<1>0. v.len \in Nat /\ RBuf \in Nat /\ WBuf \in Nat /\ v.kind \in AllKinds
      /\ RoundUp(v.len) \in Nat /\ v.bytes = WireBytes(v.kind, v.len)
  BY BoundsAssumption, RoundUpMultiple DEF AsPut, Item
<1>1. ASSUME v.kind = "scalar" PROVE RightFor(v, Took(4))
  BY WireBytesOf, <1>0, <1>1 DEF RightFor, Took
<1>2. ASSUME v.kind = "double" PROVE RightFor(v, Took(8))
  BY WireBytesOf, <1>0, <1>2 DEF RightFor, Took
<1>3. ASSUME v.kind = "str" PROVE RightFor(v, StrTakes(v))
  BY WireBytesOf, <1>0, <1>3 DEF RightFor, StrTakes, Reads
<1>4. ASSUME v.kind = "opaque" PROVE RightFor(v, OpaqueTakes(v))
  <2>1. v.len + (v.len % 4) <= RBuf
    BY <1>0, <1>4, BuffersAssumption DEF AsPut
  <2>2. ~Misrounded(v) => v.len + (v.len % 4) = WireBytes(v.kind, v.len)
    <3>1. ~Misrounded(v) => v.len % 4 = 0 /\ RoundUp(v.len) = v.len
      BY <1>0, <1>4, RoundUpExact DEF Misrounded
    <3> QED
      BY <1>0, <1>4, <3>1, WireBytesOf
  <2> QED
    BY <1>0, <2>1, <2>2 DEF RightFor, OpaqueTakes
<1>5. ASSUME v.kind = "bytes" PROVE RightFor(v, BytesTakes(v))
  <2>1. ~Misrounded(v) => 8 + v.len + (v.len % 4) = WireBytes(v.kind, v.len)
    <3>1. PartBytes(v.kind, v.len) = v.len /\ v.len > 0
      BY <1>5 DEF PartBytes, AsPut
    <3> QED
      BY WireBytesOf, <1>0, <1>5, <3>1, RoundUpExact DEF Misrounded, Vectors
  <2> QED
    BY <1>0, <1>5, <2>1 DEF RightFor, BytesTakes, Reads, LongBytes
<1>6. ASSUME v.kind \in Vectors \ {"bytes"} PROVE RightFor(v, VectorTakes(v))
  <2> DEFINE width == Width(v.kind) + (Width(v.kind) % 4)
             size == v.len * width
  <2>1. width = WireWidth(v.kind) /\ WireWidth(v.kind) \in Nat
    BY <1>6 DEF Width, WireWidth, Vectors
  <2>2. size = v.len * WireWidth(v.kind) /\ size \in Nat
    BY <1>0, <2>1
  <2>3. v.len # 0 => WireBytes(v.kind, v.len) = 8 + size
    <3>1. PartBytes(v.kind, v.len) = size /\ RoundUp(PartBytes(v.kind, v.len)) = size
      BY <1>0, <1>6, <2>2, RoundedElements
    <3> HIDE DEF size
    <3> QED
      BY <1>0, <1>6, <3>1, WireBytesOf
  <2>4. VectorTakes(v) = IF v.len = 0 THEN Took(4) ELSE Reads(2, size, size > RBuf, "read")
    BY DEF VectorTakes
  <2> HIDE DEF size
  <2>5. CASE v.len = 0
    BY WireBytesOf, <1>0, <1>6, <2>4, <2>5 DEF RightFor, Took, Vectors
  <2>6. CASE v.len # 0
    <3>1. v.kind # "bytes" /\ ~LongBytes(v)
      BY <1>6 DEF LongBytes
    <3>2. Reads(2, size, size > RBuf, "read").taken = WireBytes(v.kind, v.len)
      BY <2>2, <2>3, <2>6 DEF Reads
    <3>3. ~FillsBuffer(v) => size \notin RBuf - 3..RBuf
      BY <1>6, <2>2 DEF FillsBuffer
    <3>4. /\ Reads(2, size, size > RBuf, "read").decodes = "read"
          /\ Reads(2, size, size > RBuf, "read").need = 4 + size
          /\ Reads(2, size, size > RBuf, "read").room = IF size > RBuf THEN size + 4 ELSE RBuf
      BY DEF Reads
    <3> QED
      BY <1>0, <2>2, <2>4, <2>6, <3>2, <3>3, <3>4 DEF RightFor
  <2> QED
    BY <2>5, <2>6
<1> QED
  BY <1>1, <1>2, <1>3, <1>4, <1>5, <1>6

\* A get_*() that is right for the value it takes keeps the reader's invariant.
LEMMA GotKeeps ==
    ASSUME IInv, ReaderInv, NEW w, read < Len(sent), RightFor(sent[read + 1], w),
           last' = w, read' = read + 1, sent' = sent
    PROVE  ReaderInv'
<1>1. Len(sent) \in Nat /\ read \in 0..Len(sent)
  BY DEF IInv, WriterTypeOK, ReaderInv
<1>2. SentAsPut' /\ read' \in 0..Len(sent')
  BY <1>1 DEF ReaderInv, SentAsPut
<1>3. ReaderInStep' /\ ReadsFitBuffer' /\ DecodesWhatItRead'
  BY DEF RightFor, ReaderInStep, ReadsFitBuffer, DecodesWhatItRead, Misrounded, FillsBuffer, LongBytes
<1> QED
  BY <1>2, <1>3 DEF ReaderInv

\* Every get_*() keeps it.
LEMMA GetKeeps ==
    ASSUME IInv, ReaderInv,
           \/ GetScalar \/ GetFloat64 \/ GetStr \/ GetOpaque \/ GetVectorBytes \/ GetVector
    PROVE  ReaderInv'
<1> DEFINE v == sent[read + 1]
<1>1. read < Len(sent) /\ read' = read + 1 /\ sent' = sent
  BY DEF GetScalar, GetFloat64, GetStr, GetOpaque, GetVectorBytes, GetVector, Got
<1>2. AsPut(v)
  <2>1. read + 1 \in 1..Len(sent) /\ sent \in Seq(Item)
    BY <1>1 DEF IInv, WriterTypeOK, ReaderInv
  <2> QED
    BY <2>1 DEF ReaderInv, SentAsPut, AsPut
<1>3. RightFor(v, last')
  <2>1. CASE GetScalar
    BY <1>2, <2>1, TakesRight DEF GetScalar, Got
  <2>2. CASE GetFloat64
    BY <1>2, <2>2, TakesRight DEF GetFloat64, Got
  <2>3. CASE GetStr
    BY <1>2, <2>3, TakesRight DEF GetStr, Got
  <2>4. CASE GetOpaque
    BY <1>2, <2>4, TakesRight DEF GetOpaque, Got
  <2>5. CASE GetVectorBytes
    BY <1>2, <2>5, TakesRight DEF GetVectorBytes, Got
  <2>6. CASE GetVector
    BY <1>2, <2>6, TakesRight DEF GetVector, Got
  <2> QED
    BY <2>1, <2>2, <2>3, <2>4, <2>5, <2>6
<1> QED
  BY <1>1, <1>3, GotKeeps

\* Every step keeps the reader's invariant.
LEMMA NextReaderInv == IInv /\ ReaderInv /\ [Next]_vars => ReaderInv'
<1> SUFFICES ASSUME IInv, ReaderInv, [Next]_vars PROVE ReaderInv'
  OBVIOUS
<1>1. CASE PutScalar \/ PutFloat64
  BY <1>1, PutScalarKeeps
<1>2. ASSUME NEW len \in Lens, PutStr(len) \/ PutOpaque(len) \/ PutVectorBytes(len)
      PROVE  ReaderInv'
  BY <1>2, PutKeeps DEF Vectors
<1>3. ASSUME NEW k \in Vectors, NEW len \in Lens, PutVector(k, len)
      PROVE  ReaderInv'
  BY <1>3, PutKeeps
<1>4. CASE PutVectorEnd
  BY <1>4, PutVectorEndKeeps
<1>5. CASE \/ GetScalar \/ GetFloat64 \/ GetStr \/ GetOpaque \/ GetVectorBytes \/ GetVector
  BY <1>5, GetKeeps
<1>6. CASE \/ \E k \in Vectors, len \in Lens : PutVectorStart(k, len)
           \/ \E n \in 1..open.left : PutVectorPart(n)
           \/ UNCHANGED vars
  <2>1. UNCHANGED <<sent, read, last>>
    BY <1>6 DEF PutVectorStart, PutVectorPart, vars
  <2> QED
    BY <2>1 DEF ReaderInv, SentAsPut, ReaderInStep, ReadsFitBuffer,
                DecodesWhatItRead, Misrounded, FillsBuffer, LongBytes
<1> QED
  BY <1>1, <1>2, <1>3, <1>4, <1>5, <1>6 DEF Next

\* Every value is on the stream as XDR has it, and the reader takes it as it was put.
THEOREM ReaderInvariance == Spec => []ReaderInv
<1>1. Init => ReaderInv
  BY DEF Init, ReaderInv, SentAsPut, ReaderInStep, ReadsFitBuffer, DecodesWhatItRead
<1> QED
  BY <1>1, Invariance, NextReaderInv, PTL DEF Spec

\* Whatever was put and however long, each get_*() takes just the bytes of its value,
\* unless it is of those that get_opaque() and get_vector() of bytes round wrongly
\* (XDRStreamUnMarshaller.cc:229, 256).
THEOREM InStepUnlessMisrounded == Spec => []ReaderInStep
<1>1. ReaderInv => ReaderInStep
  BY DEF ReaderInv
<1> QED
  BY <1>1, ReaderInvariance, PTL

\* No get_*() reads more than its buffer holds, but a vector that just fills d_buf.
THEOREM BufferHolds == Spec => []ReadsFitBuffer
<1>1. ReaderInv => ReadsFitBuffer
  BY DEF ReaderInv
<1> QED
  BY <1>1, ReaderInvariance, PTL

\* What a get_*() returns is decoded from what it read, but for long vectors of bytes
\* (XDRStreamUnMarshaller.cc:272).
THEOREM DecodedAsRead == Spec => []DecodesWhatItRead
<1>1. ReaderInv => DecodesWhatItRead
  BY DEF ReaderInv
<1> QED
  BY <1>1, ReaderInvariance, PTL

====
