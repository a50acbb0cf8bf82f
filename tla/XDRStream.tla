---- MODULE XDRStream ----
(***************************************************************************)
(* XDRStreamMarshaller and XDRStreamUnMarshaller at the two ends of one    *)
(* DAP2 response: which bytes a put_*() call adds to the stream and which  *)
(* bytes the matching get_*() call takes from it.                          *)
(*                                                                         *)
(* A value is its kind and its length; the stream is the sequence of the   *)
(* values put with the number of bytes each occupies.  That puts reach the *)
(* stream in order although a child thread writes the vectors is the       *)
(* subject of MarshallerThread and is taken from there.  The reader knows  *)
(* the kinds to expect (it has the DDS) and reads a value when all of its  *)
(* bytes are there.                                                        *)
(***************************************************************************)
EXTENDS Integers, Sequences

CONSTANTS
    Kinds,          \* the kinds of values this response uses
    Lens,           \* lengths of strings, opaques and vectors
    MaxItems,       \* bound on the number of values in the response
    WBuf,           \* XDR_DAP_BUFF_SIZE of XDRStreamMarshaller.cc (256 there)
    RBuf,           \* XDR_DAP_BUFF_SIZE of XDRStreamUnMarshaller.h (4096 there)
    CounterMod      \* d_partial_put_byte_count wraps here: 2^32 (unsigned int)

AllKinds == {"scalar", "double", "str", "opaque", "bytes", "vec2", "vec4", "vec8"}
Vectors == {"bytes", "vec2", "vec4", "vec8"}

ASSUME KindsAssumption == Kinds \subseteq AllKinds
ASSUME LensAssumption == Lens \subseteq Nat
ASSUME BoundsAssumption ==
    /\ MaxItems \in Nat
    /\ WBuf \in Nat
    /\ RBuf \in Nat
\* What put_opaque() sends, get_opaque() reads into d_buf (256 and 4096 in the code).
ASSUME BuffersAssumption == WBuf + 3 <= RBuf
ASSUME CounterAssumption == CounterMod \in Nat \ {0} /\ CounterMod % 4 = 0

VARIABLES
    sent,       \* the values put, each with the bytes it occupies
    total,      \* the bytes on the stream
    open,       \* the vector between put_vector_start() and put_vector_end()
    partial,    \* d_partial_put_byte_count
    read,       \* how many values the reader has taken
    last        \* what the last get_*() did

vars == <<sent, total, open, partial, read, last>>

NotOpen == [kind |-> "none", left |-> 0, len |-> 0, bytes |-> 0]

\* The bytes an element of a vector has in memory and, except for bytes, on the wire.
Width(k) == CASE k = "bytes" -> 1 [] k = "vec2" -> 2 [] k = "vec4" -> 4 [] k = "vec8" -> 8
WireWidth(k) == IF Width(k) < 4 THEN 4 ELSE Width(k)

\* XDR pads to a multiple of four.
RoundUp(len) == ((len + 3) \div 4) * 4

\* What a get_*() does with a value, for the properties: the bytes it takes, those
\* it needs in a buffer and those the buffer has, and what it decodes.
Took(bytes) == [taken |-> bytes, need |-> bytes, room |-> bytes, decodes |-> "read"]

Init ==
    /\ sent = << >>
    /\ total = 0
    /\ open = NotOpen
    /\ partial = 0
    /\ read = 0
    /\ last = Took(0)

----
(* The writer *)

\* A completed put_*() of a value.
Sent(k, len, bytes) ==
    /\ open = NotOpen
    /\ k \in Kinds
    /\ Len(sent) < MaxItems
    /\ sent' = Append(sent, [kind |-> k, len |-> len, bytes |-> bytes])
    /\ total' = total + bytes
    /\ UNCHANGED <<open, partial, read, last>>

\* put_byte(), put_int16(), ..., put_float32(): four bytes for all of them.
PutScalar == Sent("scalar", 1, 4)

\* put_float64().
PutFloat64 == Sent("double", 1, 8)

\* put_str(), put_url().
PutStr(len) == Sent("str", len, 4 + RoundUp(len))

\* put_opaque(): no bytes, or more than the buffer holds, are refused.
PutOpaque(len) == len \in 1..WBuf /\ Sent("opaque", len, RoundUp(len))

\* put_vector() of bytes: the number of bytes, then an XDR byte string, which has the
\* number again.  A vector without values has no buffer and is refused.
PutVectorBytes(len) == len > 0 /\ Sent("bytes", len, 4 + 4 + RoundUp(len))

\* put_vector() of other types: nothing follows the number of a vector without values.
PutVector(k, len) ==
    /\ k \in Vectors \ {"bytes"}
    /\ Sent(k, len, IF len = 0 THEN 4 ELSE 4 + 4 + len * WireWidth(k))

\* Bug: the counter of an earlier vector is kept.
PutVectorStartNoReset(k, len) ==
    /\ open = NotOpen
    /\ k \in Vectors \cap Kinds
    /\ len > 0
    /\ Len(sent) < MaxItems
    /\ open' = [kind |-> k, left |-> len, len |-> len, bytes |-> 8]
    /\ total' = total + 8
    /\ UNCHANGED <<sent, partial, read, last>>

\* put_vector_start(): the number of elements, twice.
PutVectorStart(k, len) ==
    /\ open = NotOpen
    /\ k \in Vectors \cap Kinds
    /\ len > 0
    /\ Len(sent) < MaxItems
    /\ open' = [kind |-> k, left |-> len, len |-> len, bytes |-> 8]
    /\ total' = total + 8
    /\ partial' = 0
    /\ UNCHANGED <<sent, read, last>>

\* The bytes of n elements of a vector in a part.
PartBytes(k, n) == IF k = "bytes" THEN n ELSE n * WireWidth(k)

\* put_vector_part() of n elements: the length and the padding XDR puts around the
\* values are not sent.
PutVectorPart(n) ==
    /\ open # NotOpen
    /\ n \in 1..open.left
    /\ LET bytes == PartBytes(open.kind, n)
       IN  /\ open' = [open EXCEPT !.left = @ - n, !.bytes = @ + bytes]
           /\ total' = total + bytes
           /\ partial' = (partial + bytes) % CounterMod
    /\ UNCHANGED <<sent, read, last>>

\* Bug: the bytes beyond the last boundary are taken for the missing ones.
PadOverhang == partial % 4

\* The bytes from the last part to the next multiple of four.
Pad == LET mod_4 == partial % 4 IN IF mod_4 = 0 THEN 0 ELSE 4 - mod_4

\* put_vector_end(), after the caller has put all of the elements.
PutVectorEnd ==
    /\ open # NotOpen
    /\ open.left = 0
    /\ sent' = Append(sent, [kind |-> open.kind, len |-> open.len,
                             bytes |-> open.bytes + Pad])
    /\ total' = total + Pad
    /\ open' = NotOpen
    /\ UNCHANGED <<partial, read, last>>

----
(* The reader *)

\* The reader takes the next value; it goes on only while it is in step.
Got(kinds, what(_)) ==
    /\ read < Len(sent)
    /\ sent[read + 1].kind \in kinds
    /\ read > 0 => last.taken = sent[read].bytes
    /\ last' = what(sent[read + 1])
    /\ read' = read + 1
    /\ UNCHANGED <<sent, total, open, partial>>

\* get_byte(), get_int16(), ..., get_float32() and get_float64().
GetScalar == Got({"scalar"}, LAMBDA v : Took(4))
GetFloat64 == Got({"double"}, LAMBDA v : Took(8))

\* A value of size bytes is read behind an int that is in d_buf already: into d_buf,
\* or into a buffer of its own if it is long, from which it should be decoded.
Reads(ints, size, long, decodes) ==
    [taken |-> 4 * ints + size,
     need |-> 4 + size,
     room |-> IF long THEN size + 4 ELSE RBuf,
     decodes |-> IF long THEN decodes ELSE "read"]

\* Bug: only the remainder is added to the length.
StrTakesRemainder(v) ==
    LET i == v.len + (v.len % 4) IN Reads(1, i, i + 4 > RBuf, "read")

\* Bug: a long string is decoded from the small buffer.
StrDecodesStale(v) ==
    LET i == RoundUp(v.len) IN Reads(1, i, i + 4 > RBuf, "stale")

\* Bug: the four bytes of the length are forgotten in the test for a long string.
StrForgetsLength(v) ==
    LET i == RoundUp(v.len) IN Reads(1, i, i > RBuf, "read")

\* get_str(): the length, then the rounded string.
StrTakes(v) ==
    LET i == RoundUp(v.len) IN Reads(1, i, i + 4 > RBuf, "read")

GetStr == Got({"str"}, StrTakes)

\* get_opaque(): len += len & 3.
OpaqueTakes(v) ==
    LET len == v.len + (v.len % 4)
    IN  [taken |-> len, need |-> len, room |-> RBuf, decodes |-> "read"]

GetOpaque == Got({"opaque"}, OpaqueTakes)

\* Vector::deserialize() of bytes: get_int(), then get_vector(), with its own
\* get_int(), i += i & 3.  A vector larger than d_buf is read into a buffer of its
\* own, but xdr_bytes() is given the XDR stream of d_buf.
BytesTakes(v) ==
    LET i == v.len + (v.len % 4) IN Reads(2, i, i + 4 > RBuf, "stale")

GetVectorBytes == Got({"bytes"}, BytesTakes)

\* Bug: the empty vector is not treated apart.
VectorTakesEmpty(v) ==
    LET width == Width(v.kind) + (Width(v.kind) % 4)
        size == v.len * width
    IN  Reads(2, size, size > RBuf, "read")

\* Vector::deserialize() of other types: nothing follows the number of an empty
\* vector; width += width & 3 gives the bytes of an element on the wire.
VectorTakes(v) ==
    LET width == Width(v.kind) + (Width(v.kind) % 4)
        size == v.len * width
    IN  IF v.len = 0 THEN Took(4)
        ELSE Reads(2, size, size > RBuf, "read")

GetVector == Got(Vectors \ {"bytes"}, VectorTakes)

----

Next ==
    \/ PutScalar \/ PutFloat64
    \/ \E len \in Lens : PutStr(len) \/ PutOpaque(len) \/ PutVectorBytes(len)
    \/ \E k \in Vectors, len \in Lens : PutVector(k, len) \/ PutVectorStart(k, len)
    \/ \E n \in 1..open.left : PutVectorPart(n)
    \/ PutVectorEnd
    \/ GetScalar \/ GetFloat64 \/ GetStr \/ GetOpaque \/ GetVectorBytes \/ GetVector

Spec == Init /\ [][Next]_vars

----
(* Properties *)

Item == [kind : AllKinds, len : Nat, bytes : Nat]

WriterTypeOK ==
    /\ sent \in Seq(Item)
    /\ total \in Nat
    /\ open \in [kind : Vectors \cup {"none"}, left : Nat, len : Nat, bytes : Nat]
    /\ partial \in 0..(CounterMod - 1)

TypeOK ==
    /\ WriterTypeOK
    /\ read \in 0..Len(sent)
    /\ last \in [taken : Nat, need : Nat, room : Nat, decodes : {"read", "stale"}]

\* Whatever was put, the next value starts on a four-byte boundary: the padding that
\* put_vector_end() adds fits the parts, also when the count of their bytes wrapped.
WireAligned == open = NotOpen => total % 4 = 0

\* A vector put in parts takes the same bytes as the vector put at once, however it
\* is cut (MarshallerTest compares the two files for two cuts).
PartsAsWhole ==
    \A i \in 1..Len(sent) :
        sent[i].kind \in Vectors /\ sent[i].len > 0 =>
            sent[i].bytes = 8 + RoundUp(PartBytes(sent[i].kind, sent[i].len))

\* The lengths that get_opaque() and get_vector() of bytes round wrongly (len & 3 is
\* added, XDRStreamUnMarshaller.cc:229 and 256).
Misrounded(v) == v.kind \in {"opaque", "bytes"} /\ v.len % 4 # 0

\* Byte vectors that do not fit d_buf are decoded from d_buf all the same (272); other
\* vectors that fill it leave no room for the four bytes of the length (306).
LongBytes(v) == v.kind = "bytes" /\ v.len + (v.len % 4) + 4 > RBuf
FillsBuffer(v) == v.kind \in Vectors \ {"bytes"} /\ v.len * WireWidth(v.kind) \in RBuf - 3..RBuf

\* get_*() takes exactly the bytes that put_*() sent, so that the next get_*() starts
\* at the next value ("Round len up to the next multiple of 4",
\* XDRStreamUnMarshaller.cc:227, and the same at 255).
ReaderAlwaysInStep == read > 0 => last.taken = sent[read].bytes

\* The same for every value but those.
ReaderInStep == read > 0 /\ ~Misrounded(sent[read]) => last.taken = sent[read].bytes

\* The bytes of a value are read into a buffer that holds them, but for vectors that
\* just fill d_buf.
ReadsFitBuffer == read > 0 /\ ~FillsBuffer(sent[read]) => last.need <= last.room

\* The value returned is decoded from the bytes that were read for it, but for long
\* vectors of bytes, and the buffer of a long value has been read in full.
DecodesWhatItRead == read > 0 /\ ~LongBytes(sent[read]) => last.decodes = "read"

----
(* The inductive invariant behind WireAligned and PartsAsWhole *)

\* The counter knows the position in a four-byte word of the end of the parts.
PartsInv ==
    open # NotOpen =>
        /\ open.kind \in Vectors
        /\ open.len > 0
        /\ open.left <= open.len
        /\ open.bytes = 8 + PartBytes(open.kind, open.len - open.left)
        /\ partial % 4 = open.bytes % 4
        /\ total % 4 = partial % 4

IInv == WriterTypeOK /\ WireAligned /\ PartsAsWhole /\ PartsInv

(* And the one behind ReaderInStep, ReadsFitBuffer and DecodesWhatItRead *)

\* What XDR makes of a value, whichever call put it there.
WireBytes(k, len) ==
    CASE k = "scalar" -> 4
      [] k = "double" -> 8
      [] k = "str" -> 4 + RoundUp(len)
      [] k = "opaque" -> RoundUp(len)
      [] k \in Vectors -> IF len = 0 THEN 4 ELSE 8 + RoundUp(PartBytes(k, len))

SentAsPut ==
    \A i \in 1..Len(sent) :
        /\ sent[i].bytes = WireBytes(sent[i].kind, sent[i].len)
        /\ sent[i].kind = "opaque" => sent[i].len <= WBuf
        /\ sent[i].kind = "bytes" => sent[i].len > 0

ReaderInv ==
    /\ SentAsPut
    /\ read \in 0..Len(sent)
    /\ ReaderInStep /\ ReadsFitBuffer /\ DecodesWhatItRead

====
