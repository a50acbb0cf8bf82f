---- MODULE NestedSequence ----
(***************************************************************************)
(* A DAP2 Sequence on its way from the server to the client: serialize()   *)
(* of nested Sequences, where the leaf triggers the sending of its parents, *)
(* intern_data(), which loads the same rows into d_values, and             *)
(* deserialize() (Sequence.cc).                                            *)
(*                                                                         *)
(* Level 1 is the top most Sequence, level `depth' the leaf; each parent    *)
(* has one child Sequence, after its other variables.  The other variables  *)
(* of a level are one value, the ordinal of the row within its instance.    *)
(* The selection holds or not, as the rows fall out.  serialize() and       *)
(* intern_data() walk the same rows in the same way, so that one walk here  *)
(* yields both the response and the interned values.                       *)
(*                                                                         *)
(* read() is the handler's.  It is taken from TestSequence: the parent's    *)
(* read() reads a row of the child too, and the end of an instance resets   *)
(* the row number.  An instance has at least one row.                      *)
(***************************************************************************)
EXTENDS Integers, Sequences, SequencesExt

CONSTANTS
    MaxDepth,       \* bound: levels of Sequences
    MaxRows,        \* bound: rows of an instance, by the depth of the leaf
    Ranged,         \* which Sequences may have a range of rows: "flat",
                    \* "top" (of several levels), "inner"
    Starts, Strides, Stops  \* what the ranges are made of

Levels == 1 .. MaxDepth

ASSUME DepthAssumption ==
    MaxDepth \in Nat \ {0} /\ MaxRows \in [Levels -> Nat \ {0}]
ASSUME RangesAssumption ==
    /\ Starts \subseteq Nat /\ Strides \subseteq Nat \ {0} /\ Stops \subseteq Nat

VARIABLES
    step,       \* what serialize() does next
    lev,        \* the level whose serialize() runs
    depth,      \* the level of the leaf, which set_leaf_sequence() finds
    range,      \* d_starting_row_number, d_row_stride, d_ending_row_number
    i,          \* the local variable i at each level
    status,     \* the result of read_row()
    first,      \* in serialize_leaf(): before the loop
    row,        \* d_row_number
    read,       \* read_p() of the variables of each level
    unsent,     \* d_unsent_data
    wrote,      \* d_wrote_soi
    cur,        \* the handler's position in the current instance
    val,        \* the values of the row read last
    wire,       \* the response
    client,     \* deserialize() at the other end, where the response has got to it
    interned,   \* the vectors of rows made by intern_data(), with their parents
    stack,      \* sequence_values_stack
    base,       \* orig_stack_size at each level
    passed,     \* rows of the current instance of the leaf that were selected
    chosen      \* the rows that the constraint selects, with their parents' rows

handler == <<cur, val>>
flags == <<row, read, unsent, wrote>>
outcome == <<wire, client, interned, stack, base>>
seqVars == <<step, lev, depth, range, i, status, first, flags, handler, outcome,
             passed, chosen>>

NoRow == -1
NoRange == [start |-> NoRow, stride |-> 1, stop |-> NoRow]
Range_(S, T, U) == [start : S, stride : T, stop : U]
Marker(m) == [kind |-> m, level |-> 0, val |-> 0]
Values(l) == [kind |-> "values", level |-> l, val |-> val[l]]
All(v) == [l \in Levels |-> v]
NewVectors == <<[of |-> <<>>, rows |-> <<>>]>>
NewReader == [at |-> "marker", open |-> <<1>>, got |-> NewVectors]

SeqInit ==
    /\ step = "idle" /\ lev = 1 /\ depth = 1
    /\ range = All(NoRange) /\ i = All(0)
    /\ status = FALSE /\ first = TRUE
    /\ row = All(NoRow) /\ read = All(FALSE)
    /\ unsent = All(FALSE) /\ wrote = All(FALSE)
    /\ cur = All(0) /\ val = All(0)
    /\ wire = <<>> /\ client = NewReader
    /\ interned = NewVectors /\ stack = <<1>> /\ base = All(0)
    /\ passed = 0 /\ chosen = <<>>

-----------------------------------------------------------------------------
(* The constraint, and read_row().                                         *)

Ranges(d, l) ==
    {NoRange} \cup
    CASE d = 1            -> IF "flat" \in Ranged THEN Range_(Starts, Strides, Stops) ELSE {}
      [] d # 1 /\ l = 1   -> IF "top" \in Ranged THEN Range_({0}, {1}, Stops) ELSE {}
      [] OTHER            -> IF "inner" \in Ranged THEN Range_({0}, {1}, Stops) ELSE {}
AnyRange == UNION {Ranges(d, l) : d, l \in Levels}

\* set_row_number_constraint() refuses what ends before it starts
Constrain(d, r) ==
    /\ step = "idle"
    /\ \A l \in Levels : r[l] \in (IF l <= d THEN Ranges(d, l) ELSE {NoRange})
    /\ \A l \in Levels : r[l] = NoRange \/ r[l].start <= r[l].stop
    /\ depth' = d /\ range' = r
    /\ step' = "enter"
    /\ UNCHANGED <<lev, i, status, first, flags, handler, outcome, passed, chosen>>

IsEndOfRows(l) == range[l].stop # NoRow /\ i[l] > range[l].stop

\* set_read_p() is recursive
SetReadP(l, b) == [k \in Levels |-> IF k >= l THEN b ELSE read[k]]

\* read() of level l reads a row at the levels l to m; level m + 1, if there
\* is one, has been read already or is at the end of its instance
CanDeliver(l, m) ==
    /\ \A k \in l .. m : ~read[k] /\ cur[k] < MaxRows[depth]
    /\ m < depth => read[m + 1] \/ cur[m + 1] > 0
EndsAt(m) == IF m < depth /\ ~read[m + 1] THEN {m + 1} ELSE {}
DeliverRow(l, m) ==
    /\ cur' = [k \in Levels |-> IF k \in l .. m THEN cur[k] + 1
                                ELSE IF k \in EndsAt(m) THEN 0 ELSE cur[k]]
    /\ val' = [k \in Levels |-> IF k \in l .. m THEN cur[k] + 1 ELSE val[k]]
    /\ unsent' = [k \in Levels |-> IF k \in l .. m THEN TRUE
                                   ELSE unsent[k] /\ k \notin EndsAt(m)]

\* The row of level l with number n, in its instance, is asked for
Asked(l, n) ==
    range[l] = NoRange \/ n \in {range[l].start + k * range[l].stride :
                                 k \in 0 .. range[l].stop} \cap 0 .. range[l].stop
Count(l, selected) ==
    IF l = depth /\ selected
    THEN /\ passed' = (IF val'[l] = 1 THEN 0 ELSE passed) + 1
         /\ chosen' = IF /\ Asked(l, passed' - 1)
                         /\ \A k \in 1 .. l - 1 : Asked(k, val[k] - 1)
                      THEN Append(chosen, SubSeq(val', 1, l))
                      ELSE chosen
    ELSE /\ passed' = (IF l = depth /\ val'[l] = 1 THEN 0 ELSE passed)
         /\ UNCHANGED chosen

\* the row is behind, which is an error, or the one that was read last
NotAhead ==
    /\ step = "read" /\ i[lev] <= row[lev]
    /\ status' = FALSE
    /\ step' = IF i[lev] < row[lev] THEN "failed" ELSE "test"
    /\ UNCHANGED <<lev, depth, range, i, first, flags, handler, outcome, passed, chosen>>

ReadRowNoReset(selected) ==
    /\ step = "read" /\ row[lev] < i[lev]
    /\ selected \/ lev = depth
    /\ \E m \in (IF read[lev] THEN {depth} ELSE {k \in lev - 1 .. depth : CanDeliver(lev, k)}) :
       LET eof == m < lev IN
        /\ IF read[lev] THEN UNCHANGED <<cur, val, unsent>> ELSE DeliverRow(lev, m)
        /\ row' = IF selected /\ ~eof THEN [row EXCEPT ![lev] = @ + 1] ELSE row
        /\ IF eof THEN UNCHANGED <<passed, chosen>> ELSE Count(lev, selected)
        /\ LET ends == eof \/ row'[lev] = i[lev] IN
            /\ read' = SetReadP(lev, ends)
            /\ status' = (ends /\ ~eof)
            /\ step' = IF ends THEN "test" ELSE "read"
    /\ UNCHANGED <<lev, depth, range, i, first, wrote, outcome>>

\* one round of read_row()'s loop; the selection counts in the leaf only
ReadRow(selected) ==
    /\ step = "read" /\ row[lev] < i[lev]
    /\ selected \/ lev = depth
    /\ \E m \in (IF read[lev] THEN {depth} ELSE {k \in lev - 1 .. depth : CanDeliver(lev, k)}) :
       LET eof == m < lev IN
        /\ IF read[lev] THEN UNCHANGED <<cur, val, unsent>> ELSE DeliverRow(lev, m)
        /\ row' = [k \in Levels |-> IF k \in EndsAt(m) THEN NoRow
                                    ELSE IF k = lev /\ selected THEN row[k] + 1 ELSE row[k]]
        /\ IF eof THEN UNCHANGED <<passed, chosen>> ELSE Count(lev, selected)
        /\ LET ends == eof \/ row'[lev] = i[lev] IN
            /\ read' = SetReadP(lev, ends)
            /\ status' = (ends /\ ~eof)
            /\ step' = IF ends THEN "test" ELSE "read"
    /\ UNCHANGED <<lev, depth, range, i, first, wrote, outcome>>

-----------------------------------------------------------------------------
(* deserialize(), and the response on its way to it.                       *)

\* v's vector gets a row; when there is a child Sequence, a new vector for
\* the child's rows comes after it
RowAdded(vectors, v, x) == [vectors EXCEPT ![v].rows = Append(@, x)]
ParentAdded(vectors, v, x) ==
    Append(RowAdded(vectors, v, x), [of |-> Append(vectors[v].of, x), rows |-> <<>>])

\* A marker is read where a row may begin, the values of a row after its
\* marker, and then the child Sequence; the end of a Sequence is followed by
\* the next row of its parent.
Deserialize(r, item) ==
    LET l == Len(r.open)
        v == Last(r.open)
    IN  CASE r.at = "marker" /\ item.kind = "SOI" ->
                [r EXCEPT !.at = "values"]
          [] r.at = "marker" /\ item.kind = "EOS" ->
                [at |-> IF l = 1 THEN "end" ELSE "marker", open |-> Front(r.open), got |-> r.got]
          [] r.at = "values" /\ item.kind = "values" /\ item.level = l /\ l < depth ->
                [at |-> "marker", open |-> Append(r.open, Len(r.got) + 1),
                 got |-> ParentAdded(r.got, v, item.val)]
          [] r.at = "values" /\ item.kind = "values" /\ item.level = l /\ l = depth ->
                [at |-> "marker", open |-> r.open, got |-> RowAdded(r.got, v, item.val)]
          [] OTHER -> [r EXCEPT !.at = "error"]

\* The response arrives as it was written, and the client never answers: it
\* may as well take each item at once.
SendRow(l) ==
    /\ wire' = wire \o <<Marker("SOI"), Values(l)>>
    /\ client' = Deserialize(Deserialize(client, Marker("SOI")), Values(l))
SendEnd ==
    /\ wire' = Append(wire, Marker("EOS"))
    /\ client' = Deserialize(client, Marker("EOS"))

-----------------------------------------------------------------------------
(* serialize() and intern_data().                                          *)

Enter ==
    /\ step = "enter"
    /\ i' = [i EXCEPT ![lev] = IF range[lev].start = NoRow THEN 0 ELSE range[lev].start]
    /\ base' = [base EXCEPT ![lev] = Len(stack)]
    /\ first' = TRUE
    /\ step' = "read"
    /\ UNCHANGED <<lev, depth, range, status, flags, handler, wire, client, interned, stack,
                   passed, chosen>>

Continues == status /\ ~IsEndOfRows(lev)

\* serialize_parent_part_two() and intern_data_parent_part_two(), which the
\* leaf calls: those parents that have not sent the row they are at, outermost
\* first
MaySendParent == step = "test" /\ lev = depth /\ first /\ Continues
Waits(l) == l < depth /\ unsent[l]

SendParent(l) ==
    /\ MaySendParent
    /\ Waits(l) /\ \A k \in 1 .. l - 1 : ~Waits(k)
    /\ SendRow(l)
    /\ interned' = ParentAdded(interned, Last(stack), val[l])
    /\ stack' = Append(stack, Len(interned) + 1)
    /\ unsent' = [unsent EXCEPT ![l] = FALSE]
    /\ wrote' = [wrote EXCEPT ![l] = TRUE]
    /\ UNCHANGED <<step, lev, depth, range, i, status, first, row, read, handler, base,
                   passed, chosen>>

LeafBegins ==
    /\ step = "test" /\ lev = depth /\ first
    /\ Continues => \A l \in Levels : ~Waits(l)
    /\ wrote' = [wrote EXCEPT ![lev] = FALSE]
    /\ first' = FALSE
    /\ UNCHANGED <<step, lev, depth, range, i, status, row, read, unsent, handler, outcome,
                   passed, chosen>>

LeafRow ==
    /\ step = "test" /\ lev = depth /\ ~first
    /\ Continues
    /\ i' = [i EXCEPT ![lev] = @ + range[lev].stride]
    /\ wrote' = [wrote EXCEPT ![lev] = TRUE]
    /\ SendRow(lev)
    /\ interned' = RowAdded(interned, Last(stack), val[lev])
    /\ read' = SetReadP(lev, FALSE)
    /\ step' = "read"
    /\ UNCHANGED <<lev, depth, range, status, first, row, unsent, handler, stack, base,
                   passed, chosen>>

\* back in serialize_parent_part_one(), which will read the next row
Return ==
    IF lev = 1 THEN step' = "done" /\ UNCHANGED <<lev, read>>
    ELSE step' = "read" /\ lev' = lev - 1 /\ read' = SetReadP(lev - 1, FALSE)

EndOfSequenceAlways == SendEnd
EndOfSequence ==
    IF lev = 1 \/ wrote[lev] THEN SendEnd ELSE UNCHANGED <<wire, client>>

LeafEnds ==
    /\ step = "test" /\ lev = depth /\ ~first
    /\ ~Continues
    /\ EndOfSequence
    /\ stack' = IF wrote[lev] THEN Front(stack) ELSE stack
    /\ Return
    /\ UNCHANGED <<depth, range, i, status, first, row, unsent, wrote, handler, interned,
                   base, passed, chosen>>

ParentRow ==
    /\ step = "test" /\ lev < depth
    /\ Continues
    /\ i' = [i EXCEPT ![lev] = @ + range[lev].stride]
    /\ lev' = lev + 1
    /\ step' = "enter"
    /\ UNCHANGED <<depth, range, status, first, flags, handler, outcome, passed, chosen>>

ParentEndsKeepsStack ==
    /\ step = "test" /\ lev < depth
    /\ ~Continues
    /\ row' = [row EXCEPT ![lev] = NoRow]
    /\ EndOfSequence
    /\ wrote' = [wrote EXCEPT ![lev] = FALSE]
    /\ Return
    /\ UNCHANGED <<depth, range, i, status, first, unsent, handler, interned, stack, base,
                   passed, chosen>>
ParentEnds ==
    /\ step = "test" /\ lev < depth
    /\ ~Continues
    /\ row' = [row EXCEPT ![lev] = NoRow]
    /\ EndOfSequence
    /\ wrote' = [wrote EXCEPT ![lev] = FALSE]
    /\ stack' = IF Len(stack) > base[lev] THEN Front(stack) ELSE stack
    /\ Return
    /\ UNCHANGED <<depth, range, i, status, first, unsent, handler, interned, base,
                   passed, chosen>>

SeqNext ==
    \/ \E d \in Levels, r \in [Levels -> AnyRange] : Constrain(d, r)
    \/ Enter \/ NotAhead
    \/ \E selected \in BOOLEAN : ReadRow(selected)
    \/ \E l \in Levels : SendParent(l)
    \/ LeafBegins \/ LeafRow \/ LeafEnds \/ ParentRow \/ ParentEnds

SeqSpec == SeqInit /\ [][SeqNext]_seqVars

-----------------------------------------------------------------------------
\* the rows of the leaf, each with the rows of its parents
RowsOf(v) == IF Len(v.of) = depth - 1 THEN [j \in 1 .. Len(v.rows) |-> Append(v.of, v.rows[j])]
             ELSE <<>>
LeafRows(vectors) == FlattenSeq([k \in 1 .. Len(vectors) |-> RowsOf(vectors[k])])

-----------------------------------------------------------------------------
(* Properties.                                                             *)

RangesOutside == \A l \in 2 .. depth : range[l] = NoRange

\* The client gets just the rows that the constraint selects, each under the
\* rows of its parents, and no parent without one: the leaf triggers the
\* sending of its parents, at whatever level they are, and an end marker is
\* written where, and only where, the client looks for one
\* (Sequence.cc:668, 688-712, 767).  When nothing is selected the response is
\* a single end marker, whatever the depth.
RowsArrive ==
    step = "done" /\ RangesOutside =>
        /\ client.at = "end"
        /\ LeafRows(client.got) = chosen
        /\ \A k \in 2 .. Len(client.got) : client.got[k].rows # <<>>
        /\ chosen = <<>> => wire = <<Marker("EOS")>>

\* intern_data() yields what a client gets from serialize(), as it says: the
\* stack of vectors brings each row to the instance of its parents' rows
\* (Sequence.cc:830-980).
InternAgrees == step = "done" /\ RangesOutside => interned = client.got

\* read_row() is never asked to go back to an earlier row, unless there is a range
\* of rows for a Sequence within another (Sequence.cc:502): d_row_number is reset
\* at the end of an instance only, and serialize_leaf() leaves before that.
BacksUpOnlyInside == RangesOutside => step # "failed"

\* "the second, ... instances of the inner/nested sequence will start off
\* reading row zero" (Sequence.cc:424): read_row() is never asked to go back.
NoBackUp == step # "failed"
====
