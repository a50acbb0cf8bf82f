---- MODULE D4Response ----
(***************************************************************************)
(* The data of a DAP4 response: the server reads, filters and sends the    *)
(* variables of its groups, each followed by its checksum, and the client  *)
(* takes them from the stream (D4Group.cc, D4Sequence.cc, and the counts   *)
(* and checksums of D4StreamMarshaller.cc and D4StreamUnMarshaller.cc).    *)
(*                                                                         *)
(* Those variables that are sent stand one after the other as the groups   *)
(* are walked.  One is a scalar (depth 0) or a Sequence, with a Sequence    *)
(* in it that has one in turn, down to its depth; the other variables of a  *)
(* row are one value, its number among all rows of its level.  The clauses  *)
(* of the filter hold or not, as the rows fall out.                        *)
(*                                                                         *)
(* read() is the handler's: it says whether there is another row, reads    *)
(* nothing of a child Sequence, and starts anew with a child's rows for    *)
(* each row of its parent, or does not: TestD4Sequence finds none then.    *)
(***************************************************************************)
EXTENDS Integers, Sequences

CONSTANTS
    MaxVars,        \* bound: variables of the response
    MaxNesting,     \* bound: depth of a Sequence
    MaxRead         \* bound: rows read at each level of a variable

ASSUME ResponseAssumption == {MaxVars, MaxNesting, MaxRead} \subseteq Nat

VARIABLES
    todo,       \* what the server does: "choose" the request, "intern", "send",
                \* "done"
    vars4,      \* the depth of each variable
    var,        \* the variable at work
    \* reading
    level,      \* the Sequence that reads, 0 before the outermost one does
    counter,    \* rows that were read at each level
    values,     \* d_values at each level
    loaded,     \* d_values of the variables that were read, and what they
                \* should be
    truth,      \* the rows of the current instance at each level
    \* sending
    sends,      \* what the server writes next
    sendLevel,  \* the Sequence that is being sent, 0 outside of any
    rowsAt,     \* its rows, and those of the Sequences it is in
    toSend,     \* how many of these have not been begun
    digest,     \* the values that the next checksum is of
    \* receiving
    wants,      \* what the client reads next
    getLevel,   \* the Sequence that it reads, 0 outside of any
    toCome,     \* rows at each level that have not been begun
    length,     \* d_length at each level
    cell,       \* the value of the row at each level
    received,   \* d_values at each level
    got         \* the variables that have come, with their checksums

reading == <<level, counter, values, loaded, truth>>
sending == <<sends, sendLevel, rowsAt, toSend, digest>>
receiving == <<wants, getLevel, toCome, length, cell, received, got>>
d4Vars == <<todo, vars4, var, reading, sending, receiving>>

Nesting == 1 .. MaxNesting
Depths == 0 .. MaxNesting
Empty == [l \in Nesting |-> <<>>]
Nothing == [l \in Depths |-> <<>>]
Row(v, c) == [val |-> v, child |-> c]
Scalar == <<Row(1, <<>>)>>

D4Init ==
    /\ todo = "choose" /\ vars4 = <<>> /\ var = 1
    /\ level = 0 /\ counter = [l \in Nesting |-> 0] /\ values = Empty /\ truth = Empty
    /\ loaded = <<>>
    /\ sends = "begin" /\ sendLevel = 0 /\ digest = <<>>
    /\ rowsAt = Empty /\ toSend = [l \in Nesting |-> 0]
    /\ wants = "begin" /\ getLevel = 0 /\ got = <<>> /\ received = Nothing
    /\ toCome = [l \in Nesting |-> 0] /\ length = [l \in Nesting |-> 0]
    /\ cell = [l \in Nesting |-> 0]

-----------------------------------------------------------------------------
(* The server.                                                             *)

\* D4Group::intern_data() may come before D4Group::serialize()
Request(depths, first) ==
    /\ todo = "choose"
    /\ vars4' = depths /\ todo' = first
    /\ UNCHANGED <<var, reading, sending, receiving>>

Depth == vars4[var]
Reads == todo \in {"intern", "send"} /\ Len(loaded) < var

\* read_sequence_values() begins: the outermost Sequence, or a child for a row
ReadScalar ==
    /\ Reads /\ Depth = 0
    /\ loaded' = Append(loaded, [values |-> Scalar, truth |-> Scalar])
    /\ UNCHANGED <<todo, vars4, var, level, counter, values, truth, sending, receiving>>

ReadOutermost ==
    /\ Reads /\ Depth > 0 /\ level = 0
    /\ level' = 1
    /\ counter' = [l \in Nesting |-> 0] /\ values' = Empty /\ truth' = Empty
    /\ UNCHANGED <<todo, vars4, var, loaded, sending, receiving>>

ReadNextInstanceUnfiltered(passes) ==
    /\ Reads /\ level > 0
    /\ counter[level] < MaxRead
    /\ counter' = [counter EXCEPT ![level] = @ + 1]
    /\ IF level < Depth
       THEN /\ level' = level + 1
            /\ truth' = [truth EXCEPT ![level + 1] = <<>>]
            /\ UNCHANGED values
       ELSE /\ values' = [values EXCEPT ![level] = Append(@, Row(counter'[level], <<>>))]
            /\ truth' = IF passes THEN [truth EXCEPT ![level] = Append(@, Row(counter'[level], <<>>))]
                        ELSE truth
            /\ UNCHANGED level
    /\ UNCHANGED <<todo, vars4, var, loaded, sending, receiving>>

\* read_next_instance(): a row that the filter lets pass is kept, with a copy
\* of its child Sequence when that has read its values
ReadNextInstance(passes) ==
    /\ Reads /\ level > 0
    /\ counter[level] < MaxRead
    /\ counter' = [counter EXCEPT ![level] = @ + 1]
    /\ IF ~passes THEN UNCHANGED <<level, values, truth>>
       ELSE IF level < Depth
       THEN /\ level' = level + 1
            /\ truth' = [truth EXCEPT ![level + 1] = <<>>]
            /\ UNCHANGED values
       ELSE /\ values' = [values EXCEPT ![level] = Append(@, Row(counter'[level], <<>>))]
            /\ truth' = [truth EXCEPT ![level] = Append(@, Row(counter'[level], <<>>))]
            /\ UNCHANGED level
    /\ UNCHANGED <<todo, vars4, var, loaded, sending, receiving>>

\* the end of an instance; d_values stays as it is for the next one
EndOfInstance ==
    /\ Reads /\ level > 0
    /\ IF level > 1
       THEN LET parent == level - 1 IN
            /\ values' = [values EXCEPT ![parent] =
                             Append(@, Row(counter[parent], values[level]))]
            /\ truth' = [truth EXCEPT ![parent] = Append(@, Row(counter[parent], truth[level]))]
            /\ UNCHANGED loaded
       ELSE /\ loaded' = Append(loaded, [values |-> values[1], truth |-> truth[1]])
            /\ UNCHANGED <<values, truth>>
    /\ level' = level - 1
    /\ UNCHANGED <<todo, vars4, var, counter, sending, receiving>>

NextVariable == IF var < Len(vars4) THEN var' = var + 1 /\ UNCHANGED todo
         ELSE var' = 1 /\ todo' = (IF todo = "intern" THEN "send" ELSE "done")

Interned ==
    /\ todo = "intern" /\ Len(loaded) = var
    /\ NextVariable
    /\ UNCHANGED <<vars4, reading, sending, receiving>>

-----------------------------------------------------------------------------
(* The client.  The response arrives as it was written, and the client     *)
(* never answers: it may as well take each item at once, and be as far as  *)
(* it gets when the next one is written.                                   *)

Incoming == vars4[Len(got) + 1]

GetCount(n) ==
    /\ getLevel' = getLevel + 1
    /\ toCome' = [toCome EXCEPT ![getLevel'] = n]
    /\ length' = [length EXCEPT ![getLevel'] = n]
    /\ wants' = "value"
    /\ UNCHANGED <<cell, received, got>>

\* one row after the other is added to d_values, a row that has a child
\* Sequence after that
GetValue(x) ==
    /\ IF getLevel = 0 THEN UNCHANGED <<toCome, cell>>
       ELSE toCome' = [toCome EXCEPT ![getLevel] = @ - 1] /\ cell' = [cell EXCEPT ![getLevel] = x]
    /\ received' = IF getLevel < Incoming THEN received
                   ELSE [received EXCEPT ![getLevel] = Append(@, Row(x, <<>>))]
    /\ wants' = IF getLevel < Incoming THEN "count" ELSE IF getLevel = 0 THEN "checksum" ELSE "value"
    /\ UNCHANGED <<getLevel, length, got>>

\* the checksum becomes an attribute of the variable
GetChecksum(c) ==
    /\ got' = Append(got, [values |-> received[IF Incoming = 0 THEN 0 ELSE 1], checksum |-> c])
    /\ received' = Nothing
    /\ wants' = "begin"
    /\ UNCHANGED <<getLevel, toCome, length, cell>>

\* the stream does not say what an item is: one that the client takes for
\* another is misread, and so is what follows
Asks == IF wants = "begin" /\ Len(got) < Len(vars4)
        THEN IF Incoming = 0 THEN "value" ELSE "count"
        ELSE wants
Put(item, x) ==
    IF item # Asks
    THEN wants' = "error" /\ UNCHANGED <<getLevel, toCome, length, cell, received, got>>
    ELSE \/ item = "count" /\ GetCount(x)
         \/ item = "value" /\ GetValue(x)
         \/ item = "checksum" /\ GetChecksum(x)

\* the loop of deserialize() ends; the length of the copy in its parent's row
\* is the count that was read
InstanceEnds == wants = "value" /\ getLevel > 0 /\ toCome[getLevel] = 0
ClientEnds ==
    /\ InstanceEnds
    /\ getLevel' = getLevel - 1
    /\ IF getLevel = 1 THEN wants' = "checksum" /\ UNCHANGED received
       ELSE /\ received' = [received EXCEPT ![getLevel'] =
                  Append(@, Row(cell[getLevel'], SubSeq(received[getLevel], 1, length[getLevel])))]
            /\ UNCHANGED wants
    /\ UNCHANGED <<todo, vars4, var, reading, sending, toCome, length, cell, got>>

-----------------------------------------------------------------------------
(* serialize(): the number of rows, and each with its child.  The checksum *)
(* is of the values, not of the counts.                                    *)

Sends(item) ==
    /\ todo = "send" /\ Len(loaded) >= var /\ ~InstanceEnds
    /\ sends = item
    /\ UNCHANGED <<vars4, reading>>
\* the row that was begun, or the next one
RowAt(k) == LET rows == rowsAt[sendLevel] IN rows[Len(rows) - toSend[sendLevel] + k]

SendScalar ==
    /\ Sends("begin") /\ Depth = 0
    /\ Put("value", loaded[var].values[1].val)
    /\ digest' = <<loaded[var].values[1].val>>
    /\ sends' = "checksum"
    /\ UNCHANGED <<todo, var, sendLevel, rowsAt, toSend>>

SendSequence(rows) ==
    /\ Put("count", Len(rows))
    /\ sendLevel' = sendLevel + 1
    /\ rowsAt' = [rowsAt EXCEPT ![sendLevel'] = rows]
    /\ toSend' = [toSend EXCEPT ![sendLevel'] = Len(rows)]
    /\ sends' = "value"
    /\ UNCHANGED <<todo, var>>

SendNothingOfEmpty ==
    /\ Sends("begin") /\ Depth > 0
    /\ IF loaded[var].values # <<>>
       THEN SendSequence(loaded[var].values) /\ digest' = <<>>
       ELSE NextVariable /\ UNCHANGED <<sending, receiving>>
SendOutermost ==
    /\ Sends("begin") /\ Depth > 0
    /\ SendSequence(loaded[var].values)
    /\ digest' = <<>>

SendChild ==
    /\ Sends("count")
    /\ SendSequence(RowAt(0).child)
    /\ UNCHANGED digest

SendValue ==
    /\ Sends("value") /\ toSend[sendLevel] > 0
    /\ toSend' = [toSend EXCEPT ![sendLevel] = @ - 1]
    /\ Put("value", RowAt(1).val)
    /\ digest' = Append(digest, RowAt(1).val)
    /\ sends' = IF sendLevel < Depth THEN "count" ELSE "value"
    /\ UNCHANGED <<todo, var, sendLevel, rowsAt>>

SequenceSent ==
    /\ Sends("value") /\ toSend[sendLevel] = 0
    /\ sendLevel' = sendLevel - 1
    /\ sends' = IF sendLevel = 1 THEN "checksum" ELSE "value"
    /\ UNCHANGED <<todo, var, rowsAt, toSend, digest, receiving>>

SendChecksum ==
    /\ Sends("checksum")
    /\ Put("checksum", digest)
    /\ sends' = "begin"
    /\ NextVariable
    /\ UNCHANGED <<sendLevel, rowsAt, toSend, digest>>

D4Next ==
    \/ \E n \in 1 .. MaxVars : \E depths \in [1 .. n -> 0 .. MaxNesting] :
          \E first \in {"intern", "send"} : Request(depths, first)
    \/ ReadScalar \/ ReadOutermost
    \/ \E passes \in BOOLEAN : ReadNextInstance(passes)
    \/ EndOfInstance \/ Interned
    \/ SendScalar \/ SendOutermost \/ SendChild \/ SendValue \/ SequenceSent \/ SendChecksum
    \/ ClientEnds

D4Spec == D4Init /\ [][D4Next]_d4Vars

-----------------------------------------------------------------------------
(* Properties.                                                             *)

\* A parent has one row at most, so that no child Sequence is read twice.
ReadOnce(rows) == Len(rows) <= 1

\* The client takes from the stream just what the server wrote, variable by
\* variable: each count, value and checksum is where it looks for one, whatever
\* the nesting and the filter, and nothing is left when the server is done.
InStep == /\ wants # "error"
          /\ todo = "done" => wants = "begin" /\ Len(got) = Len(vars4)

\* The client gets all and only the rows that the filter lets pass, interned or
\* not, and with each variable the checksum of what it got; a Sequence in a
\* Sequence excepted, when the outer one has several rows (D4Sequence.cc:373-384).
AllAndOnlyOnce ==
    \A v \in DOMAIN got :
        /\ vars4[v] <= 1 \/ (ReadOnce(loaded[v].truth) /\ vars4[v] = 2)
              => got[v].values = loaded[v].truth
        /\ vars4[v] <= 1 => got[v].checksum = [k \in DOMAIN got[v].values |-> got[v].values[k].val]

\* "the d_values object holds all and only the values to be sent"
\* (D4Sequence.cc:380).
AllAndOnly == \A v \in DOMAIN loaded : loaded[v].values = loaded[v].truth
====
