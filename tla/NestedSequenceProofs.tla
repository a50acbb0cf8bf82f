---- MODULE NestedSequenceProofs ----
(***************************************************************************)
(* Proofs about NestedSequence, for any number of levels and rows and any  *)
(* ranges, as long as no Sequence within another has a range of rows.      *)
(*                                                                         *)
(* NeverBehind.  The row that read_row() is asked for is ahead of the one   *)
(* that was read last: a level that has ended, or has not begun, has its    *)
(* row number reset; a level that waits for its child has been told the     *)
(* next row; and a row that read_row() finds is the one it was asked for.   *)
(*                                                                         *)
(* RowsAlwaysArrive, InternAlwaysAgrees.  The parents that have not sent    *)
(* the row they are at are always the innermost ones, from the level that   *)
(* the stack of vectors has reached; each vector on the stack is that of    *)
(* the rows its parents are at; d_wrote_soi and orig_stack_size tell, at    *)
(* the end of an instance, whether it has a vector on the stack.  So the    *)
(* end markers close just the vectors that were opened, the client's place  *)
(* in the response is the sender's place in the stack, and what both hold   *)
(* is what was chosen.                                                      *)
(*                                                                         *)
(* The rows of the leaf are those of all vectors one after the other,      *)
(* which FlattenSeq gives; what it does to one more vector is proved by    *)
(* induction, from the least number that would be an exception.            *)
(***************************************************************************)
EXTENDS NestedSequence, SequenceTheorems, WellFoundedInduction, TLAPS

RangeSet == [start : Int, stride : Nat \ {0}, stop : Int]

Typed ==
    /\ depth \in Levels /\ lev \in 1 .. depth
    /\ range \in [Levels -> RangeSet]
    /\ i \in [Levels -> Int] /\ row \in [Levels -> Int]
    /\ status \in BOOLEAN
    /\ \A l \in Levels : range[l].start = NoRow \/ range[l].start >= 0

\* The row numbers at the step that comes next.
RowsAhead ==
    /\ \A k \in Levels : k > lev \/ (step \in {"idle", "enter"} /\ k >= lev) => row[k] = NoRow
    /\ step # "idle" => \A k \in 1 .. lev - 1 : row[k] < i[k]
    /\ step = "read" => row[lev] < i[lev]
    /\ step = "test" /\ status => row[lev] = i[lev]
    /\ step = "test" /\ ~status => row[lev] = NoRow
    /\ step \in {"idle", "enter", "read", "test", "done"}

SInv == /\ Typed
        /\ step = "idle" => lev = 1 /\ \A k \in Levels : row[k] = NoRow
        /\ RangesOutside => RowsAhead

\* A child Sequence without a range ends only at the end of its instance.
LEMMA NoEndInside ==
    ASSUME Typed, RangesOutside, lev # 1
    PROVE  /\ range[lev].start = NoRow /\ range[lev].stride = 1 /\ ~IsEndOfRows(lev)
           /\ range[lev] = NoRange
<1>1. lev \in 2 .. depth
    BY DepthAssumption DEF Typed, Levels
<1> QED  BY <1>1 DEF RangesOutside, NoRange, IsEndOfRows

\* The level that runs is one of the levels up to the leaf.
LEMMA AtLevel ==
    ASSUME Typed
    PROVE  /\ lev \in Levels /\ lev \in Int /\ depth \in Levels /\ depth \in Int
           /\ i[lev] \in Int /\ row[lev] \in Int /\ 1 <= lev /\ lev <= depth
<1>1. lev \in Levels /\ lev \in Int /\ depth \in Int /\ 1 <= lev /\ lev <= depth
    BY DepthAssumption DEF Typed, Levels
<1> QED  BY <1>1 DEF Typed

\* The row numbers are reset at first.
LEMMA InitSInv == SeqInit => SInv
<1> SUFFICES ASSUME SeqInit PROVE SInv
    OBVIOUS
<1>1. NoRange \in RangeSet /\ NoRange.start = NoRow
    BY DEF NoRange, RangeSet, NoRow
<1>2. Typed
    <2>1. depth = 1 /\ lev = 1 /\ 1 \in Levels /\ status = FALSE
        BY DepthAssumption DEF SeqInit, Levels
    <2>2. /\ range = [l \in Levels |-> NoRange] /\ i = [l \in Levels |-> 0]
          /\ row = [l \in Levels |-> NoRow] /\ NoRow \in Int
        BY DEF SeqInit, All, NoRow
    <2> HIDE DEF NoRow
    <2>3. lev \in 1 .. depth /\ range \in [Levels -> RangeSet]
        BY <1>1, <2>1, <2>2
    <2>4. i \in [Levels -> Int] /\ row \in [Levels -> Int]
        BY <2>2
    <2> QED  BY <1>1, <2>1, <2>2, <2>3, <2>4 DEF Typed
<1>3. RowsAhead
    BY DepthAssumption DEF SeqInit, RowsAhead, Levels, All
<1> QED  BY <1>2, <1>3 DEF SInv, SeqInit, All

\* A range that may be asked for.
LEMMA RangesTyped ==
    ASSUME NEW d \in Levels, NEW l \in Levels, NEW r \in Ranges(d, l)
    PROVE  r \in RangeSet /\ (r.start = NoRow \/ r.start >= 0)
<1>1. NoRange \in RangeSet /\ NoRange.start = NoRow
    BY DEF NoRange, RangeSet, NoRow
<1>2. \A q \in Range_(Starts, Strides, Stops) \cup Range_({0}, {1}, Stops) :
         q \in RangeSet /\ q.start >= 0
    <2>1. \A S, T, U : S \subseteq Nat /\ T \subseteq Nat \ {0} /\ U \subseteq Nat =>
             \A q \in Range_(S, T, U) : q \in RangeSet /\ q.start >= 0
        <3> SUFFICES ASSUME NEW S, NEW T, NEW U, NEW q \in Range_(S, T, U), S \subseteq Nat,
                            T \subseteq Nat \ {0}, U \subseteq Nat
                     PROVE  q \in RangeSet /\ q.start >= 0
            OBVIOUS
        <3>1. /\ q = [start |-> q.start, stride |-> q.stride, stop |-> q.stop]
              /\ q.start \in S /\ q.stride \in T /\ q.stop \in U
            BY DEF Range_
        <3>2. q.start \in Int /\ q.start >= 0 /\ q.stride \in Nat \ {0} /\ q.stop \in Int
            BY <3>1
        <3> QED  BY <3>1, <3>2 DEF RangeSet
    <2>2. {0} \subseteq Nat /\ {1} \subseteq Nat \ {0}
        OBVIOUS
    <2> QED  BY <2>1, <2>2, RangesAssumption
<1>3. r = NoRange \/ r \in Range_(Starts, Strides, Stops) \cup Range_({0}, {1}, Stops)
    BY DEF Ranges
<1> QED  BY <1>1, <1>2, <1>3

\* The constraint is set while all row numbers are reset.
LEMMA ConstrainKeeps ==
    ASSUME SInv, NEW d \in Levels, NEW r \in [Levels -> AnyRange],
           Constrain(d, r)
    PROVE  SInv'
<1>1. \A l \in Levels : r[l] \in RangeSet /\ (r[l].start = NoRow \/ r[l].start >= 0)
    <2>1. \A l \in Levels : r[l] \in Ranges(d, l)
        BY DEF Constrain, Ranges
    <2> QED  BY <2>1, RangesTyped
<1>2. UNCHANGED <<lev, i, row, status>> /\ range' = r /\ depth' = d /\ step' = "enter" /\ lev = 1
    BY DEF Constrain, flags, SInv
<1>3. Typed'
    <2>1. lev' \in 1 .. depth'
        BY <1>2 DEF Levels
    <2>2. range' \in [Levels -> RangeSet]
        BY <1>1, <1>2
    <2> QED  BY <1>1, <1>2, <2>1, <2>2 DEF SInv, Typed
<1>4. RowsAhead'
    BY <1>2 DEF SInv, Constrain, RowsAhead, Levels
<1> QED  BY <1>2, <1>3, <1>4 DEF SInv

\* read_row() is at the row that was asked for, or has to go on to it.
LEMMA NotAheadKeeps ==
    ASSUME SInv, NotAhead
    PROVE  SInv'
<1>1. UNCHANGED <<lev, depth, range, i, row>> /\ status' = FALSE /\ step' # "idle"
    BY DEF NotAhead, flags
<1>2. Typed'
    BY <1>1 DEF SInv, Typed
<1>3. i[lev] \in Int /\ row[lev] \in Int
    BY AtLevel DEF SInv
<1>4. ~RangesOutside
    BY <1>3 DEF SInv, RowsAhead, NotAhead
<1>5. ~RangesOutside'
    BY <1>1, <1>4 DEF RangesOutside
<1> QED  BY <1>1, <1>2, <1>5 DEF SInv

\* A round of read_row() reaches the row asked for, resets the row number at the
\* end of the instance, or goes on.
LEMMA ReadRowKeeps ==
    ASSUME SInv, NEW selected \in BOOLEAN, ReadRow(selected)
    PROVE  SInv'
<1>1. PICK m \in (IF read[lev] THEN {depth} ELSE {k \in lev - 1 .. depth : CanDeliver(lev, k)}) :
        /\ row' = [k \in Levels |-> IF k \in EndsAt(m) THEN NoRow
                                    ELSE IF k = lev /\ selected THEN row[k] + 1 ELSE row[k]]
        /\ LET ends == m < lev \/ row'[lev] = i[lev] IN
            /\ status' = (ends /\ ~(m < lev))
            /\ step' = IF ends THEN "test" ELSE "read"
    BY DEF ReadRow
<1>2. UNCHANGED <<lev, depth, range, i>> /\ step = "read" /\ row[lev] < i[lev]
    BY DEF ReadRow
<1>3. /\ lev \in Levels /\ depth \in Levels /\ m \in lev - 1 .. depth
      /\ i[lev] \in Int /\ row[lev] \in Int /\ lev \in Int
    BY <1>1, DepthAssumption DEF SInv, Typed, Levels
<1>4. row' \in [Levels -> Int]
    BY <1>1 DEF SInv, Typed, NoRow
<1>5. Typed'
    <2>1. status' \in BOOLEAN
        BY <1>1
    <2> QED  BY <1>2, <1>4, <2>1 DEF SInv, Typed
<1>6. m < lev => EndsAt(m) = {lev}
    <2> SUFFICES ASSUME m < lev PROVE EndsAt(m) = {lev}
        OBVIOUS
    <2>1. m = lev - 1 /\ ~read[lev] /\ m < depth /\ m + 1 = lev
        BY <1>1, <1>3 DEF SInv, Typed
    <2> QED  BY <2>1 DEF EndsAt
<1>7. m >= lev => EndsAt(m) \subseteq {m + 1} /\ lev \notin EndsAt(m)
    BY <1>3 DEF EndsAt
<1>8. ASSUME RangesOutside PROVE RowsAhead'
    <2>1. RowsAhead
        BY <1>8 DEF SInv
    <2>2. \A k \in Levels : k > lev => row'[k] = NoRow
        <3> SUFFICES ASSUME NEW k \in Levels, k > lev PROVE row'[k] = NoRow
            OBVIOUS
        <3>1. row[k] = NoRow /\ k # lev
            BY <1>3, <2>1 DEF RowsAhead, Levels
        <3> QED  BY <1>1, <3>1
    <2>3. \A k \in 1 .. lev - 1 : row'[k] < i[k]
        <3> SUFFICES ASSUME NEW k \in 1 .. lev - 1 PROVE row'[k] < i[k]
            OBVIOUS
        <3>1. k \in Levels /\ k < lev /\ row[k] < i[k]
            BY <1>2, <1>3, <2>1, DepthAssumption DEF RowsAhead, Levels
        <3>2. k \notin EndsAt(m)
            BY <1>3, <1>6, <1>7, <3>1
        <3> QED  BY <1>1, <1>3, <3>1, <3>2
    <2>4. CASE m < lev
        BY <1>1, <1>2, <1>3, <1>6, <2>2, <2>3, <2>4 DEF RowsAhead
    <2>5. CASE m >= lev
        <3>1. row'[lev] = IF selected THEN row[lev] + 1 ELSE row[lev]
            BY <1>1, <1>3, <1>7, <2>5
        <3>2. row'[lev] <= i[lev] /\ row'[lev] \in Int
            BY <1>2, <1>3, <3>1
        <3>3. step' = IF row'[lev] = i[lev] THEN "test" ELSE "read"
            BY <1>1, <1>3, <2>5
        <3>4. status' <=> row'[lev] = i[lev]
            <4>1. ~(m < lev)
                BY <1>3, <2>5
            <4> QED  BY <1>1, <4>1, Zenon
        <3>5. CASE row'[lev] = i[lev]
            BY <1>2, <2>2, <2>3, <3>3, <3>4, <3>5 DEF RowsAhead
        <3>6. CASE row'[lev] < i[lev]
            BY <1>2, <1>3, <2>2, <2>3, <3>2, <3>3, <3>6 DEF RowsAhead
        <3> QED  BY <1>3, <3>2, <3>5, <3>6
    <2> QED  BY <1>3, <2>4, <2>5
<1>9. RangesOutside' = RangesOutside /\ step' # "idle"
    BY <1>1, <1>2 DEF RangesOutside
<1> QED  BY <1>5, <1>8, <1>9 DEF SInv

\* A row number moves forward by at least one when its row has been used.
LEMMA NextRow ==
    ASSUME Typed, i' = [i EXCEPT ![lev] = @ + range[lev].stride]
    PROVE  /\ i' \in [Levels -> Int] /\ i'[lev] > i[lev]
           /\ \A k \in Levels : k # lev => i'[k] = i[k]
<1>1. lev \in Levels /\ i[lev] \in Int /\ range[lev].stride \in Nat \ {0}
    BY AtLevel DEF Typed, RangeSet
<1> QED  BY <1>1 DEF Typed

\* serialize() of a level begins at its first row, with the row number reset.
LEMMA EnterKeeps ==
    ASSUME SInv, Enter
    PROVE  SInv'
<1> DEFINE n == IF range[lev].start = NoRow THEN 0 ELSE range[lev].start
<1>1. UNCHANGED <<lev, depth, range, row, status>> /\ step = "enter" /\ step' = "read"
      /\ i' = [i EXCEPT ![lev] = n]
    BY DEF Enter, flags
<1>2. /\ lev \in Levels /\ lev \in Int /\ n \in Int /\ n >= 0
    BY AtLevel DEF SInv, Typed, RangeSet
<1> HIDE DEF n
<1>3. i' \in [Levels -> Int] /\ i'[lev] = n /\ \A k \in Levels : k # lev => i'[k] = i[k]
    BY <1>1, <1>2 DEF SInv, Typed
<1>4. Typed'
    BY <1>1, <1>3 DEF SInv, Typed
<1>5. ASSUME RowsAhead PROVE RowsAhead'
    <2>1. row[lev] = NoRow
        BY <1>1, <1>2, <1>5 DEF RowsAhead
    <2>2. row[lev] < i'[lev]
        BY <1>2, <1>3, <2>1 DEF NoRow
    <2>3. \A k \in 1 .. lev - 1 : k \in Levels /\ k # lev
        BY <1>2, DepthAssumption DEF Levels
    <2> QED  BY <1>1, <1>3, <1>5, <2>2, <2>3 DEF RowsAhead
<1>6. RangesOutside' = RangesOutside
    BY <1>1 DEF RangesOutside
<1> QED  BY <1>1, <1>4, <1>5, <1>6 DEF SInv

\* Sending the parents' rows, or beginning the leaf, moves no row number.
LEMMA LeafBeginsKeeps ==
    ASSUME SInv, LeafBegins \/ \E l \in Levels : SendParent(l)
    PROVE  SInv'
<1>1. UNCHANGED <<step, lev, depth, range, row, status, i>> /\ step = "test"
    BY DEF LeafBegins, SendParent, MaySendParent
<1>2. Typed'
    BY <1>1 DEF SInv, Typed
<1> QED  BY <1>1, <1>2 DEF SInv, RowsAhead, RangesOutside

\* A row of the leaf is sent, and the next one is asked for.
LEMMA LeafRowKeeps ==
    ASSUME SInv, LeafRow
    PROVE  SInv'
<1>1. /\ UNCHANGED <<lev, depth, range, row, status>> /\ step = "test" /\ step' = "read" /\ status
      /\ i' = [i EXCEPT ![lev] = @ + range[lev].stride]
    BY DEF LeafRow, Continues
<1>2. Typed'
    BY <1>1, NextRow DEF SInv, Typed
<1>3. ASSUME RowsAhead PROVE RowsAhead'
    <2>1. row[lev] < i'[lev]
        BY <1>1, <1>3, NextRow DEF SInv, RowsAhead
    <2>2. \A k \in 1 .. lev - 1 : i'[k] = i[k]
        BY <1>1, NextRow, AtLevel, DepthAssumption DEF SInv, Levels
    <2> QED  BY <1>1, <1>3, <2>1, <2>2 DEF RowsAhead
<1>4. RangesOutside' = RangesOutside
    BY <1>1 DEF RangesOutside
<1> QED  BY <1>1, <1>2, <1>3, <1>4 DEF SInv

\* The child begins, with its row number reset.
LEMMA ParentRowKeeps ==
    ASSUME SInv, ParentRow
    PROVE  SInv'
<1>1. /\ UNCHANGED <<depth, range, row, status>> /\ step = "test" /\ step' = "enter" /\ status
      /\ i' = [i EXCEPT ![lev] = @ + range[lev].stride]
      /\ lev' = lev + 1 /\ lev < depth
    BY DEF ParentRow, Continues, flags
<1>2. lev \in Levels /\ lev \in Int /\ depth \in Int /\ 1 <= lev
      /\ row[lev] \in Int /\ i[lev] \in Int
    BY AtLevel DEF SInv
<1>3. Typed'
    <2>1. lev' \in 1 .. depth
        BY <1>1, <1>2
    <2> QED  BY <1>1, <2>1, NextRow DEF SInv, Typed
<1>4. ASSUME RowsAhead PROVE RowsAhead'
    <2>1. row[lev] < i'[lev] /\ i'[lev] \in Int
        BY <1>1, <1>2, <1>3, <1>4, NextRow DEF SInv, RowsAhead, Typed
    <2>2. \A k \in 1 .. lev - 1 : row[k] < i'[k]
        <3>1. \A k \in 1 .. lev - 1 : k \in Levels /\ k # lev
            BY <1>2, DepthAssumption DEF Levels
        <3> QED  BY <1>1, <1>4, <3>1, NextRow DEF SInv, RowsAhead
    <2>3. \A k \in 1 .. lev' - 1 : row[k] < i'[k]
        BY <1>1, <1>2, <2>1, <2>2
    <2>4. \A k \in Levels : k >= lev' => row[k] = NoRow
        BY <1>1, <1>2, <1>4 DEF RowsAhead, Levels
    <2>5. \A k \in Levels : k > lev' => row[k] = NoRow
        BY <1>1, <1>2, <2>4 DEF Levels
    <2> QED  BY <1>1, <2>3, <2>4, <2>5 DEF RowsAhead
<1>5. RangesOutside' = RangesOutside
    BY <1>1 DEF RangesOutside
<1> QED  BY <1>1, <1>3, <1>4, <1>5 DEF SInv

\* A child that ends has its row number reset, by read_row() or by itself, so
\* that its parent, or nobody, goes on.
LEMMA EndKeeps ==
    ASSUME SInv, LeafEnds \/ ParentEnds
    PROVE  SInv'
<1>1. /\ UNCHANGED <<depth, range, i, status>> /\ step = "test"
      /\ row' = row \/ row' = [row EXCEPT ![lev] = NoRow]
      /\ ~status \/ IsEndOfRows(lev)
    BY DEF LeafEnds, ParentEnds, Continues
<1>2. \/ lev = 1 /\ step' = "done" /\ lev' = lev
      \/ lev # 1 /\ step' = "read" /\ lev' = lev - 1
    BY DEF LeafEnds, ParentEnds, Return
<1>3. lev \in Levels /\ lev \in Int /\ depth \in Int /\ 1 <= lev /\ lev <= depth
    BY AtLevel DEF SInv
<1>4. /\ row' \in [Levels -> Int] /\ \A k \in Levels : k # lev => row'[k] = row[k]
      /\ row[lev] = NoRow => row'[lev] = NoRow
    BY <1>1, <1>3 DEF SInv, Typed, NoRow
<1>5. Typed'
    <2>1. lev' \in 1 .. depth
        BY <1>2, <1>3
    <2> QED  BY <1>1, <1>4, <2>1 DEF SInv, Typed
<1>6. ASSUME RangesOutside PROVE RowsAhead'
    <2>1. RowsAhead
        BY <1>6 DEF SInv
    <2>2. \A k \in Levels : k > lev => row'[k] = NoRow
        BY <1>3, <1>4, <2>1 DEF RowsAhead, Levels
    <2>3. \A k \in 1 .. lev - 1 : row'[k] < i'[k]
        <3>1. \A k \in 1 .. lev - 1 : k \in Levels /\ k # lev
            BY <1>3, DepthAssumption DEF Levels
        <3> QED  BY <1>1, <1>4, <2>1, <3>1 DEF RowsAhead
    <2>4. CASE lev = 1
        BY <1>2, <2>2, <2>3, <2>4 DEF RowsAhead
    <2>5. CASE lev # 1
        <3>1. ~status
            BY <1>1, <1>6, <2>5, NoEndInside DEF SInv
        <3>2. row'[lev] = NoRow
            BY <1>1, <1>4, <2>1, <3>1 DEF RowsAhead
        <3>3. \A k \in Levels : k > lev' => row'[k] = NoRow
            BY <1>2, <1>3, <2>2, <2>5, <3>2 DEF Levels
        <3>4. lev' \in 1 .. lev - 1 /\ row'[lev'] < i'[lev']
            BY <1>2, <1>3, <2>3, <2>5
        <3>5. \A k \in 1 .. lev' - 1 : row'[k] < i'[k]
            BY <1>2, <1>3, <2>3, <2>5
        <3> QED  BY <1>2, <2>5, <3>3, <3>4, <3>5 DEF RowsAhead
    <2> QED  BY <2>4, <2>5
<1>7. RangesOutside' = RangesOutside
    BY <1>1 DEF RangesOutside
<1> QED  BY <1>2, <1>5, <1>6, <1>7 DEF SInv

\* Every step keeps the row numbers in order.
LEMMA NextSInv == SInv /\ [SeqNext]_seqVars => SInv'
<1> SUFFICES ASSUME SInv, [SeqNext]_seqVars PROVE SInv'
    OBVIOUS
<1>1. ASSUME NEW d \in Levels, NEW r \in [Levels -> AnyRange],
             Constrain(d, r)
      PROVE  SInv'
    BY <1>1, ConstrainKeeps
<1>2. CASE Enter
    BY <1>2, EnterKeeps
<1>3. CASE NotAhead
    BY <1>3, NotAheadKeeps
<1>4. ASSUME NEW selected \in BOOLEAN, ReadRow(selected) PROVE SInv'
    BY <1>4, ReadRowKeeps
<1>5. CASE LeafBegins \/ \E l \in Levels : SendParent(l)
    BY <1>5, LeafBeginsKeeps
<1>6. CASE LeafRow
    BY <1>6, LeafRowKeeps
<1>7. CASE LeafEnds \/ ParentEnds
    BY <1>7, EndKeeps
<1>8. CASE ParentRow
    BY <1>8, ParentRowKeeps
<1>9. CASE UNCHANGED seqVars
    <2>1. UNCHANGED <<step, lev, depth, range, i, status, row>>
        BY <1>9 DEF seqVars, flags
    <2>2. Typed' /\ RangesOutside' = RangesOutside /\ (RowsAhead => RowsAhead')
        BY <2>1 DEF SInv, Typed, RangesOutside, RowsAhead
    <2> QED  BY <2>1, <2>2 DEF SInv
<1> QED
    BY <1>1, <1>2, <1>3, <1>4, <1>5, <1>6, <1>7, <1>8, <1>9 DEF SeqNext

\* The invariant: where each level is in its instance, and what it asks for.
THEOREM Invariance == SeqSpec => []SInv
<1> QED  BY InitSInv, NextSInv, PTL DEF SeqSpec

\* For any depth, any numbers of rows and any range of an outermost Sequence,
\* read_row() never meets a row number that is too large, which it reports as
\* an internal error (Sequence.cc:502-505).
THEOREM NeverBehind == SeqSpec => []BacksUpOnlyInside
<1>1. SInv => BacksUpOnlyInside
    BY DEF SInv, RowsAhead, BacksUpOnlyInside
<1> QED  BY <1>1, Invariance, PTL

-----------------------------------------------------------------------------
(* Induction, and the rows of all vectors one after the other.             *)

\* Induction over the numbers: a set that has 0 and, with a number, the next.
LEMMA SetInduction ==
    ASSUME NEW S, 0 \in S, \A n \in Nat : n \in S => n + 1 \in S
    PROVE  Nat \subseteq S
<1> DEFINE R == OpToRel(<, Nat)
           T == Nat \ S
<1> SUFFICES ASSUME T # {} PROVE FALSE
    OBVIOUS
<1>1. IsWellFoundedOn(R, Nat)
    BY NatLessThanWellFounded
<1>2. T \subseteq Nat
    OBVIOUS
<1> HIDE DEF R, T
<1>3. PICK x \in T : \A y \in T : ~ (<<y, x>> \in R)
    BY <1>1, <1>2, WFMin
<1>4. x \in Nat /\ x # 0 /\ x - 1 \in Nat
    BY <1>3 DEF T
<1>5. x - 1 \in T
    BY <1>3, <1>4 DEF T
<1>6. <<x - 1, x>> \in R
    BY <1>4 DEF R, OpToRel
<1> QED  BY <1>3, <1>5, <1>6

\* No sequences, no elements.
LEMMA FlattenEmpty == FlattenSeq(<<>>) = <<>>
BY DEF FlattenSeq

Flattens(s, n, f) ==
    f = [k \in 1 .. n |-> IF k = 1 THEN s[k] ELSE f[k - 1] \o s[k]]

\* There are the prefixes of all parts, whatever their number.
LEMMA FlattensExists ==
    ASSUME NEW s, NEW n \in Nat
    PROVE  \E f : Flattens(s, n, f)
<1> DEFINE S == {k \in Nat : \E f : Flattens(s, k, f)}
<1>1. 0 \in S
    <2>1. Flattens(s, 0, [k \in 1 .. 0 |-> k])
        BY DEF Flattens
    <2> QED  BY <2>1
<1>2. \A k \in Nat : k \in S => k + 1 \in S
    <2> SUFFICES ASSUME NEW k \in Nat, k \in S PROVE k + 1 \in S
        OBVIOUS
    <2>1. PICK f : Flattens(s, k, f)
        OBVIOUS
    <2> DEFINE g == [j \in 1 .. k + 1 |-> IF j = k + 1
                         THEN IF j = 1 THEN s[j] ELSE f[k] \o s[j]
                         ELSE f[j]]
    <2>2. Flattens(s, k + 1, g)
        <3>0. g[k + 1] = (IF k + 1 = 1 THEN s[k + 1] ELSE f[k] \o s[k + 1])
            OBVIOUS
        <3>1. \A j \in 1 .. k : f[j] = IF j = 1 THEN s[j] ELSE f[j - 1] \o s[j]
            BY <2>1, Zenon DEF Flattens
        <3>2. \A j \in 1 .. k + 1 : g[j] = IF j = 1 THEN s[j] ELSE g[j - 1] \o s[j]
            <4> SUFFICES ASSUME NEW j \in 1 .. k + 1
                         PROVE g[j] = IF j = 1 THEN s[j] ELSE g[j - 1] \o s[j]
                OBVIOUS
            <4>1. CASE j = 1
                BY <4>1, <3>1
            <4>2. CASE j # 1
                <5>1. j - 1 \in 1 .. k + 1 /\ j - 1 # k + 1 /\ j - 1 \in 1 .. k
                    BY <4>2
                <5>2. g[j - 1] = f[j - 1]
                    BY <5>1
                <5>3. CASE j = k + 1
                    <6> HIDE DEF g
                    <6>0. k = j - 1 /\ k + 1 = j
                        BY <5>3
                    <6>1. g[j] = f[k] \o s[j]
                        BY <3>0, <6>0, <4>2, Zenon
                    <6> QED  BY <6>0, <6>1, <5>2, <4>2, Zenon
                <5>4. CASE j # k + 1
                    <6>1. j \in 1 .. k /\ g[j] = f[j]
                        BY <5>4
                    <6> HIDE DEF g
                    <6> QED  BY <6>1, <5>2, <3>1, <4>2
                <5> QED  BY <5>3, <5>4
            <4> QED  BY <4>1, <4>2
        <3>3. g = [j \in 1 .. k + 1 |-> g[j]]
            OBVIOUS
        <3> HIDE DEF g
        <3> QED  BY <3>2, <3>3, Zenon DEF Flattens
    <2> QED  BY <2>2
<1> HIDE DEF S
<1>3. n \in S
    BY <1>1, <1>2, SetInduction
<1> QED  BY <1>3 DEF S

\* They depend on the parts up to there only.
LEMMA FlattensAgree ==
    ASSUME NEW s, NEW t, NEW m \in Nat, NEW n \in Nat, m <= n, NEW f, NEW g,
           Flattens(s, m, f), Flattens(t, n, g), \A k \in 1 .. m : s[k] = t[k]
    PROVE  \A k \in 1 .. m : f[k] = g[k]
<1> DEFINE S == {k \in Nat : k \in 1 .. m => f[k] = g[k]}
<1>1. 0 \in S
    OBVIOUS
<1>2. \A k \in Nat : k \in S => k + 1 \in S
    <2> SUFFICES ASSUME NEW k \in Nat, k \in S, k + 1 \in 1 .. m PROVE f[k + 1] = g[k + 1]
        OBVIOUS
    <2> DEFINE j == k + 1
    <2>1. j \in 1 .. m /\ j \in 1 .. n
        OBVIOUS
    <2>2. f[j] = IF j = 1 THEN s[j] ELSE f[j - 1] \o s[j]
        BY <2>1, Zenon DEF Flattens
    <2>3. g[j] = IF j = 1 THEN t[j] ELSE g[j - 1] \o t[j]
        BY <2>1, Zenon DEF Flattens
    <2>4. j # 1 => f[j - 1] = g[j - 1]
        OBVIOUS
    <2> HIDE DEF j
    <2>5. f[j] = g[j]
        BY <2>1, <2>2, <2>3, <2>4
    <2> QED  BY <2>5 DEF j
<1> HIDE DEF S
<1>3. \A k \in Nat : k \in S
    BY <1>1, <1>2, SetInduction
<1> QED  BY <1>3 DEF S

\* FlattenSeq is the last of these prefixes.
LEMMA FlattenIs ==
    ASSUME NEW s, NEW n \in Nat \ {0}, Len(s) = n
    PROVE  \E f : Flattens(s, n, f) /\ FlattenSeq(s) = f[n]
<1> DEFINE f == CHOOSE f_1 : Flattens(s, n, f_1)
<1>1. Flattens(s, n, f)
    BY FlattensExists
<1>2. FlattenSeq(s) = f[n]
    BY DEF FlattenSeq, Flattens
<1> QED  BY <1>1, <1>2

\* One more part comes at the end.
LEMMA FlattenAppend ==
    ASSUME NEW V, NEW s \in Seq(Seq(V)), NEW x \in Seq(V)
    PROVE  FlattenSeq(Append(s, x)) = FlattenSeq(s) \o x
<1> DEFINE t == Append(s, x)
           n == Len(s)
<1>1. n \in Nat /\ Len(t) = n + 1 /\ (\A k \in 1 .. n : s[k] = t[k]) /\ t[n + 1] = x
    OBVIOUS
<1> HIDE DEF t, n
<1>2. PICK g : Flattens(t, n + 1, g) /\ FlattenSeq(t) = g[n + 1]
    BY <1>1, FlattenIs
<1>3. g[n + 1] = IF n = 0 THEN x ELSE g[n] \o x
    <2> DEFINE m == n + 1
    <2>1. m \in 1 .. m /\ Flattens(t, m, g) /\ m - 1 = n /\ (m = 1 <=> n = 0) /\ t[m] = x
        BY <1>1, <1>2
    <2> HIDE DEF m
    <2>2. g[m] = IF m = 1 THEN t[m] ELSE g[m - 1] \o t[m]
        BY <2>1, Zenon DEF Flattens
    <2>3. g[m] = IF n = 0 THEN x ELSE g[n] \o x
        BY <2>1, <2>2
    <2> QED  BY <2>3 DEF m
<1>4. CASE n = 0
    <2>1. s = <<>>
        BY <1>4 DEF n
    <2>2. FlattenSeq(s) = <<>>
        BY <2>1, FlattenEmpty
    <2> QED  BY <1>1, <1>2, <1>3, <1>4, <2>2 DEF t
<1>5. CASE n # 0
    <2>1. PICK f : Flattens(s, n, f) /\ FlattenSeq(s) = f[n]
        BY <1>1, <1>5, FlattenIs DEF n
    <2>2. f[n] = g[n]
        BY <1>1, <1>2, <1>5, <2>1, FlattensAgree
    <2>3. n + 1 - 1 = n /\ n + 1 # 1
        BY <1>1, <1>5
    <2> QED  BY <1>1, <1>2, <1>3, <2>1, <2>2, <2>3 DEF t
<1> QED  BY <1>4, <1>5

-----------------------------------------------------------------------------
(* The vectors of rows.                                                    *)

Vector == [of : Seq(Nat), rows : Seq(Nat)]

\* A row more, as a record.
LEMMA RowGrows ==
    ASSUME NEW r \in Vector, NEW x
    PROVE  [r EXCEPT !.rows = Append(@, x)] = [of |-> r.of, rows |-> Append(r.rows, x)]
<1> DEFINE q == Append(r.rows, x)
<1>1. r = [of |-> r.of, rows |-> r.rows]
    BY DEF Vector
<1>2. [r EXCEPT !.rows = q] = [of |-> r.of, rows |-> q]
    <2> HIDE DEF q
    <2> QED  BY <1>1
<1> QED  BY <1>2

\* A row more for one vector leaves the others, and its parents' rows.
LEMMA RowAddedShape ==
    ASSUME NEW vs \in Seq(Vector), NEW v \in 1 .. Len(vs), NEW x \in Nat
    PROVE  /\ RowAdded(vs, v, x) \in Seq(Vector) /\ Len(RowAdded(vs, v, x)) = Len(vs)
           /\ \A k \in 1 .. Len(vs) : RowAdded(vs, v, x)[k].of = vs[k].of
           /\ \A k \in 1 .. Len(vs) : k # v => RowAdded(vs, v, x)[k] = vs[k]
           /\ RowAdded(vs, v, x)[v].rows = Append(vs[v].rows, x)
<1> DEFINE w == [vs[v] EXCEPT !.rows = Append(@, x)]
<1>1. vs[v] \in Vector
    OBVIOUS
<1>2. w \in Vector /\ w.of = vs[v].of /\ w.rows = Append(vs[v].rows, x)
    <2>1. /\ vs[v] = [of |-> vs[v].of, rows |-> vs[v].rows]
          /\ vs[v].of \in Seq(Nat) /\ vs[v].rows \in Seq(Nat)
        BY <1>1 DEF Vector
    <2>2. Append(vs[v].rows, x) \in Seq(Nat)
        BY <2>1
    <2>3. w = [of |-> vs[v].of, rows |-> Append(vs[v].rows, x)]
        BY <1>1, RowGrows
    <2> QED  BY <2>1, <2>2, <2>3 DEF Vector
<1>3. RowAdded(vs, v, x) = [vs EXCEPT ![v] = w]
    BY DEF RowAdded
<1> HIDE DEF w
<1> QED  BY <1>2, <1>3

\* The row of a parent opens a vector for its child's rows.
LEMMA ParentAddedShape ==
    ASSUME NEW vs \in Seq(Vector), NEW v \in 1 .. Len(vs), NEW x \in Nat
    PROVE  /\ ParentAdded(vs, v, x) \in Seq(Vector) /\ Len(ParentAdded(vs, v, x)) = Len(vs) + 1
           /\ \A k \in 1 .. Len(vs) : ParentAdded(vs, v, x)[k].of = vs[k].of
           /\ \A k \in 1 .. Len(vs) : k # v => ParentAdded(vs, v, x)[k] = vs[k]
           /\ ParentAdded(vs, v, x)[v].rows = Append(vs[v].rows, x)
           /\ ParentAdded(vs, v, x)[Len(vs) + 1].of = Append(vs[v].of, x)
<1> DEFINE r == RowAdded(vs, v, x)
           w == [of |-> Append(vs[v].of, x), rows |-> <<>>]
<1>1. vs[v] \in Vector
    OBVIOUS
<1>2. w \in Vector /\ w.of = Append(vs[v].of, x)
    BY <1>1 DEF Vector
<1>3. ParentAdded(vs, v, x) = Append(r, w)
    BY DEF ParentAdded
<1>4. /\ r \in Seq(Vector) /\ Len(r) = Len(vs)
      /\ \A k \in 1 .. Len(vs) : r[k].of = vs[k].of
      /\ \A k \in 1 .. Len(vs) : k # v => r[k] = vs[k]
      /\ r[v].rows = Append(vs[v].rows, x)
    BY RowAddedShape
<1> HIDE DEF w, r
<1>5. /\ Append(r, w) \in Seq(Vector) /\ Len(Append(r, w)) = Len(vs) + 1
      /\ \A k \in 1 .. Len(vs) : Append(r, w)[k] = r[k]
      /\ Append(r, w)[Len(vs) + 1] = w
    BY <1>2, <1>4
<1> QED  BY <1>2, <1>3, <1>4, <1>5

Path == Seq(Nat)

\* The rows of a vector are paths from the outermost row to the leaf's.
LEMMA RowsOfShape ==
    ASSUME NEW v \in Vector
    PROVE  RowsOf(v) \in Seq(Path)
<1>1. v.of \in Path /\ v.rows \in Seq(Nat)
    BY DEF Vector, Path
<1>2. \A j \in 1 .. Len(v.rows) : Append(v.of, v.rows[j]) \in Path
    BY <1>1 DEF Path
<1> HIDE DEF Path
<1> QED  BY <1>1, <1>2 DEF RowsOf

Parts(vs) == [k \in 1 .. Len(vs) |-> RowsOf(vs[k])]

\* The rows of the leaf are those of all vectors.
LEMMA PartsShape ==
    ASSUME NEW vs \in Seq(Vector)
    PROVE  Parts(vs) \in Seq(Seq(Path)) /\ LeafRows(vs) = FlattenSeq(Parts(vs))
<1>1. \A k \in 1 .. Len(vs) : RowsOf(vs[k]) \in Seq(Path)
    BY RowsOfShape
<1> QED  BY <1>1 DEF Parts, LeafRows

\* What a vector that comes last adds.
LEMMA LeafRowsAppend ==
    ASSUME NEW vs \in Seq(Vector), NEW v \in Vector
    PROVE  LeafRows(Append(vs, v)) = LeafRows(vs) \o RowsOf(v)
<1> DEFINE ws == Append(vs, v)
<1>1. ws \in Seq(Vector) /\ Len(ws) = Len(vs) + 1 /\ \A k \in 1 .. Len(vs) : ws[k] = vs[k]
    OBVIOUS
<1>2. ws[Len(vs) + 1] = v
    OBVIOUS
<1> HIDE DEF ws
<1>3. Parts(ws) = Append(Parts(vs), RowsOf(v))
    <2>1. /\ Parts(ws) \in Seq(Seq(Path)) /\ Parts(vs) \in Seq(Seq(Path)) /\ RowsOf(v) \in Seq(Path)
        BY <1>1, PartsShape, RowsOfShape
    <2>2. Len(Parts(ws)) = Len(vs) + 1 /\ Len(Parts(vs)) = Len(vs)
        BY <1>1 DEF Parts
    <2>3. \A k \in 1 .. Len(vs) : Parts(ws)[k] = Parts(vs)[k]
        BY <1>1 DEF Parts
    <2>4. Parts(ws)[Len(vs) + 1] = RowsOf(v)
        BY <1>1, <1>2 DEF Parts
    <2> QED  BY <2>1, <2>2, <2>3, <2>4
<1>4. LeafRows(ws) = FlattenSeq(Parts(vs)) \o RowsOf(v)
    BY <1>1, <1>3, PartsShape, RowsOfShape, FlattenAppend
<1> QED  BY <1>4, PartsShape DEF ws

\* What the parts have in them is what all have in them.
LEMMA FlattenShape ==
    ASSUME NEW V, NEW s \in Seq(Seq(V))
    PROVE  FlattenSeq(s) \in Seq(V)
<1>1. CASE Len(s) = 0
    <2>1. s = <<>>
        BY <1>1
    <2>2. FlattenSeq(s) = <<>>
        BY <2>1, FlattenEmpty, Zenon
    <2>3. <<>> \in Seq(V)
        OBVIOUS
    <2> QED  BY <2>2, <2>3, Zenon
<1>2. CASE Len(s) # 0
    <2> DEFINE n == Len(s)
    <2>1. n \in Nat \ {0} /\ \A k \in 1 .. n : s[k] \in Seq(V)
        BY <1>2
    <2>2. PICK f : Flattens(s, n, f) /\ FlattenSeq(s) = f[n]
        BY <2>1, FlattenIs
    <2> HIDE DEF n
    <2> DEFINE S == {k \in Nat : k \in 1 .. n => f[k] \in Seq(V)}
    <2>3. 0 \in S
        OBVIOUS
    <2>4. \A k \in Nat : k \in S => k + 1 \in S
        <3> SUFFICES ASSUME NEW k \in Nat, k \in S, k + 1 \in 1 .. n
                     PROVE  f[k + 1] \in Seq(V)
            OBVIOUS
        <3> DEFINE j == k + 1
        <3>1. j \in 1 .. n /\ (j # 1 => f[j - 1] \in Seq(V)) /\ s[j] \in Seq(V)
            BY <2>1
        <3> HIDE DEF j
        <3>2. f[j] = IF j = 1 THEN s[j] ELSE f[j - 1] \o s[j]
            BY <3>1, <2>2, Zenon DEF Flattens
        <3>3. f[j] \in Seq(V)
            BY <3>1, <3>2
        <3> QED  BY <3>3 DEF j
    <2> HIDE DEF S
    <2>5. n \in S
        BY <2>1, <2>3, <2>4, SetInduction
    <2>6. n \in 1 .. n
        BY <2>1
    <2> QED  BY <2>2, <2>5, <2>6 DEF S
<1> QED  BY <1>1, <1>2

\* Each row of the leaf is a path.
LEMMA LeafRowsShape ==
    ASSUME NEW vs \in Seq(Vector)
    PROVE  LeafRows(vs) \in Seq(Path)
BY PartsShape, FlattenShape

\* A row for the vector that comes last.
LEMMA LeafRowsRow ==
    ASSUME NEW vs \in Seq(Vector), vs # <<>>, NEW x \in Nat,
           Len(vs[Len(vs)].of) = depth - 1
    PROVE  LeafRows(RowAdded(vs, Len(vs), x)) =
               Append(LeafRows(vs), Append(vs[Len(vs)].of, x))
<1> DEFINE n == Len(vs)
           us == SubSeq(vs, 1, n - 1)
           ws == RowAdded(vs, n, x)
<1>1. n \in Nat \ {0} /\ n \in 1 .. n /\ vs[n] \in Vector
    OBVIOUS
<1>2. us \in Seq(Vector) /\ Len(us) = n - 1 /\ \A k \in 1 .. n - 1 : us[k] = vs[k]
    <2>1. n \in Nat /\ n >= 1
        BY <1>1
    <2>2. us \in Seq(Vector)
        BY <2>1
    <2>3. Len(us) = n - 1
        <3>1. \A k \in 1 .. n - 1 : vs[k] \in Vector
            BY <2>1
        <3>2. n - 1 \in Int /\ 1 \in Int
            BY <2>1
        <3> HIDE DEF n
        <3>3. Len(us) = IF 1 <= n - 1 THEN n - 1 - 1 + 1 ELSE 0
            BY <3>1, <3>2, SubSeqProperties
        <3> QED  BY <2>1, <3>3
    <2>4. \A k \in 1 .. n - 1 : us[k] = vs[k]
        BY <2>1
    <2> QED  BY <2>2, <2>3, <2>4
<1>3. vs = Append(us, vs[n])
    OBVIOUS
<1>4. /\ ws \in Seq(Vector) /\ Len(ws) = n
      /\ ws[n].of = vs[n].of /\ ws[n].rows = Append(vs[n].rows, x)
      /\ \A k \in 1 .. n : k # n => ws[k] = vs[k]
    BY <1>1, RowAddedShape
<1> HIDE DEF us, ws
<1>5. ws = Append(us, ws[n]) /\ ws[n] \in Vector
    BY <1>1, <1>2, <1>4
<1>6. RowsOf(ws[n]) = Append(RowsOf(vs[n]), Append(vs[n].of, x))
    <2> DEFINE o == vs[n].of
               q == vs[n].rows
    <2>1. o \in Seq(Nat) /\ q \in Seq(Nat)
        BY <1>1 DEF Vector
    <2>2. RowsOf(vs[n]) = [j \in 1 .. Len(q) |-> Append(o, q[j])]
        BY DEF RowsOf
    <2> DEFINE p == Append(q, x)
    <2>3. RowsOf(ws[n]) = [j \in 1 .. Len(p) |-> Append(o, p[j])]
        BY <1>4 DEF RowsOf
    <2>4. Len(p) = Len(q) + 1 /\ p[Len(q) + 1] = x /\ \A j \in 1 .. Len(q) : p[j] = q[j]
        BY <2>1
    <2>5. RowsOf(vs[n]) \in Seq(Path) /\ RowsOf(ws[n]) \in Seq(Path) /\ Append(o, x) \in Path
        BY <1>1, <1>5, <2>1, RowsOfShape DEF Path
    <2> HIDE DEF o, q, p
    <2>6. Len(RowsOf(ws[n])) = Len(q) + 1 /\ Len(RowsOf(vs[n])) = Len(q)
        BY <2>1, <2>2, <2>3, <2>4
    <2>7. \A j \in 1 .. Len(q) : RowsOf(ws[n])[j] = RowsOf(vs[n])[j]
        BY <2>1, <2>2, <2>3, <2>4
    <2>8. RowsOf(ws[n])[Len(q) + 1] = Append(o, x)
        BY <2>1, <2>3, <2>4
    <2>9. RowsOf(ws[n]) = Append(RowsOf(vs[n]), Append(o, x))
        BY <2>5, <2>6, <2>7, <2>8
    <2> QED  BY <2>9 DEF o
<1> DEFINE a == LeafRows(us)
           b == RowsOf(vs[n])
           y == Append(vs[n].of, x)
<1>7. a \in Seq(Path) /\ b \in Seq(Path) /\ y \in Path
    <2>1. vs[n].of \in Seq(Nat)
        BY <1>1 DEF Vector
    <2> QED  BY <1>1, <1>2, <2>1, LeafRowsShape, RowsOfShape DEF Path
<1>8. LeafRows(vs) = a \o b
    BY <1>1, <1>2, <1>3, LeafRowsAppend
<1>9. LeafRows(ws) = a \o Append(b, y)
    BY <1>2, <1>5, <1>6, LeafRowsAppend
<1> HIDE DEF a, b, y, n
<1>10. a \o Append(b, y) = Append(a \o b, y)
    BY <1>7
<1> QED  BY <1>8, <1>9, <1>10 DEF ws, y, n

\* A row for the vector of a parent, and one more vector, bring no row of the leaf.
LEMMA LeafRowsParent ==
    ASSUME NEW vs \in Seq(Vector), NEW v \in 1 .. Len(vs), NEW x \in Nat,
           Len(vs[v].of) # depth - 1
    PROVE  LeafRows(ParentAdded(vs, v, x)) = LeafRows(vs)
<1> DEFINE ws == RowAdded(vs, v, x)
           w == [of |-> Append(vs[v].of, x), rows |-> <<>>]
<1>1. /\ ws \in Seq(Vector) /\ Len(ws) = Len(vs) /\ ws[v].of = vs[v].of
      /\ \A k \in 1 .. Len(vs) : k # v => ws[k] = vs[k]
    BY RowAddedShape
<1>2. w \in Vector /\ RowsOf(w) = <<>>
    <2>0. vs[v] \in Vector
        OBVIOUS
    <2>1. vs[v].of \in Seq(Nat)
        BY <2>0 DEF Vector
    <2> QED  BY <2>1 DEF Vector, RowsOf
<1>3. ParentAdded(vs, v, x) = Append(ws, w)
    BY DEF ParentAdded
<1> HIDE DEF ws, w
<1>4. Parts(ws) = Parts(vs)
    <2>1. RowsOf(ws[v]) = <<>> /\ RowsOf(vs[v]) = <<>>
        BY <1>1 DEF RowsOf
    <2>2. \A k \in 1 .. Len(vs) : RowsOf(ws[k]) = RowsOf(vs[k])
        BY <1>1, <2>1
    <2> QED  BY <1>1, <2>2 DEF Parts
<1>5. LeafRows(ws) = LeafRows(vs)
    BY <1>1, <1>4, PartsShape
<1>6. LeafRows(Append(ws, w)) = LeafRows(vs) \o <<>>
    BY <1>1, <1>2, <1>5, LeafRowsAppend
<1> QED  BY <1>3, <1>6, LeafRowsShape

-----------------------------------------------------------------------------
(* The invariant: how the vectors, the response, the flags and the          *)
(* handler fit together.                                                    *)

Running == step \in {"enter", "read", "test"}
\* A row of the leaf is about to be sent, its parents first.
Filling == step = "test" /\ lev = depth /\ Continues
Sending == Filling /\ first
Begins(l) == IF range[l].start = NoRow THEN 0 ELSE range[l].start

Shapes ==
    /\ first \in BOOLEAN /\ read \in [Levels -> BOOLEAN]
    /\ unsent \in [Levels -> BOOLEAN] /\ wrote \in [Levels -> BOOLEAN]
    /\ cur \in [Levels -> Nat] /\ val \in [Levels -> Nat] /\ base \in [Levels -> Nat]
    /\ passed \in Nat /\ chosen \in Seq(Path)
    /\ stack \in Seq(Nat) /\ interned \in Seq(Vector)

RangeAtTop ==
    \/ range[1] = NoRange
    \/ /\ range[1].start \in Nat /\ range[1].stop \in Nat
       /\ depth > 1 => range[1].start = 0 /\ range[1].stride = 1

Reader(a, s, g) == [at |-> a, open |-> s, got |-> g]
ClientKeepsUp ==
    /\ step # "done" => client = Reader("marker", stack, interned)
    /\ step = "done" => client.at = "end" /\ client.got = interned

\* Each vector on the stack belongs to the rows that its parents are at.
VectorFits(l) ==
    stack[l] \in 1 .. Len(interned) /\ interned[stack[l]].of = SubSeq(val, 1, l - 1)
StackFits ==
    /\ Len(stack) \in 1 .. lev
    /\ \A l \in 1 .. Len(stack) : VectorFits(l)
    /\ Len(stack) = depth => stack[depth] = Len(interned)
    /\ step = "enter" /\ lev > 1 => Len(stack) < lev
    /\ Running /\ lev = depth /\ depth > 1 /\ first => Len(stack) < lev \/ Sending

\* The parents that have not sent their rows are the innermost ones.
UnsentFits ==
    /\ \A k \in 1 .. lev - 1 : unsent[k] <=> k >= Len(stack)
    /\ step \in {"enter", "read"} /\ read[lev] => \A k \in lev .. depth - 1 : unsent[k]
    /\ step = "test" /\ status => \A k \in lev .. depth - 1 : unsent[k]

WroteFits ==
    /\ \A l \in 2 .. lev : l < depth =>
          /\ Len(stack) > l => wrote[l]
          /\ Len(stack) < l => ~wrote[l]
          /\ Len(stack) = l => wrote[l] \/ Sending
    /\ \A l \in lev + 1 .. depth - 1 : ~wrote[l]
LeafWroteFits ==
    lev = depth /\ depth > 1 /\ ~first /\ step \in {"read", "test"} =>
        /\ wrote[depth] => Len(stack) = depth
        /\ Len(stack) = depth => wrote[depth] \/ Filling
        /\ step = "read" \/ Filling => Len(stack) = depth

BaseFits ==
    \A l \in 2 .. lev : l < depth /\ (step = "enter" => l < lev) =>
        base[l] < l /\ (Len(stack) < l /\ ~Sending => base[l] = Len(stack))

HandlerFits ==
    /\ step \in {"enter", "read"} /\ ~read[lev] =>
          \A k \in lev + 1 .. depth : ~read[k] /\ cur[k] = 0
    /\ step = "test" /\ ~status => \A k \in lev .. depth : cur[k] = 0
    /\ step = "test" /\ status => \A k \in lev .. depth : read[k]

\* Where there are several levels, each row is asked for in turn.
RowsFit ==
    depth > 1 =>
        /\ cur[1] = row[1] + 1
        /\ lev = 1 /\ step \in {"enter", "read"} => ~read[1]
        /\ lev = 1 /\ step = "test" /\ status => val[1] = cur[1] /\ cur[1] >= 1
        /\ lev > 1 => Asked(1, val[1] - 1)
        /\ \A k \in 1 .. lev - 1 : i[k] = row[k] + 1
        /\ step = "read" => i[lev] = row[lev] + 1

\* Where there is one level, those rows are that fall on the range.
FlatFits ==
    depth = 1 =>
        /\ step \in {"enter", "read"} => ~read[1] /\ (cur[1] = 0 => passed = 0)
        /\ step \in {"enter", "read"} \/ (step = "test" /\ status) => passed = row[1] + 1
        /\ step = "test" /\ status => cur[1] # 0
        /\ step \in {"read", "test"} =>
              \E k \in Nat : /\ i[1] = Begins(1) + k * range[1].stride
                             /\ step = "read" /\ k # 0 => row[1] >= i[1] - range[1].stride

ChosenFits ==
    chosen = IF Filling THEN Append(LeafRows(interned), SubSeq(val, 1, depth))
             ELSE LeafRows(interned)
NoneEmpty ==
    \A k \in 2 .. Len(interned) :
        \/ interned[k].rows # <<>>
        \/ Filling /\ k = Len(interned) /\ Len(stack) > 0 /\ stack[Len(stack)] = k
WireFits ==
    /\ step # "done" /\ Len(stack) > 1 => chosen # <<>>
    /\ chosen = <<>> => wire = IF step = "done" THEN <<Marker("EOS")>> ELSE <<>>

Moves == /\ StackFits /\ UnsentFits /\ WroteFits /\ LeafWroteFits /\ BaseFits
         /\ HandlerFits /\ RowsFit /\ FlatFits
Arrives == /\ Shapes /\ RangeAtTop /\ ClientKeepsUp /\ ChosenFits /\ NoneEmpty /\ WireFits
           /\ step # "done" => Moves
IInv == /\ SInv
        /\ step = "idle" => SeqInit
        /\ step # "idle" /\ RangesOutside => Arrives

\* The values of the outermost levels are a path.
LEMMA FilesPath ==
    ASSUME NEW v \in [Levels -> Nat], NEW n \in 0 .. MaxDepth
    PROVE  /\ SubSeq(v, 1, n) \in Path /\ Len(SubSeq(v, 1, n)) = n
           /\ \A k \in 1 .. n : SubSeq(v, 1, n)[k] = v[k]
<1>1. n \in Int /\ 1 \in Int /\ 0 <= n /\ \A k \in 1 .. n : v[k] \in Nat
    BY DepthAssumption DEF Levels
<1>2. /\ SubSeq(v, 1, n) \in Seq(Nat)
      /\ Len(SubSeq(v, 1, n)) = IF 1 <= n THEN n - 1 + 1 ELSE 0
      /\ \A k \in 1 .. n - 1 + 1 : SubSeq(v, 1, n)[k] = v[1 + k - 1]
    BY <1>1, SubSeqProperties
<1> QED  BY <1>1, <1>2 DEF Path

\* A path depends on the values at its levels only.
LEMMA SamePath ==
    ASSUME NEW v \in [Levels -> Nat], NEW w \in [Levels -> Nat], NEW n \in 0 .. MaxDepth,
           \A k \in 1 .. n : v[k] = w[k]
    PROVE  SubSeq(v, 1, n) = SubSeq(w, 1, n)
<1> DEFINE p == SubSeq(v, 1, n)
           q == SubSeq(w, 1, n)
<1>1. /\ p \in Seq(Nat) /\ q \in Seq(Nat) /\ Len(p) = n /\ Len(q) = n
      /\ \A k \in 1 .. n : p[k] = q[k]
    BY FilesPath DEF Path
<1> HIDE DEF p, q
<1>2. p = q
    BY <1>1
<1> QED  BY <1>2 DEF p, q

\* A path goes on with the value of the next level.
LEMMA NextPath ==
    ASSUME NEW v \in [Levels -> Nat], NEW n \in Levels
    PROVE  Append(SubSeq(v, 1, n - 1), v[n]) = SubSeq(v, 1, n)
<1>0. n \in 0 .. MaxDepth /\ n - 1 \in 0 .. MaxDepth /\ n \in Nat /\ v[n] \in Nat
    BY DepthAssumption DEF Levels
<1> DEFINE p == SubSeq(v, 1, n - 1)
           q == SubSeq(v, 1, n)
<1>1. /\ p \in Seq(Nat) /\ Len(p) = n - 1 /\ \A k \in 1 .. n - 1 : p[k] = v[k]
    BY <1>0, FilesPath DEF Path
<1>2. /\ q \in Seq(Nat) /\ Len(q) = n /\ \A k \in 1 .. n : q[k] = v[k]
    BY <1>0, FilesPath DEF Path
<1> HIDE DEF p, q
<1> DEFINE z == v[n]
           a == Append(p, z)
<1>3. a = q
    <2>0. n \in Nat /\ n >= 1 /\ z \in Nat
        BY <1>0 DEF Levels
    <2> HIDE DEF z
    <2>1. /\ a \in Seq(Nat) /\ Len(a) = n /\ a[n] = z
          /\ \A k \in 1 .. n - 1 : a[k] = p[k]
        BY <1>1, <2>0
    <2>2. q[n] = z
        BY <1>2, <2>0 DEF z
    <2>3. \A k \in 1 .. n : a[k] = q[k]
        BY <1>1, <1>2, <2>0, <2>1, <2>2
    <2> HIDE DEF a
    <2> QED  BY <1>2, <2>0, <2>1, <2>3
<1> QED  BY <1>3 DEF a, z, p, q

\* The invariant holds at first.
LEMMA InitIInv == SeqInit => IInv
<1> SUFFICES ASSUME SeqInit PROVE IInv
    OBVIOUS
<1>1. SInv
    BY InitSInv
<1>2. step = "idle"
    BY DEF SeqInit
<1> QED  BY <1>1, <1>2 DEF IInv

\* No rows yet.
LEMMA NoRowsYet == NewVectors \in Seq(Vector) /\ Len(NewVectors) = 1 /\ LeafRows(NewVectors) = <<>>
<1> DEFINE v == [of |-> <<>>, rows |-> <<>>]
<1>1. v \in Vector
    BY DEF Vector
<1>2. RowsOf(v) = <<>>
    BY DEF RowsOf
<1> HIDE DEF v
<1>3. <<>> \in Seq(Vector) /\ Append(<<>>, v) = <<v>> /\ <<v>> \in Seq(Vector) /\ Len(<<v>>) = 1
    BY <1>1
<1>4. LeafRows(<<>>) = <<>>
    <2>1. Parts(<<>>) = <<>>
        BY DEF Parts
    <2> QED  BY <1>3, <2>1, PartsShape, FlattenEmpty
<1>5. LeafRows(<<v>>) = <<>> \o <<>>
    BY <1>1, <1>2, <1>3, <1>4, LeafRowsAppend
<1>6. NewVectors = <<v>>
    BY DEF NewVectors, v
<1> QED  BY <1>3, <1>5, <1>6

\* Whatever the depth.
LEMMA NoRowsEver ==
    ASSUME NEW D
    PROVE  FlattenSeq([k \in 1 .. Len(NewVectors) |->
               IF Len(NewVectors[k].of) = D - 1
               THEN [j \in 1 .. Len(NewVectors[k].rows) |->
                        Append(NewVectors[k].of, NewVectors[k].rows[j])]
               ELSE <<>>]) = <<>>
<1> DEFINE part(k) == IF Len(NewVectors[k].of) = D - 1
                      THEN [j \in 1 .. Len(NewVectors[k].rows) |->
                               Append(NewVectors[k].of, NewVectors[k].rows[j])]
                      ELSE <<>>
           s == [k \in 1 .. Len(NewVectors) |-> part(k)]
<1>1. Len(NewVectors) = 1 /\ NewVectors[1].rows = <<>>
    BY DEF NewVectors
<1>2. part(1) = <<>>
    BY <1>1
<1> HIDE DEF part
<1>3. s = <<<<>>>>
    BY <1>1, <1>2
<1>4. <<<<>>>> = Append(<<>>, <<>>) /\ <<>> \in Seq(Nat) /\ <<>> \in Seq(Seq(Nat))
    OBVIOUS
<1>5. FlattenSeq(<<<<>>>>) = <<>> \o <<>>
    BY <1>4, FlattenAppend, FlattenEmpty
<1>6. FlattenSeq(s) = <<>>
    BY <1>3, <1>5
<1> QED  BY <1>6 DEF part

\* The constraint is set before anything is read or sent.
LEMMA ConstrainKeepsIInv ==
    ASSUME IInv, NEW d \in Levels, NEW r \in [Levels -> AnyRange], Constrain(d, r)
    PROVE  IInv'
<1>1. SInv'
    BY ConstrainKeeps DEF IInv
<1>2. SeqInit /\ step = "idle" /\ step' = "enter" /\ depth' = d /\ range' = r
    BY DEF IInv, Constrain
<1>3. /\ UNCHANGED <<lev, i, status, first, row, read, unsent, wrote, cur, val, wire, client,
                     interned, stack, base, passed, chosen>>
    BY DEF Constrain, flags, handler, outcome
<1>4. /\ lev = 1 /\ first = TRUE /\ row = All(NoRow) /\ read = All(FALSE) /\ unsent = All(FALSE)
      /\ wrote = All(FALSE) /\ cur = All(0) /\ val = All(0) /\ wire = <<>> /\ client = NewReader
      /\ interned = NewVectors /\ stack = <<1>> /\ base = All(0) /\ passed = 0 /\ chosen = <<>>
    BY <1>2 DEF SeqInit
<1>5. \A l \in Levels : /\ row[l] = NoRow /\ read[l] = FALSE /\ unsent[l] = FALSE
                        /\ wrote[l] = FALSE /\ cur[l] = 0 /\ val[l] = 0 /\ base[l] = 0
    BY <1>4 DEF All
<1>6. d \in Int /\ d >= 1 /\ 1 \in Levels /\ 1 .. d \subseteq Levels
    BY DepthAssumption DEF Levels
<1>7. Len(stack) = 1 /\ stack[1] = 1 /\ stack \in Seq(Nat)
    BY <1>4
<1>19. /\ lev' = 1 /\ depth' = d /\ step' = "enter" /\ Len(stack') = 1 /\ stack'[1] = 1
       /\ read'[1] = FALSE /\ cur'[1] = 0 /\ passed' = 0 /\ row'[1] = NoRow
       /\ \A k \in Levels : ~wrote'[k] /\ ~read'[k] /\ cur'[k] = 0
    BY <1>2, <1>3, <1>4, <1>5, <1>6, <1>7
<1>8. Shapes'
    <2>1. /\ read \in [Levels -> BOOLEAN] /\ unsent \in [Levels -> BOOLEAN]
          /\ wrote \in [Levels -> BOOLEAN]
        BY <1>4 DEF All
    <2>2. cur \in [Levels -> Nat] /\ val \in [Levels -> Nat] /\ base \in [Levels -> Nat]
        BY <1>4 DEF All
    <2>3. chosen \in Seq(Path) /\ interned \in Seq(Vector) /\ passed \in Nat /\ first \in BOOLEAN
        BY <1>4, NoRowsYet
    <2> QED  BY <1>3, <1>7, <2>1, <2>2, <2>3 DEF Shapes
<1>9. RangeAtTop'
    <2>1. \/ r[1] = NoRange
          \/ r[1] \in Range_(Starts, Strides, Stops) /\ d = 1
          \/ r[1] \in Range_({0}, {1}, Stops)
        BY <1>6 DEF Constrain, Ranges
    <2>2. CASE r[1] \in Range_(Starts, Strides, Stops) /\ d = 1
        <3>1. r[1].start \in Nat /\ r[1].stop \in Nat
            BY <2>2, RangesAssumption DEF Range_
        <3> QED  BY <1>2, <2>2, <3>1 DEF RangeAtTop
    <2>3. CASE r[1] \in Range_({0}, {1}, Stops)
        <3>1. r[1].start = 0 /\ r[1].stride = 1 /\ r[1].stop \in Nat
            BY <2>3, RangesAssumption DEF Range_
        <3> QED  BY <1>2, <3>1 DEF RangeAtTop
    <2> QED  BY <1>2, <2>1, <2>2, <2>3 DEF RangeAtTop
<1>10. ClientKeepsUp'
    BY <1>2, <1>3, <1>4 DEF ClientKeepsUp, NewReader, Reader
<1>11. ~Filling' /\ ~Sending' /\ Running'
    BY <1>2 DEF Filling, Sending, Running
<1>12. ChosenFits'
    <2>1. interned' = NewVectors
        BY <1>3, <1>4
    <2>2. LeafRows(interned)' = <<>>
        BY <2>1, NoRowsEver DEF LeafRows, RowsOf
    <2> QED  BY <1>3, <1>4, <1>11, <2>2 DEF ChosenFits
<1>13. NoneEmpty'
    BY <1>3, <1>4, NoRowsYet DEF NoneEmpty
<1>14. WireFits'
    BY <1>2, <1>3, <1>4, <1>7 DEF WireFits
<1>15. StackFits'
    <2>1. VectorFits(1)'
        <3>1. NewVectors[1].of = <<>> /\ Len(interned) = 1
            BY <1>4, NoRowsYet DEF NewVectors
        <3>2. SubSeq(val, 1, 1 - 1) = <<>>
            BY SubSeqEmpty
        <3>3. stack'[1] = 1 /\ Len(interned') = 1 /\ interned'[1].of = <<>>
              /\ SubSeq(val', 1, 1 - 1) = <<>>
            BY <1>3, <1>4, <1>7, <3>1, SubSeqEmpty
        <3> QED  BY <3>3 DEF VectorFits
    <2>2. Len(interned) = 1
        BY <1>4, NoRowsYet
    <2> QED  BY <1>2, <1>3, <1>4, <1>6, <1>7, <1>11, <2>1, <2>2 DEF StackFits
<1>16. UnsentFits' /\ WroteFits' /\ LeafWroteFits' /\ BaseFits' /\ HandlerFits'
    <2>1. UnsentFits'
        BY <1>6, <1>19 DEF UnsentFits
    <2>2. WroteFits'
        BY <1>6, <1>19 DEF WroteFits
    <2>3. LeafWroteFits'
        BY <1>2 DEF LeafWroteFits
    <2>4. BaseFits'
        BY <1>3, <1>4 DEF BaseFits
    <2>5. HandlerFits'
        BY <1>6, <1>19 DEF HandlerFits
    <2> QED  BY <2>1, <2>2, <2>3, <2>4, <2>5
<1>17. RowsFit'
    BY <1>6, <1>19 DEF RowsFit, NoRow
<1>18. FlatFits'
    BY <1>6, <1>19 DEF FlatFits, NoRow
<1> QED
    BY <1>1, <1>2, <1>8, <1>9, <1>10, <1>12, <1>13, <1>14, <1>15, <1>16, <1>17, <1>18
    DEF IInv, Arrives, Moves

\* What the invariant says of the level and the stack while serialize() runs.
LEMMA Where ==
    ASSUME IInv, RangesOutside, step # "idle", step # "done"
    PROVE  /\ Arrives /\ Moves /\ Shapes /\ SInv /\ RowsAhead
           /\ lev \in Levels /\ depth \in Levels /\ lev \in Nat /\ depth \in Nat
           /\ 1 <= lev /\ lev <= depth /\ depth <= MaxDepth /\ MaxDepth \in Nat
           /\ Len(stack) \in Nat /\ 1 <= Len(stack) /\ Len(stack) <= lev
           /\ 1 .. depth \subseteq Levels
<1>1. Arrives /\ Moves /\ Shapes /\ SInv /\ RowsAhead
    BY DEF IInv, Arrives, SInv
<1>2. lev \in Levels /\ depth \in Levels /\ 1 <= lev /\ lev <= depth
    BY <1>1, AtLevel DEF SInv
<1>3. Len(stack) \in 1 .. lev
    BY <1>1 DEF Moves, StackFits
<1> QED  BY <1>1, <1>2, <1>3, DepthAssumption DEF Levels

\* At the levels, a range is that of NoRange or of the outermost Sequence.
LEMMA AtTop ==
    ASSUME IInv, RangesOutside, step # "idle", step # "done", depth > 1, NEW l \in 1 .. depth
    PROVE  Begins(l) = 0 /\ range[l].stride = 1
<1>1. NoRange.start = NoRow /\ NoRange.stride = 1
    BY DEF NoRange
<1>2. CASE l = 1
    <2>1. RangeAtTop
        BY Where DEF Arrives
    <2> QED  BY <1>1, <1>2, <2>1 DEF RangeAtTop, Begins
<1>3. CASE l # 1
    <2>1. range[l] = NoRange
        BY <1>3, Where DEF RangesOutside
    <2> QED  BY <1>1, <2>1 DEF Begins
<1> QED  BY <1>2, <1>3

\* serialize() of a level begins: it notes the size of the stack.
LEMMA EnterKeepsIInv ==
    ASSUME IInv, Enter
    PROVE  IInv'
<1>1. SInv'
    BY EnterKeeps DEF IInv
<1>2. /\ step = "enter" /\ step' = "read" /\ first' = TRUE
      /\ i' = [i EXCEPT ![lev] = Begins(lev)]
      /\ base' = [base EXCEPT ![lev] = Len(stack)]
      /\ UNCHANGED <<lev, depth, range, status, row, read, unsent, wrote, cur, val, wire, client,
                     interned, stack, passed, chosen>>
    BY DEF Enter, Begins, flags, handler
<1>3. RangesOutside' = RangesOutside
    BY <1>2 DEF RangesOutside
<1> SUFFICES ASSUME RangesOutside PROVE Arrives'
    BY <1>1, <1>2, <1>3 DEF IInv
<1>4. /\ Arrives /\ Moves /\ Shapes /\ SInv /\ RowsAhead
      /\ lev \in Levels /\ depth \in Levels /\ lev \in Nat /\ depth \in Nat
      /\ 1 <= lev /\ lev <= depth /\ depth <= MaxDepth /\ MaxDepth \in Nat
      /\ Len(stack) \in Nat /\ 1 <= Len(stack) /\ Len(stack) <= lev
      /\ 1 .. depth \subseteq Levels
    BY <1>2, Where
<1>5. row[lev] = NoRow
    BY <1>2, <1>4 DEF RowsAhead
<1>6. /\ i' \in [Levels -> Int] /\ i'[lev] = Begins(lev)
      /\ \A k \in Levels : k # lev => i'[k] = i[k]
    <2>1. i \in [Levels -> Int] /\ i' \in [Levels -> Int]
        BY <1>1, <1>4 DEF SInv, Typed
    <2> QED  BY <1>2, <1>4, <2>1
<1>7. ~Filling /\ ~Sending /\ ~Filling' /\ ~Sending' /\ Running /\ Running'
    BY <1>2 DEF Filling, Sending, Running
<1>8. Shapes'
    <2>1. base' \in [Levels -> Nat]
        BY <1>2, <1>4 DEF Shapes
    <2> QED  BY <1>2, <1>4, <2>1 DEF Shapes
<1>9. RangeAtTop' /\ ClientKeepsUp' /\ ChosenFits' /\ NoneEmpty' /\ WireFits'
    <2>1. RangeAtTop'
        BY <1>2, <1>4 DEF Arrives, RangeAtTop
    <2>2. ClientKeepsUp'
        BY <1>2, <1>4 DEF Arrives, ClientKeepsUp
    <2>3. ChosenFits'
        <3>1. LeafRows(interned)' = LeafRows(interned)
            BY <1>2 DEF LeafRows, RowsOf
        <3> QED  BY <1>2, <1>4, <1>7, <3>1 DEF Arrives, ChosenFits
    <2>4. NoneEmpty'
        BY <1>2, <1>4, <1>7 DEF Arrives, NoneEmpty
    <2>5. WireFits'
        BY <1>2, <1>4 DEF Arrives, WireFits
    <2> QED  BY <2>1, <2>2, <2>3, <2>4, <2>5
<1>10. StackFits'
    <2>1. StackFits
        BY <1>4 DEF Moves
    <2>2. \A l \in 1 .. Len(stack) : VectorFits(l)'
        BY <1>2, <2>1 DEF StackFits, VectorFits
    <2>3. lev > 1 => Len(stack) < lev
        BY <1>2, <2>1 DEF StackFits
    <2> QED  BY <1>2, <1>4, <2>1, <2>2, <2>3 DEF StackFits
<1>11. UnsentFits'
    BY <1>2, <1>4 DEF Moves, UnsentFits
<1>12. WroteFits'
    BY <1>2, <1>4, <1>7 DEF Moves, WroteFits
<1>13. LeafWroteFits'
    BY <1>2 DEF LeafWroteFits
<1>14. BaseFits'
    <2> SUFFICES ASSUME NEW l \in 2 .. lev, l < depth
                 PROVE  base'[l] < l /\ (Len(stack) < l => base'[l] = Len(stack))
        BY <1>2 DEF BaseFits
    <2>1. CASE l = lev
        <3>1. Len(stack) < lev
            BY <1>2, <1>4, <2>1 DEF Moves, StackFits
        <3>2. base'[l] = Len(stack)
            BY <1>2, <1>4, <2>1 DEF Shapes
        <3> QED  BY <2>1, <3>1, <3>2
    <2>2. CASE l # lev
        <3>1. l < lev /\ l \in Levels /\ base'[l] = base[l]
            BY <1>2, <1>4, <2>2 DEF Shapes, Levels
        <3> QED  BY <1>2, <1>4, <1>7, <3>1 DEF Moves, BaseFits
    <2> QED  BY <2>1, <2>2
<1>15. HandlerFits'
    BY <1>2, <1>4 DEF Moves, HandlerFits
<1>16. RowsFit'
    <2> SUFFICES ASSUME depth > 1
                 PROVE  /\ cur[1] = row[1] + 1
                        /\ lev = 1 => ~read[1]
                        /\ lev > 1 => Asked(1, val[1] - 1)
                        /\ \A k \in 1 .. lev - 1 : i'[k] = row[k] + 1
                        /\ i'[lev] = row[lev] + 1
        BY <1>2 DEF RowsFit, Asked
    <2>1. RowsFit
        BY <1>4 DEF Moves
    <2>2. i'[lev] = row[lev] + 1
        <3>1. Begins(lev) = 0
            BY <1>2, <1>4, AtTop
        <3> QED  BY <1>5, <1>6, <3>1 DEF NoRow
    <2>3. \A k \in 1 .. lev - 1 : i'[k] = row[k] + 1
        <3>1. \A k \in 1 .. lev - 1 : k \in Levels /\ k # lev
            BY <1>4 DEF Levels
        <3> QED  BY <1>6, <2>1, <3>1 DEF RowsFit
    <2> QED  BY <1>2, <2>1, <2>2, <2>3 DEF RowsFit
<1>17. FlatFits'
    <2> SUFFICES ASSUME depth = 1
                 PROVE  /\ ~read[1] /\ (cur[1] = 0 => passed = 0) /\ passed = row[1] + 1
                        /\ \E k \in Nat : /\ i'[1] = Begins(1) + k * range[1].stride
                                          /\ k # 0 => row[1] >= i'[1] - range[1].stride
        BY <1>2 DEF FlatFits, Begins
    <2>1. ~read[1] /\ (cur[1] = 0 => passed = 0) /\ passed = row[1] + 1
        BY <1>2, <1>4 DEF Moves, FlatFits
    <2>2. i'[1] = Begins(1) + 0 * range[1].stride
        <3>1. lev = 1 /\ range[1].stride \in Int /\ Begins(1) \in Int
            BY <1>4 DEF SInv, Typed, RangeSet, Begins
        <3> QED  BY <1>6, <3>1
    <2> QED  BY <2>1, <2>2
<1> QED
    BY <1>8, <1>9, <1>10, <1>11, <1>12, <1>13, <1>14, <1>15, <1>16, <1>17 DEF Arrives, Moves

\* The child begins with the row that its parent is at.
LEMMA ParentRowKeepsIInv ==
    ASSUME IInv, ParentRow
    PROVE  IInv'
<1>1. SInv'
    BY ParentRowKeeps DEF IInv
<1>2. /\ step = "test" /\ step' = "enter" /\ lev < depth /\ lev' = lev + 1
      /\ status /\ ~IsEndOfRows(lev)
      /\ i' = [i EXCEPT ![lev] = @ + range[lev].stride]
      /\ UNCHANGED <<depth, range, status, first, row, read, unsent, wrote, cur, val, wire,
                     client, interned, stack, base, passed, chosen>>
    BY DEF ParentRow, Continues, flags, handler, outcome
<1>3. RangesOutside' = RangesOutside
    BY <1>2 DEF RangesOutside
<1> SUFFICES ASSUME RangesOutside PROVE Arrives'
    BY <1>1, <1>2, <1>3 DEF IInv
<1>4. /\ Arrives /\ Moves /\ Shapes /\ SInv /\ RowsAhead
      /\ lev \in Levels /\ depth \in Levels /\ lev \in Nat /\ depth \in Nat
      /\ 1 <= lev /\ lev <= depth /\ depth <= MaxDepth /\ MaxDepth \in Nat
      /\ Len(stack) \in Nat /\ 1 <= Len(stack) /\ Len(stack) <= lev
      /\ 1 .. depth \subseteq Levels
    BY <1>2, Where
<1>5. row[lev] = i[lev] /\ i[lev] \in Int /\ range[lev].stride = 1 /\ Begins(lev) = 0
    <2>1. row[lev] = i[lev] /\ i[lev] \in Int
        BY <1>2, <1>4 DEF RowsAhead, SInv, Typed
    <2> QED  BY <1>2, <1>4, <2>1, AtTop
<1>6. /\ i'[lev] = row[lev] + 1
      /\ \A k \in Levels : k # lev => i'[k] = i[k]
    BY <1>2, <1>4, <1>5 DEF SInv, Typed
<1>7. ~Filling /\ ~Sending /\ ~Filling' /\ ~Sending' /\ Running /\ Running'
    BY <1>2, <1>4 DEF Filling, Sending, Running
<1>8. Shapes'
    BY <1>2, <1>4 DEF Shapes
<1>9. RangeAtTop' /\ ClientKeepsUp' /\ ChosenFits' /\ NoneEmpty' /\ WireFits'
    <2>1. RangeAtTop'
        BY <1>2, <1>4 DEF Arrives, RangeAtTop
    <2>2. ClientKeepsUp'
        BY <1>2, <1>4 DEF Arrives, ClientKeepsUp
    <2>3. ChosenFits'
        <3>1. LeafRows(interned)' = LeafRows(interned)
            BY <1>2 DEF LeafRows, RowsOf
        <3> QED  BY <1>2, <1>4, <1>7, <3>1 DEF Arrives, ChosenFits
    <2>4. NoneEmpty'
        BY <1>2, <1>4, <1>7 DEF Arrives, NoneEmpty
    <2>5. WireFits'
        BY <1>2, <1>4 DEF Arrives, WireFits
    <2> QED  BY <2>1, <2>2, <2>3, <2>4, <2>5
<1>10. StackFits'
    <2>1. StackFits
        BY <1>4 DEF Moves
    <2>2. \A l \in 1 .. Len(stack) : VectorFits(l)'
        BY <1>2, <2>1 DEF StackFits, VectorFits
    <2>3. Len(stack) \in 1 .. lev' /\ Len(stack) < lev'
        BY <1>2, <1>4
    <2> QED  BY <1>2, <1>4, <2>1, <2>2, <2>3 DEF StackFits
<1>11. UnsentFits'
    <2>1. \A k \in lev .. depth - 1 : unsent[k]
        BY <1>2, <1>4 DEF Moves, UnsentFits
    <2>2. \A k \in 1 .. lev - 1 : unsent[k] <=> k >= Len(stack)
        BY <1>4 DEF Moves, UnsentFits
    <2>3. \A k \in 1 .. lev' - 1 : unsent[k] <=> k >= Len(stack)
        BY <1>2, <1>4, <2>1, <2>2
    <2>4. \A k \in lev' .. depth - 1 : unsent[k]
        BY <1>2, <1>4, <2>1
    <2> QED  BY <1>2, <2>3, <2>4 DEF UnsentFits
<1>12. WroteFits'
    <2>1. WroteFits
        BY <1>4 DEF Moves
    <2>2. \A l \in 2 .. lev' : l < depth =>
             /\ Len(stack) > l => wrote[l]
             /\ Len(stack) < l => ~wrote[l]
             /\ Len(stack) = l => wrote[l]
        BY <1>2, <1>4, <1>7, <2>1 DEF WroteFits
    <2>3. \A l \in lev' + 1 .. depth - 1 : ~wrote[l]
        BY <1>2, <1>4, <2>1 DEF WroteFits
    <2> QED  BY <1>2, <2>2, <2>3 DEF WroteFits
<1>13. LeafWroteFits'
    BY <1>2 DEF LeafWroteFits
<1>14. BaseFits'
    BY <1>2, <1>4, <1>7 DEF Moves, BaseFits
<1>15. HandlerFits'
    <2>1. read[lev + 1]
        BY <1>2, <1>4 DEF Moves, HandlerFits
    <2> QED  BY <1>2, <2>1 DEF HandlerFits
<1>16. RowsFit'
    <2>1. RowsFit /\ depth > 1
        BY <1>2, <1>4 DEF Moves
    <2>2. \A k \in 1 .. lev' - 1 : i'[k] = row[k] + 1
        <3>1. \A k \in 1 .. lev' - 1 : k \in Levels /\ (k = lev \/ k \in 1 .. lev - 1)
            BY <1>2, <1>4 DEF Levels
        <3> QED  BY <1>4, <1>6, <2>1, <3>1 DEF RowsFit
    <2>3. Asked(1, val[1] - 1)
        <3>1. CASE lev > 1
            BY <2>1, <3>1 DEF RowsFit
        <3>2. CASE lev = 1
            <4>1. val[1] - 1 = i[1] /\ i[1] \in Int /\ i[1] >= 0
                <5>1. val[1] = row[1] + 1 /\ val[1] >= 1
                    BY <1>2, <2>1, <3>2 DEF RowsFit
                <5>2. val[1] \in Nat /\ row[1] \in Int
                    BY <1>4, <3>2 DEF Shapes, SInv, Typed
                <5> QED  BY <1>5, <3>2, <5>1, <5>2
            <4>2. CASE range[1] = NoRange
                BY <4>2 DEF Asked
            <4>3. CASE range[1] # NoRange
                <5>1. /\ range[1].start = 0 /\ range[1].stride = 1 /\ range[1].stop \in Nat
                    BY <1>4, <2>1, <4>3 DEF Arrives, RangeAtTop
                <5>2. i[1] <= range[1].stop
                    BY <1>2, <3>2, <4>1, <5>1 DEF IsEndOfRows, NoRow
                <5>3. i[1] = range[1].start + i[1] * range[1].stride
                    BY <4>1, <5>1
                <5>4. i[1] \in 0 .. range[1].stop
                    BY <4>1, <5>1, <5>2
                <5> QED  BY <4>1, <5>3, <5>4 DEF Asked
            <4> QED  BY <4>2, <4>3
        <3> QED  BY <1>4, <3>1, <3>2
    <2>4. lev' > 1 /\ cur[1] = row[1] + 1
        BY <1>2, <1>4, <2>1 DEF RowsFit
    <2>5. Asked(1, val[1] - 1)'
        BY <1>2, <2>3 DEF Asked
    <2> QED  BY <1>2, <2>2, <2>4, <2>5 DEF RowsFit
<1>17. FlatFits'
    BY <1>2, <1>4 DEF FlatFits
<1> QED
    BY <1>8, <1>9, <1>10, <1>11, <1>12, <1>13, <1>14, <1>15, <1>16, <1>17 DEF Arrives, Moves

\* The client takes the marker of a row.
LEMMA ReadsMarker ==
    ASSUME NEW s, NEW g
    PROVE  Deserialize(Reader("marker", s, g), Marker("SOI")) = Reader("values", s, g)
<1> DEFINE r == Reader("marker", s, g)
           item == Marker("SOI")
<1>1. r.at = "marker" /\ item.kind = "SOI" /\ "SOI" # "EOS"
    BY DEF Reader, Marker
<1>2. [r EXCEPT !.at = "values"] = Reader("values", s, g)
    BY DEF Reader
<1> HIDE DEF r, item
<1>3. Deserialize(r, item) = [r EXCEPT !.at = "values"]
    BY <1>1 DEF Deserialize
<1> QED  BY <1>2, <1>3 DEF r, item

\* The client takes a row of a parent, and opens a vector for its child.
LEMMA ReadsParent ==
    ASSUME NEW s, NEW g, NEW l, l = Len(s), l < depth, l # depth
    PROVE  Deserialize(Reader("values", s, g), Values(l)) =
               Reader("marker", Append(s, Len(g) + 1), ParentAdded(g, Last(s), val[l]))
<1> DEFINE r == Reader("values", s, g)
           item == Values(l)
<1>1. /\ r.at = "values" /\ r.open = s /\ r.got = g
      /\ item.kind = "values" /\ item.level = l /\ item.val = val[l]
      /\ "marker" # "values"
    BY DEF Reader, Values
<1> HIDE DEF r, item
<1>2. Deserialize(r, item) = [at |-> "marker", open |-> Append(r.open, Len(r.got) + 1),
                              got |-> ParentAdded(r.got, Last(r.open), item.val)]
    BY <1>1, Zenon DEF Deserialize
<1> QED  BY <1>1, <1>2 DEF Reader, r, item

\* The client takes a row of the leaf.
LEMMA ReadsRow ==
    ASSUME NEW s, NEW g, NEW l, l = Len(s), l = depth, ~(l < depth)
    PROVE  Deserialize(Reader("values", s, g), Values(l)) =
               Reader("marker", s, RowAdded(g, Last(s), val[l]))
<1> DEFINE r == Reader("values", s, g)
           item == Values(l)
<1>1. /\ r.at = "values" /\ r.open = s /\ r.got = g
      /\ item.kind = "values" /\ item.level = l /\ item.val = val[l]
      /\ "marker" # "values"
    BY DEF Reader, Values
<1> HIDE DEF r, item
<1>2. Deserialize(r, item) = [at |-> "marker", open |-> r.open,
                              got |-> RowAdded(r.got, Last(r.open), item.val)]
    BY <1>1, Zenon DEF Deserialize
<1> QED  BY <1>1, <1>2 DEF Reader, r, item

\* The client takes an end marker, and is back in the parent.
LEMMA ReadsEnd ==
    ASSUME NEW s, NEW g
    PROVE  Deserialize(Reader("marker", s, g), Marker("EOS")) =
               Reader(IF Len(s) = 1 THEN "end" ELSE "marker", Front(s), g)
<1> DEFINE r == Reader("marker", s, g)
           item == Marker("EOS")
<1>1. r.at = "marker" /\ item.kind = "EOS" /\ "SOI" # "EOS" /\ r.open = s /\ r.got = g
    BY DEF Reader, Marker
<1> HIDE DEF r, item
<1>2. Deserialize(r, item) = [at |-> IF Len(r.open) = 1 THEN "end" ELSE "marker",
                              open |-> Front(r.open), got |-> r.got]
    BY <1>1, Zenon DEF Deserialize
<1> QED  BY <1>1, <1>2 DEF Reader, r, item

\* The end of the stack.
LEMMA LastIs ==
    ASSUME NEW s \in Seq(Nat), Len(s) > 0
    PROVE  Last(s) = s[Len(s)]
BY DEF Last

\* The stack without its end.
LEMMA FrontIs ==
    ASSUME NEW s \in Seq(Nat)
    PROVE  /\ Front(s) \in Seq(Nat)
           /\ Len(s) > 0 => Len(Front(s)) = Len(s) - 1
           /\ \A k \in 1 .. Len(s) - 1 : Front(s)[k] = s[k]
<1>1. Len(s) \in Nat /\ \A k \in 1 .. Len(s) - 1 : s[k] \in Nat
    OBVIOUS
<1> DEFINE n == Len(s)
<1>2. Front(s) = SubSeq(s, 1, n - 1)
    BY DEF Front
<1> HIDE DEF n
<1>3. /\ SubSeq(s, 1, n - 1) \in Seq(Nat)
      /\ Len(SubSeq(s, 1, n - 1)) = IF 1 <= n - 1 THEN n - 1 - 1 + 1 ELSE 0
      /\ \A k \in 1 .. n - 1 - 1 + 1 : SubSeq(s, 1, n - 1)[k] = s[1 + k - 1]
    BY <1>1, SubSeqProperties DEF n
<1>4. n \in Nat
    BY DEF n
<1>5. n > 0 => Len(SubSeq(s, 1, n - 1)) = n - 1
    BY <1>3, <1>4
<1>6. \A k \in 1 .. n - 1 : SubSeq(s, 1, n - 1)[k] = s[k]
    BY <1>3, <1>4
<1> QED  BY <1>2, <1>3, <1>5, <1>6 DEF n

\* The leaf begins when no parent has a row that is yet to be sent.
LEMMA LeafBeginsKeepsIInv ==
    ASSUME IInv, LeafBegins
    PROVE  IInv'
<1>1. SInv'
    BY LeafBeginsKeeps DEF IInv
<1>2. /\ step = "test" /\ lev = depth /\ first /\ first' = FALSE
      /\ Continues => \A l \in Levels : ~Waits(l)
      /\ wrote' = [wrote EXCEPT ![lev] = FALSE]
      /\ UNCHANGED <<step, lev, depth, range, i, status, row, read, unsent, cur, val, wire,
                     client, interned, stack, base, passed, chosen>>
    BY DEF LeafBegins, flags, handler, outcome
<1>3. RangesOutside' = RangesOutside
    BY <1>2 DEF RangesOutside
<1> SUFFICES ASSUME RangesOutside PROVE Arrives'
    BY <1>1, <1>2, <1>3 DEF IInv
<1>4. /\ Arrives /\ Moves /\ Shapes /\ SInv /\ RowsAhead
      /\ lev \in Levels /\ depth \in Levels /\ lev \in Nat /\ depth \in Nat
      /\ 1 <= lev /\ lev <= depth /\ depth <= MaxDepth /\ MaxDepth \in Nat
      /\ Len(stack) \in Nat /\ 1 <= Len(stack) /\ Len(stack) <= lev
      /\ 1 .. depth \subseteq Levels
    BY <1>2, Where
<1>5. /\ Filling' = Filling /\ ~Sending' /\ Sending = Filling
      /\ Filling <=> Continues
    BY <1>2 DEF Filling, Sending, Continues, IsEndOfRows
<1>6. /\ wrote'[lev] = FALSE /\ wrote' \in [Levels -> BOOLEAN]
      /\ \A k \in Levels : k # lev => wrote'[k] = wrote[k]
    BY <1>2, <1>4 DEF Shapes
<1>7. Filling => Len(stack) = depth
    <2> SUFFICES ASSUME Filling, Len(stack) < depth PROVE FALSE
        BY <1>2, <1>4
    <2>1. Len(stack) \in 1 .. lev - 1 /\ Len(stack) \in Levels
        BY <1>2, <1>4 DEF Levels
    <2>2. unsent[Len(stack)]
        BY <1>4, <2>1 DEF Moves, UnsentFits
    <2>3. Waits(Len(stack))
        BY <2>2 DEF Waits
    <2> QED  BY <1>2, <1>5, <2>1, <2>3
<1>8. Shapes'
    BY <1>2, <1>4, <1>6 DEF Shapes
<1>9. RangeAtTop' /\ ClientKeepsUp' /\ ChosenFits' /\ NoneEmpty' /\ WireFits'
    <2>1. RangeAtTop'
        BY <1>2, <1>4 DEF Arrives, RangeAtTop
    <2>2. ClientKeepsUp'
        BY <1>2, <1>4 DEF Arrives, ClientKeepsUp
    <2>3. ChosenFits'
        <3>1. LeafRows(interned)' = LeafRows(interned)
            BY <1>2 DEF LeafRows, RowsOf
        <3> QED  BY <1>2, <1>4, <1>5, <3>1 DEF Arrives, ChosenFits
    <2>4. NoneEmpty'
        BY <1>2, <1>4, <1>5 DEF Arrives, NoneEmpty
    <2>5. WireFits'
        BY <1>2, <1>4 DEF Arrives, WireFits
    <2> QED  BY <2>1, <2>2, <2>3, <2>4, <2>5
<1>10. StackFits'
    <2>1. StackFits
        BY <1>4 DEF Moves
    <2>2. \A l \in 1 .. Len(stack) : VectorFits(l)'
        BY <1>2, <2>1 DEF StackFits, VectorFits
    <2> QED  BY <1>2, <1>4, <2>1, <2>2 DEF StackFits
<1>11. UnsentFits'
    BY <1>2, <1>4 DEF Moves, UnsentFits
<1>12. WroteFits'
    <2>1. WroteFits
        BY <1>4 DEF Moves
    <2>2. ASSUME NEW l \in 2 .. lev, l < depth
          PROVE  /\ Len(stack) > l => wrote'[l]
                 /\ Len(stack) < l => ~wrote'[l]
                 /\ Len(stack) = l => wrote'[l]
        <3>1. l \in Levels /\ l # lev
            BY <1>2, <1>4, <2>2 DEF Levels
        <3>2. Len(stack) = l => ~Filling
            BY <1>7, <2>2, <3>1, <1>4
        <3> QED  BY <1>5, <1>6, <2>1, <2>2, <3>1, <3>2 DEF WroteFits
    <2> QED  BY <1>2, <1>4, <2>2 DEF WroteFits
<1>13. LeafWroteFits'
    <2> SUFFICES ASSUME depth > 1
                 PROVE  /\ wrote'[depth] => Len(stack) = depth
                        /\ Len(stack) = depth => wrote'[depth] \/ Filling
                        /\ Filling => Len(stack) = depth
        BY <1>2, <1>5 DEF LeafWroteFits
    <2>1. ~Filling => Len(stack) # depth
        BY <1>2, <1>4, <1>5 DEF Moves, StackFits, Running
    <2> QED  BY <1>2, <1>6, <1>7, <2>1
<1>14. BaseFits'
    <2> SUFFICES ASSUME NEW l \in 2 .. lev, l < depth
                 PROVE  base[l] < l /\ (Len(stack) < l => base[l] = Len(stack))
        BY <1>2, <1>5 DEF BaseFits
    <2>1. base[l] < l /\ (Len(stack) < l /\ ~Filling => base[l] = Len(stack))
        BY <1>2, <1>4, <1>5 DEF Moves, BaseFits
    <2> QED  BY <1>4, <1>7, <2>1
<1>15. HandlerFits'
    BY <1>2, <1>4 DEF Moves, HandlerFits
<1>16. RowsFit'
    <2>1. RowsFit
        BY <1>4 DEF Moves
    <2> QED  BY <1>2, <2>1 DEF RowsFit, Asked
<1>17. FlatFits'
    BY <1>2, <1>4 DEF Moves, FlatFits, Begins
<1> QED
    BY <1>2, <1>8, <1>9, <1>10, <1>11, <1>12, <1>13, <1>14, <1>15, <1>16, <1>17
    DEF Arrives, Moves

\* A sequence that something was appended to is not empty.
LEMMA MoreNotEmpty ==
    ASSUME NEW V, NEW s \in Seq(V), NEW x \in V
    PROVE  Append(s, x) # <<>>
BY AppendProperties

\* One stride more.
LEMMA OneMore ==
    ASSUME NEW k \in Nat, NEW t \in Int
    PROVE  (k + 1) * t = k * t + t
OBVIOUS

\* The leaf's parents send their rows one after the other, each to the vector
\* that the one before it has opened.
LEMMA SendParentKeepsIInv ==
    ASSUME IInv, NEW l \in Levels, SendParent(l)
    PROVE  IInv'
<1>1. SInv'
    BY LeafBeginsKeeps DEF IInv
<1>2. /\ step = "test" /\ lev = depth /\ first /\ Continues
      /\ l < depth /\ unsent[l] /\ \A k \in 1 .. l - 1 : ~Waits(k)
      /\ SendRow(l)
      /\ interned' = ParentAdded(interned, Last(stack), val[l])
      /\ stack' = Append(stack, Len(interned) + 1)
      /\ unsent' = [unsent EXCEPT ![l] = FALSE]
      /\ wrote' = [wrote EXCEPT ![l] = TRUE]
      /\ UNCHANGED <<step, lev, depth, range, i, status, first, row, read, cur, val, base,
                     passed, chosen>>
    BY DEF SendParent, MaySendParent, Waits, handler
<1>3. RangesOutside' = RangesOutside
    BY <1>2 DEF RangesOutside
<1> SUFFICES ASSUME RangesOutside PROVE Arrives'
    BY <1>1, <1>2, <1>3 DEF IInv
<1>4. /\ Arrives /\ Moves /\ Shapes /\ SInv /\ RowsAhead
      /\ lev \in Levels /\ depth \in Levels /\ lev \in Nat /\ depth \in Nat
      /\ 1 <= lev /\ lev <= depth /\ depth <= MaxDepth /\ MaxDepth \in Nat
      /\ Len(stack) \in Nat /\ 1 <= Len(stack) /\ Len(stack) <= lev
      /\ 1 .. depth \subseteq Levels
    BY <1>2, Where
<1>5. Filling' = Filling /\ Sending' = Sending /\ Filling /\ Sending
    BY <1>2 DEF Filling, Sending, Continues, IsEndOfRows
<1>6. l = Len(stack) /\ l \in Nat
    <2>1. l \in Nat /\ l \in 1 .. lev - 1
        BY <1>2, <1>4 DEF Levels
    <2>2. l >= Len(stack)
        BY <1>2, <1>4, <2>1 DEF Moves, UnsentFits
    <2>3. ASSUME l > Len(stack) PROVE FALSE
        <3>1. Len(stack) \in 1 .. l - 1 /\ Len(stack) \in 1 .. lev - 1 /\ Len(stack) < depth
            BY <1>2, <1>4, <2>1, <2>3
        <3>2. unsent[Len(stack)]
            BY <1>4, <3>1 DEF Moves, UnsentFits
        <3> QED  BY <1>2, <3>1, <3>2 DEF Waits
    <2> QED  BY <1>4, <2>1, <2>2, <2>3
<1> DEFINE top == stack[l]
           n == Len(interned)
<1>7. /\ n \in Nat /\ top \in 1 .. n /\ Last(stack) = top
      /\ interned[top].of = SubSeq(val, 1, l - 1)
      /\ stack \in Seq(Nat) /\ interned \in Seq(Vector) /\ val[l] \in Nat
    <2>1. stack \in Seq(Nat) /\ interned \in Seq(Vector) /\ val[l] \in Nat
        BY <1>4 DEF Shapes
    <2>2. VectorFits(l)
        BY <1>4, <1>6 DEF Moves, StackFits
    <2>3. Last(stack) = top
        BY <1>4, <1>6, <2>1, LastIs
    <2> QED  BY <2>1, <2>2, <2>3 DEF VectorFits
<1>8. /\ stack' \in Seq(Nat) /\ Len(stack') = l + 1 /\ stack'[l + 1] = n + 1
      /\ \A k \in 1 .. l : stack'[k] = stack[k]
    BY <1>2, <1>6, <1>7
<1> HIDE DEF top, n
<1>9. /\ interned' \in Seq(Vector) /\ Len(interned') = n + 1
      /\ \A k \in 1 .. n : interned'[k].of = interned[k].of
      /\ \A k \in 1 .. n : k # top => interned'[k] = interned[k]
      /\ interned'[top].rows = Append(interned[top].rows, val[l])
      /\ interned'[n + 1].of = Append(interned[top].of, val[l])
    <2> DEFINE x == val[l]
               p == ParentAdded(interned, top, x)
    <2>1. interned' = p
        BY <1>2, <1>7
    <2>2. interned \in Seq(Vector) /\ top \in 1 .. Len(interned) /\ x \in Nat
        BY <1>7 DEF n
    <2> HIDE DEF x
    <2>3. /\ p \in Seq(Vector) /\ Len(p) = Len(interned) + 1
          /\ \A k \in 1 .. Len(interned) : p[k].of = interned[k].of
          /\ \A k \in 1 .. Len(interned) : k # top => p[k] = interned[k]
          /\ p[top].rows = Append(interned[top].rows, x)
          /\ p[Len(interned) + 1].of = Append(interned[top].of, x)
        BY <2>2, ParentAddedShape, Zenon
    <2> HIDE DEF p
    <2> QED  BY <2>1, <2>3 DEF n, x
<1>10. /\ unsent' \in [Levels -> BOOLEAN] /\ wrote' \in [Levels -> BOOLEAN]
       /\ ~unsent'[l] /\ wrote'[l]
       /\ \A k \in Levels : k # l => unsent'[k] = unsent[k] /\ wrote'[k] = wrote[k]
    BY <1>2, <1>4 DEF Shapes
<1>11. chosen # <<>>
    <2>1. chosen = Append(LeafRows(interned), SubSeq(val, 1, depth))
        BY <1>4, <1>5 DEF Arrives, ChosenFits
    <2>2. LeafRows(interned) \in Seq(Path)
        BY <1>7, LeafRowsShape
    <2>3. Len(chosen) # 0
        BY <2>1, <2>2
    <2> QED  BY <2>3
<1>12. Shapes'
    BY <1>2, <1>4, <1>8, <1>9, <1>10 DEF Shapes
<1>13. ClientKeepsUp'
    <2>1. client = Reader("marker", stack, interned)
        BY <1>2, <1>4 DEF Arrives, ClientKeepsUp
    <2>2. client' = Deserialize(Deserialize(client, Marker("SOI")), Values(l))
        BY <1>2 DEF SendRow
    <2>3. client' = Deserialize(Reader("values", stack, interned), Values(l))
        BY <2>1, <2>2, ReadsMarker
    <2>4. l # depth
        BY <1>2, <1>4, <1>6
    <2>5. client' = Reader("marker", stack', interned')
        BY <1>2, <1>6, <2>3, <2>4, ReadsParent
    <2> QED  BY <1>2, <2>5 DEF ClientKeepsUp, Reader
<1>14. RangeAtTop' /\ ChosenFits' /\ NoneEmpty' /\ WireFits'
    <2>1. RangeAtTop'
        BY <1>2, <1>4 DEF Arrives, RangeAtTop
    <2>2. ChosenFits'
        <3>1. Len(interned[top].of) = l - 1
            <4>1. l - 1 \in 0 .. MaxDepth
                BY <1>2, <1>4, <1>6
            <4> QED  BY <1>4, <1>7, <4>1, FilesPath DEF Shapes
        <3>2. l - 1 # depth - 1
            BY <1>2, <1>4, <1>6
        <3>3. LeafRows(interned') = LeafRows(interned)
            BY <1>2, <1>7, <3>1, <3>2, LeafRowsParent DEF n
        <3>4. LeafRows(interned)' = LeafRows(interned')
            BY <1>2 DEF LeafRows, RowsOf
        <3> QED  BY <1>2, <1>4, <1>5, <3>3, <3>4 DEF Arrives, ChosenFits
    <2>3. NoneEmpty'
        <3> SUFFICES ASSUME NEW k \in 2 .. n + 1
                     PROVE  interned'[k].rows # <<>> \/ (k = n + 1 /\ stack'[l + 1] = k)
            BY <1>5, <1>6, <1>8, <1>9 DEF NoneEmpty
        <3>1. CASE k = n + 1
            BY <1>8, <3>1
        <3>2. CASE k = top
            <4>1. interned[top] \in Vector
                BY <1>7 DEF n
            <4>2. interned[top].rows \in Seq(Nat)
                BY <4>1 DEF Vector
            <4>3. Append(interned[top].rows, val[l]) # <<>>
                BY <1>7, <4>2, MoreNotEmpty
            <4> QED  BY <1>9, <3>2, <4>3
        <3>3. CASE k # n + 1 /\ k # top
            <4>1. k \in 2 .. n /\ k \in 1 .. n
                BY <1>7, <3>3
            <4>2. interned[k].rows # <<>> \/ stack[Len(stack)] = k
                BY <1>4, <4>1 DEF Arrives, NoneEmpty, n
            <4>3. interned[k].rows # <<>>
                BY <1>6, <3>3, <4>2 DEF top
            <4> QED  BY <1>9, <3>3, <4>1, <4>3
        <3> QED  BY <3>1, <3>2, <3>3
    <2>4. WireFits'
        BY <1>2, <1>11 DEF WireFits
    <2> QED  BY <2>1, <2>2, <2>3, <2>4
<1>15. StackFits'
    <2>1. \A k \in 1 .. l : VectorFits(k)'
        <3> SUFFICES ASSUME NEW k \in 1 .. l
                     PROVE  /\ stack'[k] \in 1 .. n + 1
                            /\ interned'[stack'[k]].of = SubSeq(val, 1, k - 1)
            BY <1>2, <1>9 DEF VectorFits
        <3>1. stack[k] \in 1 .. n /\ interned[stack[k]].of = SubSeq(val, 1, k - 1)
            BY <1>4, <1>6 DEF Moves, StackFits, VectorFits, n
        <3>2. stack'[k] = stack[k] /\ stack[k] \in 1 .. n + 1
            BY <1>7, <1>8, <3>1
        <3>3. interned'[stack[k]].of = interned[stack[k]].of
            BY <1>9, <3>1
        <3> QED  BY <3>1, <3>2, <3>3
    <2>2. ASSUME NEW k \in 1 .. l + 1, k = l + 1 PROVE VectorFits(k)'
        <3>1. k - 1 = l
            BY <1>6, <2>2
        <3>2. interned'[n + 1].of = SubSeq(val, 1, l)
            BY <1>4, <1>7, <1>9, NextPath DEF Shapes
        <3>3. n + 1 \in 1 .. n + 1
            BY <1>7
        <3>4. stack'[k] \in 1 .. Len(interned') /\ interned'[stack'[k]].of = SubSeq(val', 1, k - 1)
            BY <1>2, <1>8, <1>9, <2>2, <3>1, <3>2, <3>3
        <3> QED  BY <3>4 DEF VectorFits
    <2>3. \A k \in 1 .. l + 1 : k \in 1 .. l \/ k = l + 1
        BY <1>6
    <2>4. \A k \in 1 .. Len(stack') : VectorFits(k)'
        BY <1>8, <2>1, <2>2, <2>3
    <2>5. Len(stack') \in 1 .. lev
        BY <1>2, <1>4, <1>6, <1>8
    <2> QED  BY <1>2, <1>5, <1>8, <1>9, <2>4, <2>5 DEF StackFits
<1>16. UnsentFits'
    <2>1. \A k \in 1 .. lev - 1 : unsent'[k] <=> k >= l + 1
        <3> SUFFICES ASSUME NEW k \in 1 .. lev - 1 PROVE unsent'[k] <=> k >= l + 1
            OBVIOUS
        <3>1. k \in Levels /\ (unsent[k] <=> k >= l)
            BY <1>4, <1>6 DEF Moves, UnsentFits, Levels
        <3> QED  BY <1>6, <1>10, <3>1
    <2> QED  BY <1>2, <1>4, <1>8, <2>1 DEF UnsentFits
<1>17. WroteFits'
    <2>1. WroteFits
        BY <1>4 DEF Moves
    <2>2. ASSUME NEW k \in 2 .. lev, k < depth
          PROVE  /\ l + 1 > k => wrote'[k]
                 /\ l + 1 < k => ~wrote'[k]
        <3>1. k \in Levels /\ k \in Nat
            BY <1>4 DEF Levels
        <3>2. CASE k = l
            BY <1>6, <1>10, <3>2
        <3>3. CASE k # l
            <4>1. (l > k => wrote[k]) /\ (l < k => ~wrote[k])
                BY <1>6, <2>1, <2>2 DEF WroteFits
            <4> QED  BY <1>6, <1>10, <3>1, <3>3, <4>1
        <3> QED  BY <3>2, <3>3
    <2> QED  BY <1>2, <1>4, <1>5, <1>8, <2>2 DEF WroteFits
<1>18. LeafWroteFits'
    BY <1>2 DEF LeafWroteFits
<1>19. BaseFits'
    BY <1>2, <1>4, <1>5 DEF Moves, BaseFits
<1>20. HandlerFits'
    BY <1>2, <1>4 DEF Moves, HandlerFits
<1>21. RowsFit'
    <2>1. RowsFit
        BY <1>4 DEF Moves
    <2> QED  BY <1>2, <2>1 DEF RowsFit, Asked
<1>22. FlatFits'
    BY <1>2, <1>4 DEF Moves, FlatFits, Begins
<1> QED
    BY <1>2, <1>12, <1>13, <1>14, <1>15, <1>16, <1>17, <1>18, <1>19, <1>20, <1>21, <1>22
    DEF Arrives, Moves

\* A row of the leaf goes to the vector that its parents have opened.
LEMMA LeafRowKeepsIInv ==
    ASSUME IInv, LeafRow
    PROVE  IInv'
<1>1. SInv'
    BY LeafRowKeeps DEF IInv
<1>2. /\ step = "test" /\ step' = "read" /\ lev = depth /\ ~first /\ Continues /\ status
      /\ SendRow(lev)
      /\ i' = [i EXCEPT ![lev] = @ + range[lev].stride]
      /\ wrote' = [wrote EXCEPT ![lev] = TRUE]
      /\ interned' = RowAdded(interned, Last(stack), val[lev])
      /\ read' = [k \in Levels |-> IF k >= lev THEN FALSE ELSE read[k]]
      /\ UNCHANGED <<lev, depth, range, status, first, row, unsent, cur, val, stack, base,
                     passed, chosen>>
    BY DEF LeafRow, Continues, SetReadP, handler
<1>3. RangesOutside' = RangesOutside
    BY <1>2 DEF RangesOutside
<1> SUFFICES ASSUME RangesOutside PROVE Arrives'
    BY <1>1, <1>2, <1>3 DEF IInv
<1>4. /\ Arrives /\ Moves /\ Shapes /\ SInv /\ RowsAhead
      /\ lev \in Levels /\ depth \in Levels /\ lev \in Nat /\ depth \in Nat
      /\ 1 <= lev /\ lev <= depth /\ depth <= MaxDepth /\ MaxDepth \in Nat
      /\ Len(stack) \in Nat /\ 1 <= Len(stack) /\ Len(stack) <= lev
      /\ 1 .. depth \subseteq Levels
    BY <1>2, Where
<1>5. Filling /\ ~Filling' /\ ~Sending' /\ Running'
    BY <1>2 DEF Filling, Sending, Running
<1>6. Len(stack) = lev
    <2>1. CASE depth > 1
        BY <1>2, <1>4, <1>5, <2>1 DEF Moves, LeafWroteFits
    <2>2. CASE depth = 1
        <3>1. lev = 1
            BY <1>2, <2>2
        <3> DEFINE m == Len(stack)
        <3>2. m \in Nat /\ 1 <= m /\ m <= lev
            BY <1>4
        <3> HIDE DEF m
        <3>3. m = lev
            BY <3>1, <3>2
        <3> QED  BY <3>3 DEF m
    <2> QED  BY <1>4, <2>1, <2>2
<1> DEFINE n == Len(interned)
<1>7. /\ n \in Nat /\ n \in 1 .. n /\ Last(stack) = n /\ stack[lev] = n
      /\ interned[n].of = SubSeq(val, 1, lev - 1)
      /\ stack \in Seq(Nat) /\ interned \in Seq(Vector) /\ val[lev] \in Nat
    <2>1. stack \in Seq(Nat) /\ interned \in Seq(Vector) /\ val[lev] \in Nat
        BY <1>4 DEF Shapes
    <2>2. VectorFits(lev) /\ stack[lev] = n
        BY <1>2, <1>4, <1>6 DEF Moves, StackFits
    <2>3. Last(stack) = n
        BY <1>4, <1>6, <2>1, <2>2, LastIs
    <2> QED  BY <2>1, <2>2, <2>3 DEF VectorFits
<1>8. Len(interned[n].of) = lev - 1
    <2>1. lev - 1 \in 0 .. MaxDepth
        BY <1>2, <1>4
    <2> QED  BY <1>4, <1>7, <2>1, FilesPath DEF Shapes
<1> HIDE DEF n
<1>9. /\ interned' \in Seq(Vector) /\ Len(interned') = n
      /\ \A k \in 1 .. n : interned'[k].of = interned[k].of
      /\ \A k \in 1 .. n : k # n => interned'[k] = interned[k]
      /\ interned'[n].rows = Append(interned[n].rows, val[lev])
    <2>1. interned' = RowAdded(interned, n, val[lev])
        BY <1>2, <1>7
    <2>2. n \in 1 .. Len(interned)
        BY <1>7 DEF n
    <2> QED  BY <1>7, <2>1, <2>2, RowAddedShape DEF n
<1>10. /\ wrote' \in [Levels -> BOOLEAN] /\ wrote'[lev]
       /\ \A k \in Levels : k # lev => wrote'[k] = wrote[k]
       /\ read' \in [Levels -> BOOLEAN] /\ ~read'[lev]
    BY <1>2, <1>4 DEF Shapes
<1>11. /\ i'[lev] = i[lev] + range[lev].stride /\ row[lev] = i[lev] /\ i[lev] \in Int
       /\ range[lev].stride \in Int /\ \A k \in Levels : k # lev => i'[k] = i[k]
    BY <1>2, <1>4 DEF RowsAhead, SInv, Typed, RangeSet
<1>12. chosen = Append(LeafRows(interned), SubSeq(val, 1, depth))
    BY <1>4, <1>5 DEF Arrives, ChosenFits
<1>13. Shapes'
    BY <1>2, <1>4, <1>9, <1>10 DEF Shapes
<1>14. ClientKeepsUp'
    <2>1. client = Reader("marker", stack, interned)
        BY <1>2, <1>4 DEF Arrives, ClientKeepsUp
    <2>2. client' = Deserialize(Deserialize(client, Marker("SOI")), Values(lev))
        BY <1>2 DEF SendRow
    <2>3. client' = Deserialize(Reader("values", stack, interned), Values(lev))
        BY <2>1, <2>2, ReadsMarker
    <2>4. ~(lev < depth)
        BY <1>2, <1>4
    <2>5. client' = Reader("marker", stack, interned')
        BY <1>2, <1>6, <2>3, <2>4, ReadsRow
    <2> QED  BY <1>2, <2>5 DEF ClientKeepsUp, Reader
<1>15. RangeAtTop' /\ ChosenFits' /\ NoneEmpty' /\ WireFits'
    <2>1. RangeAtTop'
        BY <1>2, <1>4 DEF Arrives, RangeAtTop
    <2>2. ChosenFits'
        <3>1. interned # <<>>
            BY <1>7 DEF n
        <3>2. LeafRows(interned') = Append(LeafRows(interned), Append(interned[n].of, val[lev]))
            BY <1>2, <1>7, <1>8, <3>1, LeafRowsRow DEF n
        <3>3. Append(interned[n].of, val[lev]) = SubSeq(val, 1, lev)
            BY <1>4, <1>7, NextPath DEF Shapes
        <3>4. LeafRows(interned)' = LeafRows(interned')
            BY <1>2 DEF LeafRows, RowsOf
        <3> QED  BY <1>2, <1>5, <1>12, <3>2, <3>3, <3>4 DEF ChosenFits
    <2>3. NoneEmpty'
        <3> SUFFICES ASSUME NEW k \in 2 .. n PROVE interned'[k].rows # <<>>
            BY <1>9 DEF NoneEmpty
        <3>1. CASE k = n
            <4>1. interned[n] \in Vector
                BY <1>7 DEF n
            <4>2. interned[n].rows \in Seq(Nat)
                BY <4>1 DEF Vector
            <4>3. Append(interned[n].rows, val[lev]) # <<>>
                BY <1>7, <4>2, MoreNotEmpty
            <4> QED  BY <1>9, <3>1, <4>3
        <3>2. CASE k # n
            <4>1. k \in 1 .. n /\ interned[k].rows # <<>>
                BY <1>4, <3>2 DEF Arrives, NoneEmpty, n
            <4> QED  BY <1>9, <3>2, <4>1
        <3> QED  BY <3>1, <3>2
    <2>4. WireFits'
        <3>1. chosen # <<>>
            <4>1. LeafRows(interned) \in Seq(Path)
                BY <1>7, LeafRowsShape
            <4>2. Len(chosen) # 0
                BY <1>12, <4>1
            <4> QED  BY <4>2
        <3> QED  BY <1>2, <3>1 DEF WireFits
    <2> QED  BY <2>1, <2>2, <2>3, <2>4
<1>16. StackFits'
    <2>1. \A k \in 1 .. Len(stack) : VectorFits(k)'
        <3> SUFFICES ASSUME NEW k \in 1 .. Len(stack)
                     PROVE  stack[k] \in 1 .. n /\ interned'[stack[k]].of = SubSeq(val, 1, k - 1)
            BY <1>2, <1>9 DEF VectorFits
        <3>1. stack[k] \in 1 .. n /\ interned[stack[k]].of = SubSeq(val, 1, k - 1)
            BY <1>4 DEF Moves, StackFits, VectorFits, n
        <3> QED  BY <1>9, <3>1
    <2> QED  BY <1>2, <1>4, <1>6, <1>7, <1>9, <2>1 DEF StackFits
<1>17. UnsentFits'
    BY <1>2, <1>4, <1>10 DEF Moves, UnsentFits
<1>18. WroteFits'
    <2>1. WroteFits
        BY <1>4 DEF Moves
    <2>2. ASSUME NEW k \in 2 .. lev, k < depth PROVE wrote'[k]
        <3>1. k \in Levels /\ k # lev /\ wrote[k]
            BY <1>2, <1>4, <1>6, <2>1, <2>2 DEF WroteFits, Levels
        <3> QED  BY <1>10, <3>1
    <2>3. \A k \in 2 .. lev : k < depth => Len(stack) > k
        BY <1>2, <1>4, <1>6
    <2> QED  BY <1>2, <1>4, <2>2, <2>3 DEF WroteFits
<1>19. LeafWroteFits'
    BY <1>2, <1>6, <1>10 DEF LeafWroteFits
<1>20. BaseFits'
    <2> SUFFICES ASSUME NEW k \in 2 .. lev, k < depth
                 PROVE  base[k] < k /\ ~(Len(stack) < k)
        BY <1>2 DEF BaseFits
    <2> QED  BY <1>2, <1>4, <1>6 DEF Moves, BaseFits
<1>21. HandlerFits'
    <2>1. \A k \in lev + 1 .. depth : FALSE
        BY <1>2, <1>4
    <2> QED  BY <1>2, <2>1 DEF HandlerFits
<1>22. RowsFit'
    <2> SUFFICES ASSUME depth > 1
                 PROVE  /\ cur[1] = row[1] + 1
                        /\ Asked(1, val[1] - 1)
                        /\ \A k \in 1 .. lev - 1 : i'[k] = row[k] + 1
                        /\ i'[lev] = row[lev] + 1
        BY <1>2, <1>4 DEF RowsFit, Asked
    <2>1. RowsFit
        BY <1>4 DEF Moves
    <2>2. \A k \in 1 .. lev - 1 : k \in Levels /\ k # lev
        BY <1>4 DEF Levels
    <2>3. range[lev].stride = 1
        BY <1>2, <1>4, AtTop
    <2> QED  BY <1>2, <1>11, <2>1, <2>2, <2>3 DEF RowsFit
<1>23. FlatFits'
    <2> SUFFICES ASSUME depth = 1
                 PROVE  /\ ~read'[1] /\ cur[1] # 0 /\ passed = row[1] + 1
                        /\ \E k \in Nat : /\ i'[1] = Begins(1) + k * range[1].stride
                                          /\ row[1] >= i'[1] - range[1].stride
        BY <1>2 DEF FlatFits, Begins
    <2>1. lev = 1
        BY <1>2
    <2>2. ~read'[1] /\ cur[1] # 0 /\ passed = row[1] + 1
        BY <1>2, <1>4, <1>10, <2>1 DEF Moves, FlatFits
    <2>3. PICK k \in Nat : i[1] = Begins(1) + k * range[1].stride
        BY <1>2, <1>4 DEF Moves, FlatFits
    <2>4. (k + 1) * range[1].stride = k * range[1].stride + range[1].stride
        <3>1. range[1].stride \in Int
            BY <1>11, <2>1
        <3> QED  BY <3>1, OneMore
    <2>5. k * range[1].stride \in Int /\ Begins(1) \in Int
        BY <1>4, <1>11, <2>1 DEF Begins, SInv, Typed, RangeSet
    <2>6. i'[1] = Begins(1) + (k + 1) * range[1].stride /\ row[1] >= i'[1] - range[1].stride
        BY <1>11, <2>1, <2>3, <2>4, <2>5
    <2>7. k + 1 \in Nat
        OBVIOUS
    <2> QED  BY <2>2, <2>6, <2>7
<1> QED
    BY <1>2, <1>13, <1>14, <1>15, <1>16, <1>17, <1>18, <1>19, <1>20, <1>21, <1>22, <1>23
    DEF Arrives, Moves

\* The vector of an instance is taken from the stack, and an end marker is
\* written, if and only if a row of the instance has been sent.
LEMMA InstanceEnds ==
    ASSUME IInv, RangesOutside, LeafEnds \/ ParentEnds, lev # 1
    PROVE  /\ stack' = IF Len(stack) = lev THEN Front(stack) ELSE stack
           /\ wrote[lev] <=> Len(stack) = lev
<1>1. step = "test" /\ ~Continues
    BY DEF LeafEnds, ParentEnds
<1>2. /\ Arrives /\ Moves /\ lev \in Nat /\ depth \in Nat /\ 1 <= lev /\ lev <= depth
      /\ Len(stack) \in Nat /\ 1 <= Len(stack) /\ Len(stack) <= lev
    BY <1>1, Where
<1>3. ~Filling /\ ~Sending
    BY <1>1 DEF Filling, Sending
<1>4. CASE LeafEnds
    <2>1. lev = depth /\ ~first /\ stack' = IF wrote[lev] THEN Front(stack) ELSE stack
        BY <1>4 DEF LeafEnds
    <2>2. wrote[lev] <=> Len(stack) = lev
        <3>1. depth > 1
            BY <1>2, <2>1
        <3> QED  BY <1>1, <1>2, <1>3, <2>1, <3>1 DEF Moves, LeafWroteFits
    <2> QED  BY <2>1, <2>2
<1>5. CASE ParentEnds
    <2>1. lev < depth /\ stack' = IF Len(stack) > base[lev] THEN Front(stack) ELSE stack
        BY <1>5 DEF ParentEnds
    <2>2. lev \in 2 .. lev
        BY <1>2
    <2>3. wrote[lev] <=> Len(stack) = lev
        <3>1. /\ Len(stack) < lev => ~wrote[lev]
              /\ Len(stack) = lev => wrote[lev]
            BY <1>2, <1>3, <2>1, <2>2 DEF Moves, WroteFits
        <3> QED  BY <1>2, <3>1
    <2>4. base[lev] < lev /\ (Len(stack) < lev => base[lev] = Len(stack))
        BY <1>1, <1>2, <1>3, <2>1, <2>2 DEF Moves, BaseFits
    <2>5. Len(stack) > base[lev] <=> Len(stack) = lev
        <3> DEFINE n == Len(stack)
                   b == base[lev]
        <3>1. n \in Nat /\ n <= lev /\ b < lev /\ (n < lev => b = n)
            BY <1>2, <2>4
        <3> HIDE DEF n, b
        <3>2. n > b <=> n = lev
            BY <1>2, <3>1
        <3> QED  BY <3>2 DEF n, b
    <2> QED  BY <2>1, <2>3, <2>5
<1> QED  BY <1>4, <1>5

\* An instance ends, at the client too if it has been begun there.
LEMMA EndKeepsIInv ==
    ASSUME IInv, LeafEnds \/ ParentEnds
    PROVE  IInv'
<1>1. SInv'
    BY EndKeeps DEF IInv
<1>2. /\ step = "test" /\ ~Continues /\ Return /\ EndOfSequence
      /\ stack' = stack \/ stack' = Front(stack)
      /\ row' = row \/ row' = [row EXCEPT ![lev] = NoRow]
      /\ wrote' = wrote \/ wrote' = [wrote EXCEPT ![lev] = FALSE]
      /\ lev # depth => wrote' = [wrote EXCEPT ![lev] = FALSE]
      /\ UNCHANGED <<depth, range, i, status, first, unsent, cur, val, interned, base, passed,
                     chosen>>
    BY DEF LeafEnds, ParentEnds, handler
<1>3. RangesOutside' = RangesOutside
    BY <1>2 DEF RangesOutside
<1>4. step' \in {"done", "read"}
    BY <1>2 DEF Return
<1> SUFFICES ASSUME RangesOutside PROVE Arrives'
    BY <1>1, <1>3, <1>4 DEF IInv
<1>5. /\ Arrives /\ Moves /\ Shapes /\ SInv /\ RowsAhead
      /\ lev \in Levels /\ depth \in Levels /\ lev \in Nat /\ depth \in Nat
      /\ 1 <= lev /\ lev <= depth /\ depth <= MaxDepth /\ MaxDepth \in Nat
      /\ Len(stack) \in Nat /\ 1 <= Len(stack) /\ Len(stack) <= lev
      /\ 1 .. depth \subseteq Levels
    BY <1>2, Where
<1>6. ~Filling /\ ~Sending /\ ~Filling' /\ ~Sending'
    BY <1>2, <1>4 DEF Filling, Sending
<1>7. Shapes'
    <2>1. stack' \in Seq(Nat)
        BY <1>2, <1>5, FrontIs DEF Shapes
    <2>2. wrote' \in [Levels -> BOOLEAN]
        BY <1>2, <1>5 DEF Shapes
    <2>3. read' \in [Levels -> BOOLEAN]
        <3>1. read' = read \/ read' = [k \in Levels |-> IF k >= lev - 1 THEN FALSE ELSE read[k]]
            BY <1>2 DEF Return, SetReadP
        <3> QED  BY <1>5, <3>1 DEF Shapes
    <2> QED  BY <1>2, <1>5, <2>1, <2>2, <2>3 DEF Shapes
<1>8. RangeAtTop' /\ ChosenFits' /\ NoneEmpty'
    <2>1. RangeAtTop'
        BY <1>2, <1>5 DEF Arrives, RangeAtTop
    <2>2. ChosenFits'
        <3>1. LeafRows(interned)' = LeafRows(interned)
            BY <1>2 DEF LeafRows, RowsOf
        <3> QED  BY <1>2, <1>5, <1>6, <3>1 DEF Arrives, ChosenFits
    <2>3. NoneEmpty'
        BY <1>2, <1>5, <1>6 DEF Arrives, NoneEmpty
    <2> QED  BY <2>1, <2>2, <2>3
<1>9. client = Reader("marker", stack, interned)
    BY <1>2, <1>5 DEF Arrives, ClientKeepsUp
<1>10. ASSUME SendEnd
       PROVE  client' = Reader(IF Len(stack) = 1 THEN "end" ELSE "marker", Front(stack), interned)
    BY <1>9, <1>10, ReadsEnd DEF SendEnd
<1>11. CASE lev = 1
    <2>1. step' = "done" /\ SendEnd
        BY <1>2, <1>11 DEF Return, EndOfSequence
    <2>2. Len(stack) = 1
        <3> DEFINE n == Len(stack)
        <3>1. n \in Nat /\ 1 <= n /\ n <= 1
            BY <1>5, <1>11
        <3> HIDE DEF n
        <3>2. n = 1
            BY <3>1
        <3> QED  BY <3>2 DEF n
    <2>3. ClientKeepsUp'
        BY <1>2, <1>10, <2>1, <2>2 DEF ClientKeepsUp, Reader
    <2>4. WireFits'
        <3>1. chosen = <<>> => wire = <<>>
            BY <1>2, <1>5 DEF Arrives, WireFits
        <3>2. wire' = Append(wire, Marker("EOS"))
            BY <2>1 DEF SendEnd
        <3>3. Append(<<>>, Marker("EOS")) = <<Marker("EOS")>>
            OBVIOUS
        <3> QED  BY <1>2, <2>1, <3>1, <3>2, <3>3 DEF WireFits, Marker
    <2> QED  BY <1>7, <1>8, <2>1, <2>3, <2>4 DEF Arrives
<1>12. CASE lev # 1
    <2>1. /\ step' = "read" /\ lev' = lev - 1
          /\ read' = [k \in Levels |-> IF k >= lev - 1 THEN FALSE ELSE read[k]]
        BY <1>2, <1>12 DEF Return, SetReadP
    <2>2. /\ lev > 1 /\ depth > 1 /\ lev' \in Levels /\ lev' \in Nat /\ lev' >= 1 /\ lev' < depth
          /\ lev' < lev
        BY <1>5, <1>12, <2>1 DEF Levels
    <2>3. ~status
        BY <1>2, <1>5, <1>12, NoEndInside DEF SInv, Continues
    <2>4. /\ stack' = IF Len(stack) = lev THEN Front(stack) ELSE stack
          /\ wrote[lev] <=> Len(stack) = lev
        BY <1>12, InstanceEnds
    <2>5. /\ Len(stack') \in Nat /\ 1 <= Len(stack') /\ Len(stack') <= lev'
          /\ Len(stack) = lev => Len(stack') = lev'
          /\ Len(stack) # lev => Len(stack') = Len(stack)
          /\ \A k \in 1 .. Len(stack') : k \in 1 .. Len(stack) /\ stack'[k] = stack[k]
        <3>1. stack \in Seq(Nat)
            BY <1>5 DEF Shapes
        <3>2. CASE Len(stack) = lev
            <4>1. stack' = Front(stack) /\ stack # <<>>
                <5>1. Len(stack) # 0
                    BY <2>2, <3>2
                <5> QED  BY <2>4, <3>2, <5>1
            <4>2. /\ Len(Front(stack)) = Len(stack) - 1
                  /\ \A k \in 1 .. Len(stack) - 1 : Front(stack)[k] = stack[k]
                BY <3>1, <4>1, FrontIs
            <4>3. /\ Len(stack') = lev - 1
                  /\ \A k \in 1 .. lev - 1 : stack'[k] = stack[k]
                BY <3>2, <4>1, <4>2
            <4> QED  BY <1>5, <2>1, <2>2, <3>2, <4>3
        <3>3. CASE Len(stack) # lev
            <4>1. stack' = stack
                BY <2>4, <3>3
            <4>2. Len(stack) <= lev - 1
                BY <1>5, <3>3
            <4> QED  BY <1>5, <2>1, <3>3, <4>1, <4>2
        <3> QED  BY <3>2, <3>3
    <2>6. \A k \in Levels : k >= lev' => ~read'[k]
        BY <2>1
    <2>7. \A k \in 1 .. lev' : k \in Levels /\ k # lev /\ k \in 1 .. lev - 1
        BY <1>5, <2>1, <2>2 DEF Levels
    <2>8. ClientKeepsUp'
        <3>1. CASE Len(stack) = lev
            <4>1. SendEnd
                BY <1>2, <2>4, <3>1 DEF EndOfSequence
            <4>2. Len(stack) # 1
                BY <1>12, <3>1
            <4>3. client' = Reader("marker", stack', interned')
                BY <1>2, <1>10, <2>4, <3>1, <4>1, <4>2
            <4> QED  BY <2>1, <4>3 DEF ClientKeepsUp, Reader
        <3>2. CASE Len(stack) # lev
            <4>1. UNCHANGED client
                BY <1>2, <1>12, <2>4, <3>2 DEF EndOfSequence
            <4>2. stack' = stack
                BY <2>4, <3>2
            <4> QED  BY <1>2, <1>9, <2>1, <4>1, <4>2 DEF ClientKeepsUp, Reader
        <3> QED  BY <3>1, <3>2
    <2>9. WireFits'
        <3>1. /\ Len(stack) > 1 => chosen # <<>>
              /\ chosen = <<>> => wire = <<>>
            BY <1>2, <1>5 DEF Arrives, WireFits
        <3>2. Len(stack') > 1 => Len(stack) > 1
            BY <1>5, <2>2, <2>5
        <3>3. CASE Len(stack) = lev
            <4>1. chosen # <<>>
                BY <2>2, <3>1, <3>3
            <4> QED  BY <1>2, <4>1 DEF WireFits
        <3>4. CASE Len(stack) # lev
            <4>1. UNCHANGED wire
                BY <1>2, <1>12, <2>4, <3>4 DEF EndOfSequence
            <4> QED  BY <1>2, <2>1, <3>1, <3>2, <4>1 DEF WireFits
        <3> QED  BY <3>3, <3>4
    <2>10. StackFits'
        <3>1. \A k \in 1 .. Len(stack') : VectorFits(k)'
            <4> SUFFICES ASSUME NEW k \in 1 .. Len(stack')
                         PROVE  /\ stack'[k] \in 1 .. Len(interned)
                                /\ interned[stack'[k]].of = SubSeq(val, 1, k - 1)
                BY <1>2 DEF VectorFits
            <4>1. k \in 1 .. Len(stack) /\ stack'[k] = stack[k]
                BY <2>5
            <4>2. VectorFits(k)
                BY <1>5, <4>1 DEF Moves, StackFits
            <4> QED  BY <4>1, <4>2 DEF VectorFits
        <3>2. Len(stack') \in 1 .. lev' /\ Len(stack') # depth
            BY <1>5, <2>2, <2>5
        <3> QED  BY <1>2, <2>1, <2>2, <3>1, <3>2 DEF StackFits
    <2>11. UnsentFits'
        <3>1. \A k \in 1 .. lev' - 1 : unsent[k] <=> k >= Len(stack')
            <4> SUFFICES ASSUME NEW k \in 1 .. lev' - 1 PROVE unsent[k] <=> k >= Len(stack')
                OBVIOUS
            <4>1. k \in 1 .. lev - 1 /\ k < lev' /\ k < lev /\ k \in Nat
                BY <2>1, <2>2, <1>5
            <4>2. unsent[k] <=> k >= Len(stack)
                BY <1>5, <4>1 DEF Moves, UnsentFits
            <4> QED  BY <1>5, <2>2, <2>5, <4>1, <4>2
        <3> QED  BY <1>2, <2>1, <2>2, <2>6, <3>1 DEF UnsentFits
    <2>12. WroteFits'
        <3>1. \A k \in Levels : k # lev => wrote'[k] = wrote[k]
            BY <1>2, <1>5 DEF Shapes
        <3>2. ASSUME NEW l \in 2 .. lev'
              PROVE  /\ Len(stack') > l => wrote'[l]
                     /\ Len(stack') < l => ~wrote'[l]
                     /\ Len(stack') = l => wrote'[l]
            <4>1. l \in 2 .. lev /\ l < lev /\ l < depth /\ l \in Levels /\ l \in Nat /\ l <= lev'
                BY <1>5, <2>1, <2>2 DEF Levels
            <4>2. /\ Len(stack) > l => wrote[l]
                  /\ Len(stack) < l => ~wrote[l]
                  /\ Len(stack) = l => wrote[l]
                BY <1>5, <1>6, <4>1 DEF Moves, WroteFits
            <4>3. wrote'[l] = wrote[l]
                BY <3>1, <4>1
            <4> QED  BY <1>5, <2>2, <2>5, <4>1, <4>2, <4>3
        <3>3. ASSUME NEW l \in lev' + 1 .. depth - 1 PROVE ~wrote'[l]
            <4>1. l \in Levels /\ (l = lev \/ l \in lev + 1 .. depth - 1)
                BY <1>5, <2>1, <2>2 DEF Levels
            <4>2. CASE l = lev
                <5>1. lev # depth
                    BY <1>5, <2>1, <2>2, <4>2
                <5> QED  BY <1>2, <1>5, <4>2, <5>1 DEF Shapes
            <4>3. CASE l # lev
                BY <1>5, <3>1, <4>1, <4>3 DEF Moves, WroteFits
            <4> QED  BY <4>2, <4>3
        <3> QED  BY <1>2, <3>2, <3>3 DEF WroteFits
    <2>13. LeafWroteFits'
        BY <1>2, <2>2 DEF LeafWroteFits
    <2>14. BaseFits'
        <3> SUFFICES ASSUME NEW l \in 2 .. lev'
                     PROVE  base[l] < l /\ (Len(stack') < l => base[l] = Len(stack'))
            BY <1>2 DEF BaseFits
        <3>1. l \in 2 .. lev /\ l < lev /\ l < depth /\ l \in Nat /\ l <= lev'
            BY <1>5, <2>1, <2>2
        <3>2. base[l] < l /\ (Len(stack) < l => base[l] = Len(stack))
            BY <1>2, <1>5, <1>6, <3>1 DEF Moves, BaseFits
        <3> QED  BY <1>5, <2>2, <2>5, <3>1, <3>2
    <2>15. HandlerFits'
        <3>1. \A k \in lev' + 1 .. depth : k \in lev .. depth /\ k \in Levels /\ k >= lev'
            BY <1>5, <2>1, <2>2 DEF Levels
        <3>2. \A k \in lev .. depth : cur[k] = 0
            BY <1>2, <1>5, <2>3 DEF Moves, HandlerFits
        <3> QED  BY <1>2, <2>1, <2>6, <3>1, <3>2 DEF HandlerFits
    <2>16. RowsFit'
        <3>1. RowsFit
            BY <1>5 DEF Moves
        <3>2. \A k \in 1 .. lev' : row'[k] = row[k] /\ i[k] = row[k] + 1
            <4>1. \A k \in Levels : k # lev => row'[k] = row[k]
                BY <1>2, <1>5 DEF SInv, Typed
            <4> QED  BY <2>2, <2>7, <3>1, <4>1 DEF RowsFit
        <3>3. cur[1] = row'[1] + 1 /\ lev' \in 1 .. lev' /\ Asked(1, val[1] - 1)
            BY <2>2, <3>1, <3>2 DEF RowsFit
        <3>4. i[lev'] = row'[lev'] + 1 /\ \A k \in 1 .. lev' - 1 : i[k] = row'[k] + 1
            <4> DEFINE m == lev'
            <4>1. m \in Nat /\ m \in 1 .. m /\ \A k \in 1 .. m : i[k] = row'[k] + 1
                BY <2>2, <3>2, <3>3
            <4> HIDE DEF m
            <4>2. i[m] = row'[m] + 1
                BY <4>1
            <4>3. \A k \in 1 .. m - 1 : i[k] = row'[k] + 1
                BY <4>1
            <4> QED  BY <4>2, <4>3 DEF m
        <3>5. lev' = 1 => ~read'[1]
            BY <2>2, <2>6
        <3>6. Asked(1, val[1] - 1)'
            BY <1>2, <3>3 DEF Asked
        <3> QED  BY <1>2, <2>1, <3>3, <3>4, <3>5, <3>6 DEF RowsFit
    <2>17. FlatFits'
        BY <1>2, <2>2 DEF FlatFits
    <2> QED
        BY <1>7, <1>8, <2>8, <2>9, <2>10, <2>11, <2>12, <2>13, <2>14, <2>15, <2>16, <2>17
        DEF Arrives, Moves
<1> QED  BY <1>11, <1>12

-----------------------------------------------------------------------------
(* read_row().                                                             *)

\* What one round of read_row()'s loop comes to: the handler is at the end of
\* the instance, or has a row of this level and of those below, which it has
\* read before if its parent's read() did.
AtEndOfInstance ==
    /\ cur' \in [Levels -> Nat] /\ unsent' \in [Levels -> BOOLEAN]
    /\ \A k \in Levels : k # lev => cur'[k] = cur[k] /\ unsent'[k] = unsent[k] /\ row'[k] = row[k]
    /\ \A k \in lev .. depth : cur'[k] = 0
    /\ row'[lev] = NoRow
    /\ UNCHANGED <<val, passed, chosen>>
    /\ read' = SetReadP(lev, TRUE) /\ status' = FALSE /\ step' = "test"
RowRead(selected) ==
    /\ cur' \in [Levels -> Nat] /\ val' \in [Levels -> Nat] /\ unsent' \in [Levels -> BOOLEAN]
    /\ \A k \in Levels : k < lev => cur'[k] = cur[k] /\ val'[k] = val[k] /\ unsent'[k] = unsent[k]
    /\ \A k \in Levels : k # lev => row'[k] = row[k]
    /\ \A k \in lev .. depth - 1 : unsent'[k]
    /\ lev = 1 => cur'[1] = cur[1] + 1 /\ val'[1] = cur'[1]
    /\ row'[lev] = IF selected THEN row[lev] + 1 ELSE row[lev]
    /\ Count(lev, selected)
    /\ read' = SetReadP(lev, row'[lev] = i[lev])
    /\ status' = (row'[lev] = i[lev])
    /\ step' = IF row'[lev] = i[lev] THEN "test" ELSE "read"
    /\ lev # depth => selected /\ row'[lev] = i[lev]

\* Under the invariant, no other outcome of a round is possible.
LEMMA OneRound ==
    ASSUME IInv, RangesOutside, NEW selected \in BOOLEAN, ReadRow(selected)
    PROVE  AtEndOfInstance \/ RowRead(selected)
<1>1. /\ step = "read" /\ row[lev] < i[lev] /\ (selected \/ lev = depth)
      /\ UNCHANGED <<lev, depth, range, i>>
    BY DEF ReadRow
<1>2. PICK m \in (IF read[lev] THEN {depth} ELSE {k \in lev - 1 .. depth : CanDeliver(lev, k)}) :
        /\ IF read[lev] THEN UNCHANGED <<cur, val, unsent>> ELSE DeliverRow(lev, m)
        /\ row' = [k \in Levels |-> IF k \in EndsAt(m) THEN NoRow
                                    ELSE IF k = lev /\ selected THEN row[k] + 1 ELSE row[k]]
        /\ IF m < lev THEN UNCHANGED <<passed, chosen>> ELSE Count(lev, selected)
        /\ read' = SetReadP(lev, m < lev \/ row'[lev] = i[lev])
        /\ status' = ((m < lev \/ row'[lev] = i[lev]) /\ ~(m < lev))
        /\ step' = IF m < lev \/ row'[lev] = i[lev] THEN "test" ELSE "read"
    BY DEF ReadRow
<1>3. /\ Arrives /\ Moves /\ Shapes /\ SInv /\ RowsAhead
      /\ lev \in Levels /\ depth \in Levels /\ lev \in Nat /\ depth \in Nat
      /\ 1 <= lev /\ lev <= depth /\ depth <= MaxDepth /\ MaxDepth \in Nat
      /\ Len(stack) \in Nat /\ 1 <= Len(stack) /\ Len(stack) <= lev
      /\ 1 .. depth \subseteq Levels
    BY <1>1, Where
<1>4. row \in [Levels -> Int] /\ i \in [Levels -> Int]
    BY <1>3 DEF SInv, Typed
<1>5. ~read[lev] => \A k \in lev + 1 .. depth : ~read[k] /\ cur[k] = 0
    BY <1>1, <1>3 DEF Moves, HandlerFits
<1>6. m = depth \/ (m = lev - 1 /\ ~read[lev])
    <2> SUFFICES ASSUME m # depth PROVE m = lev - 1 /\ ~read[lev]
        OBVIOUS
    <2>1. ~read[lev] /\ m \in lev - 1 .. depth /\ CanDeliver(lev, m)
        BY <1>2
    <2>2. m < depth /\ m \in Int
        BY <1>3, <2>1
    <2>3. read[m + 1] \/ cur[m + 1] > 0
        BY <2>1, <2>2 DEF CanDeliver
    <2>4. ASSUME m # lev - 1 PROVE FALSE
        <3>1. m + 1 \in lev + 1 .. depth
            BY <1>3, <2>1, <2>2, <2>4
        <3>2. ~read[m + 1] /\ cur[m + 1] = 0
            BY <1>5, <2>1, <3>1
        <3> QED  BY <2>3, <3>2
    <2> QED  BY <2>1, <2>4
<1>7. CASE m = lev - 1 /\ ~read[lev]
    <2>1. m < lev /\ m < depth /\ m + 1 = lev /\ m \in Int
        BY <1>3, <1>7
    <2>2. EndsAt(m) = {lev} /\ lev .. m = {}
        BY <1>3, <1>7, <2>1 DEF EndsAt
    <2>3. /\ cur' = [k \in Levels |-> IF k = lev THEN 0 ELSE cur[k]]
          /\ val' = [k \in Levels |-> val[k]]
          /\ unsent' = [k \in Levels |-> unsent[k] /\ k # lev]
        BY <1>2, <1>7, <2>2 DEF DeliverRow
    <2>4. val' = val
        BY <1>3, <2>3 DEF Shapes
    <2>5. cur' \in [Levels -> Nat] /\ unsent' \in [Levels -> BOOLEAN]
        BY <1>3, <2>3 DEF Shapes
    <2>6. \A k \in Levels : k # lev => cur'[k] = cur[k] /\ unsent'[k] = unsent[k]
        BY <1>3, <2>3 DEF Shapes
    <2>7. \A k \in Levels : k # lev => row'[k] = row[k]
        BY <1>2, <2>2
    <2>8. row'[lev] = NoRow
        BY <1>2, <1>3, <2>2
    <2>9. \A k \in lev .. depth : cur'[k] = 0
        <3> SUFFICES ASSUME NEW k \in lev .. depth PROVE cur'[k] = 0
            OBVIOUS
        <3>1. k \in Levels /\ (k = lev \/ k \in lev + 1 .. depth)
            BY <1>3 DEF Levels
        <3> QED  BY <1>5, <1>7, <2>3, <3>1
    <2>10. /\ UNCHANGED <<passed, chosen>> /\ step' = "test"
           /\ read' = SetReadP(lev, m < lev \/ row'[lev] = i[lev])
           /\ status' = ((m < lev \/ row'[lev] = i[lev]) /\ ~(m < lev))
        BY <1>2, <2>1
    <2>11. (m < lev \/ row'[lev] = i[lev]) = TRUE
        BY <2>1
    <2>12. read' = SetReadP(lev, TRUE)
        BY <2>10, <2>11
    <2>13. status' = FALSE
        BY <2>1, <2>10, Zenon
    <2> QED  BY <2>4, <2>5, <2>6, <2>7, <2>8, <2>9, <2>10, <2>12, <2>13 DEF AtEndOfInstance
<1>8. CASE m = depth
    <2>1. ~(m < lev) /\ EndsAt(m) = {}
        BY <1>3, <1>8 DEF EndsAt
    <2>2. row' = [k \in Levels |-> IF k = lev /\ selected THEN row[k] + 1 ELSE row[k]]
        BY <1>2, <2>1
    <2>3. (m < lev \/ row'[lev] = i[lev]) <=> row'[lev] = i[lev]
        BY <2>1
    <2> DEFINE e == row'[lev] = i[lev]
    <2>4. /\ Count(lev, selected)
          /\ step' = IF e THEN "test" ELSE "read"
        BY <1>2, <2>1, <2>3
    <2>5. read' = SetReadP(lev, e)
        <3>1. (m < lev \/ e) = e
            BY <2>1, Zenon
        <3> QED  BY <1>2, <3>1, Zenon
    <2>6. status' = e
        <3>1. ((m < lev \/ e) /\ ~(m < lev)) = e
            BY <2>1, Zenon
        <3> QED  BY <1>2, <3>1, Zenon
    <2>7. row'[lev] = IF selected THEN row[lev] + 1 ELSE row[lev]
        BY <1>3, <2>2
    <2>8. \A k \in Levels : k # lev => row'[k] = row[k]
        BY <2>2
    <2>9. lev # depth => selected /\ row'[lev] = i[lev]
        <3> SUFFICES ASSUME lev # depth PROVE selected /\ row'[lev] = i[lev]
            OBVIOUS
        <3>1. depth > 1
            BY <1>3
        <3>2. i[lev] = row[lev] + 1
            BY <1>1, <1>3, <3>1 DEF Moves, RowsFit
        <3> QED  BY <1>1, <2>7, <3>2
    <2>10. CASE read[lev]
        <3>1. UNCHANGED <<cur, val, unsent>>
            BY <1>2, <2>10
        <3>2. lev # 1
            <4>1. CASE depth = 1
                <5>1. ~read[1]
                    BY <1>1, <1>3, <4>1 DEF Moves, FlatFits
                <5> QED  BY <2>10, <5>1
            <4>2. CASE depth # 1
                <5>1. depth > 1
                    BY <1>3, <4>2
                <5>2. lev = 1 => ~read[1]
                    BY <1>1, <1>3, <5>1 DEF Moves, RowsFit
                <5> QED  BY <2>10, <5>2
            <4> QED  BY <4>1, <4>2
        <3>3. \A k \in lev .. depth - 1 : unsent[k]
            BY <1>1, <1>3, <2>10 DEF Moves, UnsentFits
        <3>4. /\ cur' \in [Levels -> Nat] /\ val' \in [Levels -> Nat]
              /\ unsent' \in [Levels -> BOOLEAN]
            BY <1>3, <3>1 DEF Shapes
        <3> QED  BY <2>4, <2>5, <2>6, <2>7, <2>8, <2>9, <3>1, <3>2, <3>3, <3>4 DEF RowRead
    <2>11. CASE ~read[lev]
        <3>1. /\ cur' = [k \in Levels |-> IF k \in lev .. depth THEN cur[k] + 1 ELSE cur[k]]
              /\ val' = [k \in Levels |-> IF k \in lev .. depth THEN cur[k] + 1 ELSE val[k]]
              /\ unsent' = [k \in Levels |-> IF k \in lev .. depth THEN TRUE ELSE unsent[k] /\ TRUE]
            BY <1>2, <1>8, <2>1, <2>11 DEF DeliverRow
        <3>0. /\ cur \in [Levels -> Nat] /\ val \in [Levels -> Nat]
              /\ unsent \in [Levels -> BOOLEAN]
              /\ \A k \in Levels : k < lev => k \notin lev .. depth
            BY <1>3 DEF Shapes, Levels
        <3>2. cur' \in [Levels -> Nat]
            <4>1. \A k \in Levels : cur[k] \in Nat /\ cur[k] + 1 \in Nat
                BY <3>0
            <4>2. \A k \in Levels : (IF k \in lev .. depth THEN cur[k] + 1 ELSE cur[k]) \in Nat
                BY <4>1
            <4> QED  BY <3>1, <4>2, Zenon
        <3>3. val' \in [Levels -> Nat]
            <4>1. \A k \in Levels : cur[k] + 1 \in Nat /\ val[k] \in Nat
                BY <3>0
            <4>2. \A k \in Levels : (IF k \in lev .. depth THEN cur[k] + 1 ELSE val[k]) \in Nat
                BY <4>1
            <4> QED  BY <3>1, <4>2, Zenon
        <3>4. unsent' \in [Levels -> BOOLEAN]
            <4>1. \A k \in Levels :
                     (IF k \in lev .. depth THEN TRUE ELSE unsent[k] /\ TRUE) \in BOOLEAN
                OBVIOUS
            <4> QED  BY <3>1, <4>1, Zenon
        <3>5. \A k \in Levels : k < lev => cur'[k] = cur[k] /\ val'[k] = val[k]
            BY <3>0, <3>1, Zenon
        <3>6. \A k \in Levels : k < lev => unsent'[k] = unsent[k]
            <4> SUFFICES ASSUME NEW k \in Levels, k < lev PROVE unsent'[k] = unsent[k]
                OBVIOUS
            <4>1. unsent[k] \in BOOLEAN /\ k \notin lev .. depth
                BY <3>0
            <4>2. unsent'[k] = (unsent[k] /\ TRUE)
                BY <3>1, <4>1, Zenon
            <4>3. (unsent[k] /\ TRUE) = unsent[k]
                <5>1. unsent[k] = TRUE \/ unsent[k] = FALSE
                    BY <4>1
                <5> QED  BY <5>1
            <4> QED  BY <4>2, <4>3
        <3>7. \A k \in lev .. depth - 1 : unsent'[k]
            <4>1. \A k \in lev .. depth - 1 : k \in lev .. depth /\ k \in Levels
                BY <1>3
            <4> QED  BY <3>1, <4>1
        <3>8. lev = 1 => cur'[1] = cur[1] + 1 /\ val'[1] = cur'[1]
            <4>1. lev \in lev .. depth
                BY <1>3
            <4> QED  BY <1>3, <3>1, <4>1
        <3> QED
            BY <2>4, <2>5, <2>6, <2>7, <2>8, <2>9, <3>2, <3>3, <3>4, <3>5, <3>6, <3>7, <3>8
            DEF RowRead
    <2> QED  BY <2>10, <2>11
<1> QED  BY <1>6, <1>7, <1>8

\* The frame of a round of read_row().
LEMMA RoundFrame ==
    ASSUME NEW selected \in BOOLEAN, ReadRow(selected)
    PROVE  /\ step = "read" /\ row[lev] < i[lev]
           /\ UNCHANGED <<lev, depth, range, i, first, wrote, wire, client, interned, stack, base>>
           /\ LeafRows(interned)' = LeafRows(interned)
<1>1. UNCHANGED <<depth, interned>>
    BY DEF ReadRow, outcome
<1>2. LeafRows(interned)' = LeafRows(interned)
    BY <1>1 DEF LeafRows, RowsOf
<1> QED  BY <1>2 DEF ReadRow, outcome

\* read_row() finds the end of the instance.
LEMMA EndOfInstanceKeepsIInv ==
    ASSUME IInv, RangesOutside, NEW selected \in BOOLEAN, ReadRow(selected), AtEndOfInstance
    PROVE  Arrives'
<1>1. /\ step = "read"
      /\ UNCHANGED <<lev, depth, range, i, first, wrote, wire, client, interned, stack, base>>
      /\ LeafRows(interned)' = LeafRows(interned)
    BY RoundFrame
<1>2. /\ \A k \in Levels : k # lev => cur'[k] = cur[k] /\ unsent'[k] = unsent[k] /\ row'[k] = row[k]
      /\ \A k \in lev .. depth : cur'[k] = 0
      /\ row'[lev] = NoRow
      /\ UNCHANGED <<val, passed, chosen>>
      /\ ~status' /\ step' = "test"
    BY DEF AtEndOfInstance
<1>3. /\ Arrives /\ Moves /\ Shapes /\ SInv /\ RowsAhead
      /\ lev \in Levels /\ depth \in Levels /\ lev \in Nat /\ depth \in Nat
      /\ 1 <= lev /\ lev <= depth /\ depth <= MaxDepth /\ MaxDepth \in Nat
      /\ Len(stack) \in Nat /\ 1 <= Len(stack) /\ Len(stack) <= lev
      /\ 1 .. depth \subseteq Levels
    BY <1>1, Where
<1>4. ~Filling /\ ~Sending /\ ~Filling' /\ ~Sending' /\ Running /\ Running'
    BY <1>1, <1>2 DEF Filling, Sending, Continues, Running
<1>5. Shapes'
    <2>1. read' \in [Levels -> BOOLEAN]
        BY <1>3 DEF AtEndOfInstance, SetReadP, Shapes
    <2> QED  BY <1>1, <1>2, <1>3, <2>1 DEF AtEndOfInstance, Shapes
<1>6. RangeAtTop' /\ ClientKeepsUp' /\ ChosenFits' /\ NoneEmpty' /\ WireFits'
    <2>1. RangeAtTop'
        BY <1>1, <1>3 DEF Arrives, RangeAtTop
    <2>2. ClientKeepsUp'
        BY <1>1, <1>2, <1>3 DEF Arrives, ClientKeepsUp
    <2>3. ChosenFits'
        BY <1>1, <1>2, <1>3, <1>4 DEF Arrives, ChosenFits
    <2>4. NoneEmpty'
        BY <1>1, <1>3, <1>4 DEF Arrives, NoneEmpty
    <2>5. WireFits'
        BY <1>1, <1>2, <1>3 DEF Arrives, WireFits
    <2> QED  BY <2>1, <2>2, <2>3, <2>4, <2>5
<1>7. StackFits'
    <2>1. StackFits
        BY <1>3 DEF Moves
    <2>2. \A l \in 1 .. Len(stack) : VectorFits(l)'
        BY <1>1, <1>2, <2>1 DEF StackFits, VectorFits
    <2>3. lev = depth /\ depth > 1 /\ first => Len(stack) < lev
        BY <1>4, <2>1 DEF StackFits
    <2> QED  BY <1>1, <1>2, <2>1, <2>2, <2>3 DEF StackFits
<1>8. UnsentFits'
    <2>1. \A k \in 1 .. lev - 1 : k \in Levels /\ k # lev
        BY <1>3 DEF Levels
    <2>2. \A k \in 1 .. lev - 1 : unsent'[k] <=> k >= Len(stack)
        BY <1>2, <1>3, <2>1 DEF Moves, UnsentFits
    <2> QED  BY <1>1, <1>2, <2>2 DEF UnsentFits
<1>9. WroteFits'
    BY <1>1, <1>3, <1>4 DEF Moves, WroteFits
<1>10. LeafWroteFits'
    BY <1>1, <1>2, <1>3, <1>4 DEF Moves, LeafWroteFits
<1>11. BaseFits'
    BY <1>1, <1>2, <1>3, <1>4 DEF Moves, BaseFits
<1>12. HandlerFits'
    BY <1>1, <1>2 DEF HandlerFits
<1>13. RowsFit'
    <2> SUFFICES ASSUME depth > 1
                 PROVE  /\ cur'[1] = row'[1] + 1
                        /\ lev > 1 => Asked(1, val[1] - 1)
                        /\ \A k \in 1 .. lev - 1 : i[k] = row'[k] + 1
        BY <1>1, <1>2 DEF RowsFit, Asked
    <2>1. RowsFit
        BY <1>3 DEF Moves
    <2>2. cur'[1] = row'[1] + 1
        <3>1. CASE lev = 1
            <4>1. lev \in lev .. depth
                BY <1>3
            <4> QED  BY <1>2, <3>1, <4>1 DEF NoRow
        <3>2. CASE lev # 1
            <4>1. 1 \in Levels
                BY <1>3
            <4> QED  BY <1>2, <2>1, <3>2, <4>1 DEF RowsFit
        <3> QED  BY <3>1, <3>2
    <2>3. \A k \in 1 .. lev - 1 : k \in Levels /\ k # lev
        BY <1>3 DEF Levels
    <2> QED  BY <1>2, <2>1, <2>2, <2>3 DEF RowsFit
<1>14. FlatFits'
    <2> SUFFICES ASSUME depth = 1
                 PROVE  \E k \in Nat : i[1] = Begins(1) + k * range[1].stride
        BY <1>1, <1>2 DEF FlatFits, Begins
    <2> QED  BY <1>1, <1>3 DEF Moves, FlatFits
<1> QED
    BY <1>5, <1>6, <1>7, <1>8, <1>9, <1>10, <1>11, <1>12, <1>13, <1>14 DEF Arrives, Moves

\* Multiples of a stride.
LEMMA Multiples ==
    ASSUME NEW t \in Nat \ {0}, NEW j \in Nat, NEW k \in Nat
    PROVE  /\ k * t \in Nat /\ k <= k * t
           /\ j * t < k * t => k # 0 /\ j * t <= k * t - t
<1>1. k * t \in Nat /\ j * t \in Nat
    OBVIOUS
<1>2. k <= k * t
    OBVIOUS
<1>3. ASSUME j * t < k * t PROVE k # 0 /\ j * t <= k * t - t
    <2>1. j < k
        <3> SUFFICES ASSUME j >= k PROVE FALSE
            OBVIOUS
        <3>1. PICK d \in Nat : j = k + d
            <4>1. j - k \in Nat /\ j = k + (j - k)
                OBVIOUS
            <4> QED  BY <4>1
        <3>2. j * t = k * t + d * t /\ d * t \in Nat
            BY <3>1
        <3> QED  BY <1>1, <1>3, <3>2
    <2>2. PICK d \in Nat : k = j + 1 + d
        <3>1. k - j - 1 \in Nat /\ k = j + 1 + (k - j - 1)
            BY <2>1
        <3> QED  BY <3>1
    <2>3. k * t = j * t + t + d * t /\ d * t \in Nat
        BY <2>2
    <2> QED  BY <1>1, <2>1, <2>3
<1> QED  BY <1>1, <1>2, <1>3

FallsOn(r, n) ==
    r = NoRange \/ n \in {r.start + k * r.stride : k \in 0 .. r.stop} \cap 0 .. r.stop

\* Of the rows from the one that was read last to the one that is read next,
\* that one only is asked for, unless it comes after the range.
LEMMA AskedInTurn ==
    ASSUME NEW r \in RangeSet, NEW k \in Nat, NEW n \in Nat, NEW x \in Nat,
           r = NoRange \/ (r.start \in Nat /\ r.stop \in Nat),
           x = (IF r.start = NoRow THEN 0 ELSE r.start) + k * r.stride,
           n <= x, k # 0 => n > x - r.stride
    PROVE  FallsOn(r, n) <=> n = x /\ ~(r.stop # NoRow /\ x > r.stop)
<1>1. CASE r = NoRange
    <2>1. r.start = NoRow /\ r.stride = 1 /\ r.stop = NoRow
        BY <1>1 DEF NoRange
    <2>2. n = x
        BY <2>1
    <2> QED  BY <1>1, <2>1, <2>2 DEF FallsOn
<1>2. CASE r # NoRange
    <2> DEFINE s == r.start
               t == r.stride
               e == r.stop
    <2>1. s \in Nat /\ e \in Nat /\ t \in Nat \ {0} /\ s # NoRow /\ e # NoRow
        BY <1>2 DEF RangeSet, NoRow
    <2>2. x = s + k * t /\ n <= x /\ (k # 0 => n > x - t)
        BY <2>1
    <2> HIDE DEF s, t, e
    <2>3. ASSUME n = x, x <= e PROVE n \in {s + j * t : j \in 0 .. e} \cap 0 .. e
        <3>1. k <= k * t /\ k * t \in Nat
            BY <2>1, Multiples
        <3>2. k \in 0 .. e /\ n \in 0 .. e
            BY <2>1, <2>2, <2>3, <3>1
        <3> QED  BY <2>2, <2>3, <3>2
    <2>4. ASSUME n \in {s + j * t : j \in 0 .. e} \cap 0 .. e PROVE n = x /\ x <= e
        <3>1. PICK j \in 0 .. e : n = s + j * t
            BY <2>4
        <3>2. j \in Nat /\ j * t \in Nat /\ k * t \in Nat
            BY <2>1, <3>1, Multiples
        <3>3. n <= e
            BY <2>1, <2>4
        <3>4. n = x
            <4> SUFFICES ASSUME n # x PROVE FALSE
                OBVIOUS
            <4>1. j * t < k * t
                BY <2>1, <2>2, <3>1, <3>2
            <4>2. k # 0 /\ j * t <= k * t - t
                BY <2>1, <3>2, <4>1, Multiples
            <4> QED  BY <2>1, <2>2, <3>1, <3>2, <4>2
        <3> QED  BY <3>3, <3>4
    <2>5. n \in {s + j * t : j \in 0 .. e} \cap 0 .. e <=> n = x /\ ~(x > e)
        <3>1. x <= e <=> ~(x > e)
            BY <2>1
        <3> QED  BY <2>3, <2>4, <3>1, Zenon
    <2> QED  BY <1>2, <2>1, <2>5 DEF s, t, e, FallsOn
<1> QED  BY <1>1, <1>2

\* A row of the outermost Sequence alone: what counts as asked for is what the
\* loop of read_row() stops at.
LEMMA FlatChosen ==
    ASSUME IInv, RangesOutside, ReadRow(TRUE), RowRead(TRUE), depth = 1
    PROVE  /\ passed' = row'[1] + 1
           /\ Asked(1, passed' - 1) <=> row'[1] = i[1] /\ ~IsEndOfRows(1)
<1>1. step = "read" /\ row[lev] < i[lev]
    BY RoundFrame
<1>2. /\ Arrives /\ Moves /\ Shapes /\ SInv /\ lev = 1 /\ 1 \in Levels
    <2>1. /\ Arrives /\ Moves /\ Shapes /\ SInv
          /\ lev \in Nat /\ lev \in Levels /\ 1 <= lev /\ lev <= depth
        BY <1>1, Where
    <2>2. lev = 1
        BY <2>1
    <2> QED  BY <2>1, <2>2
<1>3. /\ row[1] \in Int /\ i[1] \in Int /\ row[1] < i[1] /\ cur[1] \in Nat /\ passed \in Nat
      /\ range[1] \in RangeSet
    BY <1>1, <1>2 DEF SInv, Typed, Shapes
<1>4. (cur[1] = 0 => passed = 0) /\ passed = row[1] + 1
    BY <1>1, <1>2 DEF Moves, FlatFits
<1>5. /\ val'[1] = cur[1] + 1 /\ row'[1] = row[1] + 1
      /\ passed' = (IF val'[1] = 1 THEN 0 ELSE passed) + 1
    BY <1>2 DEF RowRead, Count
<1>6. passed' = row'[1] + 1 /\ row'[1] \in Nat
    BY <1>3, <1>4, <1>5
<1>7. PICK k \in Nat : /\ i[1] = Begins(1) + k * range[1].stride
                       /\ k # 0 => row[1] >= i[1] - range[1].stride
    BY <1>1, <1>2 DEF Moves, FlatFits
<1>8. range[1] = NoRange \/ (range[1].start \in Nat /\ range[1].stop \in Nat)
    BY <1>2 DEF Arrives, RangeAtTop
<1> DEFINE n == row'[1]
           x == i[1]
           r == range[1]
<1>9. n \in Nat /\ x \in Nat /\ n <= x /\ (k # 0 => n > x - r.stride) /\ r.stride \in Nat
    <2>1. n <= x
        BY <1>3, <1>5
    <2>2. x \in Nat
        BY <1>3, <1>6, <2>1
    <2>3. r.stride \in Nat
        BY <1>3 DEF RangeSet
    <2>4. k # 0 => n > x - r.stride
        BY <1>3, <1>5, <1>7, <2>3
    <2> QED  BY <1>6, <2>1, <2>2, <2>3, <2>4
<1>10. x = (IF r.start = NoRow THEN 0 ELSE r.start) + k * r.stride
    BY <1>7 DEF Begins
<1>11. r \in RangeSet /\ (r = NoRange \/ (r.start \in Nat /\ r.stop \in Nat))
    BY <1>3, <1>8
<1>12. passed' - 1 = n
    BY <1>6
<1>15. k \in Nat /\ n \in Nat /\ x \in Nat /\ n <= x /\ (k # 0 => n > x - r.stride)
    BY <1>7, <1>9
<1> HIDE DEF n, x, r
<1>13. FallsOn(r, n) <=> n = x /\ ~(r.stop # NoRow /\ x > r.stop)
    BY <1>10, <1>11, <1>15, AskedInTurn
<1>14. Asked(1, n) <=> n = x /\ ~IsEndOfRows(1)
    BY <1>13 DEF Asked, FallsOn, IsEndOfRows, n, x, r
<1> QED  BY <1>6, <1>12, <1>14 DEF n, x

\* A row of the leaf, selected, counts as chosen when it will be sent.
LEMMA LeafChosen ==
    ASSUME IInv, RangesOutside, NEW selected \in BOOLEAN, ReadRow(selected), RowRead(selected)
    PROVE  /\ chosen' = IF Filling' THEN Append(chosen, SubSeq(val', 1, depth)) ELSE chosen
           /\ passed' \in Nat
<1>1. /\ step = "read" /\ row[lev] < i[lev] /\ UNCHANGED <<lev, depth, range, i>>
    BY RoundFrame
<1>2. /\ Arrives /\ Moves /\ Shapes /\ SInv /\ RowsAhead
      /\ lev \in Levels /\ depth \in Levels /\ lev \in Nat /\ depth \in Nat
      /\ 1 <= lev /\ lev <= depth /\ depth <= MaxDepth /\ MaxDepth \in Nat
      /\ Len(stack) \in Nat /\ 1 <= Len(stack) /\ Len(stack) <= lev
      /\ 1 .. depth \subseteq Levels
    BY <1>1, Where
<1>3. Filling' <=> lev = depth /\ row'[lev] = i[lev] /\ ~IsEndOfRows(lev)
    <2>1. /\ step' = IF row'[lev] = i[lev] THEN "test" ELSE "read"
          /\ status' = (row'[lev] = i[lev])
        BY DEF RowRead
    <2>2. Continues' <=> status' /\ ~IsEndOfRows(lev)
        BY <1>1 DEF Continues, IsEndOfRows
    <2> QED  BY <1>1, <2>1, <2>2 DEF Filling
<1>4. passed \in Nat /\ row[lev] \in Int /\ i[lev] \in Int
    BY <1>2 DEF Shapes, SInv, Typed
<1>5. Count(lev, selected)
    BY DEF RowRead
<1>6. CASE ~(lev = depth /\ selected)
    <2>1. UNCHANGED chosen /\ passed' \in Nat
        BY <1>4, <1>5, <1>6 DEF Count
    <2>2. ~Filling'
        <3>1. lev = depth => row'[lev] = row[lev]
            BY <1>6 DEF RowRead
        <3> QED  BY <1>1, <1>3, <1>4, <3>1
    <2> QED  BY <2>1, <2>2
<1>7. CASE lev = depth /\ selected
    <2>1. /\ passed' = (IF val'[lev] = 1 THEN 0 ELSE passed) + 1
          /\ chosen' = IF /\ Asked(lev, passed' - 1)
                          /\ \A k \in 1 .. lev - 1 : Asked(k, val[k] - 1)
                       THEN Append(chosen, SubSeq(val', 1, lev))
                       ELSE chosen
        BY <1>5, <1>7 DEF Count
    <2>2. passed' \in Nat
        BY <1>4, <2>1
    <2>3. Asked(lev, passed' - 1) /\ (\A k \in 1 .. lev - 1 : Asked(k, val[k] - 1)) <=> Filling'
        <3>1. CASE depth = 1
            <4>1. Asked(1, passed' - 1) <=> row'[1] = i[1] /\ ~IsEndOfRows(1)
                <5>1. ReadRow(TRUE) /\ RowRead(TRUE)
                    <6>1. selected = TRUE
                        BY <1>7
                    <6> QED  BY <6>1
                <5> QED  BY <3>1, <5>1, FlatChosen
            <4> QED  BY <1>3, <1>7, <3>1, <4>1
        <3>2. CASE depth # 1
            <4>1. depth > 1 /\ lev > 1 /\ lev # 1 /\ Typed
                BY <1>2, <1>7, <3>2 DEF SInv
            <4>2. range[lev] = NoRange /\ ~IsEndOfRows(lev)
                BY <4>1, NoEndInside
            <4>3. row'[lev] = i[lev]
                <5>1. i[lev] = row[lev] + 1
                    BY <1>1, <1>2, <4>1 DEF Moves, RowsFit
                <5>2. row'[lev] = row[lev] + 1
                    BY <1>7 DEF RowRead
                <5> QED  BY <5>1, <5>2
            <4>4. \A k \in 1 .. lev - 1 : Asked(k, val[k] - 1)
                <5> SUFFICES ASSUME NEW k \in 1 .. lev - 1 PROVE Asked(k, val[k] - 1)
                    OBVIOUS
                <5>1. CASE k = 1
                    BY <1>2, <4>1, <5>1 DEF Moves, RowsFit
                <5>2. CASE k # 1
                    <6>1. k \in 2 .. depth
                        BY <1>2, <5>2
                    <6> QED  BY <6>1 DEF RangesOutside, Asked
                <5> QED  BY <5>1, <5>2
            <4>5. Asked(lev, passed' - 1)
                BY <4>2 DEF Asked
            <4> QED  BY <1>3, <1>7, <4>2, <4>3, <4>4, <4>5
        <3> QED  BY <3>1, <3>2
    <2>4. chosen' = IF Filling' THEN Append(chosen, SubSeq(val', 1, lev)) ELSE chosen
        BY <2>1, <2>3
    <2> QED  BY <1>7, <2>2, <2>4
<1> QED  BY <1>6, <1>7

\* read_row() finds a row, which is the one it was asked for or one before.
LEMMA RowReadKeepsIInv ==
    ASSUME IInv, RangesOutside, NEW selected \in BOOLEAN, ReadRow(selected), RowRead(selected)
    PROVE  Arrives'
<1>1. /\ step = "read" /\ row[lev] < i[lev]
      /\ UNCHANGED <<lev, depth, range, i, first, wrote, wire, client, interned, stack, base>>
      /\ LeafRows(interned)' = LeafRows(interned)
    BY RoundFrame
<1>2. /\ \A k \in Levels : k < lev => cur'[k] = cur[k] /\ val'[k] = val[k] /\ unsent'[k] = unsent[k]
      /\ \A k \in Levels : k # lev => row'[k] = row[k]
      /\ \A k \in lev .. depth - 1 : unsent'[k]
      /\ lev = 1 => cur'[1] = cur[1] + 1 /\ val'[1] = cur'[1]
      /\ row'[lev] = IF selected THEN row[lev] + 1 ELSE row[lev]
      /\ status' <=> row'[lev] = i[lev]
      /\ step' = IF status' THEN "test" ELSE "read"
      /\ lev # depth => selected /\ status'
    BY DEF RowRead
<1>3. /\ Arrives /\ Moves /\ Shapes /\ SInv /\ RowsAhead
      /\ lev \in Levels /\ depth \in Levels /\ lev \in Nat /\ depth \in Nat
      /\ 1 <= lev /\ lev <= depth /\ depth <= MaxDepth /\ MaxDepth \in Nat
      /\ Len(stack) \in Nat /\ 1 <= Len(stack) /\ Len(stack) <= lev
      /\ 1 .. depth \subseteq Levels
    BY <1>1, Where
<1>4. ~Filling /\ ~Sending /\ Running /\ Running' /\ (Sending' => Filling')
    BY <1>1, <1>2 DEF Filling, Sending, Running
<1>5. /\ \A k \in Levels : read'[k] = IF k >= lev THEN status' ELSE read[k]
      /\ read' \in [Levels -> BOOLEAN]
    <2>1. read' = [k \in Levels |-> IF k >= lev THEN status' ELSE read[k]]
        BY DEF RowRead, SetReadP
    <2>2. status' \in BOOLEAN
        BY DEF RowRead
    <2> QED  BY <1>3, <2>1, <2>2 DEF Shapes
<1>6. /\ chosen' = IF Filling' THEN Append(chosen, SubSeq(val', 1, depth)) ELSE chosen
      /\ passed' \in Nat
    BY LeafChosen
<1>7. /\ val' \in [Levels -> Nat] /\ val \in [Levels -> Nat] /\ SubSeq(val', 1, depth) \in Path
      /\ chosen \in Seq(Path)
    <2>1. val' \in [Levels -> Nat] /\ depth \in 0 .. MaxDepth
        BY <1>3 DEF RowRead
    <2> QED  BY <1>3, <2>1, FilesPath DEF Shapes
<1>8. Shapes'
    <2>1. chosen' \in Seq(Path)
        BY <1>6, <1>7
    <2>2. cur' \in [Levels -> Nat] /\ unsent' \in [Levels -> BOOLEAN]
        BY DEF RowRead
    <2> QED  BY <1>1, <1>3, <1>5, <1>6, <1>7, <2>1, <2>2 DEF Shapes
<1>9. RangeAtTop' /\ ClientKeepsUp' /\ ChosenFits' /\ NoneEmpty' /\ WireFits'
    <2>1. RangeAtTop'
        BY <1>1, <1>3 DEF Arrives, RangeAtTop
    <2>2. ClientKeepsUp'
        BY <1>1, <1>2, <1>3 DEF Arrives, ClientKeepsUp
    <2>3. ChosenFits'
        <3>1. chosen = LeafRows(interned)
            BY <1>3, <1>4 DEF Arrives, ChosenFits
        <3> QED  BY <1>1, <1>6, <3>1 DEF ChosenFits
    <2>4. NoneEmpty'
        BY <1>1, <1>3, <1>4 DEF Arrives, NoneEmpty
    <2>5. WireFits'
        <3>1. /\ Len(stack) > 1 => chosen # <<>>
              /\ chosen = <<>> => wire = <<>>
            BY <1>1, <1>3 DEF Arrives, WireFits
        <3>2. chosen' = <<>> => chosen = <<>>
            <4>1. Append(chosen, SubSeq(val', 1, depth)) # <<>>
                BY <1>7, MoreNotEmpty
            <4> QED  BY <1>6, <4>1
        <3> QED  BY <1>1, <1>2, <3>1, <3>2 DEF WireFits
    <2> QED  BY <2>1, <2>2, <2>3, <2>4, <2>5
<1>10. StackFits'
    <2>1. StackFits
        BY <1>3 DEF Moves
    <2>2. \A l \in 1 .. Len(stack) : VectorFits(l)'
        <3> SUFFICES ASSUME NEW l \in 1 .. Len(stack)
                     PROVE  /\ stack[l] \in 1 .. Len(interned)
                            /\ interned[stack[l]].of = SubSeq(val', 1, l - 1)
            BY <1>1 DEF VectorFits
        <3>1. VectorFits(l)
            BY <2>1 DEF StackFits
        <3>2. l - 1 \in 0 .. MaxDepth /\ \A k \in 1 .. l - 1 : k \in Levels /\ k < lev
            BY <1>3 DEF Levels
        <3>3. \A k \in 1 .. l - 1 : val[k] = val'[k]
            BY <1>2, <3>2
        <3>4. SubSeq(val, 1, l - 1) = SubSeq(val', 1, l - 1)
            BY <1>7, <3>2, <3>3, SamePath
        <3> QED  BY <3>1, <3>4 DEF VectorFits
    <2>3. lev = depth /\ depth > 1 /\ first => Len(stack) < lev
        BY <1>4, <2>1 DEF StackFits
    <2> QED  BY <1>1, <1>2, <2>1, <2>2, <2>3 DEF StackFits
<1>11. UnsentFits'
    <2>1. \A k \in 1 .. lev - 1 : k \in Levels /\ k < lev
        BY <1>3 DEF Levels
    <2>2. \A k \in 1 .. lev - 1 : unsent'[k] <=> k >= Len(stack)
        BY <1>2, <1>3, <2>1 DEF Moves, UnsentFits
    <2>3. step' = "read" => ~read'[lev]
        BY <1>2, <1>3, <1>5
    <2> QED  BY <1>1, <1>2, <2>2, <2>3 DEF UnsentFits
<1>12. WroteFits'
    <2>1. \A l \in 2 .. lev : l < depth =>
             /\ Len(stack) > l => wrote[l]
             /\ Len(stack) < l => ~wrote[l]
             /\ Len(stack) = l => wrote[l]
        BY <1>3, <1>4 DEF Moves, WroteFits
    <2>2. \A l \in lev + 1 .. depth - 1 : ~wrote[l]
        BY <1>3 DEF Moves, WroteFits
    <2> QED  BY <1>1, <2>1, <2>2 DEF WroteFits
<1>13. LeafWroteFits'
    <2> SUFFICES ASSUME lev = depth, depth > 1, ~first
                 PROVE  wrote[depth] /\ Len(stack) = depth
        BY <1>1 DEF LeafWroteFits
    <2> QED  BY <1>1, <1>3, <1>4 DEF Moves, LeafWroteFits
<1>14. BaseFits'
    <2>1. \A l \in 2 .. lev : l < depth => base[l] < l /\ (Len(stack) < l => base[l] = Len(stack))
        BY <1>1, <1>3, <1>4 DEF Moves, BaseFits
    <2> QED  BY <1>1, <2>1 DEF BaseFits
<1>15. HandlerFits'
    <2>1. \A k \in lev .. depth : k \in Levels /\ k >= lev
        BY <1>3
    <2>2. step' = "read" => lev + 1 .. depth = {}
        BY <1>2, <1>3
    <2>3. step' = "test" => \A k \in lev .. depth : read'[k]
        BY <1>2, <1>5, <2>1
    <2>4. step' = "test" => status'
        BY <1>2
    <2> QED  BY <1>1, <1>2, <2>2, <2>3, <2>4 DEF HandlerFits
<1>16. RowsFit'
    <2> SUFFICES ASSUME depth > 1
                 PROVE  /\ cur'[1] = row'[1] + 1
                        /\ lev = 1 => step' = "test" /\ val'[1] = cur'[1] /\ cur'[1] >= 1
                        /\ lev > 1 => Asked(1, val'[1] - 1)
                        /\ \A k \in 1 .. lev - 1 : i[k] = row'[k] + 1
                        /\ step' = "read" => i[lev] = row'[lev] + 1
        <3>1. Asked(1, val[1] - 1)' <=> Asked(1, val'[1] - 1)
            BY <1>1 DEF Asked
        <3> QED  BY <1>1, <1>2, <3>1 DEF RowsFit
    <2>1. RowsFit
        BY <1>3 DEF Moves
    <2>2. 1 \in Levels /\ cur[1] \in Nat /\ row[1] \in Int /\ cur[1] = row[1] + 1
        BY <1>3, <2>1 DEF RowsFit, Shapes, SInv, Typed
    <2>3. CASE lev = 1
        <3>1. lev # depth
            BY <2>3
        <3>2. row'[1] = row[1] + 1 /\ step' = "test" /\ cur'[1] = cur[1] + 1 /\ val'[1] = cur'[1]
            BY <1>2, <2>3, <3>1
        <3>3. cur'[1] = row'[1] + 1 /\ cur'[1] >= 1
            BY <2>2, <3>2
        <3>4. \A k \in 1 .. lev - 1 : FALSE
            BY <2>3
        <3> QED  BY <2>3, <3>2, <3>3, <3>4
    <2>4. CASE lev # 1
        <3>1. lev > 1 /\ cur'[1] = cur[1] /\ val'[1] = val[1] /\ row'[1] = row[1]
            BY <1>2, <1>3, <2>2, <2>4
        <3>2. Asked(1, val'[1] - 1)
            BY <2>1, <3>1 DEF RowsFit
        <3>3. \A k \in 1 .. lev - 1 : k \in Levels /\ k # lev
            BY <1>3 DEF Levels
        <3>4. \A k \in 1 .. lev - 1 : i[k] = row'[k] + 1
            BY <1>2, <2>1, <3>3 DEF RowsFit
        <3>5. step' = "read" => i[lev] = row'[lev] + 1
            BY <1>1, <1>2, <2>1 DEF RowsFit
        <3> QED  BY <2>2, <2>4, <3>1, <3>2, <3>4, <3>5
    <2> QED  BY <2>3, <2>4
<1>17. FlatFits'
    <2> SUFFICES ASSUME depth = 1
                 PROVE  /\ step' = "read" => ~read'[1]
                        /\ cur'[1] # 0 /\ passed' = row'[1] + 1
                        /\ \E k \in Nat : /\ i[1] = Begins(1) + k * range[1].stride
                                          /\ k # 0 => row'[1] >= i[1] - range[1].stride
        BY <1>1, <1>2 DEF FlatFits, Begins
    <2>1. lev = 1 /\ 1 \in Levels
        BY <1>3
    <2>2. /\ row[1] \in Int /\ i[1] \in Int /\ cur[1] \in Nat /\ passed \in Nat
          /\ range[1].stride \in Int
        BY <1>3, <2>1 DEF SInv, Typed, Shapes, RangeSet
    <2>3. (cur[1] = 0 => passed = 0) /\ passed = row[1] + 1
        BY <1>1, <1>3 DEF Moves, FlatFits
    <2>4. step' = "read" => ~read'[1]
        BY <1>2, <1>5, <2>1
    <2>5. cur'[1] = cur[1] + 1 /\ val'[1] = cur[1] + 1
        BY <1>2, <2>1
    <2>6. passed' = row'[1] + 1
        <3>1. passed' = (IF val'[1] = 1 THEN 0 ELSE passed) + (IF selected THEN 1 ELSE 0)
            <4>1. Count(1, selected)
                BY <2>1 DEF RowRead
            <4>2. val'[1] \in Nat
                BY <2>2, <2>5
            <4> QED  BY <2>2, <4>1, <4>2 DEF Count
        <3>2. (IF val'[1] = 1 THEN 0 ELSE passed) = passed
            BY <2>2, <2>3, <2>5
        <3>3. row'[1] = row[1] + (IF selected THEN 1 ELSE 0)
            BY <1>2, <2>1, <2>2
        <3> QED  BY <2>2, <2>3, <3>1, <3>2, <3>3
    <2>7. \E k \in Nat : /\ i[1] = Begins(1) + k * range[1].stride
                         /\ k # 0 => row'[1] >= i[1] - range[1].stride
        <3>1. PICK k \in Nat : /\ i[1] = Begins(1) + k * range[1].stride
                               /\ k # 0 => row[1] >= i[1] - range[1].stride
            BY <1>1, <1>3 DEF Moves, FlatFits
        <3>2. row'[1] \in Int /\ row'[1] >= row[1]
            BY <1>2, <2>1, <2>2
        <3>3. k # 0 => row'[1] >= i[1] - range[1].stride
            BY <2>2, <3>1, <3>2
        <3> QED  BY <3>1, <3>3
    <2>8. cur'[1] # 0
        BY <2>2, <2>5
    <2> QED  BY <2>4, <2>6, <2>7, <2>8
<1> QED
    BY <1>8, <1>9, <1>10, <1>11, <1>12, <1>13, <1>14, <1>15, <1>16, <1>17 DEF Arrives, Moves

\* A round of read_row() keeps the invariant.
LEMMA ReadRowKeepsIInv ==
    ASSUME IInv, NEW selected \in BOOLEAN, ReadRow(selected)
    PROVE  IInv'
<1>1. SInv' /\ step' # "idle"
    <2>1. step' \in {"test", "read"}
        BY DEF ReadRow
    <2> QED  BY <2>1, ReadRowKeeps DEF IInv
<1>2. RangesOutside' = RangesOutside
    BY DEF ReadRow, RangesOutside
<1>3. RangesOutside => Arrives'
    BY OneRound, EndOfInstanceKeepsIInv, RowReadKeepsIInv
<1> QED  BY <1>1, <1>2, <1>3 DEF IInv

\* read_row() never finds that it is there already.
LEMMA NotAheadKeepsIInv ==
    ASSUME IInv, NotAhead
    PROVE  IInv'
<1>1. SInv'
    BY NotAheadKeeps DEF IInv
<1>2. UNCHANGED <<lev, depth, range, i, row>> /\ step' # "idle"
    BY DEF NotAhead, flags
<1>3. i[lev] \in Int /\ row[lev] \in Int
    BY AtLevel DEF IInv, SInv
<1>4. ~RangesOutside
    BY <1>3 DEF IInv, SInv, RowsAhead, NotAhead
<1>5. ~RangesOutside'
    BY <1>2, <1>4 DEF RangesOutside
<1> QED  BY <1>1, <1>2, <1>5 DEF IInv

\* Nothing happens.
LEMMA StutterKeepsIInv ==
    ASSUME IInv, UNCHANGED seqVars
    PROVE  IInv'
<1>1. SInv'
    BY NextSInv DEF IInv
<1>2. UNCHANGED <<step, lev, depth, range, i, status, first, row, read, unsent, wrote, cur, val,
                  wire, client, interned, stack, base, passed, chosen>>
    BY DEF seqVars, flags, handler, outcome
<1>3. /\ RangesOutside' = RangesOutside /\ Filling' = Filling /\ Sending' = Sending
      /\ Running' = Running /\ LeafRows(interned)' = LeafRows(interned)
    BY <1>2 DEF RangesOutside, Filling, Sending, Running, Continues, IsEndOfRows, LeafRows, RowsOf
<1>4. step = "idle" => (SeqInit => SeqInit')
    BY <1>2 DEF SeqInit
<1>5. Shapes => Shapes'
    BY <1>2 DEF Shapes
<1>6. RangeAtTop => RangeAtTop'
    BY <1>2 DEF RangeAtTop
<1>7. ClientKeepsUp => ClientKeepsUp'
    BY <1>2 DEF ClientKeepsUp
<1>8. ChosenFits => ChosenFits'
    BY <1>2, <1>3 DEF ChosenFits
<1>9. NoneEmpty => NoneEmpty'
    BY <1>2, <1>3 DEF NoneEmpty
<1>10. WireFits => WireFits'
    BY <1>2 DEF WireFits
<1>11. StackFits => StackFits'
    BY <1>2, <1>3 DEF StackFits, VectorFits
<1>12. UnsentFits => UnsentFits'
    BY <1>2 DEF UnsentFits
<1>13. WroteFits => WroteFits'
    BY <1>2, <1>3 DEF WroteFits
<1>14. LeafWroteFits => LeafWroteFits'
    BY <1>2, <1>3 DEF LeafWroteFits
<1>15. BaseFits => BaseFits'
    BY <1>2, <1>3 DEF BaseFits
<1>16. HandlerFits => HandlerFits'
    BY <1>2 DEF HandlerFits
<1>17. RowsFit => RowsFit'
    BY <1>2 DEF RowsFit, Asked
<1>18. FlatFits => FlatFits'
    BY <1>2 DEF FlatFits, Begins
<1>19. Moves => Moves'
    BY <1>11, <1>12, <1>13, <1>14, <1>15, <1>16, <1>17, <1>18 DEF Moves
<1>20. Arrives => Arrives'
    BY <1>2, <1>5, <1>6, <1>7, <1>8, <1>9, <1>10, <1>19 DEF Arrives
<1> QED  BY <1>1, <1>2, <1>3, <1>4, <1>20 DEF IInv

\* Every step keeps the invariant.
LEMMA NextIInv == IInv /\ [SeqNext]_seqVars => IInv'
<1> SUFFICES ASSUME IInv, [SeqNext]_seqVars PROVE IInv'
    OBVIOUS
<1>1. ASSUME NEW d \in Levels, NEW r \in [Levels -> AnyRange], Constrain(d, r)
      PROVE  IInv'
    BY <1>1, ConstrainKeepsIInv
<1>2. CASE Enter
    BY <1>2, EnterKeepsIInv
<1>3. CASE NotAhead
    BY <1>3, NotAheadKeepsIInv
<1>4. ASSUME NEW selected \in BOOLEAN, ReadRow(selected) PROVE IInv'
    BY <1>4, ReadRowKeepsIInv
<1>5. ASSUME NEW l \in Levels, SendParent(l) PROVE IInv'
    BY <1>5, SendParentKeepsIInv
<1>6. CASE LeafBegins
    BY <1>6, LeafBeginsKeepsIInv
<1>7. CASE LeafRow
    BY <1>7, LeafRowKeepsIInv
<1>8. CASE LeafEnds \/ ParentEnds
    BY <1>8, EndKeepsIInv
<1>9. CASE ParentRow
    BY <1>9, ParentRowKeepsIInv
<1>10. CASE UNCHANGED seqVars
    BY <1>10, StutterKeepsIInv
<1> QED
    BY <1>1, <1>2, <1>3, <1>4, <1>5, <1>6, <1>7, <1>8, <1>9, <1>10 DEF SeqNext

\* The invariant: whatever the depth, the numbers of rows and the range of an
\* outermost Sequence, serialize(), intern_data() and deserialize() (Sequence.cc) keep the
\* vectors, the flags d_unsent_data and d_wrote_soi, the stack and the response together.
THEOREM RowsInvariance == SeqSpec => []IInv
<1> QED  BY InitIInv, NextIInv, PTL DEF SeqSpec

\* For any depth, any numbers of rows and any range of an outermost Sequence, the
\* client gets just the rows that the constraint selects, each under the rows of its
\* parents, and no parent without one; when nothing is selected the response is a single
\* end marker (Sequence.cc:668, 688-712, 767).
THEOREM RowsAlwaysArrive == SeqSpec => []RowsArrive
<1>1. IInv => RowsArrive
    <2> SUFFICES ASSUME IInv, step = "done", RangesOutside
                 PROVE  /\ client.at = "end"
                        /\ LeafRows(client.got) = chosen
                        /\ \A k \in 2 .. Len(client.got) : client.got[k].rows # <<>>
                        /\ chosen = <<>> => wire = <<Marker("EOS")>>
        BY DEF RowsArrive
    <2>1. Arrives /\ ~Filling
        BY DEF IInv, Filling
    <2>2. client.at = "end" /\ client.got = interned
        BY <2>1 DEF Arrives, ClientKeepsUp
    <2>3. chosen = LeafRows(interned)
        BY <2>1 DEF Arrives, ChosenFits
    <2>4. \A k \in 2 .. Len(interned) : interned[k].rows # <<>>
        BY <2>1 DEF Arrives, NoneEmpty
    <2>5. chosen = <<>> => wire = <<Marker("EOS")>>
        BY <2>1 DEF Arrives, WireFits
    <2> QED  BY <2>2, <2>3, <2>4, <2>5
<1> QED  BY <1>1, RowsInvariance, PTL

\* For any depth, any numbers of rows and any range of an outermost Sequence,
\* intern_data() yields what a client gets from serialize() (Sequence.cc:830-980).
THEOREM InternAlwaysAgrees == SeqSpec => []InternAgrees
<1>1. IInv => InternAgrees
    BY DEF IInv, Arrives, ClientKeepsUp, InternAgrees
<1> QED  BY <1>1, RowsInvariance, PTL
====
