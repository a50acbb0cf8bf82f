---- MODULE DAP4Proofs ----
(***************************************************************************)
(* Proofs about a DAP4 response: DMRParser, for documents of any size, and *)
(* D4Response, for any number of variables and rows and any nesting.       *)
(*                                                                         *)
(* Nothing is accepted after a start tag that was refused: the parser pops *)
(* a state only when that is not an error, so that an error that was       *)
(* pushed stays in the stack, under whatever is pushed later, and the      *)
(* state that makes a document acceptable is alone in the stack.           *)
(*                                                                         *)
(* What print_dap4() writes is read back as it was.  The elements that     *)
(* have begun and not ended are, from the outermost, groups, variables,    *)
(* containers of attributes, and then one that has no attribute table with *)
(* what is in it.  How many of each there are says what is on each of the  *)
(* four stacks; Follows relates them, and PrintedInv adds that what the    *)
(* document says is made, or left to the end tags of these elements.       *)
(*                                                                         *)
(* The client of the data is in step with the server.  It is in the        *)
(* Sequence that the server is in, with as many rows to come there and in  *)
(* the Sequences around it as the server has to send, or it has left       *)
(* Sequences of which the server has sent all rows and has not yet left.   *)
(* What it has of the variable at work are the rows that were begun.       *)
(***************************************************************************)
EXTENDS DMRParser, D4Response, SequenceTheorems, TLAPS

ErrorStates == {"error", "fatal"}
Ends == {"start", "end"}

Inside ==
    {"inside_dataset", "inside_group", "inside_attribute_container", "inside_attribute",
     "inside_attribute_value", "inside_other_xml_attribute", "inside_enum_def",
     "inside_enum_const", "inside_dim_def", "inside_dim", "inside_map", "inside_simple_type",
     "inside_constructor", "not_dap4"}
States == Inside \cup ErrorStates \cup Ends

LEMMA Names ==
    /\ \A x \in Inside : x \in States /\ x \notin Ends /\ x \notin ErrorStates
    /\ \A x \in ErrorStates : x \in States /\ x \notin Ends
<1>1. \A x \in Inside \cup ErrorStates : x \in States
    BY DEF States
<1>2. \A x \in Inside : x \notin Ends
    BY DEF Inside, Ends
<1>3. \A x \in Inside : x \notin ErrorStates
    BY DEF Inside, ErrorStates
<1>4. \A x \in ErrorStates : x \notin Ends
    BY DEF Ends, ErrorStates
<1> QED  BY <1>1, <1>2, <1>3, <1>4

\* The states from the outermost to the current one.
Stacked(s) ==
    /\ s \in Seq(States) /\ Len(s) >= 1
    /\ s[1] \in Ends
    /\ \A k \in 2 .. Len(s) : s[k] \notin Ends

HasError(s) == \E k \in 2 .. Len(s) : s[k] \in ErrorStates

PInv ==
    /\ "states" \in DOMAIN parser /\ Stacked(parser.states)
    /\ started => HasError(parser.states)
    /\ started => result # "accepted"

\* q has the states of p, and perhaps more; a message comes with an error.
Extends(p, q) ==
    /\ "states" \in DOMAIN q /\ q.states \in Seq(States)
    /\ Len(q.states) >= Len(p.states)
    /\ \A k \in 1 .. Len(p.states) : q.states[k] = p.states[k]
    /\ \A k \in Len(p.states) + 1 .. Len(q.states) : q.states[k] \notin Ends
    /\ q.message # p.message =>
          \E k \in Len(p.states) + 1 .. Len(q.states) : q.states[k] \in ErrorStates

Parser(p) == "states" \in DOMAIN p /\ p.states \in Seq(States)

-----------------------------------------------------------------------------
(* The operations on the stack of states.                                  *)

LEMMA Reflexive ==
    ASSUME NEW p, NEW q, Parser(p), "states" \in DOMAIN q, q.states = p.states,
           q.message = p.message
    PROVE  Extends(p, q)
BY DEF Extends, Parser

LEMMA Transitive ==
    ASSUME NEW p, NEW q, NEW r, Parser(p), Extends(p, q), Extends(q, r)
    PROVE  Extends(p, r)
<1>1. Len(p.states) \in Nat /\ Len(q.states) \in Nat /\ Len(r.states) \in Nat
    BY DEF Extends, Parser
<1>2. \A k \in 1 .. Len(p.states) : r.states[k] = p.states[k]
    BY <1>1 DEF Extends
<1>3. \A k \in Len(p.states) + 1 .. Len(r.states) : r.states[k] \notin Ends
    BY <1>1 DEF Extends
<1>4. ASSUME r.message # p.message
      PROVE  \E k \in Len(p.states) + 1 .. Len(r.states) : r.states[k] \in ErrorStates
    <2>1. CASE q.message # p.message
        <3>1. PICK k \in Len(p.states) + 1 .. Len(q.states) : q.states[k] \in ErrorStates
            BY <2>1 DEF Extends
        <3>2. k \in Len(p.states) + 1 .. Len(r.states) /\ r.states[k] = q.states[k]
            BY <1>1, <3>1 DEF Extends
        <3> QED  BY <3>1, <3>2
    <2>2. CASE q.message = p.message
        <3>1. PICK k \in Len(q.states) + 1 .. Len(r.states) : r.states[k] \in ErrorStates
            BY <1>4, <2>2 DEF Extends
        <3>2. k \in Len(p.states) + 1 .. Len(r.states)
            BY <1>1, <3>1 DEF Extends
        <3> QED  BY <3>1, <3>2
    <2> QED  BY <2>1, <2>2
<1> QED  BY <1>1, <1>2, <1>3, <1>4 DEF Extends

LEMMA PushExtends ==
    ASSUME NEW p, Parser(p), NEW x \in States, x \notin Ends
    PROVE  /\ Extends(p, Push(p, x)) /\ Parser(Push(p, x))
           /\ Push(p, x).states = Append(p.states, x) /\ Push(p, x).message = p.message
<1>1. /\ Push(p, x).states = Append(p.states, x) /\ Push(p, x).message = p.message
      /\ "states" \in DOMAIN Push(p, x)
    BY DEF Push, Parser
<1>2. Append(p.states, x) \in Seq(States)
    BY DEF Parser
<1> QED  BY <1>1, <1>2 DEF Extends, Parser

LEMMA ErrorExtends ==
    ASSUME NEW p, Parser(p), NEW q, q \in {Error(p), FatalError(p)}
    PROVE  /\ Extends(p, q) /\ Parser(q) /\ Len(q.states) = Len(p.states) + 1
           /\ q.states[Len(q.states)] \in ErrorStates
           /\ Front(q.states) = p.states
<1>1. PICK x \in ErrorStates : "states" \in DOMAIN q /\ q.states = Append(p.states, x)
    BY DEF Error, FatalError, Parser, ErrorStates
<1>0. x \in States /\ x \notin Ends /\ p.states \in Seq(States)
    BY Names DEF Parser
<1>2. /\ q.states \in Seq(States) /\ Len(q.states) = Len(p.states) + 1
      /\ q.states[Len(q.states)] = x
      /\ \A k \in 1 .. Len(p.states) : q.states[k] = p.states[k]
      /\ Len(p.states) \in Nat
    <2>1. Append(p.states, x) \in Seq(States)
        BY <1>0
    <2> QED  BY <1>0, <1>1, <2>1
<1>3. Front(q.states) = p.states
    BY <1>0, <1>1, <1>2 DEF Front
<1>4. Extends(p, q)
    BY <1>0, <1>1, <1>2 DEF Extends
<1> QED  BY <1>1, <1>2, <1>3, <1>4 DEF Parser

\* Work on the other stacks leaves the states alone.
LEMMA SameStates ==
    ASSUME NEW p, Parser(p), NEW q, "states" \in DOMAIN q, q.states = p.states,
           q.message = p.message
    PROVE  Parser(q) /\ Extends(p, q)
BY Reflexive DEF Parser

\* What several methods do: work on the other stacks, then a new state.
LEMMA ThenPush ==
    ASSUME NEW p, Parser(p), NEW q, Extends(p, q), Parser(q), NEW x \in Inside
    PROVE  Extends(p, Push(q, x))
BY PushExtends, Transitive, Names

-----------------------------------------------------------------------------
(* A start tag only pushes.                                                *)

LEMMA RefuseExtends ==
    ASSUME Parser(parser), Refuse \/ Ignore
    PROVE  Extends(parser, parser')
BY ErrorExtends, Reflexive DEF Refuse, Ignore, Parser

LEMMA DatasetExtends ==
    ASSUME Parser(parser), NEW n, NEW kind, NEW grade, StartDataset(n, kind, grade)
    PROVE  Extends(parser, parser')
<1> DEFINE p == IF kind = "Dataset" THEN parser ELSE Error(parser)
           q == IF grade = "short" THEN Error(p) ELSE p
           r == [q EXCEPT !.groups = Append(@, Root)]
<1>1. Extends(parser, p) /\ Parser(p)
    BY ErrorExtends, SameStates DEF Parser
<1>2. Extends(parser, q) /\ Parser(q)
    <2> HIDE DEF p
    <2>1. Extends(p, q) /\ Parser(q)
        BY <1>1, ErrorExtends, SameStates DEF Parser
    <2> QED  BY <1>1, <2>1, Transitive
<1>3. Extends(parser, r) /\ Parser(r)
    <2> HIDE DEF q
    <2>1. "states" \in DOMAIN r /\ r.states = q.states /\ r.message = q.message
        BY <1>2 DEF Parser
    <2> HIDE DEF r
    <2> QED  BY <1>2, <2>1, SameStates, Transitive
<1>4. parser' = Push(r, "inside_dataset")
    BY DEF StartDataset
<1> HIDE DEF r
<1> QED  BY <1>3, <1>4, ThenPush DEF Inside

\* The parser after one of the process methods has changed other stacks: it is
\* that of before, or has an error on top.
LEMMA ProcessExtends ==
    ASSUME Parser(parser), NEW n, NEW kind, NEW grade,
           \/ ProcessEnumDef(n, grade) \/ ProcessEnumConst(n, grade)
           \/ ProcessDimensionDef(n, grade) \/ ProcessGroup(n, grade)
    PROVE  Extends(parser, parser')
<1>1. CASE Refuse \/ parser' = Error(parser)
    BY <1>1, RefuseExtends, ErrorExtends
<1>2. CASE ProcessEnumDef(n, grade) /\ grade # "short"
    <2> DEFINE r == [parser EXCEPT !.enum.def = n]
    <2>1. "states" \in DOMAIN r /\ r.states = parser.states /\ r.message = parser.message
        BY DEF Parser
    <2>2. parser' = Push(r, "inside_enum_def")
        BY <1>2 DEF ProcessEnumDef
    <2> HIDE DEF r
    <2> QED  BY <2>1, <2>2, SameStates, ThenPush DEF Inside
<1>3. CASE ProcessEnumConst(n, grade) /\ grade # "short"
    <2> DEFINE r == IF grade = "bad" THEN Error(parser)
                    ELSE [parser EXCEPT !.enum.consts = @ \cup {n}]
    <2>1. Extends(parser, r) /\ Parser(r)
        <3>1. CASE grade = "bad"
            BY <3>1, ErrorExtends
        <3>2. CASE grade # "bad"
            <4>1. "states" \in DOMAIN r /\ r.states = parser.states /\ r.message = parser.message
                BY <3>2 DEF Parser
            <4> HIDE DEF r
            <4> QED  BY <4>1, SameStates
        <3> QED  BY <3>1, <3>2
    <2>2. parser' = Push(r, "inside_enum_const")
        BY <1>3 DEF ProcessEnumConst
    <2> HIDE DEF r
    <2> QED  BY <2>1, <2>2, ThenPush DEF Inside
<1>4. CASE ProcessDimensionDef(n, grade) /\ grade # "short"
    <2> DEFINE r == [parser EXCEPT !.dim = n]
    <2>1. "states" \in DOMAIN r /\ r.states = parser.states /\ r.message = parser.message
        BY DEF Parser
    <2>2. parser' = Push(r, "inside_dim_def")
        BY <1>4 DEF ProcessDimensionDef
    <2> HIDE DEF r
    <2> QED  BY <2>1, <2>2, SameStates, ThenPush DEF Inside
<1>5. CASE ProcessGroup(n, grade) /\ grade # "short"
    <2> DEFINE r == [parser EXCEPT !.groups = Append(@, n), !.tables = Append(@, n)]
    <2>1. "states" \in DOMAIN r /\ r.states = parser.states /\ r.message = parser.message
        BY DEF Parser
    <2>2. parser' = Push(r, "inside_group")
        BY <1>5 DEF ProcessGroup
    <2> HIDE DEF r
    <2> QED  BY <2>1, <2>2, SameStates, ThenPush DEF Inside
<1> QED
    BY <1>1, <1>2, <1>3, <1>4, <1>5
       DEF ProcessEnumDef, ProcessEnumConst, ProcessDimensionDef, ProcessGroup

LEMMA NodeExtends ==
    ASSUME Parser(parser), NEW n, NEW kind, NEW grade,
           \/ ProcessVariable(n, kind, grade) \/ ProcessAttribute(n, kind, grade)
           \/ ProcessDim(n, kind, grade)
    PROVE  Extends(parser, parser')
<1>1. CASE Refuse
    BY <1>1, RefuseExtends
<1>2. CASE ProcessVariable(n, kind, grade) /\ grade # "short"
    <2> DEFINE p == IF grade = "bad" THEN FatalError(parser) ELSE parser
               r == [p EXCEPT !.variables = Append(@, [node |-> n, proto |-> n, array |-> FALSE]),
                              !.tables = Append(@, n)]
    <2>1. Extends(parser, p) /\ Parser(p)
        BY ErrorExtends, SameStates DEF Parser
    <2>2. Extends(parser, r) /\ Parser(r)
        <3> HIDE DEF p
        <3>1. "states" \in DOMAIN r /\ r.states = p.states /\ r.message = p.message
            BY <2>1 DEF Parser
        <3> HIDE DEF r
        <3> QED  BY <2>1, <3>1, SameStates, Transitive
    <2>3. PICK x \in Inside : parser' = Push(r, x)
        BY <1>2 DEF ProcessVariable, Inside
    <2> HIDE DEF r
    <2> QED  BY <2>2, <2>3, ThenPush
<1>3. CASE ProcessAttribute(n, kind, grade) /\ grade # "short"
    <2> DEFINE r == IF kind = "Container" THEN [parser EXCEPT !.tables = Append(@, n)]
                    ELSE [parser EXCEPT !.name = n]
    <2>1. "states" \in DOMAIN r /\ r.states = parser.states /\ r.message = parser.message
        BY DEF Parser
    <2>2. PICK x \in Inside : parser' = Push(r, x)
        BY <1>3 DEF ProcessAttribute, Inside
    <2> HIDE DEF r
    <2> QED  BY <2>1, <2>2, SameStates, ThenPush
<1>4. CASE ProcessDim(n, kind, grade) /\ grade # "short"
    <2> DEFINE r == TopAsArray(parser)
    <2>1. "states" \in DOMAIN r /\ r.states = parser.states /\ r.message = parser.message
        BY DEF Parser, TopAsArray
    <2>2. PICK x \in Inside : parser' = Push(r, x)
        BY <1>4 DEF ProcessDim, Inside
    <2> HIDE DEF r
    <2> QED  BY <2>1, <2>2, SameStates, ThenPush
<1> QED
    BY <1>1, <1>2, <1>3, <1>4 DEF ProcessVariable, ProcessAttribute, ProcessDim

LEMMA StartExtends ==
    ASSUME Parser(parser), NEW n, NEW kind, NEW grade, StartTag(n, kind, grade)
    PROVE  Extends(parser, parser')
<1>1. CASE Refuse \/ Ignore
    BY <1>1, RefuseExtends
<1>2. CASE parser' = Push(parser, "not_dap4") \/ parser' = Push(parser, "inside_attribute_value")
    BY <1>2, Reflexive, ThenPush DEF Inside, Parser
<1>3. CASE StartDataset(n, kind, grade)
    BY <1>3, DatasetExtends
<1>4. CASE parser' = [parser EXCEPT !.depth = @ + 1, !.xml = @ \cup {n}]
    <2>1. "states" \in DOMAIN parser' /\ parser'.states = parser.states
          /\ parser'.message = parser.message
        BY <1>4 DEF Parser
    <2> QED  BY <2>1, SameStates
<1>5. CASE \/ ProcessEnumDef(n, grade) \/ ProcessEnumConst(n, grade)
           \/ ProcessDimensionDef(n, grade) \/ ProcessGroup(n, grade)
    BY <1>5, ProcessExtends
<1>6. CASE \/ ProcessVariable(n, kind, grade) \/ ProcessAttribute(n, kind, grade)
           \/ ProcessDim(n, kind, grade)
    BY <1>6, NodeExtends
<1> DEFINE foreign == kind = "Foreign"
           ignoring == {"inside_attribute_value", "inside_enum_const", "inside_dim_def",
                        "inside_dim", "inside_map", "not_dap4", "fatal", "end"}
<1>7. CASE foreign /\ State # "error"
    BY <1>7, <1>2 DEF StartTag
<1>8. CASE State = "error"
    BY <1>8, <1>1 DEF StartTag
<1>9. CASE ~foreign /\ State = "start"
    BY <1>9, <1>3 DEF StartTag
<1>10. CASE ~foreign /\ State = "inside_other_xml_attribute"
    BY <1>10, <1>4 DEF StartTag
<1>11. CASE ~foreign /\ State \in ignoring
    BY <1>11, <1>1 DEF StartTag
<1>12. CASE ~foreign /\ State \notin ignoring \cup {"error", "start", "inside_other_xml_attribute"}
    <2>1. CASE ~Expected(State, kind)
        BY <1>12, <2>1, <1>1 DEF StartTag
    <2>2. CASE Expected(State, kind)
        <3>1. kind \in {"Enumeration", "Dimension", "Group", "Value", "EnumConst", "Dim", "Map"}
                       \cup Variables \cup Attributes
            BY <2>2 DEF Expected
        <3> QED
            BY <1>12, <2>2, <3>1, <1>2, <1>5, <1>6 DEF StartTag, Variables, Attributes
    <2> QED  BY <2>1, <2>2
<1> QED
    BY <1>7, <1>8, <1>9, <1>10, <1>11, <1>12

-----------------------------------------------------------------------------
(* An end tag pops the state that ends, or pushes.                         *)

\* From the states s to the states t.
Pops(s, t) ==
    \/ t = s
    \/ \E x \in ErrorStates : t = Append(s, x)
    \/ /\ Last(s) \in Inside
       /\ \/ t = Front(s)
          \/ \E x \in ErrorStates : t = Append(Front(s), x)
          \/ Len(s) = 2 /\ t = <<"end">>

LEMMA PopStates ==
    ASSUME NEW p, Parser(p)
    PROVE  Pop(p).states = Front(p.states) /\ "states" \in DOMAIN Pop(p)
BY DEF Pop, Parser

LEMMA ErrorStatesOf ==
    ASSUME NEW p, Parser(p), NEW q, q \in {Error(p), FatalError(p)}
    PROVE  Parser(q) /\ Front(q.states) = p.states
           /\ \E x \in ErrorStates : q.states = Append(p.states, x)
<1>1. \E x \in ErrorStates : q.states = Append(p.states, x)
    BY DEF Error, FatalError, Parser, ErrorStates
<1> QED  BY <1>1, ErrorExtends

\* The state that ends is popped, or an error in its place.
LEMMA PlainPops ==
    ASSUME Parser(parser), Last(parser.states) \in Inside, NEW p, NEW q,
           p \in {parser, Error(parser), FatalError(parser)},
           "states" \in DOMAIN q, q.states = p.states, parser' = Pop(q)
    PROVE  Pops(parser.states, parser'.states) /\ "states" \in DOMAIN parser'
<1>1. Parser(p) /\ Parser(q)
    BY ErrorStatesOf DEF Parser
<1>2. parser'.states = Front(p.states) /\ "states" \in DOMAIN parser'
    BY <1>1, PopStates
<1>3. Front(p.states) = parser.states \/ p = parser
    BY ErrorStatesOf
<1> QED  BY <1>2, <1>3 DEF Pops

LEMMA ErrorPops ==
    ASSUME Parser(parser), parser' \in {parser, Error(parser), FatalError(parser)}
    PROVE  Pops(parser.states, parser'.states) /\ "states" \in DOMAIN parser'
BY ErrorStatesOf DEF Pops, Parser

LEMMA EndDatasetPops ==
    ASSUME Stacked(parser.states), Parser(parser), State = "inside_dataset", NEW kind,
           EndDataset(kind)
    PROVE  Pops(parser.states, parser'.states) /\ "states" \in DOMAIN parser'
<1> DEFINE s == parser.states
           m == Mismatch(kind, "Dataset")
           p == Pop(m)
<1>0. s \in Seq(States) /\ Last(s) \in Inside /\ Last(s) = "inside_dataset" /\ Len(s) >= 2
    BY DEF Parser, State, Inside, Last, Stacked, Ends
<1>1. m \in {parser, Error(parser)} /\ Parser(m)
    BY ErrorStatesOf DEF Mismatch
<1>2. p.states = Front(m.states) /\ "states" \in DOMAIN p
    BY <1>1, PopStates
<1>3. CASE m # parser
    <2>1. p.states = s /\ Parser(p)
        BY <1>1, <1>2, <1>3, ErrorStatesOf DEF Parser
    <2>2. Last(p.states) # "start"
        BY <1>0, <2>1
    <2>3. parser' = FatalError(p)
        BY <2>2 DEF EndDataset
    <2> HIDE DEF p
    <2> QED  BY <2>1, <2>3, ErrorStatesOf DEF Pops, Parser
<1>4. CASE m = parser
    <2>0. /\ Front(s) \in Seq(States) /\ Len(Front(s)) = Len(s) - 1
          /\ \A k \in 1 .. Len(s) - 1 : Front(s)[k] = s[k]
        BY <1>0 DEF Front
    <2>1. p.states = Front(s) /\ Parser(p)
        BY <1>2, <1>4, <2>0 DEF Parser
    <2>2. CASE Last(p.states) # "start"
        <3>1. parser' = FatalError(p)
            BY <2>2 DEF EndDataset
        <3> HIDE DEF p
        <3> QED  BY <1>0, <2>1, <3>1, ErrorStatesOf DEF Pops, Parser
    <2>3. CASE Last(p.states) = "start"
        <3>1. parser' = Push(Pop(p), "end")
            BY <2>3 DEF EndDataset
        <3>2. s[Len(s) - 1] = "start"
            BY <1>0, <2>0, <2>1, <2>3 DEF Last
        <3>3. Len(s) = 2
            <4>1. s[Len(s) - 1] \in Ends /\ Len(s) \in Nat
                BY <1>0, <3>2 DEF Ends
            <4>2. Len(s) - 1 \notin 2 .. Len(s)
                BY <4>1 DEF Stacked
            <4>3. \A x \in Nat : x >= 2 /\ x - 1 \notin 2 .. x => x = 2
                OBVIOUS
            <4> QED  BY <1>0, <4>1, <4>2, <4>3
        <3>4. Front(Front(s)) = << >>
            BY <1>0, <2>0, <3>3 DEF Front
        <3>5. Pop(p).states = << >> /\ "states" \in DOMAIN Pop(p)
            BY <2>1, <3>4, PopStates
        <3>6. parser'.states = <<"end">> /\ "states" \in DOMAIN parser'
            <4>1. Append(<< >>, "end") = <<"end">>
                OBVIOUS
            <4>2. parser'.states = Append(Pop(p).states, "end") /\ "states" \in DOMAIN parser'
                BY <3>1, <3>5 DEF Push
            <4> QED  BY <3>5, <4>1, <4>2
        <3> QED  BY <1>0, <3>3, <3>6 DEF Pops
    <2> QED  BY <2>2, <2>3
<1> QED  BY <1>3, <1>4

LEMMA EndContainerPops ==
    ASSUME Parser(parser), State \in Inside, NEW n, NEW kind, NEW tag,
           \/ EndGroup(kind) \/ EndContainer(kind) \/ EndPlain(kind, tag) \/ EndValue(n, kind)
           \/ EndOtherXML(kind) \/ EndEnumDef(kind) \/ EndDimDef(kind)
    PROVE  Pops(parser.states, parser'.states) /\ "states" \in DOMAIN parser'
<1>0. Last(parser.states) \in Inside
    BY DEF State
<1>1. \A t : Mismatch(kind, t) \in {parser, Error(parser)} /\ Parser(Mismatch(kind, t))
    BY ErrorStatesOf DEF Mismatch
<1>2. CASE EndGroup(kind)
    <2> DEFINE p == Mismatch(kind, "Group")
               q == IF p.variables # << >> \/ p.groups = << >> THEN Error(p) ELSE p
               r == [q EXCEPT !.groups = Front(@)]
    <2>1. p \in {parser, Error(parser)} /\ Parser(p)
        BY <1>1
    <2>2. Parser(q)
        <3> HIDE DEF p
        <3> QED  BY <2>1, ErrorStatesOf
    <2>3. Parser(r) /\ r.states = q.states /\ parser' = Pop(r)
        <3>1. parser' = Pop(r)
            BY <1>2 DEF EndGroup
        <3> HIDE DEF q
        <3> QED  BY <2>2, <3>1 DEF Parser
    <2>4. parser'.states = Front(q.states) /\ "states" \in DOMAIN parser'
        <3> HIDE DEF r
        <3> QED  BY <2>3, PopStates
    <2>5. Front(q.states) \in {Front(p.states), p.states}
        <3> HIDE DEF p
        <3> QED  BY <2>1, ErrorStatesOf
    <2>6. Pops(parser.states, p.states) /\ (Front(p.states) = parser.states \/ p = parser)
        <3> HIDE DEF p
        <3> QED  BY <2>1, ErrorStatesOf DEF Pops
    <2> HIDE DEF p
    <2>7. Pops(parser.states, Front(p.states))
        BY <1>0, <2>6 DEF Pops
    <2> QED  BY <2>4, <2>5, <2>6, <2>7
<1>3. ASSUME NEW p \in {parser, Error(parser)}, NEW q, "states" \in DOMAIN q,
             q.states = p.states, parser' = Pop(q)
      PROVE  Pops(parser.states, parser'.states) /\ "states" \in DOMAIN parser'
    BY <1>0, <1>3, PlainPops
<1>4. CASE EndContainer(kind) \/ EndPlain(kind, tag) \/ EndValue(n, kind)
           \/ EndEnumDef(kind) \/ EndDimDef(kind)
    <2>1. PICK t : \/ parser' = Pop([Mismatch(kind, t) EXCEPT !.tables = Front(@)])
                   \/ parser' = Pop(Mismatch(kind, t))
                   \/ parser' = Pop([Mismatch(kind, t) EXCEPT !.enum = [def |-> 0, consts |-> {}]])
                   \/ parser' = Pop([Mismatch(kind, t) EXCEPT !.dim = 0])
        BY <1>4 DEF EndContainer, EndPlain, EndValue, EndEnumDef, EndDimDef
    <2>2. PICK p : p = Mismatch(kind, t)
        OBVIOUS
    <2>3. PICK q : q.states = p.states /\ "states" \in DOMAIN q /\ parser' = Pop(q)
        BY <1>1, <2>1, <2>2 DEF Parser
    <2> QED  BY <1>1, <1>3, <2>2, <2>3
<1>5. CASE EndOtherXML(kind)
    <2>1. CASE Tag(kind) = "Attribute"
        <3>1. parser' = Pop([parser EXCEPT !.xml = {}])
            BY <1>5, <2>1 DEF EndOtherXML
        <3>2. [parser EXCEPT !.xml = {}].states = parser.states
              /\ "states" \in DOMAIN [parser EXCEPT !.xml = {}]
            BY DEF Parser
        <3> QED  BY <1>3, <3>1, <3>2
    <2>2. CASE Tag(kind) # "Attribute" /\ parser.depth = 0
        BY <1>5, <2>2, ErrorPops DEF EndOtherXML, Refuse
    <2>3. CASE Tag(kind) # "Attribute" /\ parser.depth # 0
        <3>1. parser' = [parser EXCEPT !.depth = @ - 1]
            BY <1>5, <2>3 DEF EndOtherXML
        <3> QED  BY <3>1 DEF Pops, Parser
    <2> QED  BY <2>1, <2>2, <2>3
<1> QED  BY <1>2, <1>4, <1>5

LEMMA EndVariablePops ==
    ASSUME Parser(parser), State \in Inside, NEW kind, EndSimple(kind) \/ EndConstructor(kind)
    PROVE  Pops(parser.states, parser'.states) /\ "states" \in DOMAIN parser'
<1>0. Last(parser.states) \in Inside
    BY DEF State
<1>1. CASE Refuse \/ parser' = Pop(Error(parser))
    BY <1>0, <1>1, ErrorPops, PlainPops, ErrorStatesOf DEF Refuse, Parser
<1>2. Parser(Closed) /\ Closed.states = parser.states
    BY DEF Closed, Parser
<1>3. CASE DropVariable
    <2>1. parser' = Pop(FatalError(Closed))
        BY <1>3 DEF DropVariable
    <2>2. parser'.states = Front(FatalError(Closed).states) /\ "states" \in DOMAIN parser'
        BY <1>2, <2>1, PopStates, ErrorStatesOf
    <2> QED  BY <1>2, <2>2, ErrorStatesOf DEF Pops
<1>4. CASE parser' = Pop(Closed)
    BY <1>0, <1>2, <1>4, PlainPops DEF Parser
<1>5. ASSUME NEW j, NEW v, parser' = Pop([Closed EXCEPT !.variables[j].proto = v])
      PROVE  Pops(parser.states, parser'.states) /\ "states" \in DOMAIN parser'
    <2> DEFINE q == [Closed EXCEPT !.variables[j].proto = v]
    <2>1. q.states = parser.states /\ "states" \in DOMAIN q
        BY <1>2 DEF Parser
    <2>2. parser' = Pop(q)
        BY <1>5
    <2> HIDE DEF q
    <2> QED  BY <1>0, <2>1, <2>2, PlainPops
<1> QED
    BY <1>1, <1>3, <1>4, <1>5 DEF EndSimple, EndConstructor

LEMMA EndPops ==
    ASSUME Stacked(parser.states), Parser(parser), NEW n, NEW kind, EndTag(n, kind)
    PROVE  Pops(parser.states, parser'.states) /\ "states" \in DOMAIN parser'
<1>1. CASE State = "inside_dataset"
    BY <1>1, EndDatasetPops DEF EndTag
<1>2. CASE State \in {"inside_group", "inside_attribute_container", "inside_attribute",
                      "inside_attribute_value", "inside_other_xml_attribute", "inside_enum_def",
                      "inside_enum_const", "inside_dim_def", "inside_dim", "inside_map"}
    <2>1. State \in Inside
        BY <1>2 DEF Inside
    <2>2. \E tag : \/ EndGroup(kind) \/ EndContainer(kind) \/ EndPlain(kind, tag)
                   \/ EndValue(n, kind) \/ EndOtherXML(kind) \/ EndEnumDef(kind)
                   \/ EndDimDef(kind)
        BY <1>2 DEF EndTag
    <2> QED  BY <2>1, <2>2, EndContainerPops
<1>3. CASE State \in {"inside_simple_type", "inside_constructor"}
    <2>1. State \in Inside /\ (EndSimple(kind) \/ EndConstructor(kind))
        BY <1>3 DEF EndTag, Inside
    <2> QED  BY <2>1, EndVariablePops
<1>4. CASE State = "not_dap4"
    <2>1. parser' = Pop(parser) /\ Last(parser.states) \in Inside
        BY <1>4 DEF EndTag, State, Inside
    <2> QED  BY <2>1, PlainPops DEF Parser
<1>5. CASE State \in {"start", "error", "fatal", "end"}
    <2>1. parser' = FatalError(parser) \/ Ignore
        BY <1>5 DEF EndTag
    <2> QED  BY <2>1, ErrorPops DEF Ignore
<1>6. State \in States
    BY DEF State, Stacked, Last
<1> QED
    BY <1>1, <1>2, <1>3, <1>4, <1>5, <1>6 DEF States, Inside, ErrorStates, Ends

-----------------------------------------------------------------------------
(* Both keep an error where it is.                                         *)

LEMMA ExtendsKeeps ==
    ASSUME Stacked(parser.states), Extends(parser, parser')
    PROVE  /\ Stacked(parser'.states)
           /\ HasError(parser.states) => HasError(parser'.states)
           /\ parser'.message # parser.message \/ Errors' # Errors => HasError(parser'.states)
<1> DEFINE s == parser.states
           t == parser'.states
<1>1. /\ Len(s) \in Nat /\ Len(t) \in Nat /\ Len(s) >= 1 /\ Len(t) >= Len(s)
      /\ DOMAIN s = 1 .. Len(s) /\ DOMAIN t = 1 .. Len(t)
      /\ \A k \in 1 .. Len(s) : t[k] = s[k]
      /\ \A k \in Len(s) + 1 .. Len(t) : t[k] \notin Ends
      /\ t \in Seq(States)
    BY DEF Stacked, Extends
<1>2. Stacked(t)
    BY <1>1 DEF Stacked
<1>3. HasError(s) => HasError(t)
    BY <1>1 DEF HasError
<1>4. (\E k \in Len(s) + 1 .. Len(t) : t[k] \in ErrorStates) => HasError(t)
    BY <1>1 DEF HasError
<1>5. ASSUME \A k \in Len(s) + 1 .. Len(t) : t[k] \notin ErrorStates
      PROVE  Errors' = Errors
    <2>1. Errors = {k \in 1 .. Len(s) : s[k] \in ErrorStates}
        BY <1>1 DEF Errors, ErrorStates
    <2>2. Errors' = {k \in 1 .. Len(t) : t[k] \in ErrorStates}
        BY <1>1 DEF Errors, ErrorStates
    <2> QED  BY <1>1, <1>5, <2>1, <2>2
<1> QED  BY <1>2, <1>3, <1>4, <1>5 DEF Extends

LEMMA FrontIs ==
    ASSUME NEW S, NEW s \in Seq(S), Len(s) >= 1
    PROVE  /\ Front(s) \in Seq(S) /\ Len(Front(s)) = Len(s) - 1
           /\ \A k \in 1 .. Len(s) - 1 : Front(s)[k] = s[k]
<1>1. /\ Len(s) \in Nat /\ Len(s) - 1 \in Int
      /\ \A i \in 1 .. Len(s) - 1 : s[i] \in S
    OBVIOUS
<1>2. Len(s) >= 2 \/ Len(s) = 1
    <2>1. \A m \in Nat : m >= 1 => m >= 2 \/ m = 1
        OBVIOUS
    <2> QED  BY <1>1, <2>1
<1>3. CASE Len(s) >= 2
    BY <1>3 DEF Front
<1>4. CASE Len(s) = 1
    <2>1. SubSeq(s, 1, Len(s) - 1) = <<>>
        BY <1>4
    <2> QED  BY <1>4, <2>1 DEF Front
<1> QED  BY <1>2, <1>3, <1>4

LEMMA PopsKeep ==
    ASSUME NEW s, NEW t, Stacked(s), Pops(s, t)
    PROVE  Stacked(t) /\ (HasError(s) => HasError(t))
<1>0. s \in Seq(States) /\ Len(s) \in Nat /\ Len(s) >= 1
    BY DEF Stacked
<1>1. CASE t = s
    BY <1>1
<1>2. ASSUME NEW x \in ErrorStates, t = Append(s, x)
      PROVE  Stacked(t) /\ HasError(t)
    <2>1. /\ t \in Seq(States) /\ Len(t) = Len(s) + 1 /\ t[Len(s) + 1] = x
          /\ \A k \in 1 .. Len(s) : t[k] = s[k]
        BY <1>0, <1>2, Names
    <2>2. Stacked(t)
        BY <1>0, <2>1, Names DEF Stacked
    <2> QED  BY <1>0, <2>1, <2>2 DEF HasError
<1>3. CASE Last(s) \in Inside
    <2> DEFINE f == Front(s)
    <2>1. /\ f \in Seq(States) /\ Len(f) = Len(s) - 1
          /\ \A k \in 1 .. Len(s) - 1 : f[k] = s[k]
        BY <1>0, FrontIs
    <2>2. s[Len(s)] \in Inside /\ s[Len(s)] \notin ErrorStates /\ s[Len(s)] \notin Ends
        BY <1>3, Names DEF Last
    <2>3. Len(s) >= 2
        BY <1>0, <2>2 DEF Stacked
    <2> HIDE DEF f
    <2>4. Stacked(f)
        BY <1>0, <2>1, <2>3 DEF Stacked
    <2>5. HasError(s) => HasError(f)
        BY <1>0, <2>1, <2>2 DEF HasError
    <2>6. ASSUME NEW x \in ErrorStates, t = Append(f, x)
          PROVE  Stacked(t) /\ HasError(t)
        <3>1. /\ t \in Seq(States) /\ Len(t) = Len(s) /\ t[Len(s)] = x
              /\ \A k \in 1 .. Len(s) - 1 : t[k] = s[k]
            BY <1>0, <2>1, <2>6, Names
        <3>2. Stacked(t)
            BY <1>0, <2>3, <3>1, Names DEF Stacked
        <3> QED  BY <2>3, <3>1, <3>2 DEF HasError
    <2>7. CASE Len(s) = 2 /\ t = <<"end">>
        <3>1. ~HasError(s)
            BY <2>2, <2>7 DEF HasError
        <3>2. "end" \in States /\ "end" \in Ends
            BY DEF States, Ends
        <3>3. Stacked(t)
            BY <2>7, <3>2 DEF Stacked
        <3> QED  BY <3>1, <3>3
    <2> QED  BY <1>1, <1>2, <2>4, <2>5, <2>6, <2>7 DEF Pops, f
<1> QED  BY <1>1, <1>2, <1>3 DEF Pops

-----------------------------------------------------------------------------
(* The steps.                                                              *)

LEMMA Initially == DMRInit => PInv
<1> SUFFICES ASSUME DMRInit PROVE PInv
    OBVIOUS
<1>1. "states" \in DOMAIN parser /\ parser.states = <<"start">> /\ ~started
    BY DEF DMRInit, NewParser
<1>2. "start" \in States /\ "start" \in Ends
    BY DEF States, Ends
<1>3. Stacked(parser.states)
    BY <1>1, <1>2 DEF Stacked
<1> QED  BY <1>1, <1>3 DEF PInv

LEMMA StartKeeps ==
    ASSUME PInv, NEW kind, NEW grade, StartElement(kind, grade)
    PROVE  PInv'
<1>1. Parser(parser) /\ Stacked(parser.states)
    BY DEF PInv, Stacked, Parser
<1>2. Extends(parser, parser')
    <2>1. Ignore \/ StartTag(count', kind, grade)
        BY DEF StartElement
    <2>2. CASE Ignore
        BY <1>1, <2>2, RefuseExtends
    <2>3. CASE StartTag(count', kind, grade)
        <3>1. \A n : StartTag(n, kind, grade) => Extends(parser, parser')
            BY <1>1, StartExtends
        <3> QED  BY <2>3, <3>1
    <2> QED  BY <2>1, <2>2, <2>3
<1>3. /\ Stacked(parser'.states)
      /\ HasError(parser.states) => HasError(parser'.states)
      /\ parser'.message # parser.message \/ Errors' # Errors => HasError(parser'.states)
    BY <1>1, <1>2, ExtendsKeeps
<1>4. "states" \in DOMAIN parser'
    BY <1>2 DEF Extends
<1>5. started' => HasError(parser'.states)
    BY <1>3 DEF StartElement, PInv
<1>6. result' # "accepted"
    BY DEF StartElement
<1> QED  BY <1>3, <1>4, <1>5, <1>6 DEF PInv

LEMMA EndKeeps ==
    ASSUME PInv, EndElement
    PROVE  PInv'
<1>1. Parser(parser) /\ Stacked(parser.states)
    BY DEF PInv, Stacked, Parser
<1>2. Pops(parser.states, parser'.states) /\ "states" \in DOMAIN parser'
    <2>1. Ignore \/ EndTag(Last(unclosed).node, Last(unclosed).kind)
        BY DEF EndElement
    <2>2. CASE Ignore
        BY <1>1, <2>2, ErrorPops DEF Ignore
    <2>3. CASE EndTag(Last(unclosed).node, Last(unclosed).kind)
        BY <1>1, <2>3, EndPops
    <2> QED  BY <2>1, <2>2, <2>3
<1>3. Stacked(parser'.states) /\ (HasError(parser.states) => HasError(parser'.states))
    BY <1>1, <1>2, PopsKeep
<1>4. started' = started /\ result' # "accepted"
    BY DEF EndElement
<1> QED  BY <1>2, <1>3, <1>4 DEF PInv

LEMMA EndDocumentKeeps ==
    ASSUME PInv, EndDocument
    PROVE  PInv'
<1>1. Parser(parser) /\ Stacked(parser.states)
    BY DEF PInv, Stacked, Parser
<1>2. parser' = parser \/ parser' = Error(parser) \/ parser' = Error(Error(parser))
    BY DEF EndDocument
<1>3. Extends(parser, parser')
    <2>1. Extends(parser, parser)
        BY <1>1, Reflexive DEF Parser
    <2>2. Extends(parser, Error(parser)) /\ Parser(Error(parser))
        BY <1>1, ErrorExtends
    <2>3. Extends(parser, Error(Error(parser)))
        BY <1>1, <2>2, ErrorExtends, Transitive
    <2> QED  BY <1>2, <2>1, <2>2, <2>3
<1>4. /\ Stacked(parser'.states) /\ "states" \in DOMAIN parser'
      /\ HasError(parser.states) => HasError(parser'.states)
    BY <1>1, <1>3, ExtendsKeeps DEF Extends
<1>5. ASSUME State # "end"
      PROVE  result' # "accepted"
    <2>1. Error(parser).states = Append(parser.states, "error")
        BY <1>1 DEF Error, Parser
    <2>2. Last(Error(parser).states) = "error"
        BY <1>1, <2>1 DEF Parser, Last
    <2>3. parser' = Error(parser)
        BY <1>5, <2>2 DEF EndDocument
    <2> QED  BY <1>5, <2>2, <2>3 DEF EndDocument
<1>6. ASSUME started
      PROVE  State # "end"
    <2>1. PICK k \in 2 .. Len(parser.states) : parser.states[k] \in ErrorStates
        BY <1>6 DEF PInv, HasError
    <2>2. Len(parser.states) \in 2 .. Len(parser.states)
        BY <1>1, <2>1 DEF Stacked
    <2>3. parser.states[Len(parser.states)] \notin Ends
        BY <1>1, <2>2 DEF Stacked
    <2> QED  BY <2>3 DEF State, Last, Ends
<1>7. started' = started
    BY DEF EndDocument
<1> QED  BY <1>4, <1>5, <1>6, <1>7 DEF PInv

LEMMA RestKeeps ==
    ASSUME PInv, (\E s : Begin(s)) \/ (\E kind : ThrowException(kind)) \/ UNCHANGED dmrVars
    PROVE  PInv'
<1>1. parser' = parser /\ started' = started /\ (result' = result \/ result' = "exception")
    BY DEF Begin, ThrowException, dmrVars
<1> QED  BY <1>1 DEF PInv

\* The states are properly stacked and an error that a start tag left in them
\* is never popped (D4ParserSax2.cc:649-1101).
THEOREM ErrorsStay == DMRSpec => []PInv
<1>1. PInv /\ [DMRNext]_dmrVars => PInv'
    BY StartKeeps, EndKeeps, EndDocumentKeeps, RestKeeps DEF DMRNext
<1> QED  BY <1>1, Initially, PTL DEF DMRSpec

\* Whatever the document, if a start tag of it was refused, intern() throws
\* (D4ParserSax2.h:68-70, D4ParserSax2.cc:1240-1270).
THEOREM RefusedIsNotAccepted == DMRSpec => []StartErrorsThrow
<1>1. PInv => StartErrorsThrow
    BY DEF PInv, StartErrorsThrow
<1> QED  BY <1>1, ErrorsStay, PTL

-----------------------------------------------------------------------------
(* What a printed document looks like.                                     *)

Groups == {"Dataset", "Group"}
WithTable == Groups \cup Variables \cup {"Container"}

\* kind may be in parent, and its rank there
Child(parent, kind, r) ==
    \/ parent \in Groups /\ \/ kind = "Dimension" /\ r = 1
                            \/ kind = "Enumeration" /\ r = 2
                            \/ kind \in Variables /\ r = 3
                            \/ kind \in Attributes /\ r = 4
                            \/ kind = "Group" /\ r = 5
    \/ parent = "Simple" /\ \/ kind = "Dim" /\ r = 1
                            \/ kind \in Attributes /\ r = 2
                            \/ kind = "Map" /\ r = 3
    \/ parent = "Structure" /\ \/ kind \in Variables /\ r = 1
                               \/ kind = "Dim" /\ r = 2
                               \/ kind \in Attributes /\ r = 3
                               \/ kind = "Map" /\ r = 4
    \/ parent = "Container" /\ kind \in Attributes /\ r = 1
    \/ parent = "Attribute" /\ kind = "Value" /\ r = 1
    \/ parent = "Enumeration" /\ kind = "EnumConst" /\ r = 1
    \/ parent \in {"OtherXML", "Xml"} /\ kind = "Xml" /\ r = 1

LEMMA RankIsChild ==
    ASSUME NEW parent, parent # "Foreign", NEW kind, kind # "Foreign", NEW r \in Rank(parent, kind)
    PROVE  Child(parent, kind, r)
<1>1. CASE parent \in Groups
    BY <1>1 DEF Rank, Child, Groups, Variables, Attributes
<1>2. CASE parent = "Simple"
    BY <1>2 DEF Rank, Child, Variables, Attributes
<1>3. CASE parent = "Structure"
    BY <1>3 DEF Rank, Child, Variables, Attributes
<1>4. CASE parent \in {"Container", "Attribute", "Enumeration"}
    BY <1>4 DEF Rank, Child, Variables, Attributes
<1>5. CASE parent \in {"OtherXML", "Xml"}
    BY <1>5 DEF Rank, Child, Variables, Attributes
<1>6. CASE parent \notin Groups \cup {"Simple", "Structure", "Container", "Attribute",
                               "Enumeration", "OtherXML", "Xml"}
    BY <1>6 DEF Rank, Groups
<1> QED  BY <1>1, <1>2, <1>3, <1>4, <1>5, <1>6 DEF Groups

LEMMA ForeignRank ==
    ASSUME NEW parent, Rank(parent, "Foreign") # {}
    PROVE  parent \in {"OtherXML", "Xml", "Foreign"}
BY DEF Rank, Variables, Attributes

Element == [kind : Kinds, node : Nat, rank : Nat]

Nested(U) ==
    /\ U \in Seq(Element) /\ Len(U) >= 1
    /\ U[1].kind = "Dataset" /\ U[1].node = Root
    /\ \A k \in 2 .. Len(U) : Child(U[k - 1].kind, U[k].kind, U[k - 1].rank)

\* W is U with a new element.
Grows(U, W, kind, n) ==
    /\ W \in Seq(Element) /\ Len(W) = Len(U) + 1
    /\ \A k \in 1 .. Len(U) :
          W[k].kind = U[k].kind /\ W[k].node = U[k].node /\ W[k].rank >= U[k].rank
    /\ \A k \in 1 .. Len(U) - 1 : W[k].rank = U[k].rank
    /\ W[Len(U) + 1].kind = kind /\ W[Len(U) + 1].node = n
    /\ Child(U[Len(U)].kind, kind, W[Len(U)].rank)

LEMMA GrowsNested ==
    ASSUME NEW U, Nested(U), NEW W, NEW kind, NEW n, Grows(U, W, kind, n)
    PROVE  Nested(W)
<1>1. Len(U) \in Nat /\ Len(W) = Len(U) + 1
    BY DEF Nested, Grows
<1>2. ASSUME NEW k \in 2 .. Len(W) PROVE Child(W[k - 1].kind, W[k].kind, W[k - 1].rank)
    <2>1. CASE k = Len(W)
        BY <1>1, <2>1 DEF Nested, Grows
    <2>2. CASE k # Len(W)
        BY <1>1, <1>2, <2>2 DEF Nested, Grows
    <2> QED  BY <2>1, <2>2
<1>3. W[1].kind = "Dataset" /\ W[1].node = Root
    BY <1>1 DEF Nested, Grows
<1> QED  BY <1>1, <1>2, <1>3 DEF Nested, Grows

-----------------------------------------------------------------------------
(* The stacks of the parser while a printed document has the elements U     *)
(* unclosed.  They are those of the outer g groups, the v variables in      *)
(* these, and what else of U has an attribute table, up to element t; the   *)
(* inner d elements are of an OtherXML.                                     *)

StateOf(kind) ==
    CASE kind = "Dataset"     -> "inside_dataset"
      [] kind = "Group"       -> "inside_group"
      [] kind = "Container"   -> "inside_attribute_container"
      [] kind = "Attribute"   -> "inside_attribute"
      [] kind = "Value"       -> "inside_attribute_value"
      [] kind = "OtherXML"    -> "inside_other_xml_attribute"
      [] kind = "Enumeration" -> "inside_enum_def"
      [] kind = "EnumConst"   -> "inside_enum_const"
      [] kind = "Dimension"   -> "inside_dim_def"
      [] kind = "Dim"         -> "inside_dim"
      [] kind = "Map"         -> "inside_map"
      [] kind = "Simple"      -> "inside_simple_type"
      [] OTHER                -> "inside_constructor"

Layered(U, g, v, t) ==
    /\ g \in Nat /\ v \in Nat /\ t \in Nat
    /\ 1 <= g /\ g + v <= t /\ t <= Len(U)
    /\ \A k \in 1 .. Len(U) :
          /\ U[k].kind \in Groups <=> k <= g
          /\ U[k].kind \in Variables <=> g < k /\ k <= g + v
          /\ U[k].kind = "Container" <=> g + v < k /\ k <= t

Grouped(U, s, g) ==
    s \in Seq(Nat) /\ Len(s) = g /\ \A k \in 1 .. g : s[k] = U[k].node

Variable == [node : Nat, proto : Nat, array : BOOLEAN]

\* A Structure is made an array after its members.
Varied(U, s, g, v) ==
    /\ s \in Seq(Variable) /\ Len(s) = v
    /\ \A k \in 1 .. v :
          /\ s[k].node = U[g + k].node /\ s[k].proto = U[g + k].node
          /\ s[k].array => U[g + k].kind = "Simple" \/ U[g + k].rank >= 2

\* EndGroup leaves the table of a group on its stack, but what is after a group
\* is another one.
Tabled(U, s, g, t) ==
    /\ s \in Seq(Nat)
    /\ U[g].rank <= 4 => /\ Len(s) > t - g
                         /\ \A k \in g .. t : s[Len(s) - t + k] = U[k].node

Stated(U, s, d) ==
    /\ s \in Seq(States) /\ d \in 0 .. Len(U) - 1 /\ Len(s) = 1 + Len(U) - d
    /\ s[1] = "start"
    /\ \A k \in 1 .. Len(U) - d : s[k + 1] = StateOf(U[k].kind) /\ U[k].kind # "Xml"
    /\ \A k \in Len(U) - d + 1 .. Len(U) : U[k].kind = "Xml"

\* What the methods of the element after t have noted.
Working(U, p, t) ==
    /\ t < Len(U) =>
          /\ U[t + 1].kind = "Enumeration" => p.enum.def = U[t + 1].node
          /\ U[t + 1].kind = "Dimension" => p.dim = U[t + 1].node
          /\ U[t + 1].kind \in {"OtherXML", "Attribute"} => p.name = U[t + 1].node
    /\ t = Len(U) \/ U[t + 1].kind # "Enumeration" => p.enum.consts = {}
    /\ t = Len(U) \/ U[t + 1].kind # "OtherXML" => p.xml = {}

\* What is said already, but made by the end tags.
VariablesLeft(U, g, v) == {Node(U[k].node, U[k - 1].node, "variable") : k \in g + 1 .. g + v}
ElementLeft(U, consts, xml, t) ==
    IF t = Len(U) THEN {}
    ELSE LET e  == U[t + 1].node
             in == U[t].node
         IN CASE U[t + 1].kind = "Enumeration" ->
                   {Node(e, in, "enum")} \cup {Node(c, e, "const") : c \in consts}
              [] U[t + 1].kind = "Dimension" -> {Node(e, in, "dimension")}
              [] U[t + 1].kind = "OtherXML" ->
                   {Node(e, in, "otherxml")} \cup {Node(x, e, "xml") : x \in xml}
              [] U[t + 1].kind = "Attribute" /\ Len(U) > t + 1 ->
                   {Node(U[t + 2].node, e, "value"), Node(e, in, "attribute")}
              [] OTHER -> {}
Left(U, p, g, v, t) ==
    VariablesLeft(U, g, v) \cup ElementLeft(U, p.enum.consts, p.xml, t)

Parsers ==
    [states : Seq(States), variables : Seq(Variable), groups : Seq(Nat), tables : Seq(Nat),
     enum : [def : Nat, consts : SUBSET Nat], dim : Nat, name : Nat, xml : SUBSET Nat,
     depth : Nat, message : BOOLEAN]

Follows(U, p, g, v, t) ==
    /\ Nested(U) /\ p \in Parsers
    /\ Layered(U, g, v, t)
    /\ Grouped(U, p.groups, g) /\ Varied(U, p.variables, g, v)
    /\ Tabled(U, p.tables, g, t) /\ Stated(U, p.states, p.depth)
    /\ Working(U, p, t)

Running(U, p, m, w) ==
    \E g, v, t \in 0 .. Len(U) : Follows(U, p, g, v, t) /\ w = m \cup Left(U, p, g, v, t)

\* What is said and not lost: attributes without a value are.
Told == written \ Valueless

\* The numbers of elements that are said, and the Attributes that have begun.
Said ==
    /\ \A m \in written : m.node \in 1 .. count /\ (m.as = "value" => m.in \in 1 .. count)
    /\ \A k \in 1 .. Len(unclosed) : unclosed[k].node \in 1 .. count
    /\ \A k \in 2 .. Len(unclosed) : unclosed[k].kind = "Attribute" =>
          LET a == Node(unclosed[k].node, unclosed[k - 1].node, "attribute")
          IN  a \in written /\ \A m \in written : m.node = a.node => m = a

Before == unclosed = <<>> /\ parser = NewParser /\ made = {} /\ written = {}
During == Running(unclosed, parser, made, Told) /\ Said
After ==
    /\ unclosed = <<>> /\ Told = made
    /\ parser.states = <<"end">> /\ parser.variables = <<>> /\ parser.groups = <<Root>>

PrintedInv ==
    /\ count \in Nat
    /\ source = "none" => count = 0 /\ Before /\ result = "none"
    /\ source = "printed" =>
          /\ result = "exception" => strict
          /\ Foreign \/ /\ result \in {"none", "accepted", "exception"}
                        /\ \/ count = 0 /\ Before /\ result = "none"
                           \/ count > 0 /\ During /\ result \in {"none", "exception"}
                           \/ count > 0 /\ After /\ result \in {"none", "accepted"}

-----------------------------------------------------------------------------
(* Sequences that lose or get an element.                                  *)

LEMMA AppendIs ==
    ASSUME NEW S, NEW s \in Seq(S), NEW x \in S
    PROVE  /\ Append(s, x) \in Seq(S) /\ Len(Append(s, x)) = Len(s) + 1
           /\ Append(s, x)[Len(s) + 1] = x
           /\ \A k \in 1 .. Len(s) : Append(s, x)[k] = s[k]
OBVIOUS

Shrinks(U, W) ==
    /\ W \in Seq(Element) /\ Len(W) = Len(U) - 1 /\ Len(W) >= 1
    /\ \A k \in 1 .. Len(W) : W[k] = U[k]

LEMMA FrontShrinks ==
    ASSUME NEW U, Nested(U), Len(U) >= 2
    PROVE  Shrinks(U, Front(U)) /\ Nested(Front(U))
<1>1. U \in Seq(Element) /\ Len(U) \in Nat
    BY DEF Nested
<1>2. Shrinks(U, Front(U))
    BY <1>1, FrontIs DEF Shrinks
<1> HIDE DEF Front
<1>3. Nested(Front(U))
    BY <1>1, <1>2 DEF Nested, Shrinks
<1> QED  BY <1>2, <1>3

-----------------------------------------------------------------------------
(* The stacks of groups, variables, tables and states when an element       *)
(* begins, and when it ends.                                                *)

LEMMA GrownFrom ==
    ASSUME NEW U, NEW W, NEW kind, NEW n, Nested(U), Grows(U, W, kind, n)
    PROVE  /\ Len(U) \in Nat /\ Len(U) >= 1 /\ Len(W) = Len(U) + 1
           /\ \A k \in 1 .. Len(W) : k \in 1 .. Len(U) \/ k = Len(U) + 1
           /\ \A k \in 1 .. Len(U) : U[k].rank \in Nat /\ W[k].rank \in Nat
<1>1. Len(U) \in Nat /\ Len(U) >= 1 /\ Len(W) = Len(U) + 1
    BY DEF Nested, Grows
<1>2. \A k \in 1 .. Len(W) : k \in 1 .. Len(U) \/ k = Len(U) + 1
    BY <1>1
<1>3. \A k \in 1 .. Len(U) : U[k] \in Element /\ W[k] \in Element
    BY <1>1 DEF Nested, Grows
<1> QED  BY <1>1, <1>2, <1>3 DEF Element

LEMMA LayeredGrows ==
    ASSUME NEW U, NEW W, NEW kind, NEW n, Nested(U), Grows(U, W, kind, n),
           NEW g, NEW v, NEW t, Layered(U, g, v, t)
    PROVE  /\ kind \notin WithTable => Layered(W, g, v, t)
           /\ kind \in Groups /\ g = Len(U) => Layered(W, g + 1, 0, t + 1)
           /\ kind \in Variables /\ g + v = Len(U) => Layered(W, g, v + 1, t + 1)
           /\ kind = "Container" /\ t = Len(U) => Layered(W, g, v, t + 1)
<1> DEFINE m == Len(U)
<1>1. /\ m \in Nat /\ Len(W) = m + 1 /\ \A k \in 1 .. Len(W) : k \in 1 .. m \/ k = m + 1
      /\ g \in Nat /\ v \in Nat /\ t \in Nat
      /\ 1 <= g /\ g + v <= t /\ t <= m
    BY GrownFrom DEF Layered
<1>2. /\ \A k \in 1 .. m : W[k].kind = U[k].kind
      /\ W[m + 1].kind = kind
    BY DEF Grows
<1>3. \A k \in 1 .. m : /\ U[k].kind \in Groups <=> k <= g
                        /\ U[k].kind \in Variables <=> g < k /\ k <= g + v
                        /\ U[k].kind = "Container" <=> g + v < k /\ k <= t
    BY DEF Layered
<1>4. /\ kind \notin WithTable => kind \notin Groups /\ kind \notin Variables /\ kind # "Container"
      /\ kind \in Groups => kind \notin Variables /\ kind # "Container"
      /\ kind \in Variables => kind \notin Groups /\ kind # "Container"
      /\ kind = "Container" => kind \notin Groups /\ kind \notin Variables
    BY DEF WithTable, Groups, Variables
<1> HIDE DEF m
<1>5. CASE kind \notin WithTable
    <2>1. ASSUME NEW k \in 1 .. Len(W)
          PROVE  /\ W[k].kind \in Groups <=> k <= g
                 /\ W[k].kind \in Variables <=> g < k /\ k <= g + v
                 /\ W[k].kind = "Container" <=> g + v < k /\ k <= t
        BY <1>1, <1>2, <1>3, <1>4, <1>5
    <2> QED  BY <1>1, <1>4, <1>5, <2>1 DEF Layered, WithTable
<1>6. CASE kind \in Groups /\ g = m
    <2>1. ASSUME NEW k \in 1 .. Len(W)
          PROVE  /\ W[k].kind \in Groups <=> k <= g + 1
                 /\ W[k].kind \in Variables <=> g + 1 < k /\ k <= (g + 1) + 0
                 /\ W[k].kind = "Container" <=> (g + 1) + 0 < k /\ k <= t + 1
        BY <1>1, <1>2, <1>3, <1>4, <1>6
    <2>2. Layered(W, g + 1, 0, t + 1)
        BY <1>1, <1>6, <2>1 DEF Layered
    <2> QED  BY <1>4, <1>6, <2>2 DEF WithTable
<1>7. CASE kind \in Variables /\ g + v = m
    <2>1. ASSUME NEW k \in 1 .. Len(W)
          PROVE  /\ W[k].kind \in Groups <=> k <= g
                 /\ W[k].kind \in Variables <=> g < k /\ k <= g + (v + 1)
                 /\ W[k].kind = "Container" <=> g + (v + 1) < k /\ k <= t + 1
        BY <1>1, <1>2, <1>3, <1>4, <1>7
    <2>2. v + 1 \in Nat /\ t + 1 \in Nat /\ g + (v + 1) <= t + 1 /\ t + 1 <= Len(W)
        BY <1>1, <1>7
    <2>3. Layered(W, g, v + 1, t + 1)
        BY <1>1, <2>1, <2>2 DEF Layered
    <2> QED  BY <1>4, <1>7, <2>3 DEF WithTable
<1>8. CASE kind = "Container" /\ t = m
    <2>1. ASSUME NEW k \in 1 .. Len(W)
          PROVE  /\ W[k].kind \in Groups <=> k <= g
                 /\ W[k].kind \in Variables <=> g < k /\ k <= g + v
                 /\ W[k].kind = "Container" <=> g + v < k /\ k <= t + 1
        BY <1>1, <1>2, <1>3, <1>4, <1>8
    <2>2. Layered(W, g, v, t + 1)
        BY <1>1, <1>8, <2>1 DEF Layered
    <2> QED  BY <1>4, <1>8, <2>2 DEF WithTable
<1> QED  BY <1>5, <1>6, <1>7, <1>8 DEF m

LEMMA LayeredShrinks ==
    ASSUME NEW U, NEW W, Nested(U), Shrinks(U, W),
           NEW g, NEW v, NEW t, Layered(U, g, v, t)
    PROVE  /\ t < Len(U) => Layered(W, g, v, t)
           /\ g = Len(U) => Layered(W, g - 1, 0, t - 1)
           /\ g + v = Len(U) /\ v > 0 => Layered(W, g, v - 1, t - 1)
           /\ g + v < t /\ t = Len(U) => Layered(W, g, v, t - 1)
<1> DEFINE m == Len(W)
<1>1. /\ m \in Nat /\ Len(U) = m + 1 /\ m >= 1
      /\ g \in Nat /\ v \in Nat /\ t \in Nat
      /\ 1 <= g /\ g + v <= t /\ t <= m + 1
    BY DEF Layered, Shrinks, Nested
<1>2. \A k \in 1 .. m : W[k] = U[k] /\ k \in 1 .. Len(U) /\ k <= m
    BY <1>1 DEF Shrinks
<1>3. \A k \in 1 .. m : /\ W[k].kind \in Groups <=> k <= g
                        /\ W[k].kind \in Variables <=> g < k /\ k <= g + v
                        /\ W[k].kind = "Container" <=> g + v < k /\ k <= t
    BY <1>2 DEF Layered
<1> HIDE DEF m
<1>5. ASSUME t < m + 1
      PROVE  Layered(W, g, v, t)
    BY <1>1, <1>3, <1>5 DEF Layered, m
<1>6. ASSUME g = m + 1
      PROVE  Layered(W, g - 1, 0, t - 1)
    <2>1. \A k \in 1 .. m : /\ W[k].kind \in Groups <=> k <= g - 1
                            /\ W[k].kind \in Variables <=> g - 1 < k /\ k <= (g - 1) + 0
                            /\ W[k].kind = "Container" <=> (g - 1) + 0 < k /\ k <= t - 1
        BY <1>1, <1>2, <1>3, <1>6
    <2> QED  BY <1>1, <1>6, <2>1 DEF Layered, m
<1>7. ASSUME g + v = m + 1, v > 0
      PROVE  Layered(W, g, v - 1, t - 1)
    <2>1. \A k \in 1 .. m : /\ W[k].kind \in Groups <=> k <= g
                            /\ W[k].kind \in Variables <=> g < k /\ k <= g + (v - 1)
                            /\ W[k].kind = "Container" <=> g + (v - 1) < k /\ k <= t - 1
        BY <1>1, <1>2, <1>3, <1>7
    <2> QED  BY <1>1, <1>7, <2>1 DEF Layered, m
<1>8. ASSUME g + v < t, t = m + 1
      PROVE  Layered(W, g, v, t - 1)
    <2>1. \A k \in 1 .. m : /\ W[k].kind \in Groups <=> k <= g
                            /\ W[k].kind \in Variables <=> g < k /\ k <= g + v
                            /\ W[k].kind = "Container" <=> g + v < k /\ k <= t - 1
        BY <1>1, <1>2, <1>3, <1>8
    <2> QED  BY <1>1, <1>8, <2>1 DEF Layered, m
<1> QED  BY <1>1, <1>5, <1>6, <1>7, <1>8

LEMMA GroupedGrows ==
    ASSUME NEW U, NEW W, NEW kind, NEW n \in Nat, Nested(U), Grows(U, W, kind, n),
           NEW s, NEW g \in 1 .. Len(U), Grouped(U, s, g)
    PROVE  Grouped(W, s, g) /\ (g = Len(U) => Grouped(W, Append(s, n), g + 1))
<1>1. Len(U) \in Nat /\ s \in Seq(Nat) /\ Len(s) = g /\ \A k \in 1 .. g : k \in 1 .. Len(U)
    BY GrownFrom DEF Grouped
<1>2. \A k \in 1 .. g : s[k] = W[k].node
    BY <1>1 DEF Grouped, Grows
<1>3. ASSUME g = Len(U)
      PROVE  Grouped(W, Append(s, n), g + 1)
    <2> DEFINE r == Append(s, n)
    <2>1. r \in Seq(Nat) /\ Len(r) = g + 1 /\ r[g + 1] = n /\ \A k \in 1 .. g : r[k] = s[k]
        BY <1>1, AppendIs
    <2>2. W[g + 1].node = n
        BY <1>3 DEF Grows
    <2> HIDE DEF r
    <2>3. \A k \in 1 .. g + 1 : k \in 1 .. g \/ k = g + 1
        OBVIOUS
    <2>4. \A k \in 1 .. g + 1 : r[k] = W[k].node
        BY <1>2, <2>1, <2>2, <2>3
    <2> QED  BY <2>1, <2>4 DEF Grouped, r
<1> QED  BY <1>1, <1>2, <1>3 DEF Grouped

LEMMA GroupedShrinks ==
    ASSUME NEW U, NEW W, Nested(U), Shrinks(U, W),
           NEW s, NEW g \in 1 .. Len(U), Grouped(U, s, g)
    PROVE  /\ g < Len(U) => Grouped(W, s, g)
           /\ g = Len(U) => Grouped(W, Front(s), g - 1)
<1>1. /\ Len(U) \in Nat /\ Len(W) = Len(U) - 1 /\ Len(W) >= 1
      /\ s \in Seq(Nat) /\ Len(s) = g
    BY DEF Nested, Shrinks, Grouped
<1>2. ASSUME g < Len(U)
      PROVE  Grouped(W, s, g)
    <2>1. \A k \in 1 .. g : s[k] = W[k].node
        BY <1>1, <1>2 DEF Grouped, Shrinks
    <2> QED  BY <1>1, <2>1 DEF Grouped
<1>3. ASSUME g = Len(U)
      PROVE  Grouped(W, Front(s), g - 1)
    <2> DEFINE r == Front(s)
    <2>0. Len(s) >= 1
        BY <1>1
    <2>1. r \in Seq(Nat) /\ Len(r) = Len(s) - 1 /\ \A k \in 1 .. Len(s) - 1 : r[k] = s[k]
        BY <1>1, <2>0, FrontIs
    <2> HIDE DEF r
    <2>2. \A k \in 1 .. g - 1 : W[k] = U[k] /\ s[k] = U[k].node /\ r[k] = s[k]
        BY <1>1, <1>3, <2>1 DEF Grouped, Shrinks
    <2> QED  BY <1>1, <2>1, <2>2 DEF Grouped, r
<1> QED  BY <1>2, <1>3

LEMMA VariedGrows ==
    ASSUME NEW U, NEW W, NEW kind, NEW n \in Nat, Nested(U), Grows(U, W, kind, n),
           NEW s, NEW g \in Nat, NEW v \in Nat, 1 <= g, g + v <= Len(U), Varied(U, s, g, v)
    PROVE  /\ Varied(W, s, g, v)
           /\ g + v = Len(U) =>
                Varied(W, Append(s, [node |-> n, proto |-> n, array |-> FALSE]), g, v + 1)
<1>1. /\ Len(U) \in Nat /\ s \in Seq(Variable) /\ Len(s) = v
      /\ \A k \in 1 .. Len(U) : U[k].rank \in Nat /\ W[k].rank \in Nat
    BY GrownFrom DEF Varied
<1>2. \A k \in 1 .. v : g + k \in 1 .. Len(U)
    BY <1>1
<1>3. ASSUME NEW k \in 1 .. v
      PROVE  /\ s[k].node = W[g + k].node /\ s[k].proto = W[g + k].node
             /\ s[k].array => W[g + k].kind = "Simple" \/ W[g + k].rank >= 2
    <2>1. /\ W[g + k].node = U[g + k].node /\ W[g + k].kind = U[g + k].kind
          /\ W[g + k].rank >= U[g + k].rank
          /\ W[g + k].rank \in Nat /\ U[g + k].rank \in Nat
        BY <1>1, <1>2 DEF Grows
    <2> QED  BY <2>1 DEF Varied
<1>4. Varied(W, s, g, v)
    BY <1>1, <1>3 DEF Varied
<1>5. ASSUME g + v = Len(U)
      PROVE  Varied(W, Append(s, [node |-> n, proto |-> n, array |-> FALSE]), g, v + 1)
    <2> DEFINE x == [node |-> n, proto |-> n, array |-> FALSE]
               r == Append(s, x)
    <2>1. x \in Variable /\ x.node = n /\ x.proto = n /\ ~x.array
        BY DEF Variable
    <2> HIDE DEF x
    <2>2. r \in Seq(Variable) /\ Len(r) = v + 1 /\ r[v + 1] = x /\ \A k \in 1 .. v : r[k] = s[k]
        BY <1>1, <2>1, AppendIs
    <2> HIDE DEF r
    <2>3. W[g + (v + 1)].node = n
        <3>1. g + (v + 1) = Len(U) + 1
            BY <1>1, <1>5
        <3> QED  BY <3>1 DEF Grows
    <2>4. \A k \in 1 .. v + 1 : k \in 1 .. v \/ k = v + 1
        OBVIOUS
    <2>5. ASSUME NEW k \in 1 .. v + 1
          PROVE  /\ r[k].node = W[g + k].node /\ r[k].proto = W[g + k].node
                 /\ r[k].array => W[g + k].kind = "Simple" \/ W[g + k].rank >= 2
        <3>1. CASE k \in 1 .. v
            BY <1>3, <2>2, <3>1
        <3>2. CASE k = v + 1
            BY <2>1, <2>2, <2>3, <3>2
        <3> QED  BY <2>4, <3>1, <3>2
    <2>6. Varied(W, r, g, v + 1)
        BY <2>2, <2>5 DEF Varied
    <2> QED  BY <2>6 DEF r, x
<1> QED  BY <1>4, <1>5

LEMMA VariedShrinks ==
    ASSUME NEW U, NEW W, Nested(U), Shrinks(U, W),
           NEW s, NEW g \in Nat, NEW v \in Nat, 1 <= g, g + v <= Len(U), Varied(U, s, g, v)
    PROVE  /\ g + v < Len(U) => Varied(W, s, g, v)
           /\ v > 0 => Varied(W, Front(s), g, v - 1)
<1>1. /\ Len(U) \in Nat /\ Len(W) = Len(U) - 1 /\ s \in Seq(Variable) /\ Len(s) = v
    BY DEF Nested, Shrinks, Varied
<1>2. ASSUME g + v < Len(U)
      PROVE  Varied(W, s, g, v)
    <2>1. \A k \in 1 .. v : W[g + k] = U[g + k]
        BY <1>1, <1>2 DEF Shrinks
    <2> QED  BY <1>1, <2>1 DEF Varied
<1>3. ASSUME v > 0
      PROVE  Varied(W, Front(s), g, v - 1)
    <2> DEFINE r == Front(s)
    <2>0. Len(s) >= 1
        BY <1>1, <1>3
    <2>1. r \in Seq(Variable) /\ Len(r) = Len(s) - 1 /\ \A k \in 1 .. Len(s) - 1 : r[k] = s[k]
        BY <1>1, <2>0, FrontIs
    <2> HIDE DEF r
    <2>2. \A k \in 1 .. v - 1 : g + k \in 1 .. Len(W) /\ k \in 1 .. v
        BY <1>1
    <2>3. \A k \in 1 .. v - 1 : W[g + k] = U[g + k] /\ r[k] = s[k] /\ k \in 1 .. v
        BY <1>1, <2>1, <2>2 DEF Shrinks
    <2>4. \A k \in 1 .. v - 1 :
              /\ r[k].node = W[g + k].node /\ r[k].proto = W[g + k].node
              /\ r[k].array => W[g + k].kind = "Simple" \/ W[g + k].rank >= 2
        BY <2>3 DEF Varied
    <2> QED  BY <1>1, <2>1, <2>4 DEF Varied, r
<1> QED  BY <1>2, <1>3

LEMMA RankOfGroup ==
    ASSUME NEW U, Nested(U), NEW g, NEW v, NEW t, Layered(U, g, v, t)
    PROVE  /\ g < Len(U) => U[g].rank \in 1 .. 4
           /\ g >= 2 => U[g - 1].rank = 5
<1>1. Len(U) \in Nat /\ g \in Nat /\ 1 <= g /\ g <= Len(U)
    BY DEF Nested, Layered
<1>2. ASSUME g < Len(U)
      PROVE  U[g].rank \in 1 .. 4
    <2>1. g \in 1 .. Len(U) /\ g + 1 \in 1 .. Len(U) /\ g + 1 \in 2 .. Len(U) /\ (g + 1) - 1 = g
          /\ ~(g + 1 <= g)
        BY <1>1, <1>2
    <2>2. U[g].kind \in Groups /\ U[g + 1].kind \notin Groups
        BY <1>1, <2>1 DEF Layered
    <2>3. Child(U[g].kind, U[g + 1].kind, U[g].rank)
        BY <2>1 DEF Nested
    <2> QED  BY <2>2, <2>3 DEF Child, Groups
<1>3. ASSUME g >= 2
      PROVE  U[g - 1].rank = 5
    <2>1. g \in 2 .. Len(U) /\ g \in 1 .. Len(U) /\ g - 1 \in 1 .. Len(U) /\ g - 1 <= g
        BY <1>1, <1>3
    <2>2. U[g].kind \in Groups /\ U[g - 1].kind \in Groups
        BY <1>1, <2>1 DEF Layered
    <2>3. Child(U[g - 1].kind, U[g].kind, U[g - 1].rank)
        BY <2>1 DEF Nested
    <2> QED  BY <2>2, <2>3 DEF Child, Groups, Variables, Attributes
<1> QED  BY <1>2, <1>3

LEMMA TabledGrows ==
    ASSUME NEW U, NEW W, NEW kind, NEW n \in Nat, Nested(U), Grows(U, W, kind, n),
           NEW s, NEW g \in Nat, NEW t \in Nat, 1 <= g, g <= t, t <= Len(U), Tabled(U, s, g, t)
    PROVE  /\ Tabled(W, s, g, t)
           /\ t = Len(U) => Tabled(W, Append(s, n), g, t + 1)
           /\ g = Len(U) => Tabled(W, Append(s, n), g + 1, t + 1)
<1> DEFINE m == Len(U)
           r == Append(s, n)
<1>1. m \in Nat /\ s \in Seq(Nat) /\ Len(s) \in Nat /\ \A k \in g .. t : k \in 1 .. m
    BY GrownFrom DEF Tabled
<1>2. /\ r \in Seq(Nat) /\ Len(r) = Len(s) + 1 /\ r[Len(s) + 1] = n
      /\ \A k \in 1 .. Len(s) : r[k] = s[k]
    BY <1>1, AppendIs
<1>3. \A k \in g .. t : W[k].node = U[k].node
    BY <1>1 DEF Grows
<1>4. W[m + 1].node = n
    BY DEF Grows
<1>5. ASSUME W[g].rank <= 4
      PROVE  Len(s) > t - g /\ \A k \in g .. t : s[Len(s) - t + k] = U[k].node
    <2>1. g \in 1 .. m
        BY <1>1
    <2>2. W[g].rank >= U[g].rank /\ W[g].rank \in Nat /\ U[g].rank \in Nat
        BY <2>1, GrownFrom DEF Grows
    <2>3. U[g].rank <= 4
        BY <1>5, <2>2
    <2> QED  BY <2>3 DEF Tabled
<1> HIDE DEF m, r
<1>6. Tabled(W, s, g, t)
    BY <1>1, <1>3, <1>5 DEF Tabled
<1>7. ASSUME t = m
      PROVE  Tabled(W, r, g, t + 1)
    <2>1. ASSUME W[g].rank <= 4
          PROVE  Len(r) > (t + 1) - g
        BY <1>1, <1>2, <1>5, <2>1
    <2>2. ASSUME W[g].rank <= 4, NEW k \in g .. t + 1
          PROVE  r[Len(r) - (t + 1) + k] = W[k].node
        <3>1. CASE k = t + 1
            <4>1. Len(r) - (t + 1) + k = Len(s) + 1
                BY <1>1, <1>2, <3>1
            <4> QED  BY <1>2, <1>4, <1>7, <3>1, <4>1
        <3>2. CASE k # t + 1
            <4>1. k \in g .. t
                BY <2>2, <3>2
            <4>2. /\ Len(r) - (t + 1) + k = Len(s) - t + k
                  /\ Len(s) - t + k \in 1 .. Len(s)
              <5>1. Len(s) > t - g
                  BY <1>5, <2>2
              <5> QED  BY <1>1, <1>2, <4>1, <5>1
            <4> QED  BY <1>2, <1>3, <1>5, <2>2, <4>1, <4>2
        <3> QED  BY <3>1, <3>2
    <2> QED  BY <1>2, <2>1, <2>2 DEF Tabled
<1>8. ASSUME g = m
      PROVE  Tabled(W, r, g + 1, t + 1)
    <2>1. t = m
        BY <1>1, <1>8 DEF m
    <2>2. Len(r) > (t + 1) - (g + 1)
        BY <1>1, <1>2, <1>8, <2>1
    <2>3. ASSUME NEW k \in g + 1 .. t + 1
          PROVE  r[Len(r) - (t + 1) + k] = W[k].node
        <3>1. k = m + 1 /\ Len(r) - (t + 1) + k = Len(s) + 1
            BY <1>1, <1>2, <1>8, <2>1
        <3> QED  BY <1>2, <1>4, <3>1
    <2> QED  BY <1>2, <2>2, <2>3 DEF Tabled
<1> QED  BY <1>6, <1>7, <1>8 DEF m, r

LEMMA TabledShrinks ==
    ASSUME NEW U, NEW W, Nested(U), Shrinks(U, W), NEW s,
           NEW g, NEW v, NEW t, Layered(U, g, v, t), Tabled(U, s, g, t)
    PROVE  /\ t < Len(U) => Tabled(W, s, g, t)
           /\ t = Len(U) /\ g < t => Len(s) > 1 /\ Tabled(W, Front(s), g, t - 1)
           /\ g = Len(U) => Tabled(W, s, g - 1, t - 1)
<1>1. /\ Len(U) \in Nat /\ Len(W) = Len(U) - 1 /\ Len(W) >= 1 /\ s \in Seq(Nat) /\ Len(s) \in Nat
      /\ g \in Nat /\ t \in Nat /\ 1 <= g /\ g <= t /\ t <= Len(U)
    BY DEF Nested, Shrinks, Tabled, Layered
<1>2. ASSUME t < Len(U)
      PROVE  Tabled(W, s, g, t)
    <2>0. \A k \in g .. t : k \in 1 .. Len(W)
        BY <1>1, <1>2
    <2>1. \A k \in g .. t : W[k] = U[k]
        BY <2>0 DEF Shrinks
    <2>2. W[g] = U[g]
        BY <1>1, <1>2 DEF Shrinks
    <2> QED  BY <1>1, <2>1, <2>2 DEF Tabled
<1>3. ASSUME t = Len(U), g < t
      PROVE  Len(s) > 1 /\ Tabled(W, Front(s), g, t - 1)
    <2> DEFINE r == Front(s)
    <2>1. U[g].rank \in 1 .. 4
        BY <1>3, RankOfGroup
    <2>2. Len(s) > t - g /\ \A k \in g .. t : s[Len(s) - t + k] = U[k].node
        BY <2>1 DEF Tabled
    <2>3. Len(s) > 1
        BY <1>1, <1>3, <2>2
    <2>4. r \in Seq(Nat) /\ Len(r) = Len(s) - 1 /\ \A k \in 1 .. Len(s) - 1 : r[k] = s[k]
        BY <1>1, <2>3, FrontIs
    <2> HIDE DEF r
    <2>5. ASSUME NEW k \in g .. t - 1
          PROVE  r[Len(r) - (t - 1) + k] = W[k].node
        <3>1. /\ Len(r) - (t - 1) + k = Len(s) - t + k /\ Len(s) - t + k \in 1 .. Len(s) - 1
              /\ k \in g .. t
            BY <1>1, <1>3, <2>2, <2>4
        <3>2. W[k] = U[k]
            BY <1>1, <1>3 DEF Shrinks
        <3> QED  BY <2>2, <2>4, <3>1, <3>2
    <2>6. Len(r) > (t - 1) - g
        BY <1>1, <2>2, <2>4
    <2> QED  BY <2>3, <2>4, <2>5, <2>6 DEF Tabled, r
<1>4. ASSUME g = Len(U)
      PROVE  Tabled(W, s, g - 1, t - 1)
    <2>1. U[g - 1].rank = 5 /\ W[g - 1] = U[g - 1]
        BY <1>1, <1>4, RankOfGroup DEF Shrinks
    <2> QED  BY <1>1, <2>1 DEF Tabled
<1> QED  BY <1>2, <1>3, <1>4

LEMMA StateOfIs ==
    ASSUME NEW kind
    PROVE  StateOf(kind) \in States /\ StateOf(kind) \in Inside
BY DEF StateOf, States, Inside

LEMMA StatedGrows ==
    ASSUME NEW U, NEW W, NEW kind, NEW n \in Nat, Nested(U), Grows(U, W, kind, n),
           NEW s, NEW d, Stated(U, s, d)
    PROVE  /\ kind = "Xml" => Stated(W, s, d + 1)
           /\ kind # "Xml" /\ d = 0 => Stated(W, Append(s, StateOf(kind)), 0)
<1> DEFINE m == Len(U)
<1>1. /\ m \in Nat /\ Len(W) = m + 1 /\ d \in 0 .. m - 1 /\ s \in Seq(States)
      /\ Len(s) = 1 + m - d /\ s[1] = "start"
    BY GrownFrom DEF Stated
<1>2. W[m + 1].kind = kind /\ \A k \in 1 .. m : W[k].kind = U[k].kind
    BY DEF Grows
<1>3. /\ \A k \in 1 .. m - d : s[k + 1] = StateOf(U[k].kind) /\ U[k].kind # "Xml"
      /\ \A k \in m - d + 1 .. m : U[k].kind = "Xml"
    BY DEF Stated
<1> HIDE DEF m
<1>4. \A k \in 1 .. m - d : k \in 1 .. m /\ s[k + 1] = StateOf(W[k].kind) /\ W[k].kind # "Xml"
    BY <1>1, <1>2, <1>3
<1>5. ASSUME kind = "Xml"
      PROVE  Stated(W, s, d + 1)
    <2>1. \A k \in m - d + 1 .. m + 1 : k = m + 1 \/ (k \in 1 .. m /\ k \in m - d + 1 .. m)
        BY <1>1
    <2>2. \A k \in m - d + 1 .. m + 1 : W[k].kind = "Xml"
        BY <1>2, <1>3, <1>5, <2>1
    <2>3. /\ (m + 1) - (d + 1) = m - d /\ (m + 1) - (d + 1) + 1 = m - d + 1
          /\ d + 1 \in 0 .. (m + 1) - 1 /\ 1 + (m + 1) - (d + 1) = 1 + m - d
        BY <1>1
    <2> QED  BY <1>1, <1>4, <2>2, <2>3 DEF Stated
<1>6. ASSUME kind # "Xml", d = 0
      PROVE  Stated(W, Append(s, StateOf(kind)), 0)
    <2> DEFINE r == Append(s, StateOf(kind))
    <2>1. /\ r \in Seq(States) /\ Len(r) = Len(s) + 1 /\ r[Len(s) + 1] = StateOf(kind)
          /\ \A k \in 1 .. Len(s) : r[k] = s[k]
        BY <1>1, StateOfIs, AppendIs
    <2> HIDE DEF r
    <2>2. Len(s) = m + 1
        BY <1>1, <1>6
    <2>3. ASSUME NEW k \in 1 .. m + 1
          PROVE  r[k + 1] = StateOf(W[k].kind) /\ W[k].kind # "Xml"
        <3>1. CASE k = m + 1
            BY <1>2, <1>6, <2>1, <2>2, <3>1
        <3>2. CASE k # m + 1
            <4>1. k \in 1 .. m - d /\ k + 1 \in 1 .. Len(s)
                BY <1>1, <1>6, <2>2, <3>2
            <4> QED  BY <1>4, <2>1, <4>1
        <3> QED  BY <3>1, <3>2
    <2>4. r[1] = "start"
        BY <1>1, <2>1, <2>2
    <2>5. /\ (m + 1) - 0 = m + 1 /\ 0 \in 0 .. (m + 1) - 1 /\ Len(r) = 1 + (m + 1) - 0
          /\ \A k \in (m + 1) - 0 + 1 .. m + 1 : FALSE
        BY <1>1, <2>1, <2>2
    <2> QED  BY <1>1, <2>1, <2>3, <2>4, <2>5 DEF Stated, r
<1> QED  BY <1>5, <1>6

LEMMA StatedShrinks ==
    ASSUME NEW U, NEW W, Nested(U), Shrinks(U, W), NEW s, NEW d, Stated(U, s, d)
    PROVE  /\ d > 0 => Stated(W, s, d - 1)
           /\ d = 0 => Stated(W, Front(s), 0)
<1> DEFINE m == Len(W)
<1>1. /\ m \in Nat /\ m >= 1 /\ Len(U) = m + 1 /\ d \in 0 .. m /\ s \in Seq(States)
      /\ Len(s) = m + 2 - d /\ s[1] = "start"
    BY DEF Stated, Nested, Shrinks
<1>2. \A k \in 1 .. m : W[k] = U[k]
    BY DEF Shrinks
<1>3. /\ \A k \in 1 .. m + 1 - d : s[k + 1] = StateOf(U[k].kind) /\ U[k].kind # "Xml"
      /\ \A k \in m + 1 - d + 1 .. m + 1 : U[k].kind = "Xml"
    BY <1>1 DEF Stated
<1> HIDE DEF m
<1>4. ASSUME d > 0
      PROVE  Stated(W, s, d - 1)
    <2>1. /\ m - (d - 1) = m + 1 - d /\ d - 1 \in 0 .. m - 1 /\ Len(s) = 1 + m - (d - 1)
        BY <1>1, <1>4
    <2>2. \A k \in 1 .. m + 1 - d : k \in 1 .. m
        BY <1>1, <1>4
    <2>3. \A k \in m + 1 - d + 1 .. m : k \in 1 .. m /\ k \in m + 1 - d + 1 .. m + 1
        BY <1>1
    <2>4. \A k \in 1 .. m - (d - 1) : s[k + 1] = StateOf(W[k].kind) /\ W[k].kind # "Xml"
        BY <1>2, <1>3, <2>1, <2>2
    <2>5. \A k \in m - (d - 1) + 1 .. m : W[k].kind = "Xml"
        BY <1>2, <1>3, <2>1, <2>3
    <2> QED  BY <1>1, <2>1, <2>4, <2>5 DEF Stated, m
<1>5. ASSUME d = 0
      PROVE  Stated(W, Front(s), 0)
    <2> DEFINE r == Front(s)
    <2>1. Len(s) >= 1 /\ Len(s) - 1 = m + 1
        BY <1>1, <1>5
    <2>2. r \in Seq(States) /\ Len(r) = Len(s) - 1 /\ \A k \in 1 .. Len(s) - 1 : r[k] = s[k]
        BY <1>1, <2>1, FrontIs
    <2> HIDE DEF r
    <2>3. ASSUME NEW k \in 1 .. m
          PROVE  r[k + 1] = StateOf(W[k].kind) /\ W[k].kind # "Xml"
        <3>1. k \in 1 .. m + 1 - d /\ k + 1 \in 1 .. Len(s) - 1
            BY <1>1, <1>5, <2>1
        <3> QED  BY <1>2, <1>3, <2>2, <3>1
    <2>4. /\ m - 0 = m /\ 0 \in 0 .. m - 1 /\ Len(r) = 1 + m - 0
          /\ \A k \in m - 0 + 1 .. m : FALSE
        BY <1>1, <2>1, <2>2
    <2>5. r[1] = "start"
        BY <1>1, <2>1, <2>2
    <2> QED  BY <1>1, <2>2, <2>3, <2>4, <2>5 DEF Stated, r, m
<1> QED  BY <1>4, <1>5

-----------------------------------------------------------------------------
(* Where an element is, by its kind.                                       *)

Leafs == {"Attribute", "OtherXML", "Enumeration", "Dimension", "Dim", "Map"}
Inners == {"Value", "EnumConst"}

LEMMA Parents ==
    ASSUME NEW parent, NEW kind, NEW r, Child(parent, kind, r)
    PROVE  /\ kind \in Leafs \cup {"Container"} => parent \in WithTable
           /\ kind = "Group" => parent \in Groups /\ r = 5
           /\ kind \in Variables => \/ parent \in Groups
                                    \/ parent = "Structure" /\ r = 1
           /\ kind \in {"Enumeration", "Dimension"} => parent \in Groups
           /\ kind \in {"Dim", "Map"} => \/ parent = "Simple"
                                         \/ parent = "Structure" /\ r >= 2
           /\ kind = "Value" => parent = "Attribute"
           /\ kind = "EnumConst" => parent = "Enumeration"
           /\ kind = "Xml" => parent \in {"OtherXML", "Xml"}
           /\ kind \in Kinds /\ kind \notin {"Dataset", "Foreign"}
<1>1. CASE parent \in Groups
    BY <1>1 DEF Child, Groups, Variables, Attributes, Leafs, WithTable, Kinds
<1>2. CASE parent \notin Groups
    BY <1>2 DEF Child, Groups, Variables, Attributes, Leafs, WithTable, Kinds
<1> QED  BY <1>1, <1>2

LEMMA Tables ==
    ASSUME NEW U, NEW g, NEW v, NEW t, Layered(U, g, v, t), Len(U) \in Nat
    PROVE  \A k \in 1 .. Len(U) : U[k].kind \in WithTable <=> k <= t
<1>1. g \in Nat /\ v \in Nat /\ t \in Nat /\ g + v <= t
    BY DEF Layered
<1>2. ASSUME NEW k \in 1 .. Len(U)
      PROVE  U[k].kind \in WithTable <=> k <= t
    <2>1. U[k].kind \in WithTable <=> \/ U[k].kind \in Groups \/ U[k].kind \in Variables
                                      \/ U[k].kind = "Container"
        BY DEF WithTable
    <2>2. /\ U[k].kind \in Groups <=> k <= g
          /\ U[k].kind \in Variables <=> g < k /\ k <= g + v
          /\ U[k].kind = "Container" <=> g + v < k /\ k <= t
        BY DEF Layered
    <2> QED  BY <1>1, <2>1, <2>2
<1> QED  BY <1>2

LEMMA Places ==
    ASSUME NEW U, Nested(U), NEW g, NEW v, NEW t, Layered(U, g, v, t),
           NEW k \in 1 .. Len(U)
    PROVE  /\ U[k].kind \in Leafs => k = t + 1
           /\ U[k].kind \in {"Value", "EnumConst"} => k = t + 2
           /\ U[k].kind = "Value" => U[k - 1].kind = "Attribute"
           /\ U[k].kind = "EnumConst" => U[k - 1].kind = "Enumeration"
<1>1. Len(U) \in Nat /\ t \in Nat /\ t >= 1 /\ t <= Len(U)
    BY DEF Nested, Layered
<1>2. ASSUME NEW j \in 1 .. Len(U), U[j].kind \in Leafs
      PROVE  j = t + 1
    <2>1. U[j].kind \notin WithTable /\ U[j].kind # "Dataset"
        BY <1>2 DEF Leafs, WithTable, Groups, Variables
    <2>2. j > t
        BY <1>1, <2>1, Tables
    <2>3. j \in 2 .. Len(U) /\ j - 1 \in 1 .. Len(U)
        BY <1>1, <2>2
    <2>4. U[j - 1].kind \in WithTable
        BY <1>2, <2>3, Parents DEF Nested
    <2>5. j - 1 <= t
        BY <1>1, <2>3, <2>4, Tables
    <2> QED  BY <1>1, <2>2, <2>5
<1>3. ASSUME U[k].kind \in {"Value", "EnumConst"}
      PROVE  /\ k = t + 2
             /\ U[k].kind = "Value" => U[k - 1].kind = "Attribute"
             /\ U[k].kind = "EnumConst" => U[k - 1].kind = "Enumeration"
    <2>1. U[k].kind # "Dataset"
        BY <1>3
    <2>2. k # 1
        BY <2>1 DEF Nested
    <2>3. k \in 2 .. Len(U) /\ k - 1 \in 1 .. Len(U)
        BY <1>1, <2>2
    <2>4. Child(U[k - 1].kind, U[k].kind, U[k - 1].rank)
        BY <2>3 DEF Nested
    <2>5. /\ U[k].kind = "Value" => U[k - 1].kind = "Attribute"
          /\ U[k].kind = "EnumConst" => U[k - 1].kind = "Enumeration"
        BY <2>4, Parents
    <2>6. U[k - 1].kind \in Leafs
        BY <1>3, <2>5 DEF Leafs
    <2>7. k - 1 = t + 1
        BY <1>2, <2>3, <2>6
    <2> QED  BY <1>1, <2>3, <2>5, <2>7
<1> QED  BY <1>2, <1>3

\* The element that has begun last.
LEMMA LastPlace ==
    ASSUME NEW U, Nested(U), NEW g, NEW v, NEW t, Layered(U, g, v, t), NEW kind,
           kind = U[Len(U)].kind
    PROVE  /\ kind \in Groups => g = Len(U) /\ v = 0 /\ t = Len(U)
           /\ kind \in Variables => g + v = Len(U) /\ v > 0 /\ t = Len(U)
           /\ kind = "Container" => g + v < t /\ t = Len(U)
           /\ kind \in WithTable => t = Len(U)
           /\ kind \in Leafs => t + 1 = Len(U)
           /\ kind \in {"Value", "EnumConst"} => t + 2 = Len(U)
           /\ kind \notin WithTable => t < Len(U)
<1> DEFINE m == Len(U)
<1>1. /\ m \in Nat /\ g \in Nat /\ v \in Nat /\ t \in Nat /\ 1 <= g /\ g + v <= t /\ t <= m
      /\ m \in 1 .. m
    BY DEF Nested, Layered
<1>2. /\ kind \in Groups <=> m <= g
      /\ kind \in Variables <=> g < m /\ m <= g + v
      /\ kind = "Container" <=> g + v < m /\ m <= t
    BY <1>1 DEF Layered
<1>3. kind \in WithTable <=> m <= t
    BY <1>1, Tables
<1>4. /\ kind \in Leafs => m = t + 1
      /\ kind \in {"Value", "EnumConst"} => m = t + 2
    BY <1>1, Places
<1> HIDE DEF m
<1> QED  BY <1>1, <1>2, <1>3, <1>4 DEF m

LEMMA Uppermost ==
    ASSUME NEW U, Nested(U), NEW g, NEW v, NEW t, Layered(U, g, v, t),
           NEW s, NEW d, Stated(U, s, d), NEW kind, kind = U[Len(U)].kind
    PROVE  /\ kind # "Xml" => d = 0 /\ Last(s) = StateOf(kind)
           /\ kind = "Xml" => d > 0
           /\ kind \in {"OtherXML", "Xml"} =>
                 /\ Last(s) = "inside_other_xml_attribute"
                 /\ t < Len(U) /\ U[t + 1].kind = "OtherXML"
<1> DEFINE m == Len(U)
<1>1. m \in Nat /\ m >= 1 /\ d \in 0 .. m - 1 /\ s \in Seq(States) /\ Len(s) = 1 + m - d
    BY DEF Nested, Stated
<1>2. /\ \A k \in 1 .. m - d : s[k + 1] = StateOf(U[k].kind) /\ U[k].kind # "Xml"
      /\ \A k \in m - d + 1 .. m : U[k].kind = "Xml"
    BY DEF Stated
<1> DEFINE j == m - d
<1>3. j \in 1 .. m /\ j \in 1 .. m - d /\ j + 1 = Len(s)
    BY <1>1
<1>4. Last(s) = StateOf(U[j].kind) /\ U[j].kind # "Xml"
    BY <1>2, <1>3 DEF Last
<1>5. d > 0 => U[m].kind = "Xml"
    <2>1. d > 0 => m \in m - d + 1 .. m
        BY <1>1
    <2> QED  BY <1>2, <2>1
<1>6. d = 0 => U[m].kind # "Xml" /\ j = m
    <2>1. d = 0 => j = m
        BY <1>1
    <2> QED  BY <1>4, <2>1
<1>7. ASSUME d > 0
      PROVE  U[j].kind = "OtherXML"
    <2>1. j + 1 \in m - d + 1 .. m /\ j + 1 \in 2 .. m /\ (j + 1) - 1 = j
        BY <1>1, <1>7
    <2>2. U[j + 1].kind = "Xml" /\ Child(U[j].kind, U[j + 1].kind, U[j].rank)
        BY <1>2, <2>1 DEF Nested
    <2> QED  BY <1>4, <2>2, Parents
<1>8. kind = U[m].kind
    OBVIOUS
<1>9. ASSUME kind \in {"OtherXML", "Xml"}
      PROVE  U[j].kind = "OtherXML"
    BY <1>1, <1>5, <1>6, <1>7, <1>8, <1>9
<1>10. ASSUME U[j].kind = "OtherXML"
       PROVE  t + 1 = j
    BY <1>3, <1>10, Places DEF Leafs
<1>11. t \in Nat
    BY DEF Layered
<1>12. StateOf("OtherXML") = "inside_other_xml_attribute"
    BY DEF StateOf
<1> HIDE DEF m, j
<1>13. kind # "Xml" => d = 0 /\ Last(s) = StateOf(kind)
    BY <1>1, <1>4, <1>5, <1>6, <1>8
<1>14. kind = "Xml" => d > 0
    BY <1>1, <1>6, <1>8
<1>15. kind \in {"OtherXML", "Xml"} =>
          Last(s) = "inside_other_xml_attribute" /\ t < m /\ U[t + 1].kind = "OtherXML"
    BY <1>1, <1>3, <1>4, <1>9, <1>10, <1>11, <1>12
<1> QED  BY <1>13, <1>14, <1>15 DEF m

-----------------------------------------------------------------------------
(* The parser when an element begins.                                      *)

\* Where the new element comes.
LEMMA Comes ==
    ASSUME NEW U, NEW p, NEW g, NEW v, NEW t, Follows(U, p, g, v, t),
           NEW W, NEW kind, NEW n, Grows(U, W, kind, n)
    PROVE  /\ Nested(W) /\ Len(U) \in Nat /\ Len(W) = Len(U) + 1
           /\ g \in Nat /\ v \in Nat /\ t \in Nat /\ 1 <= g /\ g + v <= t /\ t <= Len(U)
           /\ kind \in Leafs \cup Groups \cup Variables \cup {"Container"} => t = Len(U)
           /\ kind \in Groups => g = Len(U) /\ v = 0
           /\ kind \in Variables => g + v = Len(U)
           /\ kind \in {"Enumeration", "Dimension"} => g = Len(U)
           /\ kind \in {"Dim", "Map"} => g + v = Len(U) /\ v > 0
           /\ kind = "Value" => t + 1 = Len(U) /\ U[t + 1].kind = "Attribute"
           /\ kind = "EnumConst" => t + 1 = Len(U) /\ U[t + 1].kind = "Enumeration"
           /\ kind = "Xml" => t < Len(U) /\ U[t + 1].kind = "OtherXML"
           /\ kind # "Xml" => p.depth = 0
<1> DEFINE e == U[Len(U)].kind
<1>1. Nested(U) /\ Layered(U, g, v, t) /\ Stated(U, p.states, p.depth)
    BY DEF Follows
<1>2. Nested(W) /\ Len(U) \in Nat /\ Len(W) = Len(U) + 1
    <2>1. Nested(W)
        BY <1>1, GrowsNested
    <2> QED  BY <1>1, <2>1, GrownFrom
<1>3. g \in Nat /\ v \in Nat /\ t \in Nat /\ 1 <= g /\ g + v <= t /\ t <= Len(U)
    BY <1>1 DEF Layered
<1>4. Child(e, kind, W[Len(U)].rank)
    BY DEF Grows
<1> HIDE DEF e
<1>5. /\ kind \in Leafs \cup {"Container"} => e \in WithTable
      /\ kind \in Groups => e \in Groups
      /\ kind \in Variables => e \in Groups \cup Variables
      /\ kind \in {"Enumeration", "Dimension"} => e \in Groups
      /\ kind \in {"Dim", "Map"} => e \in Variables
      /\ kind = "Value" => e = "Attribute"
      /\ kind = "EnumConst" => e = "Enumeration"
      /\ kind = "Xml" => e \in {"OtherXML", "Xml"}
    <2>1. kind \in Groups => kind = "Group"
        BY <1>4, Parents DEF Groups
    <2> QED  BY <1>4, <2>1, Parents DEF Variables
<1>6. Groups \subseteq WithTable /\ Variables \subseteq WithTable
    BY DEF WithTable
<1>7. /\ e \in Groups => g = Len(U) /\ v = 0 /\ t = Len(U)
      /\ e \in Variables => g + v = Len(U) /\ v > 0 /\ t = Len(U)
      /\ e \in WithTable => t = Len(U)
      /\ e \in Leafs => t + 1 = Len(U)
    BY <1>1, LastPlace DEF e
<1>8. /\ e \in {"Attribute", "Enumeration"} => t + 1 = Len(U) /\ U[t + 1].kind = e
    BY <1>7 DEF e, Leafs
<1>9. e \in {"OtherXML", "Xml"} => t < Len(U) /\ U[t + 1].kind = "OtherXML"
    BY <1>1, Uppermost DEF e
<1>10. kind # "Xml" => p.depth = 0
    <2>1. kind # "Xml" => e # "Xml"
        BY <1>4 DEF Child, Groups
    <2> QED  BY <1>1, <2>1, Uppermost DEF e
<1>11. kind \in Leafs \cup Groups \cup Variables \cup {"Container"} => t = Len(U)
    BY <1>5, <1>6, <1>7
<1>12. kind \in Variables => g + v = Len(U)
    BY <1>3, <1>5, <1>7
<1> QED  BY <1>2, <1>3, <1>5, <1>7, <1>8, <1>9, <1>10, <1>11, <1>12

\* What is pushed for it.
LEMMA Pushed ==
    ASSUME NEW U, NEW p, NEW g, NEW v, NEW t, Follows(U, p, g, v, t),
           NEW W, NEW kind, NEW n \in Nat, Grows(U, W, kind, n)
    PROVE  /\ kind \notin WithTable => Layered(W, g, v, t)
           /\ kind \in Groups => Layered(W, g + 1, 0, t + 1)
           /\ kind \in Variables => Layered(W, g, v + 1, t + 1)
           /\ kind = "Container" => Layered(W, g, v, t + 1)
           /\ Grouped(W, p.groups, g)
           /\ kind \in Groups => Grouped(W, Append(p.groups, n), g + 1)
           /\ Varied(W, p.variables, g, v)
           /\ kind \in Groups => Varied(W, p.variables, g + 1, 0)
           /\ kind \in Variables =>
                 Varied(W, Append(p.variables, [node |-> n, proto |-> n, array |-> FALSE]),
                        g, v + 1)
           /\ Tabled(W, p.tables, g, t)
           /\ kind \in Groups => Tabled(W, Append(p.tables, n), g + 1, t + 1)
           /\ kind \in Variables \cup {"Container"} => Tabled(W, Append(p.tables, n), g, t + 1)
           /\ kind = "Xml" => Stated(W, p.states, p.depth + 1)
           /\ kind # "Xml" => Stated(W, Append(p.states, StateOf(kind)), p.depth)
<1>1. /\ Nested(U) /\ Layered(U, g, v, t)
      /\ Grouped(U, p.groups, g) /\ Varied(U, p.variables, g, v)
      /\ Tabled(U, p.tables, g, t) /\ Stated(U, p.states, p.depth)
    BY DEF Follows
<1>2. /\ g \in Nat /\ v \in Nat /\ t \in Nat /\ Len(U) \in Nat
      /\ 1 <= g /\ g + v <= t /\ t <= Len(U)
    BY Comes
<1>3. g \in 1 .. Len(U) /\ g <= t /\ g + v <= Len(U)
    BY <1>2
<1>4. /\ kind \in Groups \cup Variables \cup {"Container"} => t = Len(U)
      /\ kind \in Groups => g = Len(U) /\ v = 0
      /\ kind \in Variables => g + v = Len(U)
      /\ kind # "Xml" => p.depth = 0
    BY Comes
<1>5. /\ kind \notin WithTable => Layered(W, g, v, t)
      /\ kind \in Groups => Layered(W, g + 1, 0, t + 1)
      /\ kind \in Variables => Layered(W, g, v + 1, t + 1)
      /\ kind = "Container" => Layered(W, g, v, t + 1)
    BY <1>1, <1>4, LayeredGrows
<1>6. /\ Grouped(W, p.groups, g)
      /\ kind \in Groups => Grouped(W, Append(p.groups, n), g + 1)
    BY <1>1, <1>3, <1>4, GroupedGrows
<1>7. /\ Varied(W, p.variables, g, v)
      /\ kind \in Variables =>
            Varied(W, Append(p.variables, [node |-> n, proto |-> n, array |-> FALSE]), g, v + 1)
    BY <1>1, <1>2, <1>3, <1>4, VariedGrows
<1>8. kind \in Groups => Varied(W, p.variables, g + 1, 0)
    BY <1>1, <1>4 DEF Varied
<1>9. /\ Tabled(W, p.tables, g, t)
      /\ kind \in Groups => Tabled(W, Append(p.tables, n), g + 1, t + 1)
      /\ kind \in Variables \cup {"Container"} => Tabled(W, Append(p.tables, n), g, t + 1)
    BY <1>1, <1>2, <1>3, <1>4, TabledGrows
<1>10. /\ kind = "Xml" => Stated(W, p.states, p.depth + 1)
       /\ kind # "Xml" => Stated(W, Append(p.states, StateOf(kind)), p.depth)
    BY <1>1, <1>4, StatedGrows
<1> QED  BY <1>5, <1>6, <1>7, <1>8, <1>9, <1>10

\* The types of what is pushed.
LEMMA PushedTypes ==
    ASSUME NEW p \in Parsers, NEW n \in Nat, NEW kind
    PROVE  /\ Append(p.states, StateOf(kind)) \in Seq(States)
           /\ Append(p.groups, n) \in Seq(Nat) /\ Append(p.tables, n) \in Seq(Nat)
           /\ Append(p.variables, [node |-> n, proto |-> n, array |-> FALSE]) \in Seq(Variable)
<1>1. /\ p.states \in Seq(States) /\ p.groups \in Seq(Nat) /\ p.tables \in Seq(Nat)
      /\ p.variables \in Seq(Variable)
    BY DEF Parsers
<1>2. StateOf(kind) \in States /\ [node |-> n, proto |-> n, array |-> FALSE] \in Variable
    BY StateOfIs DEF Variable
<1> QED  BY <1>1, <1>2, AppendIs

\* Of the variables nothing else is left to make than before.
LEMMA SameVariablesLeft ==
    ASSUME NEW U, NEW W, NEW g \in Nat, NEW v \in Nat, 1 <= g, g + v <= Len(U), Len(U) \in Nat,
           \A k \in 1 .. Len(U) : W[k].node = U[k].node
    PROVE  VariablesLeft(W, g, v) = VariablesLeft(U, g, v)
<1>1. \A k \in g + 1 .. g + v : k \in 1 .. Len(U) /\ k - 1 \in 1 .. Len(U)
    OBVIOUS
<1>2. \A k \in g + 1 .. g + v :
          Node(W[k].node, W[k - 1].node, "variable") = Node(U[k].node, U[k - 1].node, "variable")
    BY <1>1
<1> QED  BY <1>2 DEF VariablesLeft

LEMMA NoVariablesLeft ==
    ASSUME NEW U, NEW g \in Nat
    PROVE  VariablesLeft(U, g, 0) = {}
<1>1. \A k \in g + 1 .. g + 0 : FALSE
    OBVIOUS
<1> QED  BY <1>1 DEF VariablesLeft

LEMMA VariablesLeftStay ==
    ASSUME NEW U, NEW p, NEW g, NEW v, NEW t, Follows(U, p, g, v, t),
           NEW W, NEW kind, NEW n, Grows(U, W, kind, n)
    PROVE  VariablesLeft(W, g, v) = VariablesLeft(U, g, v)
<1>1. g \in Nat /\ v \in Nat /\ g + v <= Len(U) /\ 1 <= g /\ Len(U) \in Nat
    BY Comes
<1>2. \A k \in 1 .. Len(U) : W[k].node = U[k].node
    BY DEF Grows
<1> QED  BY <1>1, <1>2, SameVariablesLeft

\* The parser after the start of a Group, a variable, an element of XML, and of
\* what the methods note.
GroupPushed(p, n) ==
    Push([p EXCEPT !.groups = Append(@, n), !.tables = Append(@, n)], "inside_group")
VariablePushed(p, n, kind) ==
    Push([p EXCEPT !.variables = Append(@, [node |-> n, proto |-> n, array |-> FALSE]),
                   !.tables = Append(@, n)], StateOf(kind))
XmlNoted(p, n) == [p EXCEPT !.depth = @ + 1, !.xml = @ \cup {n}]
Noted == {"Enumeration", "Dimension", "Attribute", "OtherXML"}
NotePushed(p, n, kind) ==
    CASE kind = "Enumeration" -> Push([p EXCEPT !.enum.def = n], "inside_enum_def")
      [] kind = "Dimension"   -> Push([p EXCEPT !.dim = n], "inside_dim_def")
      [] kind = "Attribute"   -> Push([p EXCEPT !.name = n], "inside_attribute")
      [] OTHER                -> Push([p EXCEPT !.name = n], "inside_other_xml_attribute")
HeldPushed(p, n, kind) ==
    IF kind = "Value" THEN Push(p, "inside_attribute_value")
    ELSE Push([p EXCEPT !.enum.consts = @ \cup {n}], "inside_enum_const")

LEMMA GroupBegins ==
    ASSUME NEW U, NEW p, NEW g, NEW v, NEW t, Follows(U, p, g, v, t),
           NEW W, NEW n \in Nat, Grows(U, W, "Group", n), NEW q,
           q = GroupPushed(p, n)
    PROVE  /\ Follows(W, q, g + 1, 0, t + 1)
           /\ Left(W, q, g + 1, 0, t + 1) = Left(U, p, g, v, t)
           /\ p.groups # <<>> /\ Last(p.groups) = U[Len(U)].node
<1>1. p \in Parsers /\ Grouped(U, p.groups, g) /\ Working(U, p, t)
    BY DEF Follows
<1>2. /\ Nested(W) /\ Len(U) \in Nat /\ Len(W) = Len(U) + 1
      /\ g \in Nat /\ t \in Nat /\ g = Len(U) /\ t = Len(U) /\ v = 0 /\ g >= 1
    BY Comes DEF Groups
<1>3. /\ Append(p.states, "inside_group") \in Seq(States)
      /\ Append(p.groups, n) \in Seq(Nat) /\ Append(p.tables, n) \in Seq(Nat)
      /\ StateOf("Group") = "inside_group"
    BY <1>1, PushedTypes DEF StateOf
<1>4. /\ q.states = Append(p.states, "inside_group") /\ q.variables = p.variables
      /\ q.groups = Append(p.groups, n) /\ q.tables = Append(p.tables, n)
      /\ q.enum = p.enum /\ q.xml = p.xml /\ q.depth = p.depth
    BY <1>1 DEF GroupPushed, Push, Parsers
<1>5. q \in Parsers
    BY <1>1, <1>3 DEF GroupPushed, Push, Parsers
<1>6. /\ Layered(W, g + 1, 0, t + 1) /\ Grouped(W, q.groups, g + 1)
      /\ Varied(W, q.variables, g + 1, 0) /\ Tabled(W, q.tables, g + 1, t + 1)
      /\ Stated(W, q.states, q.depth)
    BY <1>3, <1>4, Pushed DEF Groups
<1>7. Working(W, q, t + 1)
    BY <1>1, <1>2, <1>4 DEF Working
<1>8. Left(W, q, g + 1, 0, t + 1) = {} /\ Left(U, p, g, v, t) = {}
    BY <1>2, NoVariablesLeft DEF Left, ElementLeft
<1>9. p.groups # <<>> /\ Last(p.groups) = U[Len(U)].node
    BY <1>1, <1>2 DEF Grouped, Last
<1> QED  BY <1>2, <1>5, <1>6, <1>7, <1>8, <1>9 DEF Follows

LEMMA MoreVariablesLeft ==
    ASSUME NEW U, NEW g \in Nat, NEW v \in Nat
    PROVE  VariablesLeft(U, g, v + 1) =
              VariablesLeft(U, g, v) \cup {Node(U[g + v + 1].node, U[g + v].node, "variable")}
<1>1. \A k : k \in g + 1 .. g + (v + 1) <=> k \in g + 1 .. g + v \/ k = g + v + 1
    OBVIOUS
<1>2. (g + v + 1) - 1 = g + v
    OBVIOUS
<1> QED  BY <1>1, <1>2 DEF VariablesLeft

LEMMA VariableBegins ==
    ASSUME NEW U, NEW p, NEW g, NEW v, NEW t, Follows(U, p, g, v, t),
           NEW W, NEW kind \in Variables, NEW n \in Nat, Grows(U, W, kind, n), NEW q,
           q = VariablePushed(p, n, kind)
    PROVE  /\ Follows(W, q, g, v + 1, t + 1)
           /\ Left(W, q, g, v + 1, t + 1) =
                 Left(U, p, g, v, t) \cup {Node(n, U[Len(U)].node, "variable")}
<1>1. p \in Parsers /\ Working(U, p, t)
    BY DEF Follows
<1>2. /\ Nested(W) /\ Len(U) \in Nat /\ Len(W) = Len(U) + 1
      /\ g \in Nat /\ v \in Nat /\ t \in Nat /\ g + v = Len(U) /\ t = Len(U) /\ g >= 1
    BY Comes
<1> DEFINE x == [node |-> n, proto |-> n, array |-> FALSE]
<1>3. /\ Append(p.states, StateOf(kind)) \in Seq(States)
      /\ Append(p.variables, x) \in Seq(Variable) /\ Append(p.tables, n) \in Seq(Nat)
    BY <1>1, PushedTypes
<1> HIDE DEF x
<1>4. /\ q.states = Append(p.states, StateOf(kind)) /\ q.variables = Append(p.variables, x)
      /\ q.groups = p.groups /\ q.tables = Append(p.tables, n)
      /\ q.enum = p.enum /\ q.xml = p.xml /\ q.depth = p.depth
    BY <1>1 DEF VariablePushed, Push, Parsers, x
<1>5. q \in Parsers
    BY <1>1, <1>3 DEF VariablePushed, Push, Parsers, x
<1>6. kind \notin Groups /\ kind # "Xml"
    BY DEF Variables, Groups
<1>7. /\ Layered(W, g, v + 1, t + 1) /\ Grouped(W, q.groups, g)
      /\ Varied(W, q.variables, g, v + 1) /\ Tabled(W, q.tables, g, t + 1)
      /\ Stated(W, q.states, q.depth)
    BY <1>4, <1>6, Pushed DEF x
<1>8. Working(W, q, t + 1)
    BY <1>1, <1>2, <1>4 DEF Working
<1>9. VariablesLeft(W, g, v + 1) =
         VariablesLeft(U, g, v) \cup {Node(n, U[Len(U)].node, "variable")}
    <2>1. VariablesLeft(W, g, v) = VariablesLeft(U, g, v)
        BY VariablesLeftStay
    <2>2. W[g + v + 1].node = n /\ W[g + v].node = U[Len(U)].node
        BY <1>2 DEF Grows
    <2>3. VariablesLeft(W, g, v + 1) =
             VariablesLeft(W, g, v) \cup {Node(W[g + v + 1].node, W[g + v].node, "variable")}
        <3>1. g \in Nat /\ v \in Nat
            BY <1>2
        <3> QED  BY <3>1, MoreVariablesLeft
    <2> QED  BY <2>1, <2>2, <2>3
<1>10. ElementLeft(W, q.enum.consts, q.xml, t + 1) = {} /\ ElementLeft(U, p.enum.consts, p.xml, t) = {}
    BY <1>2 DEF ElementLeft
<1>11. Left(W, q, g, v + 1, t + 1) =
          Left(U, p, g, v, t) \cup {Node(n, U[Len(U)].node, "variable")}
    BY <1>9, <1>10 DEF Left
<1> QED  BY <1>2, <1>5, <1>7, <1>8, <1>11 DEF Follows

LEMMA TopTable ==
    ASSUME NEW U, NEW s, NEW g \in Nat, NEW t \in Nat, g <= t, Tabled(U, s, g, t), U[g].rank <= 4
    PROVE  s # <<>> /\ Last(s) = U[t].node
<1>1. s \in Seq(Nat) /\ Len(s) > t - g /\ s[Len(s) - t + t] = U[t].node
    BY DEF Tabled
<1>2. Len(s) - t + t = Len(s) /\ Len(s) > 0
    BY <1>1
<1> QED  BY <1>1, <1>2 DEF Last

LEMMA ContainerBegins ==
    ASSUME NEW U, NEW p, NEW g, NEW v, NEW t, Follows(U, p, g, v, t),
           NEW W, NEW n \in Nat, Grows(U, W, "Container", n), NEW q,
           q = Push([p EXCEPT !.tables = Append(@, n)], "inside_attribute_container")
    PROVE  /\ Follows(W, q, g, v, t + 1)
           /\ Left(W, q, g, v, t + 1) = Left(U, p, g, v, t)
           /\ p.tables # <<>> /\ Last(p.tables) = U[Len(U)].node
<1>1. p \in Parsers /\ Working(U, p, t)
    BY DEF Follows
<1>2. /\ Nested(W) /\ Len(U) \in Nat /\ Len(W) = Len(U) + 1
      /\ g \in Nat /\ v \in Nat /\ t \in Nat /\ g + v <= Len(U) /\ t = Len(U) /\ g >= 1
    BY Comes
<1>3. /\ Append(p.states, "inside_attribute_container") \in Seq(States)
      /\ Append(p.tables, n) \in Seq(Nat)
      /\ StateOf("Container") = "inside_attribute_container"
    BY <1>1, PushedTypes DEF StateOf
<1>4. /\ q.states = Append(p.states, "inside_attribute_container") /\ q.variables = p.variables
      /\ q.groups = p.groups /\ q.tables = Append(p.tables, n)
      /\ q.enum = p.enum /\ q.xml = p.xml /\ q.depth = p.depth
    BY <1>1 DEF Push, Parsers
<1>5. q \in Parsers
    BY <1>1, <1>3 DEF Push, Parsers
<1>6. /\ Layered(W, g, v, t + 1) /\ Grouped(W, q.groups, g)
      /\ Varied(W, q.variables, g, v) /\ Tabled(W, q.tables, g, t + 1)
      /\ Stated(W, q.states, q.depth) /\ Tabled(W, p.tables, g, t)
    BY <1>3, <1>4, Pushed
<1>7. Working(W, q, t + 1)
    <2>1. p.enum.consts = {} /\ p.xml = {}
        BY <1>1, <1>2 DEF Working
    <2>2. t + 1 = Len(W) /\ ~(t + 1 < Len(W))
        BY <1>2
    <2> QED  BY <1>4, <2>1, <2>2 DEF Working
<1>8. Left(W, q, g, v, t + 1) = Left(U, p, g, v, t)
    <2>1. VariablesLeft(W, g, v) = VariablesLeft(U, g, v)
        BY VariablesLeftStay
    <2> QED  BY <1>2, <2>1 DEF Left, ElementLeft
<1>9. p.tables # <<>> /\ Last(p.tables) = U[Len(U)].node
    <2>1. g < Len(W) /\ g <= t
        BY <1>2
    <2>2. W[g].rank \in 1 .. 4
        BY <1>2, <1>6, <2>1, RankOfGroup
    <2>3. W[g].rank <= 4
        BY <2>2
    <2>4. W[t].node = U[Len(U)].node
        BY <1>2 DEF Grows
    <2>5. p.tables # <<>> /\ Last(p.tables) = W[t].node
        BY <1>2, <1>6, <2>1, <2>3, TopTable
    <2> QED  BY <2>4, <2>5
<1> QED  BY <1>2, <1>5, <1>6, <1>7, <1>8, <1>9 DEF Follows

\* What a new element says that stays to be made by its end tag, the element
\* being in the one with the node in, and this in the one with the node out.
LeftBy(kind, n, in, out) ==
    CASE kind = "Value"       -> {Node(n, in, "value"), Node(in, out, "attribute")}
      [] kind = "OtherXML"    -> {Node(n, in, "otherxml")}
      [] kind = "Enumeration" -> {Node(n, in, "enum")}
      [] kind = "EnumConst"   -> {Node(n, in, "const")}
      [] kind = "Dimension"   -> {Node(n, in, "dimension")}
      [] OTHER                -> {}

\* The parser q after p has noted a new element of some kind.
Notes(p, q, kind, n) ==
    /\ q \in Parsers
    /\ q.states = Append(p.states, StateOf(kind)) /\ q.depth = p.depth
    /\ q.groups = p.groups /\ q.tables = p.tables /\ q.xml = p.xml
    /\ q.enum.consts = p.enum.consts \cup (IF kind = "EnumConst" THEN {n} ELSE {})
    /\ kind = "Enumeration" => q.enum.def = n
    /\ kind = "Dimension" => q.dim = n
    /\ kind \in {"OtherXML", "Attribute"} => q.name = n
    /\ kind \in {"Value", "EnumConst"} =>
          q.enum.def = p.enum.def /\ q.name = p.name /\ q.variables = p.variables

LEMMA LeafBegins ==
    ASSUME NEW U, NEW p, NEW g, NEW v, NEW t, Follows(U, p, g, v, t),
           NEW W, NEW kind \in Leafs, NEW n \in Nat, Grows(U, W, kind, n),
           NEW q, Notes(p, q, kind, n), Varied(W, q.variables, g, v)
    PROVE  /\ Follows(W, q, g, v, t)
           /\ Left(W, q, g, v, t) = Left(U, p, g, v, t) \cup LeftBy(kind, n, U[Len(U)].node, 0)
<1>1. p \in Parsers /\ Working(U, p, t)
    BY DEF Follows
<1>0. /\ q \in Parsers
      /\ q.states = Append(p.states, StateOf(kind)) /\ q.depth = p.depth
      /\ q.groups = p.groups /\ q.tables = p.tables /\ q.xml = p.xml
      /\ q.enum.consts = p.enum.consts
      /\ kind = "Enumeration" => q.enum.def = n
      /\ kind = "Dimension" => q.dim = n
      /\ kind \in {"OtherXML", "Attribute"} => q.name = n
    BY DEF Notes, Leafs
<1>2. /\ Nested(W) /\ Len(U) \in Nat /\ Len(W) = Len(U) + 1
      /\ g \in Nat /\ v \in Nat /\ t \in Nat /\ g + v <= Len(U) /\ t = Len(U) /\ g >= 1
    BY Comes
<1>3. kind \notin WithTable /\ kind # "Xml"
    BY DEF Leafs, WithTable, Groups, Variables
<1>4. /\ Layered(W, g, v, t) /\ Grouped(W, q.groups, g) /\ Tabled(W, q.tables, g, t)
      /\ Stated(W, q.states, q.depth)
    <2>1. /\ Layered(W, g, v, t) /\ Grouped(W, p.groups, g) /\ Tabled(W, p.tables, g, t)
          /\ Stated(W, Append(p.states, StateOf(kind)), p.depth)
        BY <1>3, Pushed
    <2> QED  BY <1>0, <2>1
<1>5. W[t + 1].kind = kind /\ W[t + 1].node = n /\ W[t].node = U[Len(U)].node
    BY <1>2 DEF Grows
<1>6. q.enum.consts = {} /\ q.xml = {}
    BY <1>0, <1>1, <1>2 DEF Working
<1>7. Working(W, q, t)
    BY <1>0, <1>2, <1>5, <1>6 DEF Working
<1>8. VariablesLeft(W, g, v) = VariablesLeft(U, g, v)
    BY VariablesLeftStay
<1>9. ElementLeft(U, p.enum.consts, p.xml, t) = {}
    BY <1>2 DEF ElementLeft
<1>10. ElementLeft(W, q.enum.consts, q.xml, t) = LeftBy(kind, n, U[Len(U)].node, 0)
    <2>1. t # Len(W) /\ ~(Len(W) > t + 1)
        BY <1>2
    <2> QED  BY <1>5, <1>6, <2>1 DEF ElementLeft, LeftBy, Leafs
<1>11. Left(W, q, g, v, t) = Left(U, p, g, v, t) \cup LeftBy(kind, n, U[Len(U)].node, 0)
    BY <1>8, <1>9, <1>10 DEF Left
<1> QED  BY <1>0, <1>2, <1>4, <1>7, <1>11 DEF Follows

LEMMA InnerBegins ==
    ASSUME NEW U, NEW p, NEW g, NEW v, NEW t, Follows(U, p, g, v, t),
           NEW W, NEW kind \in Inners, NEW n \in Nat, Grows(U, W, kind, n),
           NEW q, Notes(p, q, kind, n)
    PROVE  /\ Follows(W, q, g, v, t)
           /\ Left(W, q, g, v, t) = Left(U, p, g, v, t)
                 \cup LeftBy(kind, n, U[Len(U)].node, U[Len(U) - 1].node)
<1>1. p \in Parsers /\ Working(U, p, t)
    BY DEF Follows
<1>0. /\ q \in Parsers
      /\ q.states = Append(p.states, StateOf(kind)) /\ q.depth = p.depth
      /\ q.groups = p.groups /\ q.tables = p.tables /\ q.variables = p.variables
      /\ q.enum.def = p.enum.def /\ q.name = p.name /\ q.xml = p.xml
      /\ kind = "Value" => q.enum.consts = p.enum.consts
      /\ kind = "EnumConst" => q.enum.consts = p.enum.consts \cup {n}
    BY DEF Notes, Inners
<1>2. /\ Nested(W) /\ Len(U) \in Nat /\ Len(W) = Len(U) + 1
      /\ g \in Nat /\ v \in Nat /\ t \in Nat /\ g + v <= Len(U) /\ t + 1 = Len(U) /\ g >= 1
      /\ t >= 1
    BY Comes DEF Inners
<1>3. kind \notin WithTable /\ kind # "Xml"
    BY DEF Inners, WithTable, Groups, Variables
<1>4. /\ Layered(W, g, v, t) /\ Grouped(W, q.groups, g) /\ Tabled(W, q.tables, g, t)
      /\ Varied(W, q.variables, g, v) /\ Stated(W, q.states, q.depth)
    <2>1. /\ Layered(W, g, v, t) /\ Grouped(W, p.groups, g) /\ Tabled(W, p.tables, g, t)
          /\ Varied(W, p.variables, g, v)
          /\ Stated(W, Append(p.states, StateOf(kind)), p.depth)
        BY <1>3, Pushed
    <2> QED  BY <1>0, <2>1
<1>5. /\ W[t + 1].kind = U[t + 1].kind /\ W[t + 1].node = U[t + 1].node
      /\ W[t].node = U[t].node /\ W[t + 2].node = n
      /\ t < Len(U) /\ t < Len(W) /\ t # Len(U) /\ t # Len(W)
      /\ Len(W) > t + 1 /\ ~(Len(U) > t + 1)
    <2>1. t \in 1 .. Len(U) /\ t + 1 \in 1 .. Len(U) /\ t + 2 = Len(U) + 1
        BY <1>2
    <2> QED  BY <1>2, <2>1 DEF Grows
<1>6. /\ kind = "Value" => U[t + 1].kind = "Attribute"
      /\ kind = "EnumConst" => U[t + 1].kind = "Enumeration"
    BY Comes
<1>7. Working(W, q, t)
    BY <1>0, <1>1, <1>5, <1>6 DEF Working, Inners
<1>8. VariablesLeft(W, g, v) = VariablesLeft(U, g, v)
    BY VariablesLeftStay
<1>9. U[Len(U)] = U[t + 1] /\ U[Len(U) - 1] = U[t]
    BY <1>2
<1>10. ASSUME kind = "Value"
       PROVE  Left(W, q, g, v, t) = Left(U, p, g, v, t)
                 \cup LeftBy(kind, n, U[Len(U)].node, U[Len(U) - 1].node)
    <2>1. ElementLeft(W, q.enum.consts, q.xml, t) = LeftBy(kind, n, U[t + 1].node, U[t].node)
        BY <1>0, <1>5, <1>6, <1>10 DEF ElementLeft, LeftBy
    <2>2. ElementLeft(U, p.enum.consts, p.xml, t) = {}
        BY <1>0, <1>5, <1>6, <1>10 DEF ElementLeft
    <2> QED  BY <1>8, <1>9, <2>1, <2>2 DEF Left
<1>11. ASSUME kind = "EnumConst"
       PROVE  Left(W, q, g, v, t) = Left(U, p, g, v, t)
                 \cup LeftBy(kind, n, U[Len(U)].node, U[Len(U) - 1].node)
    <2>0. LeftBy(kind, n, U[Len(U)].node, U[Len(U) - 1].node) = {Node(n, U[Len(U)].node, "const")}
        BY <1>11 DEF LeftBy
    <2>1. ElementLeft(W, q.enum.consts, q.xml, t) =
            {Node(U[t + 1].node, U[t].node, "enum")}
               \cup {Node(c, U[t + 1].node, "const") : c \in p.enum.consts \cup {n}}
        BY <1>0, <1>5, <1>6, <1>11 DEF ElementLeft
    <2>2. ElementLeft(U, p.enum.consts, p.xml, t) =
            {Node(U[t + 1].node, U[t].node, "enum")}
               \cup {Node(c, U[t + 1].node, "const") : c \in p.enum.consts}
        BY <1>0, <1>5, <1>6, <1>11 DEF ElementLeft
    <2>3. {Node(c, U[t + 1].node, "const") : c \in p.enum.consts \cup {n}} =
             {Node(c, U[t + 1].node, "const") : c \in p.enum.consts}
                \cup {Node(n, U[t + 1].node, "const")}
        OBVIOUS
    <2> QED  BY <1>8, <1>9, <2>0, <2>1, <2>2, <2>3 DEF Left
<1> QED  BY <1>0, <1>2, <1>4, <1>7, <1>10, <1>11 DEF Follows, Inners

LEMMA XmlBegins ==
    ASSUME NEW U, NEW p, NEW g, NEW v, NEW t, Follows(U, p, g, v, t),
           NEW W, NEW n \in Nat, Grows(U, W, "Xml", n), NEW q,
           q = XmlNoted(p, n)
    PROVE  /\ Follows(W, q, g, v, t)
           /\ Left(W, q, g, v, t) = Left(U, p, g, v, t) \cup {Node(n, U[t + 1].node, "xml")}
<1>1. p \in Parsers /\ Working(U, p, t)
    BY DEF Follows
<1>2. /\ Nested(W) /\ Len(U) \in Nat /\ Len(W) = Len(U) + 1
      /\ g \in Nat /\ v \in Nat /\ t \in Nat /\ g + v <= Len(U) /\ t < Len(U) /\ g >= 1
      /\ t >= 1 /\ U[t + 1].kind = "OtherXML"
    BY Comes
<1>3. /\ q.states = p.states /\ q.variables = p.variables
      /\ q.groups = p.groups /\ q.tables = p.tables /\ q.depth = p.depth + 1
      /\ q.enum = p.enum /\ q.name = p.name /\ q.xml = p.xml \cup {n}
    BY <1>1 DEF XmlNoted, Parsers
<1>4. q \in Parsers
    <2>1. p.depth + 1 \in Nat /\ p.xml \cup {n} \in SUBSET Nat
        BY <1>1 DEF Parsers
    <2> QED  BY <1>1, <2>1 DEF XmlNoted, Parsers
<1>5. /\ Layered(W, g, v, t) /\ Grouped(W, q.groups, g) /\ Tabled(W, q.tables, g, t)
      /\ Varied(W, q.variables, g, v) /\ Stated(W, q.states, q.depth)
    <2>1. "Xml" \notin WithTable
        BY DEF WithTable, Groups, Variables
    <2>2. /\ Layered(W, g, v, t) /\ Grouped(W, p.groups, g) /\ Tabled(W, p.tables, g, t)
          /\ Varied(W, p.variables, g, v) /\ Stated(W, p.states, p.depth + 1)
        BY <2>1, Pushed
    <2> QED  BY <1>3, <2>2
<1>6. /\ W[t + 1].kind = "OtherXML" /\ W[t + 1].node = U[t + 1].node
      /\ W[t].node = U[t].node
      /\ t < Len(U) /\ t < Len(W) /\ t # Len(U) /\ t # Len(W)
    <2>1. t \in 1 .. Len(U) /\ t + 1 \in 1 .. Len(U)
        BY <1>2
    <2> QED  BY <1>2, <2>1 DEF Grows
<1>7. Working(W, q, t)
    BY <1>1, <1>2, <1>3, <1>6 DEF Working
<1>8. VariablesLeft(W, g, v) = VariablesLeft(U, g, v)
    BY VariablesLeftStay
<1>9. ElementLeft(W, q.enum.consts, q.xml, t) =
        {Node(U[t + 1].node, U[t].node, "otherxml")}
           \cup {Node(x, U[t + 1].node, "xml") : x \in p.xml \cup {n}}
    BY <1>3, <1>6 DEF ElementLeft
<1>10. ElementLeft(U, p.enum.consts, p.xml, t) =
        {Node(U[t + 1].node, U[t].node, "otherxml")}
           \cup {Node(x, U[t + 1].node, "xml") : x \in p.xml}
    BY <1>2, <1>6 DEF ElementLeft
<1>11. {Node(x, U[t + 1].node, "xml") : x \in p.xml \cup {n}} =
          {Node(x, U[t + 1].node, "xml") : x \in p.xml} \cup {Node(n, U[t + 1].node, "xml")}
    OBVIOUS
<1>12. Left(W, q, g, v, t) = Left(U, p, g, v, t) \cup {Node(n, U[t + 1].node, "xml")}
    BY <1>8, <1>9, <1>10, <1>11 DEF Left
<1> QED  BY <1>2, <1>4, <1>5, <1>7, <1>12 DEF Follows

-----------------------------------------------------------------------------
(* The parser when an element ends that is not the Dataset.                *)

LEMMA Popped ==
    ASSUME NEW U, NEW p, NEW g, NEW v, NEW t, Follows(U, p, g, v, t),
           NEW W, Shrinks(U, W), NEW kind, kind = U[Len(U)].kind
    PROVE  /\ kind \in Groups =>
                 /\ Layered(W, g - 1, 0, t - 1) /\ Grouped(W, Front(p.groups), g - 1)
                 /\ Varied(W, p.variables, g - 1, 0) /\ Tabled(W, p.tables, g - 1, t - 1)
           /\ kind \in Variables =>
                 /\ Layered(W, g, v - 1, t - 1) /\ Grouped(W, p.groups, g)
                 /\ Varied(W, Front(p.variables), g, v - 1)
                 /\ Tabled(W, Front(p.tables), g, t - 1) /\ Len(p.tables) > 1
           /\ kind = "Container" =>
                 /\ Layered(W, g, v, t - 1) /\ Grouped(W, p.groups, g)
                 /\ Varied(W, p.variables, g, v)
                 /\ Tabled(W, Front(p.tables), g, t - 1) /\ Len(p.tables) > 1
           /\ kind \notin WithTable =>
                 /\ Layered(W, g, v, t) /\ Grouped(W, p.groups, g)
                 /\ Varied(W, p.variables, g, v) /\ Tabled(W, p.tables, g, t)
           /\ kind = "Xml" => p.depth > 0 /\ Stated(W, p.states, p.depth - 1)
           /\ kind # "Xml" => p.depth = 0 /\ Stated(W, Front(p.states), p.depth)
<1>1. /\ Nested(U) /\ Layered(U, g, v, t)
      /\ Grouped(U, p.groups, g) /\ Varied(U, p.variables, g, v)
      /\ Tabled(U, p.tables, g, t) /\ Stated(U, p.states, p.depth)
    BY DEF Follows
<1>2. /\ g \in Nat /\ v \in Nat /\ t \in Nat /\ Len(U) \in Nat
      /\ 1 <= g /\ g + v <= t /\ t <= Len(U)
    BY <1>1 DEF Layered, Nested
<1>3. g \in 1 .. Len(U) /\ g <= t /\ g + v <= Len(U)
    BY <1>2
<1>4. /\ kind \in Groups => g = Len(U) /\ v = 0 /\ t = Len(U)
      /\ kind \in Variables => g + v = Len(U) /\ v > 0 /\ t = Len(U) /\ g < Len(U)
      /\ kind = "Container" => g + v < t /\ t = Len(U) /\ g < Len(U)
      /\ kind \notin WithTable => t < Len(U)
    BY <1>1, <1>2, LastPlace
<1>5. /\ t < Len(U) => Layered(W, g, v, t)
      /\ g = Len(U) => Layered(W, g - 1, 0, t - 1)
      /\ g + v = Len(U) /\ v > 0 => Layered(W, g, v - 1, t - 1)
      /\ g + v < t /\ t = Len(U) => Layered(W, g, v, t - 1)
    BY <1>1, LayeredShrinks
<1>6. /\ g < Len(U) => Grouped(W, p.groups, g)
      /\ g = Len(U) => Grouped(W, Front(p.groups), g - 1)
    BY <1>1, <1>3, GroupedShrinks
<1>7. /\ g + v < Len(U) => Varied(W, p.variables, g, v)
      /\ v > 0 => Varied(W, Front(p.variables), g, v - 1)
    BY <1>1, <1>2, <1>3, VariedShrinks
<1>8. v = 0 => Varied(W, p.variables, g - 1, 0)
    BY <1>1 DEF Varied
<1>9. /\ t < Len(U) => Tabled(W, p.tables, g, t)
      /\ t = Len(U) /\ g < t => Len(p.tables) > 1 /\ Tabled(W, Front(p.tables), g, t - 1)
      /\ g = Len(U) => Tabled(W, p.tables, g - 1, t - 1)
    BY <1>1, TabledShrinks
<1>10. /\ kind = "Xml" => p.depth > 0 /\ Stated(W, p.states, p.depth - 1)
       /\ kind # "Xml" => p.depth = 0 /\ Stated(W, Front(p.states), p.depth)
    <2>1. /\ kind = "Xml" => p.depth > 0
          /\ kind # "Xml" => p.depth = 0
        BY <1>1, Uppermost
    <2> QED  BY <1>1, <2>1, StatedShrinks
<1>11. kind \in Groups =>
          /\ Layered(W, g - 1, 0, t - 1) /\ Grouped(W, Front(p.groups), g - 1)
          /\ Varied(W, p.variables, g - 1, 0) /\ Tabled(W, p.tables, g - 1, t - 1)
    BY <1>4, <1>5, <1>6, <1>8, <1>9
<1>12. kind \in Variables =>
          /\ Layered(W, g, v - 1, t - 1) /\ Grouped(W, p.groups, g)
          /\ Varied(W, Front(p.variables), g, v - 1)
          /\ Tabled(W, Front(p.tables), g, t - 1) /\ Len(p.tables) > 1
    BY <1>4, <1>5, <1>6, <1>7, <1>9
<1>13. kind = "Container" =>
          /\ Layered(W, g, v, t - 1) /\ Grouped(W, p.groups, g)
          /\ Varied(W, p.variables, g, v)
          /\ Tabled(W, Front(p.tables), g, t - 1) /\ Len(p.tables) > 1
    BY <1>4, <1>5, <1>6, <1>7, <1>9
<1>14. kind \notin WithTable =>
          /\ Layered(W, g, v, t) /\ Grouped(W, p.groups, g)
          /\ Varied(W, p.variables, g, v) /\ Tabled(W, p.tables, g, t)
    <2>1. t < Len(U) => g < Len(U) /\ g + v < Len(U)
        BY <1>2
    <2> QED  BY <1>4, <1>5, <1>6, <1>7, <1>9, <2>1
<1> QED  BY <1>10, <1>11, <1>12, <1>13, <1>14

LEMMA PoppedTypes ==
    ASSUME NEW p \in Parsers
    PROVE  /\ Len(p.states) >= 1 => Front(p.states) \in Seq(States)
           /\ Len(p.groups) >= 1 => Front(p.groups) \in Seq(Nat)
           /\ Len(p.tables) >= 1 => Front(p.tables) \in Seq(Nat)
           /\ Len(p.variables) >= 1 => Front(p.variables) \in Seq(Variable)
<1>1. /\ p.states \in Seq(States) /\ p.groups \in Seq(Nat) /\ p.tables \in Seq(Nat)
      /\ p.variables \in Seq(Variable)
    BY DEF Parsers
<1> QED  BY <1>1, FrontIs

LEMMA Ended ==
    ASSUME NEW U, NEW p, NEW g, NEW v, NEW t, Follows(U, p, g, v, t),
           NEW W, Shrinks(U, W)
    PROVE  /\ Nested(W) /\ Len(U) \in Nat /\ Len(W) = Len(U) - 1 /\ Len(U) >= 2
           /\ g \in Nat /\ v \in Nat /\ t \in Nat /\ 1 <= g /\ g + v <= t /\ t <= Len(U)
           /\ p \in Parsers /\ Front(p.states) \in Seq(States)
           /\ Front(p.groups) \in Seq(Nat)
           /\ g + v < Len(U) => VariablesLeft(U, g, v) = VariablesLeft(W, g, v)
<1>1. /\ Nested(U) /\ Layered(U, g, v, t) /\ p \in Parsers /\ Grouped(U, p.groups, g)
      /\ Stated(U, p.states, p.depth)
    BY DEF Follows
<1>2. Len(U) \in Nat /\ Len(W) = Len(U) - 1 /\ Len(U) >= 2 /\ \A k \in 1 .. Len(W) : W[k] = U[k]
    BY <1>1 DEF Nested, Shrinks
<1>3. Nested(W)
    <2>1. \A k \in 2 .. Len(W) : k \in 2 .. Len(U) /\ W[k] = U[k] /\ W[k - 1] = U[k - 1]
        BY <1>2
    <2>2. W[1] = U[1] /\ W \in Seq(Element) /\ Len(W) >= 1
        BY <1>2 DEF Shrinks
    <2> QED  BY <1>1, <2>1, <2>2 DEF Nested
<1>4. g \in Nat /\ v \in Nat /\ t \in Nat /\ 1 <= g /\ g + v <= t /\ t <= Len(U)
    BY <1>1 DEF Layered
<1>5. Front(p.states) \in Seq(States) /\ Front(p.groups) \in Seq(Nat)
    <2>1. Len(p.states) >= 1
        BY <1>1, <1>2 DEF Stated
    <2>2. Len(p.groups) >= 1
        BY <1>1, <1>4 DEF Grouped
    <2> QED  BY <1>1, <2>1, <2>2, PoppedTypes
<1>6. ASSUME g + v < Len(U)
      PROVE  VariablesLeft(U, g, v) = VariablesLeft(W, g, v)
    <2>1. g + v <= Len(W) /\ Len(W) \in Nat
        BY <1>2, <1>4, <1>6
    <2>2. \A k \in 1 .. Len(W) : U[k].node = W[k].node
        BY <1>2
    <2> QED  BY <1>4, <2>1, <2>2, SameVariablesLeft
<1> QED  BY <1>1, <1>2, <1>3, <1>4, <1>5, <1>6

LEMMA GroupEnds ==
    ASSUME NEW U, NEW p, NEW g, NEW v, NEW t, Follows(U, p, g, v, t),
           NEW W, Shrinks(U, W), U[Len(U)].kind = "Group", NEW q,
           q = Pop([p EXCEPT !.groups = Front(@)])
    PROVE  /\ Follows(W, q, g - 1, 0, t - 1)
           /\ Left(W, q, g - 1, 0, t - 1) = Left(U, p, g, v, t)
           /\ p.variables = <<>> /\ p.groups # <<>>
<1>1. /\ Nested(U) /\ Layered(U, g, v, t) /\ Working(U, p, t)
      /\ Grouped(U, p.groups, g) /\ Varied(U, p.variables, g, v)
    BY DEF Follows
<1>2. /\ Nested(W) /\ Len(U) \in Nat /\ Len(W) = Len(U) - 1
      /\ g \in Nat /\ 1 <= g /\ p \in Parsers
      /\ Front(p.states) \in Seq(States) /\ Front(p.groups) \in Seq(Nat) /\ t \in Nat
    BY Ended
<1>3. g = Len(U) /\ v = 0 /\ t = Len(U)
    BY <1>1, LastPlace DEF Groups
<1>4. /\ q.states = Front(p.states) /\ q.variables = p.variables
      /\ q.groups = Front(p.groups) /\ q.tables = p.tables
      /\ q.enum = p.enum /\ q.xml = p.xml /\ q.depth = p.depth
    BY <1>2 DEF Pop, Parsers
<1>5. q \in Parsers
    BY <1>2 DEF Pop, Parsers
<1>6. /\ Layered(W, g - 1, 0, t - 1) /\ Grouped(W, q.groups, g - 1)
      /\ Varied(W, q.variables, g - 1, 0) /\ Tabled(W, q.tables, g - 1, t - 1)
      /\ Stated(W, q.states, q.depth)
    BY <1>4, Popped DEF Groups
<1>7. t - 1 = Len(W) /\ ~(t - 1 < Len(W)) /\ g - 1 \in Nat
    BY <1>2, <1>3
<1>8. Working(W, q, t - 1)
    BY <1>1, <1>3, <1>4, <1>7 DEF Working
<1>9. Left(W, q, g - 1, 0, t - 1) = {} /\ Left(U, p, g, v, t) = {}
    BY <1>2, <1>3, <1>7, NoVariablesLeft DEF Left, ElementLeft
<1>10. p.variables = <<>> /\ p.groups # <<>>
    BY <1>1, <1>2, <1>3 DEF Grouped, Varied
<1> QED  BY <1>2, <1>5, <1>6, <1>8, <1>9, <1>10 DEF Follows

LEMMA ContainerEnds ==
    ASSUME NEW U, NEW p, NEW g, NEW v, NEW t, Follows(U, p, g, v, t),
           NEW W, Shrinks(U, W), U[Len(U)].kind = "Container", NEW q,
           q = Pop([p EXCEPT !.tables = Front(@)])
    PROVE  /\ Follows(W, q, g, v, t - 1)
           /\ Left(W, q, g, v, t - 1) = Left(U, p, g, v, t)
           /\ p.tables # <<>>
<1>1. Nested(U) /\ Layered(U, g, v, t) /\ Working(U, p, t)
    BY DEF Follows
<1>2. /\ Nested(W) /\ Len(U) \in Nat /\ Len(W) = Len(U) - 1
      /\ g \in Nat /\ v \in Nat /\ t \in Nat /\ p \in Parsers
      /\ Front(p.states) \in Seq(States)
      /\ g + v < Len(U) => VariablesLeft(U, g, v) = VariablesLeft(W, g, v)
    BY Ended
<1>3. g + v < t /\ t = Len(U)
    BY <1>1, LastPlace
<1>4. /\ q.states = Front(p.states) /\ q.variables = p.variables
      /\ q.groups = p.groups /\ q.tables = Front(p.tables)
      /\ q.enum = p.enum /\ q.xml = p.xml /\ q.depth = p.depth
    BY <1>2 DEF Pop, Parsers
<1>5. /\ Layered(W, g, v, t - 1) /\ Grouped(W, q.groups, g)
      /\ Varied(W, q.variables, g, v) /\ Tabled(W, q.tables, g, t - 1)
      /\ Stated(W, q.states, q.depth) /\ Len(p.tables) > 1
    BY <1>4, Popped
<1>6. q \in Parsers
    <2>1. Front(p.tables) \in Seq(Nat)
        BY <1>4, <1>5 DEF Tabled
    <2> QED  BY <1>2, <2>1 DEF Pop, Parsers
<1>7. t - 1 = Len(W) /\ ~(t - 1 < Len(W))
    BY <1>2, <1>3
<1>8. Working(W, q, t - 1)
    BY <1>1, <1>3, <1>4, <1>7 DEF Working
<1>9. Left(W, q, g, v, t - 1) = Left(U, p, g, v, t)
    BY <1>2, <1>3, <1>7 DEF Left, ElementLeft
<1>10. p.tables # <<>>
    BY <1>5
<1> QED  BY <1>2, <1>5, <1>6, <1>8, <1>9, <1>10 DEF Follows

\* The variable or the group that a variable is in.
LEMMA ParentOfVariable ==
    ASSUME NEW U, NEW p, NEW g, NEW v, NEW t, Follows(U, p, g, v, t), Len(U) >= 2,
           U[Len(U)].kind \in Variables
    PROVE  /\ p.variables # <<>> /\ p.groups # <<>> /\ Last(p.variables).node = U[Len(U)].node
           /\ v = 1 => Front(p.variables) = <<>> /\ Last(p.groups) = U[Len(U) - 1].node
           /\ v # 1 => /\ Front(p.variables) # <<>>
                       /\ Last(Front(p.variables)).node = U[Len(U) - 1].node
                       /\ Last(Front(p.variables)).proto = U[Len(U) - 1].node
                       /\ ~Last(Front(p.variables)).array
<1> DEFINE m == Len(U)
<1>1. /\ Nested(U) /\ Layered(U, g, v, t) /\ Grouped(U, p.groups, g)
      /\ Varied(U, p.variables, g, v)
    BY DEF Follows
<1>2. m \in Nat /\ g \in Nat /\ v \in Nat /\ 1 <= g /\ g + v = m /\ v > 0
    BY <1>1, LastPlace DEF Layered, Nested
<1>3. /\ p.variables \in Seq(Variable) /\ Len(p.variables) = v
      /\ p.groups \in Seq(Nat) /\ Len(p.groups) = g
    BY <1>1 DEF Varied, Grouped
<1>4. p.variables # <<>> /\ p.groups # <<>> /\ Last(p.variables).node = U[m].node
    <2>1. v \in 1 .. v /\ g + v = m
        BY <1>2
    <2>2. p.variables[v].node = U[m].node
        BY <1>1, <2>1 DEF Varied
    <2> QED  BY <1>2, <1>3, <2>2 DEF Last
<1>5. /\ Front(p.variables) \in Seq(Variable) /\ Len(Front(p.variables)) = v - 1
      /\ \A k \in 1 .. v - 1 : Front(p.variables)[k] = p.variables[k]
    BY <1>2, <1>3, FrontIs
<1>6. ASSUME v = 1
      PROVE  Front(p.variables) = <<>> /\ Last(p.groups) = U[m - 1].node
    <2>1. m - 1 = g /\ g \in 1 .. g
        BY <1>2, <1>6
    <2>2. Last(p.groups) = U[g].node
        BY <1>1, <1>3, <2>1 DEF Grouped, Last
    <2> QED  BY <1>5, <1>6, <2>1, <2>2
<1>7. ASSUME v # 1
      PROVE  /\ Front(p.variables) # <<>>
             /\ Last(Front(p.variables)).node = U[m - 1].node
             /\ Last(Front(p.variables)).proto = U[m - 1].node
             /\ ~Last(Front(p.variables)).array
    <2>1. /\ v - 1 \in 1 .. v - 1 /\ v - 1 \in 1 .. v /\ g + (v - 1) = m - 1
          /\ m \in 2 .. m /\ v - 1 > 0 /\ m - 1 \in 1 .. Len(U) /\ ~(m - 1 <= g)
        BY <1>2, <1>7
    <2>2. Last(Front(p.variables)) = p.variables[v - 1]
        BY <1>5, <2>1 DEF Last
    <2>3. Front(p.variables) # <<>>
        BY <1>5, <2>1
    <2>4. U[m - 1].kind \notin Groups
        BY <1>1, <2>1 DEF Layered
    <2>5. Child(U[m - 1].kind, U[m].kind, U[m - 1].rank)
        BY <1>1, <2>1 DEF Nested
    <2>6. U[m - 1].kind = "Structure" /\ U[m - 1].rank = 1
        BY <2>4, <2>5, Parents
    <2>7. /\ p.variables[v - 1].node = U[m - 1].node /\ p.variables[v - 1].proto = U[m - 1].node
          /\ p.variables[v - 1].array => U[m - 1].kind = "Simple" \/ U[m - 1].rank >= 2
        BY <1>1, <2>1 DEF Varied
    <2> QED  BY <2>2, <2>3, <2>6, <2>7
<1> QED  BY <1>4, <1>6, <1>7

VariableClosed(p) == Pop([p EXCEPT !.variables = Front(@), !.tables = Front(@)])

LEMMA VariableEnds ==
    ASSUME NEW U, NEW p, NEW g, NEW v, NEW t, Follows(U, p, g, v, t),
           NEW W, Shrinks(U, W), U[Len(U)].kind \in Variables, NEW q,
           q = VariableClosed(p)
    PROVE  /\ Follows(W, q, g, v - 1, t - 1)
           /\ Left(U, p, g, v, t) = Left(W, q, g, v - 1, t - 1)
                 \cup {Node(U[Len(U)].node, U[Len(U) - 1].node, "variable")}
           /\ p.tables # <<>>
<1>1. Nested(U) /\ Layered(U, g, v, t) /\ Working(U, p, t) /\ Varied(U, p.variables, g, v)
    BY DEF Follows
<1>2. /\ Nested(W) /\ Len(U) \in Nat /\ Len(W) = Len(U) - 1
      /\ g \in Nat /\ v \in Nat /\ t \in Nat /\ p \in Parsers /\ 1 <= g
      /\ Front(p.states) \in Seq(States)
    BY Ended
<1>3. g + v = Len(U) /\ v > 0 /\ t = Len(U)
    BY <1>1, LastPlace
<1>4. /\ q.states = Front(p.states) /\ q.variables = Front(p.variables)
      /\ q.groups = p.groups /\ q.tables = Front(p.tables)
      /\ q.enum = p.enum /\ q.xml = p.xml /\ q.depth = p.depth
    BY <1>2 DEF VariableClosed, Pop, Parsers
<1>5. U[Len(U)].kind # "Xml"
    BY DEF Variables
<1>6. /\ Layered(W, g, v - 1, t - 1) /\ Grouped(W, q.groups, g)
      /\ Varied(W, q.variables, g, v - 1) /\ Tabled(W, q.tables, g, t - 1)
      /\ Stated(W, q.states, q.depth) /\ Len(p.tables) > 1
    BY <1>4, <1>5, Popped
<1>7. q \in Parsers
    <2>1. Front(p.tables) \in Seq(Nat) /\ Front(p.variables) \in Seq(Variable)
        BY <1>4, <1>6 DEF Tabled, Varied
    <2> QED  BY <1>2, <2>1 DEF VariableClosed, Pop, Parsers
<1>8. t - 1 = Len(W) /\ ~(t - 1 < Len(W))
    BY <1>2, <1>3
<1>9. Working(W, q, t - 1)
    BY <1>1, <1>3, <1>4, <1>8 DEF Working
<1>10. VariablesLeft(U, g, v) = VariablesLeft(W, g, v - 1)
          \cup {Node(U[Len(U)].node, U[Len(U) - 1].node, "variable")}
    <2> DEFINE w == v - 1
    <2>1. w \in Nat /\ v = w + 1 /\ g + w + 1 = Len(U) /\ g + w = Len(U) - 1
          /\ g + w <= Len(W) /\ Len(W) \in Nat
        BY <1>2, <1>3
    <2> HIDE DEF w
    <2>2. \A k \in 1 .. Len(W) : U[k].node = W[k].node
        BY DEF Shrinks
    <2>3. g \in Nat /\ 1 <= g
        BY <1>2
    <2>4. VariablesLeft(U, g, w) = VariablesLeft(W, g, w)
        BY <2>1, <2>2, <2>3, SameVariablesLeft
    <2>5. VariablesLeft(U, g, w + 1) =
             VariablesLeft(U, g, w) \cup {Node(U[g + w + 1].node, U[g + w].node, "variable")}
        <3>1. g \in Nat /\ w \in Nat
            BY <2>1, <2>3
        <3> QED  BY <3>1, MoreVariablesLeft
    <2> QED  BY <2>1, <2>4, <2>5 DEF w
<1>11. ElementLeft(W, q.enum.consts, q.xml, t - 1) = {} /\ ElementLeft(U, p.enum.consts, p.xml, t) = {}
    BY <1>3, <1>8 DEF ElementLeft
<1>12. p.tables # <<>>
    BY <1>6
<1> QED  BY <1>2, <1>6, <1>7, <1>9, <1>10, <1>11, <1>12 DEF Follows, Left

\* The table on top is that of the element an attribute is in.
LEMMA TableOfAttribute ==
    ASSUME NEW U, NEW p, NEW g, NEW v, NEW t, Follows(U, p, g, v, t), t < Len(U)
    PROVE  /\ p.tables # <<>> /\ Last(p.tables) = U[t].node
           /\ U[t + 1].kind \in {"Enumeration", "Dimension"} =>
                 p.groups # <<>> /\ Last(p.groups) = U[t].node
<1>1. /\ Nested(U) /\ Layered(U, g, v, t) /\ Grouped(U, p.groups, g)
      /\ Tabled(U, p.tables, g, t)
    BY DEF Follows
<1>2. /\ g \in Nat /\ v \in Nat /\ t \in Nat /\ Len(U) \in Nat /\ 1 <= g /\ g <= t /\ g < Len(U)
    BY <1>1 DEF Layered, Nested
<1>3. U[g].rank <= 4
    <2>1. U[g].rank \in 1 .. 4
        BY <1>1, <1>2, RankOfGroup
    <2> QED  BY <2>1
<1>4. p.tables # <<>> /\ Last(p.tables) = U[t].node
    BY <1>1, <1>2, <1>3, TopTable
<1>5. ASSUME U[t + 1].kind \in {"Enumeration", "Dimension"}
      PROVE  p.groups # <<>> /\ Last(p.groups) = U[t].node
    <2>1. t + 1 \in 2 .. Len(U) /\ (t + 1) - 1 = t /\ t \in 1 .. Len(U)
        BY <1>2
    <2>2. Child(U[t].kind, U[t + 1].kind, U[t].rank)
        BY <1>1, <2>1 DEF Nested
    <2>3. U[t].kind \in Groups
        BY <1>5, <2>2, Parents
    <2>4. t <= g
        BY <1>1, <2>1, <2>3 DEF Layered
    <2>5. g = t /\ g \in 1 .. g
        BY <1>2, <2>4
    <2> QED  BY <1>1, <1>2, <2>5 DEF Grouped, Last
<1> QED  BY <1>4, <1>5

LEMMA LeafEnds ==
    ASSUME NEW U, NEW p, NEW g, NEW v, NEW t, Follows(U, p, g, v, t),
           NEW W, Shrinks(U, W), U[Len(U)].kind \in Leafs, NEW q \in Parsers,
           q.states = Front(p.states), q.depth = p.depth, q.variables = p.variables,
           q.groups = p.groups, q.tables = p.tables, q.enum.consts = {}, q.xml = {}
    PROVE  /\ Follows(W, q, g, v, t)
           /\ Left(U, p, g, v, t) =
                 Left(W, q, g, v, t) \cup ElementLeft(U, p.enum.consts, p.xml, t)
           /\ t + 1 = Len(U)
<1>1. Nested(U) /\ Layered(U, g, v, t)
    BY DEF Follows
<1>2. /\ Nested(W) /\ Len(U) \in Nat /\ Len(W) = Len(U) - 1
      /\ g \in Nat /\ v \in Nat /\ t \in Nat /\ g + v <= t
      /\ g + v < Len(U) => VariablesLeft(U, g, v) = VariablesLeft(W, g, v)
    BY Ended
<1>3. t + 1 = Len(U)
    BY <1>1, LastPlace
<1>4. U[Len(U)].kind \notin WithTable /\ U[Len(U)].kind # "Xml"
    BY DEF Leafs, WithTable, Groups, Variables
<1>5. /\ Layered(W, g, v, t) /\ Grouped(W, q.groups, g) /\ Tabled(W, q.tables, g, t)
      /\ Varied(W, q.variables, g, v) /\ Stated(W, q.states, q.depth)
    BY <1>4, Popped
<1>6. t = Len(W) /\ ~(t < Len(W)) /\ g + v < Len(U)
    BY <1>2, <1>3
<1>7. Working(W, q, t)
    BY <1>6 DEF Working
<1>8. ElementLeft(W, q.enum.consts, q.xml, t) = {}
    BY <1>6 DEF ElementLeft
<1> QED  BY <1>2, <1>3, <1>5, <1>6, <1>7, <1>8 DEF Follows, Left

LEMMA InnerEnds ==
    ASSUME NEW U, NEW p, NEW g, NEW v, NEW t, Follows(U, p, g, v, t),
           NEW W, Shrinks(U, W), U[Len(U)].kind \in {"Value", "EnumConst"}, NEW q,
           q = Pop(p)
    PROVE  /\ Follows(W, q, g, v, t)
           /\ U[Len(U)].kind = "Value" =>
                 /\ Left(U, p, g, v, t) = Left(W, q, g, v, t)
                      \cup {Node(p.name, Last(p.tables), "attribute"),
                            Node(U[Len(U)].node, p.name, "value")}
                 /\ p.tables # <<>>
           /\ U[Len(U)].kind = "EnumConst" => Left(U, p, g, v, t) = Left(W, q, g, v, t)
<1>1. Nested(U) /\ Layered(U, g, v, t) /\ Working(U, p, t)
    BY DEF Follows
<1>2. /\ Nested(W) /\ Len(U) \in Nat /\ Len(W) = Len(U) - 1
      /\ g \in Nat /\ v \in Nat /\ t \in Nat /\ g + v <= t /\ p \in Parsers /\ t >= 1
      /\ g + v < Len(U) => VariablesLeft(U, g, v) = VariablesLeft(W, g, v)
      /\ Front(p.states) \in Seq(States)
    BY Ended
<1>3. t + 2 = Len(U)
    BY <1>1, LastPlace
<1>4. U[Len(U)].kind \notin WithTable /\ U[Len(U)].kind # "Xml"
    BY DEF WithTable, Groups, Variables
<1>5. /\ q.states = Front(p.states) /\ q.variables = p.variables
      /\ q.groups = p.groups /\ q.tables = p.tables /\ q.name = p.name /\ q.dim = p.dim
      /\ q.enum = p.enum /\ q.xml = p.xml /\ q.depth = p.depth /\ q \in Parsers
    BY <1>2 DEF Pop, Parsers
<1>6. /\ Layered(W, g, v, t) /\ Grouped(W, q.groups, g) /\ Tabled(W, q.tables, g, t)
      /\ Varied(W, q.variables, g, v) /\ Stated(W, q.states, q.depth)
    BY <1>4, <1>5, Popped
<1>7. /\ t + 1 = Len(W) /\ g + v < Len(U) /\ t < Len(U) /\ t # Len(U) /\ t # Len(W)
      /\ Len(U) > t + 1 /\ ~(Len(W) > t + 1) /\ t < Len(W)
    BY <1>2, <1>3
<1>8. W[t + 1] = U[t + 1] /\ W[t] = U[t] /\ U[t + 2] = U[Len(U)]
    <2>1. t \in 1 .. Len(W) /\ t + 1 \in 1 .. Len(W)
        BY <1>2, <1>7
    <2> QED  BY <1>3, <2>1 DEF Shrinks
<1>9. /\ U[Len(U)].kind = "Value" => U[t + 1].kind = "Attribute"
      /\ U[Len(U)].kind = "EnumConst" => U[t + 1].kind = "Enumeration"
    <2>1. Len(U) \in 1 .. Len(U) /\ Len(U) - 1 = t + 1
        BY <1>2, <1>3
    <2> QED  BY <1>1, <2>1, Places
<1>10. Working(W, q, t)
    BY <1>1, <1>5, <1>7, <1>8, <1>9 DEF Working
<1>11. ASSUME U[Len(U)].kind = "Value"
       PROVE  /\ Left(U, p, g, v, t) = Left(W, q, g, v, t)
                   \cup {Node(p.name, Last(p.tables), "attribute"),
                         Node(U[Len(U)].node, p.name, "value")}
              /\ p.tables # <<>>
    <2>1. ElementLeft(W, q.enum.consts, q.xml, t) = {}
        BY <1>7, <1>8, <1>9, <1>11 DEF ElementLeft
    <2>2. ElementLeft(U, p.enum.consts, p.xml, t) =
            {Node(U[Len(U)].node, U[t + 1].node, "value"),
             Node(U[t + 1].node, U[t].node, "attribute")}
        BY <1>7, <1>8, <1>9, <1>11 DEF ElementLeft
    <2>3. p.name = U[t + 1].node
        BY <1>1, <1>7, <1>9, <1>11 DEF Working
    <2>4. p.tables # <<>> /\ Last(p.tables) = U[t].node
        BY <1>7, TableOfAttribute
    <2> QED  BY <1>2, <1>7, <2>1, <2>2, <2>3, <2>4 DEF Left
<1>12. ASSUME U[Len(U)].kind = "EnumConst"
       PROVE  Left(U, p, g, v, t) = Left(W, q, g, v, t)
    <2>1. ElementLeft(W, q.enum.consts, q.xml, t) = ElementLeft(U, p.enum.consts, p.xml, t)
        BY <1>5, <1>7, <1>8, <1>9, <1>12 DEF ElementLeft
    <2> QED  BY <1>2, <1>7, <2>1 DEF Left
<1> QED  BY <1>2, <1>5, <1>6, <1>10, <1>11, <1>12 DEF Follows

LEMMA XmlEnds ==
    ASSUME NEW U, NEW p, NEW g, NEW v, NEW t, Follows(U, p, g, v, t),
           NEW W, Shrinks(U, W), U[Len(U)].kind = "Xml", NEW q,
           q = [p EXCEPT !.depth = @ - 1]
    PROVE  Follows(W, q, g, v, t) /\ Left(W, q, g, v, t) = Left(U, p, g, v, t) /\ p.depth > 0
<1>1. Nested(U) /\ Layered(U, g, v, t) /\ Working(U, p, t) /\ Stated(U, p.states, p.depth)
    BY DEF Follows
<1>2. /\ Nested(W) /\ Len(U) \in Nat /\ Len(W) = Len(U) - 1
      /\ g \in Nat /\ v \in Nat /\ t \in Nat /\ g + v <= t /\ p \in Parsers /\ t >= 1
      /\ g + v < Len(U) => VariablesLeft(U, g, v) = VariablesLeft(W, g, v)
    BY Ended
<1>3. t < Len(U) /\ U[t + 1].kind = "OtherXML"
    BY <1>1, Uppermost
<1>4. U[Len(U)].kind \notin WithTable
    BY DEF WithTable, Groups, Variables
<1>5. /\ q.states = p.states /\ q.variables = p.variables
      /\ q.groups = p.groups /\ q.tables = p.tables /\ q.name = p.name /\ q.dim = p.dim
      /\ q.enum = p.enum /\ q.xml = p.xml /\ q.depth = p.depth - 1
    BY <1>2 DEF Parsers
<1>6. /\ Layered(W, g, v, t) /\ Grouped(W, q.groups, g) /\ Tabled(W, q.tables, g, t)
      /\ Varied(W, q.variables, g, v) /\ Stated(W, q.states, q.depth) /\ p.depth > 0
    BY <1>4, <1>5, Popped
<1>7. q \in Parsers
    <2>1. p.depth - 1 \in Nat
        BY <1>2, <1>6 DEF Parsers
    <2> QED  BY <1>2, <2>1 DEF Parsers
<1>8. t < Len(W) /\ t # Len(W) /\ t # Len(U) /\ g + v < Len(U)
    <2>1. t + 1 # Len(U)
        BY <1>3
    <2> QED  BY <1>2, <1>3, <2>1
<1>9. W[t + 1] = U[t + 1] /\ W[t] = U[t]
    <2>1. t \in 1 .. Len(W) /\ t + 1 \in 1 .. Len(W)
        BY <1>2, <1>8
    <2> QED  BY <2>1 DEF Shrinks
<1>10. Working(W, q, t)
    BY <1>1, <1>3, <1>5, <1>8, <1>9 DEF Working
<1>11. Left(W, q, g, v, t) = Left(U, p, g, v, t)
    BY <1>2, <1>3, <1>5, <1>8, <1>9 DEF Left, ElementLeft
<1> QED  BY <1>2, <1>6, <1>7, <1>10, <1>11 DEF Follows

-----------------------------------------------------------------------------
(* What a start tag of a printed document does, by kind, and all of them.  *)

LEMMA OneRank ==
    ASSUME NEW parent, NEW kind, NEW r, NEW s, Child(parent, kind, r), Child(parent, kind, s)
    PROVE  r = s /\ r \in Nat
<1>1. CASE parent \in Groups
    BY <1>1 DEF Child, Groups, Variables, Attributes
<1>2. CASE parent = "Simple"
    BY <1>2 DEF Child, Groups, Attributes
<1>3. CASE parent = "Structure"
    BY <1>3 DEF Child, Groups, Variables, Attributes
<1>4. CASE parent \notin Groups \cup {"Simple", "Structure"}
    BY <1>4 DEF Child, Groups
<1> QED  BY <1>1, <1>2, <1>3, <1>4

LEMMA NotOne ==
    ASSUME NEW m \in Nat, m >= 1, m # 1
    PROVE  m \in 2 .. m
OBVIOUS

\* No element of another namespace is among those that have begun.
LEMMA LastInside ==
    ASSUME NEW U, Nested(U)
    PROVE  U[Len(U)].kind \in Kinds /\ U[Len(U)].kind # "Foreign"
<1>1. Len(U) \in Nat /\ Len(U) >= 1 /\ U[1].kind = "Dataset"
    BY DEF Nested
<1>2. CASE Len(U) = 1
    BY <1>1, <1>2 DEF Kinds
<1>3. CASE Len(U) # 1
    <2>1. Len(U) \in 2 .. Len(U)
        BY <1>1, <1>3, NotOne
    <2>2. Child(U[Len(U) - 1].kind, U[Len(U)].kind, U[Len(U) - 1].rank)
        BY <2>1 DEF Nested
    <2> QED  BY <2>2, Parents
<1> QED  BY <1>2, <1>3

LEMMA ElementGrows ==
    ASSUME source = "printed", Nested(unclosed), count \in Nat, NEW kind \in Kinds, NEW grade,
           kind # "Foreign", StartElement(kind, grade)
    PROVE  /\ Grows(unclosed, unclosed', kind, count') /\ count' = count + 1
           /\ grade = "good" \/ (kind = "Map" /\ grade = "bad")
<1> DEFINE U == unclosed
           m == Len(U)
           e == U[m]
           r == CHOOSE r \in Rank(e.kind, kind) : TRUE
           x == [kind |-> kind, node |-> count', rank |-> 1]
           F == [k \in DOMAIN U |-> IF k < m THEN U[k] ELSE [U[k] EXCEPT !.rank = r]]
<1>1. U \in Seq(Element) /\ m \in Nat /\ m >= 1 /\ DOMAIN U = 1 .. m /\ m \in 1 .. m /\ U # <<>>
    BY DEF Nested
<1>2. /\ grade = "good" \/ (kind = "Map" /\ grade = "bad")
      /\ count' = count + 1
      /\ \E s \in Rank(Last(U).kind, kind) : s >= Last(U).rank
    BY <1>1 DEF StartElement, Writes
<1>3. PICK s \in Rank(e.kind, kind) : s >= e.rank
    BY <1>1, <1>2 DEF Last
<1>4. r \in Rank(e.kind, kind)
    BY <1>3
<1>5. Child(e.kind, kind, r) /\ Child(e.kind, kind, s)
    <2>1. e.kind # "Foreign"
        BY <1>1, LastInside
    <2> QED  BY <1>3, <1>4, <2>1, RankIsChild
<1>6. r = s /\ r \in Nat /\ r >= e.rank
    <2>1. r = s /\ r \in Nat
        BY <1>5, OneRank
    <2> QED  BY <1>3, <2>1
<1>7. unclosed' = Append(F, x)
    <2>1. unclosed' = Append([k \in DOMAIN U |->
                 IF k < m \/ source = "any" THEN U[k]
                 ELSE [U[k] EXCEPT !.rank = CHOOSE q \in Rank(U[k].kind, kind) : TRUE]], x)
        BY DEF StartElement
    <2>2. \A k \in DOMAIN U : (IF k < m \/ source = "any" THEN U[k]
                 ELSE [U[k] EXCEPT !.rank = CHOOSE q \in Rank(U[k].kind, kind) : TRUE])
              = (IF k < m THEN U[k] ELSE [U[k] EXCEPT !.rank = r])
        <3>1. source # "any" /\ \A k \in DOMAIN U : k < m \/ k = m
            BY <1>1
        <3> QED  BY <3>1
    <2>3. [k \in DOMAIN U |->
                 IF k < m \/ source = "any" THEN U[k]
                 ELSE [U[k] EXCEPT !.rank = CHOOSE q \in Rank(U[k].kind, kind) : TRUE]] = F
        BY <2>2, Zenon
    <2> QED  BY <2>1, <2>3
<1> HIDE DEF r
<1>8. /\ F \in Seq(Element) /\ Len(F) = m
      /\ \A k \in 1 .. m : F[k] = IF k < m THEN U[k] ELSE [U[k] EXCEPT !.rank = r]
    <2>1. \A k \in 1 .. m : U[k] \in Element
        BY <1>1
    <2>2. \A k \in 1 .. m : (IF k < m THEN U[k] ELSE [U[k] EXCEPT !.rank = r]) \in Element
        BY <1>6, <2>1 DEF Element
    <2> QED  BY <1>1, <2>2
<1>9. x \in Element /\ x.kind = kind /\ x.node = count'
    BY <1>2 DEF Element
<1> HIDE DEF F, x
<1>10. /\ unclosed' \in Seq(Element) /\ Len(unclosed') = m + 1 /\ unclosed'[m + 1] = x
       /\ \A k \in 1 .. m : unclosed'[k] = F[k]
    BY <1>7, <1>8, <1>9, AppendIs
<1>11. \A k \in 1 .. m - 1 : unclosed'[k] = U[k]
    <2>1. \A k \in 1 .. m - 1 : k \in 1 .. m /\ k < m
        BY <1>1
    <2> QED  BY <1>8, <1>10, <2>1
<1>12. unclosed'[m].kind = e.kind /\ unclosed'[m].node = e.node /\ unclosed'[m].rank = r
    <2>1. e \in Element
        BY <1>1
    <2>2. unclosed'[m] = [e EXCEPT !.rank = r]
        <3>1. ~(m < m)
            BY <1>1
        <3> QED  BY <1>1, <1>8, <1>10, <3>1
    <2> QED  BY <2>1, <2>2 DEF Element
<1>13. \A k \in 1 .. m : /\ unclosed'[k].kind = U[k].kind /\ unclosed'[k].node = U[k].node
                         /\ unclosed'[k].rank >= U[k].rank
    <2>1. \A k \in 1 .. m : k \in 1 .. m - 1 \/ k = m
        <3>1. m \in Nat
            BY <1>1
        <3> QED  BY <3>1
    <2>2. \A k \in 1 .. m : U[k].rank >= U[k].rank
        <3>1. \A k \in 1 .. m : U[k] \in Element
            BY <1>1
        <3>2. \A k \in 1 .. m : U[k].rank \in Nat
            BY <3>1 DEF Element
        <3> QED  BY <3>2
    <2> QED  BY <1>6, <1>11, <1>12, <2>1, <2>2
<1> QED  BY <1>2, <1>5, <1>9, <1>10, <1>11, <1>12, <1>13 DEF Grows

\* In which states the parser is when an element begins.
Ready(state, kind) ==
    IF kind = "Xml" THEN state = "inside_other_xml_attribute"
    ELSE /\ Expected(state, kind)
         /\ state \in {"inside_dataset", "inside_group", "inside_attribute_container",
                       "inside_attribute", "inside_enum_def", "inside_simple_type",
                       "inside_constructor"}

LEMMA ReadyIn ==
    ASSUME NEW parent, NEW kind, NEW r, Child(parent, kind, r), kind # "Xml"
    PROVE  Ready(StateOf(parent), kind)
<1>1. CASE parent \in Groups
    BY <1>1 DEF Child, Ready, Expected, StateOf, Groups, Variables, Attributes
<1>2. CASE parent \in Variables
    BY <1>2 DEF Child, Ready, Expected, StateOf, Groups, Variables, Attributes
<1>3. CASE parent \in {"Container", "Attribute", "Enumeration"}
    BY <1>3 DEF Child, Ready, Expected, StateOf, Groups, Variables, Attributes
<1>4. parent \in Groups \cup Variables \cup {"Container", "Attribute", "Enumeration"}
    BY DEF Child, Groups, Variables, Attributes
<1> QED  BY <1>1, <1>2, <1>3, <1>4

LEMMA ReadyFor ==
    ASSUME NEW g, NEW v, NEW t, Follows(unclosed, parser, g, v, t), NEW W, NEW kind, NEW n,
           Grows(unclosed, W, kind, n)
    PROVE  Ready(State, kind)
<1> DEFINE e == unclosed[Len(unclosed)].kind
<1>1. Nested(unclosed) /\ Layered(unclosed, g, v, t) /\ Stated(unclosed, parser.states, parser.depth)
    BY DEF Follows
<1>2. Child(e, kind, W[Len(unclosed)].rank)
    BY DEF Grows
<1>3. /\ e # "Xml" => State = StateOf(e)
      /\ e \in {"OtherXML", "Xml"} => State = "inside_other_xml_attribute"
    BY <1>1, Uppermost DEF State
<1> HIDE DEF e
<1>4. CASE kind = "Xml"
    BY <1>2, <1>3, <1>4, Parents DEF Ready
<1>5. CASE kind # "Xml"
    <2>1. e # "Xml"
        BY <1>2, <1>5 DEF Child, Groups
    <2> QED  BY <1>2, <1>3, <1>5, <2>1, ReadyIn
<1> QED  BY <1>4, <1>5

LEMMA StartIs ==
    ASSUME NEW n, NEW kind, kind \notin {"Dataset", "Foreign"}, Ready(State, kind),
           StartTag(n, kind, "good")
    PROVE  /\ kind = "Enumeration" => ProcessEnumDef(n, "good")
           /\ kind = "Dimension" => ProcessDimensionDef(n, "good")
           /\ kind = "Group" => ProcessGroup(n, "good")
           /\ kind \in Variables => ProcessVariable(n, kind, "good")
           /\ kind \in Attributes => ProcessAttribute(n, kind, "good")
           /\ kind = "Value" => /\ parser' = Push(parser, "inside_attribute_value")
                                /\ UNCHANGED made
           /\ kind = "EnumConst" => ProcessEnumConst(n, "good")
           /\ kind \in {"Dim", "Map"} => ProcessDim(n, kind, "good")
           /\ kind = "Xml" => /\ parser' = [parser EXCEPT !.depth = @ + 1, !.xml = @ \cup {n}]
                              /\ UNCHANGED made
<1>1. CASE kind = "Xml"
    BY <1>1 DEF Ready, StartTag, Variables, Attributes
<1>2. CASE kind # "Xml"
    <2>1. Expected(State, kind)
        BY <1>2 DEF Ready
    <2>2. /\ State \notin {"inside_attribute_value", "inside_enum_const", "inside_dim_def",
                           "inside_dim", "inside_map", "not_dap4", "fatal", "end"}
          /\ State # "start" /\ State # "error" /\ State # "inside_other_xml_attribute"
        BY <1>2 DEF Ready
    <2>3. CASE kind \in Variables
        BY <2>1, <2>2, <2>3 DEF StartTag, Variables, Attributes
    <2>4. CASE kind \in Attributes
        BY <2>1, <2>2, <2>4 DEF StartTag, Variables, Attributes
    <2>5. CASE kind \notin Variables \cup Attributes
        BY <1>2, <2>1, <2>2, <2>5 DEF StartTag
    <2> QED  BY <2>3, <2>4, <2>5
<1> QED  BY <1>1, <1>2

LEMMA IsRunning ==
    ASSUME NEW U, NEW p, NEW m, NEW w, NEW g, NEW v, NEW t, Follows(U, p, g, v, t),
           w = m \cup Left(U, p, g, v, t)
    PROVE  Running(U, p, m, w)
<1>1. /\ g \in Nat /\ v \in Nat /\ t \in Nat /\ g + v <= t /\ t <= Len(U) /\ Len(U) \in Nat
    BY DEF Follows, Layered, Nested
<1>2. g \in 0 .. Len(U) /\ v \in 0 .. Len(U) /\ t \in 0 .. Len(U)
    BY <1>1
<1> QED  BY <1>2 DEF Running

\* What a new element adds to what is told: an Attribute nothing, and a Value the
\* Attribute as well.
Adds(n, kind) ==
    CASE kind = "Attribute" -> {}
      [] kind = "Value" ->
            {Node(n, unclosed[Len(unclosed)].node, "value"),
             Node(unclosed[Len(unclosed)].node, unclosed[Len(unclosed) - 1].node, "attribute")}
      [] OTHER -> Says(n, kind)

LEMMA SaysWhat ==
    ASSUME source = "printed", unclosed # <<>>, NEW n, NEW kind, NEW in,
           in = unclosed[Len(unclosed)].node
    PROVE  /\ kind \in Variables => Says(n, kind) = {Node(n, in, "variable")}
           /\ kind = "Group" => Says(n, kind) = {Node(n, in, "group")}
           /\ kind = "Container" => Says(n, kind) = {Node(n, in, "container")}
           /\ kind = "OtherXML" => Says(n, kind) = {Node(n, in, "otherxml")}
           /\ kind = "Attribute" => Says(n, kind) = {Node(n, in, "attribute")}
           /\ kind = "Value" => Says(n, kind) = {Node(n, in, "value")}
           /\ kind = "Enumeration" => Says(n, kind) = {Node(n, in, "enum")}
           /\ kind = "EnumConst" => Says(n, kind) = {Node(n, in, "const")}
           /\ kind = "Dimension" => Says(n, kind) = {Node(n, in, "dimension")}
           /\ kind \in {"Dim", "Map"} => Says(n, kind) = {Node(n, in, kind)}
           /\ kind = "Xml" => Says(n, kind) = {Node(n, o.node, "xml") :
                 o \in {e \in ToSet(unclosed) : e.kind = "OtherXML"}}
           /\ kind = "Foreign" => Says(n, kind) = {Node(n, o.node, "foreign") :
                 o \in {e \in ToSet(unclosed) : e.kind = "OtherXML"}}
<1>1. Last(unclosed).node = in
    BY DEF Last
<1>2. CASE kind \in Variables
    BY <1>1, <1>2 DEF Says, Variables
<1>3. CASE kind \in {"Group", "Container", "OtherXML", "Attribute", "Value"}
    BY <1>1, <1>3 DEF Says, Variables
<1>4. CASE kind \in {"Enumeration", "EnumConst", "Dimension", "Dim", "Map"}
    BY <1>1, <1>4 DEF Says, Variables
<1>5. CASE kind \in {"Xml", "Foreign"}
    BY <1>5 DEF Says, Variables
<1> QED  BY <1>2, <1>3, <1>4, <1>5

LEMMA SaysIs ==
    ASSUME source = "printed", unclosed # <<>>, NEW n, NEW kind, NEW in,
           in = unclosed[Len(unclosed)].node
    PROVE  /\ kind \in Variables => Adds(n, kind) = {Node(n, in, "variable")}
           /\ kind = "Group" => Adds(n, kind) = {Node(n, in, "group")}
           /\ kind = "Container" => Adds(n, kind) = {Node(n, in, "container")}
           /\ kind \in {"Dim", "Map"} => Adds(n, kind) = {Node(n, in, kind)}
           /\ kind \in {"Attribute", "OtherXML", "Enumeration", "EnumConst", "Dimension"} =>
                 \A out : Adds(n, kind) = LeftBy(kind, n, in, out)
           /\ kind = "Value" => Adds(n, kind) = LeftBy(kind, n, in, unclosed[Len(unclosed) - 1].node)
           /\ kind = "Xml" => Adds(n, kind) = {Node(n, o.node, "xml") :
                 o \in {e \in ToSet(unclosed) : e.kind = "OtherXML"}}
<1>1. CASE kind \in Variables \cup {"Group", "Container", "Dim", "Map", "Xml"}
    BY <1>1, SaysWhat DEF Adds, Variables
<1>2. CASE kind \in {"Attribute", "Value"}
    BY <1>2 DEF Adds, LeftBy, Variables
<1>3. CASE kind \in {"OtherXML", "Enumeration", "EnumConst", "Dimension"}
    <2>1. Adds(n, kind) = Says(n, kind)
        BY <1>3 DEF Adds
    <2>2. /\ kind = "OtherXML" => Says(n, kind) = {Node(n, in, "otherxml")}
          /\ kind = "Enumeration" => Says(n, kind) = {Node(n, in, "enum")}
          /\ kind = "EnumConst" => Says(n, kind) = {Node(n, in, "const")}
          /\ kind = "Dimension" => Says(n, kind) = {Node(n, in, "dimension")}
        BY SaysWhat
    <2> QED  BY <1>3, <2>1, <2>2 DEF LeftBy, Variables
<1>4. CASE kind \notin Variables \cup {"Group", "Container", "Dim", "Map", "Xml", "Attribute",
                   "Value", "OtherXML", "Enumeration", "EnumConst", "Dimension"}
    BY <1>4
<1> QED  BY <1>1, <1>2, <1>3, <1>4

\* There is one OtherXML.
LEMMA OneOtherXML ==
    ASSUME NEW U, Nested(U), NEW g, NEW v, NEW t, Layered(U, g, v, t), t < Len(U),
           U[t + 1].kind = "OtherXML", NEW n
    PROVE  {Node(n, o.node, "xml") : o \in {e \in ToSet(U) : e.kind = "OtherXML"}}
              = {Node(n, U[t + 1].node, "xml")}
<1>1. /\ U \in Seq(Element) /\ Len(U) \in Nat /\ DOMAIN U = 1 .. Len(U) /\ t \in Nat
      /\ t + 1 \in 1 .. Len(U)
    BY DEF Nested, Layered
<1>2. ToSet(U) = {U[i] : i \in 1 .. Len(U)}
    BY <1>1 DEF ToSet
<1>3. \A i \in 1 .. Len(U) : U[i].kind = "OtherXML" => i = t + 1
    BY Places DEF Leafs
<1>4. \A e : e \in {x \in ToSet(U) : x.kind = "OtherXML"} <=> e = U[t + 1]
    BY <1>1, <1>2, <1>3
<1> QED  BY <1>4

\* The stacks are not empty where a start tag takes their top.
LEMMA StackHolds ==
    ASSUME NEW U, NEW p, NEW g, NEW v, NEW t, Follows(U, p, g, v, t),
           NEW W, NEW kind, NEW n \in Nat, Grows(U, W, kind, n)
    PROVE  /\ p.groups # <<>>
           /\ kind \in {"Dim", "Map"} => p.variables # <<>>
           /\ kind = "Container" => p.tables # <<>>
<1>1. Grouped(U, p.groups, g) /\ Varied(U, p.variables, g, v)
    BY DEF Follows
<1>2. g \in Nat /\ g >= 1 /\ v \in Nat
    BY Comes
<1>3. kind \in {"Dim", "Map"} => v > 0
    BY Comes
<1>4. kind = "Container" => p.tables # <<>>
    BY ContainerBegins
<1>5. p.groups # <<>>
    BY <1>1, <1>2 DEF Grouped
<1> QED  BY <1>1, <1>2, <1>3, <1>4, <1>5 DEF Varied

LEMMA NothingMissing ==
    ASSUME NEW g, NEW v, NEW t, Follows(unclosed, parser, g, v, t),
           NEW W, NEW kind, NEW n \in Nat, Grows(unclosed, W, kind, n), NEW grade
    PROVE  ~NoTop(kind, grade)
BY StackHolds DEF NoTop

\* Each process method, given what the new element says.
LEMMA DimBegins ==
    ASSUME NEW U, NEW p, NEW g, NEW v, NEW t, Follows(U, p, g, v, t),
           NEW W, NEW kind \in {"Dim", "Map"}, NEW n \in Nat, Grows(U, W, kind, n), NEW q,
           q = Push(TopAsArray(p), IF kind = "Dim" THEN "inside_dim" ELSE "inside_map")
    PROVE  /\ Follows(W, q, g, v, t) /\ Left(W, q, g, v, t) = Left(U, p, g, v, t)
           /\ Last(p.variables).node = U[Len(U)].node
<1> DEFINE s == p.variables
           r == [s EXCEPT ![Len(s)].array = TRUE]
           m == Len(U)
<1>1. p \in Parsers /\ Varied(U, s, g, v) /\ Layered(U, g, v, t) /\ Nested(U)
    BY DEF Follows
<1>2. /\ m \in Nat /\ g \in Nat /\ v \in Nat /\ g + v = m /\ v > 0 /\ 1 <= g /\ g <= m
    BY Comes
<1>3. s \in Seq(Variable) /\ Len(s) = v /\ v \in 1 .. v
    BY <1>1, <1>2 DEF Varied
<1>4. /\ r \in Seq(Variable) /\ Len(r) = v
      /\ \A k \in 1 .. v : r[k].node = s[k].node /\ r[k].proto = s[k].proto
      /\ \A k \in 1 .. v : k # v => r[k].array = s[k].array
    <2> DEFINE x == [s[v] EXCEPT !.array = TRUE]
    <2>1. \A k \in 1 .. v : s[k] \in Variable
        BY <1>3
    <2>0. DOMAIN s = 1 .. v
        BY <1>3
    <2>2. r = [k \in 1 .. v |-> IF k = v THEN x ELSE s[k]]
        BY <1>3, <2>0
    <2>3. x \in Variable /\ x.node = s[v].node /\ x.proto = s[v].proto
        BY <1>3, <2>1 DEF Variable
    <2> HIDE DEF x
    <2>4. \A k \in 1 .. v : (IF k = v THEN x ELSE s[k]) \in Variable
        BY <2>1, <2>3
    <2> HIDE DEF r
    <2>5. r \in Seq(Variable) /\ Len(r) = v
        <3>1. v \in Nat
            BY <1>2
        <3> QED  BY <2>2, <2>4, <3>1
    <2>6. \A k \in 1 .. v : r[k].node = s[k].node /\ r[k].proto = s[k].proto
        BY <2>2, <2>3
    <2>7. \A k \in 1 .. v : k # v => r[k].array = s[k].array
        BY <2>2
    <2> QED  BY <2>5, <2>6, <2>7
<1>5. TopAsArray(p) = [p EXCEPT !.variables = r]
    BY <1>1 DEF TopAsArray, Parsers
<1> HIDE DEF r
<1>6. StateOf(kind) = IF kind = "Dim" THEN "inside_dim" ELSE "inside_map"
    BY DEF StateOf
<1>7. /\ q.states = Append(p.states, StateOf(kind)) /\ q.variables = r
      /\ q.groups = p.groups /\ q.tables = p.tables /\ q.name = p.name /\ q.dim = p.dim
      /\ q.enum = p.enum /\ q.xml = p.xml /\ q.depth = p.depth /\ q \in Parsers
    <2>1. Append(p.states, StateOf(kind)) \in Seq(States)
        BY <1>1, PushedTypes
    <2> QED  BY <1>1, <1>4, <1>5, <1>6, <2>1 DEF Push, Parsers
<1>8. Varied(W, s, g, v)
    BY Pushed
<1>9. W[g + v].kind = "Simple" \/ W[g + v].rank >= 2
    <2>1. U[m].kind = "Simple" \/ W[m].rank >= 2
        BY Parents DEF Grows
    <2>2. W[m].kind = U[m].kind
        <3>1. m \in 1 .. m
            BY <1>2
        <3> QED  BY <3>1 DEF Grows
    <2> QED  BY <1>2, <2>1, <2>2
<1>10. Varied(W, r, g, v)
    <2>1. ASSUME NEW k \in 1 .. v
          PROVE  /\ r[k].node = W[g + k].node /\ r[k].proto = W[g + k].node
                 /\ r[k].array => W[g + k].kind = "Simple" \/ W[g + k].rank >= 2
        <3>1. r[k].node = W[g + k].node /\ r[k].proto = W[g + k].node
            BY <1>4, <1>8 DEF Varied
        <3>2. CASE k = v
            BY <1>9, <3>1, <3>2
        <3>3. CASE k # v
            BY <1>4, <1>8, <3>1, <3>3 DEF Varied
        <3> QED  BY <3>2, <3>3
    <2> QED  BY <1>4, <2>1 DEF Varied
<1>11. /\ Follows(W, q, g, v, t)
       /\ Left(W, q, g, v, t) = Left(U, p, g, v, t) \cup LeftBy(kind, n, U[Len(U)].node, 0)
    <2>1. Notes(p, q, kind, n) /\ Varied(W, q.variables, g, v) /\ kind \in Leafs
        BY <1>7, <1>10 DEF Notes, Leafs
    <2> QED  BY <2>1, LeafBegins
<1>12. LeftBy(kind, n, U[Len(U)].node, 0) = {}
    BY DEF LeftBy
<1>13. Last(s).node = U[Len(U)].node
    <2>1. s[v].node = U[g + v].node
        BY <1>1, <1>3 DEF Varied
    <2> QED  BY <1>2, <1>3, <2>1 DEF Last
<1> QED  BY <1>11, <1>12, <1>13

LEMMA NotedBegins ==
    ASSUME NEW U, NEW p, NEW g, NEW v, NEW t, Follows(U, p, g, v, t),
           NEW W, NEW kind \in Noted,
           NEW n \in Nat, Grows(U, W, kind, n), NEW q,
           q = NotePushed(p, n, kind)
    PROVE  /\ Follows(W, q, g, v, t)
           /\ Left(W, q, g, v, t) = Left(U, p, g, v, t) \cup LeftBy(kind, n, U[Len(U)].node, 0)
<1>1. p \in Parsers
    BY DEF Follows
<1>2. Append(p.states, StateOf(kind)) \in Seq(States)
    BY <1>1, PushedTypes
<1>3. Notes(p, q, kind, n) /\ q.variables = p.variables
    <2>1. CASE kind = "Enumeration"
        <3>1. /\ q = [p EXCEPT !.enum = [@ EXCEPT !.def = n], !.states = Append(@, StateOf(kind))]
              /\ p.enum \in [def : Nat, consts : SUBSET Nat]
            BY <1>1, <2>1 DEF NotePushed, Push, Parsers, StateOf
        <3>2. /\ [p.enum EXCEPT !.def = n] \in [def : Nat, consts : SUBSET Nat]
              /\ [p.enum EXCEPT !.def = n].def = n
              /\ [p.enum EXCEPT !.def = n].consts = p.enum.consts
            BY <3>1
        <3>3. q \in Parsers
            BY <1>1, <1>2, <3>1, <3>2 DEF Parsers
        <3>4. /\ q.states = Append(p.states, StateOf(kind)) /\ q.depth = p.depth
              /\ q.groups = p.groups /\ q.tables = p.tables /\ q.xml = p.xml
              /\ q.variables = p.variables /\ q.enum = [p.enum EXCEPT !.def = n]
            BY <1>1, <3>1 DEF Parsers
        <3> QED  BY <2>1, <3>2, <3>3, <3>4 DEF Notes
    <2>2. CASE kind = "Dimension"
        <3>1. q = [p EXCEPT !.dim = n, !.states = Append(@, StateOf(kind))]
            BY <1>1, <2>2 DEF NotePushed, Push, Parsers, StateOf
        <3>2. q \in Parsers
            BY <1>1, <1>2, <3>1 DEF Parsers
        <3>3. /\ q.states = Append(p.states, StateOf(kind)) /\ q.depth = p.depth /\ q.dim = n
              /\ q.groups = p.groups /\ q.tables = p.tables /\ q.xml = p.xml
              /\ q.variables = p.variables /\ q.enum = p.enum
            BY <1>1, <3>1 DEF Parsers
        <3> QED  BY <2>2, <3>2, <3>3 DEF Notes
    <2>3. CASE kind \in {"Attribute", "OtherXML"}
        <3>1. q = [p EXCEPT !.name = n, !.states = Append(@, StateOf(kind))]
            BY <1>1, <2>3 DEF NotePushed, Push, Parsers, StateOf
        <3>2. q \in Parsers
            BY <1>1, <1>2, <3>1 DEF Parsers
        <3>3. /\ q.states = Append(p.states, StateOf(kind)) /\ q.depth = p.depth /\ q.name = n
              /\ q.groups = p.groups /\ q.tables = p.tables /\ q.xml = p.xml
              /\ q.variables = p.variables /\ q.enum = p.enum
            BY <1>1, <3>1 DEF Parsers
        <3> QED  BY <2>3, <3>2, <3>3 DEF Notes
    <2> QED  BY <2>1, <2>2, <2>3 DEF Noted
<1>4. Varied(W, q.variables, g, v)
    <2>1. Varied(W, p.variables, g, v)
        BY Pushed
    <2> QED  BY <1>3, <2>1
<1>5. kind \in Leafs
    BY DEF Leafs, Noted
<1> QED  BY <1>3, <1>4, <1>5, LeafBegins

LEMMA HeldBegins ==
    ASSUME NEW U, NEW p, NEW g, NEW v, NEW t, Follows(U, p, g, v, t),
           NEW W, NEW kind \in Inners, NEW n \in Nat, Grows(U, W, kind, n), NEW q,
           q = HeldPushed(p, n, kind)
    PROVE  /\ Follows(W, q, g, v, t)
           /\ Left(W, q, g, v, t) = Left(U, p, g, v, t)
                 \cup LeftBy(kind, n, U[Len(U)].node, U[Len(U) - 1].node)
<1>1. p \in Parsers
    BY DEF Follows
<1>2. Append(p.states, StateOf(kind)) \in Seq(States)
    BY <1>1, PushedTypes
<1>3. Notes(p, q, kind, n)
    <2>1. CASE kind = "Value"
        <3>1. q = [p EXCEPT !.states = Append(@, StateOf(kind))]
            BY <1>1, <2>1 DEF HeldPushed, Push, Parsers, StateOf
        <3>2. q \in Parsers
            BY <1>1, <1>2, <3>1 DEF Parsers
        <3>3. /\ q.states = Append(p.states, StateOf(kind)) /\ q.depth = p.depth
              /\ q.groups = p.groups /\ q.tables = p.tables /\ q.xml = p.xml
              /\ q.variables = p.variables /\ q.enum = p.enum /\ q.name = p.name
            BY <1>1, <3>1 DEF Parsers
        <3> QED  BY <2>1, <3>2, <3>3 DEF Notes
    <2>2. CASE kind = "EnumConst"
        <3> DEFINE c == p.enum.consts \cup {n}
        <3>1. /\ q = [p EXCEPT !.enum = [@ EXCEPT !.consts = c], !.states = Append(@, StateOf(kind))]
              /\ p.enum \in [def : Nat, consts : SUBSET Nat]
            BY <1>1, <2>2 DEF HeldPushed, Push, Parsers, StateOf
        <3>2. /\ [p.enum EXCEPT !.consts = c] \in [def : Nat, consts : SUBSET Nat]
              /\ [p.enum EXCEPT !.consts = c].def = p.enum.def
              /\ [p.enum EXCEPT !.consts = c].consts = c
            BY <3>1
        <3> HIDE DEF c
        <3>3. q \in Parsers
            BY <1>1, <1>2, <3>1, <3>2 DEF Parsers
        <3>4. /\ q.states = Append(p.states, StateOf(kind)) /\ q.depth = p.depth
              /\ q.groups = p.groups /\ q.tables = p.tables /\ q.xml = p.xml
              /\ q.variables = p.variables /\ q.enum = [p.enum EXCEPT !.consts = c]
              /\ q.name = p.name
            BY <1>1, <3>1 DEF Parsers
        <3> QED  BY <2>2, <3>2, <3>3, <3>4 DEF Notes, c
    <2> QED  BY <2>1, <2>2 DEF Inners
<1> QED  BY <1>3, InnerBegins

\* What is said of a new element is new, and is lost only while an Attribute has no
\* value.
LEMMA ToldGrows ==
    ASSUME source = "printed", Said, Nested(unclosed), NEW kind \in Kinds, NEW grade,
           kind # "Foreign", StartElement(kind, grade), count \in Nat
    PROVE  Told' = Told \cup Adds(count', kind) /\ Said'
<1> DEFINE U == unclosed
           W == unclosed'
           n == count'
           in == U[Len(U)].node
           A == Node(in, U[Len(U) - 1].node, "attribute")
<1>1. Grows(U, W, kind, n) /\ n = count + 1
    BY ElementGrows
<1>2. /\ written' = written \cup Says(n, kind) /\ U # <<>>
      /\ Len(U) \in Nat /\ Len(U) >= 1 /\ U \in Seq(Element) /\ Len(W) = Len(U) + 1
    BY <1>1 DEF StartElement, Nested, Grows
<1>3. in \in 1 .. count /\ n \in 1 .. n /\ \A i \in 1 .. count : i \in 1 .. n /\ i # n
    BY <1>1, <1>2 DEF Said
<1>4. /\ \A m \in Says(n, kind) : m.node = n /\ (m.as = "value" => kind = "Value" /\ m.in = in)
      /\ \A m \in Says(n, kind) : m.as = "attribute" => kind = "Attribute"
      /\ kind = "Attribute" => Says(n, kind) = {Node(n, in, "attribute")}
      /\ kind = "Value" => Says(n, kind) = {Node(n, in, "value")}
    <2>1. \/ \E as : /\ Says(n, kind) = {Node(n, in, as)}
                     /\ as = "value" => kind = "Value"
                     /\ as = "attribute" => kind = "Attribute"
          \/ kind = "Xml" /\ Says(n, kind) = {Node(n, o.node, "xml") :
                                  o \in {e \in ToSet(U) : e.kind = "OtherXML"}}
        <3> DEFINE Noun(as) == Says(n, kind) = {Node(n, in, as)}
        <3>1. /\ kind \in Variables => Noun("variable")
              /\ kind = "Group" => Noun("group")
              /\ kind = "Container" => Noun("container")
              /\ kind = "OtherXML" => Noun("otherxml")
              /\ kind = "Attribute" => Noun("attribute")
              /\ kind = "Value" => Noun("value")
              /\ kind = "Enumeration" => Noun("enum")
              /\ kind = "EnumConst" => Noun("const")
              /\ kind = "Dimension" => Noun("dimension")
              /\ kind \in {"Dim", "Map"} => Noun(kind)
              /\ kind = "Xml" => Says(n, kind) = {Node(n, o.node, "xml") :
                                  o \in {e \in ToSet(U) : e.kind = "OtherXML"}}
            BY <1>2, SaysWhat
        <3>2. kind # "Dataset"
            BY <1>1, Parents DEF Grows
        <3> HIDE DEF Noun
        <3>3. \/ \E as : /\ Noun(as)
                         /\ as = "value" => kind = "Value"
                         /\ as = "attribute" => kind = "Attribute"
              \/ kind = "Xml"
            BY <3>1, <3>2 DEF Kinds, Attributes
        <3> QED  BY <3>1, <3>3 DEF Noun
    <2>2. kind = "Attribute" => Says(n, kind) = {Node(n, in, "attribute")}
        BY <1>2, SaysWhat
    <2>3. kind = "Value" => Says(n, kind) = {Node(n, in, "value")}
        BY <1>2, SaysWhat
    <2> QED  BY <2>1, <2>2, <2>3 DEF Node
<1>5. kind = "Value" => /\ Len(U) \in 2 .. Len(U) /\ U[Len(U)].kind = "Attribute"
    <2> SUFFICES ASSUME kind = "Value" PROVE Len(U) \in 2 .. Len(U) /\ U[Len(U)].kind = "Attribute"
        OBVIOUS
    <2>1. U[Len(U)].kind = "Attribute"
        BY <1>1, Parents DEF Grows
    <2>2. Len(U) # 1
        BY <2>1 DEF Nested
    <2>3. Len(U) \in 2 .. Len(U)
        BY <1>2, <2>2, NotOne
    <2> QED  BY <2>1, <2>3
<1> HIDE DEF U, W, n, in, A
<1>6. Told' = Told \cup Adds(n, kind)
    <2>1. \A m \in written : m \notin Says(n, kind) /\ m.node # n /\ (m.as = "value" => m.in # n)
        BY <1>3, <1>4 DEF Said
    <2>2. CASE kind \notin {"Attribute", "Value"}
        <3>1. Valueless' = Valueless
            BY <1>2, <1>4, <2>2 DEF Valueless
        <3>2. Adds(n, kind) = Says(n, kind)
            BY <2>2 DEF Adds
        <3> QED  BY <1>2, <2>1, <3>1, <3>2 DEF Told, Valueless
    <2>3. CASE kind = "Attribute"
        <3>1. Valueless' = Valueless \cup {Node(n, in, "attribute")}
            BY <1>2, <1>4, <2>1, <2>3 DEF Valueless, Node
        <3>2. Adds(n, kind) = {}
            BY <2>3 DEF Adds
        <3> QED  BY <1>2, <1>4, <2>1, <2>3, <3>1, <3>2 DEF Told
    <2>4. CASE kind = "Value"
        <3>1. A \in written /\ (\A m \in written : m.node = A.node => m = A) /\ A.node = in
              /\ A.as = "attribute"
            BY <1>5, <2>4 DEF Said, A, U, in, Node
        <3>2. Valueless' = Valueless \ {A}
            <4> DEFINE x == Node(n, in, "value")
                       Has(a) == \E m \in written : m.as = "value" /\ m.in = a.node
            <4>1. written' = written \cup {x} /\ x.as = "value" /\ x.in = in
                BY <1>2, <1>4, <2>4 DEF Node
            <4>2. \A a \in written : a.node = in <=> a = A
                BY <3>1
            <4> HIDE DEF x
            <4>3. \A a : a \in Valueless' <=>
                      a \in written /\ a.as = "attribute" /\ a.node # in /\ ~Has(a)
                BY <4>1 DEF Valueless
            <4>4. \A a : a \in Valueless <=> a \in written /\ a.as = "attribute" /\ ~Has(a)
                BY DEF Valueless
            <4> HIDE DEF Has
            <4> QED  BY <4>2, <4>3, <4>4
        <3>3. Adds(n, kind) = Says(n, kind) \cup {A}
            BY <1>4, <2>4 DEF Adds, A, in, U
        <3> QED  BY <1>2, <2>1, <3>1, <3>2, <3>3 DEF Told, Valueless
    <2> QED  BY <2>2, <2>3, <2>4
<1>7. \A m \in written' : m.node \in 1 .. n /\ (m.as = "value" => m.in \in 1 .. n)
    BY <1>2, <1>3, <1>4 DEF Said
<1>8. \A k \in 1 .. Len(W) : W[k].node \in 1 .. n
    <2>1. \A k \in 1 .. Len(U) : W[k].node = U[k].node /\ U[k].node \in 1 .. count
        BY <1>1 DEF Grows, Said, U
    <2>2. W[Len(U) + 1].node = n
        BY <1>1 DEF Grows
    <2>3. \A k \in 1 .. Len(W) : k \in 1 .. Len(U) \/ k = Len(U) + 1
        BY <1>2
    <2> QED  BY <1>3, <2>1, <2>2, <2>3
<1>9. ASSUME NEW k \in 2 .. Len(W), W[k].kind = "Attribute"
      PROVE  LET a == Node(W[k].node, W[k - 1].node, "attribute")
             IN  a \in written' /\ \A m \in written' : m.node = a.node => m = a
    <2>1. CASE k = Len(U) + 1
        <3>1. kind = "Attribute" /\ W[k].node = n /\ W[k - 1].node = in
            <4>1. Len(U) \in 1 .. Len(U) /\ k - 1 = Len(U)
                BY <1>2, <2>1
            <4> QED  BY <1>1, <1>9, <2>1, <4>1 DEF Grows, in
        <3>2. \A m \in written : m.node # n
            BY <1>3 DEF Said
        <3> QED  BY <1>2, <1>4, <3>1, <3>2 DEF Node
    <2>2. CASE k # Len(U) + 1
        <3>1. k \in 2 .. Len(U) /\ k \in 1 .. Len(U) /\ k - 1 \in 1 .. Len(U)
            BY <1>2, <1>9, <2>2
        <3>2. W[k].node = U[k].node /\ W[k - 1].node = U[k - 1].node /\ W[k].kind = U[k].kind
            BY <1>1, <3>1 DEF Grows
        <3>3. LET a == Node(U[k].node, U[k - 1].node, "attribute")
              IN  a \in written /\ \A m \in written : m.node = a.node => m = a
            BY <1>9, <3>1, <3>2 DEF Said, U
        <3>4. U[k].node \in 1 .. count
            BY <3>1 DEF Said, U
        <3>5. U[k].node # n
            BY <1>3, <3>4
        <3> QED  BY <1>2, <1>4, <3>2, <3>3, <3>5 DEF Node
    <2> QED  BY <2>1, <2>2
<1> QED  BY <1>6, <1>7, <1>8, <1>9 DEF Said, W, n

\* A Map that is not found is made all the same, where that does not throw.
LEMMA NoSource ==
    ASSUME NEW n, StartTag(n, "Map", "bad")
    PROVE  StartTag(n, "Map", "good")
<1>1. ProcessDim(n, "Map", "bad") => ProcessDim(n, "Map", "good")
    BY DEF ProcessDim
<1>2. CASE State \in {"start", "error", "inside_other_xml_attribute"}
    BY <1>2 DEF StartTag, StartDataset
<1>3. CASE State \notin {"start", "error", "inside_other_xml_attribute"}
    BY <1>1, <1>3 DEF StartTag, Variables, Attributes
<1> QED  BY <1>2, <1>3

\* A printed element goes on the stacks, and what it says is made or left.
LEMMA Begins ==
    ASSUME source = "printed", count \in Nat, NEW kind \in Kinds, NEW grade,
           NEW g, NEW v, NEW t, Follows(unclosed, parser, g, v, t), Said, kind # "Foreign",
           Told = made \cup Left(unclosed, parser, g, v, t),
           StartElement(kind, grade)
    PROVE  During' /\ result' = result /\ count' \in Nat /\ count' > 0
<1> DEFINE U == unclosed
           W == unclosed'
           p == parser
           q == parser'
           n == count'
           in == U[Len(U)].node
           L == Left(U, p, g, v, t)
           H(x, y, z) == Follows(W, q, x, y, z) /\ Told' = made' \cup Left(W, q, x, y, z)
<1>1. Follows(U, p, g, v, t) /\ Told = made \cup L
    OBVIOUS
<1>2. Nested(U) /\ p \in Parsers /\ Layered(U, g, v, t)
    BY <1>1 DEF Follows
<1>3. U # <<>>
    BY <1>2 DEF Nested
<1>4. /\ Grows(U, W, kind, n) /\ n = count + 1
      /\ grade = "good" \/ (kind = "Map" /\ grade = "bad")
    BY <1>2, ElementGrows
<1>5. n \in Nat /\ n > 0
    BY <1>4
<1>6. ~NoTop(kind, grade)
    BY <1>1, <1>4, <1>5, NothingMissing
<1>7. StartTag(n, kind, "good") /\ result' = result /\ Told' = Told \cup Adds(n, kind) /\ Said'
    <2>1. StartTag(n, kind, grade) /\ result' = result
        BY <1>6 DEF StartElement
    <2>2. StartTag(n, kind, "good")
        BY <1>4, <2>1, NoSource
    <2>3. Told' = Told \cup Adds(n, kind) /\ Said'
        BY <1>2, ToldGrows
    <2> QED  BY <2>1, <2>2, <2>3
<1>8. Ready(State, kind)
    BY <1>1, <1>4, ReadyFor
<1>9. kind \notin {"Dataset", "Foreign"}
    BY <1>4, Parents DEF Grows
<1>10. \/ kind = "Group" \/ kind \in Variables \/ kind = "Container"
       \/ kind \in Noted
       \/ kind \in {"Dim", "Map"} \/ kind \in Inners \/ kind = "Xml"
    BY <1>9 DEF Kinds, Variables, Attributes, Inners, Noted
<1>11. ASSUME NEW x, NEW y, NEW z, H(x, y, z)
       PROVE  During'
    <2>1. Running(W, q, made', Told')
        BY <1>11, IsRunning
    <2> QED  BY <1>7, <2>1 DEF During
<1>12. in = unclosed[Len(unclosed)].node /\ unclosed # <<>>
    BY <1>3
<1> HIDE DEF U, W, p, q, n, in, L, H
<1>13. During'
    <2>1. CASE kind = "Group"
        <3>1. ProcessGroup(n, "good")
            BY <1>7, <1>8, <1>9, <2>1, StartIs
        <3>2. /\ q = GroupPushed(p, n)
              /\ made' = made \cup {Node(n, Last(p.groups), "group")}
            BY <3>1 DEF GroupPushed, ProcessGroup, p, q
        <3>3. Grows(U, W, "Group", n)
            BY <1>4, <2>1
        <3>4. /\ Follows(W, q, g + 1, 0, t + 1) /\ Left(W, q, g + 1, 0, t + 1) = L
              /\ Last(p.groups) = in
            BY <1>1, <1>5, <3>2, <3>3, GroupBegins DEF L, in
        <3>5. Adds(n, kind) = {Node(n, in, "group")}
            BY <1>12, <2>1, SaysIs
        <3>6. H(g + 1, 0, t + 1)
            BY <1>1, <1>7, <3>2, <3>4, <3>5 DEF H
        <3> QED  BY <1>11, <3>6
    <2>2. CASE kind \in Variables
        <3>1. ProcessVariable(n, kind, "good")
            BY <1>7, <1>8, <1>9, <2>2, StartIs
        <3>2. q = VariablePushed(p, n, kind) /\ made' = made
            BY <2>2, <3>1 DEF VariablePushed, ProcessVariable, Variables, StateOf, p, q
        <3>3. /\ Follows(W, q, g, v + 1, t + 1)
              /\ Left(W, q, g, v + 1, t + 1) = L \cup {Node(n, in, "variable")}
            <4>1. Follows(U, p, g, v, t) /\ Grows(U, W, kind, n) /\ n \in Nat
                BY <1>1, <1>4, <1>5
            <4>2. q = VariablePushed(p, n, kind)
                BY <3>2
            <4>3. /\ Follows(W, q, g, v + 1, t + 1)
                  /\ Left(W, q, g, v + 1, t + 1) =
                        Left(U, p, g, v, t) \cup {Node(n, U[Len(U)].node, "variable")}
                BY ONLY <2>2, <4>1, <4>2, VariableBegins
            <4> QED  BY <4>3 DEF L, in
        <3>4. Adds(n, kind) = {Node(n, in, "variable")}
            BY <1>12, <2>2, SaysIs
        <3>5. H(g, v + 1, t + 1)
            BY <1>1, <1>7, <3>2, <3>3, <3>4 DEF H
        <3> QED  BY <1>11, <3>5
    <2>3. CASE kind = "Container"
        <3>1. ProcessAttribute(n, kind, "good")
            BY <1>7, <1>8, <1>9, <2>3, StartIs DEF Attributes
        <3>2. /\ q = Push([p EXCEPT !.tables = Append(@, n)], "inside_attribute_container")
              /\ made' = made \cup {Node(n, Last(p.tables), "container")}
            BY <2>3, <3>1 DEF ProcessAttribute, p, q
        <3>3. Grows(U, W, "Container", n)
            BY <1>4, <2>3
        <3>4. /\ Follows(W, q, g, v, t + 1) /\ Left(W, q, g, v, t + 1) = L
              /\ Last(p.tables) = in
            BY <1>1, <1>5, <3>2, <3>3, ContainerBegins DEF L, in
        <3>5. Adds(n, kind) = {Node(n, in, "container")}
            BY <1>12, <2>3, SaysIs
        <3>6. H(g, v, t + 1)
            BY <1>1, <1>7, <3>2, <3>4, <3>5 DEF H
        <3> QED  BY <1>11, <3>6
    <2>4. CASE kind \in Noted
        <3>1. /\ kind = "Enumeration" => ProcessEnumDef(n, "good")
              /\ kind = "Dimension" => ProcessDimensionDef(n, "good")
              /\ kind \in {"Attribute", "OtherXML"} => ProcessAttribute(n, kind, "good")
            BY <1>7, <1>8, <1>9, StartIs DEF Attributes
        <3>2. q = NotePushed(p, n, kind)
            BY <2>4, <3>1 DEF ProcessEnumDef, ProcessDimensionDef, ProcessAttribute,
                              NotePushed, Noted, p, q
        <3>6. made' = made
            BY <2>4, <3>1 DEF ProcessEnumDef, ProcessDimensionDef, ProcessAttribute, Noted
        <3>7. Follows(W, q, g, v, t) /\ Left(W, q, g, v, t) = L \cup LeftBy(kind, n, in, 0)
            BY <1>1, <1>4, <1>5, <2>4, <3>2, NotedBegins DEF L, in
        <3>8. Adds(n, kind) = LeftBy(kind, n, in, 0)
            BY <1>12, <2>4, SaysIs DEF Noted
        <3>9. H(g, v, t)
            BY <1>1, <1>7, <3>6, <3>7, <3>8 DEF H
        <3> QED  BY <1>11, <3>9
    <2>5. CASE kind \in {"Dim", "Map"}
        <3>1. ProcessDim(n, kind, "good")
            BY <1>7, <1>8, <1>9, <2>5, StartIs
        <3>2. /\ q = Push(TopAsArray(p), IF kind = "Dim" THEN "inside_dim" ELSE "inside_map")
              /\ made' = made \cup {Node(n, Last(p.variables).node, kind)}
            BY <3>1 DEF ProcessDim, p, q
        <3>3. /\ Follows(W, q, g, v, t) /\ Left(W, q, g, v, t) = L
              /\ Last(p.variables).node = in
            BY <1>1, <1>4, <1>5, <2>5, <3>2, DimBegins DEF L, in
        <3>4. Adds(n, kind) = {Node(n, in, kind)}
            BY <1>12, <2>5, SaysIs
        <3>5. H(g, v, t)
            BY <1>1, <1>7, <3>2, <3>3, <3>4 DEF H
        <3> QED  BY <1>11, <3>5
    <2>6. CASE kind \in Inners
        <3>1. /\ kind = "Value" => q = Push(p, "inside_attribute_value") /\ made' = made
              /\ kind = "EnumConst" => ProcessEnumConst(n, "good")
            BY <1>7, <1>8, <1>9, StartIs DEF p, q
        <3>2. q = HeldPushed(p, n, kind)
            BY <2>6, <3>1 DEF ProcessEnumConst, HeldPushed, Inners, p, q
        <3>3. made' = made
            BY <2>6, <3>1 DEF ProcessEnumConst, Inners
        <3>5. /\ Follows(W, q, g, v, t)
              /\ Left(W, q, g, v, t) = L \cup LeftBy(kind, n, in, U[Len(U) - 1].node)
            BY <1>1, <1>4, <1>5, <2>6, <3>2, HeldBegins DEF L, in
        <3>6. Adds(n, kind) = LeftBy(kind, n, in, U[Len(U) - 1].node)
            <4>1. Len(U) \in Nat /\ t \in Nat /\ 1 <= t /\ t + 1 = Len(U)
                BY <1>1, <1>4, <2>6, Comes DEF Inners
            <4>2. Len(unclosed) > 1
                BY <4>1 DEF U
            <4> QED  BY <1>12, <2>6, <4>2, SaysIs DEF Inners, U
        <3>7. H(g, v, t)
            BY <1>1, <1>7, <3>3, <3>5, <3>6 DEF H
        <3> QED  BY <1>11, <3>7
    <2>7. CASE kind = "Xml"
        <3>1. q = XmlNoted(p, n) /\ made' = made
            BY <1>7, <1>8, <1>9, <2>7, StartIs DEF XmlNoted, p, q
        <3>2. Grows(U, W, "Xml", n)
            BY <1>4, <2>7
        <3>3. /\ Follows(W, q, g, v, t)
              /\ Left(W, q, g, v, t) = L \cup {Node(n, U[t + 1].node, "xml")}
            BY <1>1, <1>5, <3>1, <3>2, XmlBegins DEF L
        <3>4. t < Len(U) /\ U[t + 1].kind = "OtherXML"
            BY <1>1, <3>2, Comes
        <3>5. Adds(n, kind) = {Node(n, o.node, "xml") :
                                  o \in {e \in ToSet(U) : e.kind = "OtherXML"}}
            BY <1>12, <2>7, SaysIs DEF U
        <3>6. {Node(n, o.node, "xml") : o \in {e \in ToSet(U) : e.kind = "OtherXML"}}
                 = {Node(n, U[t + 1].node, "xml")}
            BY <1>2, <3>4, OneOtherXML
        <3>7. H(g, v, t)
            BY <1>1, <1>7, <3>1, <3>3, <3>5, <3>6 DEF H
        <3> QED  BY <1>11, <3>7
    <2> QED  BY <1>10, <2>1, <2>2, <2>3, <2>4, <2>5, <2>6, <2>7
<1> QED  BY <1>5, <1>7, <1>13 DEF n

\* The Dataset begins.
LEMMA FirstBegins ==
    ASSUME source = "printed", count = 0, Before, NEW kind \in Kinds, NEW grade,
           StartElement(kind, grade)
    PROVE  During' /\ result' = result /\ count' = 1
<1> DEFINE W == unclosed'
           q == parser'
           x == [kind |-> "Dataset", node |-> 1, rank |-> 1]
<1>1. /\ unclosed = <<>> /\ parser = NewParser /\ made = {} /\ written = {}
    BY DEF Before
<1>2. /\ kind = "Dataset" /\ grade = "good" /\ count' = 1
    BY <1>1 DEF StartElement, Writes
<1>3. State = "start"
    BY <1>1 DEF State, NewParser, Last
<1>4. ~NoTop(kind, grade)
    BY <1>3 DEF NoTop, Expected
<1>5. /\ StartTag(1, "Dataset", "good") /\ result' = result
      /\ written' = written \cup Says(1, "Dataset")
    BY <1>2, <1>4 DEF StartElement
<1>6. StartDataset(1, "Dataset", "good")
    BY <1>3, <1>5 DEF StartTag
<1>7. q = Push([NewParser EXCEPT !.groups = Append(@, Root)], "inside_dataset") /\ made' = {}
    BY <1>1, <1>6 DEF StartDataset
<1>8. /\ q.states = Append(<<"start">>, "inside_dataset") /\ q.variables = <<>>
      /\ q.groups = Append(<<>>, Root) /\ q.tables = <<Root>> /\ q.depth = 0
      /\ q.enum.consts = {} /\ q.xml = {}
    BY <1>7 DEF Push, NewParser
<1>9. q \in Parsers
    <2>1. "start" \in States /\ "inside_dataset" \in States /\ Root \in Nat
        BY DEF States, Inside, Ends, Root
    <2>2. /\ Append(<<"start">>, "inside_dataset") \in Seq(States)
          /\ Append(<<>>, Root) \in Seq(Nat) /\ <<Root>> \in Seq(Nat)
        BY <2>1
    <2>3. <<>> \in Seq(Variable) /\ [def |-> 0, consts |-> {}] \in [def : Nat, consts : SUBSET Nat]
        OBVIOUS
    <2> QED  BY <1>7, <2>2, <2>3 DEF Push, NewParser, Parsers
<1>10. W \in Seq(Element) /\ Len(W) = 1 /\ W[1] = x
    <2> DEFINE F == [k \in DOMAIN unclosed |->
                        IF k < Len(unclosed) \/ source = "any" THEN unclosed[k]
                        ELSE [unclosed[k] EXCEPT !.rank =
                                 CHOOSE r \in Rank(unclosed[k].kind, kind) : TRUE]]
    <2>1. W = Append(F, x)
        BY <1>2 DEF StartElement
    <2>2. DOMAIN unclosed = 1 .. 0 /\ \A k \in 1 .. 0 : FALSE
        BY <1>1
    <2> HIDE DEF x
    <2>3. F \in Seq(Element) /\ Len(F) = 0
        BY <2>2
    <2> HIDE DEF F
    <2>4. x \in Element
        BY DEF Element, x, Kinds
    <2>5. /\ Append(F, x) \in Seq(Element) /\ Len(Append(F, x)) = Len(F) + 1
          /\ Append(F, x)[Len(F) + 1] = x
        BY <2>3, <2>4, AppendIs
    <2> QED  BY <2>1, <2>3, <2>5
<1>11. Nested(W)
    BY <1>10 DEF Nested, Root
<1>12. Layered(W, 1, 0, 1)
    BY <1>10 DEF Layered, Groups, Variables
<1>13. Grouped(W, q.groups, 1)
    BY <1>8, <1>10 DEF Grouped, Root
<1>14. Varied(W, q.variables, 1, 0)
    BY <1>8 DEF Varied
<1>15. Tabled(W, q.tables, 1, 1)
    <2>1. q.tables \in Seq(Nat) /\ Len(q.tables) = 1 /\ q.tables[1] = 1
        BY <1>8 DEF Root
    <2> QED  BY <1>10, <2>1 DEF Tabled
<1>16. Stated(W, q.states, q.depth)
    <2>1. /\ q.states \in Seq(States) /\ Len(q.states) = 2
          /\ q.states[1] = "start" /\ q.states[2] = "inside_dataset"
        BY <1>8, <1>9 DEF Parsers
    <2>2. StateOf("Dataset") = "inside_dataset"
        BY DEF StateOf
    <2> QED  BY <1>8, <1>10, <2>1, <2>2 DEF Stated
<1>17. Working(W, q, 1)
    BY <1>8, <1>10 DEF Working
<1>18. Follows(W, q, 1, 0, 1)
    BY <1>9, <1>11, <1>12, <1>13, <1>14, <1>15, <1>16, <1>17 DEF Follows
<1>19. Left(W, q, 1, 0, 1) = {}
    BY <1>10, NoVariablesLeft DEF Left, ElementLeft
<1>20. written' = {}
    BY <1>1, <1>5 DEF Says
<1>21. Told' = made' \cup Left(W, q, 1, 0, 1)
    BY <1>7, <1>19, <1>20 DEF Told
<1>22. Said'
    BY <1>2, <1>10, <1>20 DEF Said
<1> HIDE DEF W, q
<1>23. Running(W, q, made', Told')
    BY <1>18, <1>21, IsRunning
<1> QED  BY <1>2, <1>5, <1>22, <1>23 DEF During, W, q

-----------------------------------------------------------------------------
(* What an end tag of a printed document does, by kind, and all of them.   *)

\* The parser after the end of an element in an attribute table, and what is
\* made by it.
LeafClosed(p, kind) ==
    CASE kind = "Enumeration" -> Pop([p EXCEPT !.enum = [def |-> 0, consts |-> {}]])
      [] kind = "Dimension"   -> Pop([p EXCEPT !.dim = 0])
      [] kind = "OtherXML"    -> Pop([p EXCEPT !.xml = {}])
      [] OTHER                -> Pop(p)
LeafMade(p, kind) ==
    CASE kind = "Enumeration" ->
            {Node(p.enum.def, Last(p.groups), "enum")}
                \cup {Node(c, p.enum.def, "const") : c \in p.enum.consts}
      [] kind = "Dimension" -> {Node(p.dim, Last(p.groups), "dimension")}
      [] kind = "OtherXML" ->
            {Node(p.name, Last(p.tables), "otherxml")}
                \cup {Node(x, p.name, "xml") : x \in p.xml}
      [] OTHER -> {}

LEMMA LeafCloses ==
    ASSUME NEW U, NEW p, NEW g, NEW v, NEW t, Follows(U, p, g, v, t),
           NEW W, Shrinks(U, W), NEW kind \in Leafs, kind = U[Len(U)].kind,
           NEW q, q = LeafClosed(p, kind)
    PROVE  /\ Follows(W, q, g, v, t)
           /\ Left(U, p, g, v, t) = Left(W, q, g, v, t) \cup LeafMade(p, kind)
<1>1. Nested(U) /\ Layered(U, g, v, t) /\ Working(U, p, t)
    BY DEF Follows
<1>2. p \in Parsers /\ Front(p.states) \in Seq(States) /\ t \in Nat /\ Len(U) \in Nat
    BY Ended
<1>3. t + 1 = Len(U)
    BY <1>1, LastPlace
<1>4. /\ t < Len(U) /\ t # Len(U) /\ ~(Len(U) > t + 1) /\ U[t + 1].kind = kind
    BY <1>2, <1>3
<1>5. /\ kind # "Enumeration" => p.enum.consts = {}
      /\ kind # "OtherXML" => p.xml = {}
      /\ kind = "Enumeration" => p.enum.def = U[t + 1].node
      /\ kind = "Dimension" => p.dim = U[t + 1].node
      /\ kind = "OtherXML" => p.name = U[t + 1].node
    BY <1>1, <1>4 DEF Working
<1>6. /\ Last(p.tables) = U[t].node
      /\ kind \in {"Enumeration", "Dimension"} => Last(p.groups) = U[t].node
    BY <1>4, TableOfAttribute
<1>7. /\ q \in Parsers /\ q.states = Front(p.states) /\ q.depth = p.depth
      /\ q.variables = p.variables /\ q.groups = p.groups /\ q.tables = p.tables
      /\ q.enum.consts = {} /\ q.xml = {}
    <2> HIDE DEF Front
    <2>1. CASE kind = "Enumeration"
        <3>1. [def |-> 0, consts |-> {}] \in [def : Nat, consts : SUBSET Nat]
            OBVIOUS
        <3>2. q = [p EXCEPT !.enum = [def |-> 0, consts |-> {}], !.states = Front(@)]
            BY <1>2, <2>1 DEF LeafClosed, Pop, Parsers
        <3>3. q \in Parsers
            BY <1>2, <3>1, <3>2 DEF Parsers
        <3>4. /\ q.states = Front(p.states) /\ q.depth = p.depth /\ q.variables = p.variables
              /\ q.groups = p.groups /\ q.tables = p.tables /\ q.xml = p.xml
              /\ q.enum = [def |-> 0, consts |-> {}]
            BY <1>2, <3>2 DEF Parsers
        <3>5. q.enum.consts = {} /\ p.xml = {}
            BY <1>5, <2>1, <3>4
        <3> QED  BY <3>3, <3>4, <3>5
    <2>2. CASE kind = "Dimension"
        <3>1. q = [p EXCEPT !.dim = 0, !.states = Front(@)]
            BY <1>2, <2>2 DEF LeafClosed, Pop, Parsers
        <3>2. q \in Parsers
            <4>1. /\ p \in Parsers /\ Front(p.states) \in Seq(States)
                  /\ q = [p EXCEPT !.dim = 0, !.states = Front(p.states)]
                BY <1>2, <3>1
            <4>2. ASSUME NEW z \in Nat, NEW s \in Seq(States)
                  PROVE  [p EXCEPT !.dim = z, !.states = s] \in Parsers
                BY <4>1 DEF Parsers
            <4>3. 0 \in Nat
                OBVIOUS
            <4> QED  BY <4>1, <4>2, <4>3
        <3>3. /\ q.states = Front(p.states) /\ q.depth = p.depth /\ q.variables = p.variables
              /\ q.groups = p.groups /\ q.tables = p.tables /\ q.xml = p.xml /\ q.enum = p.enum
            BY <1>2, <3>1 DEF Parsers
        <3> QED  BY <1>5, <2>2, <3>2, <3>3
    <2>3. CASE kind = "OtherXML"
        <3>1. q = [p EXCEPT !.xml = {}, !.states = Front(@)]
            BY <1>2, <2>3 DEF LeafClosed, Pop, Parsers
        <3> QED  BY <1>2, <1>5, <2>3, <3>1 DEF Parsers
    <2>4. CASE kind \notin {"Enumeration", "Dimension", "OtherXML"}
        <3>1. q = [p EXCEPT !.states = Front(@)]
            BY <2>4 DEF LeafClosed, Pop
        <3> QED  BY <1>2, <1>5, <2>4, <3>1 DEF Parsers
    <2> QED  BY <2>1, <2>2, <2>3, <2>4
<1>8. /\ Follows(W, q, g, v, t)
      /\ Left(U, p, g, v, t) = Left(W, q, g, v, t) \cup ElementLeft(U, p.enum.consts, p.xml, t)
    <2>1. U[Len(U)].kind \in Leafs
        OBVIOUS
    <2> QED  BY <1>7, <2>1, LeafEnds
<1>9. ElementLeft(U, p.enum.consts, p.xml, t) = LeafMade(p, kind)
    <2>1. CASE kind = "Enumeration"
        BY <1>4, <1>5, <1>6, <2>1 DEF ElementLeft, LeafMade
    <2>2. CASE kind = "Dimension"
        BY <1>4, <1>5, <1>6, <2>2 DEF ElementLeft, LeafMade
    <2>3. CASE kind = "OtherXML"
        BY <1>4, <1>5, <1>6, <2>3 DEF ElementLeft, LeafMade
    <2>4. CASE kind \notin {"Enumeration", "Dimension", "OtherXML"}
        BY <1>4, <2>4 DEF ElementLeft, LeafMade
    <2> QED  BY <2>1, <2>2, <2>3, <2>4
<1> QED  BY <1>8, <1>9

\* What the end tag of a printed element does.
LEMMA EndIs ==
    ASSUME NEW n, NEW kind \in Kinds \ {"Dataset", "Foreign"},
           State = StateOf(IF kind = "Xml" THEN "OtherXML" ELSE kind),
           EndTag(n, kind)
    PROVE  /\ kind = "Group" => EndGroup(kind)
           /\ kind = "Container" => EndContainer(kind)
           /\ kind = "Simple" => EndSimple(kind)
           /\ kind = "Structure" => EndConstructor(kind)
           /\ kind = "Enumeration" => EndEnumDef(kind)
           /\ kind = "Dimension" => EndDimDef(kind)
           /\ kind \in {"OtherXML", "Xml"} => EndOtherXML(kind)
           /\ kind = "Value" => EndValue(n, kind)
           /\ kind \in {"Attribute", "EnumConst", "Dim", "Map"} => EndPlain(kind, Tag(kind))
<1>1. CASE kind \in Variables
    BY <1>1 DEF EndTag, StateOf, Variables
<1>2. CASE kind \in {"Group", "Container"}
    BY <1>2 DEF EndTag, StateOf
<1>3. CASE kind \in {"Enumeration", "Dimension"}
    BY <1>3 DEF EndTag, StateOf
<1>4. CASE kind \in {"OtherXML", "Xml", "Value"}
    BY <1>4 DEF EndTag, StateOf
<1>5. CASE kind \in {"Attribute", "EnumConst", "Dim", "Map"}
    BY <1>5 DEF EndTag, StateOf, Tag, Attributes
<1>6. \/ kind \in Variables \/ kind \in {"Group", "Container"}
      \/ kind \in {"Enumeration", "Dimension"} \/ kind \in {"OtherXML", "Xml", "Value"}
      \/ kind \in {"Attribute", "EnumConst", "Dim", "Map"}
    BY DEF Kinds, Variables, Attributes
<1> QED  BY <1>1, <1>2, <1>3, <1>4, <1>5, <1>6 DEF Variables

\* What the end of a variable does that is no array yet.
LEMMA VariableCloses ==
    ASSUME NEW kind \in Variables, NEW in,
           kind = "Simple" => EndSimple(kind), kind = "Structure" => EndConstructor(kind),
           parser.groups # <<>>,
           Front(parser.variables) = <<>> => Last(parser.groups) = in,
           Front(parser.variables) # <<>> =>
              /\ Last(Front(parser.variables)).node = in
              /\ Last(Front(parser.variables)).proto = in
              /\ ~Last(Front(parser.variables)).array
    PROVE  /\ parser' = Pop(Closed)
           /\ made' = made \cup {Node(Last(parser.variables).node, in, "variable")}
<1> HIDE DEF Front, Last
<1>1. ~Nowhere
    BY DEF Nowhere
<1>2. CASE kind = "Simple"
    BY <1>1, <1>2 DEF EndSimple, AddMember
<1>3. CASE kind = "Structure"
    BY <1>1, <1>3 DEF EndConstructor, AddMember
<1> QED  BY <1>2, <1>3 DEF Variables

\* A printed element that is not the Dataset leaves the stacks, and what was
\* left of it is made.
LEMMA Finishes ==
    ASSUME NEW g, NEW v, NEW t, Follows(unclosed, parser, g, v, t),
           Told = made \cup Left(unclosed, parser, g, v, t), Said,
           Len(unclosed) >= 2, EndElement
    PROVE  During' /\ result' = result
<1> DEFINE U == unclosed
           W == unclosed'
           p == parser
           q == parser'
           e == U[Len(U)]
           kind == e.kind
           n == e.node
           in == U[Len(U) - 1].node
           L == Left(U, p, g, v, t)
           H(x, y, z) == Follows(W, q, x, y, z) /\ L \cup made = made' \cup Left(W, q, x, y, z)
<1>1. Follows(U, p, g, v, t) /\ Told = made \cup L
    OBVIOUS
<1>2. Nested(U) /\ p \in Parsers /\ Layered(U, g, v, t) /\ Stated(U, p.states, p.depth)
    BY <1>1 DEF Follows
<1>3. Last(U) = e /\ U # <<>> /\ Len(U) \in Nat
    BY <1>2 DEF Nested, Last
<1>4. W = Front(U) /\ written' = written /\ Told' = Told /\ count' = count
    BY DEF EndElement, Told, Valueless
<1>5. Shrinks(U, W)
    BY <1>2, <1>4, FrontShrinks
<1>21. Said'
    <2>1. Len(W) = Len(U) - 1 /\ \A k \in 1 .. Len(W) : W[k] = U[k]
        BY <1>5 DEF Shrinks
    <2>2. \A k \in 1 .. Len(W) : k \in 1 .. Len(U)
        BY <1>3, <2>1
    <2>3. \A k \in 2 .. Len(W) : k \in 2 .. Len(U) /\ k \in 1 .. Len(W) /\ k - 1 \in 1 .. Len(W)
        BY <1>3, <2>1
    <2> QED  BY <1>4, <2>1, <2>2, <2>3 DEF Said
<1>6. kind \in Kinds \ {"Dataset", "Foreign"}
    <2>1. Len(U) \in 2 .. Len(U)
        BY <1>3
    <2>2. Child(U[Len(U) - 1].kind, U[Len(U)].kind, U[Len(U) - 1].rank)
        BY <1>2, <2>1 DEF Nested
    <2> QED  BY <2>2, Parents
<1>7. ~NothingToPop(kind) => EndTag(n, kind) /\ result' = result
    BY <1>3 DEF EndElement
<1>8. U[Len(U)].kind = kind /\ U[Len(U)].node = n
    OBVIOUS
<1>9. /\ kind # "Xml" => Last(p.states) = StateOf(kind)
      /\ kind = "Xml" => Last(p.states) = StateOf("OtherXML")
    <2>1. StateOf("OtherXML") = "inside_other_xml_attribute"
        BY DEF StateOf
    <2> HIDE DEF kind, e
    <2> QED  BY <1>2, <1>8, <2>1, Uppermost
<1>10. State = StateOf(IF kind = "Xml" THEN "OtherXML" ELSE kind)
    BY <1>9 DEF State
<1>11. ASSUME NEW x, NEW y, NEW z, H(x, y, z)
       PROVE  During'
    <2>1. Told' = made' \cup Left(W, q, x, y, z)
        BY <1>1, <1>4, <1>11
    <2>2. Running(W, q, made', Told')
        BY <1>11, <2>1, IsRunning
    <2> QED  BY <1>21, <2>2 DEF During
<1>12. /\ parser.groups = p.groups /\ parser.variables = p.variables /\ parser.tables = p.tables
    OBVIOUS
<1> HIDE DEF U, W, p, q, e, kind, n, in, L, H
<1>13. p.groups # <<>>
    <2>1. Grouped(U, p.groups, g) /\ g \in Nat /\ g >= 1
        BY <1>1, <1>5, Ended DEF Follows
    <2> QED  BY <2>1 DEF Grouped
<1>14. ASSUME kind = "Group"
       PROVE  During' /\ result' = result
    <2> DEFINE s == Pop([p EXCEPT !.groups = Front(@)])
    <2>1. /\ Follows(W, s, g - 1, 0, t - 1) /\ Left(W, s, g - 1, 0, t - 1) = L
          /\ p.variables = <<>>
        BY <1>1, <1>5, <1>8, <1>14, GroupEnds DEF L
    <2>2. State = "inside_group"
        BY <1>10, <1>14 DEF StateOf
    <2>3. ~NothingToPop(kind)
        BY <1>12, <1>13, <2>2 DEF NothingToPop
    <2>4. EndGroup("Group")
        BY <1>6, <1>7, <1>10, <1>14, <2>3, EndIs
    <2>5. q = s /\ made' = made
        BY <1>13, <2>1, <2>4 DEF EndGroup, Mismatch, Tag, Attributes, p, q
    <2>6. H(g - 1, 0, t - 1)
        BY <2>1, <2>5 DEF H
    <2> QED  BY <1>7, <1>11, <2>3, <2>6
<1>15. ASSUME kind = "Container"
       PROVE  During' /\ result' = result
    <2> DEFINE s == Pop([p EXCEPT !.tables = Front(@)])
    <2>1. /\ Follows(W, s, g, v, t - 1) /\ Left(W, s, g, v, t - 1) = L
          /\ p.tables # <<>>
        BY <1>1, <1>5, <1>8, <1>15, ContainerEnds DEF L
    <2>2. State = "inside_attribute_container"
        BY <1>10, <1>15 DEF StateOf
    <2>3. ~NothingToPop(kind)
        BY <1>12, <2>1, <2>2 DEF NothingToPop
    <2>4. EndContainer("Container")
        BY <1>6, <1>7, <1>10, <1>15, <2>3, EndIs
    <2>5. q = s /\ made' = made
        BY <2>4 DEF EndContainer, Mismatch, Tag, Attributes, p, q
    <2>6. H(g, v, t - 1)
        BY <2>1, <2>5 DEF H
    <2> QED  BY <1>7, <1>11, <2>3, <2>6
<1>16. ASSUME kind \in Variables
       PROVE  During' /\ result' = result
    <2> DEFINE s == VariableClosed(p)
    <2>0. U[Len(U)].kind \in Variables
        BY <1>8, <1>16
    <2>1. /\ Follows(W, s, g, v - 1, t - 1)
          /\ L = Left(W, s, g, v - 1, t - 1) \cup {Node(n, in, "variable")}
          /\ p.tables # <<>>
        BY <1>1, <1>5, <1>8, <2>0, VariableEnds DEF L, in
    <2>2. Len(U) >= 2
        BY DEF U
    <2>3. /\ p.variables # <<>> /\ Last(p.variables).node = n
          /\ Front(p.variables) = <<>> => Last(p.groups) = in
          /\ Front(p.variables) # <<>> =>
                /\ Last(Front(p.variables)).node = in
                /\ Last(Front(p.variables)).proto = in
                /\ ~Last(Front(p.variables)).array
        BY <1>1, <1>8, <2>0, <2>2, ParentOfVariable DEF in
    <2>4. State \in {"inside_simple_type", "inside_constructor"}
        BY <1>10, <1>16 DEF StateOf, Variables
    <2>5. ~NothingToPop(kind)
        BY <1>12, <2>1, <2>3, <2>4 DEF NothingToPop
    <2>6. /\ kind = "Simple" => EndSimple(kind)
          /\ kind = "Structure" => EndConstructor(kind)
        BY <1>6, <1>7, <1>10, <2>5, EndIs
    <2>7. /\ parser' = Pop(Closed)
          /\ made' = made \cup {Node(Last(parser.variables).node, in, "variable")}
        BY <1>13, <1>16, <2>3, <2>6, VariableCloses DEF p
    <2>8. q = s /\ made' = made \cup {Node(n, in, "variable")}
        BY <2>3, <2>7 DEF Closed, VariableClosed, p, q
    <2>9. H(g, v - 1, t - 1)
        BY <2>1, <2>8 DEF H
    <2> QED  BY <1>7, <1>11, <2>5, <2>9
<1>17. ASSUME kind \in Leafs
       PROVE  During' /\ result' = result
    <2> DEFINE s == LeafClosed(p, kind)
    <2>1. Follows(W, s, g, v, t) /\ L = Left(W, s, g, v, t) \cup LeafMade(p, kind)
        BY <1>1, <1>5, <1>8, <1>17, LeafCloses DEF L
    <2>2. kind \notin WithTable
        BY <1>17 DEF Leafs, WithTable, Groups, Variables
    <2>3. t < Len(U)
        BY <1>2, <1>8, <2>2, LastPlace
    <2>4. p.tables # <<>>
        BY <1>1, <2>3, TableOfAttribute
    <2>5. State \notin {"inside_simple_type", "inside_constructor"}
        BY <1>10, <1>17 DEF StateOf, Leafs
    <2>6. ~NothingToPop(kind)
        BY <1>12, <1>13, <2>4, <2>5 DEF NothingToPop
    <2>7. /\ kind = "Enumeration" => EndEnumDef(kind)
          /\ kind = "Dimension" => EndDimDef(kind)
          /\ kind = "OtherXML" => EndOtherXML(kind)
          /\ kind \in {"Attribute", "Dim", "Map"} => EndPlain(kind, Tag(kind))
        BY <1>6, <1>7, <1>10, <2>6, EndIs
    <2>8. q = s /\ made' = made \cup LeafMade(p, kind)
        <3>1. CASE kind = "Enumeration"
            BY <2>7, <3>1 DEF EndEnumDef, Mismatch, Tag, Attributes, LeafClosed, LeafMade, p, q
        <3>2. CASE kind = "Dimension"
            BY <2>7, <3>2 DEF EndDimDef, Mismatch, Tag, Attributes, LeafClosed, LeafMade, p, q
        <3>3. CASE kind = "OtherXML"
            BY <2>7, <3>3 DEF EndOtherXML, Tag, Attributes, LeafClosed, LeafMade, p, q
        <3>4. CASE kind \in {"Attribute", "Dim", "Map"}
            BY <2>7, <3>4 DEF EndPlain, Mismatch, LeafClosed, LeafMade, p, q
        <3> QED  BY <1>17, <3>1, <3>2, <3>3, <3>4 DEF Leafs
    <2>9. H(g, v, t)
        BY <2>1, <2>8 DEF H
    <2> QED  BY <1>7, <1>11, <2>6, <2>9
<1>18. ASSUME kind \in Inners
       PROVE  During' /\ result' = result
    <2> DEFINE s == Pop(p)
    <2>0. U[Len(U)].kind \in {"Value", "EnumConst"}
        BY <1>8, <1>18 DEF Inners
    <2>1. /\ Follows(W, s, g, v, t)
          /\ kind = "Value" =>
                /\ L = Left(W, s, g, v, t)
                      \cup {Node(p.name, Last(p.tables), "attribute"), Node(n, p.name, "value")}
                /\ p.tables # <<>>
          /\ kind = "EnumConst" => L = Left(W, s, g, v, t)
        BY <1>1, <1>5, <1>8, <2>0, InnerEnds DEF L
    <2>2. /\ kind = "Value" => State = "inside_attribute_value"
          /\ kind = "EnumConst" => State = "inside_enum_const"
        BY <1>10 DEF StateOf
    <2>3. ~NothingToPop(kind)
        BY <1>12, <1>18, <2>1, <2>2 DEF NothingToPop, Inners
    <2>4. /\ kind = "Value" => EndValue(n, kind)
          /\ kind = "EnumConst" => EndPlain(kind, Tag(kind))
        BY <1>6, <1>7, <1>10, <2>3, EndIs
    <2>5. /\ q = s
          /\ kind = "Value" =>
                made' = made \cup {Node(p.name, Last(p.tables), "attribute"),
                                   Node(n, p.name, "value")}
          /\ kind = "EnumConst" => made' = made
        BY <1>18, <2>4 DEF EndValue, EndPlain, Mismatch, Tag, Attributes, Inners, p, q
    <2>6. H(g, v, t)
        BY <1>18, <2>1, <2>5 DEF H, Inners
    <2> QED  BY <1>7, <1>11, <2>3, <2>6
<1>19. ASSUME kind = "Xml"
       PROVE  During' /\ result' = result
    <2> DEFINE s == [p EXCEPT !.depth = @ - 1]
    <2>1. /\ Follows(W, s, g, v, t) /\ Left(W, s, g, v, t) = L /\ p.depth > 0
        BY <1>1, <1>5, <1>8, <1>19, XmlEnds DEF L
    <2>2. State = "inside_other_xml_attribute"
        BY <1>10, <1>19 DEF StateOf
    <2>3. t < Len(U)
        <3>1. kind \notin WithTable
            BY <1>19 DEF WithTable, Groups, Variables
        <3> QED  BY <1>2, <1>8, <3>1, LastPlace
    <2>4. p.tables # <<>>
        BY <1>1, <2>3, TableOfAttribute
    <2>5. ~NothingToPop(kind)
        BY <1>12, <2>2, <2>4 DEF NothingToPop
    <2>6. EndOtherXML("Xml")
        BY <1>6, <1>7, <1>10, <1>19, <2>5, EndIs
    <2>7. q = s /\ made' = made
        <3>1. p.depth # 0
            BY <1>2, <2>1 DEF Parsers
        <3> QED  BY <2>6, <3>1 DEF EndOtherXML, Tag, Attributes, p, q
    <2>8. H(g, v, t)
        BY <2>1, <2>7 DEF H
    <2> QED  BY <1>7, <1>11, <2>5, <2>8
<1>20. \/ kind = "Group" \/ kind = "Container" \/ kind \in Variables
       \/ kind \in Leafs \/ kind \in Inners \/ kind = "Xml"
    BY <1>6 DEF Kinds, Variables, Attributes, Leafs, Inners
<1> QED  BY <1>14, <1>15, <1>16, <1>17, <1>18, <1>19, <1>20

\* The Dataset ends.
LEMMA LastFinishes ==
    ASSUME NEW g, NEW v, NEW t, Follows(unclosed, parser, g, v, t),
           Told = made \cup Left(unclosed, parser, g, v, t),
           ~(Len(unclosed) >= 2), EndElement
    PROVE  After' /\ result' = result
<1> DEFINE U == unclosed
           p == parser
<1>1. /\ Nested(U) /\ p \in Parsers /\ Layered(U, g, v, t) /\ Stated(U, p.states, p.depth)
      /\ Grouped(U, p.groups, g) /\ Varied(U, p.variables, g, v)
    BY DEF Follows
<1>2. Len(U) = 1 /\ U[1].kind = "Dataset" /\ U[1].node = Root
    <2>1. /\ U \in Seq(Element) /\ Len(U) >= 1 /\ U[1].kind = "Dataset" /\ U[1].node = Root
          /\ ~(Len(U) >= 2)
        BY <1>1 DEF Nested
    <2>2. Len(U) \in Nat
        BY <2>1
    <2>3. Len(U) = 1
        <3>1. \A m \in Nat : m >= 1 /\ ~(m >= 2) => m = 1
            OBVIOUS
        <3> QED  BY <2>1, <2>2, <3>1
    <2> QED  BY <2>1, <2>3
<1>3. g = 1 /\ v = 0 /\ t = 1
    BY <1>1, <1>2, LastPlace DEF Groups
<1>4. p.depth = 0 /\ Len(p.states) = 2 /\ p.states[1] = "start" /\ p.states[2] = "inside_dataset"
    <2>1. StateOf("Dataset") = "inside_dataset"
        BY DEF StateOf
    <2> QED  BY <1>1, <1>2, <2>1 DEF Stated
<1>5. State = "inside_dataset"
    BY <1>4 DEF State, Last
<1>6. p.groups \in Seq(Nat) /\ Len(p.groups) = 1 /\ p.groups[1] = Root
    BY <1>1, <1>2, <1>3 DEF Grouped
<1>7. p.groups = <<Root>> /\ p.groups # <<>>
    BY <1>6
<1>8. p.variables = <<>>
    BY <1>1, <1>3 DEF Varied
<1>9. Last(U).kind = "Dataset"
    BY <1>2 DEF Last
<1>10. ~NothingToPop("Dataset")
    BY <1>5, <1>7 DEF NothingToPop
<1>11. EndTag(Last(U).node, "Dataset") /\ result' = result /\ unclosed' = Front(U)
       /\ Told' = Told
    BY <1>9, <1>10 DEF EndElement, Told, Valueless
<1>12. EndDataset("Dataset")
    BY <1>5, <1>11 DEF EndTag
<1>13. Front(p.states) = <<"start">>
    <2>1. p.states \in Seq(States)
        BY <1>1 DEF Parsers
    <2> DEFINE s == p.states
               r == Front(s)
    <2>2. s \in Seq(States) /\ Len(s) = 2 /\ Len(s) >= 1 /\ s[1] = "start"
        BY <1>4, <2>1
    <2> HIDE DEF s
    <2>3. /\ r \in Seq(States) /\ Len(r) = Len(s) - 1
          /\ \A k \in 1 .. Len(s) - 1 : r[k] = s[k]
        BY <2>2, FrontIs
    <2> HIDE DEF r
    <2>4. Len(r) = 1 /\ r[1] = "start"
        BY <2>2, <2>3
    <2>5. r = <<"start">>
        BY <2>3, <2>4
    <2> QED  BY <2>5 DEF r, s
<1>14. Front(<<"start">>) = <<>>
    BY DEF Front
<1>15. Pop(p).states = <<"start">> /\ Last(Pop(p).states) = "start"
    BY <1>1, <1>13 DEF Pop, Parsers, Last
<1>16. parser' = Push(Pop(Pop(p)), "end") /\ made' = made
    BY <1>12, <1>15 DEF EndDataset, Mismatch, Tag, Attributes
<1>17. /\ parser'.states = <<"end">> /\ parser'.variables = <<>> /\ parser'.groups = <<Root>>
    BY <1>1, <1>7, <1>8, <1>13, <1>14, <1>16 DEF Push, Pop, Parsers
<1>18. unclosed' = <<>>
    BY <1>2, <1>11 DEF Front
<1>19. Left(U, p, g, v, t) = {}
    BY <1>2, <1>3, NoVariablesLeft DEF Left, ElementLeft
<1>20. Told' = made'
    BY <1>11, <1>16, <1>19
<1> QED  BY <1>11, <1>17, <1>18, <1>20 DEF After

\* The document ends.
LEMMA DocumentEnds ==
    ASSUME After, EndDocument
    PROVE  After' /\ result' = "accepted"
<1>1. /\ parser.states = <<"end">> /\ parser.variables = <<>> /\ parser.groups = <<Root>>
      /\ unclosed = <<>> /\ Told = made
    BY DEF After
<1>2. State = "end"
    BY <1>1 DEF State, Last
<1>3. Last(parser.states) = "end"
    BY <1>1 DEF Last
<1>4. parser' = parser
    BY <1>1, <1>2 DEF EndDocument
<1>5. result' = "accepted"
    <2>1. result' = IF State = "end" /\ parser.groups = <<>> THEN "undefined"
                    ELSE IF Last(parser'.states) \in {"error", "fatal"} THEN "error"
                    ELSE "accepted"
        BY DEF EndDocument
    <2>2. parser.groups # <<>>
        BY <1>1
    <2> QED  BY <1>3, <1>4, <2>1, <2>2
<1>6. UNCHANGED <<unclosed, made, Told>>
    BY DEF EndDocument, Told, Valueless
<1> QED  BY <1>1, <1>4, <1>5, <1>6 DEF After

\* A printed document with elements to come, or with one that has begun.
LEMMA PrintedOrNot ==
    ASSUME PrintedInv, source = "printed", result = "none", ~Foreign
    PROVE  /\ count \in Nat
           /\ unclosed # <<>> => During /\ count > 0
           /\ unclosed = <<>> => /\ count = 0 => Before
                                 /\ count > 0 => After
<1>1. \/ count = 0 /\ Before
      \/ count > 0 /\ During
      \/ count > 0 /\ After
    BY DEF PrintedInv
<1>2. During => unclosed # <<>>
    BY DEF During, Running, Follows, Nested
<1>3. count \in Nat
    BY DEF PrintedInv
<1> QED  BY <1>1, <1>2, <1>3 DEF Before, After

\* An element of another namespace is in an OtherXML.
LEMMA ForeignSaid ==
    ASSUME source = "printed", During, NEW grade, StartElement("Foreign", grade)
    PROVE  Foreign'
<1> DEFINE U == unclosed
<1>1. PICK g, v, t \in 0 .. Len(U) : Follows(U, parser, g, v, t)
    BY DEF During, Running
<1>2. /\ Nested(U) /\ Layered(U, g, v, t) /\ Stated(U, parser.states, parser.depth)
      /\ U \in Seq(Element) /\ Len(U) >= 1 /\ U # <<>>
    BY <1>1 DEF Follows, Nested
<1>3. Rank(U[Len(U)].kind, "Foreign") # {}
    BY <1>2 DEF StartElement, Writes, Last
<1>4. U[Len(U)].kind \in {"OtherXML", "Xml", "Foreign"}
    BY <1>3, ForeignRank
<1>5. U[Len(U)].kind \in {"OtherXML", "Xml"}
    BY <1>2, <1>4, LastInside
<1>6. t < Len(U) /\ U[t + 1].kind = "OtherXML"
    BY <1>2, <1>5, Uppermost
<1>7. U[t + 1] \in {e \in ToSet(U) : e.kind = "OtherXML"}
    <2>1. t + 1 \in 1 .. Len(U) /\ DOMAIN U = 1 .. Len(U)
        BY <1>2, <1>6
    <2> QED  BY <1>6, <2>1 DEF ToSet
<1>8. Node(count', U[t + 1].node, "foreign") \in Says(count', "Foreign")
    BY <1>2, <1>7, SaysWhat
<1>9. Node(count', U[t + 1].node, "foreign") \in written'
    BY <1>8 DEF StartElement
<1> QED  BY <1>9 DEF Foreign, Node

\* While the parser reads a document that print_dap4() wrote, its four stacks are
\* those of the elements that have begun and not ended, each where its element
\* is, and what the document says is made, but for Attributes without a value and
\* for what the end tags of these elements make (D4ParserSax2.cc:649-1101).  The
\* parser may be strict or not, and elements of other namespaces end all that.
THEOREM PrintedInvariance == DMRSpec => []PrintedInv
<1>1. DMRInit => PrintedInv
    BY DEF DMRInit, PrintedInv, Before
<1>2. PrintedInv /\ [DMRNext]_dmrVars => PrintedInv'
    <2> SUFFICES ASSUME PrintedInv, [DMRNext]_dmrVars
                 PROVE  PrintedInv'
        OBVIOUS
    <2> HIDE DEF During, After
    <2>0. written \subseteq written' => (Foreign => Foreign')
        BY DEF Foreign
    <2>1. ASSUME NEW s \in {"printed", "any"}, Begin(s)
          PROVE  PrintedInv'
        <3>1. count = 0 /\ Before /\ result = "none" /\ source' = s
            BY <2>1 DEF Begin, PrintedInv
        <3>2. count' = 0 /\ Before' /\ result' = "none"
            BY <2>1, <3>1 DEF Begin, Before
        <3> QED  BY <3>1, <3>2 DEF PrintedInv
    <2>2. ASSUME NEW kind \in Kinds, NEW grade, StartElement(kind, grade)
          PROVE  PrintedInv'
        <3>1. /\ result = "none" /\ result' \in {"none", "undefined"} /\ source' = source
              /\ count' = count + 1 /\ Writes(kind, grade) /\ written \subseteq written'
            BY <2>2 DEF StartElement
        <3>2. source # "none" /\ count' \in Nat
            BY <3>1 DEF Writes, PrintedInv
        <3>3. CASE source = "printed" /\ ~Foreign'
            <4>0. /\ count \in Nat /\ ~Foreign
                  /\ unclosed # <<>> => During /\ count > 0
                  /\ unclosed = <<>> => (count = 0 => Before) /\ (count > 0 => After)
                BY <2>0, <3>1, <3>3, PrintedOrNot
            <4>1. CASE unclosed = <<>>
                <5>1. count = 0 /\ Before
                    BY <3>1, <3>3, <4>0, <4>1 DEF Writes
                <5>2. During' /\ result' = result /\ count' = 1
                    BY <2>2, <3>3, <5>1, FirstBegins
                <5> QED  BY <3>1, <3>2, <3>3, <5>2 DEF PrintedInv
            <4>2. CASE unclosed # <<>>
                <5>0. kind # "Foreign"
                    BY <2>2, <3>3, <4>0, <4>2, ForeignSaid
                <5>1. PICK g, v, t \in 0 .. Len(unclosed) :
                         /\ Follows(unclosed, parser, g, v, t) /\ Said
                         /\ Told = made \cup Left(unclosed, parser, g, v, t)
                    BY <4>0, <4>2 DEF During, Running
                <5>2. During' /\ result' = result /\ count' \in Nat /\ count' > 0
                    BY <2>2, <3>3, <4>0, <5>0, <5>1, Begins
                <5> QED  BY <3>1, <3>3, <5>2 DEF PrintedInv
            <4> QED  BY <4>1, <4>2
        <3>4. CASE source # "printed" \/ Foreign'
            BY <3>1, <3>2, <3>4 DEF PrintedInv
        <3> QED  BY <3>3, <3>4
    <2>3. ASSUME NEW kind, ThrowException(kind)
          PROVE  PrintedInv'
        <3>1. /\ UNCHANGED <<source, strict, unclosed, count, parser, made, written>>
              /\ result = "none" /\ result' = "exception" /\ source # "none"
              /\ source = "printed" => strict
              /\ source = "printed" /\ unclosed = <<>> => kind = "Dataset"
              /\ kind \in {"Dim", "Map"}
            BY <2>3 DEF ThrowException, Writes, Throws
        <3>2. UNCHANGED <<Foreign, Told, Said>>
            BY <3>1 DEF Foreign, Told, Valueless, Said
        <3>3. During => During'
            BY <3>1, <3>2 DEF During
        <3>4. CASE source = "printed" /\ ~Foreign
            <4>1. During /\ count > 0 /\ count \in Nat
                BY <3>1, <3>4, PrintedOrNot
            <4> QED  BY <3>1, <3>3, <3>4, <4>1 DEF PrintedInv
        <3>5. CASE source # "printed" \/ Foreign
            BY <3>1, <3>2, <3>5 DEF PrintedInv
        <3> QED  BY <3>4, <3>5
    <2>4. CASE EndElement
        <3>1. /\ result = "none" /\ result' \in {"none", "undefined"} /\ source' = source
              /\ count' = count /\ unclosed # <<>> /\ Foreign' = Foreign
            BY <2>4 DEF EndElement, Foreign
        <3>2. CASE source = "printed" /\ ~Foreign
            <4>1. During /\ count > 0 /\ count \in Nat
                BY <3>1, <3>2, PrintedOrNot
            <4>2. PICK g, v, t \in 0 .. Len(unclosed) :
                     /\ Follows(unclosed, parser, g, v, t) /\ Said
                     /\ Told = made \cup Left(unclosed, parser, g, v, t)
                BY <4>1 DEF During, Running
            <4>3. (During' \/ After') /\ result' = result
                <5>1. CASE Len(unclosed) >= 2
                    BY <2>4, <4>2, <5>1, Finishes
                <5>2. CASE ~(Len(unclosed) >= 2)
                    BY <2>4, <4>2, <5>2, LastFinishes
                <5> QED  BY <5>1, <5>2
            <4> QED  BY <3>1, <3>2, <4>1, <4>3 DEF PrintedInv
        <3>3. CASE source # "printed" \/ Foreign
            <4>1. source # "none"
                BY <3>1 DEF PrintedInv, Before
            <4> QED  BY <3>1, <3>3, <4>1 DEF PrintedInv
        <3> QED  BY <3>2, <3>3
    <2>5. CASE EndDocument
        <3>1. /\ result = "none" /\ source' = source /\ count' = count /\ unclosed = <<>> /\ count > 0
              /\ result' # "exception" /\ Foreign' = Foreign
            BY <2>5 DEF EndDocument, Foreign
        <3>2. CASE source = "printed" /\ ~Foreign
            <4>1. After /\ count \in Nat
                BY <3>1, <3>2, PrintedOrNot
            <4>2. After' /\ result' = "accepted"
                BY <2>5, <4>1, DocumentEnds
            <4> QED  BY <3>1, <3>2, <4>1, <4>2 DEF PrintedInv
        <3>3. CASE source # "printed" \/ Foreign
            <4>1. source # "none" /\ count \in Nat
                BY <3>1 DEF PrintedInv
            <4> QED  BY <3>1, <3>3, <4>1 DEF PrintedInv
        <3> QED  BY <3>2, <3>3
    <2>6. CASE UNCHANGED dmrVars
        BY <2>6 DEF dmrVars, PrintedInv, Before, During, After, Foreign, Told, Valueless, Said
    <2> QED  BY <2>1, <2>2, <2>3, <2>4, <2>5, <2>6 DEF DMRNext
<1> QED  BY <1>1, <1>2, PTL DEF DMRSpec

\* Whatever its size, a document that print_dap4() wrote is read back: it is refused
\* only in strict mode, for a Map whose data are not found (D4ParserSax2.cc:335-342);
\* and where its OtherXML has no elements of other namespaces, no stack is misused
\* and, once intern() has accepted it, each group, variable, attribute, value,
\* dimension, map and enumeration is in the DMR where its element is, but for
\* attributes without a value (D4ParserSax2.cc:649-1101).
THEOREM PrintedReadBack == DMRSpec => []ReadBack
<1>1. PrintedInv => ReadBack
    <2> SUFFICES ASSUME PrintedInv, source = "printed", ~Foreign
                 PROVE  /\ result \notin {"error", "undefined"}
                        /\ result = "accepted" => made = written \ Valueless
        BY DEF ReadBack, PrintedInv
    <2>1. result \in {"none", "accepted", "exception"}
        BY DEF PrintedInv
    <2>2. result = "accepted" => After
        BY DEF PrintedInv
    <2> QED  BY <2>1, <2>2 DEF After, Told
<1> QED  BY <1>1, PrintedInvariance, PTL

-----------------------------------------------------------------------------
(* The data: the client is in step.                                        *)

\* Rows whose children are rows again, down to those that have none.
AreRows(U) == <<>> \in U /\ U \subseteq Seq([val : Nat, child : U])

ServerTyped ==
    /\ todo \in {"choose", "intern", "send", "done"}
    /\ vars4 \in Seq(Depths) /\ var \in Nat \ {0}
    /\ level \in Depths /\ counter \in [Nesting -> Nat]
    /\ sends \in {"begin", "count", "value", "checksum"}
    /\ sendLevel \in Depths /\ toSend \in [Nesting -> Nat] /\ digest \in Seq(Nat)

ClientTyped ==
    /\ wants \in {"begin", "count", "value", "checksum"}
    /\ getLevel \in Depths
    /\ toCome \in [Nesting -> Nat] /\ length \in [Nesting -> Nat] /\ cell \in [Nesting -> Nat]
    /\ \E S : received \in [Depths -> Seq(S)] /\ got \in Seq(S)

RowsTyped ==
    \E U : /\ AreRows(U)
           /\ values \in [Nesting -> U] /\ truth \in [Nesting -> U]
           /\ loaded \in Seq([values : U, truth : U])
           /\ rowsAt \in [Nesting -> U]

\* A variable is read before it is sent, one after the other.
Ordered ==
    /\ todo = "choose" => loaded = <<>> /\ vars4 = <<>> /\ var = 1
    /\ todo \in {"intern", "send"} => var <= Len(vars4) /\ var - 1 <= Len(loaded)
    /\ Len(loaded) <= Len(vars4)
    /\ level > 0 => Reads /\ level <= Depth
    /\ sends # "begin" => todo = "send" /\ var <= Len(loaded)
    /\ Len(got) = IF todo = "done" THEN Len(vars4) ELSE IF todo = "send" THEN var - 1 ELSE 0

Scalars == \A v \in 1 .. Len(loaded) : vars4[v] = 0 => loaded[v].values = Scalar

\* The client is where the server is, or has left Sequences that the server
\* has sent all rows of.
AtBegin == sends = "begin" => sendLevel = 0 /\ wants = "begin" /\ getLevel = 0
AtCount ==
    sends = "count" =>
        /\ wants = "count" /\ getLevel = sendLevel
        /\ sendLevel > 0 /\ sendLevel < Depth
        /\ \A l \in 1 .. sendLevel : toCome[l] = toSend[l]
AtValue ==
    sends = "value" =>
        /\ sendLevel > 0 /\ sendLevel <= Depth
        /\ getLevel <= sendLevel
        /\ wants = (IF getLevel = 0 THEN "checksum" ELSE "value")
        /\ \A l \in 1 .. getLevel : toCome[l] = toSend[l]
        /\ \A l \in getLevel + 1 .. sendLevel : toSend[l] = 0
AtChecksum == sends = "checksum" => sendLevel = 0 /\ wants = "checksum" /\ getLevel = 0
\* No more rows are left of a Sequence than it has.
RowsLeft ==
    /\ sends \in {"count", "value"} => \A l \in 1 .. sendLevel : toSend[l] <= Len(rowsAt[l])
    /\ sends = "count" => toSend[sendLevel] < Len(rowsAt[sendLevel])

StepInv ==
    /\ ServerTyped /\ ClientTyped /\ RowsTyped
    /\ Ordered /\ Scalars
    /\ AtBegin /\ AtCount /\ AtValue /\ AtChecksum /\ RowsLeft

-----------------------------------------------------------------------------
LEMMA NestingBound == MaxNesting \in Nat /\ Depths \subseteq Nat /\ Nesting \subseteq Nat
BY ResponseAssumption DEF Depths, Nesting

\* One more sequence of rows of those that there are.
LEMMA MoreRows ==
    ASSUME NEW U, AreRows(U), NEW s \in U, NEW c \in U, NEW n \in Nat
    PROVE  LET V == U \cup {Append(s, Row(n, c))} IN AreRows(V) /\ U \subseteq V
<1> DEFINE V == U \cup {Append(s, Row(n, c))}
<1>1. Row(n, c) \in [val : Nat, child : U]
    BY DEF Row
<1>2. Append(s, Row(n, c)) \in Seq([val : Nat, child : U])
    BY <1>1, AppendProperties DEF AreRows
<1>3. [val : Nat, child : U] \subseteq [val : Nat, child : V]
    OBVIOUS
<1>4. Seq([val : Nat, child : U]) \subseteq Seq([val : Nat, child : V])
    BY <1>3, SeqMonotonic
<1>5. V \subseteq Seq([val : Nat, child : V])
    BY <1>2, <1>4 DEF AreRows
<1> QED  BY <1>5 DEF AreRows

\* A row of rows is a value and rows.
LEMMA RowOf ==
    ASSUME NEW U, AreRows(U), NEW s \in U, NEW k \in 1 .. Len(s)
    PROVE  /\ s[k] \in [val : Nat, child : U] /\ s[k] = Row(s[k].val, s[k].child)
           /\ s[k].val \in Nat /\ s[k].child \in U
<1>1. s \in Seq([val : Nat, child : U])
    BY DEF AreRows
<1>2. s[k] \in [val : Nat, child : U]
    BY <1>1, ElementOfSeq
<1> QED  BY <1>2 DEF Row

LEMMA RowsLen ==
    ASSUME NEW U, AreRows(U), NEW s \in U
    PROVE  Len(s) \in Nat
BY DEF AreRows

LEMMA NestingIs == \A l : l \in Depths /\ l > 0 => l \in Nesting
BY ResponseAssumption DEF Depths, Nesting

LEMMA FirstInStep == D4Init => StepInv /\ level = 0
<1> SUFFICES ASSUME D4Init PROVE StepInv /\ level = 0
    OBVIOUS
<1> USE DEF D4Init
<1>1. ServerTyped
    BY NestingBound DEF ServerTyped, Depths
<1>2. ClientTyped
  <2>1. received \in [Depths -> Seq({})] /\ got \in Seq({})
      BY DEF Nothing
  <2> QED  BY <2>1, NestingBound DEF ClientTyped, Depths
<1>3. RowsTyped
  <2>1. AreRows({<<>>})
      BY DEF AreRows
  <2>2. Empty \in [Nesting -> {<<>>}]
      BY DEF Empty
  <2>3. loaded \in Seq([values : {<<>>}, truth : {<<>>}])
      OBVIOUS
  <2> QED  BY <2>1, <2>2, <2>3 DEF RowsTyped
<1>4. Ordered /\ Scalars
    BY DEF Ordered, Scalars
<1>5. AtBegin /\ AtCount /\ AtValue /\ AtChecksum /\ RowsLeft
    BY DEF AtBegin, AtCount, AtValue, AtChecksum, RowsLeft
<1> QED  BY <1>1, <1>2, <1>3, <1>4, <1>5 DEF StepInv

-----------------------------------------------------------------------------
\* A row is added to the rows of one Sequence, in what was read and in what
\* should be read.
LEMMA RowsGrow ==
    ASSUME RowsTyped, NEW l \in Nesting, NEW n \in Nat, NEW c, NEW d,
           \/ c = <<>> /\ d = <<>>
           \/ \E m \in Nesting : c = values[m] /\ d = truth[m],
           values' = [values EXCEPT ![l] = Append(@, Row(n, c))],
           truth' = [truth EXCEPT ![l] = Append(@, Row(n, d))],
           loaded' = loaded, rowsAt' = rowsAt
    PROVE  RowsTyped'
<1>1. PICK U : /\ AreRows(U)
               /\ values \in [Nesting -> U] /\ truth \in [Nesting -> U]
               /\ loaded \in Seq([values : U, truth : U])
               /\ rowsAt \in [Nesting -> U]
    BY DEF RowsTyped
<1>2. c \in U /\ d \in U
    BY <1>1 DEF AreRows
<1>3. values[l] \in U /\ truth[l] \in U
    BY <1>1
<1> DEFINE s == Append(values[l], Row(n, c))
           t == Append(truth[l], Row(n, d))
           V == U \cup {s}
           W == V \cup {t}
<1>4. AreRows(V) /\ U \subseteq V
    BY <1>1, <1>2, <1>3, MoreRows
<1>5. truth[l] \in V /\ d \in V
    BY <1>2, <1>3
<1>6. AreRows(W) /\ V \subseteq W
  <2> HIDE DEF V
  <2> QED  BY <1>4, <1>5, MoreRows
<1>7. s \in W /\ t \in W /\ U \subseteq W
    OBVIOUS
<1> HIDE DEF s, t, V, W
<1>8. values' = [values EXCEPT ![l] = s] /\ truth' = [truth EXCEPT ![l] = t]
    BY DEF s, t
<1>9. values' \in [Nesting -> W] /\ truth' \in [Nesting -> W] /\ rowsAt' \in [Nesting -> W]
    BY <1>1, <1>7, <1>8
<1>10. [values : U, truth : U] \subseteq [values : W, truth : W]
    BY <1>7
<1>11. loaded' \in Seq([values : W, truth : W])
    BY <1>1, <1>10, SeqMonotonic
<1> QED  BY <1>6, <1>9, <1>11 DEF RowsTyped

\* No child is read, and nothing is sent, while a Sequence reads.
LEMMA WhileReading ==
    ASSUME StepInv, Reads
    PROVE  /\ sends = "begin" /\ Len(loaded) = var - 1 /\ var \in 1 .. Len(vars4)
           /\ Depth \in Depths
<1> USE DEF StepInv, Ordered, Reads, ServerTyped
<1>0. Len(loaded) \in Nat
    BY LenProperties DEF RowsTyped
<1>1. sends = "begin" /\ Len(loaded) = var - 1
    BY <1>0
<1>2. var \in 1 .. Len(vars4)
    BY <1>0
<1>3. Depth \in Depths
    BY <1>2, ElementOfSeq DEF Depth
<1> QED  BY <1>1, <1>2, <1>3

\* What the places of the server and the client are does not depend on what
\* has been read.
LEMMA StepsUnchanged ==
    ASSUME StepInv, UNCHANGED <<sending, receiving>>, sends = "begin",
           ServerTyped', RowsTyped', Ordered', Scalars'
    PROVE  StepInv'
<1> USE DEF sending, receiving, StepInv
<1>1. ClientTyped'
    BY DEF ClientTyped
<1>2. AtBegin' /\ AtCount' /\ AtValue' /\ AtChecksum' /\ RowsLeft'
    BY DEF AtBegin, AtCount, AtValue, AtChecksum, RowsLeft
<1> QED  BY <1>1, <1>2

LEMMA RequestStep ==
    ASSUME StepInv, NEW n \in 1 .. MaxVars, NEW depths \in [1 .. n -> 0 .. MaxNesting],
           NEW first \in {"intern", "send"}, Request(depths, first)
    PROVE  StepInv'
<1> USE DEF Request, StepInv, reading, sending, receiving
<1>1. n \in Nat \ {0} /\ depths \in Seq(Depths) /\ Len(depths) = n
  <2>1. n \in Nat \ {0} /\ DOMAIN depths = 1 .. n
      BY ResponseAssumption
  <2>2. depths \in Seq(Depths)
      BY <2>1, SeqDef DEF Depths
  <2> QED  BY <2>1, <2>2, LenProperties
<1>2. ServerTyped'
    BY <1>1 DEF ServerTyped
<1>3. RowsTyped'
    BY DEF RowsTyped
<1>4. loaded' = <<>> /\ var' = 1 /\ todo = "choose" /\ todo' \in {"intern", "send"}
    BY DEF Ordered
<1>5. level = 0 /\ sends = "begin" /\ Len(got) = 0
    BY DEF Ordered, Reads, ServerTyped, Depths
<1>6. Ordered' /\ Scalars'
    BY <1>1, <1>4, <1>5 DEF Ordered, Scalars
<1> QED  BY <1>2, <1>3, <1>5, <1>6, StepsUnchanged

\* One more variable has been read.
LEMMA OneMoreLoaded ==
    ASSUME StepInv, Reads, NEW x, loaded' = Append(loaded, x), UNCHANGED <<todo, vars4, var>>,
           level' = 0, UNCHANGED <<sends, got>>,
           vars4[var] = 0 => x.values = Scalar
    PROVE  Ordered' /\ Scalars'
<1> USE DEF StepInv
<1>1. sends = "begin" /\ Len(loaded) = var - 1 /\ var \in 1 .. Len(vars4)
    BY WhileReading
<1>2. PICK U : loaded \in Seq([values : U, truth : U])
    BY DEF RowsTyped
<1>3. /\ Len(loaded') = var
      /\ \A v \in 1 .. var : loaded'[v] = IF v < var THEN loaded[v] ELSE x
  <2> DEFINE T == [values : U, truth : U] \cup {x}
  <2>1. loaded \in Seq(T) /\ x \in T
      BY <1>2, SeqMonotonic
  <2> HIDE DEF T
  <2>2. Len(loaded') = Len(loaded) + 1
      BY <2>1, AppendProperties
  <2>3. \A v \in 1 .. Len(loaded) : loaded'[v] = loaded[v]
      BY <2>1, AppendProperties
  <2>4. loaded'[Len(loaded) + 1] = x
      BY <2>1, AppendProperties
  <2> QED  BY <1>1, <2>2, <2>3, <2>4
<1>4. todo \in {"intern", "send"}
    BY DEF Reads
<1>5. Ordered'
    BY <1>1, <1>3, <1>4 DEF Ordered, ServerTyped
<1>6. Scalars'
    BY <1>1, <1>3 DEF Scalars
<1> QED  BY <1>5, <1>6

LEMMA ReadScalarStep ==
    ASSUME StepInv, ReadScalar
    PROVE  StepInv'
<1> USE DEF ReadScalar, StepInv, sending, receiving
<1>1. sends = "begin" /\ level = 0
    BY WhileReading DEF Ordered, ServerTyped, Depths
<1>2. ServerTyped'
    BY DEF ServerTyped
<1>3. RowsTyped'
  <2>1. PICK U : /\ AreRows(U)
                 /\ values \in [Nesting -> U] /\ truth \in [Nesting -> U]
                 /\ loaded \in Seq([values : U, truth : U])
                 /\ rowsAt \in [Nesting -> U]
      BY DEF RowsTyped
  <2> DEFINE V == U \cup {Scalar}
  <2>2. Scalar = Append(<<>>, Row(1, <<>>))
      BY DEF Scalar
  <2>3. AreRows(V) /\ U \subseteq V
    <3>1. <<>> \in U
        BY <2>1 DEF AreRows
    <3> QED  BY <2>1, <2>2, <3>1, MoreRows
  <2>4. Scalar \in V
      OBVIOUS
  <2> HIDE DEF V
  <2>5. [values |-> Scalar, truth |-> Scalar] \in [values : V, truth : V]
      BY <2>4
  <2>6. loaded \in Seq([values : V, truth : V])
    <3>1. [values : U, truth : U] \subseteq [values : V, truth : V]
        BY <2>3
    <3> QED  BY <2>1, <3>1, SeqMonotonic
  <2>7. loaded' \in Seq([values : V, truth : V])
      BY <2>5, <2>6, AppendProperties
  <2>8. values' \in [Nesting -> V] /\ truth' \in [Nesting -> V] /\ rowsAt' \in [Nesting -> V]
      BY <2>1, <2>3
  <2> QED  BY <2>3, <2>7, <2>8 DEF RowsTyped
<1>4. Ordered' /\ Scalars'
    BY <1>1, OneMoreLoaded
<1> QED  BY <1>1, <1>2, <1>3, <1>4, StepsUnchanged

LEMMA ReadOutermostStep ==
    ASSUME StepInv, ReadOutermost
    PROVE  StepInv'
<1> USE DEF ReadOutermost, StepInv, sending, receiving
<1>1. sends = "begin" /\ Depth \in Depths
    BY WhileReading
<1>2. ServerTyped'
    BY <1>1, NestingBound DEF ServerTyped, Depths
<1>3. RowsTyped'
  <2>1. PICK U : /\ AreRows(U)
                 /\ loaded \in Seq([values : U, truth : U])
                 /\ rowsAt \in [Nesting -> U]
      BY DEF RowsTyped
  <2>2. values' \in [Nesting -> U] /\ truth' \in [Nesting -> U]
      BY <2>1 DEF AreRows, Empty
  <2> QED  BY <2>1, <2>2 DEF RowsTyped
<1>4. Ordered'
    BY <1>1 DEF Ordered, Reads, Depth, Depths
<1>5. Scalars'
    BY DEF Scalars
<1> QED  BY <1>1, <1>2, <1>3, <1>4, <1>5, StepsUnchanged

LEMMA ReadNextInstanceStep ==
    ASSUME StepInv, NEW passes \in BOOLEAN, ReadNextInstance(passes)
    PROVE  StepInv'
<1> USE DEF ReadNextInstance, StepInv, sending, receiving
<1>1. sends = "begin" /\ Depth \in Depths
    BY WhileReading
<1>2. level \in Nesting /\ level <= Depth /\ level \in Depths
    BY NestingIs DEF Ordered, ServerTyped
<1>3. counter \in [Nesting -> Nat] /\ counter' \in [Nesting -> Nat]
    BY <1>2, NestingBound DEF ServerTyped
<1>4. level' \in Depths /\ (level' > 0 => level' <= Depth)
    BY <1>1, <1>2, NestingBound DEF Depths
<1>5. ServerTyped'
    BY <1>3, <1>4 DEF ServerTyped
<1>6. RowsTyped'
  <2>1. CASE ~passes
      BY <2>1 DEF RowsTyped
  <2>2. CASE passes /\ level < Depth
    <3>1. PICK U : /\ AreRows(U)
                   /\ values \in [Nesting -> U] /\ truth \in [Nesting -> U]
                   /\ loaded \in Seq([values : U, truth : U])
                   /\ rowsAt \in [Nesting -> U]
        BY DEF RowsTyped
    <3>2. truth' \in [Nesting -> U]
        BY <2>2, <3>1 DEF AreRows
    <3> QED  BY <2>2, <3>1, <3>2 DEF RowsTyped
  <2>3. CASE passes /\ ~(level < Depth)
    <3> DEFINE n == counter'[level]
    <3>1. n \in Nat
        BY <1>2, <1>3
    <3>2. /\ values' = [values EXCEPT ![level] = Append(@, Row(n, <<>>))]
          /\ truth' = [truth EXCEPT ![level] = Append(@, Row(n, <<>>))]
        BY <2>3
    <3> HIDE DEF n
    <3> QED  BY <1>2, <3>1, <3>2, RowsGrow
  <2> QED  BY <2>1, <2>2, <2>3
<1>7. Ordered'
    BY <1>1, <1>4 DEF Ordered, Reads, Depth
<1>8. Scalars'
    BY DEF Scalars
<1> QED  BY <1>1, <1>5, <1>6, <1>7, <1>8, StepsUnchanged

LEMMA EndOfInstanceStep ==
    ASSUME StepInv, EndOfInstance
    PROVE  StepInv'
<1> USE DEF EndOfInstance, StepInv, sending, receiving
<1>1. sends = "begin" /\ Depth \in Depths
    BY WhileReading
<1>2. level \in Nesting /\ level <= Depth /\ level \in Nat
    BY NestingIs, NestingBound DEF Ordered, ServerTyped
<1>3. level - 1 \in Depths
    BY <1>2, NestingBound DEF Nesting, Depths
<1>4. ServerTyped'
    BY <1>3 DEF ServerTyped
<1>5. CASE level > 1
  <2>1. level - 1 \in Nesting
      BY <1>2, <1>5, NestingBound DEF Nesting
  <2>2. counter[level - 1] \in Nat
      BY <2>1 DEF ServerTyped
  <2>3. RowsTyped'
    <3> DEFINE p == level - 1
               n == counter[p]
               c == values[level]
               d == truth[level]
    <3>1. p \in Nesting /\ n \in Nat
        BY <2>1, <2>2
    <3>2. /\ values' = [values EXCEPT ![p] = Append(@, Row(n, c))]
          /\ truth' = [truth EXCEPT ![p] = Append(@, Row(n, d))]
        BY <1>5
    <3>3. \E m \in Nesting : c = values[m] /\ d = truth[m]
        BY <1>2
    <3> HIDE DEF p, n, c, d
    <3>4. loaded' = loaded /\ rowsAt' = rowsAt
        BY <1>5
    <3> QED  BY <3>1, <3>2, <3>3, <3>4, RowsGrow
  <2>4. Ordered'
      BY <1>1, <1>2, <1>5 DEF Ordered, Reads, Depth, Depths
  <2>5. Scalars'
      BY <1>5 DEF Scalars
  <2> QED  BY <1>1, <1>4, <2>3, <2>4, <2>5, StepsUnchanged
<1>6. CASE level = 1
  <2>1. 1 \in Nesting /\ level' = 0
      BY <1>2, <1>6
  <2>2. PICK U : /\ AreRows(U)
                 /\ values \in [Nesting -> U] /\ truth \in [Nesting -> U]
                 /\ loaded \in Seq([values : U, truth : U])
                 /\ rowsAt \in [Nesting -> U]
      BY DEF RowsTyped
  <2>3. [values |-> values[1], truth |-> truth[1]] \in [values : U, truth : U]
      BY <2>1, <2>2
  <2>4. loaded' \in Seq([values : U, truth : U])
    <3> DEFINE x == [values |-> values[1], truth |-> truth[1]]
    <3>1. loaded' = Append(loaded, x)
        BY <1>6
    <3>2. x \in [values : U, truth : U]
        BY <2>3
    <3> HIDE DEF x
    <3> QED  BY <2>2, <3>1, <3>2, AppendProperties
  <2>5. RowsTyped'
    <3>1. values' = values /\ truth' = truth /\ rowsAt' = rowsAt
        BY <1>6
    <3> QED  BY <2>2, <2>4, <3>1 DEF RowsTyped
  <2>6. Depth # 0
      BY <1>1, <1>2, <1>6 DEF Depths
  <2>7. Ordered' /\ Scalars'
      BY <1>6, <2>1, <2>6, OneMoreLoaded DEF Depth
  <2> QED  BY <1>1, <1>4, <2>5, <2>7, StepsUnchanged
<1> QED  BY <1>2, <1>5, <1>6

LEMMA NextVariableIs ==
    ASSUME StepInv, todo \in {"intern", "send"}, NextVariable, Len(loaded) >= var, level = 0,
           UNCHANGED <<vars4, loaded, level>>, sends' = "begin",
           Len(got') = IF todo = "send" THEN var ELSE 0
    PROVE  Ordered' /\ var' \in Nat \ {0} /\ todo' \in {"send", "intern", "done"}
<1> USE DEF StepInv, NextVariable
<1>1. var \in Nat \ {0} /\ Len(vars4) \in Nat /\ Len(loaded) \in Nat
    BY LenProperties DEF ServerTyped, RowsTyped
<1>2. var <= Len(vars4)
    BY DEF Ordered
<1>3. var' \in Nat \ {0} /\ todo' \in {"send", "intern", "done"}
    BY <1>1
<1>4. Ordered'
    BY <1>1, <1>2 DEF Ordered
<1> QED  BY <1>3, <1>4

LEMMA InternedStep ==
    ASSUME StepInv, Interned
    PROVE  StepInv'
<1> USE DEF Interned, StepInv, sending, receiving, reading
<1>1. sends = "begin" /\ level = 0
    BY DEF Ordered, Reads, ServerTyped, Depths
<1>2. Len(got) = 0 /\ Len(loaded) >= var
    BY DEF Ordered, ServerTyped
<1>3. Ordered' /\ var' \in Nat \ {0} /\ todo' \in {"send", "intern", "done"}
    BY <1>1, <1>2, NextVariableIs
<1>4. ServerTyped'
    BY <1>3 DEF ServerTyped
<1>5. RowsTyped' /\ Scalars'
    BY DEF RowsTyped, Scalars
<1> QED  BY <1>1, <1>3, <1>4, <1>5, StepsUnchanged

\* What is sent has been read, and is what the client looks for.
LEMMA WhileSending ==
    ASSUME StepInv, NEW item, Sends(item)
    PROVE  /\ todo = "send" /\ sends = item
           /\ var \in 1 .. Len(vars4) /\ var \in 1 .. Len(loaded)
           /\ Depth \in Depths /\ Depth \in Nat /\ level = 0
           /\ Len(got) = var - 1 /\ Incoming = Depth
           /\ Len(got) < Len(vars4)
<1> USE DEF StepInv, Sends
<1>1. var \in Nat \ {0} /\ Len(vars4) \in Nat /\ Len(loaded) \in Nat
    BY LenProperties DEF ServerTyped, RowsTyped
<1>2. var \in 1 .. Len(vars4) /\ var \in 1 .. Len(loaded)
    BY <1>1 DEF Ordered
<1>3. Depth \in Depths
    BY <1>2, ElementOfSeq DEF Depth, ServerTyped
<1>4. level = 0
    BY <1>1 DEF Ordered, Reads, ServerTyped, Depths
<1>5. Len(got) = var - 1 /\ Len(got) < Len(vars4)
    BY <1>2, <1>1 DEF Ordered
<1>6. Incoming = Depth
    BY <1>1, <1>5 DEF Incoming, Depth
<1> QED  BY <1>2, <1>3, <1>4, <1>5, <1>6, NestingBound

\* The rows and the order stay when nothing but the place in a variable changes.
LEMMA SameVariable ==
    ASSUME StepInv, UNCHANGED <<vars4, reading, todo, var, got>>, todo = "send",
           var \in 1 .. Len(loaded)
    PROVE  Ordered' /\ Scalars'
<1> USE DEF StepInv, reading
<1>1. Ordered'
    BY DEF Ordered, Reads, Depth
<1>2. Scalars'
    BY DEF Scalars
<1> QED  BY <1>1, <1>2

LEMMA SendScalarStep ==
    ASSUME StepInv, SendScalar
    PROVE  /\ StepInv'
           /\ received' = [received EXCEPT ![0] = Append(@, Row(1, <<>>))] /\ digest' = <<1>>
           /\ sends' = "checksum" /\ UNCHANGED got
<1> USE DEF StepInv, SendScalar
<1>1. /\ todo = "send" /\ var \in 1 .. Len(vars4) /\ var \in 1 .. Len(loaded)
      /\ Depth \in Depths /\ level = 0 /\ Incoming = Depth /\ Len(got) < Len(vars4)
      /\ sends = "begin"
    BY WhileSending
<1>2. loaded[var].values[1].val = 1
    BY <1>1 DEF Scalars, Scalar, Row, Depth
<1>3. sendLevel = 0 /\ wants = "begin" /\ getLevel = 0
    BY <1>1 DEF AtBegin
<1>4. Asks = "value"
    BY <1>1, <1>3 DEF Asks
<1>5. GetValue(1)
    BY <1>2, <1>4 DEF Put
<1>6. /\ wants' = "checksum" /\ getLevel' = 0 /\ UNCHANGED <<toCome, cell, length, got>>
      /\ received' = [received EXCEPT ![0] = Append(@, Row(1, <<>>))]
    BY <1>1, <1>3, <1>5 DEF GetValue
<1>7. digest' = <<1>>
    BY <1>2
<1>8. ServerTyped'
    BY <1>7 DEF ServerTyped, Sends, reading
<1>9. ClientTyped'
  <2>1. PICK S : received \in [Depths -> Seq(S)] /\ got \in Seq(S)
      BY DEF ClientTyped
  <2> DEFINE r == Row(1, <<>>)
             T == S \cup {r}
  <2>2. S \subseteq T /\ r \in T
      OBVIOUS
  <2>3. 0 \in Depths
      BY NestingBound DEF Depths
  <2>4. received' = [received EXCEPT ![0] = Append(@, r)]
      BY <1>6
  <2> HIDE DEF r, T
  <2>5. received \in [Depths -> Seq(T)]
      BY <2>1, <2>2, SeqMonotonic
  <2>6. Append(received[0], r) \in Seq(T)
      BY <2>2, <2>3, <2>5, AppendProperties
  <2>7. received' \in [Depths -> Seq(T)]
      BY <2>4, <2>5, <2>6
  <2>8. got' \in Seq(T)
      BY <1>6, <2>1, <2>2, SeqMonotonic
  <2> QED  BY <1>6, <1>3, <2>7, <2>8 DEF ClientTyped
<1>10. RowsTyped'
    BY DEF RowsTyped, Sends, reading
<1>11. Ordered' /\ Scalars'
    BY <1>1, <1>6, SameVariable DEF Sends
<1>12. AtBegin' /\ AtCount' /\ AtValue' /\ AtChecksum' /\ RowsLeft'
    BY <1>3, <1>6 DEF AtBegin, AtCount, AtValue, AtChecksum, RowsLeft
<1> QED  BY <1>6, <1>7, <1>8, <1>9, <1>10, <1>11, <1>12

\* The client gets a count and the server is in the Sequence that it is of.
LEMMA SequenceBegins ==
    ASSUME StepInv, NEW item, Sends(item), NEW U, NEW rows \in U, AreRows(U),
           values \in [Nesting -> U], truth \in [Nesting -> U],
           loaded \in Seq([values : U, truth : U]), rowsAt \in [Nesting -> U],
           SendSequence(rows), Asks = "count", getLevel = sendLevel, sendLevel < Depth,
           digest' \in Seq(Nat),
           \A l \in 1 .. sendLevel : toCome[l] = toSend[l] /\ toSend[l] <= Len(rowsAt[l])
    PROVE  /\ StepInv' /\ GetCount(Len(rows))
           /\ getLevel' = sendLevel + 1 /\ wants' = "value"
<1> USE DEF StepInv, SendSequence
<1>1. /\ todo = "send" /\ var \in 1 .. Len(vars4) /\ var \in 1 .. Len(loaded)
      /\ Depth \in Depths /\ Depth \in Nat /\ level = 0
    BY WhileSending
<1>2. GetCount(Len(rows))
    BY DEF Put
<1>3. sendLevel \in Nat /\ sendLevel + 1 \in Nesting /\ sendLevel + 1 \in Depths
    BY <1>1, NestingBound DEF ServerTyped, Depths, Nesting
<1> DEFINE l0 == sendLevel + 1
           n == Len(rows)
<1>4. l0 \in Nesting /\ l0 \in Nat /\ n \in Nat /\ l0 \in Depths
    BY <1>3, RowsLen
<1>5. /\ getLevel' = l0 /\ wants' = "value" /\ sendLevel' = l0 /\ sends' = "value"
      /\ toCome' = [toCome EXCEPT ![l0] = n] /\ length' = [length EXCEPT ![l0] = n]
      /\ toSend' = [toSend EXCEPT ![l0] = n] /\ rowsAt' = [rowsAt EXCEPT ![l0] = rows]
      /\ UNCHANGED <<cell, received, got, todo, var, vars4, reading>>
    BY <1>2 DEF GetCount, Sends
<1>6. n = Len(rows) /\ l0 = sendLevel + 1
    OBVIOUS
<1> HIDE DEF l0, n
<1>7. ServerTyped'
    BY <1>4, <1>5 DEF ServerTyped, reading
<1>8. ClientTyped'
    BY <1>4, <1>5 DEF ClientTyped
<1>9. RowsTyped'
  <2>1. rowsAt' \in [Nesting -> U]
      BY <1>4, <1>5
  <2> QED  BY <1>5, <2>1 DEF RowsTyped, reading
<1>10. Ordered' /\ Scalars'
    BY <1>1, <1>5, SameVariable
<1>11. AtBegin' /\ AtCount' /\ AtChecksum'
    BY <1>5 DEF AtBegin, AtCount, AtChecksum
<1>12. \A l \in 1 .. l0 : toCome'[l] = toSend'[l]
    BY <1>3, <1>4, <1>5, <1>6 DEF ServerTyped, ClientTyped
<1>13. AtValue'
  <2>1. Depth' = Depth
      BY <1>5 DEF Depth
  <2> QED  BY <1>1, <1>3, <1>4, <1>5, <1>6, <1>12, <2>1 DEF AtValue
<1>14. RowsLeft'
  <2>1. \A l \in 1 .. l0 : toSend'[l] <= Len(rowsAt'[l])
    <3> TAKE l \in 1 .. l0
    <3>1. l \in Nesting
        BY <1>4, NestingBound DEF Nesting
    <3>2. CASE l = l0
        BY <1>4, <1>5, <1>6, <3>1, <3>2 DEF ServerTyped
    <3>3. CASE l # l0
      <4>1. l \in 1 .. sendLevel
          BY <1>3, <1>6, <3>3
      <4> QED  BY <1>5, <3>1, <3>3, <4>1 DEF ServerTyped
    <3> QED  BY <3>2, <3>3
  <2> QED  BY <1>5, <2>1 DEF RowsLeft
<1> QED  BY <1>2, <1>5, <1>6, <1>7, <1>8, <1>9, <1>10, <1>11, <1>13, <1>14

LEMMA SendOutermostStep ==
    ASSUME StepInv, SendOutermost
    PROVE  /\ StepInv' /\ GetCount(Len(loaded[var].values))
           /\ getLevel' = 1 /\ wants' = "value" /\ sendLevel' = 1
<1> USE DEF SendOutermost
<1>1. /\ todo = "send" /\ var \in 1 .. Len(loaded) /\ sends = "begin"
      /\ Depth \in Nat /\ Incoming = Depth /\ Len(got) < Len(vars4)
    BY WhileSending
<1>2. sendLevel = 0 /\ wants = "begin" /\ getLevel = 0
    BY <1>1 DEF AtBegin, StepInv
<1>3. Asks = "count"
    BY <1>1, <1>2 DEF Asks
<1>4. PICK U : /\ AreRows(U)
               /\ values \in [Nesting -> U] /\ truth \in [Nesting -> U]
               /\ loaded \in Seq([values : U, truth : U])
               /\ rowsAt \in [Nesting -> U]
    BY DEF RowsTyped, StepInv
<1>5. loaded[var].values \in U
  <2>1. loaded[var] \in [values : U, truth : U]
      BY <1>1, <1>4, ElementOfSeq
  <2> QED  BY <2>1
<1>6. digest' \in Seq(Nat)
    OBVIOUS
<1>7. sendLevel < Depth /\ \A l \in 1 .. sendLevel : FALSE
    BY <1>1, <1>2
<1>8. /\ StepInv' /\ GetCount(Len(loaded[var].values))
      /\ getLevel' = sendLevel + 1 /\ wants' = "value"
    BY <1>2, <1>3, <1>4, <1>5, <1>6, <1>7, SequenceBegins
<1> QED  BY <1>2, <1>8 DEF SendSequence

\* The row that is being sent is one of its Sequence.
LEMMA RowIs ==
    ASSUME NEW U, AreRows(U), rowsAt \in [Nesting -> U], NEW k \in {0, 1},
           sendLevel \in Nesting, toSend[sendLevel] \in Nat,
           toSend[sendLevel] - k >= 0, toSend[sendLevel] - k < Len(rowsAt[sendLevel])
    PROVE  /\ RowAt(k) = Row(RowAt(k).val, RowAt(k).child)
           /\ RowAt(k).val \in Nat /\ RowAt(k).child \in U
           /\ Len(rowsAt[sendLevel]) - toSend[sendLevel] + k \in 1 .. Len(rowsAt[sendLevel])
<1> DEFINE s == rowsAt[sendLevel]
           t == toSend[sendLevel]
           j == Len(s) - t + k
<1>1. s \in U /\ t \in Nat /\ t - k >= 0 /\ t - k < Len(s)
    OBVIOUS
<1>2. RowAt(k) = s[j]
    BY DEF RowAt
<1> HIDE DEF s, t
<1>3. Len(s) \in Nat
    BY <1>1, RowsLen
<1>4. j \in 1 .. Len(s)
    BY <1>1, <1>3
<1> HIDE DEF j
<1>5. s[j] = Row(s[j].val, s[j].child) /\ s[j].val \in Nat /\ s[j].child \in U
    BY <1>1, <1>4, RowOf
<1> QED  BY <1>2, <1>4, <1>5 DEF s, t, j

LEMMA SendChildStep ==
    ASSUME StepInv, SendChild
    PROVE  /\ StepInv' /\ GetCount(Len(RowAt(0).child))
           /\ getLevel' = sendLevel + 1 /\ wants' = "value"
<1> USE DEF SendChild
<1>1. /\ todo = "send" /\ var \in 1 .. Len(loaded) /\ sends = "count"
      /\ Depth \in Nat
    BY WhileSending
<1>2. /\ wants = "count" /\ getLevel = sendLevel /\ sendLevel > 0 /\ sendLevel < Depth
      /\ \A l \in 1 .. sendLevel : toCome[l] = toSend[l]
    BY <1>1 DEF AtCount, StepInv
<1>3. /\ \A l \in 1 .. sendLevel : toSend[l] <= Len(rowsAt[l])
      /\ toSend[sendLevel] < Len(rowsAt[sendLevel])
    BY <1>1 DEF RowsLeft, StepInv
<1>4. PICK U : /\ AreRows(U)
               /\ values \in [Nesting -> U] /\ truth \in [Nesting -> U]
               /\ loaded \in Seq([values : U, truth : U])
               /\ rowsAt \in [Nesting -> U]
    BY DEF RowsTyped, StepInv
<1>5. sendLevel \in Nesting
    BY <1>2, NestingIs DEF StepInv, ServerTyped
<1>6. toSend[sendLevel] \in Nat
    BY <1>5 DEF StepInv, ServerTyped
<1>7. toSend[sendLevel] - 0 >= 0 /\ toSend[sendLevel] - 0 < Len(rowsAt[sendLevel])
    BY <1>3, <1>6
<1>8. RowAt(0).child \in U
    BY <1>4, <1>5, <1>6, <1>7, RowIs
<1>9. Asks = "count"
    BY <1>2 DEF Asks
<1>10. digest' \in Seq(Nat)
    BY DEF StepInv, ServerTyped
<1> QED  BY <1>2, <1>3, <1>4, <1>8, <1>9, <1>10, SequenceBegins

\* The client is in the Sequence whose rows are being sent.
LEMMA SendsRow ==
    ASSUME StepInv, Sends("value"), toSend[sendLevel] > 0
    PROVE  /\ wants = "value" /\ getLevel = sendLevel
           /\ sendLevel \in Nesting /\ sendLevel <= Depth
           /\ toSend[sendLevel] \in Nat /\ toSend[sendLevel] <= Len(rowsAt[sendLevel])
           /\ \A l \in 1 .. sendLevel : toCome[l] = toSend[l] /\ toSend[l] <= Len(rowsAt[l])
<1> USE DEF StepInv
<1>1. sends = "value"
    BY DEF Sends
<1>2. /\ sendLevel > 0 /\ sendLevel <= Depth /\ getLevel <= sendLevel
      /\ wants = (IF getLevel = 0 THEN "checksum" ELSE "value")
      /\ \A l \in 1 .. getLevel : toCome[l] = toSend[l]
      /\ \A l \in getLevel + 1 .. sendLevel : toSend[l] = 0
    BY <1>1 DEF AtValue
<1>3. sendLevel \in Nesting /\ sendLevel \in Nat /\ getLevel \in Nat
    BY <1>2, NestingIs, NestingBound DEF ServerTyped, ClientTyped
<1>4. getLevel = sendLevel
  <2>1. CASE getLevel < sendLevel
    <3>1. sendLevel \in getLevel + 1 .. sendLevel
        BY <1>3, <2>1
    <3> QED  BY <1>2, <3>1
  <2> QED  BY <1>2, <1>3, <2>1
<1>5. \A l \in 1 .. sendLevel : toSend[l] <= Len(rowsAt[l])
    BY <1>1 DEF RowsLeft
<1>6. toSend[sendLevel] <= Len(rowsAt[sendLevel])
    BY <1>2, <1>3, <1>5
<1>7. toSend[sendLevel] \in Nat
    BY <1>3 DEF ServerTyped
<1> QED  BY <1>2, <1>3, <1>4, <1>5, <1>6, <1>7

\* What a row does to what has been received; a parent waits for the child.
LEMMA SendValueStep ==
    ASSUME StepInv, SendValue
    PROVE  /\ StepInv'
           /\ getLevel = sendLevel /\ UNCHANGED <<getLevel, length, got>>
           /\ sendLevel < Depth => received' = received /\ wants' = "count"
           /\ sendLevel = Depth =>
                 /\ received' = [received EXCEPT ![sendLevel] = Append(@, Row(RowAt(1).val, <<>>))]
                 /\ wants' = "value"
           /\ cell' = [cell EXCEPT ![sendLevel] = RowAt(1).val]
<1> USE DEF StepInv, SendValue
<1>1. /\ todo = "send" /\ var \in 1 .. Len(loaded) /\ sends = "value"
      /\ Depth \in Nat /\ Incoming = Depth
    BY WhileSending
<1>2. /\ wants = "value" /\ getLevel = sendLevel
      /\ sendLevel \in Nesting /\ sendLevel <= Depth
      /\ toSend[sendLevel] \in Nat /\ toSend[sendLevel] <= Len(rowsAt[sendLevel])
      /\ \A l \in 1 .. sendLevel : toCome[l] = toSend[l] /\ toSend[l] <= Len(rowsAt[l])
    BY SendsRow
<1>3. PICK U : AreRows(U) /\ rowsAt \in [Nesting -> U]
    BY DEF RowsTyped
<1> DEFINE s0 == sendLevel
           x == RowAt(1).val
           n == Len(rowsAt[s0])
<1>4. n \in Nat
    BY <1>2, <1>3, RowsLen
<1>5. x \in Nat
  <2>1. toSend[sendLevel] - 1 >= 0 /\ toSend[sendLevel] - 1 < Len(rowsAt[sendLevel])
      BY <1>2, <1>4
  <2> QED  BY <1>2, <1>3, <2>1, RowIs
<1>6. s0 \in Nat /\ s0 # 0 /\ s0 \in Depths
    BY <1>2, NestingBound DEF Nesting, ServerTyped
<1>7. Asks = "value"
    BY <1>2 DEF Asks
<1>8. GetValue(x)
    BY <1>7 DEF Put
<1>9. /\ toCome' = [toCome EXCEPT ![s0] = @ - 1] /\ cell' = [cell EXCEPT ![s0] = x]
      /\ received' = IF s0 < Depth THEN received
                     ELSE [received EXCEPT ![s0] = Append(@, Row(x, <<>>))]
      /\ wants' = IF s0 < Depth THEN "count" ELSE "value"
      /\ UNCHANGED <<getLevel, length, got>>
    BY <1>1, <1>2, <1>6, <1>8 DEF GetValue
<1>10. /\ toSend' = [toSend EXCEPT ![s0] = @ - 1] /\ digest' = Append(digest, x)
       /\ sends' = IF s0 < Depth THEN "count" ELSE "value"
       /\ UNCHANGED <<todo, var, vars4, reading, sendLevel, rowsAt>>
    BY DEF Sends
<1>11. s0 \in Nesting /\ s0 <= Depth /\ getLevel = s0 /\ sendLevel = s0
    BY <1>2
<1>12. toSend[s0] \in Nat /\ toSend[s0] > 0 /\ toSend[s0] <= n /\ toSend[s0] - 1 \in Nat
    BY <1>2
<1>13. toSend \in [Nesting -> Nat] /\ toCome \in [Nesting -> Nat] /\ toCome[s0] = toSend[s0]
    BY <1>2, <1>6 DEF ServerTyped, ClientTyped
<1>14. n = Len(rowsAt[s0])
    OBVIOUS
<1> HIDE DEF x, s0, n
<1>15. toSend' \in [Nesting -> Nat] /\ toCome' \in [Nesting -> Nat]
    BY <1>9, <1>10, <1>11, <1>12, <1>13
<1>16. digest' \in Seq(Nat)
    BY <1>5, <1>10, AppendProperties DEF ServerTyped
<1>17. ServerTyped'
    BY <1>10, <1>15, <1>16 DEF ServerTyped, reading
<1>18. ClientTyped'
  <2>1. PICK S : received \in [Depths -> Seq(S)] /\ got \in Seq(S)
      BY DEF ClientTyped
  <2> DEFINE r == Row(x, <<>>)
             T == S \cup {r}
  <2>2. S \subseteq T /\ r \in T
      OBVIOUS
  <2>3. received' = IF s0 < Depth THEN received
                    ELSE [received EXCEPT ![s0] = Append(@, r)]
      BY <1>9
  <2> HIDE DEF r, T
  <2>4. received \in [Depths -> Seq(T)]
      BY <2>1, <2>2, SeqMonotonic
  <2>5. Append(received[s0], r) \in Seq(T)
      BY <1>6, <2>2, <2>4, AppendProperties
  <2>6. received' \in [Depths -> Seq(T)]
      BY <2>3, <2>4, <2>5
  <2>7. got' \in Seq(T)
      BY <1>9, <2>1, <2>2, SeqMonotonic
  <2>8. cell' \in [Nesting -> Nat]
      BY <1>5, <1>9, <1>11 DEF ClientTyped
  <2> QED  BY <1>9, <1>15, <2>6, <2>7, <2>8 DEF ClientTyped
<1>19. RowsTyped'
    BY <1>10 DEF RowsTyped, reading
<1>20. Ordered' /\ Scalars'
    BY <1>1, <1>9, <1>10, SameVariable
<1>21. AtBegin' /\ AtChecksum'
    BY <1>10 DEF AtBegin, AtChecksum
<1>22. \A l \in 1 .. s0 : toCome'[l] = toSend'[l] /\ toSend'[l] <= Len(rowsAt'[l])
  <2> TAKE l \in 1 .. s0
  <2>1. l \in Nesting
      BY <1>11, NestingBound DEF Nesting
  <2>2. CASE l = s0
      BY <1>4, <1>9, <1>10, <1>11, <1>12, <1>13, <1>14, <2>2
  <2>3. CASE l # s0
      BY <1>2, <1>9, <1>10, <1>11, <1>13, <2>1, <2>3
  <2> QED  BY <2>2, <2>3
<1>23. Depth' = Depth
    BY <1>10 DEF Depth
<1>24. AtCount'
    BY <1>6, <1>9, <1>10, <1>11, <1>22, <1>23 DEF AtCount
<1>25. AtValue'
    BY <1>6, <1>9, <1>10, <1>11, <1>22, <1>23 DEF AtValue
<1>26. RowsLeft'
  <2>1. toSend'[s0] < Len(rowsAt'[s0])
      BY <1>4, <1>10, <1>11, <1>12, <1>13, <1>14
  <2> QED  BY <1>10, <1>11, <1>22, <2>1 DEF RowsLeft
<1>27. /\ s0 < Depth => received' = received /\ wants' = "count"
       /\ s0 = Depth => /\ received' = [received EXCEPT ![s0] = Append(@, Row(x, <<>>))]
                        /\ wants' = "value"
    BY <1>1, <1>9
<1>28. s0 = sendLevel /\ x = RowAt(1).val
    BY DEF s0, x
<1> QED  BY <1>2, <1>9, <1>17, <1>18, <1>19, <1>20, <1>21, <1>24, <1>25, <1>26, <1>27, <1>28

LEMMA SequenceSentStep ==
    ASSUME StepInv, SequenceSent
    PROVE  /\ StepInv'
           /\ sends' = "checksum" => /\ wants = "checksum" /\ sendLevel = 1
                                     /\ toSend[sendLevel] = 0
<1> USE DEF StepInv, SequenceSent
<1>1. /\ todo = "send" /\ var \in 1 .. Len(loaded) /\ sends = "value"
      /\ Depth \in Nat /\ ~InstanceEnds
    BY WhileSending DEF Sends
<1>2. /\ sendLevel > 0 /\ sendLevel <= Depth /\ getLevel <= sendLevel
      /\ wants = (IF getLevel = 0 THEN "checksum" ELSE "value")
      /\ \A l \in 1 .. getLevel : toCome[l] = toSend[l]
      /\ \A l \in getLevel + 1 .. sendLevel : toSend[l] = 0
    BY <1>1 DEF AtValue
<1>3. sendLevel \in Nat /\ getLevel \in Nat /\ sendLevel - 1 \in Depths
    BY <1>2, NestingBound DEF ServerTyped, ClientTyped, Depths
<1>4. getLevel # sendLevel
  <2> SUFFICES ASSUME getLevel = sendLevel PROVE FALSE
      OBVIOUS
  <2>1. wants = "value" /\ getLevel > 0
      BY <1>2, <1>3
  <2>2. toCome[getLevel] = 0
      BY <1>2, <1>3
  <2> QED  BY <1>1, <2>1, <2>2 DEF InstanceEnds
<1>5. getLevel <= sendLevel - 1
    BY <1>2, <1>3, <1>4
<1>6. /\ UNCHANGED <<todo, var, vars4, reading, rowsAt, toSend, digest>>
      /\ UNCHANGED <<wants, getLevel, toCome, length, cell, received, got>>
      /\ sendLevel' = sendLevel - 1
      /\ sends' = IF sendLevel = 1 THEN "checksum" ELSE "value"
    BY DEF Sends, receiving
<1>7. ServerTyped'
    BY <1>3, <1>6 DEF ServerTyped, reading
<1>8. ClientTyped'
    BY <1>6 DEF ClientTyped
<1>9. RowsTyped'
    BY <1>6 DEF RowsTyped, reading
<1>10. Ordered' /\ Scalars'
    BY <1>1, <1>6, SameVariable
<1>11. Depth' = Depth
    BY <1>6 DEF Depth
<1>12. AtBegin' /\ AtCount'
    BY <1>6 DEF AtBegin, AtCount
<1>13. AtValue'
    BY <1>1, <1>2, <1>3, <1>5, <1>6, <1>11 DEF AtValue
<1>14. AtChecksum'
    BY <1>2, <1>3, <1>5, <1>6 DEF AtChecksum
<1>15. RowsLeft'
    BY <1>1, <1>2, <1>3, <1>6 DEF RowsLeft
<1>16. sends' = "checksum" => sendLevel = 1 /\ getLevel = 0
    BY <1>3, <1>5, <1>6
<1> QED  BY <1>2, <1>7, <1>8, <1>9, <1>10, <1>12, <1>13, <1>14, <1>15, <1>16

LEMMA SendChecksumStep ==
    ASSUME StepInv, SendChecksum
    PROVE  /\ StepInv'
           /\ got' = Append(got, [values |-> received[IF Depth = 0 THEN 0 ELSE 1],
                                  checksum |-> digest])
           /\ received' = Nothing
<1> USE DEF StepInv, SendChecksum
<1>1. /\ todo = "send" /\ var \in 1 .. Len(loaded) /\ sends = "checksum" /\ level = 0
      /\ Incoming = Depth /\ Len(got) = var - 1
    BY WhileSending
<1>2. sendLevel = 0 /\ wants = "checksum" /\ getLevel = 0
    BY <1>1 DEF AtChecksum
<1>3. GetChecksum(digest)
    BY <1>2 DEF Put, Asks
<1> DEFINE e == [values |-> received[IF Depth = 0 THEN 0 ELSE 1], checksum |-> digest]
<1>4. /\ got' = Append(got, e) /\ received' = Nothing /\ wants' = "begin"
      /\ UNCHANGED <<getLevel, toCome, length, cell>>
    BY <1>1, <1>3 DEF GetChecksum
<1>5. PICK S : received \in [Depths -> Seq(S)] /\ got \in Seq(S)
    BY DEF ClientTyped
<1>6. got \in Seq(S \cup {e})
    BY <1>5, SeqMonotonic
<1>7. got' \in Seq(S \cup {e}) /\ Len(got') = Len(got) + 1
  <2> HIDE DEF e
  <2>1. e \in S \cup {e}
      OBVIOUS
  <2> QED  BY <1>4, <1>6, <2>1, AppendProperties
<1> HIDE DEF e
<1>8. received' \in [Depths -> Seq(S \cup {e})]
    BY <1>4 DEF Nothing
<1>9. ClientTyped'
    BY <1>4, <1>7, <1>8 DEF ClientTyped
<1>10. var \in Nat /\ Len(got') = var
    BY <1>1, <1>7 DEF ServerTyped
<1>11. UNCHANGED <<vars4, loaded, level>>
    BY DEF Sends, reading
<1>12. Len(loaded) >= var
    BY <1>1
<1>13. sends' = "begin"
    OBVIOUS
<1>14. Ordered' /\ var' \in Nat \ {0} /\ todo' \in {"send", "intern", "done"}
    BY <1>1, <1>10, <1>11, <1>12, <1>13, NextVariableIs
<1>15. ServerTyped'
    BY <1>14 DEF ServerTyped, Sends, reading
<1>16. RowsTyped'
    BY DEF RowsTyped, Sends, reading
<1>17. Scalars'
    BY DEF Scalars, Sends, reading
<1>18. AtBegin' /\ AtCount' /\ AtValue' /\ AtChecksum' /\ RowsLeft'
    BY <1>2, <1>4 DEF AtBegin, AtCount, AtValue, AtChecksum, RowsLeft
<1> QED  BY <1>4, <1>9, <1>14, <1>15, <1>16, <1>17, <1>18 DEF e

\* The client ends an instance when it has all rows that it was told of.
LEMMA ClientEndsStep ==
    ASSUME StepInv, ClientEnds
    PROVE  /\ StepInv' /\ sends = "value" /\ getLevel \in Nesting /\ getLevel <= sendLevel
           /\ toSend[getLevel] = 0
<1> USE DEF StepInv, ClientEnds
<1>1. wants = "value" /\ getLevel > 0 /\ toCome[getLevel] = 0
    BY DEF InstanceEnds
<1>2. sends = "value"
    BY <1>1 DEF ServerTyped, AtBegin, AtCount, AtChecksum
<1>3. /\ sendLevel > 0 /\ sendLevel <= Depth /\ getLevel <= sendLevel
      /\ \A l \in 1 .. getLevel : toCome[l] = toSend[l]
      /\ \A l \in getLevel + 1 .. sendLevel : toSend[l] = 0
    BY <1>2 DEF AtValue
<1>4. getLevel \in Nesting /\ getLevel \in Nat /\ getLevel - 1 \in Depths /\ sendLevel \in Nat
  <2>1. getLevel \in Depths /\ sendLevel \in Depths
      BY DEF ClientTyped, ServerTyped
  <2>2. getLevel \in Nesting /\ getLevel \in Nat /\ sendLevel \in Nat
      BY <1>1, <2>1, NestingIs, NestingBound
  <2>3. getLevel - 1 \in Depths
      BY <1>1, <2>1, NestingBound DEF Depths
  <2> QED  BY <2>2, <2>3
<1>5. toSend[getLevel] = 0
    BY <1>1, <1>3, <1>4
<1> DEFINE g == getLevel - 1
           r == Row(cell[g], SubSeq(received[getLevel], 1, length[getLevel]))
<1>6. /\ getLevel' = g
      /\ wants' = IF g = 0 THEN "checksum" ELSE "value"
      /\ received' = IF g = 0 THEN received ELSE [received EXCEPT ![g] = Append(@, r)]
      /\ UNCHANGED <<todo, vars4, var, reading, sending, toCome, length, cell, got>>
    BY <1>1, <1>4
<1>7. g \in Depths /\ g \in Nat /\ getLevel = g + 1 /\ g < getLevel
    BY <1>1, <1>4
<1> HIDE DEF g, r
<1>8. ClientTyped'
  <2>1. PICK S : received \in [Depths -> Seq(S)] /\ got \in Seq(S)
      BY DEF ClientTyped
  <2> DEFINE T == S \cup {r}
  <2>2. S \subseteq T /\ r \in T
      OBVIOUS
  <2> HIDE DEF T
  <2>3. received \in [Depths -> Seq(T)]
      BY <2>1, <2>2, SeqMonotonic
  <2>4. Append(received[g], r) \in Seq(T)
      BY <1>7, <2>2, <2>3, AppendProperties
  <2>5. received' \in [Depths -> Seq(T)]
      BY <1>6, <2>3, <2>4
  <2>6. got' \in Seq(T)
      BY <1>6, <2>1, <2>2, SeqMonotonic
  <2> QED  BY <1>6, <1>7, <2>5, <2>6 DEF ClientTyped
<1>9. ServerTyped' /\ RowsTyped'
    BY <1>6 DEF ServerTyped, RowsTyped, reading, sending
<1>10. Ordered' /\ Scalars'
    BY <1>6 DEF Ordered, Scalars, Reads, Depth, reading, sending
<1>11. AtBegin' /\ AtCount' /\ AtChecksum' /\ RowsLeft'
    BY <1>2, <1>6 DEF AtBegin, AtCount, AtChecksum, RowsLeft, sending
<1>12. \A l \in g + 1 .. sendLevel : toSend[l] = 0
  <2> TAKE l \in g + 1 .. sendLevel
  <2>1. l = getLevel \/ l \in getLevel + 1 .. sendLevel
      BY <1>4, <1>7
  <2> QED  BY <1>3, <1>5, <2>1
<1>13. AtValue'
  <2>1. Depth' = Depth
      BY <1>6 DEF Depth
  <2>2. UNCHANGED <<sends, sendLevel, toSend, toCome>>
      BY <1>6 DEF sending
  <2>3. \A l \in 1 .. g : l \in 1 .. getLevel
      BY <1>4, <1>7
  <2> QED  BY <1>2, <1>3, <1>4, <1>6, <1>7, <1>12, <2>1, <2>2, <2>3 DEF AtValue
<1> QED  BY <1>2, <1>3, <1>4, <1>5, <1>8, <1>9, <1>10, <1>11, <1>13

\* Every step of the server and of the client.
LEMMA D4Step == StepInv /\ [D4Next]_d4Vars => StepInv'
<1> SUFFICES ASSUME StepInv, [D4Next]_d4Vars PROVE StepInv'
    OBVIOUS
<1>1. CASE \E n \in 1 .. MaxVars : \E depths \in [1 .. n -> 0 .. MaxNesting] :
              \E first \in {"intern", "send"} : Request(depths, first)
    BY <1>1, RequestStep
<1>2. CASE \E passes \in BOOLEAN : ReadNextInstance(passes)
    BY <1>2, ReadNextInstanceStep
<1>3. CASE ReadScalar \/ ReadOutermost \/ EndOfInstance \/ Interned
    BY <1>3, ReadScalarStep, ReadOutermostStep, EndOfInstanceStep, InternedStep
<1>4. CASE SendScalar \/ SendOutermost \/ SendChild
    BY <1>4, SendScalarStep, SendOutermostStep, SendChildStep
<1>5. CASE SendValue \/ SequenceSent \/ SendChecksum \/ ClientEnds
    BY <1>5, SendValueStep, SequenceSentStep, SendChecksumStep, ClientEndsStep
<1>6. CASE UNCHANGED d4Vars
  <2>1. UNCHANGED <<todo, vars4, var, reading, sending, receiving>>
      BY <1>6 DEF d4Vars
  <2>2. ServerTyped' /\ ClientTyped' /\ RowsTyped'
      BY <2>1 DEF StepInv, ServerTyped, ClientTyped, RowsTyped, reading, sending, receiving
  <2>3. Ordered' /\ Scalars'
      BY <2>1 DEF StepInv, Ordered, Scalars, Reads, Depth, reading, sending, receiving
  <2>4. AtBegin' /\ AtCount' /\ AtValue' /\ AtChecksum' /\ RowsLeft'
      BY <2>1 DEF StepInv, AtBegin, AtCount, AtValue, AtChecksum, RowsLeft, Depth, reading, sending,
                  receiving
  <2> QED  BY <2>2, <2>3, <2>4 DEF StepInv
<1> QED  BY <1>1, <1>2, <1>3, <1>4, <1>5, <1>6 DEF D4Next

\* What the places of the server and the client are, in every state: the client
\* of D4Sequence::deserialize() is in the Sequence that the server's serialize()
\* is in, or has left Sequences that have no more rows to send.
THEOREM StepInvariance == D4Spec => []StepInv
<1>1. D4Init => StepInv
    BY FirstInStep
<1> QED  BY <1>1, D4Step, PTL DEF D4Spec

\* The counts, values and checksums that serialize() writes are read as what they
\* are by deserialize(), and none is left over, whatever the variables of the
\* groups, their nesting and what the filter lets pass.
THEOREM AlwaysInStep == D4Spec => []InStep
<1>1. StepInv => InStep
  <2> SUFFICES ASSUME StepInv PROVE InStep
      OBVIOUS
  <2>1. wants # "error"
      BY DEF StepInv, ClientTyped
  <2>2. CASE todo = "done"
    <3>1. sends = "begin" /\ Len(got) = Len(vars4)
        BY <2>2 DEF StepInv, Ordered
    <3> QED  BY <2>1, <3>1 DEF StepInv, AtBegin, InStep
  <2> QED  BY <2>1, <2>2 DEF InStep
<1> QED  BY <1>1, StepInvariance, PTL

-----------------------------------------------------------------------------
(* The data: what the client gets.                                         *)

Leaves(rows) == \A k \in 1 .. Len(rows) : rows[k].child = <<>>
FirstOf(s, rows, n) == Len(s) = n /\ \A k \in 1 .. n : s[k] = rows[k]
ValuesOf(s, rows) == \A k \in 1 .. Len(s) : s[k] = rows[k].val

\* What was read of a variable of a depth is what should be, if no child was
\* read twice.
Fits(d, w) ==
    /\ d = 0 => w.values = Scalar /\ w.truth = Scalar
    /\ d = 1 => w.values = w.truth /\ Leaves(w.truth)
    /\ d = 2 /\ Len(w.truth) <= 1 =>
          w.values = w.truth /\ \A k \in 1 .. Len(w.truth) : Leaves(w.truth[k].child)
LoadedFits == \A v \in 1 .. Len(loaded) : Fits(vars4[v], loaded[v])

\* The first child starts with no rows, as it should.
ReadsOne == level > 0 /\ Depth = 1 => values[1] = truth[1] /\ Leaves(truth[1])
ReadsTwo ==
    level > 0 /\ Depth = 2 =>
        /\ Len(truth[1]) = 0 => values[2] = (IF level = 2 THEN truth[2] ELSE <<>>)
        /\ level = 2 => Leaves(truth[2])
        /\ Len(truth[1]) <= 1 =>
              values[1] = truth[1] /\ \A k \in 1 .. Len(truth[1]) : Leaves(truth[1][k].child)

Rows == loaded[var].values

NoneBegun == sends = "begin" => received = Nothing
ScalarSent == sends = "checksum" /\ Depth = 0 => received[0] = Scalar /\ digest = <<1>>
OneSent ==
    sends \in {"value", "checksum"} /\ Depth = 1 =>
        /\ rowsAt[1] = Rows
        /\ FirstOf(received[1], Rows, Len(Rows) - toSend[1])
        /\ ValuesOf(digest, Rows) /\ Len(digest) = Len(Rows) - toSend[1]
        /\ sends = "checksum" => toSend[1] = 0
\* Of two levels, of which the outer one has at most one row.
Begun == Len(Rows) = 1 /\ toSend[1] = 0 /\ cell[1] = Rows[1].val /\ received[1] = <<>>
TwoSent ==
    sends # "begin" /\ Depth = 2 /\ Len(loaded[var].truth) <= 1 =>
        /\ rowsAt[1] = Rows
        /\ wants = "value" /\ getLevel = 1 =>
              IF toSend[1] = 0 THEN received[1] = Rows
              ELSE Len(Rows) = 1 /\ toSend[1] = 1 /\ received[1] = <<>> /\ received[2] = <<>>
        /\ wants = "count" => Begun /\ received[2] = <<>>
        /\ wants = "value" /\ getLevel = 2 =>
              /\ Begun
              /\ rowsAt[2] = Rows[1].child /\ length[2] = Len(Rows[1].child)
              /\ FirstOf(received[2], Rows[1].child, Len(Rows[1].child) - toSend[2])
        /\ wants = "checksum" => received[1] = Rows

GotFit(d, w, g) ==
    /\ d <= 1 \/ (d = 2 /\ Len(w.truth) <= 1) => g.values = w.truth
    /\ d <= 1 => ValuesOf(g.checksum, g.values) /\ Len(g.checksum) = Len(g.values)
                 /\ g.checksum \in Seq(Nat)
GotFits == /\ Len(got) <= Len(loaded)
           /\ \A v \in 1 .. Len(got) : GotFit(vars4[v], loaded[v], got[v])

DataInv == /\ LoadedFits /\ ReadsOne /\ ReadsTwo
           /\ NoneBegun /\ ScalarSent /\ OneSent /\ TwoSent /\ GotFits

-----------------------------------------------------------------------------
LEMMA FirstData == D4Init => DataInv
<1> SUFFICES ASSUME D4Init PROVE DataInv
    OBVIOUS
<1> USE DEF D4Init
<1>1. LoadedFits /\ ReadsOne /\ ReadsTwo
    BY DEF LoadedFits, ReadsOne, ReadsTwo
<1>2. NoneBegun /\ ScalarSent /\ OneSent /\ TwoSent
    BY DEF NoneBegun, ScalarSent, OneSent, TwoSent
<1>3. GotFits
    BY DEF GotFits
<1> QED  BY <1>1, <1>2, <1>3 DEF DataInv

\* Nothing is being sent while a Sequence reads.
LEMMA ReadingData ==
    ASSUME StepInv, DataInv, Reads, UNCHANGED <<vars4, var, sending, receiving>>,
           \/ loaded' = loaded
           \/ \E x : loaded' = Append(loaded, x) /\ Fits(Depth, x)
    PROVE  LoadedFits' /\ NoneBegun' /\ ScalarSent' /\ OneSent' /\ TwoSent' /\ GotFits'
<1> USE DEF DataInv, sending, receiving
<1>1. sends = "begin" /\ Len(loaded) = var - 1 /\ var \in 1 .. Len(vars4)
    BY WhileReading
<1>2. NoneBegun' /\ ScalarSent' /\ OneSent' /\ TwoSent'
    BY <1>1 DEF NoneBegun, ScalarSent, OneSent, TwoSent
<1>3. CASE loaded' = loaded
    BY <1>2, <1>3 DEF LoadedFits, GotFits
<1>4. CASE \E x : loaded' = Append(loaded, x) /\ Fits(Depth, x)
  <2>1. PICK x : loaded' = Append(loaded, x) /\ Fits(Depth, x)
      BY <1>4
  <2>2. PICK U : loaded \in Seq([values : U, truth : U])
      BY DEF RowsTyped, StepInv
  <2>3. /\ Len(loaded') = var
        /\ \A v \in 1 .. var : loaded'[v] = IF v < var THEN loaded[v] ELSE x
    <3> DEFINE T == [values : U, truth : U] \cup {x}
    <3>1. loaded \in Seq(T) /\ x \in T
        BY <2>2, SeqMonotonic
    <3> HIDE DEF T
    <3>2. Len(loaded') = Len(loaded) + 1
        BY <2>1, <3>1, AppendProperties
    <3>3. \A v \in 1 .. Len(loaded) : loaded'[v] = loaded[v]
        BY <2>1, <3>1, AppendProperties
    <3>4. loaded'[Len(loaded) + 1] = x
        BY <2>1, <3>1, AppendProperties
    <3> QED  BY <1>1, <3>2, <3>3, <3>4
  <2>4. LoadedFits'
    <3> SUFFICES ASSUME NEW v \in 1 .. var PROVE Fits(vars4[v], loaded'[v])
        BY <2>3 DEF LoadedFits
    <3>1. CASE v < var
      <4>1. v \in 1 .. Len(loaded) /\ loaded'[v] = loaded[v]
          BY <1>1, <2>3, <3>1
      <4> QED  BY <4>1 DEF LoadedFits
    <3>2. CASE v = var
      <4>1. loaded'[v] = x
          BY <1>1, <2>3, <3>2
      <4> QED  BY <2>1, <3>2, <4>1 DEF Depth
    <3> QED  BY <1>1, <3>1, <3>2
  <2>5. GotFits'
    <3>1. Len(got) <= var - 1
        BY <1>1 DEF GotFits
    <3>2. Len(got) \in Nat
        BY LenProperties DEF StepInv, ClientTyped
    <3>3. \A v \in 1 .. Len(got) : loaded'[v] = loaded[v]
        BY <1>1, <2>3, <3>1, <3>2
    <3>4. Len(got) <= Len(loaded')
        BY <1>1, <2>3, <3>1, <3>2
    <3> QED  BY <3>3, <3>4 DEF GotFits
  <2> QED  BY <1>2, <2>4, <2>5
<1> QED  BY <1>3, <1>4

LEMMA ReadScalarData ==
    ASSUME StepInv, DataInv, ReadScalar
    PROVE  DataInv'
<1> USE DEF ReadScalar
<1>1. Fits(Depth, [values |-> Scalar, truth |-> Scalar])
    BY DEF Fits
<1>2. LoadedFits' /\ NoneBegun' /\ ScalarSent' /\ OneSent' /\ TwoSent' /\ GotFits'
    BY <1>1, ReadingData
<1>3. level' = 0
    BY WhileReading DEF StepInv, Ordered, ServerTyped, Depths
<1>4. ReadsOne' /\ ReadsTwo'
    BY <1>3 DEF ReadsOne, ReadsTwo
<1> QED  BY <1>2, <1>4 DEF DataInv

LEMMA ReadOutermostData ==
    ASSUME StepInv, DataInv, ReadOutermost
    PROVE  DataInv'
<1> USE DEF ReadOutermost
<1>1. LoadedFits' /\ NoneBegun' /\ ScalarSent' /\ OneSent' /\ TwoSent' /\ GotFits'
    BY ReadingData
<1>2. Depth \in Depths /\ Depth' = Depth
    BY WhileReading DEF Depth
<1>3. level' = 1 /\ \A l \in Nesting : values'[l] = <<>> /\ truth'[l] = <<>>
    BY DEF Empty
<1>4. ReadsOne'
  <2>1. CASE Depth = 1
    <3>1. 1 \in Nesting
        BY <1>2, <2>1, NestingIs
    <3> QED  BY <1>3, <3>1 DEF ReadsOne, Leaves
  <2> QED  BY <1>2, <2>1 DEF ReadsOne
<1>5. ReadsTwo'
  <2>1. CASE Depth = 2
    <3>1. 1 \in Nesting /\ 2 \in Nesting
        BY <1>2, <2>1, NestingBound DEF Nesting, Depths
    <3> QED  BY <1>3, <3>1 DEF ReadsTwo, Leaves
  <2> QED  BY <1>2, <2>1 DEF ReadsTwo
<1> QED  BY <1>1, <1>4, <1>5 DEF DataInv

\* A row is added to rows.
LEMMA Appended ==
    ASSUME NEW U, AreRows(U), NEW s \in U, NEW r
    PROVE  /\ Len(Append(s, r)) = Len(s) + 1 /\ Len(s) \in Nat
           /\ \A k \in 1 .. Len(s) : Append(s, r)[k] = s[k]
           /\ Append(s, r)[Len(s) + 1] = r
<1> DEFINE R == [val : Nat, child : U]
           T == R \cup {r}
<1>1. s \in Seq(R) /\ R \subseteq T /\ r \in T
    BY DEF AreRows
<1> HIDE DEF R, T
<1>2. s \in Seq(T)
    BY <1>1, SeqMonotonic
<1> QED  BY <1>1, <1>2, AppendProperties, LenProperties

LEMMA LeavesGrow ==
    ASSUME NEW U, AreRows(U), NEW s \in U, Leaves(s), NEW n
    PROVE  Leaves(Append(s, Row(n, <<>>)))
<1> DEFINE r == Row(n, <<>>)
           t == Append(s, r)
<1>1. /\ Len(t) = Len(s) + 1 /\ Len(s) \in Nat
      /\ \A k \in 1 .. Len(s) : t[k] = s[k]
      /\ t[Len(s) + 1] = r
    BY Appended
<1>2. r.child = <<>>
    BY DEF Row
<1> HIDE DEF r, t
<1>3. \A k \in 1 .. Len(t) : t[k].child = <<>>
  <2> TAKE k \in 1 .. Len(t)
  <2>1. k \in 1 .. Len(s) \/ k = Len(s) + 1
      BY <1>1
  <2> QED  BY <1>1, <1>2, <2>1 DEF Leaves
<1> QED  BY <1>3 DEF Leaves, t, r

LEMMA ReadNextInstanceData ==
    ASSUME StepInv, DataInv, NEW passes \in BOOLEAN, ReadNextInstance(passes)
    PROVE  DataInv'
<1> USE DEF ReadNextInstance
<1>1. LoadedFits' /\ NoneBegun' /\ ScalarSent' /\ OneSent' /\ TwoSent' /\ GotFits'
    BY ReadingData
<1>2. Depth \in Depths /\ Depth' = Depth
    BY WhileReading DEF Depth
<1>3. level \in Nesting /\ level <= Depth /\ level \in Nat
    BY NestingIs, NestingBound DEF StepInv, Ordered, ServerTyped
<1>4. PICK U : AreRows(U) /\ values \in [Nesting -> U] /\ truth \in [Nesting -> U]
    BY DEF RowsTyped, StepInv
<1>5. ReadsOne /\ ReadsTwo
    BY DEF DataInv
<1>6. CASE ~passes
    BY <1>1, <1>2, <1>5, <1>6 DEF DataInv, ReadsOne, ReadsTwo
<1>7. CASE passes /\ level < Depth
  <2>1. /\ level' = level + 1 /\ truth' = [truth EXCEPT ![level + 1] = <<>>]
        /\ values' = values
      BY <1>7
  <2>2. ReadsOne'
      BY <1>2, <1>3, <1>7 DEF ReadsOne
  <2>3. ReadsTwo'
    <3>1. CASE Depth = 2
      <4>1. level = 1 /\ 1 \in Nesting /\ 2 \in Nesting
          BY <1>2, <1>3, <1>7, <3>1, NestingBound DEF Nesting, Depths
      <4>2. level' = 2 /\ truth'[2] = <<>> /\ truth'[1] = truth[1]
          BY <1>4, <2>1, <4>1
      <4> QED  BY <1>2, <1>5, <2>1, <3>1, <4>1, <4>2 DEF ReadsTwo, Leaves
    <3> QED  BY <1>2, <3>1 DEF ReadsTwo
  <2> QED  BY <1>1, <2>2, <2>3 DEF DataInv
<1>8. CASE passes /\ ~(level < Depth)
  <2> DEFINE n == counter'[level]
  <2>1. /\ values' = [values EXCEPT ![level] = Append(@, Row(n, <<>>))]
        /\ truth' = [truth EXCEPT ![level] = Append(@, Row(n, <<>>))]
        /\ level' = level
      BY <1>8
  <2>2. level = Depth
      BY <1>2, <1>3, <1>8, NestingBound
  <2> HIDE DEF n
  <2>3. /\ values'[level] = Append(values[level], Row(n, <<>>))
        /\ truth'[level] = Append(truth[level], Row(n, <<>>))
      BY <1>3, <1>4, <2>1
  <2>4. ReadsOne'
    <3>1. CASE Depth = 1
      <4>1. values[1] = truth[1] /\ Leaves(truth[1]) /\ truth[1] \in U
          BY <1>3, <1>4, <1>5, <2>2, <3>1 DEF ReadsOne
      <4>2. Leaves(truth'[1])
        <5>1. Leaves(Append(truth[1], Row(n, <<>>)))
            BY <1>4, <4>1, LeavesGrow
        <5>2. truth'[1] = Append(truth[1], Row(n, <<>>))
            BY <2>2, <2>3, <3>1
        <5> QED  BY <5>1, <5>2
      <4>3. values'[1] = truth'[1]
          BY <2>2, <2>3, <3>1, <4>1
      <4> QED  BY <4>2, <4>3 DEF ReadsOne
    <3> QED  BY <1>2, <3>1 DEF ReadsOne
  <2>5. ReadsTwo'
    <3>1. CASE Depth = 2
      <4>1. 1 \in Nesting /\ 2 \in Nesting /\ level = 2
          BY <1>2, <2>2, <3>1, NestingBound DEF Nesting, Depths
      <4>2. values'[1] = values[1] /\ truth'[1] = truth[1]
          BY <1>4, <2>1, <4>1
      <4>3. Leaves(truth[2]) /\ truth[2] \in U
          BY <1>4, <1>5, <3>1, <4>1 DEF ReadsTwo
      <4>4. Leaves(truth'[2])
        <5>1. Leaves(Append(truth[2], Row(n, <<>>)))
            BY <1>4, <4>3, LeavesGrow
        <5>2. truth'[2] = Append(truth[2], Row(n, <<>>))
            BY <2>3, <4>1
        <5> QED  BY <5>1, <5>2
      <4>5. Len(truth[1]) = 0 => values'[2] = truth'[2]
          BY <1>5, <2>3, <3>1, <4>1 DEF ReadsTwo
      <4>6. Len(truth[1]) <= 1 =>
                values[1] = truth[1] /\ \A k \in 1 .. Len(truth[1]) : Leaves(truth[1][k].child)
          BY <1>5, <3>1, <4>1 DEF ReadsTwo
      <4> QED  BY <2>1, <4>1, <4>2, <4>4, <4>5, <4>6 DEF ReadsTwo
    <3> QED  BY <1>2, <3>1 DEF ReadsTwo
  <2> QED  BY <1>1, <2>4, <2>5 DEF DataInv
<1> QED  BY <1>6, <1>7, <1>8

LEMMA EndOfInstanceData ==
    ASSUME StepInv, DataInv, EndOfInstance
    PROVE  DataInv'
<1> USE DEF EndOfInstance
<1>1. Depth \in Depths /\ Depth' = Depth
    BY WhileReading DEF Depth
<1>2. level \in Nesting /\ level <= Depth /\ level \in Nat /\ level > 0
    BY NestingIs, NestingBound DEF StepInv, Ordered, ServerTyped
<1>3. PICK U : AreRows(U) /\ values \in [Nesting -> U] /\ truth \in [Nesting -> U]
    BY DEF RowsTyped, StepInv
<1>4. ReadsOne /\ ReadsTwo
    BY DEF DataInv
<1>5. CASE level > 1
  <2>1. LoadedFits' /\ NoneBegun' /\ ScalarSent' /\ OneSent' /\ TwoSent' /\ GotFits'
      BY <1>5, ReadingData
  <2>2. ReadsOne'
      BY <1>1, <1>2, <1>5 DEF ReadsOne
  <2>3. ReadsTwo'
    <3>1. CASE Depth = 2
      <4>1. 1 \in Nesting /\ 2 \in Nesting /\ level = 2 /\ level' = 1
          BY <1>1, <1>2, <1>5, <3>1, NestingBound DEF Nesting, Depths
      <4> DEFINE n == counter[1]
      <4>2. /\ values' = [values EXCEPT ![1] = Append(@, Row(n, values[2]))]
            /\ truth' = [truth EXCEPT ![1] = Append(@, Row(n, truth[2]))]
          BY <1>5, <4>1
      <4> HIDE DEF n
      <4>3. /\ values'[1] = Append(values[1], Row(n, values[2])) /\ values'[2] = values[2]
            /\ truth'[1] = Append(truth[1], Row(n, truth[2]))
          BY <1>3, <4>1, <4>2
      <4>4. truth[1] \in U
          BY <1>3, <4>1
      <4>5. /\ Len(truth'[1]) = Len(truth[1]) + 1 /\ Len(truth[1]) \in Nat
            /\ truth'[1][Len(truth[1]) + 1] = Row(n, truth[2])
          BY <1>3, <4>3, <4>4, Appended
      <4>6. CASE Len(truth[1]) = 0
        <5>1. values[2] = truth[2] /\ Leaves(truth[2]) /\ values[1] = truth[1]
            BY <1>4, <3>1, <4>1, <4>6 DEF ReadsTwo
        <5>2. values'[1] = truth'[1]
            BY <4>3, <5>1
        <5>3. truth'[1][1].child = truth[2]
            BY <4>5, <4>6 DEF Row
        <5>4. \A k \in 1 .. Len(truth'[1]) : Leaves(truth'[1][k].child)
            BY <4>5, <4>6, <5>1, <5>3
        <5> QED  BY <4>1, <4>5, <5>2, <5>4 DEF ReadsTwo
      <4>7. CASE Len(truth[1]) > 0
          BY <4>1, <4>5, <4>7 DEF ReadsTwo
      <4> QED  BY <4>5, <4>6, <4>7
    <3> QED  BY <1>1, <3>1 DEF ReadsTwo
  <2> QED  BY <2>1, <2>2, <2>3 DEF DataInv
<1>6. CASE level = 1
  <2> DEFINE x == [values |-> values[1], truth |-> truth[1]]
  <2>1. Fits(Depth, x)
    <3>1. Depth # 0
        BY <1>2, <1>6
    <3>2. x.values = values[1] /\ x.truth = truth[1]
        OBVIOUS
    <3> HIDE DEF x
    <3> QED  BY <1>4, <1>2, <3>1, <3>2 DEF Fits, ReadsOne, ReadsTwo
  <2>2. loaded' = Append(loaded, x)
      BY <1>6
  <2> HIDE DEF x
  <2>3. LoadedFits' /\ NoneBegun' /\ ScalarSent' /\ OneSent' /\ TwoSent' /\ GotFits'
      BY <2>1, <2>2, ReadingData
  <2>4. level' = 0
      BY <1>6
  <2> QED  BY <2>3, <2>4 DEF DataInv, ReadsOne, ReadsTwo
<1> QED  BY <1>2, <1>5, <1>6

LEMMA RequestData ==
    ASSUME StepInv, DataInv, NEW depths, NEW first, Request(depths, first)
    PROVE  DataInv'
<1> USE DEF Request, reading, sending, receiving
<1>1. loaded = <<>> /\ level = 0 /\ sends = "begin"
    BY DEF StepInv, Ordered, Reads, ServerTyped, Depths
<1>2. Len(got) = 0
    BY DEF StepInv, Ordered
<1>3. LoadedFits' /\ GotFits'
    BY <1>1, <1>2 DEF LoadedFits, GotFits, DataInv
<1>4. ReadsOne' /\ ReadsTwo'
    BY <1>1 DEF ReadsOne, ReadsTwo
<1>5. NoneBegun' /\ ScalarSent' /\ OneSent' /\ TwoSent'
    BY <1>1 DEF NoneBegun, ScalarSent, OneSent, TwoSent, DataInv
<1> QED  BY <1>3, <1>4, <1>5 DEF DataInv

LEMMA InternedData ==
    ASSUME StepInv, DataInv, Interned
    PROVE  DataInv'
<1> USE DEF Interned, reading, sending, receiving
<1>1. level = 0 /\ sends = "begin"
    BY DEF StepInv, Ordered, Reads, ServerTyped, Depths
<1>2. LoadedFits' /\ GotFits'
    BY DEF LoadedFits, GotFits, DataInv
<1>3. ReadsOne' /\ ReadsTwo'
    BY <1>1 DEF ReadsOne, ReadsTwo
<1>4. NoneBegun' /\ ScalarSent' /\ OneSent' /\ TwoSent'
    BY <1>1 DEF NoneBegun, ScalarSent, OneSent, TwoSent, DataInv
<1> QED  BY <1>2, <1>3, <1>4 DEF DataInv

\* Sending leaves what was read as it was.
LEMMA SendingData ==
    ASSUME StepInv, DataInv, UNCHANGED <<vars4, reading>>, level = 0
    PROVE  LoadedFits' /\ ReadsOne' /\ ReadsTwo'
<1> USE DEF DataInv, reading
<1>1. LoadedFits'
    BY DEF LoadedFits
<1>2. ReadsOne' /\ ReadsTwo'
    BY DEF ReadsOne, ReadsTwo
<1> QED  BY <1>1, <1>2

LEMMA GotSame ==
    ASSUME GotFits, UNCHANGED <<vars4, reading, got>>
    PROVE  GotFits'
BY DEF GotFits, reading

\* Sequences of rows with the same rows are the same.
LEMMA SameRows ==
    ASSUME NEW U, AreRows(U), NEW t \in U, NEW S, NEW s \in Seq(S), FirstOf(s, t, Len(t))
    PROVE  s = t
<1> DEFINE R == [val : Nat, child : U]
           T == S \cup R
<1>1. t \in Seq(R) /\ R \subseteq T /\ S \subseteq T
    BY DEF AreRows
<1> HIDE DEF R, T
<1>2. s \in Seq(T) /\ t \in Seq(T)
    BY <1>1, SeqMonotonic
<1>3. Len(s) = Len(t) /\ \A k \in 1 .. Len(s) : s[k] = t[k]
    BY DEF FirstOf
<1> QED  BY <1>2, <1>3, SeqEqual

\* One more of the first rows.
LEMMA FirstGrows ==
    ASSUME NEW S, NEW s \in Seq(S), NEW rows, NEW n \in Nat, FirstOf(s, rows, n), NEW r,
           r = rows[n + 1]
    PROVE  FirstOf(Append(s, r), rows, n + 1)
<1> DEFINE T == S \cup {r}
           t == Append(s, r)
<1>1. r \in T /\ S \subseteq T
    OBVIOUS
<1> HIDE DEF T
<1>2. s \in Seq(T)
    BY <1>1, SeqMonotonic
<1>3. /\ Len(t) = Len(s) + 1 /\ \A k \in 1 .. Len(s) : t[k] = s[k]
      /\ t[Len(s) + 1] = r
    BY <1>1, <1>2, AppendProperties
<1>4. Len(s) = n /\ \A k \in 1 .. n : s[k] = rows[k]
    BY DEF FirstOf
<1> HIDE DEF t
<1>5. \A k \in 1 .. n + 1 : t[k] = rows[k]
  <2> TAKE k \in 1 .. n + 1
  <2>1. k \in 1 .. n \/ k = n + 1
      OBVIOUS
  <2> QED  BY <1>3, <1>4, <2>1
<1> QED  BY <1>3, <1>4, <1>5 DEF FirstOf, t

LEMMA ValuesGrow ==
    ASSUME NEW s \in Seq(Nat), NEW rows, ValuesOf(s, rows), NEW x \in Nat,
           x = rows[Len(s) + 1].val
    PROVE  ValuesOf(Append(s, x), rows) /\ Len(Append(s, x)) = Len(s) + 1
<1> DEFINE t == Append(s, x)
<1>1. /\ Len(t) = Len(s) + 1 /\ \A k \in 1 .. Len(s) : t[k] = s[k]
      /\ t[Len(s) + 1] = x /\ Len(s) \in Nat
    BY AppendProperties, LenProperties
<1> HIDE DEF t
<1>2. \A k \in 1 .. Len(t) : t[k] = rows[k].val
  <2> TAKE k \in 1 .. Len(t)
  <2>1. k \in 1 .. Len(s) \/ k = Len(s) + 1
      BY <1>1
  <2> QED  BY <1>1, <2>1 DEF ValuesOf
<1> QED  BY <1>1, <1>2 DEF ValuesOf, t

LEMMA SendScalarData ==
    ASSUME StepInv, DataInv, SendScalar
    PROVE  DataInv'
<1> USE DEF SendScalar
<1>1. /\ received' = [received EXCEPT ![0] = Append(@, Row(1, <<>>))] /\ digest' = <<1>>
      /\ sends' = "checksum" /\ UNCHANGED got
    BY SendScalarStep
<1>2. sends = "begin" /\ level = 0 /\ Depth = 0
    BY WhileSending
<1>3. UNCHANGED <<vars4, var, reading>>
    BY DEF Sends
<1>4. LoadedFits' /\ ReadsOne' /\ ReadsTwo'
    BY <1>2, <1>3, SendingData
<1>5. GotFits'
    BY <1>1, <1>3, GotSame DEF DataInv
<1>6. Depth' = 0
    BY <1>2, <1>3 DEF Depth
<1>7. NoneBegun' /\ OneSent' /\ TwoSent'
    BY <1>1, <1>6 DEF NoneBegun, OneSent, TwoSent
<1>8. ScalarSent'
  <2>1. received = Nothing
      BY <1>2 DEF DataInv, NoneBegun
  <2>2. 0 \in Depths
      BY NestingBound DEF Depths
  <2>3. received'[0] = Append(<<>>, Row(1, <<>>))
      BY <1>1, <2>1, <2>2 DEF Nothing
  <2>4. Append(<<>>, Row(1, <<>>)) = Scalar
      BY DEF Scalar
  <2> QED  BY <1>1, <2>3, <2>4 DEF ScalarSent
<1> QED  BY <1>4, <1>5, <1>7, <1>8 DEF DataInv

LEMMA SendOutermostData ==
    ASSUME StepInv, DataInv, SendOutermost
    PROVE  DataInv'
<1> USE DEF SendOutermost
<1>1. /\ GetCount(Len(loaded[var].values))
      /\ getLevel' = 1 /\ wants' = "value" /\ sendLevel' = 1
    BY SendOutermostStep
<1>2. /\ sends = "begin" /\ level = 0 /\ Depth > 0 /\ Depth \in Depths /\ Depth \in Nat
      /\ var \in 1 .. Len(loaded)
    BY WhileSending
<1>3. UNCHANGED <<vars4, var, reading, got, received, cell>> /\ loaded' = loaded
    BY <1>1 DEF Sends, SendSequence, GetCount, reading
<1>4. LoadedFits' /\ ReadsOne' /\ ReadsTwo'
    BY <1>2, <1>3, SendingData
<1>5. GotFits'
    BY <1>3, GotSame DEF DataInv
<1>6. Depth' = Depth /\ Rows' = Rows
    BY <1>3 DEF Depth, Rows
<1>7. 1 \in Nesting
    BY <1>2, NestingBound DEF Nesting, Depths
<1>8. sends' = "value" /\ rowsAt'[1] = Rows /\ toSend'[1] = Len(Rows) /\ digest' = <<>>
  <2>1. rowsAt' = [rowsAt EXCEPT ![1] = Rows] /\ toSend' = [toSend EXCEPT ![1] = Len(Rows)]
      BY <1>1 DEF SendSequence, Rows
  <2>2. DOMAIN rowsAt = Nesting /\ DOMAIN toSend = Nesting
      BY DEF StepInv, RowsTyped, ServerTyped
  <2> QED  BY <1>7, <2>1, <2>2 DEF SendSequence
<1>9. \A l \in Depths : received'[l] = <<>>
    BY <1>2, <1>3 DEF DataInv, NoneBegun, Nothing
<1>10. Len(Rows) \in Nat
  <2>1. PICK U : AreRows(U) /\ loaded \in Seq([values : U, truth : U])
      BY DEF RowsTyped, StepInv
  <2>2. loaded[var] \in [values : U, truth : U]
      BY <1>2, <2>1, ElementOfSeq
  <2>3. Rows \in U
      BY <2>2 DEF Rows
  <2> QED  BY <2>1, <2>3, RowsLen
<1>11. NoneBegun' /\ ScalarSent'
    BY <1>8 DEF NoneBegun, ScalarSent
<1>12. OneSent'
  <2>1. received'[1] = <<>>
      BY <1>7, <1>9, NestingBound DEF Nesting, Depths
  <2>2. Len(Rows) - toSend'[1] = 0
      BY <1>8, <1>10
  <2>3. FirstOf(received'[1], Rows, 0) /\ ValuesOf(digest', Rows) /\ Len(digest') = 0
      BY <1>8, <2>1 DEF FirstOf, ValuesOf
  <2> QED  BY <1>6, <1>8, <2>2, <2>3 DEF OneSent
<1>13. TwoSent'
  <2> SUFFICES ASSUME Depth = 2, Len(loaded[var].truth) <= 1 PROVE TwoSent'
      BY <1>6, <1>3 DEF TwoSent
  <2>1. 1 \in Depths /\ 2 \in Depths
      BY <1>2, NestingBound DEF Depths
  <2>2. received'[1] = <<>> /\ received'[2] = <<>>
      BY <1>9, <2>1
  <2>3. Fits(2, loaded[var])
      BY <1>2 DEF DataInv, LoadedFits, Depth
  <2>4. Len(Rows) = 0 \/ Len(Rows) = 1
    <3>1. Len(Rows) <= 1
        BY <2>3 DEF Fits, Rows
    <3> DEFINE n == Len(Rows)
    <3>2. n \in Nat /\ n <= 1
        BY <1>10, <3>1
    <3> HIDE DEF n
    <3>3. n = 0 \/ n = 1
        BY <3>2
    <3> QED  BY <3>3 DEF n
  <2>5. Len(Rows) = 0 => Rows = <<>>
    <3>1. PICK U : AreRows(U) /\ loaded \in Seq([values : U, truth : U])
        BY DEF RowsTyped, StepInv
    <3>2. loaded[var] \in [values : U, truth : U]
        BY <1>2, <3>1, ElementOfSeq
    <3>3. Rows \in Seq([val : Nat, child : U])
        BY <3>1, <3>2 DEF Rows, AreRows
    <3> QED  BY <3>3, EmptySeq
  <2>6. getLevel' = 1 /\ wants' = "value"
      BY <1>1
  <2> QED  BY <1>6, <1>8, <2>2, <2>4, <2>5, <2>6 DEF TwoSent
<1> QED  BY <1>4, <1>5, <1>11, <1>12, <1>13 DEF DataInv

\* The rows of the variable at work, and those of the only row of two levels.
LEMMA RowsAre ==
    ASSUME StepInv, DataInv, var \in 1 .. Len(loaded)
    PROVE  /\ Len(Rows) \in Nat
           /\ \A k \in 1 .. Len(Rows) : Rows[k] = Row(Rows[k].val, Rows[k].child)
                                        /\ Rows[k].val \in Nat /\ Len(Rows[k].child) \in Nat
           /\ Rows # <<>> => Len(Rows) > 0
<1>1. PICK U : AreRows(U) /\ loaded \in Seq([values : U, truth : U])
    BY DEF RowsTyped, StepInv
<1>2. loaded[var] \in [values : U, truth : U]
    BY <1>1, ElementOfSeq
<1>3. Rows \in U
    BY <1>2 DEF Rows
<1>4. Len(Rows) \in Nat
    BY <1>1, <1>3, RowsLen
<1>5. \A k \in 1 .. Len(Rows) : Rows[k] = Row(Rows[k].val, Rows[k].child)
                                /\ Rows[k].val \in Nat /\ Rows[k].child \in U
  <2> TAKE k \in 1 .. Len(Rows)
  <2> QED  BY <1>1, <1>3, RowOf
<1>6. \A k \in 1 .. Len(Rows) : Len(Rows[k].child) \in Nat
    BY <1>1, <1>5, RowsLen
<1>7. Rows # <<>> => Len(Rows) > 0
  <2>1. Rows \in Seq([val : Nat, child : U])
      BY <1>1, <1>3 DEF AreRows
  <2> QED  BY <2>1, EmptySeq
<1> QED  BY <1>4, <1>5, <1>6, <1>7

LEMMA SendChildData ==
    ASSUME StepInv, DataInv, SendChild
    PROVE  DataInv'
<1> USE DEF SendChild
<1>1. /\ GetCount(Len(RowAt(0).child))
      /\ getLevel' = sendLevel + 1 /\ wants' = "value"
    BY SendChildStep
<1>2. /\ sends = "count" /\ level = 0 /\ Depth \in Depths /\ Depth \in Nat
      /\ var \in 1 .. Len(loaded)
    BY WhileSending
<1>3. UNCHANGED <<vars4, var, reading, got, received, cell, loaded>>
    BY <1>1 DEF Sends, SendSequence, GetCount, reading
<1>4. LoadedFits' /\ ReadsOne' /\ ReadsTwo'
    BY <1>2, <1>3, SendingData
<1>5. GotFits'
    BY <1>3, GotSame DEF DataInv
<1>6. Depth' = Depth /\ Rows' = Rows
    BY <1>3 DEF Depth, Rows
<1>7. /\ wants = "count" /\ getLevel = sendLevel /\ sendLevel > 0 /\ sendLevel < Depth
      /\ sendLevel \in Nat
    BY <1>2, NestingBound DEF StepInv, AtCount, ServerTyped
<1>8. sends' = "value" /\ Depth > 1
    BY <1>2, <1>7 DEF SendSequence
<1>9. NoneBegun' /\ ScalarSent' /\ OneSent'
    BY <1>6, <1>8 DEF NoneBegun, ScalarSent, OneSent
<1>10. TwoSent'
  <2> SUFFICES ASSUME Depth = 2, Len(loaded[var].truth) <= 1 PROVE TwoSent'
      BY <1>3, <1>6 DEF TwoSent
  <2>1. sendLevel = 1
      BY <1>7
  <2>2. 1 \in Nesting /\ 2 \in Nesting
      BY <1>2, NestingBound DEF Depths, Nesting
  <2>3. TwoSent
      BY DEF DataInv
  <2>4. rowsAt[1] = Rows /\ Begun /\ received[2] = <<>>
      BY <1>2, <1>7, <2>3 DEF TwoSent
  <2>5. RowAt(0) = Rows[1]
      BY <2>1, <2>4 DEF RowAt, Begun
  <2> DEFINE c == Rows[1].child
             n == Len(c)
  <2>6. n \in Nat
      BY <1>2, <2>4, RowsAre DEF Begun
  <2>7. /\ rowsAt' = [rowsAt EXCEPT ![2] = c] /\ toSend' = [toSend EXCEPT ![2] = n]
        /\ length' = [length EXCEPT ![2] = n] /\ getLevel' = 2
    <3>1. sendLevel' = 2 /\ getLevel' = 2
        BY <1>1, <1>7, <2>1 DEF SendSequence
    <3>2. SendSequence(c) /\ GetCount(n)
        BY <1>1, <2>5
    <3> QED  BY <3>1, <3>2 DEF SendSequence, GetCount
  <2>8. DOMAIN rowsAt = Nesting /\ DOMAIN toSend = Nesting /\ DOMAIN length = Nesting
      BY DEF StepInv, RowsTyped, ServerTyped, ClientTyped
  <2> HIDE DEF c, n
  <2>9. /\ rowsAt'[1] = rowsAt[1] /\ rowsAt'[2] = c /\ toSend'[1] = toSend[1] /\ toSend'[2] = n
        /\ length'[2] = n
      BY <2>2, <2>7, <2>8
  <2>10. Begun'
      BY <1>3, <1>6, <2>4, <2>9 DEF Begun
  <2>11. FirstOf(received'[2], c, n - toSend'[2])
      BY <1>3, <2>4, <2>6, <2>9 DEF FirstOf
  <2>12. c = Rows[1].child /\ n = Len(Rows[1].child)
      BY DEF c, n
  <2> QED  BY <1>1, <1>6, <2>4, <2>7, <2>9, <2>10, <2>11, <2>12 DEF TwoSent
<1> QED  BY <1>4, <1>5, <1>9, <1>10 DEF DataInv

LEMMA SequenceSentData ==
    ASSUME StepInv, DataInv, SequenceSent
    PROVE  DataInv'
<1> USE DEF SequenceSent
<1>1. sends' = "checksum" => wants = "checksum" /\ sendLevel = 1 /\ toSend[sendLevel] = 0
    BY SequenceSentStep
<1>2. /\ sends = "value" /\ level = 0 /\ Depth \in Nat
    BY WhileSending
<1>3. UNCHANGED <<vars4, var, reading, got, received, cell, loaded, rowsAt, toSend, digest,
                  wants, getLevel, length>>
    BY DEF Sends, receiving, reading
<1>4. LoadedFits' /\ ReadsOne' /\ ReadsTwo'
    BY <1>2, <1>3, SendingData
<1>5. GotFits'
    BY <1>3, GotSame DEF DataInv
<1>6. Depth' = Depth /\ Rows' = Rows /\ sends' \in {"value", "checksum"}
    BY <1>3 DEF Depth, Rows
<1>7. Depth > 0
    BY <1>2, NestingBound DEF StepInv, AtValue, ServerTyped
<1>8. NoneBegun' /\ ScalarSent'
    BY <1>6, <1>7 DEF NoneBegun, ScalarSent
<1>9. OneSent'
  <2>1. OneSent
      BY DEF DataInv
  <2> QED  BY <1>1, <1>2, <1>3, <1>6, <2>1 DEF OneSent
<1>10. TwoSent'
  <2>1. TwoSent
      BY DEF DataInv
  <2>2. Begun' <=> Begun
      BY <1>3, <1>6 DEF Begun
  <2>3. CASE Depth = 2 /\ Len(loaded[var].truth) <= 1
      BY <1>2, <1>3, <1>6, <2>1, <2>2, <2>3 DEF TwoSent
  <2>4. CASE ~(Depth = 2 /\ Len(loaded[var].truth) <= 1)
      BY <1>3, <1>6, <2>4 DEF TwoSent
  <2> QED  BY <2>3, <2>4
<1> QED  BY <1>4, <1>5, <1>8, <1>9, <1>10 DEF DataInv

LEMMA ClientEndsData ==
    ASSUME StepInv, DataInv, ClientEnds
    PROVE  DataInv'
<1>1. /\ sends = "value" /\ getLevel \in Nesting /\ getLevel <= sendLevel
      /\ toSend[getLevel] = 0
    BY ClientEndsStep
<1>2. UNCHANGED <<todo, vars4, var, reading, sending, toCome, length, cell, got>>
    BY DEF ClientEnds
<1>3. wants = "value" /\ getLevel' = getLevel - 1
    BY DEF ClientEnds, InstanceEnds
<1>4. UNCHANGED <<loaded, level, values, truth, sends, sendLevel, rowsAt, toSend, digest>>
    BY <1>2 DEF reading, sending
<1>5. LoadedFits' /\ ReadsOne' /\ ReadsTwo'
  <2>1. Depth' = Depth
      BY <1>2 DEF Depth
  <2> QED  BY <1>2, <1>4, <2>1 DEF DataInv, LoadedFits, ReadsOne, ReadsTwo
<1>6. GotFits'
    BY <1>2, GotSame DEF DataInv
<1>7. Depth' = Depth /\ Rows' = Rows
    BY <1>2, <1>4 DEF Depth, Rows
<1>8. NoneBegun' /\ ScalarSent'
    BY <1>1, <1>4 DEF NoneBegun, ScalarSent
<1>9. /\ todo = "send" /\ var \in 1 .. Len(loaded)
      /\ sendLevel > 0 /\ sendLevel <= Depth /\ sendLevel \in Nat
      /\ getLevel \in Nat /\ getLevel > 0
    BY <1>1, <1>3, NestingBound, LenProperties
       DEF StepInv, Ordered, AtValue, ServerTyped, RowsTyped, ClientEnds, InstanceEnds
<1>10. Depth \in Depths
    BY <1>9, ElementOfSeq DEF StepInv, Ordered, ServerTyped, Depth
<1>11. OneSent'
  <2>1. CASE Depth = 1
    <3>1. getLevel = 1
        BY <1>1, <1>9, <2>1
    <3>2. received' = received
        BY <3>1 DEF ClientEnds
    <3>3. OneSent
        BY DEF DataInv
    <3> QED  BY <1>4, <1>7, <3>2, <3>3 DEF OneSent
  <2>2. CASE Depth # 1
      BY <1>7, <2>2 DEF OneSent
  <2> QED  BY <2>1, <2>2
<1>12. TwoSent'
  <2> SUFFICES ASSUME Depth = 2, Len(loaded[var].truth) <= 1 PROVE TwoSent'
      BY <1>2, <1>4, <1>7 DEF TwoSent
  <2>1. TwoSent
      BY DEF DataInv
  <2>2. rowsAt[1] = Rows
      BY <1>1, <2>1 DEF TwoSent
  <2>3. CASE getLevel = 1
    <3>1. received' = received /\ wants' = "checksum"
        BY <2>3 DEF ClientEnds
    <3>2. received[1] = Rows
        BY <1>1, <1>3, <2>1, <2>3 DEF TwoSent
    <3> QED  BY <1>4, <1>7, <2>2, <3>1, <3>2 DEF TwoSent
  <2>4. CASE getLevel = 2
    <3> DEFINE c == Rows[1].child
               r == received[2]
    <3>1. /\ Begun /\ length[2] = Len(c)
          /\ FirstOf(r, c, Len(c) - toSend[2])
        BY <1>1, <1>3, <2>1, <2>4 DEF TwoSent
    <3>2. Rows[1] = Row(Rows[1].val, c) /\ Len(c) \in Nat
        BY <1>9, <3>1, RowsAre DEF Begun
    <3>3. FirstOf(r, c, Len(c))
      <4>1. Len(c) - toSend[2] = Len(c)
          BY <1>1, <2>4, <3>2
      <4> QED  BY <3>1, <4>1
    <3>4. PICK U : AreRows(U) /\ loaded \in Seq([values : U, truth : U])
        BY DEF RowsTyped, StepInv
    <3>5. Rows \in U
      <4>1. loaded[var] \in [values : U, truth : U]
          BY <1>9, <3>4, ElementOfSeq
      <4> QED  BY <4>1 DEF Rows
    <3>6. c \in U
      <4>1. 1 \in 1 .. Len(Rows)
          BY <3>1 DEF Begun
      <4> QED  BY <3>4, <3>5, <4>1, RowOf
    <3>7. PICK S : received \in [Depths -> Seq(S)]
        BY DEF StepInv, ClientTyped
    <3>8. r \in Seq(S) /\ 1 \in Depths
      <4>1. 1 \in Depths /\ 2 \in Depths
          BY <1>10, NestingBound DEF Depths
      <4> QED  BY <3>7, <4>1
    <3>9. r = c
      <4> HIDE DEF r, c
      <4> QED  BY <3>3, <3>4, <3>6, <3>8, SameRows
    <3>10. SubSeq(r, 1, length[2]) = c
      <4>1. SubSeq(r, 1, Len(r)) = r
          BY <3>8, SubSeqFull
      <4> QED  BY <3>1, <3>9, <4>1
    <3>11. /\ wants' = wants
           /\ received' = [received EXCEPT ![1] = Append(@, Row(cell[1], SubSeq(r, 1, length[2])))]
        BY <1>3, <2>4 DEF ClientEnds
    <3>12. received'[1] = Append(<<>>, Row(Rows[1].val, c))
        BY <3>1, <3>7, <3>8, <3>10, <3>11 DEF Begun
    <3>13. Rows = <<Rows[1]>>
      <4>1. Rows \in Seq([val : Nat, child : U])
          BY <3>4, <3>5 DEF AreRows
      <4>2. Len(Rows) = 1
          BY <3>1 DEF Begun
      <4> QED  BY <4>1, <4>2
    <3>14. received'[1] = Rows
        BY <3>2, <3>12, <3>13
    <3>15. getLevel' = 1 /\ toSend'[1] = 0
        BY <1>3, <1>4, <2>4, <3>1 DEF Begun
    <3> QED  BY <1>3, <1>4, <1>7, <2>2, <3>11, <3>14, <3>15 DEF TwoSent
  <2> QED  BY <1>1, <1>9, <2>3, <2>4
<1> QED  BY <1>5, <1>6, <1>8, <1>11, <1>12 DEF DataInv

LEMMA SendValueData ==
    ASSUME StepInv, DataInv, SendValue
    PROVE  DataInv'
<1>1. /\ getLevel = sendLevel /\ UNCHANGED <<getLevel, length, got>>
      /\ sendLevel < Depth => received' = received /\ wants' = "count"
      /\ sendLevel = Depth =>
            /\ received' = [received EXCEPT ![sendLevel] = Append(@, Row(RowAt(1).val, <<>>))]
            /\ wants' = "value"
      /\ cell' = [cell EXCEPT ![sendLevel] = RowAt(1).val]
    BY SendValueStep
<1>2. /\ wants = "value" /\ getLevel = sendLevel
      /\ sendLevel \in Nesting /\ sendLevel <= Depth
      /\ toSend[sendLevel] \in Nat /\ toSend[sendLevel] <= Len(rowsAt[sendLevel])
      /\ toSend[sendLevel] > 0
    BY SendsRow DEF SendValue
<1>3. /\ sends = "value" /\ level = 0 /\ Depth \in Nat /\ var \in 1 .. Len(loaded)
      /\ Depth \in Depths
    BY WhileSending DEF SendValue
<1>4. /\ UNCHANGED <<vars4, var, reading, rowsAt, sendLevel, loaded>>
      /\ toSend' = [toSend EXCEPT ![sendLevel] = @ - 1]
      /\ digest' = Append(digest, RowAt(1).val)
      /\ sends' = IF sendLevel < Depth THEN "count" ELSE "value"
    BY DEF SendValue, Sends, reading
<1>5. LoadedFits' /\ ReadsOne' /\ ReadsTwo'
    BY <1>3, <1>4, SendingData
<1>6. GotFits'
    BY <1>1, <1>4, GotSame DEF DataInv
<1>7. Depth' = Depth /\ Rows' = Rows
    BY <1>4 DEF Depth, Rows
<1>8. sendLevel \in Nat /\ sendLevel > 0 /\ sendLevel \in Depths /\ sends' # "begin"
      /\ sends' # "checksum"
    BY <1>2, <1>4, NestingBound DEF Nesting, Depths
<1>9. NoneBegun' /\ ScalarSent'
    BY <1>8 DEF NoneBegun, ScalarSent
<1>10. PICK U : /\ AreRows(U) /\ loaded \in Seq([values : U, truth : U])
                /\ rowsAt \in [Nesting -> U]
    BY DEF RowsTyped, StepInv
<1>11. PICK S : received \in [Depths -> Seq(S)]
    BY DEF StepInv, ClientTyped
<1>12. toSend \in [Nesting -> Nat] /\ cell \in [Nesting -> Nat]
    BY DEF StepInv, ServerTyped, ClientTyped
<1>13. Fits(Depth, loaded[var])
    BY <1>3 DEF DataInv, LoadedFits, Depth
\* what a row of a leaf adds to the rows that were received
<1>14. ASSUME sendLevel = Depth, NEW rows \in U, rowsAt[sendLevel] = rows, Leaves(rows),
              FirstOf(received[sendLevel], rows, Len(rows) - toSend[sendLevel])
       PROVE  /\ FirstOf(received'[sendLevel], rows, Len(rows) - toSend'[sendLevel])
              /\ RowAt(1) = rows[Len(rows) - toSend[sendLevel] + 1]
              /\ RowAt(1).val \in Nat
  <2> DEFINE s0 == sendLevel
             n == Len(rows) - toSend[s0]
             r == Row(RowAt(1).val, <<>>)
  <2>1. Len(rows) \in Nat
      BY <1>10, <1>14, RowsLen
  <2>2. n \in Nat /\ n + 1 \in 1 .. Len(rows)
      BY <1>2, <1>14, <2>1
  <2>3. RowAt(1) = rows[n + 1]
      BY <1>14 DEF RowAt
  <2>4. /\ rows[n + 1] = Row(rows[n + 1].val, rows[n + 1].child)
        /\ rows[n + 1].val \in Nat
    <3> HIDE DEF n
    <3> QED  BY <1>10, <1>14, <2>2, RowOf
  <2>5. rows[n + 1].child = <<>>
      BY <1>14, <2>2 DEF Leaves
  <2>6. r = rows[n + 1]
      BY <2>3, <2>4, <2>5
  <2>7. received[s0] \in Seq(S)
      BY <1>8, <1>11
  <2>8. FirstOf(received[s0], rows, n)
      BY <1>14
  <2>9. received'[s0] = Append(received[s0], r)
      BY <1>1, <1>8, <1>11, <1>14
  <2>10. Len(rows) - toSend'[s0] = n + 1
    <3>1. toSend'[s0] = toSend[s0] - 1
        BY <1>2, <1>4, <1>12
    <3> QED  BY <1>2, <2>1, <3>1
  <2>11. FirstOf(Append(received[s0], r), rows, n + 1)
    <3> HIDE DEF r, n
    <3> QED  BY <2>2, <2>6, <2>7, <2>8, FirstGrows
  <2> QED  BY <2>3, <2>4, <2>9, <2>10, <2>11
<1>15. OneSent'
  <2> SUFFICES ASSUME Depth = 1 PROVE OneSent'
      BY <1>7 DEF OneSent
  <2>1. sendLevel = 1 /\ sendLevel = Depth
      BY <1>2, <1>8
  <2>2. OneSent
      BY DEF DataInv
  <2>3. /\ rowsAt[1] = Rows
        /\ FirstOf(received[1], Rows, Len(Rows) - toSend[1])
        /\ ValuesOf(digest, Rows) /\ Len(digest) = Len(Rows) - toSend[1]
      BY <1>3, <2>2 DEF OneSent
  <2>4. Rows \in U
    <3>1. loaded[var] \in [values : U, truth : U]
        BY <1>3, <1>10, ElementOfSeq
    <3> QED  BY <3>1 DEF Rows
  <2>5. Leaves(Rows)
      BY <1>13 DEF Fits, Rows
  <2>6. /\ FirstOf(received'[1], Rows, Len(Rows) - toSend'[1])
        /\ RowAt(1) = Rows[Len(Rows) - toSend[1] + 1]
        /\ RowAt(1).val \in Nat
      BY <1>14, <2>1, <2>3, <2>4, <2>5
  <2>7. ValuesOf(digest', Rows) /\ Len(digest') = Len(digest) + 1
    <3>1. digest \in Seq(Nat)
        BY DEF StepInv, ServerTyped
    <3> DEFINE x == RowAt(1).val
    <3>2. x = Rows[Len(digest) + 1].val /\ x \in Nat /\ digest' = Append(digest, x)
        BY <1>4, <2>3, <2>6
    <3> HIDE DEF x
    <3> QED  BY <2>3, <3>1, <3>2, ValuesGrow
  <2>8. Len(digest') = Len(Rows) - toSend'[1]
    <3>1. toSend'[1] = toSend[1] - 1 /\ toSend[1] \in Nat
        BY <1>2, <1>4, <1>12, <2>1
    <3>2. Len(Rows) \in Nat
        BY <1>10, <2>4, RowsLen
    <3> QED  BY <2>3, <2>7, <3>1, <3>2
  <2>9. rowsAt'[1] = Rows /\ sends' = "value"
      BY <1>4, <2>1, <2>3
  <2> QED  BY <1>7, <2>6, <2>7, <2>8, <2>9 DEF OneSent
<1>16. TwoSent'
  <2> SUFFICES ASSUME Depth = 2, Len(loaded[var].truth) <= 1 PROVE TwoSent'
      BY <1>4, <1>7 DEF TwoSent
  <2>1. TwoSent
      BY DEF DataInv
  <2>2. rowsAt[1] = Rows
      BY <1>3, <2>1 DEF TwoSent
  <2>3. 1 \in Nesting /\ 2 \in Nesting
      BY <1>3, NestingBound DEF Nesting, Depths
  <2>4. CASE sendLevel = 1
    <3>1. Len(Rows) = 1 /\ toSend[1] = 1 /\ received[1] = <<>> /\ received[2] = <<>>
        BY <1>2, <1>3, <2>1, <2>4 DEF TwoSent
    <3>2. RowAt(1) = Rows[1]
        BY <2>2, <2>4, <3>1 DEF RowAt
    <3>3. toSend'[1] = 0 /\ cell'[1] = Rows[1].val
        BY <1>1, <1>4, <1>12, <2>3, <2>4, <3>1, <3>2
    <3>4. received' = received /\ wants' = "count"
        BY <1>1, <2>4
    <3>5. Begun'
        BY <1>7, <3>1, <3>3, <3>4 DEF Begun
    <3> QED  BY <1>4, <1>7, <2>2, <3>1, <3>4, <3>5 DEF TwoSent
  <2>5. CASE sendLevel = 2
    <3> DEFINE c == Rows[1].child
    <3>1. /\ Begun /\ rowsAt[2] = c /\ length[2] = Len(c)
          /\ FirstOf(received[2], c, Len(c) - toSend[2])
        BY <1>2, <1>3, <2>1, <2>5 DEF TwoSent
    <3>2. c \in U
      <4>1. loaded[var] \in [values : U, truth : U]
          BY <1>3, <1>10, ElementOfSeq
      <4>2. Rows \in U /\ 1 \in 1 .. Len(Rows)
          BY <3>1, <4>1 DEF Rows, Begun
      <4> QED  BY <1>10, <4>2, RowOf
    <3>3. Leaves(c)
      <4>1. loaded[var].values = loaded[var].truth
            /\ \A k \in 1 .. Len(loaded[var].truth) : Leaves(loaded[var].truth[k].child)
          BY <1>13 DEF Fits
      <4>2. Len(loaded[var].truth) = 1
          BY <3>1, <4>1 DEF Begun, Rows
      <4> QED  BY <4>1, <4>2 DEF Rows
    <3>4. FirstOf(received'[2], c, Len(c) - toSend'[2])
      <4> HIDE DEF c
      <4> QED  BY <1>14, <2>5, <3>1, <3>2, <3>3
    <3>5. wants' = "value" /\ received'[1] = received[1]
        BY <1>1, <1>8, <1>11, <2>5, NestingBound DEF Depths
    <3>6. toSend'[1] = toSend[1] /\ cell'[1] = cell[1]
        BY <1>1, <1>4, <1>12, <2>3, <2>5
    <3>7. Begun'
        BY <1>7, <3>1, <3>5, <3>6 DEF Begun
    <3>8. getLevel' = 2 /\ length' = length /\ rowsAt' = rowsAt
        BY <1>1, <1>4, <2>5
    <3> QED  BY <1>7, <2>2, <3>1, <3>4, <3>5, <3>7, <3>8 DEF TwoSent
  <2> QED  BY <1>2, <1>8, <2>4, <2>5
<1> QED  BY <1>5, <1>6, <1>9, <1>15, <1>16 DEF DataInv

LEMMA SendChecksumData ==
    ASSUME StepInv, DataInv, SendChecksum
    PROVE  DataInv'
<1> USE DEF SendChecksum
<1>1. /\ got' = Append(got, [values |-> received[IF Depth = 0 THEN 0 ELSE 1],
                             checksum |-> digest])
      /\ received' = Nothing
    BY SendChecksumStep
<1>2. /\ sends = "checksum" /\ level = 0 /\ Depth \in Depths /\ Depth \in Nat
      /\ var \in 1 .. Len(loaded) /\ Len(got) = var - 1
    BY WhileSending
<1>3. UNCHANGED <<vars4, reading, loaded>> /\ sends' = "begin"
    BY DEF Sends, reading
<1>4. LoadedFits' /\ ReadsOne' /\ ReadsTwo'
    BY <1>2, <1>3, SendingData
<1>5. NoneBegun' /\ ScalarSent' /\ OneSent' /\ TwoSent'
    BY <1>1, <1>3 DEF NoneBegun, ScalarSent, OneSent, TwoSent
<1> DEFINE w == loaded[var]
           g == [values |-> received[IF Depth = 0 THEN 0 ELSE 1], checksum |-> digest]
<1>6. Fits(Depth, w)
    BY <1>2 DEF DataInv, LoadedFits, Depth
<1>7. wants = "checksum" /\ digest \in Seq(Nat)
    BY <1>2 DEF StepInv, AtChecksum, ServerTyped
<1>8. GotFit(Depth, w, g)
  <2>1. g.checksum = digest /\ g.values = received[IF Depth = 0 THEN 0 ELSE 1]
      OBVIOUS
  <2>2. CASE Depth = 0
    <3>1. received[0] = Scalar /\ digest = <<1>>
        BY <1>2, <2>2 DEF DataInv, ScalarSent
    <3>2. w.truth = Scalar
        BY <1>6, <2>2 DEF Fits
    <3>3. ValuesOf(<<1>>, Scalar) /\ Len(Scalar) = 1
        BY DEF ValuesOf, Scalar, Row
    <3> HIDE DEF g, w
    <3> QED  BY <1>7, <2>1, <2>2, <3>1, <3>2, <3>3 DEF GotFit
  <2>3. CASE Depth = 1
    <3>1. OneSent
        BY DEF DataInv
    <3>2. /\ FirstOf(received[1], Rows, Len(Rows) - toSend[1])
          /\ ValuesOf(digest, Rows) /\ Len(digest) = Len(Rows) - toSend[1]
          /\ toSend[1] = 0
        BY <1>2, <2>3, <3>1 DEF OneSent
    <3>3. Len(Rows) \in Nat
        BY <1>2, RowsAre
    <3>4. FirstOf(received[1], Rows, Len(Rows)) /\ Len(digest) = Len(Rows)
      <4>1. Len(Rows) - toSend[1] = Len(Rows)
          BY <3>2, <3>3
      <4> QED  BY <3>2, <4>1
    <3>5. received[1] = Rows
      <4>1. PICK U : AreRows(U) /\ loaded \in Seq([values : U, truth : U])
          BY DEF RowsTyped, StepInv
      <4>2. Rows \in U
        <5>1. loaded[var] \in [values : U, truth : U]
            BY <1>2, <4>1, ElementOfSeq
        <5> QED  BY <5>1 DEF Rows
      <4>3. PICK S : received \in [Depths -> Seq(S)]
          BY DEF StepInv, ClientTyped
      <4>4. received[1] \in Seq(S)
          BY <1>2, <2>3, <4>3
      <4> QED  BY <3>4, <4>1, <4>2, <4>4, SameRows
    <3>6. w.values = w.truth /\ Rows = w.values
        BY <1>6, <2>3 DEF Fits, Rows
    <3> HIDE DEF g, w
    <3> QED  BY <1>7, <2>1, <2>3, <3>2, <3>4, <3>5, <3>6 DEF GotFit
  <2>4. CASE Depth = 2 /\ Len(w.truth) <= 1
    <3>1. TwoSent
        BY DEF DataInv
    <3>2. received[1] = Rows
        BY <1>2, <1>7, <2>4, <3>1 DEF TwoSent
    <3>3. w.values = w.truth /\ Rows = w.values
        BY <1>6, <2>4 DEF Fits, Rows
    <3> HIDE DEF g, w
    <3> QED  BY <2>1, <2>4, <3>2, <3>3 DEF GotFit
  <2>5. CASE Depth > 1 /\ ~(Depth = 2 /\ Len(w.truth) <= 1)
    <3> HIDE DEF g, w
    <3> QED  BY <1>2, <2>5 DEF GotFit
  <2> QED  BY <1>2, <2>2, <2>3, <2>4, <2>5
<1>9. got' = Append(got, g)
    BY <1>1
<1> HIDE DEF g
<1>10. /\ Len(got') = Len(got) + 1 /\ Len(got) \in Nat
       /\ \A v \in 1 .. Len(got) : got'[v] = got[v]
       /\ got'[Len(got) + 1] = g
  <2>1. PICK S : got \in Seq(S)
      BY DEF StepInv, ClientTyped
  <2> DEFINE T == S \cup {g}
  <2>2. S \subseteq T /\ g \in T
      OBVIOUS
  <2> HIDE DEF T
  <2>3. got \in Seq(T)
      BY <2>1, <2>2, SeqMonotonic
  <2> QED  BY <1>9, <2>2, <2>3, AppendProperties, LenProperties
<1>11. GotFits'
  <2>1. Len(got') = var /\ var <= Len(loaded') /\ var \in Nat
      BY <1>2, <1>3, <1>10 DEF StepInv, ServerTyped
  <2>2. \A v \in 1 .. var : GotFit(vars4[v], loaded[v], got'[v])
    <3> TAKE v \in 1 .. var
    <3>1. CASE v = var
      <4>1. got'[v] = g
          BY <1>2, <1>10, <2>1, <3>1
      <4> QED  BY <1>8, <3>1, <4>1 DEF Depth
    <3>2. CASE v # var
      <4>1. v \in 1 .. Len(got) /\ got'[v] = got[v]
          BY <1>2, <1>10, <2>1, <3>2
      <4> QED  BY <4>1 DEF DataInv, GotFits
    <3> QED  BY <3>1, <3>2
  <2> QED  BY <1>3, <2>1, <2>2 DEF GotFits
<1> QED  BY <1>4, <1>5, <1>11 DEF DataInv

\* Every step keeps the data right.
LEMMA DataStep == StepInv /\ DataInv /\ [D4Next]_d4Vars => DataInv'
<1> SUFFICES ASSUME StepInv, DataInv, [D4Next]_d4Vars PROVE DataInv'
    OBVIOUS
<1>1. CASE \E n \in 1 .. MaxVars : \E depths \in [1 .. n -> 0 .. MaxNesting] :
              \E first \in {"intern", "send"} : Request(depths, first)
    BY <1>1, RequestData
<1>2. CASE \E passes \in BOOLEAN : ReadNextInstance(passes)
    BY <1>2, ReadNextInstanceData
<1>3. CASE ReadScalar \/ ReadOutermost \/ EndOfInstance \/ Interned
    BY <1>3, ReadScalarData, ReadOutermostData, EndOfInstanceData, InternedData
<1>4. CASE SendScalar \/ SendOutermost \/ SendChild
    BY <1>4, SendScalarData, SendOutermostData, SendChildData
<1>5. CASE SendValue \/ SequenceSent \/ SendChecksum \/ ClientEnds
    BY <1>5, SendValueData, SequenceSentData, SendChecksumData, ClientEndsData
<1>6. CASE UNCHANGED d4Vars
  <2>1. UNCHANGED <<vars4, var, level, values, loaded, truth, sends, rowsAt, toSend, digest,
                    wants, getLevel, length, cell, received, got>>
      BY <1>6 DEF d4Vars, reading, sending, receiving
  <2>2. LoadedFits' /\ ReadsOne' /\ ReadsTwo' /\ GotFits'
      BY <2>1 DEF DataInv, LoadedFits, ReadsOne, ReadsTwo, GotFits, Depth
  <2>3. NoneBegun' /\ ScalarSent' /\ OneSent' /\ TwoSent'
      BY <2>1 DEF DataInv, NoneBegun, ScalarSent, OneSent, TwoSent, Begun, Rows, Depth
  <2> QED  BY <2>2, <2>3 DEF DataInv
<1> QED  BY <1>1, <1>2, <1>3, <1>4, <1>5, <1>6 DEF D4Next

\* The property follows for each variable that has come.
LEMMA DataIsRight == StepInv /\ DataInv => AllAndOnlyOnce
<1> SUFFICES ASSUME StepInv, DataInv, NEW v \in DOMAIN got
             PROVE  /\ vars4[v] <= 1 \/ (ReadOnce(loaded[v].truth) /\ vars4[v] = 2)
                          => got[v].values = loaded[v].truth
                    /\ vars4[v] <= 1 => got[v].checksum = [k \in DOMAIN got[v].values |->
                                                             got[v].values[k].val]
    BY DEF AllAndOnlyOnce
<1>1. v \in 1 .. Len(got) /\ v \in 1 .. Len(loaded)
  <2>1. PICK S : got \in Seq(S)
      BY DEF StepInv, ClientTyped
  <2>2. v \in 1 .. Len(got) /\ Len(got) \in Nat
      BY <2>1, LenProperties
  <2>3. PICK U : loaded \in Seq([values : U, truth : U])
      BY DEF RowsTyped, StepInv
  <2>4. Len(loaded) \in Nat /\ Len(got) <= Len(loaded)
      BY <2>3, LenProperties DEF DataInv, GotFits
  <2> QED  BY <2>2, <2>4
<1>2. GotFit(vars4[v], loaded[v], got[v])
    BY <1>1 DEF DataInv, GotFits
<1>3. vars4[v] <= 1 \/ (ReadOnce(loaded[v].truth) /\ vars4[v] = 2)
          => got[v].values = loaded[v].truth
    BY <1>2 DEF GotFit, ReadOnce
<1>4. ASSUME vars4[v] <= 1
      PROVE  got[v].checksum = [k \in DOMAIN got[v].values |-> got[v].values[k].val]
  <2> DEFINE c == got[v].checksum
             rows == got[v].values
  <2>1. ValuesOf(c, rows) /\ Len(c) = Len(rows) /\ c \in Seq(Nat) /\ rows = loaded[v].truth
      BY <1>2, <1>4 DEF GotFit
  <2>2. PICK U : AreRows(U) /\ loaded \in Seq([values : U, truth : U])
      BY DEF RowsTyped, StepInv
  <2>3. rows \in U
    <3>1. loaded[v] \in [values : U, truth : U]
        BY <1>1, <2>2, ElementOfSeq
    <3> QED  BY <2>1, <3>1
  <2> HIDE DEF c, rows
  <2>4. DOMAIN rows = 1 .. Len(rows)
      BY <2>2, <2>3, LenProperties DEF AreRows
  <2>5. c = [k \in 1 .. Len(c) |-> c[k]]
      BY <2>1, LenProperties
  <2>6. c = [k \in DOMAIN rows |-> rows[k].val]
      BY <2>1, <2>4, <2>5 DEF ValuesOf
  <2> QED  BY <2>6 DEF c, rows
<1> QED  BY <1>3, <1>4

\* What read_next_instance() keeps of a variable, what was sent of it, and what
\* the client has of it, in every state.
THEOREM DataInvariance == D4Spec => [](StepInv /\ DataInv)
<1>1. D4Init => StepInv /\ DataInv
    BY FirstInStep, FirstData
<1>2. StepInv /\ DataInv /\ [D4Next]_d4Vars => (StepInv /\ DataInv)'
    BY D4Step, DataStep
<1> QED  BY <1>1, <1>2, PTL DEF D4Spec

\* The client gets the rows that the filter lets pass and no others, and the
\* checksum of just these, for any number of variables and rows: scalars,
\* Sequences, and a Sequence in a Sequence that has one row at most.
THEOREM AlwaysAllAndOnlyOnce == D4Spec => []AllAndOnlyOnce
BY DataInvariance, DataIsRight, PTL
====
