---- MODULE DMRParser ----
(***************************************************************************)
(* The parser of the DMR, the description of a DAP4 data set: the SAX      *)
(* callbacks of D4ParserSax2 (D4ParserSax2.cc, D4ParserSax2.h).            *)
(*                                                                         *)
(* libxml2 calls them for the tags of a document, one after the other and  *)
(* properly nested.  The parser keeps four stacks that its callbacks push  *)
(* and pop one by one: its states, the variables, the groups and the       *)
(* attribute tables.                                                       *)
(*                                                                         *)
(* An element is known by its number in the document, and so is what is    *)
(* made of it; the Dataset is number 1.  Of its XML attributes there is    *)
(* only whether they are as they must be.  The document is one that        *)
(* DMR::print_dap4() writes, or any.                                       *)
(***************************************************************************)
EXTENDS Integers, Sequences, SequencesExt

CONSTANTS
    MaxPrinted,     \* bound: elements of a document written by print_dap4()
    MaxElements     \* bound: elements of any document

ASSUME DocumentsAssumption == {MaxPrinted, MaxElements} \subseteq Nat

VARIABLES
    source,     \* "printed", "any", or "none" before there is a document
    strict,     \* a Map whose data are not found is an error
    unclosed,       \* the elements that have begun and not ended
    count,      \* elements so far
    parser,     \* the parser's stacks, and what it works on
    made,       \* what is in the DMR: which node is in which, as what
    written,    \* what the document says
    started,    \* a start tag was refused
    result      \* of intern(): "none" while it runs, "accepted", "error",
                \* "exception", or "undefined" after the misuse of a stack

dmrVars == <<source, strict, unclosed, count, parser, made, written, started, result>>

Root == 1
Variables == {"Simple", "Structure"}
Attributes == {"Container", "OtherXML", "Attribute"}
Kinds == Variables \cup Attributes \cup
         {"Dataset", "Group", "Value", "Enumeration", "EnumConst", "Dimension",
          "Dim", "Map", "Xml", "Foreign"}
Tag(kind) == IF kind \in Attributes THEN "Attribute" ELSE kind

\* "short" of a required XML attribute, or "bad": a value that does not fit, or
\* a name that is not found
Grades(kind) ==
    {"good"} \cup (IF kind \in {"Value", "Xml", "Foreign"} THEN {} ELSE {"short"})
             \cup (IF kind \in {"Simple", "EnumConst", "Dim", "Map"} THEN {"bad"} ELSE {})

Node(n, i, a) == [node |-> n, in |-> i, as |-> a]

NewParser ==
    [states |-> <<"start">>, variables |-> <<>>, groups |-> <<>>, tables |-> <<Root>>,
     enum |-> [def |-> 0, consts |-> {}], dim |-> 0,
     name |-> 0, xml |-> {}, depth |-> 0, message |-> FALSE]

DMRInit ==
    /\ source = "none" /\ strict = TRUE /\ unclosed = <<>> /\ count = 0
    /\ parser = NewParser
    /\ made = {} /\ written = {} /\ started = FALSE /\ result = "none"

-----------------------------------------------------------------------------
(* The stacks.                                                             *)

State == Last(parser.states)
Push(p, state) == [p EXCEPT !.states = Append(@, state)]
Pop(p) == [p EXCEPT !.states = Front(@)]
Error(p) == [p EXCEPT !.states = Append(@, "error"), !.message = TRUE]
FatalError(p) == [p EXCEPT !.states = Append(@, "fatal"), !.message = TRUE]

RefuseQuietly == parser' = [parser EXCEPT !.message = TRUE] /\ UNCHANGED made
Refuse == parser' = Error(parser) /\ UNCHANGED made
Ignore == UNCHANGED <<parser, made>>

\* where there are errors among the states
Errors == {k \in DOMAIN parser.states : parser.states[k] \in {"error", "fatal"}}

\* process_dimension() and process_map() make an array of the variable
TopAsArray(p) == [p EXCEPT !.variables[Len(p.variables)].array = TRUE]

-----------------------------------------------------------------------------
(* Start tags: dmr_start_element() and the process methods.  n is the      *)
(* number of the element.                                                  *)

StartDataset(n, kind, grade) ==
    LET p == IF kind = "Dataset" THEN parser ELSE Error(parser)
        q == IF grade = "short" THEN Error(p) ELSE p
    IN  /\ parser' = Push([q EXCEPT !.groups = Append(@, Root)], "inside_dataset")
        /\ UNCHANGED made

ProcessEnumDef(n, grade) ==
    IF grade = "short" THEN Refuse
    ELSE /\ parser' = Push([parser EXCEPT !.enum.def = n], "inside_enum_def")
         /\ UNCHANGED made

\* a value that does not fit is an error, but the state is pushed all the same
ProcessEnumConst(n, grade) ==
    /\ parser' = CASE grade = "short" -> Error(parser)
                   [] grade = "bad"   -> Push(Error(parser), "inside_enum_const")
                   [] OTHER -> Push([parser EXCEPT !.enum.consts = @ \cup {n}],
                                    "inside_enum_const")
    /\ UNCHANGED made

ProcessDimensionDef(n, grade) ==
    IF grade = "short" THEN Refuse
    ELSE /\ parser' = Push([parser EXCEPT !.dim = n], "inside_dim_def")
         /\ UNCHANGED made

ProcessGroup(n, grade) ==
    IF grade = "short" THEN Refuse
    ELSE /\ parser' = Push([parser EXCEPT !.groups = Append(@, n),
                                          !.tables = Append(@, n)], "inside_group")
         /\ made' = made \cup {Node(n, Last(parser.groups), "group")}

\* without its definition an Enum is an error, below its own state
ProcessVariable(n, kind, grade) ==
    IF grade = "short" THEN Refuse
    ELSE /\ parser' = Push([(IF grade = "bad" THEN FatalError(parser) ELSE parser)
                            EXCEPT !.variables = Append(@, [node |-> n, proto |-> n,
                                                            array |-> FALSE]),
                                   !.tables = Append(@, n)],
                           IF kind = "Simple" THEN "inside_simple_type"
                           ELSE "inside_constructor")
         /\ UNCHANGED made

ProcessAttribute(n, kind, grade) ==
    IF grade = "short" THEN Refuse
    ELSE IF kind = "Container"
    THEN /\ parser' = Push([parser EXCEPT !.tables = Append(@, n)],
                           "inside_attribute_container")
         /\ made' = made \cup {Node(n, Last(parser.tables), "container")}
    ELSE /\ parser' = Push([parser EXCEPT !.name = n],
                           IF kind = "OtherXML" THEN "inside_other_xml_attribute"
                           ELSE "inside_attribute")
         /\ UNCHANGED made

\* a map that is not found has no data, where that does not throw
ProcessDim(n, kind, grade) ==
    IF grade = "short" THEN Refuse
    ELSE /\ parser' = Push(TopAsArray(parser),
                           IF kind = "Dim" THEN "inside_dim" ELSE "inside_map")
         /\ made' = made \cup {Node(n, Last(parser.variables).node, kind)}

\* what may begin in which state; what is not here is an error
Expected(state, kind) ==
    \/ /\ state \in {"inside_dataset", "inside_group"}
       /\ kind \in {"Enumeration", "Dimension", "Group"} \cup Variables \cup Attributes
    \/ state \in {"inside_attribute_container", "inside_attribute"} /\ kind \in Attributes
    \/ state = "inside_attribute" /\ kind = "Value"
    \/ state = "inside_enum_def" /\ kind = "EnumConst"
    \/ state = "inside_simple_type" /\ kind \in Attributes \cup {"Dim", "Map"}
    \/ state = "inside_constructor" /\ kind \in Variables \cup Attributes \cup {"Dim", "Map"}

\* the dimension is not found, or the map: an exception, through libxml2
Throws(kind, grade) ==
    /\ Expected(State, kind) /\ grade = "bad"
    /\ kind = "Dim" \/ (kind = "Map" /\ strict)

StartTag(n, kind, grade) ==
    CASE kind = "Foreign" /\ State # "error" ->
            parser' = Push(parser, "not_dap4") /\ UNCHANGED made
      [] kind # "Foreign" /\ State = "start" -> StartDataset(n, kind, grade)
      [] kind # "Foreign" /\ State = "inside_other_xml_attribute" ->
            /\ parser' = [parser EXCEPT !.depth = @ + 1, !.xml = @ \cup {n}]
            /\ UNCHANGED made
      [] kind # "Foreign" /\ State \in {"inside_attribute_value", "inside_enum_const",
            "inside_dim_def", "inside_dim", "inside_map", "not_dap4", "fatal", "end"}
            -> Ignore
      [] State = "error" -> Ignore
      [] OTHER ->
            IF ~Expected(State, kind) THEN Refuse
            ELSE CASE kind = "Enumeration" -> ProcessEnumDef(n, grade)
                   [] kind = "Dimension"   -> ProcessDimensionDef(n, grade)
                   [] kind = "Group"       -> ProcessGroup(n, grade)
                   [] kind \in Variables   -> ProcessVariable(n, kind, grade)
                   [] kind \in Attributes  -> ProcessAttribute(n, kind, grade)
                   [] kind = "Value"       -> /\ parser' = Push(parser, "inside_attribute_value")
                                              /\ UNCHANGED made
                   [] kind = "EnumConst"   -> ProcessEnumConst(n, grade)
                   [] kind \in {"Dim", "Map"} -> ProcessDim(n, kind, grade)

-----------------------------------------------------------------------------
(* End tags: dmr_end_element().  An error that is found is pushed on the    *)
(* states, and mostly popped at once in place of the state that ends.      *)

Mismatch(kind, tag) == IF Tag(kind) = tag THEN parser ELSE Error(parser)

EndDataset(kind) ==
    LET p == Pop(Mismatch(kind, "Dataset"))
    IN  /\ parser' = IF Last(p.states) # "start" THEN FatalError(p)
                     ELSE Push(Pop(p), "end")
        /\ UNCHANGED made

EndGroup(kind) ==
    LET p == Mismatch(kind, "Group")
        q == IF p.variables # <<>> \/ p.groups = <<>> THEN Error(p) ELSE p
    IN  /\ parser' = Pop([q EXCEPT !.groups = Front(@)])
        /\ UNCHANGED made

EndContainerKeepsTable(kind) ==
    /\ parser' = Pop(Mismatch(kind, "Attribute"))
    /\ UNCHANGED made
EndContainer(kind) ==
    /\ parser' = Pop([Mismatch(kind, "Attribute") EXCEPT !.tables = Front(@)])
    /\ UNCHANGED made

\* Attribute, EnumConst; Dim and Map, where the error is a fatal one
EndPlain(kind, tag) ==
    /\ parser' = Pop(Mismatch(kind, tag))
    /\ UNCHANGED made

\* the attribute is found by the name that was read last
EndValue(n, kind) ==
    /\ parser' = Pop(Mismatch(kind, "Value"))
    /\ made' = made \cup {Node(parser.name, Last(parser.tables), "attribute"),
                          Node(n, parser.name, "value")}

EndOtherXML(kind) ==
    IF Tag(kind) = "Attribute"
    THEN /\ parser' = Pop([parser EXCEPT !.xml = {}])
         /\ made' = made \cup {Node(parser.name, Last(parser.tables), "otherxml")}
                         \cup {Node(x, parser.name, "xml") : x \in parser.xml}
    ELSE IF parser.depth = 0 THEN Refuse
    ELSE parser' = [parser EXCEPT !.depth = @ - 1] /\ UNCHANGED made

EndEnumDef(kind) ==
    /\ parser' = Pop([Mismatch(kind, "Enumeration") EXCEPT
                        !.enum = [def |-> 0, consts |-> {}]])
    /\ made' = made \cup {Node(parser.enum.def, Last(parser.groups), "enum")}
                    \cup {Node(c, parser.enum.def, "const") : c \in parser.enum.consts}

EndDimDef(kind) ==
    /\ parser' = Pop([Mismatch(kind, "Dimension") EXCEPT !.dim = 0])
    /\ made' = made \cup {Node(parser.dim, Last(parser.groups), "dimension")}

\* add_var_nocopy() of the parent: an array deletes its prototype for it
AddMember(v, parent) == made \cup {Node(v, parent, "variable")}
ReplacePrototype(v, parent) ==
    {m \in made : m.in # parent.proto \/ m.as # "variable"} \cup {Node(v, parent.node, "variable")}

Closed == [parser EXCEPT !.variables = Front(@), !.tables = Front(@)]

\* neither a variable nor a group is around: the variable is deleted, and the
\* error is pushed and popped
Nowhere == Len(parser.variables) = 1 /\ parser.groups = <<>>
DropVariable == parser' = Pop(FatalError(Closed)) /\ UNCHANGED made

EndSimple(kind) ==
    LET v == Last(parser.variables).node
        rest == Front(parser.variables)
    IN  IF kind # "Simple" THEN parser' = Pop(Error(parser)) /\ UNCHANGED made
        ELSE IF Nowhere THEN DropVariable
        ELSE /\ parser' = Pop(Closed)
             /\ made' = AddMember(v, IF rest # <<>> THEN Last(rest).proto
                                     ELSE Last(parser.groups))

EndConstructor(kind) ==
    LET v == Last(parser.variables).node
        rest == Front(parser.variables)
    IN  IF kind # "Structure" THEN Refuse
        ELSE IF Nowhere THEN DropVariable
        ELSE IF rest # <<>> /\ Last(rest).array
        THEN /\ parser' = Pop([Closed EXCEPT !.variables[Len(rest)].proto = v])
             /\ made' = ReplacePrototype(v, Last(rest))
        ELSE /\ parser' = Pop(Closed)
             /\ made' = AddMember(v, IF rest # <<>> THEN Last(rest).node
                                     ELSE Last(parser.groups))

EndTag(n, kind) ==
    CASE State = "start" -> parser' = FatalError(parser) /\ UNCHANGED made
      [] State = "inside_dataset"             -> EndDataset(kind)
      [] State = "inside_group"               -> EndGroup(kind)
      [] State = "inside_attribute_container" -> EndContainer(kind)
      [] State = "inside_attribute"           -> EndPlain(kind, "Attribute")
      [] State = "inside_attribute_value"     -> EndValue(n, kind)
      [] State = "inside_other_xml_attribute" -> EndOtherXML(kind)
      [] State = "inside_enum_def"            -> EndEnumDef(kind)
      [] State = "inside_enum_const"          -> EndPlain(kind, "EnumConst")
      [] State = "inside_dim_def"             -> EndDimDef(kind)
      [] State = "inside_dim"                 -> EndPlain(kind, "Dim")
      [] State = "inside_map"                 -> EndPlain(kind, "Map")
      [] State = "inside_simple_type"         -> EndSimple(kind)
      [] State = "inside_constructor"         -> EndConstructor(kind)
      [] State = "not_dap4"                   -> parser' = Pop(parser) /\ UNCHANGED made
      [] OTHER                                -> Ignore

\* top() and pop() of an empty stack: at a start tag, at an end tag
NoTop(kind, grade) ==
    /\ kind # "Foreign" /\ Expected(State, kind) /\ grade # "short"
    /\ \/ kind = "Group" /\ parser.groups = <<>>
       \/ kind = "Container" /\ parser.tables = <<>>
       \/ kind \in {"Dim", "Map"} /\ parser.variables = <<>>
NothingToPop(kind) ==
    \/ parser.groups = <<>> /\ State \in {"inside_group", "inside_enum_def", "inside_dim_def"}
    \/ parser.tables = <<>> /\ State \in {"inside_attribute_container",
            "inside_attribute_value", "inside_other_xml_attribute"}
    \/ /\ <<State, kind>> \in {<<"inside_simple_type", "Simple">>,
                                <<"inside_constructor", "Structure">>}
       /\ <<>> \in {parser.variables, parser.tables}

-----------------------------------------------------------------------------
(* The document.                                                           *)

\* in what order print_dap4() writes what is in an element
Rank(parent, kind) ==
    LET order == CASE parent \in {"Dataset", "Group"} ->
                        <<{"Dimension"}, {"Enumeration"}, Variables, Attributes, {"Group"}>>
                   [] parent = "Simple"      -> <<{"Dim"}, Attributes, {"Map"}>>
                   [] parent = "Structure"   -> <<Variables, {"Dim"}, Attributes, {"Map"}>>
                   [] parent = "Container"   -> <<Attributes>>
                   [] parent = "Attribute"   -> <<{"Value"}>>
                   [] parent = "Enumeration" -> <<{"EnumConst"}>>
                   [] parent \in {"OtherXML", "Xml", "Foreign"} -> <<{"Xml", "Foreign"}>>
                   [] OTHER -> <<>>
    IN  {r \in 1 .. Len(order) : kind \in order[r]}

\* a Map is written whether or not the Array it names is, and before or after it
Writes(kind, grade) ==
    CASE source = "any" -> count < MaxElements /\ (count > 0 => unclosed # <<>>)
      [] source = "printed" ->
            /\ count < MaxPrinted
            /\ grade = "good" \/ (kind = "Map" /\ grade = "bad")
            /\ IF unclosed = <<>> THEN count = 0 /\ kind = "Dataset"
               ELSE \E r \in Rank(Last(unclosed).kind, kind) : r >= Last(unclosed).rank
      [] OTHER -> FALSE

\* what the next element of a printed document says, being where it is
Says(n, kind) ==
    IF unclosed = <<>> \/ source # "printed" THEN {}
    ELSE LET in == Last(unclosed).node
             around == {e.node : e \in {e \in ToSet(unclosed) : e.kind = "OtherXML"}}
             as == CASE kind \in Variables -> "variable"
                     [] kind = "Group" -> "group"
                     [] kind = "Container" -> "container"
                     [] kind = "OtherXML" -> "otherxml"
                     [] kind = "Attribute" -> "attribute"
                     [] kind = "Value" -> "value"
                     [] kind = "Enumeration" -> "enum"
                     [] kind = "EnumConst" -> "const"
                     [] kind = "Dimension" -> "dimension"
                     [] kind = "Xml" -> "xml"
                     [] kind = "Foreign" -> "foreign"
                     [] OTHER -> kind
         IN  {Node(n, i, as) : i \in IF kind \in {"Xml", "Foreign"} THEN around ELSE {in}}

\* set_strict() before intern(): for a client it is FALSE (D4Connect.cc:157, 390)
Begin(s) ==
    /\ source = "none"
    /\ source' = s
    /\ strict' \in BOOLEAN
    /\ UNCHANGED <<unclosed, count, parser, made, written, started, result>>

StartElement(kind, grade) ==
    /\ result = "none"
    /\ Writes(kind, grade)
    /\ ~Throws(kind, grade)
    /\ count' = count + 1
    /\ unclosed' = Append([k \in DOMAIN unclosed |->
                          IF k < Len(unclosed) \/ source = "any" THEN unclosed[k]
                          ELSE [unclosed[k] EXCEPT !.rank = CHOOSE r \in Rank(unclosed[k].kind, kind) : TRUE]],
                      [kind |-> kind, node |-> count', rank |-> 1])
    /\ IF NoTop(kind, grade) THEN result' = "undefined" /\ Ignore
       ELSE StartTag(count', kind, grade) /\ UNCHANGED result
    /\ written' = written \cup Says(count', kind)
    /\ started' = (started \/ parser'.message # parser.message \/ Errors' # Errors)
    /\ UNCHANGED <<source, strict>>

ThrowException(kind) ==
    /\ result = "none"
    /\ Writes(kind, "bad") /\ Throws(kind, "bad")
    /\ result' = "exception"
    /\ UNCHANGED <<source, strict, unclosed, count, parser, made, written, started>>

EndElement ==
    /\ result = "none"
    /\ unclosed # <<>>
    /\ LET e == Last(unclosed) IN
       IF NothingToPop(e.kind) THEN result' = "undefined" /\ Ignore
       ELSE EndTag(e.node, e.kind) /\ UNCHANGED result
    /\ unclosed' = Front(unclosed)
    /\ UNCHANGED <<source, strict, count, written, started>>

\* dmr_end_document() and cleanup_parse()
EndDocument ==
    /\ result = "none"
    /\ unclosed = <<>> /\ count > 0
    /\ LET p == IF State # "end" THEN Error(parser) ELSE parser
           q == IF Last(p.states) # "error" /\ (p.variables # <<>> \/ p.groups = <<>>)
                THEN Error(p) ELSE p
       IN  /\ parser' = q
           /\ result' = IF State = "end" /\ parser.groups = <<>> THEN "undefined"
                        ELSE IF Last(q.states) \in {"error", "fatal"} THEN "error"
                        ELSE "accepted"
    /\ UNCHANGED <<source, strict, unclosed, count, made, written, started>>

DMRNext ==
    \/ \E s \in {"printed", "any"} : Begin(s)
    \/ \E kind \in Kinds : \E grade \in Grades(kind) : StartElement(kind, grade)
    \/ \E kind \in {"Dim", "Map"} : ThrowException(kind)
    \/ EndElement \/ EndDocument

DMRSpec == DMRInit /\ [][DMRNext]_dmrVars

-----------------------------------------------------------------------------
(* Properties.                                                             *)

\* Attributes without a value, and elements of other namespaces.
Valueless == {a \in written : a.as = "attribute"
                               /\ ~\E v \in written : v.as = "value" /\ v.in = a.node}
Foreign == \E x \in written : x.as = "foreign"

\* What print_dap4() writes is read back: it is refused only where the parser is strict,
\* for a Map whose data come later or were not asked for (D4ParserSax2.cc:335-342).
\* Otherwise each group, variable, attribute, value, dimension, map and enumeration is
\* where its element is, whichever of the four stacks it was found by
\* (D4ParserSax2.cc:649-1101), and nothing else is.  Only attributes without a value
\* are lost (D4Attributes.cc:502-514, D4ParserSax2.cc:915-930).  Where OtherXML has
\* elements of other namespaces, this is not said: see OtherXMLKept.
ReadBack ==
    source = "printed" =>
        /\ result = "exception" => strict
        /\ ~Foreign => /\ result \notin {"error", "undefined"}
                       /\ result = "accepted" => made = written \ Valueless

\* "Accumulate stuff inside an 'OtherXML' DAP attribute here" (D4ParserSax2.h:162):
\* the elements inside it are in its value, whatever namespace they are of.
OtherXMLKept ==
    source = "printed" /\ result = "accepted" =>
        \A x \in written : x.as \in {"xml", "foreign"} =>
            \E m \in made : m.node = x.node /\ m.in = x.in

\* "when any are found parsing stops.  The intern method throws" (D4ParserSax2.h:68-70), as far as
\* start tags go: after one that is refused nothing is accepted, whatever
\* states are pushed above the error and popped again.
StartErrorsThrow == started => result # "accepted"

\* "The intern method throws an Error of InternalErr exception if an error was
\* found." (D4ParserSax2.h:70)
ErrorsThrow == parser.message => result # "accepted"

NoMisuse == result # "undefined"
====
