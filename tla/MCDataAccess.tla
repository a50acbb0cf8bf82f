---- MODULE MCDataAccess ----
(***************************************************************************)
(* The parts of the library that have no state in common with another, one *)
(* of them in each behaviour: a DAP2 Sequence on its way, the parser of     *)
(* the DMR, the data of a DAP4 response, and the HTTP client with the       *)
(* cache as ResponseCache promises it.                                     *)
(***************************************************************************)
EXTENDS NestedSequence, DMRParser, D4Response, HTTPClient

VARIABLE part
parts == <<seqVars, dmrVars, d4Vars, clientVars>>

\* more rows where there are fewer levels
RowsByDepth == <<3, 3, 2>>

\* a server that has moved what was at "old" to "new"
Moved == [u \in Urls |-> "new"]

Is(p) == part = p /\ UNCHANGED part

PartsInit ==
    /\ part \in {"sequence", "dmr", "d4", "client"}
    /\ SeqInit /\ DMRInit /\ D4Init /\ ClientInit

PartsNext ==
    \/ Is("sequence") /\ SeqNext /\ UNCHANGED <<dmrVars, d4Vars, clientVars>>
    \/ Is("dmr") /\ DMRNext /\ UNCHANGED <<seqVars, d4Vars, clientVars>>
    \/ Is("d4") /\ D4Next /\ UNCHANGED <<seqVars, dmrVars, clientVars>>
    \/ Is("client") /\ ClientNext /\ UNCHANGED <<seqVars, dmrVars, d4Vars>>

PartsSpec == PartsInit /\ [][PartsNext]_<<parts, part>>
====
