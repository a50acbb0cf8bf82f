---- MODULE MCDAPCache3 ----
(***************************************************************************)
(* An instance of DAPCache3: two processes and two files, of which the     *)
(* cache holds one or two.                                                 *)
(***************************************************************************)
EXTENDS DAPCache3
====
