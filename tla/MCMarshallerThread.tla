---- MODULE MCMarshallerThread ----
(***************************************************************************)
(* Model-checking instances of MarshallerThread: four blocks (two calls    *)
(* that use a child, with direct writes before and between them), and the  *)
(* failures each .cfg switches on.                                         *)
(***************************************************************************)
EXTENDS MarshallerThread
====
