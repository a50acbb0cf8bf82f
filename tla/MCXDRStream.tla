---- MODULE MCXDRStream ----
(***************************************************************************)
(* Instances of XDRStream.  The buffers and the wrap of the byte counter   *)
(* are small, so that values reach them; two values follow each other, so  *)
(* that a value out of step is seen by the next.                           *)
(***************************************************************************)
EXTENDS XDRStream
====
