---- MODULE MCChunkedStream ----
(***************************************************************************)
(* An instance of ChunkedStream with a buffer of a few bytes: a write may  *)
(* be shorter than the buffer, fill it, or take more than two chunks.      *)
(***************************************************************************)
EXTENDS ChunkedStream
====
