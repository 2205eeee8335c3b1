--------------------------- MODULE MCSercdBuffer ---------------------------
(* SercdBuffer on a small array: the positions wrap after a few additions. *)
EXTENDS SercdBuffer
=============================================================================
