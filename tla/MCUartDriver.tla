---------------------------- MODULE MCUartDriver ----------------------------
(* A write of two different bytes, into a ring of three slots that holds two:  *)
(* it fits, fits in part, and goes round the end of the ring.  One byte waiting *)
(* is below select's mark and two are not.                                      *)
EXTENDS UartDriver

MCWrites == {<<"a", "b">>}
=============================================================================
