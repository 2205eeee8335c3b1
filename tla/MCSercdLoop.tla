---------------------------- MODULE MCSercdLoop ----------------------------
(* SercdLoop with scaled buffers; the sizes keep the order of sercd.c:     *)
(* EscWriteChar < SendCPCByteCommand < EscRedirectChar < BufferSize.       *)
EXTENDS SercdLoop
=============================================================================
