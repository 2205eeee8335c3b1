----------------------------- MODULE ByteQueue -----------------------------
(***************************************************************************)
(* What one direction of the serial redirector promises about its data: a  *)
(* bounded first-in first-out queue of bytes.  Bytes enter one at a time,  *)
(* and leave from the front in chunks of any positive size, the chunk a    *)
(* write(2) accepted.  SercdBuffer is the circular buffer of sercd.c that  *)
(* implements it.                                                          *)
(***************************************************************************)
EXTENDS Naturals, Sequences

CONSTANTS Byte,       \* the byte values
          Capacity    \* the most bytes that can be queued at once

VARIABLES q,    \* the bytes accepted and not yet written out, oldest first
          out   \* the chunk most recently written out

vars == <<q, out>>

Init == q = <<>> /\ out = <<>>

\* A new session starts from an empty queue; what was queued is discarded.
Reset == q' = <<>> /\ out' = <<>>

Add(c) ==
    /\ Len(q) < Capacity
    /\ q' = Append(q, c)
    /\ UNCHANGED out

\* The oldest n bytes are written out, in order.
Drain(n) ==
    /\ out' = SubSeq(q, 1, n)
    /\ q' = SubSeq(q, n + 1, Len(q))

Next ==
    \/ Reset
    \/ \E c \in Byte : Add(c)
    \/ \E n \in 1 .. Len(q) : Drain(n)

Spec == Init /\ [][Next]_vars
=============================================================================
