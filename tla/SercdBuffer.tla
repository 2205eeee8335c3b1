---------------------------- MODULE SercdBuffer ----------------------------
(***************************************************************************)
(* The circular buffer of sercd.c (BufferType): an array of BufferSize     *)
(* bytes, a read position and a write position, both unsigned int.  One    *)
(* slot is always left free so that an empty buffer can be told from a     *)
(* full one.  The main loop keeps two of them, ToNetBuf and ToDevBuf.      *)
(*                                                                         *)
(* A write to a descriptor takes the first contiguous run of the buffered  *)
(* bytes (GetBufferString), offers it to write(2), and removes what was    *)
(* accepted (BufferPopBytes).  The accepted bytes are recorded in out.     *)
(***************************************************************************)
EXTENDS Integers, Sequences

CONSTANTS Byte,         \* the byte values
          BufferSize,   \* 2048 in sercd.c
          UIntMod       \* 2^32: arithmetic on unsigned int is modulo UIntMod

ASSUME ByteAssumption == Byte # {}
ASSUME SizeAssumption ==
    /\ BufferSize \in Nat \ {0}
    /\ UIntMod \in Nat
    /\ UIntMod >= 2 * BufferSize

VARIABLES Buffer,   \* the array
          RdPos,    \* where the next byte is read
          WrPos,    \* where the next byte is written
          out       \* the bytes the last write(2) accepted

vars == <<Buffer, RdPos, WrPos, out>>

Index == 0 .. BufferSize - 1

----------------------------------------------------------------------------
(* The queries.                                                            *)

BufferLength == ((WrPos - RdPos + BufferSize) % UIntMod) % BufferSize

BufferRoomLeft == BufferSize - 1 - BufferLength

BufferHasRoomFor(x) == BufferRoomLeft >= x

IsBufferEmpty == BufferLength = 0

\* The length of the contiguous run that starts at RdPos.
MutGetBufferString == WrPos - RdPos
GetBufferString ==
    IF RdPos <= WrPos THEN WrPos - RdPos ELSE BufferSize - RdPos

\* The first n bytes of that run, as write(2) sees them.
Bytes(n) == [i \in 1 .. n |-> Buffer[RdPos + i - 1]]

----------------------------------------------------------------------------
(* The operations.                                                         *)

\* BufferType variables live on main's stack: the bytes start out arbitrary.
Init ==
    /\ Buffer \in [Index -> Byte]
    /\ RdPos = 0
    /\ WrPos = 0
    /\ out = <<>>

InitBuffer ==
    /\ RdPos' = 0
    /\ WrPos' = 0
    /\ out' = <<>>
    /\ UNCHANGED Buffer

\* The guard is the assertion; SercdLoop models the runs in which it fails.
MutAddToBuffer(C) ==
    /\ BufferHasRoomFor(0)
    /\ Buffer' = [Buffer EXCEPT ![WrPos] = C]
    /\ WrPos' = (WrPos + 1) % BufferSize
    /\ UNCHANGED <<RdPos, out>>
AddToBuffer(C) ==
    /\ BufferHasRoomFor(1)
    /\ Buffer' = [Buffer EXCEPT ![WrPos] = C]
    /\ WrPos' = (WrPos + 1) % BufferSize
    /\ UNCHANGED <<RdPos, out>>

\* RdPos += len; RdPos %= BufferSize, with len an unsigned int.
MutBufferPopBytes(len) == RdPos' = (RdPos + len) % UIntMod
BufferPopBytes(len) == RdPos' = ((RdPos + len) % UIntMod) % BufferSize

\* write(2) accepts n of the GetBufferString bytes.
WriteOut(n) ==
    /\ n \in 1 .. GetBufferString
    /\ out' = Bytes(n)
    /\ BufferPopBytes(n)
    /\ UNCHANGED <<Buffer, WrPos>>

\* write(2) returns -1 with errno EWOULDBLOCK.  IOResultError does not count
\* it as an error, so the main loop calls BufferPopBytes(B, iobytes) with
\* iobytes = -1, which the unsigned parameter turns into UIntMod - 1.
WriteWouldBlock ==
    /\ GetBufferString > 0
    /\ BufferPopBytes(UIntMod - 1)
    /\ UNCHANGED <<Buffer, WrPos, out>>

Next ==
    \/ InitBuffer
    \/ \E C \in Byte : AddToBuffer(C)
    \/ \E n \in 1 .. BufferSize : WriteOut(n)

Spec == Init /\ [][Next]_vars

\* The same buffer when descriptors may refuse a write.
SpecWouldBlock == Init /\ [][Next \/ WriteWouldBlock]_vars

----------------------------------------------------------------------------
(* Properties.                                                             *)

\* Both positions are indices of the array and the array holds bytes.
TypeOK ==
    /\ Buffer \in [Index -> Byte]
    /\ RdPos \in Index
    /\ WrPos \in Index
    /\ out \in Seq(Byte)

\* The buffered bytes, oldest first.
Contents ==
    [i \in 1 .. BufferLength |-> Buffer[(RdPos + i - 1) % BufferSize]]

Queue == INSTANCE ByteQueue
             WITH q <- Contents, out <- out, Capacity <- BufferSize - 1

\* The circular buffer is a FIFO queue of BufferSize - 1 bytes: whatever
\* AddToBuffer accepted is offered to write(2) once, in order, across every
\* wrap of the two positions (AddToBuffer, GetBufferString, BufferPopBytes).
IsQueue == Queue!Spec

\* GetBufferString offers a non-empty run whenever the buffer is not empty,
\* and never one that leaves the array.  The main loop relies on the first
\* half: write(2) of zero bytes returns 0, which IOResultError reports as an
\* end of file and answers by dropping the connection.
StringUsable ==
    /\ ~IsBufferEmpty => GetBufferString > 0
    /\ RdPos + GetBufferString <= BufferSize
    /\ GetBufferString <= BufferLength
=============================================================================
