------------------------- MODULE SercdBuffer_proofs -------------------------
(***************************************************************************)
(* The circular buffer implements a FIFO queue, for every BufferSize and   *)
(* every unsigned int that can hold twice it.                              *)
(***************************************************************************)
EXTENDS SercdBuffer, SequenceTheorems, TLAPS

----------------------------------------------------------------------------
(* Arithmetic of the two positions.                                        *)

LEMMA SmallMod ==
    ASSUME NEW N \in Nat \ {0}, NEW x \in 0 .. N - 1
    PROVE  x % N = x
  OBVIOUS

LEMMA ModWrap ==
    ASSUME NEW N \in Nat \ {0}, NEW x \in 0 .. 2 * N - 1
    PROVE  x % N = IF x < N THEN x ELSE x - N
<1>1. CASE x < N
  BY <1>1, SmallMod
<1>2. CASE x >= N
  BY <1>2
<1> QED
  BY <1>1, <1>2

\* The number of buffered bytes, without the modulo.
LEMMA LengthValue ==
    ASSUME RdPos \in Index, WrPos \in Index
    PROVE  BufferLength = IF RdPos <= WrPos THEN WrPos - RdPos
                                            ELSE WrPos - RdPos + BufferSize
<1> DEFINE x == WrPos - RdPos + BufferSize
<1>1. BufferSize \in Nat \ {0} /\ UIntMod \in Nat \ {0} /\ UIntMod >= 2 * BufferSize
  BY SizeAssumption
<1>2. x \in 0 .. 2 * BufferSize - 1
  BY <1>1 DEF Index
<1>3. x % UIntMod = x
  BY <1>1, <1>2, SmallMod
<1>4. x % BufferSize = IF x < BufferSize THEN x ELSE x - BufferSize
  BY <1>1, <1>2, ModWrap
<1>5. BufferLength = IF x < BufferSize THEN x ELSE x - BufferSize
  BY <1>3, <1>4 DEF BufferLength
<1> QED
  BY <1>1, <1>5 DEF Index
----------------------------------------------------------------------------
(* Types.                                                                  *)

LEMMA StringBounds ==
    ASSUME RdPos \in Index, WrPos \in Index
    PROVE  /\ GetBufferString \in Nat
           /\ RdPos + GetBufferString <= BufferSize
           /\ GetBufferString <= BufferLength
           /\ BufferLength # 0 => GetBufferString > 0
           /\ BufferLength \in Nat
           /\ BufferLength <= BufferSize - 1
  BY LengthValue, SizeAssumption DEF GetBufferString, Index

\* A chunk of the array is a sequence of bytes.
LEMMA BytesType ==
    ASSUME TypeOK, NEW n \in 1 .. GetBufferString
    PROVE  /\ Bytes(n) \in Seq(Byte)
           /\ Len(Bytes(n)) = n
           /\ \A i \in 1 .. n : Bytes(n)[i] = Buffer[RdPos + i - 1]
<1>1. n \in Nat /\ RdPos + n <= BufferSize /\ RdPos \in Nat /\ BufferSize \in Nat
  BY StringBounds, SizeAssumption DEF TypeOK, Index
<1>2. \A i \in 1 .. n : RdPos + i - 1 \in Index
  BY <1>1 DEF Index
<1>3. \A i \in 1 .. n : Buffer[RdPos + i - 1] \in Byte
  BY <1>2 DEF TypeOK
<1> QED
  BY <1>1, <1>3 DEF Bytes

LEMMA PopValue ==
    ASSUME TypeOK, NEW n \in 0 .. BufferSize, BufferPopBytes(n)
    PROVE  RdPos' = IF RdPos + n < BufferSize THEN RdPos + n ELSE (RdPos + n) - BufferSize
<1>1. BufferSize \in Nat \ {0} /\ UIntMod \in Nat \ {0} /\ UIntMod >= 2 * BufferSize
  BY SizeAssumption
<1>2. RdPos + n \in 0 .. 2 * BufferSize - 1
  BY <1>1 DEF TypeOK, Index
<1>3. (RdPos + n) % UIntMod = RdPos + n
  BY <1>1, <1>2, SmallMod
<1>4. RdPos' = (RdPos + n) % BufferSize
  BY <1>3 DEF BufferPopBytes
<1> DEFINE x == RdPos + n
<1>5. x % BufferSize = IF x < BufferSize THEN x ELSE x - BufferSize
  <2> HIDE DEF x
  <2> QED
    BY <1>1, <1>2, ModWrap DEF x
<1> QED
  BY <1>4, <1>5

LEMMA TypeStep == TypeOK /\ [Next]_vars => TypeOK'
<1> SUFFICES ASSUME TypeOK, [Next]_vars PROVE TypeOK'
  OBVIOUS
<1>0. BufferSize \in Nat \ {0}
  BY SizeAssumption
<1>1. CASE InitBuffer
  BY <1>0, <1>1 DEF InitBuffer, TypeOK, Index
<1>2. ASSUME NEW C \in Byte, AddToBuffer(C) PROVE TypeOK'
  <2>1. WrPos' \in Index
    BY <1>0, <1>2, ModWrap DEF AddToBuffer, TypeOK, Index
  <2> QED
    BY <1>2, <2>1 DEF AddToBuffer, TypeOK
<1>3. ASSUME NEW n \in 1 .. BufferSize, WriteOut(n) PROVE TypeOK'
  <2>1. RdPos' \in Index
    BY <1>0, <1>3, PopValue DEF WriteOut, TypeOK, Index
  <2>2. out' \in Seq(Byte)
    BY <1>3, BytesType DEF WriteOut
  <2> QED
    BY <1>3, <2>1, <2>2 DEF WriteOut, TypeOK
<1>4. CASE UNCHANGED vars
  BY <1>4 DEF vars, TypeOK
<1> QED
  BY <1>1, <1>2, <1>3, <1>4 DEF Next

LEMMA TypeInit == Init => TypeOK
  BY SizeAssumption DEF Init, TypeOK, Index

\* The positions stay indices of the array, whatever is added and removed.
THEOREM TypeCorrect == Spec => []TypeOK
  BY TypeInit, TypeStep, PTL DEF Spec

\* Whatever the sizes, a buffer that is not empty offers write(2) at least
\* one byte, and never bytes beyond the array (GetBufferString).
THEOREM StringAlwaysUsable == Spec => []StringUsable
<1>1. TypeOK => StringUsable
  BY StringBounds DEF TypeOK, StringUsable, IsBufferEmpty
<1> QED
  BY <1>1, TypeCorrect, PTL
----------------------------------------------------------------------------
(* Refinement: the contents behave like the queue.                         *)

\* The slot of the i-th buffered byte.
Slot(i) == IF RdPos + i - 1 < BufferSize THEN RdPos + i - 1
                                         ELSE (RdPos + i - 1) - BufferSize

ContentsInSlots ==
    /\ Contents \in Seq(Byte)
    /\ Len(Contents) = BufferLength
    /\ \A i \in 1 .. BufferLength :
          Slot(i) \in Index /\ Contents[i] = Buffer[Slot(i)]

LEMMA ContentsValue ==
    ASSUME TypeOK
    PROVE  ContentsInSlots
<1>1. BufferSize \in Nat \ {0}
  BY SizeAssumption
<1>2. BufferLength \in Nat /\ BufferLength <= BufferSize - 1 /\ RdPos \in Index
  BY StringBounds DEF TypeOK
<1>3. ASSUME NEW i \in 1 .. BufferLength
      PROVE  Slot(i) \in Index /\ (RdPos + i - 1) % BufferSize = Slot(i)
  <2>1. RdPos + i - 1 \in 0 .. 2 * BufferSize - 1
    BY <1>1, <1>2 DEF Index
  <2> DEFINE x == RdPos + i - 1
  <2>2. x % BufferSize = IF x < BufferSize THEN x ELSE x - BufferSize
    <3> HIDE DEF x
    <3> QED
      BY <1>1, <2>1, ModWrap DEF x
  <2>3. Slot(i) = IF x < BufferSize THEN x ELSE x - BufferSize
    BY DEF Slot
  <2> HIDE DEF x
  <2>4. Slot(i) \in Index
    BY <1>1, <2>1, <2>3 DEF Index, x
  <2> QED
    BY <2>2, <2>3, <2>4 DEF x
<1>4. \A i \in 1 .. BufferLength : Buffer[(RdPos + i - 1) % BufferSize] \in Byte
  BY <1>3 DEF TypeOK
<1>5. Contents \in Seq(Byte) /\ Len(Contents) = BufferLength
  BY <1>2, <1>4 DEF Contents
<1>6. \A i \in 1 .. BufferLength : Contents[i] = Buffer[(RdPos + i - 1) % BufferSize]
  BY DEF Contents
<1> QED
  BY <1>3, <1>5, <1>6 DEF ContentsInSlots

LEMMA ContentsValueNext == TypeOK' => ContentsInSlots'
<1>1. TypeOK => ContentsInSlots
  BY ContentsValue
<1> QED
  BY <1>1, PTL

LEMMA LengthValueNext ==
    TypeOK' => BufferLength' = IF RdPos' <= WrPos' THEN WrPos' - RdPos'
                                                   ELSE WrPos' - RdPos' + BufferSize
<1> DEFINE LengthIs == BufferLength = IF RdPos <= WrPos THEN WrPos - RdPos
                                                        ELSE WrPos - RdPos + BufferSize
<1>1. TypeOK => LengthIs
  BY LengthValue DEF TypeOK
<1>2. TypeOK' => LengthIs'
  BY <1>1, PTL
<1> QED
  BY <1>2

\* Resetting the positions empties the queue.
LEMMA InitBufferRefines == ASSUME TypeOK, TypeOK', InitBuffer PROVE Queue!Reset
<1>1. BufferLength' = 0
  BY LengthValueNext DEF InitBuffer
<1>2. Contents' \in Seq(Byte) /\ Len(Contents') = 0
  BY <1>1, ContentsValueNext DEF ContentsInSlots
<1>3. Contents' = <<>>
  BY <1>2
<1> QED
  BY <1>3 DEF Queue!Reset, InitBuffer

\* A byte is added at the back.
LEMMA AddRefines ==
    ASSUME TypeOK, TypeOK', NEW C \in Byte, AddToBuffer(C)
    PROVE  Queue!Add(C)
<1> DEFINE N == BufferSize
           len == BufferLength
<1>1. N \in Nat \ {0} /\ RdPos \in 0 .. N - 1 /\ WrPos \in 0 .. N - 1
  BY SizeAssumption DEF TypeOK, Index
<1>2. /\ len \in Nat /\ len < N - 1
      /\ len = IF RdPos <= WrPos THEN WrPos - RdPos ELSE WrPos - RdPos + N
  <2>1. len = IF RdPos <= WrPos THEN WrPos - RdPos ELSE WrPos - RdPos + N
    BY LengthValue DEF TypeOK
  <2>2. len \in Nat /\ N - 1 - len >= 1
    BY <1>1, <2>1 DEF AddToBuffer, BufferHasRoomFor, BufferRoomLeft
  <2> QED
    BY <1>1, <2>1, <2>2
<1>3. WrPos' = IF WrPos + 1 < N THEN WrPos + 1 ELSE 0
  <2>1. WrPos' = (WrPos + 1) % N
    BY DEF AddToBuffer
  <2>2. WrPos + 1 \in 0 .. 2 * N - 1
    BY <1>1
  <2> DEFINE x == WrPos + 1
  <2>3. x % N = IF x < N THEN x ELSE x - N
    <3> HIDE DEF x
    <3> QED
      BY <1>1, <2>2, ModWrap DEF x
  <2> QED
    BY <1>1, <2>1, <2>3
<1>4. RdPos' = RdPos /\ out' = out
  BY DEF AddToBuffer
<1>5. BufferLength' = len + 1
  BY <1>1, <1>2, <1>3, <1>4, LengthValueNext
<1>6. /\ Contents \in Seq(Byte) /\ Len(Contents) = len
      /\ \A i \in 1 .. len : Slot(i) \in Index /\ Contents[i] = Buffer[Slot(i)]
  BY ContentsValue DEF ContentsInSlots
<1>7. /\ Contents' \in Seq(Byte) /\ Len(Contents') = len + 1
      /\ \A i \in 1 .. len + 1 : Slot(i)' \in Index /\ Contents'[i] = Buffer'[Slot(i)']
  BY <1>5, ContentsValueNext DEF ContentsInSlots
<1>8. \A i \in 1 .. len + 1 : Slot(i)' = Slot(i)
  BY <1>4 DEF Slot
<1>9. Slot(len + 1) = WrPos
  BY <1>1, <1>2 DEF Slot
<1>10. \A i \in 1 .. len : Slot(i) # WrPos
  BY <1>1, <1>2 DEF Slot
<1>11. /\ Buffer'[WrPos] = C
       /\ \A j \in Index : j # WrPos => Buffer'[j] = Buffer[j]
  BY DEF AddToBuffer, TypeOK, Index
<1>12. ASSUME NEW i \in 1 .. len + 1
       PROVE  Contents'[i] = Append(Contents, C)[i]
  <2>1. CASE i \in 1 .. len
    <3>1. Slot(i) \in Index /\ Contents[i] = Buffer[Slot(i)] /\ Slot(i) # WrPos
      BY <1>6, <1>10, <2>1
    <3>2. Contents'[i] = Buffer'[Slot(i)]
      BY <1>7, <1>8
    <3>3. Buffer'[Slot(i)] = Buffer[Slot(i)]
      BY <1>11, <3>1
    <3>4. Append(Contents, C)[i] = Contents[i]
      BY <1>6, <2>1, AppendProperties
    <3> QED
      BY <3>1, <3>2, <3>3, <3>4
  <2>2. CASE i = len + 1
    <3>1. Contents'[i] = Buffer'[WrPos]
      BY <1>7, <1>8, <1>9, <2>2
    <3>2. Append(Contents, C)[i] = C
      BY <1>6, <2>2, AppendProperties
    <3> QED
      BY <1>11, <3>1, <3>2
  <2>3. len \in Nat
    BY <1>2
  <2> HIDE DEF len
  <2>4. i \in 1 .. len \/ i = len + 1
    BY <2>3
  <2> QED
    BY <2>1, <2>2, <2>4
<1>13. Append(Contents, C) \in Seq(Byte) /\ Len(Append(Contents, C)) = len + 1
  BY <1>6
<1>14. Contents' = Append(Contents, C)
  BY <1>7, <1>12, <1>13, SeqEqual
<1> QED
  BY <1>1, <1>2, <1>4, <1>6, <1>14 DEF Queue!Add

\* A chunk leaves from the front.
LEMMA WriteRefines ==
    ASSUME TypeOK, TypeOK', NEW n \in 1 .. BufferSize, WriteOut(n)
    PROVE  n \in 1 .. Len(Contents) /\ Queue!Drain(n)
<1> DEFINE N == BufferSize
           len == BufferLength
<1>1. N \in Nat \ {0} /\ RdPos \in 0 .. N - 1 /\ WrPos \in 0 .. N - 1
  BY SizeAssumption DEF TypeOK, Index
<1>2. len = IF RdPos <= WrPos THEN WrPos - RdPos ELSE WrPos - RdPos + N
  BY LengthValue DEF TypeOK
<1>3. /\ n \in Nat \ {0} /\ n <= len /\ len \in Nat
      /\ RdPos + n <= N
      /\ n \in 1 .. GetBufferString
  <2>1. n \in 1 .. GetBufferString
    BY DEF WriteOut
  <2>2. /\ GetBufferString \in Nat /\ RdPos + GetBufferString <= N
        /\ GetBufferString <= len /\ len \in Nat
    BY StringBounds DEF TypeOK
  <2> HIDE DEF len
  <2> QED
    BY <1>1, <2>1, <2>2
<1>4. WrPos' = WrPos /\ Buffer' = Buffer /\ out' = Bytes(n)
  BY DEF WriteOut
<1>5. RdPos' = IF RdPos + n < N THEN RdPos + n ELSE 0
  <2>1. RdPos' = IF RdPos + n < N THEN RdPos + n ELSE (RdPos + n) - N
    BY PopValue DEF WriteOut
  <2> QED
    BY <1>1, <1>3, <2>1
<1>6. BufferLength' = len - n
  <2>1. BufferLength' = IF RdPos' <= WrPos THEN WrPos - RdPos' ELSE WrPos - RdPos' + N
    BY <1>4, LengthValueNext
  <2>2. n <= IF RdPos <= WrPos THEN WrPos - RdPos ELSE N - RdPos
    BY <1>3 DEF GetBufferString
  <2>3. n \in Nat \ {0} /\ RdPos + n <= N
    BY <1>3
  <2> HIDE DEF len
  <2> QED
    BY <1>1, <1>2, <1>5, <2>1, <2>2, <2>3
<1>7. /\ Contents \in Seq(Byte) /\ Len(Contents) = len
      /\ \A i \in 1 .. len : Slot(i) \in Index /\ Contents[i] = Buffer[Slot(i)]
  BY ContentsValue DEF ContentsInSlots
<1>8. /\ Contents' \in Seq(Byte) /\ Len(Contents') = len - n
      /\ \A i \in 1 .. len - n : Contents'[i] = Buffer[Slot(i)']
  BY <1>4, <1>6, ContentsValueNext DEF ContentsInSlots
<1>9. /\ Bytes(n) \in Seq(Byte) /\ Len(Bytes(n)) = n
      /\ \A i \in 1 .. n : Bytes(n)[i] = Buffer[RdPos + i - 1]
  BY <1>3, BytesType
<1> HIDE DEF len
<1>10. out' = SubSeq(Contents, 1, n)
  <2>1. \A i \in 1 .. n : Contents[i] \in Byte
    BY <1>3, <1>7
  <2>2. /\ SubSeq(Contents, 1, n) \in Seq(Byte)
        /\ Len(SubSeq(Contents, 1, n)) = n
        /\ \A i \in 1 .. n : SubSeq(Contents, 1, n)[i] = Contents[i]
    BY <1>3, <2>1, SubSeqProperties
  <2>3. ASSUME NEW i \in 1 .. n
        PROVE  Bytes(n)[i] = Contents[i]
    <3>1. i \in 1 .. len
      BY <1>3
    <3>2. Slot(i) = RdPos + i - 1
      BY <1>1, <1>3 DEF Slot
    <3> QED
      BY <1>7, <1>9, <3>1, <3>2
  <2> QED
    BY <1>4, <1>9, <2>2, <2>3, SeqEqual
<1>11. Contents' = SubSeq(Contents, n + 1, Len(Contents))
  <2> DEFINE rest == SubSeq(Contents, n + 1, len)
  <2>1. \A i \in n + 1 .. len : Contents[i] \in Byte
    BY <1>3, <1>7
  <2>2. /\ rest \in Seq(Byte)
        /\ Len(rest) = IF n + 1 <= len THEN len - (n + 1) + 1 ELSE 0
        /\ \A i \in 1 .. len - (n + 1) + 1 : rest[i] = Contents[(n + 1) + i - 1]
    BY <1>3, <2>1, SubSeqProperties
  <2>3. ASSUME NEW i \in 1 .. len - n
        PROVE  Contents'[i] = rest[i]
    <3>1. n + i \in 1 .. len
      BY <1>3
    <3>2. Slot(i)' = Slot(n + i)
      <4>1. Slot(i)' = IF RdPos' + i - 1 < N THEN RdPos' + i - 1 ELSE (RdPos' + i - 1) - N
        BY DEF Slot
      <4>2. Slot(n + i) = IF RdPos + (n + i) - 1 < N THEN RdPos + (n + i) - 1
                                                    ELSE (RdPos + (n + i) - 1) - N
        BY DEF Slot
      <4>3. len \in Nat /\ len < N /\ i \in Nat \ {0} /\ i <= len - n
        <5>1. len < N
          BY <1>1, StringBounds DEF TypeOK, len
        <5> QED
          BY <1>3, <5>1
      <4> QED
        BY <1>1, <1>3, <1>5, <4>1, <4>2, <4>3
    <3>3. Contents'[i] = Contents[n + i]
      BY <1>7, <1>8, <3>1, <3>2
    <3>4. rest[i] = Contents[n + i]
      BY <1>3, <2>2
    <3> QED
      BY <3>3, <3>4
  <2>4. Len(rest) = len - n
    BY <1>3, <2>2
  <2> HIDE DEF rest
  <2>5. Contents' = rest
    BY <1>8, <2>2, <2>3, <2>4, SeqEqual
  <2> QED
    BY <1>7, <2>5 DEF rest
<1> QED
  BY <1>3, <1>7, <1>10, <1>11 DEF Queue!Drain

\* Initially both are empty.
LEMMA InitRefines == Init => Queue!Init
<1> SUFFICES ASSUME Init PROVE Queue!Init
  OBVIOUS
<1>1. TypeOK
  BY TypeInit
<1>2. BufferLength = 0
  BY <1>1, LengthValue DEF Init, TypeOK
<1>3. Contents \in Seq(Byte) /\ Len(Contents) = 0
  BY <1>1, <1>2, ContentsValue DEF ContentsInSlots
<1>4. Contents = <<>>
  BY <1>3
<1> QED
  BY <1>4 DEF Init, Queue!Init

LEMMA StepRefines == TypeOK /\ TypeOK' /\ [Next]_vars => [Queue!Next]_(Queue!vars)
<1> SUFFICES ASSUME TypeOK, TypeOK', [Next]_vars PROVE [Queue!Next]_(Queue!vars)
  OBVIOUS
<1>1. CASE InitBuffer
  BY <1>1, InitBufferRefines DEF Queue!Next
<1>2. ASSUME NEW C \in Byte, AddToBuffer(C) PROVE Queue!Next
  BY <1>2, AddRefines DEF Queue!Next
<1>3. ASSUME NEW n \in 1 .. BufferSize, WriteOut(n) PROVE Queue!Next
  BY <1>3, WriteRefines DEF Queue!Next
<1>4. CASE UNCHANGED vars
  BY <1>4 DEF vars, Queue!vars, Contents, BufferLength
<1> QED
  BY <1>1, <1>2, <1>3, <1>4 DEF Next

\* The circular buffer implements the FIFO queue of ByteQueue for every
\* BufferSize: what AddToBuffer accepts leaves once, in order, through the
\* runs GetBufferString offers and BufferPopBytes removes.
THEOREM Refinement == Spec => IsQueue
<1>1. Spec => Queue!Init /\ [][Queue!Next]_(Queue!vars)
  BY InitRefines, StepRefines, TypeCorrect, PTL DEF Spec
<1> QED
  BY <1>1 DEF IsQueue, Queue!Spec
=============================================================================
