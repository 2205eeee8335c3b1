-------------------------- MODULE SercdLoop_proofs --------------------------
(***************************************************************************)
(* Safety of the main loop for all buffer and message sizes that satisfy   *)
(* SizesAssumption, whichever reads and writes may return EWOULDBLOCK.     *)
(***************************************************************************)
EXTENDS SercdLoop, TLAPS

----------------------------------------------------------------------------
(* Arithmetic.                                                             *)

\* What n units of size b take of a room that holds a \div b of them.
LEMMA UnitsFit ==
    ASSUME NEW a \in Nat, NEW b \in Nat \ {0}, NEW n \in Nat, n <= a \div b
    PROVE  n * b <= a
<1> DEFINE d == a \div b
<1>1. d \in Nat /\ d * b <= a
  OBVIOUS
<1>2. n * b <= d * b
  BY <1>1
<1> QED
  BY <1>1, <1>2

LEMMA ModRange ==
    ASSUME NEW x \in Int, NEW N \in Nat \ {0}
    PROVE  x % N \in 0 .. N - 1
  OBVIOUS

LEMMA DivNat ==
    ASSUME NEW a \in Nat, NEW b \in Nat \ {0}
    PROVE  a \div b \in Nat
  OBVIOUS
----------------------------------------------------------------------------
(* Types, and the room that the reads leave.                               *)

LEMMA LengthTypes ==
    ASSUME TypeOK
    PROVE  toNet \in 0 .. BufferSize - 1 /\ toDev \in 0 .. BufferSize - 1
  BY DEF TypeOK

\* The bytes read from the device fit into ToNetBuf after escaping.
LEMMA DeviceInFits ==
    ASSUME TypeOK, NEW iobytes \in ReadFromDev(DeviceTryBytes), iobytes > 0,
           NEW k \in iobytes .. iobytes * EscWriteChar_bytes
    PROVE  BufferHasRoomFor(toNet, k) /\ toNet + k \in 0 .. BufferSize - 1
<1> DEFINE room == BufferRoomLeft(toNet)
<1>1. room \in Nat /\ toNet \in Nat /\ BufferSize \in Nat
  BY LengthTypes, SizesAssumption DEF BufferRoomLeft
<1>2. room \div EscWriteChar_bytes \in Nat
  BY <1>1, DivNat, SizesAssumption
<1>3. iobytes \in Nat /\ iobytes <= room \div EscWriteChar_bytes
  BY <1>2, SizesAssumption
     DEF ReadFromDev, DeviceTryBytes, MIN, Some, Blocks, WouldBlock, Failed
<1>4. iobytes * EscWriteChar_bytes <= room
  BY <1>1, <1>3, UnitsFit, SizesAssumption
<1>5. k \in Nat /\ k <= room
  BY <1>1, <1>3, <1>4, SizesAssumption
<1> QED
  BY <1>1, <1>5 DEF BufferHasRoomFor, BufferRoomLeft

\* What the bytes read from the network may produce fits into both buffers.
LEMMA SocketInFits ==
    ASSUME TypeOK, NEW iobytes \in ReadFromNet(SocketTryBytes), iobytes > 0,
           NEW k \in 0 .. iobytes * EscRedirectChar_bytes_SockB,
           NEW d \in 0 .. iobytes * EscRedirectChar_bytes_DevB
    PROVE  /\ BufferHasRoomFor(toNet, k) /\ toNet + k \in 0 .. BufferSize - 1
           /\ BufferHasRoomFor(toDev, d) /\ toDev + d \in 0 .. BufferSize - 1
<1> DEFINE roomN == BufferRoomLeft(toNet)
           roomD == BufferRoomLeft(toDev)
           tryN  == roomN \div EscRedirectChar_bytes_SockB
           tryD  == roomD \div EscRedirectChar_bytes_DevB
<1>1. /\ roomN \in Nat /\ toNet \in Nat
      /\ roomD \in Nat /\ toDev \in Nat
      /\ BufferSize \in Nat
  BY LengthTypes, SizesAssumption DEF BufferRoomLeft
<1>2. EscRedirectChar_bytes_SockB \in Nat \ {0} /\ EscRedirectChar_bytes_DevB \in Nat \ {0}
  BY SizesAssumption
<1>3. tryN \in Nat /\ tryD \in Nat
  BY <1>1, <1>2, DivNat
<1>4. iobytes \in Nat /\ iobytes <= SocketTryBytes
  <2>1. SocketTryBytes \in Nat
    BY <1>3, SizesAssumption DEF SocketTryBytes, MIN
  <2> QED
    BY <2>1, SizesAssumption DEF ReadFromNet, Some, Blocks, WouldBlock, Failed
<1>5. iobytes <= tryN /\ iobytes <= tryD
  BY <1>3, <1>4, SizesAssumption DEF SocketTryBytes, MIN
<1>6. iobytes * EscRedirectChar_bytes_SockB <= roomN
  BY <1>1, <1>2, <1>4, <1>5, UnitsFit
<1>7. iobytes * EscRedirectChar_bytes_DevB <= roomD
  BY <1>1, <1>2, <1>4, <1>5, UnitsFit
<1>8. k \in Nat /\ k <= roomN
  BY <1>1, <1>2, <1>4, <1>6
<1>9. d \in Nat /\ d <= roomD
  BY <1>1, <1>2, <1>4, <1>7
<1> QED
  BY <1>1, <1>8, <1>9 DEF BufferHasRoomFor, BufferRoomLeft

\* BufferPopBytes leaves a length in range, even for iobytes = -1.
LEMMA PopBytesType ==
    ASSUME NEW len \in Nat, NEW iobytes \in Int
    PROVE  BufferPopBytes(len, iobytes) \in 0 .. BufferSize - 1
<1>1. BufferSize \in Nat \ {0}
  BY SizesAssumption
<1> QED
  BY <1>1, ModRange DEF BufferPopBytes

LEMMA WriteResults ==
    ASSUME TypeOK
    PROVE  WriteToDev(toDev) \subseteq Int /\ WriteToNet(toNet) \subseteq Int
  BY LengthTypes, SizesAssumption
     DEF WriteToDev, WriteToNet, Some, Blocks, WouldBlock, Failed
----------------------------------------------------------------------------
(* The inductive invariant.                                                *)

\* The device is open only under our lock, and DeviceFd knows of it; but a
\* signal that came between locking and opening has removed the lock.
DeviceInv ==
    fds.device = "device" => DeviceFd /\ (signalled # "opening" => lock = "ours")

\* While OpenPort runs, DeviceFd is set and the device is not open yet; once
\* HDBLockFile has returned, only a signal at this very place takes the lock.
OpeningInv ==
    /\ pc \in {"lock", "locked"} => DeviceFd /\ SocketFd /\ fds.device # "device"
    /\ fate = "running" /\ pc = "locked" /\ signalled # "opening" => lock = "ours"

\* An iteration does not end with a client that has no port.  It is only
\* before the first iteration, under inetd, that there is one, and then the
\* initial telnet options are waiting to be sent.
OpenedInv ==
    /\ pc = "modem" /\ SocketFd => DeviceFd
    /\ pc = "select" /\ SocketFd /\ ~DeviceFd => toNet > 0

IInv == /\ TypeOK
        /\ ThreeStates
        /\ NoStrandedClient
        /\ ReadsFit
        /\ NoLeakedDescriptor
        /\ DeviceInv
        /\ OpeningInv
        /\ OpenedInv

LEMMA InitInv == Init => IInv
<1> SUFFICES ASSUME Init PROVE IInv
  OBVIOUS
<1>1. TypeOK
  <2>1. toNet \in 0 .. BufferSize - 1 /\ toDev \in 0 .. BufferSize - 1
    BY SizesAssumption DEF Init
  <2> QED
    BY <2>1 DEF Init, TypeOK, Stages, Fates, Peers, NotDropped, Drops, AllClosed, Numbers, Files
<1>2. OpenedInv
  BY SizesAssumption DEF Init, OpenedInv
<1> QED
  BY <1>1, <1>2 DEF Init, IInv, ThreeStates, NoStrandedClient, ReadsFit,
     NoLeakedDescriptor, DeviceInv, OpeningInv, AllClosed

\* Dropping the connection from a handler.
LEMMA DropInv ==
    ASSUME IInv, fate = "running",
           NEW reason \in {"device", "network", "EOF from network"},
           DropAndContinue(reason)
    PROVE  IInv'
<1> USE DEF IInv, DropAndContinue, DropConnection, HDBUnlockFile
<1>1. TypeOK'
  <2>1. fds' \in Numbers
    BY DEF TypeOK, Numbers, Files
  <2>2. dropped' \in Drops
    BY DEF TypeOK, Drops
  <2>3. pc' \in Stages /\ peer' \in Peers
    BY DEF Stages, TypeOK, Peers
  <2> QED
    BY <2>1, <2>2, <2>3 DEF TypeOK
<1>2. ThreeStates' /\ NoStrandedClient' /\ ReadsFit' /\ OpenedInv'
  BY DEF ThreeStates, NoStrandedClient, ReadsFit, OpenedInv
<1>3. NoLeakedDescriptor' /\ DeviceInv' /\ OpeningInv'
  BY DEF NoLeakedDescriptor, DeviceInv, OpeningInv, TypeOK
<1> QED
  BY <1>1, <1>2, <1>3

\* The end of the process, by exit, by a signal or by a failed assertion.
LEMMA EndInv ==
    ASSUME IInv, NEW how \in Fates \ {"running"}, Ends(how),
           lock' \in {"none", "ours", "other"},
           how = "noerror" => ~SocketFd,
           how = "assert" => pc = "modem"
    PROVE  IInv'
<1> USE DEF IInv, Ends
<1>1. TypeOK'
  <2>1. fate' \in Fates /\ peer' \in Peers /\ selret' = {}
    BY DEF Peers
  <2>2. fds' \in Numbers
    BY DEF AllClosed, Numbers, Files
  <2> QED
    BY <2>1, <2>2 DEF TypeOK
<1>2. ThreeStates' /\ NoStrandedClient' /\ ReadsFit' /\ OpenedInv'
  BY DEF ThreeStates, NoStrandedClient, ReadsFit, OpenedInv
<1>3. NoLeakedDescriptor' /\ DeviceInv' /\ OpeningInv'
  BY DEF NoLeakedDescriptor, DeviceInv, OpeningInv, Fates, AllClosed
<1> QED
  BY <1>1, <1>2, <1>3

LEMMA ExitInv ==
    ASSUME IInv, NEW how \in Fates \ {"running"}, ExitFunction(how),
           how = "noerror" => ~SocketFd,
           how = "assert" => pc = "modem"
    PROVE  IInv'
<1>1. lock' \in {"none", "ours", "other"}
  BY DEF ExitFunction, HDBUnlockFile, IInv, TypeOK
<1> QED
  BY <1>1, EndInv DEF ExitFunction

LEMMA DiesInv ==
    ASSUME IInv, NEW how \in {"overrun", "sigpipe"}, Dies(how)
    PROVE  IInv'
<1>1. lock' \in {"none", "ours", "other"}
  BY DEF Dies, IInv, TypeOK
<1>2. how \in Fates \ {"running"} /\ how # "noerror" /\ how # "assert"
  BY DEF Fates
<1> QED
  BY <1>1, <1>2, EndInv DEF Dies

LEMMA OverrunInv == ASSUME IInv, Overruns PROVE IInv'
<1>1. "overrun" \in Fates \ {"running"} /\ "overrun" # "noerror" /\ "overrun" # "assert"
  BY DEF Fates
<1> QED
  BY <1>1, ExitInv, DiesInv DEF Overruns
----------------------------------------------------------------------------
(* Each step preserves the invariant.                                      *)

\* A handler that only changes the buffers, InputFlow and its place.
LEMMA HandledInv ==
    ASSUME IInv, fate = "running",
           NEW stage, NEW next \in Stages,
           Handled(stage, next),
           toNet' \in 0 .. BufferSize - 1, toDev' \in 0 .. BufferSize - 1,
           InputFlow' \in BOOLEAN,
           UNCHANGED <<DeviceFd, SocketFd, fds, lock, peer>>,
           next \in {"modem", "select"} => (SocketFd => DeviceFd),
           {pc, next} \cap {"lock", "locked"} = {}
    PROVE  IInv'
<1> USE DEF IInv, Handled
<1>1. TypeOK'
  BY DEF TypeOK
<1>2. ThreeStates' /\ NoStrandedClient' /\ ReadsFit' /\ OpenedInv'
  BY DEF ThreeStates, NoStrandedClient, ReadsFit, OpenedInv
<1>3. NoLeakedDescriptor' /\ DeviceInv' /\ OpeningInv'
  BY DEF NoLeakedDescriptor, DeviceInv, OpeningInv
<1> QED
  BY <1>1, <1>2, <1>3

\* "Nothing more to do" is reached without a client only.
LEMMA NothingToDoInv == ASSUME IInv, NothingToDo PROVE IInv'
<1>1. SUFFICES ~SocketFd
  BY ExitInv DEF NothingToDo, Fates
<1>2. SUFFICES ASSUME SocketFd PROVE FALSE
  OBVIOUS
<1>3. toNet \in 0 .. BufferSize - 1 /\ toDev \in 0 .. BufferSize - 1
  BY LengthTypes DEF IInv
<1>4. toNet = 0
  <2>1. "socketout" \notin Wanted
    BY DEF NothingToDo, IOStages
  <2> QED
    BY <1>2, <1>3, <2>1 DEF Wanted, Events, IOStages
<1>5. DeviceFd
  BY <1>2, <1>4 DEF IInv, OpenedInv, NothingToDo, AtSelect
<1>6. toDev = 0
  <2>1. "deviceout" \notin Wanted
    BY DEF NothingToDo, IOStages
  <2> QED
    BY <1>3, <1>5, <2>1 DEF Wanted, Events, IOStages
<1>7. "socketin" \in Wanted
  <2>1. BufferHasRoomFor(toNet, EscRedirectChar_bytes_SockB)
    BY <1>4, SizesAssumption DEF BufferHasRoomFor, BufferRoomLeft
  <2>2. BufferHasRoomFor(toDev, EscRedirectChar_bytes_DevB)
    BY <1>6, SizesAssumption DEF BufferHasRoomFor, BufferRoomLeft
  <2> QED
    BY <1>2, <1>5, <2>1, <2>2 DEF Wanted, Events, IOStages
<1> QED
  BY <1>7 DEF NothingToDo, IOStages

LEMMA SelectInv ==
    ASSUME IInv, NEW ev \in SUBSET Wanted, SercdSelect(ev)
    PROVE  IInv'
<1> USE DEF IInv, SercdSelect, AtSelect
<1>1. TypeOK'
  <2>1. pc' \in Stages /\ selret' \subseteq Events
    BY DEF Wanted, Stages, Events, IOStages
  <2>2. TypeOK /\ UNCHANGED <<inetd_mode, fate, DeviceFd, SocketFd, fds, lock, toNet,
                              toDev, InputFlow, peer, dropped, signalled>>
    OBVIOUS
  <2> HIDE DEF IInv, SercdSelect
  <2> QED
    BY <2>1, <2>2, Zenon DEF TypeOK
<1>2. ThreeStates' /\ NoStrandedClient' /\ ReadsFit' /\ OpenedInv'
  BY DEF ThreeStates, NoStrandedClient, ReadsFit, OpenedInv
<1>3. NoLeakedDescriptor' /\ DeviceInv' /\ OpeningInv'
  BY DEF NoLeakedDescriptor, DeviceInv, OpeningInv
<1> QED
  BY <1>1, <1>2, <1>3

LEMMA SkipsInv == ASSUME IInv, Skips PROVE IInv'
<1>1. PICK stage, next : /\ Skip(stage, next)
                         /\ next \in Stages
                         /\ next # "modem"
                         /\ next = "select" => stage = "modem"
  BY DEF Skips, Stages, Events, IOStages
<1>2. next \in {"modem", "select"} => (SocketFd => DeviceFd)
  BY <1>1 DEF Skip, At, IInv, OpenedInv
<1>3. /\ toNet' \in 0 .. BufferSize - 1 /\ toDev' \in 0 .. BufferSize - 1
      /\ InputFlow' \in BOOLEAN
  BY <1>1 DEF Skip, IInv, TypeOK
<1> QED
  BY <1>1, <1>2, <1>3, HandledInv DEF Skip, At

LEMMA DeviceInInv == ASSUME IInv, DeviceIn PROVE IInv'
<1>0. fate = "running" /\ TypeOK
  BY DEF DeviceIn, At, IInv
<1>1. PICK iobytes \in ReadFromDev(DeviceTryBytes) :
          \/ IOResultError(iobytes) /\ DropAndContinue("device")
          \/ iobytes = WouldBlock /\ Overruns
          \/ /\ iobytes > 0
             /\ \E k \in iobytes .. iobytes * EscWriteChar_bytes :
                   IF BufferHasRoomFor(toNet, k)
                   THEN /\ toNet' = toNet + k
                        /\ Handled("devicein", "deviceout")
                        /\ UNCHANGED <<DeviceFd, SocketFd, fds, lock, toDev,
                                       InputFlow, peer>>
                   ELSE ExitFunction("assert")
  BY DEF DeviceIn
<1>2. CASE DropAndContinue("device")
  BY <1>0, <1>2, DropInv
<1>3. CASE Overruns
  BY <1>3, OverrunInv
<1>4. ASSUME iobytes > 0,
             NEW k \in iobytes .. iobytes * EscWriteChar_bytes,
             IF BufferHasRoomFor(toNet, k)
             THEN /\ toNet' = toNet + k
                  /\ Handled("devicein", "deviceout")
                  /\ UNCHANGED <<DeviceFd, SocketFd, fds, lock, toDev, InputFlow, peer>>
             ELSE ExitFunction("assert")
      PROVE  IInv'
  <2>1. BufferHasRoomFor(toNet, k) /\ toNet + k \in 0 .. BufferSize - 1
    BY <1>0, <1>4, DeviceInFits
  <2>2. InputFlow' \in BOOLEAN /\ toDev' \in 0 .. BufferSize - 1
    BY <1>0, <1>4, <2>1 DEF TypeOK
  <2>3. "deviceout" \in Stages
    BY DEF Stages, Events, IOStages
  <2> QED
    BY <1>0, <1>4, <2>1, <2>2, <2>3, HandledInv
<1> QED
  BY <1>1, <1>2, <1>3, <1>4

LEMMA DeviceOutInv == ASSUME IInv, DeviceOut PROVE IInv'
<1>0. fate = "running" /\ TypeOK
  BY DEF DeviceOut, At, IInv
<1>1. PICK iobytes \in WriteToDev(toDev) :
          \/ DropAndContinue("device")
          \/ /\ toDev' = BufferPopBytes(toDev, iobytes)
             /\ Handled("deviceout", "socketout")
             /\ UNCHANGED <<DeviceFd, SocketFd, fds, lock, toNet, InputFlow, peer>>
  BY DEF DeviceOut
<1>2. CASE DropAndContinue("device")
  BY <1>0, <1>2, DropInv
<1>3. CASE /\ toDev' = BufferPopBytes(toDev, iobytes)
           /\ Handled("deviceout", "socketout")
           /\ UNCHANGED <<DeviceFd, SocketFd, fds, lock, toNet, InputFlow, peer>>
  <2>1. iobytes \in Int /\ toDev \in Nat
    BY <1>0, WriteResults, LengthTypes
  <2>2. toDev' \in 0 .. BufferSize - 1
    BY <1>3, <2>1, PopBytesType
  <2>3. InputFlow' \in BOOLEAN /\ toNet' \in 0 .. BufferSize - 1
    BY <1>0, <1>3 DEF TypeOK
  <2>4. "socketout" \in Stages
    BY DEF Stages, Events, IOStages
  <2> QED
    BY <1>0, <1>3, <2>2, <2>3, <2>4, HandledInv
<1> QED
  BY <1>1, <1>2, <1>3

LEMMA SocketOutInv == ASSUME IInv, SocketOut PROVE IInv'
<1>0. fate = "running" /\ TypeOK
  BY DEF SocketOut, At, IInv
<1>1. CASE Dies("sigpipe")
  BY <1>1, DiesInv
<1>2. CASE DropAndContinue("network")
  BY <1>0, <1>2, DropInv
<1>3. ASSUME NEW iobytes \in WriteToNet(toNet),
             toNet' = BufferPopBytes(toNet, iobytes),
             Handled("socketout", "socketin"),
             UNCHANGED <<DeviceFd, SocketFd, fds, lock, toDev, InputFlow, peer>>
      PROVE  IInv'
  <2>1. iobytes \in Int /\ toNet \in Nat
    BY <1>0, WriteResults, LengthTypes
  <2>2. toNet' \in 0 .. BufferSize - 1
    BY <1>3, <2>1, PopBytesType
  <2>3. InputFlow' \in BOOLEAN /\ toDev' \in 0 .. BufferSize - 1
    BY <1>0, <1>3 DEF TypeOK
  <2>4. "socketin" \in Stages
    BY DEF Stages, Events, IOStages
  <2> QED
    BY <1>0, <1>3, <2>2, <2>3, <2>4, HandledInv
<1> QED
  BY <1>1, <1>2, <1>3 DEF SocketOut
LEMMA SocketInInv == ASSUME IInv, SocketIn PROVE IInv'
<1>0. fate = "running" /\ TypeOK
  BY DEF SocketIn, At, IInv
<1>1. PICK iobytes \in ReadFromNet(SocketTryBytes) :
          \/ DropAndContinue("EOF from network")
          \/ DropAndContinue("network")
          \/ Overruns
          \/ /\ iobytes > 0
             /\ \E k \in 0 .. iobytes * EscRedirectChar_bytes_SockB,
                   d \in 0 .. iobytes * EscRedirectChar_bytes_DevB :
                   IF BufferHasRoomFor(toNet, k) /\ BufferHasRoomFor(toDev, d)
                   THEN /\ toNet' = toNet + k
                        /\ toDev' = toDev + d
                        /\ InputFlow' \in BOOLEAN
                        /\ Handled("socketin", "connect")
                        /\ UNCHANGED <<DeviceFd, SocketFd, fds, lock, peer>>
                   ELSE ExitFunction("assert")
  BY DEF SocketIn
<1>2. CASE DropAndContinue("EOF from network") \/ DropAndContinue("network")
  BY <1>0, <1>2, DropInv
<1>3. CASE Overruns
  BY <1>3, OverrunInv
<1>4. ASSUME iobytes > 0,
             NEW k \in 0 .. iobytes * EscRedirectChar_bytes_SockB,
             NEW d \in 0 .. iobytes * EscRedirectChar_bytes_DevB,
             IF BufferHasRoomFor(toNet, k) /\ BufferHasRoomFor(toDev, d)
             THEN /\ toNet' = toNet + k
                  /\ toDev' = toDev + d
                  /\ InputFlow' \in BOOLEAN
                  /\ Handled("socketin", "connect")
                  /\ UNCHANGED <<DeviceFd, SocketFd, fds, lock, peer>>
             ELSE ExitFunction("assert")
      PROVE  IInv'
  <2>1. /\ BufferHasRoomFor(toNet, k) /\ toNet + k \in 0 .. BufferSize - 1
        /\ BufferHasRoomFor(toDev, d) /\ toDev + d \in 0 .. BufferSize - 1
    BY <1>0, <1>4, SocketInFits
  <2>2. "connect" \in Stages
    BY DEF Stages, Events
  <2> QED
    BY <1>0, <1>4, <2>1, <2>2, HandledInv
<1> QED
  BY <1>1, <1>2, <1>3, <1>4

LEMMA ConnectInv == ASSUME IInv, Connect PROVE IInv'
<1> USE DEF IInv, Connect, Handled, At
<1>1. toNet' \in 0 .. BufferSize - 1
  <2>1. toNet \in 0 .. BufferSize - 1 /\ InitialOptions_bytes \in 0 .. BufferSize - 1
    BY LengthTypes, SizesAssumption
  <2> QED
    BY <2>1
<1>2. TypeOK'
  <2>1. /\ SocketFd' \in BOOLEAN
        /\ fds' \in Numbers
        /\ peer' \in Peers
    BY DEF TypeOK, Peers, Numbers, Files
  <2>2. /\ pc' \in Stages
        /\ selret' \subseteq Events
    BY DEF TypeOK, Stages
  <2> QED
    BY <1>1, <2>1, <2>2 DEF TypeOK
<1>3. ThreeStates' /\ NoStrandedClient' /\ ReadsFit' /\ OpenedInv'
  BY DEF ThreeStates, NoStrandedClient, ReadsFit, OpenedInv
<1>4. NoLeakedDescriptor' /\ DeviceInv' /\ OpeningInv'
  <2>1. /\ fds'.device = fds.device
        /\ ~SocketFd' => fds'.in = fds.in /\ fds'.out = fds.out
        /\ SocketFd' /\ ~SocketFd => fds'.in = "socket" /\ fds'.out = "socket"
        /\ SocketFd => SocketFd' /\ fds' = fds
    <3>1. CASE UNCHANGED <<SocketFd, fds>>
      BY <3>1
    <3>2. CASE ~SocketFd /\ SocketFd' /\ fds' = [fds EXCEPT !.in = "socket", !.out = "socket"]
      BY <3>2 DEF TypeOK
    <3> QED
      BY <3>1, <3>2
  <2> QED
    BY <2>1 DEF NoLeakedDescriptor, DeviceInv, OpeningInv, TypeOK
<1> QED
  BY <1>2, <1>3, <1>4

LEMMA NeedToOpenInv == ASSUME IInv, NeedToOpen PROVE IInv'
<1> USE DEF IInv, NeedToOpen, At
<1>1. TypeOK'
  BY DEF TypeOK, Stages
<1>2. ThreeStates' /\ NoStrandedClient' /\ ReadsFit' /\ OpenedInv'
  BY DEF ThreeStates, NoStrandedClient, ReadsFit, OpenedInv
<1>3. NoLeakedDescriptor' /\ DeviceInv' /\ OpeningInv'
  BY DEF NoLeakedDescriptor, DeviceInv, OpeningInv
<1> QED
  BY <1>1, <1>2, <1>3

\* OpenPort returns an error, with or without the lock.
LEMMA OpenFailedInv ==
    ASSUME IInv, fate = "running", pc \in {"lock", "locked"}, OpenFailed,
           lock' \in {"none", "ours", "other"}
    PROVE  IInv'
<1> USE DEF IInv, OpenFailed
<1>1. TypeOK'
  <2>1. dropped' \in Drops
    BY DEF TypeOK, Drops
  <2>2. fds' \in Numbers
    BY DEF TypeOK, Numbers, Files
  <2> QED
    BY <2>1, <2>2 DEF TypeOK, Stages, Peers
<1>2. ThreeStates' /\ NoStrandedClient' /\ ReadsFit' /\ OpenedInv'
  BY DEF ThreeStates, NoStrandedClient, ReadsFit, OpenedInv
<1>3. NoLeakedDescriptor' /\ DeviceInv' /\ OpeningInv'
  BY DEF NoLeakedDescriptor, DeviceInv, OpeningInv, TypeOK
<1> QED
  BY <1>1, <1>2, <1>3

LEMMA LockPortInv == ASSUME IInv, LockPort PROVE IInv'
<1>1. CASE HDBLockFile(FALSE) /\ OpenFailed
  BY <1>1, OpenFailedInv DEF LockPort, At, HDBLockFile, IInv, TypeOK
<1>2. CASE pc' = "locked"
  <2> USE <1>2 DEF IInv, LockPort, HDBLockFile, At
  <2>0. /\ lock' = "ours"
        /\ UNCHANGED <<inetd_mode, fate, selret, DeviceFd, SocketFd, fds, toNet,
                       toDev, InputFlow, peer, dropped, signalled>>
    BY DEF OpenFailed
  <2>1. TypeOK'
    BY <2>0 DEF TypeOK, Stages
  <2>2. ThreeStates' /\ NoStrandedClient' /\ ReadsFit' /\ OpenedInv'
    BY <2>0 DEF ThreeStates, NoStrandedClient, ReadsFit, OpenedInv
  <2>3. NoLeakedDescriptor' /\ DeviceInv' /\ OpeningInv'
    BY <2>0 DEF NoLeakedDescriptor, DeviceInv, OpeningInv
  <2> QED
    BY <2>1, <2>2, <2>3
<1> QED
  BY <1>1, <1>2 DEF LockPort

\* The numbers after a file was opened.
LEMMA NewNumberType ==
    ASSUME TypeOK, NEW file \in Files, NEW f \in NewNumber(file)
    PROVE  /\ f \in Numbers
           /\ f.device = fds.device
           /\ fds.in # "closed" /\ fds.out # "closed" => f = fds
  BY DEF TypeOK, NewNumber, Numbers, Files

LEMMA OpenPortInv == ASSUME IInv, OpenPort PROVE IInv'
<1> USE DEF IInv, OpenPort, At
<1>0. PICK f \in NewNumber("device") : fds' = [f EXCEPT !.device = "device"]
  OBVIOUS
<1>1. toDev' \in 0 .. BufferSize - 1
  BY SizesAssumption
<1>2. /\ f \in Numbers
      /\ fds.in # "closed" /\ fds.out # "closed" => f = fds
  BY <1>0, NewNumberType DEF Files
<1>3. /\ fds' \in Numbers
      /\ fds'.device = "device" /\ fds'.in = f.in /\ fds'.out = f.out
  BY <1>0, <1>2 DEF Numbers, Files
<1>4. TypeOK'
  <2>1. dropped' \in Drops /\ pc' \in Stages
    BY DEF NotDropped, Drops, Peers, Stages, Events
  <2> QED
    BY <1>1, <1>3, <2>1 DEF TypeOK
<1>5. ThreeStates' /\ NoStrandedClient' /\ ReadsFit' /\ OpenedInv'
  BY DEF ThreeStates, NoStrandedClient, ReadsFit, OpenedInv, OpeningInv
<1>6. NoLeakedDescriptor' /\ DeviceInv' /\ OpeningInv'
  BY <1>2, <1>3 DEF NoLeakedDescriptor, DeviceInv, OpeningInv
<1> QED
  BY <1>4, <1>5, <1>6

LEMMA OpenPortFailsInv == ASSUME IInv, OpenPortFails PROVE IInv'
  BY OpenFailedInv DEF OpenPortFails, At, IInv, TypeOK

LEMMA NoNeedToOpenInv == ASSUME IInv, NoNeedToOpen PROVE IInv'
<1>1. "modem" \in Stages
  BY DEF Stages, Events
<1>2. SocketFd => DeviceFd
  BY DEF NoNeedToOpen, IInv, TypeOK
<1>3. /\ toNet' \in 0 .. BufferSize - 1 /\ toDev' \in 0 .. BufferSize - 1
      /\ InputFlow' \in BOOLEAN
  BY DEF NoNeedToOpen, IInv, TypeOK
<1> QED
  BY <1>1, <1>2, <1>3, HandledInv DEF NoNeedToOpen, At

LEMMA ModemStateInv == ASSUME IInv, ModemState PROVE IInv'
<1>0. fate = "running" /\ pc = "modem" /\ TypeOK /\ (SocketFd => DeviceFd)
  BY DEF ModemState, At, IInv, OpenedInv
<1>1. "select" \in Stages
  BY DEF Stages
<1>2. CASE ExitFunction("assert")
  BY <1>0, <1>2, ExitInv DEF Fates
<1>3. CASE /\ toNet' \in 0 .. BufferSize - 1
           /\ Handled("modem", "select")
           /\ UNCHANGED <<DeviceFd, SocketFd, fds, lock, toDev, InputFlow, peer>>
  <2>1. InputFlow' \in BOOLEAN /\ toDev' \in 0 .. BufferSize - 1
    BY <1>0, <1>3 DEF TypeOK
  <2> QED
    BY <1>0, <1>1, <1>3, <2>1, HandledInv
<1>4. \/ ExitFunction("assert")
      \/ /\ toNet' \in 0 .. BufferSize - 1
         /\ Handled("modem", "select")
         /\ UNCHANGED <<DeviceFd, SocketFd, fds, lock, toDev, InputFlow, peer>>
  <2>1. toNet \in 0 .. BufferSize - 1
    BY <1>0, LengthTypes
  <2>2. ASSUME NEW k \in {SendCPCByteCommand_bytes - 1, SendCPCByteCommand_bytes},
               BufferHasRoomFor(toNet, k)
        PROVE  toNet + k \in 0 .. BufferSize - 1
    BY <2>1, <2>2, SizesAssumption DEF BufferHasRoomFor, BufferRoomLeft
  <2> QED
    BY <2>1, <2>2 DEF ModemState
<1> QED
  BY <1>2, <1>3, <1>4

LEMMA EnvironmentInv == ASSUME IInv, Environment PROVE IInv'
<1> USE DEF IInv
<1>1. CASE SignalFunction
  <2> USE <1>1 DEF SignalFunction, DropConnection, HDBUnlockFile
  <2>1. TypeOK'
    <3>1. fds' \in Numbers
      BY DEF TypeOK, Numbers, Files
    <3> QED
      BY <3>1 DEF TypeOK, Peers
  <2>2. ThreeStates' /\ NoStrandedClient' /\ ReadsFit' /\ OpenedInv'
    BY DEF ThreeStates, NoStrandedClient, ReadsFit, OpenedInv
  <2>3. NoLeakedDescriptor' /\ DeviceInv' /\ OpeningInv'
    BY DEF NoLeakedDescriptor, DeviceInv, OpeningInv, TypeOK
  <2> QED
    BY <2>1, <2>2, <2>3
<1>5. CASE OpenLog
  <2> USE <1>5 DEF OpenLog
  <2>0. /\ fds' \in Numbers
        /\ fds'.device = "device" <=> fds.device = "device"
    BY NewNumberType DEF TypeOK, Numbers, Files
  <2>1. TypeOK'
    BY <2>0 DEF TypeOK
  <2>2. ThreeStates' /\ NoStrandedClient' /\ ReadsFit' /\ OpenedInv'
    BY DEF ThreeStates, NoStrandedClient, ReadsFit, OpenedInv
  <2>3. NoLeakedDescriptor' /\ DeviceInv' /\ OpeningInv'
    BY <2>0 DEF NoLeakedDescriptor, DeviceInv, OpeningInv
  <2> QED
    BY <2>1, <2>2, <2>3
<1>2. CASE SignalInSelect
  BY <1>2, ExitInv DEF SignalInSelect, Fates
<1>3. CASE BreakFunction
  BY <1>3, ExitInv DEF BreakFunction, Fates
<1>4. CASE PeerCloses \/ PeerResets \/ OtherLocks
  <2> USE <1>4 DEF PeerCloses, PeerResets, OtherLocks
  <2>1. TypeOK'
    BY DEF TypeOK, Peers
  <2>2. ThreeStates' /\ NoStrandedClient' /\ ReadsFit' /\ OpenedInv'
    BY DEF ThreeStates, NoStrandedClient, ReadsFit, OpenedInv
  <2>3. NoLeakedDescriptor' /\ DeviceInv' /\ OpeningInv'
    BY DEF NoLeakedDescriptor, DeviceInv, OpeningInv
  <2> QED
    BY <2>1, <2>2, <2>3
<1> QED
  BY <1>1, <1>2, <1>3, <1>4, <1>5 DEF Environment

LEMMA StepInv == IInv /\ [Next]_vars => IInv'
<1> SUFFICES ASSUME IInv, [Next]_vars
             PROVE  IInv'
  OBVIOUS
<1>1. CASE NothingToDo
  BY <1>1, NothingToDoInv
<1>2. CASE SelectError
  BY <1>2, ExitInv DEF SelectError, Fates
<1>3. CASE Select
  BY <1>3, SelectInv DEF Select
<1>4. CASE Handlers
  BY <1>4, SkipsInv, DeviceInInv, DeviceOutInv, SocketOutInv, SocketInInv,
     ConnectInv, NeedToOpenInv, LockPortInv, OpenPortInv, OpenPortFailsInv,
     NoNeedToOpenInv, ModemStateInv DEF Handlers
<1>5. CASE Environment
  BY <1>5, EnvironmentInv
<1>6. CASE UNCHANGED vars
  <2> USE <1>6 DEF vars
  <2>1. TypeOK'
    BY Zenon DEF IInv, TypeOK
  <2>2. ThreeStates' /\ NoStrandedClient' /\ ReadsFit' /\ OpenedInv'
    BY DEF IInv, ThreeStates, NoStrandedClient, ReadsFit, OpenedInv
  <2>3. NoLeakedDescriptor' /\ DeviceInv' /\ OpeningInv'
    BY DEF IInv, NoLeakedDescriptor, DeviceInv, OpeningInv
  <2> QED
    BY <2>1, <2>2, <2>3 DEF IInv
<1> QED
  BY <1>1, <1>2, <1>3, <1>4, <1>5, <1>6 DEF Next, Process, Terminated

LEMMA AlwaysIInv == Spec => []IInv
  BY InitInv, StepInv, PTL DEF Spec

----------------------------------------------------------------------------
(* The lock file.  A second invariant, on top of IInv.                     *)

\* What select reported and no handler has consumed is about descriptors
\* whose pointers are still set.
ReportedInv ==
    /\ selret \cap {"devicein", "deviceout", "socketin"} # {} => DeviceFd
    /\ "socketout" \in selret => SocketFd

\* The stages up to and including network output.
EarlyStages == {"select", "devicein", "deviceout", "socketout"}

\* At those stages a client without a port is one that inetd handed over, and
\* the port has not been tried yet.
UntriedInv == pc \in EarlyStages /\ SocketFd /\ ~DeviceFd => lock # "ours"

LockInv == LockReleased /\ ReportedInv /\ UntriedInv

LEMMA LockInit == Init => LockInv
  BY DEF Init, LockInv, LockReleased, ReportedInv, UntriedInv

\* A step that leaves the descriptors and the lock alone.
LEMMA LockKept ==
    ASSUME LockInv, selret' \subseteq selret, fate' = fate,
           UNCHANGED <<DeviceFd, SocketFd, fds, lock, dropped>>,
           pc' \in EarlyStages => pc \in EarlyStages \/ (SocketFd => DeviceFd),
           pc = "locked" => pc' = pc
    PROVE  LockInv'
<1> USE DEF LockInv
<1>1. LockReleased'
  BY DEF LockReleased
<1>2. ReportedInv'
  BY DEF ReportedInv
<1>3. UntriedInv'
  BY DEF UntriedInv
<1> QED
  BY <1>1, <1>2, <1>3

\* Dropping a connection releases the lock: the port is open, or it was never
\* tried.
LEMMA LockDropped ==
    ASSUME IInv, LockInv, NEW reason, DropAndContinue(reason),
           DeviceFd \/ (SocketFd /\ pc \in EarlyStages)
    PROVE  LockInv'
<1> USE DEF LockInv, DropAndContinue, DropConnection, HDBUnlockFile
<1>1. lock' # "ours"
  <2>1. CASE DeviceFd
    BY <2>1
  <2>2. CASE ~DeviceFd
    BY <2>2 DEF UntriedInv
  <2> QED
    BY <2>1, <2>2
<1> QED
  BY <1>1 DEF LockReleased, ReportedInv, UntriedInv

\* The end of the process.
LEMMA LockEnds ==
    ASSUME IInv, LockInv, NEW how, fate = "running",
           ExitFunction(how) \/ (Dies(how) /\ how \in {"sigpipe", "overrun"})
    PROVE  LockInv'
<1> USE DEF LockInv, ExitFunction, Dies, Ends, HDBUnlockFile
<1>1. LockReleased'
  BY DEF LockReleased, IInv, DeviceInv, OpeningInv
<1>2. ReportedInv' /\ UntriedInv'
  BY DEF ReportedInv, UntriedInv
<1> QED
  BY <1>1, <1>2

LEMMA LockSelect == ASSUME IInv, LockInv, Select PROVE LockInv'
<1>1. PICK ev \in SUBSET Wanted : SercdSelect(ev)
  BY DEF Select
<1> USE <1>1 DEF SercdSelect, AtSelect, LockInv
<1>2. LockReleased'
  BY DEF LockReleased
<1>3. ReportedInv'
  BY DEF ReportedInv, Wanted
<1>4. UntriedInv'
  BY DEF UntriedInv, EarlyStages
<1> QED
  BY <1>2, <1>3, <1>4

LEMMA LockHandlers == ASSUME IInv, LockInv, Handlers PROVE LockInv'
<1>1. CASE Skips
  <2>1. PICK stage, next : Skip(stage, next) /\ (next \in EarlyStages =>
                               stage \in EarlyStages \/ stage = "modem")
                           /\ stage # "locked"
    BY <1>1 DEF Skips, EarlyStages
  <2>2. next \in EarlyStages => pc \in EarlyStages \/ (SocketFd => DeviceFd)
    BY <2>1 DEF Skip, At, IInv, OpenedInv
  <2> QED
    BY <2>1, <2>2, LockKept DEF Skip, At, Handled
<1>2. CASE DeviceIn
  <2>1. fate = "running" /\ DeviceFd /\ pc \in EarlyStages
    BY <1>2 DEF DeviceIn, At, LockInv, ReportedInv, EarlyStages
  <2>2. \/ DropAndContinue("device")
        \/ Overruns \/ ExitFunction("assert")
        \/ /\ Handled("devicein", "deviceout")
           /\ UNCHANGED <<DeviceFd, SocketFd, fds, lock>>
    BY <1>2 DEF DeviceIn
  <2> QED
    BY <2>1, <2>2, LockDropped, LockEnds, LockKept DEF Overruns, Handled, EarlyStages
<1>3. CASE DeviceOut
  <2>1. fate = "running" /\ DeviceFd /\ pc \in EarlyStages
    BY <1>3 DEF DeviceOut, At, LockInv, ReportedInv, EarlyStages
  <2>2. \/ DropAndContinue("device")
        \/ /\ Handled("deviceout", "socketout")
           /\ UNCHANGED <<DeviceFd, SocketFd, fds, lock>>
    BY <1>3 DEF DeviceOut
  <2> QED
    BY <2>1, <2>2, LockDropped, LockKept DEF Handled, EarlyStages
<1>4. CASE SocketOut
  <2>1. fate = "running" /\ SocketFd /\ pc \in EarlyStages
    BY <1>4 DEF SocketOut, At, LockInv, ReportedInv, EarlyStages
  <2>2. \/ DropAndContinue("network")
        \/ Dies("sigpipe")
        \/ /\ Handled("socketout", "socketin")
           /\ UNCHANGED <<DeviceFd, SocketFd, fds, lock>>
    BY <1>4 DEF SocketOut
  <2> QED
    BY <2>1, <2>2, LockDropped, LockEnds, LockKept DEF Handled, EarlyStages
<1>5. CASE SocketIn
  <2>1. fate = "running" /\ DeviceFd /\ pc = "socketin"
    BY <1>5 DEF SocketIn, At, LockInv, ReportedInv
  <2>2. \/ DropAndContinue("EOF from network") \/ DropAndContinue("network")
        \/ Overruns \/ ExitFunction("assert")
        \/ /\ Handled("socketin", "connect")
           /\ UNCHANGED <<DeviceFd, SocketFd, fds, lock>>
    BY <1>5 DEF SocketIn
  <2> QED
    BY <2>1, <2>2, LockDropped, LockEnds, LockKept DEF Overruns, Handled, EarlyStages
<1>6. CASE Connect
  <2> USE <1>6 DEF Connect, Handled, LockInv
  <2>1. LockReleased'
    <3>1. fds'.device = fds.device
      BY DEF IInv, TypeOK, Numbers
    <3> QED
      BY <3>1 DEF LockReleased, At
  <2>2. ReportedInv' /\ UntriedInv'
    BY DEF ReportedInv, UntriedInv, EarlyStages
  <2> QED
    BY <2>1, <2>2
<1>7. CASE OpenPort
  <2> USE <1>7 DEF OpenPort, At, LockInv
  <2>1. fds'.device = "device"
    <3>1. PICK f \in NewNumber("device") : fds' = [f EXCEPT !.device = "device"]
      OBVIOUS
    <3>2. f \in Numbers
      BY NewNumberType DEF Files, IInv
    <3> QED
      BY <3>1, <3>2
  <2>2. LockReleased' /\ UntriedInv'
    BY <2>1 DEF LockReleased, UntriedInv, EarlyStages
  <2>3. ReportedInv'
    BY DEF ReportedInv
  <2> QED
    BY <2>2, <2>3
<1>8. CASE OpenPortFails \/ (HDBLockFile(FALSE) /\ OpenFailed)
  <2> USE <1>8 DEF OpenPortFails, OpenFailed, LockInv
  <2>1. dropped'.why = "open"
    <3>1. dropped' = [why |-> "open", peer |-> peer]
      BY Zenon
    <3> QED
      BY <3>1
  <2>2. LockReleased'
    BY <2>1, Zenon DEF LockReleased
  <2>3. ReportedInv' /\ UntriedInv'
    BY DEF ReportedInv, UntriedInv
  <2> QED
    BY <2>2, <2>3
<1>11. CASE NeedToOpen
  <2> USE <1>11 DEF NeedToOpen, At, LockInv
  <2>1. LockReleased'
    BY DEF LockReleased
  <2>2. ReportedInv' /\ UntriedInv'
    BY DEF ReportedInv, UntriedInv, EarlyStages
  <2> QED
    BY <2>1, <2>2
<1>12. CASE LockPort /\ pc' = "locked"
  <2> USE <1>12 DEF LockPort, OpenFailed, At, LockInv
  <2>1. fate' = "running" /\ UNCHANGED <<selret, DeviceFd, SocketFd>>
    OBVIOUS
  <2>2. LockReleased'
    BY <2>1 DEF LockReleased
  <2>3. ReportedInv' /\ UntriedInv'
    BY <2>1 DEF ReportedInv, UntriedInv, EarlyStages
  <2> QED
    BY <2>2, <2>3
<1>9. CASE NoNeedToOpen
  BY <1>9, LockKept DEF NoNeedToOpen, Handled, At, EarlyStages
<1>10. CASE ModemState
  <2>1. fate = "running" /\ (SocketFd => DeviceFd) /\ pc = "modem"
    BY <1>10 DEF ModemState, At, IInv, OpenedInv
  <2>2. \/ ExitFunction("assert")
        \/ /\ Handled("modem", "select")
           /\ UNCHANGED <<DeviceFd, SocketFd, fds, lock>>
    BY <1>10 DEF ModemState
  <2> QED
    BY <2>1, <2>2, LockEnds, LockKept DEF Handled, EarlyStages
<1> QED
  BY <1>1, <1>2, <1>3, <1>4, <1>5, <1>6, <1>7, <1>8, <1>9, <1>10,
     <1>11, <1>12 DEF Handlers, LockPort

LEMMA LockEnvironment == ASSUME IInv, LockInv, Environment PROVE LockInv'
<1>1. CASE SignalFunction
  <2> USE <1>1 DEF SignalFunction, DropConnection, HDBUnlockFile, LockInv
  <2>1. LockReleased'
    BY DEF LockReleased, IInv, DeviceInv, OpeningInv
  <2>2. ReportedInv' /\ UntriedInv'
    BY DEF ReportedInv, UntriedInv
  <2> QED
    BY <2>1, <2>2
<1>2. CASE SignalInSelect \/ BreakFunction
  BY <1>2, LockEnds DEF SignalInSelect, AtSelect, BreakFunction
<1>3. CASE PeerCloses \/ PeerResets
  BY <1>3, LockKept DEF PeerCloses, PeerResets
<1>5. CASE OpenLog
  <2> USE <1>5 DEF OpenLog, LockInv
  <2>1. fds'.device = "device" <=> fds.device = "device"
    BY NewNumberType DEF TypeOK, Numbers, Files, IInv
  <2>2. LockReleased' /\ ReportedInv' /\ UntriedInv'
    BY <2>1 DEF LockReleased, ReportedInv, UntriedInv
  <2> QED
    BY <2>2
<1>4. CASE OtherLocks
  BY <1>4 DEF OtherLocks, LockInv, LockReleased, ReportedInv, UntriedInv
<1> QED
  BY <1>1, <1>2, <1>3, <1>4, <1>5 DEF Environment

LEMMA LockStep == IInv /\ LockInv /\ [Next]_vars => LockInv'
<1> SUFFICES ASSUME IInv, LockInv, [Next]_vars
             PROVE  LockInv'
  OBVIOUS
<1>1. CASE NothingToDo \/ SelectError
  BY <1>1, LockEnds DEF NothingToDo, SelectError, AtSelect
<1>2. CASE Select
  BY <1>2, LockSelect
<1>3. CASE Handlers
  BY <1>3, LockHandlers
<1>4. CASE Environment
  BY <1>4, LockEnvironment
<1>5. CASE UNCHANGED vars
  BY <1>5, LockKept DEF vars
<1> QED
  BY <1>1, <1>2, <1>3, <1>4, <1>5 DEF Next, Process, Terminated

----------------------------------------------------------------------------
(* The theorems.                                                           *)

\* No step of the loop, whatever the sizes, takes a variable out of its
\* type: in particular both buffers stay within BufferSize - 1 bytes.
THEOREM TypeCorrect == Spec => []TypeOK
  BY AlwaysIInv, PTL DEF IInv

\* The comment on the main loop, "if DeviceFd is set, InSocketFd and
\* OutSocketFd should be set as well", holds on every path through it.
THEOREM ThreeStatesHold == Spec => []ThreeStates
  BY AlwaysIInv, PTL DEF IInv

\* The loop never exits with "nothing more to do" while a client is
\* connected, for any sizes with EscRedirectChar_bytes_SockB < BufferSize.
THEOREM ClientNeverStranded == Spec => []NoStrandedClient
  BY AlwaysIInv, PTL DEF IInv

\* What DEVICEIN and SOCKETIN read always fits, for all sizes: the assertion
\* in AddToBuffer can only fail in the modem state notification.
THEOREM ReadsAlwaysFit == Spec => []ReadsFit
  BY AlwaysIInv, PTL DEF IInv

\* Without signals, DeviceFd and the socket pointers tell exactly which
\* descriptors are open, on every error path of the loop.
THEOREM NoDescriptorLeaks == Spec => []NoLeakedDescriptor
  BY AlwaysIInv, PTL DEF IInv

\* The device is never open without our lock file, with a signal at any place
\* but the one between HDBLockFile and open, where the code has no protection.
THEOREM LockCoversOpenPort == Spec => []OpenImpliesLock
<1>1. IInv => OpenImpliesLock
  BY DEF IInv, DeviceInv, OpenImpliesLock
<1> QED
  BY <1>1, AlwaysIInv, PTL

\* Every way out of a connection gives the lock file back, signals included,
\* except a device that could not be opened after it was locked and a process
\* that was killed.
THEOREM LockAlwaysReleased == Spec => []LockReleased
<1>1. LockInv => LockReleased
  BY DEF LockInv
<1> QED
  BY <1>1, LockInit, LockStep, AlwaysIInv, PTL DEF Spec
=============================================================================
