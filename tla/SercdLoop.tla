----------------------------- MODULE SercdLoop -----------------------------
(***************************************************************************)
(* The main loop of sercd: one process that relays bytes between a TCP     *)
(* client and a serial device through two bounded buffers.                 *)
(*                                                                         *)
(* An iteration decides which events it wants, waits in select for some    *)
(* of them, and then handles the reported ones in a fixed order: serial    *)
(* input, serial output, network output, network input, new connection,    *)
(* opening the port, modem state.  pc is the stage the iteration is at.    *)
(* Buffers are represented by the number of bytes they hold (SercdBuffer   *)
(* has the bytes).  InSocketFd and OutSocketFd are always set and cleared  *)
(* together, so one variable, SocketFd, stands for both pointers.  The     *)
(* numbers they point to are told apart: a signal handler closes them and  *)
(* leaves the pointers set, and open may then return the same numbers.     *)
(*                                                                         *)
(* The environment is the peer's end of the connection, the device, other  *)
(* programs that lock the device, and signals.                             *)
(***************************************************************************)
EXTENDS Integers

CONSTANTS
    BufferSize,                 \* 2048
    ReadSize,                   \* sizeof(readbuf), 512
    EscWriteChar_bytes,         \* 2
    SendCPCByteCommand_bytes,   \* 8
    EscRedirectChar_bytes_SockB,\* HandleIACCommand_bytes, 516
    EscRedirectChar_bytes_DevB, \* 1
    InitialOptions_bytes,       \* six telnet options of 3 bytes
    MayBlock                    \* stages whose read or write may return
                                \* EWOULDBLOCK after select reported it ready

IOStages == {"devicein", "deviceout", "socketout", "socketin"}

ASSUME SizesAssumption ==
    /\ BufferSize \in Nat
    /\ ReadSize \in Nat \ {0}
    /\ EscWriteChar_bytes \in Nat \ {0}
    /\ SendCPCByteCommand_bytes \in Nat \ {0}
    /\ EscRedirectChar_bytes_SockB \in Nat \ {0}
    /\ EscRedirectChar_bytes_DevB = 1
    /\ InitialOptions_bytes \in Nat \ {0}
    /\ InitialOptions_bytes < BufferSize - 1
    /\ EscRedirectChar_bytes_SockB < BufferSize
ASSUME MayBlockAssumption == MayBlock \subseteq IOStages

Events == IOStages \cup {"connect", "modem"}

\* The stages of an iteration; opening the port takes three of them.
Stages == Events \cup {"select", "open", "lock", "locked"}

\* How a process that has ended came to its end.
Fates == {"running", "noerror", "error", "assert", "overrun", "sigpipe", "sigint"}

Peers == {"none", "up", "fin", "reset", "broken"}

VARIABLES
    inetd_mode, \* started by inetd, rather than listening itself
    pc,         \* the stage of the current iteration
    fate,       \* "running", or how the process ended
    selret,     \* reported events not handled yet in this iteration
    DeviceFd,   \* the pointer DeviceFd is not NULL
    SocketFd,   \* the pointers InSocketFd and OutSocketFd are not NULL
    fds,        \* what the numbers in devicefd, insocket and outsocket refer to
    lock,       \* the lock file: "none", "ours" or "other"
    toNet,      \* bytes in ToNetBuf
    toDev,      \* bytes in ToDevBuf
    InputFlow,  \* FALSE while the client has suspended the output to it
    peer,       \* the client's end of the connection
    dropped,    \* the last DropConnection since the port was opened: its
                \* reason and the state of the peer (recorded for the properties)
    signalled   \* SIGTERM, SIGHUP or SIGQUIT has been delivered: "no", "yes",
                \* or "opening", between locking and opening the device

\* The open file a number refers to, or "closed".
Files == {"device", "socket", "log", "closed"}

Numbers == [device : Files \ {"socket"}, in : Files, out : Files]

Drops == [why : {"none", "device", "network", "EOF from network", "open"},
          peer : Peers]

AllClosed == [device |-> "closed", in |-> "closed", out |-> "closed"]

NotDropped == [why |-> "none", peer |-> "none"]

vars == <<inetd_mode, pc, fate, selret, DeviceFd, SocketFd, fds, lock,
          toNet, toDev, InputFlow, peer, dropped, signalled>>

----------------------------------------------------------------------------
(* Buffer queries (see SercdBuffer).                                       *)

BufferRoomLeft(len) == BufferSize - 1 - len

BufferHasRoomFor(len, x) == BufferRoomLeft(len) >= x

\* BufferPopBytes: iobytes = -1 is converted to unsigned and moves RdPos one
\* back, so that the buffer seems one byte longer, or empty if it was full.
MutBufferPopBytes(len, iobytes) == len - iobytes
BufferPopBytes(len, iobytes) == (len - iobytes) % BufferSize

\* The smallest of the values, the macro MIN.
MIN(x, y) == IF x > y THEN y ELSE x

----------------------------------------------------------------------------
(* Results of read and write.                                              *)

WouldBlock == -1    \* -1 with errno = EWOULDBLOCK
Failed     == -2    \* -1 with any other errno

IOResultError(iobytes) == iobytes \in {0, Failed}

Blocks(stage) == IF stage \in MayBlock THEN {WouldBlock} ELSE {}

\* A transfer of at least one and at most n bytes; of none only if n = 0.
Some(n) == IF n = 0 THEN {0} ELSE 1 .. n

ReadFromDev(n) ==
    CASE fds.device = "device" -> Some(n) \cup {0, Failed} \cup Blocks("devicein")
      [] fds.device = "log"    -> {0, Failed}
      [] OTHER                 -> {Failed}

WriteToDev(n) ==
    CASE fds.device = "device" -> Some(n) \cup {Failed} \cup Blocks("deviceout")
      [] fds.device = "log"    -> Some(n) \cup {Failed}
      [] OTHER                 -> {Failed}

\* On the number of a socket that a signal has closed: the device, which is
\* not blocking, has been read or written in the same iteration already.
WriteToNet(n) ==
    CASE fds.out = "socket" ->
             IF peer \in {"up", "fin"} THEN Some(n) \cup Blocks("socketout")
                                       ELSE {Failed}
      [] fds.out = "device" -> Some(n) \cup {Failed, WouldBlock}
      [] fds.out = "log"    -> Some(n) \cup {Failed}
      [] OTHER              -> {Failed}

\* Bytes that arrived before a FIN or a reset are still read first.
ReadFromNet(n) ==
    CASE fds.in = "socket" ->
             Some(n) \cup (CASE peer = "up"    -> Blocks("socketin")
                             [] peer = "reset" -> {Failed}
                             [] OTHER          -> {0})
      [] fds.in = "device" -> Some(n) \cup {0, Failed, WouldBlock}
      [] fds.in = "log"    -> {0, Failed}
      [] OTHER             -> {Failed}

----------------------------------------------------------------------------
(* The lock file (see HDBLock), and leaving a connection or the program.   *)

\* HDBUnlockFile: the file is removed if it is, or can be made, ours.
MutHDBUnlockFile(l) == l
HDBUnlockFile(l) == IF l = "other" THEN "other" ELSE "none"

\* DropConnection on the descriptors DeviceFd and SocketFd point to.
MutDropConnection ==
    /\ fds' = [fds EXCEPT !.device = IF DeviceFd THEN "closed" ELSE fds.device]
    /\ lock' = IF DeviceFd THEN HDBUnlockFile(lock) ELSE lock
    /\ UNCHANGED peer
DropConnection ==
    /\ fds' = [device |-> IF DeviceFd THEN "closed" ELSE fds.device,
               in     |-> IF SocketFd THEN "closed" ELSE fds.in,
               out    |-> IF SocketFd THEN "closed" ELSE fds.out]
    /\ lock' = IF DeviceFd THEN HDBUnlockFile(lock) ELSE lock
    /\ peer' = IF SocketFd THEN "none" ELSE peer

\* What the main loop does when IOResultError reports an error.
MutDropAndContinue(reason) ==
    /\ DropConnection
    /\ SocketFd' = FALSE
    /\ dropped' = [why |-> reason, peer |-> peer]
    /\ pc' = "select"
    /\ selret' = {}
    /\ UNCHANGED <<inetd_mode, fate, DeviceFd, toNet, toDev, InputFlow, signalled>>
DropAndContinue(reason) ==
    /\ DropConnection
    /\ SocketFd' = FALSE
    /\ DeviceFd' = FALSE
    /\ dropped' = [why |-> reason, peer |-> peer]
    /\ pc' = "select"
    /\ selret' = {}
    /\ UNCHANGED <<inetd_mode, fate, toNet, toDev, InputFlow, signalled>>

\* The process is gone; the kernel closes what is still open.
Ends(how) ==
    /\ fate' = how
    /\ fds' = AllClosed
    /\ peer' = "none"
    /\ selret' = {}
    /\ UNCHANGED <<inetd_mode, pc, DeviceFd, SocketFd, toNet, toDev,
                   InputFlow, dropped, signalled>>

\* exit runs ExitFunction, and so does the SIGABRT handler after a failed
\* assertion: DropConnection closes the port and removes the lock.
ExitFunction(how) ==
    /\ Ends(how)
    /\ lock' = IF DeviceFd THEN HDBUnlockFile(lock) ELSE lock

\* Killed: nothing is cleaned up.
Dies(how) == Ends(how) /\ UNCHANGED lock

\* A read returned -1 with EWOULDBLOCK, the copy loop compares its unsigned
\* counter with it and runs off the end of readbuf: until an assertion of
\* AddToBuffer fails because a buffer is full, or until a memory fault.
Overruns == ExitFunction("overrun") \/ Dies("overrun")

----------------------------------------------------------------------------
(* Waiting for events.                                                     *)

MutWanted ==
    {e \in Events :
        \/ e = "devicein"  /\ DeviceFd /\ InputFlow
        \/ e = "deviceout" /\ DeviceFd /\ toDev > 0
        \/ e = "modem"     /\ DeviceFd /\ InputFlow
        \/ e = "socketout" /\ SocketFd /\ toNet > 0
        \/ e = "socketin"  /\ DeviceFd /\ SocketFd /\ InputFlow
        \/ e = "connect"   /\ ~inetd_mode}
MutWantedSuspended ==
    {e \in Events :
        \/ e = "devicein"  /\ DeviceFd /\ InputFlow /\ BufferHasRoomFor(toNet, EscWriteChar_bytes)
        \/ e = "deviceout" /\ DeviceFd /\ toDev > 0
        \/ e = "modem"     /\ DeviceFd /\ InputFlow
        \/ e = "socketout" /\ SocketFd /\ InputFlow /\ toNet > 0
        \/ /\ e = "socketin"
           /\ DeviceFd /\ BufferHasRoomFor(toDev, EscRedirectChar_bytes_DevB)
           /\ SocketFd /\ BufferHasRoomFor(toNet, EscRedirectChar_bytes_SockB)
        \/ e = "connect"   /\ ~inetd_mode}
\* The events the iteration asks for.  The listening socket exists exactly
\* in standalone mode; PortControlEnable is never cleared.
Wanted ==
    {e \in Events :
        \/ /\ e = "devicein"
           /\ DeviceFd /\ InputFlow
           /\ BufferHasRoomFor(toNet, EscWriteChar_bytes)
        \/ /\ e = "deviceout"
           /\ DeviceFd /\ toDev > 0
        \/ /\ e = "modem"
           /\ DeviceFd /\ InputFlow
           /\ BufferHasRoomFor(toNet, SendCPCByteCommand_bytes)
        \/ /\ e = "socketout"
           /\ SocketFd /\ toNet > 0
        \/ /\ e = "socketin"
           /\ DeviceFd /\ BufferHasRoomFor(toDev, EscRedirectChar_bytes_DevB)
           /\ SocketFd /\ BufferHasRoomFor(toNet, EscRedirectChar_bytes_SockB)
        \/ /\ e = "connect"
           /\ ~inetd_mode}

\* A closed or reset connection is readable, a reset one writable too.
AlwaysReady ==
    {e \in Events : \/ e = "socketin"  /\ peer \in {"fin", "reset", "broken"}
                    \/ e = "socketout" /\ peer \in {"reset", "broken"}}

\* select fails with EBADF if it is given a number that refers to no file.
BadDescriptor ==
    \/ Wanted \cap {"devicein", "deviceout"} # {} /\ fds.device = "closed"
    \/ "socketin" \in Wanted /\ fds.in = "closed"
    \/ "socketout" \in Wanted /\ fds.out = "closed"

AtSelect == fate = "running" /\ pc = "select"

\* "Nothing more to do": only reachable when there is no listening socket.
NothingToDo ==
    /\ AtSelect
    /\ Wanted \cap IOStages = {}
    /\ inetd_mode
    /\ ExitFunction("noerror")

MutSelectError ==
    /\ AtSelect
    /\ ~(Wanted \cap IOStages = {} /\ inetd_mode)
    /\ BadDescriptor
    /\ UNCHANGED vars
SelectError ==
    /\ AtSelect
    /\ ~(Wanted \cap IOStages = {} /\ inetd_mode)
    /\ BadDescriptor
    /\ ExitFunction("error")

\* A timeout without any event only starts the next iteration.
SercdSelect(ev) ==
    /\ AtSelect
    /\ Wanted \cap IOStages # {} \/ ~inetd_mode
    /\ ~BadDescriptor
    /\ ev # {}
    /\ Wanted \cap AlwaysReady \subseteq ev
    /\ selret' = ev
    /\ pc' = "devicein"
    /\ UNCHANGED <<inetd_mode, fate, DeviceFd, SocketFd, fds, lock, toNet,
                   toDev, InputFlow, peer, dropped, signalled>>

----------------------------------------------------------------------------
(* The handlers, in the order in which an iteration runs them.             *)

At(stage) == fate = "running" /\ pc = stage

Handled(stage, next) ==
    /\ selret' = selret \ {stage}
    /\ pc' = next
    /\ UNCHANGED <<inetd_mode, fate, dropped, signalled>>

\* A stage whose event was not reported.
MutSkip(stage, next) ==
    /\ At(stage)
    /\ stage \notin selret
    /\ Handled(stage, IF stage = "connect" THEN "select" ELSE next)
    /\ UNCHANGED <<DeviceFd, SocketFd, fds, lock, toNet, toDev, InputFlow, peer>>
Skip(stage, next) ==
    /\ At(stage)
    /\ stage \notin selret
    /\ Handled(stage, next)
    /\ UNCHANGED <<DeviceFd, SocketFd, fds, lock, toNet, toDev, InputFlow, peer>>

Skips ==
    \/ Skip("devicein", "deviceout")
    \/ Skip("deviceout", "socketout")
    \/ Skip("socketout", "socketin")
    \/ Skip("socketin", "connect")
    \/ Skip("connect", "open")
    \/ Skip("modem", "select")

\* Each byte read from the device becomes one or two bytes for the network.
DeviceTryBytes == MIN(ReadSize, BufferRoomLeft(toNet) \div EscWriteChar_bytes)

DeviceIn ==
    /\ At("devicein")
    /\ "devicein" \in selret
    /\ \E iobytes \in ReadFromDev(DeviceTryBytes) :
          \/ IOResultError(iobytes) /\ DropAndContinue("device")
          \/ iobytes = WouldBlock /\ Overruns
          \/ /\ iobytes > 0
             /\ \E k \in iobytes .. iobytes * EscWriteChar_bytes :
                   IF BufferHasRoomFor(toNet, k)
                   THEN /\ toNet' = toNet + k
                        /\ Handled("devicein", "deviceout")
                        /\ UNCHANGED <<DeviceFd, SocketFd, fds, lock, toDev,
                                       InputFlow, peer>>
                   ELSE ExitFunction("assert")

\* The contiguous run a write is offered is a non-empty prefix of a
\* non-empty buffer (StringUsable of SercdBuffer), so any positive part of
\* the buffered bytes may be accepted.
DeviceOut ==
    /\ At("deviceout")
    /\ "deviceout" \in selret
    /\ \E iobytes \in WriteToDev(toDev) :
          \/ IOResultError(iobytes) /\ DropAndContinue("device")
          \/ /\ ~IOResultError(iobytes)
             /\ toDev' = BufferPopBytes(toDev, iobytes)
             /\ Handled("deviceout", "socketout")
             /\ UNCHANGED <<DeviceFd, SocketFd, fds, lock, toNet, InputFlow, peer>>

\* Once the peer has reset a connection it had closed before, a write raises
\* SIGPIPE, for which no handler is installed.
SocketOut ==
    /\ At("socketout")
    /\ "socketout" \in selret
    /\ \/ /\ fds.out = "socket" /\ peer = "broken"
          /\ Dies("sigpipe")
       \/ /\ ~(fds.out = "socket" /\ peer = "broken")
          /\ \E iobytes \in WriteToNet(toNet) :
                \/ IOResultError(iobytes) /\ DropAndContinue("network")
                \/ /\ ~IOResultError(iobytes)
                   /\ toNet' = BufferPopBytes(toNet, iobytes)
                   /\ Handled("socketout", "socketin")
                   /\ UNCHANGED <<DeviceFd, SocketFd, fds, lock, toDev,
                                  InputFlow, peer>>

MutSocketTryBytes ==
    MIN(ReadSize, BufferRoomLeft(toDev) \div EscRedirectChar_bytes_DevB)
SocketTryBytes ==
    MIN(MIN(ReadSize, BufferRoomLeft(toNet) \div EscRedirectChar_bytes_SockB),
        BufferRoomLeft(toDev) \div EscRedirectChar_bytes_DevB)

\* EscRedirectChar on every byte read: each may add a byte for the device,
\* or complete a command that is answered and may change InputFlow.
SocketIn ==
    /\ At("socketin")
    /\ "socketin" \in selret
    /\ \E iobytes \in ReadFromNet(SocketTryBytes) :
          \/ iobytes = 0 /\ DropAndContinue("EOF from network")
          \/ iobytes = Failed /\ DropAndContinue("network")
          \/ iobytes = WouldBlock /\ Overruns
          \/ /\ iobytes > 0
             /\ \E k \in 0 .. iobytes * EscRedirectChar_bytes_SockB,
                   d \in 0 .. iobytes * EscRedirectChar_bytes_DevB :
                   IF BufferHasRoomFor(toNet, k) /\ BufferHasRoomFor(toDev, d)
                   THEN /\ toNet' = toNet + k
                        /\ toDev' = toDev + d
                        /\ InputFlow' \in BOOLEAN
                        /\ Handled("socketin", "connect")
                        /\ UNCHANGED <<DeviceFd, SocketFd, fds, lock, peer>>
                   ELSE ExitFunction("assert")
\* A new client, unless accept fails or there is a client already.
Connect ==
    /\ At("connect")
    /\ "connect" \in selret
    /\ Handled("connect", "open")
    /\ \/ UNCHANGED <<SocketFd, fds, toNet, peer>>
       \/ /\ ~SocketFd
          /\ SocketFd' = TRUE
          /\ fds' = [fds EXCEPT !.in = "socket", !.out = "socket"]
          /\ toNet' = InitialOptions_bytes
          /\ peer' = "up"
    /\ UNCHANGED <<DeviceFd, lock, toDev, InputFlow>>

\* HDBLockFile as OpenPort sees it, returning LockOk or not.  A lock of
\* another program is respected; ours is taken as held; creating the file
\* may fail.
MutHDBLockFile(ok) ==
    lock' = IF ok /\ lock = "none" THEN "ours" ELSE lock
HDBLockFile(ok) ==
    IF ok THEN lock # "other" /\ lock' = "ours"
          ELSE lock # "ours" /\ lock' = lock

\* A file is opened and gets the lowest free number, which may be that of a
\* socket a signal has closed: 0 before 1 under inetd, and otherwise the one
\* number of both directions.
NewNumber(file) ==
    {fds} \cup
    IF fds.in = "closed"
    THEN {[fds EXCEPT !.in = file, !.out = IF inetd_mode THEN @ ELSE file]}
    ELSE IF fds.out = "closed" THEN {[fds EXCEPT !.out = file]} ELSE {}

\* The port is opened as soon as there is a client.  DeviceFd is set before
\* OpenPort locks and opens the device: a signal on the way calls ClosePort,
\* with the number devicefd had before.
NeedToOpen ==
    /\ At("open")
    /\ SocketFd /\ ~DeviceFd
    /\ DeviceFd' = TRUE
    /\ pc' = "lock"
    /\ UNCHANGED <<inetd_mode, fate, selret, SocketFd, fds, lock, toNet, toDev,
                   InputFlow, peer, dropped, signalled>>

\* OpenPort returned Error: DropConnection(NULL, ...) closes the connection
\* only.
OpenFailed ==
    /\ fds' = [fds EXCEPT !.in = "closed", !.out = "closed"]
    /\ SocketFd' = FALSE
    /\ DeviceFd' = FALSE
    /\ peer' = "none"
    /\ dropped' = [why |-> "open", peer |-> peer]
    /\ pc' = "select"
    /\ selret' = {}
    /\ UNCHANGED <<inetd_mode, fate, toNet, toDev, InputFlow, signalled>>

\* The first half of OpenPort.  A signal that comes while HDBLockFile runs
\* finds the lock file absent or still empty, as one before it does, or
\* written, as one after it does.
LockPort ==
    /\ At("lock")
    /\ \/ /\ HDBLockFile(TRUE)
          /\ pc' = "locked"
          /\ UNCHANGED <<inetd_mode, fate, selret, DeviceFd, SocketFd, fds, toNet,
                         toDev, InputFlow, peer, dropped, signalled>>
       \/ HDBLockFile(FALSE) /\ OpenFailed

\* The second half: open and the port settings, then InitBuffer(&ToDevBuf).
\* The lock is not looked at again.
OpenPort ==
    /\ At("locked")
    /\ \E f \in NewNumber("device") : fds' = [f EXCEPT !.device = "device"]
    /\ toDev' = 0
    /\ dropped' = NotDropped
    /\ pc' = "modem"
    /\ UNCHANGED <<inetd_mode, fate, selret, DeviceFd, SocketFd, lock, toNet,
                   InputFlow, peer, signalled>>

OpenPortFails == At("locked") /\ OpenFailed /\ UNCHANGED lock

NoNeedToOpen ==
    /\ At("open")
    /\ ~(SocketFd /\ ~DeviceFd)
    /\ Handled("open", "modem")
    /\ UNCHANGED <<DeviceFd, SocketFd, fds, lock, toNet, toDev, InputFlow, peer>>

\* The notification takes one byte less if its parameter is not escaped.
ModemState ==
    /\ At("modem")
    /\ "modem" \in selret
    /\ \/ /\ Handled("modem", "select")
          /\ UNCHANGED <<DeviceFd, SocketFd, fds, lock, toNet, toDev,
                         InputFlow, peer>>
       \/ \E k \in {SendCPCByteCommand_bytes - 1, SendCPCByteCommand_bytes} :
             IF BufferHasRoomFor(toNet, k)
             THEN /\ toNet' = toNet + k
                  /\ Handled("modem", "select")
                  /\ UNCHANGED <<DeviceFd, SocketFd, fds, lock, toDev,
                                 InputFlow, peer>>
             ELSE ExitFunction("assert")

----------------------------------------------------------------------------
(* Signals.                                                                *)

\* SIGTERM, SIGHUP or SIGQUIT between two system calls: SignalFunction drops
\* the connection but neither exits nor clears the pointers.  Before the
\* device is opened, DeviceFd points to the number of an earlier port or to an
\* uninitialised one: closing it is taken to close none of the loop's files.
SignalFunction ==
    /\ fate = "running"
    /\ signalled = "no"
    /\ signalled' = IF pc = "locked" THEN "opening" ELSE "yes"
    /\ DropConnection
    /\ UNCHANGED <<inetd_mode, pc, fate, selret, DeviceFd, SocketFd, toNet,
                   toDev, InputFlow, dropped>>

\* ClosePort closes the log as well; the next message opens it again.  At
\* which message that is depends on the log level, so it is left open.
OpenLog ==
    /\ fate = "running" /\ signalled # "no"
    /\ "log" \notin {fds.device, fds.in, fds.out}
    /\ SocketFd
    /\ fds' \in NewNumber("log") \cup
              {[fds EXCEPT !.device = IF DeviceFd /\ @ = "closed" THEN "log" ELSE @]}
    /\ UNCHANGED <<inetd_mode, pc, fate, selret, DeviceFd, SocketFd, lock, toNet,
                   toDev, InputFlow, peer, dropped, signalled>>

\* The same signals while waiting: select returns EINTR, which is an error.
SignalInSelect ==
    /\ AtSelect
    /\ ExitFunction("error")

\* SIGINT: BreakFunction exits.
BreakFunction ==
    /\ fate = "running"
    /\ ExitFunction("sigint")

----------------------------------------------------------------------------
(* The peer and other programs.                                            *)

\* The peer shuts down its sending side, or closes.
PeerCloses ==
    /\ fate = "running" /\ peer = "up"
    /\ peer' = "fin"
    /\ UNCHANGED <<inetd_mode, pc, fate, selret, DeviceFd, SocketFd, fds, lock,
                   toNet, toDev, InputFlow, dropped, signalled>>

\* A reset arrives, or the connection times out.  After a FIN the pending
\* error is EPIPE instead of ECONNRESET.
PeerResets ==
    /\ fate = "running" /\ peer \in {"up", "fin"}
    /\ peer' = IF peer = "up" THEN "reset" ELSE "broken"
    /\ UNCHANGED <<inetd_mode, pc, fate, selret, DeviceFd, SocketFd, fds, lock,
                   toNet, toDev, InputFlow, dropped, signalled>>

\* Another program locks or unlocks the device.
OtherLocks ==
    /\ fate = "running" /\ lock # "ours"
    /\ lock' = IF lock = "none" THEN "other" ELSE "none"
    /\ UNCHANGED <<inetd_mode, pc, fate, selret, DeviceFd, SocketFd, fds, toNet,
                   toDev, InputFlow, peer, dropped, signalled>>

----------------------------------------------------------------------------
(* inetd hands over a connection; standalone starts by listening.          *)

Init ==
    /\ inetd_mode \in BOOLEAN
    /\ pc = "select"
    /\ fate = "running"
    /\ selret = {}
    /\ DeviceFd = FALSE
    /\ SocketFd = inetd_mode
    /\ fds = IF inetd_mode
             THEN [AllClosed EXCEPT !.in = "socket", !.out = "socket"]
             ELSE AllClosed
    /\ lock \in {"none", "other"}
    /\ toNet = IF inetd_mode THEN InitialOptions_bytes ELSE 0
    /\ toDev = 0
    /\ InputFlow = TRUE
    /\ peer = IF inetd_mode THEN "up" ELSE "none"
    /\ dropped = NotDropped
    /\ signalled = "no"

Select == \E ev \in SUBSET Wanted : SercdSelect(ev)

Handlers ==
    \/ Skips
    \/ DeviceIn
    \/ DeviceOut
    \/ SocketOut
    \/ SocketIn
    \/ Connect
    \/ NeedToOpen
    \/ LockPort
    \/ OpenPort
    \/ OpenPortFails
    \/ NoNeedToOpen
    \/ ModemState

Process ==
    \/ NothingToDo
    \/ SelectError
    \/ Select
    \/ Handlers

Environment ==
    \/ SignalFunction
    \/ OpenLog
    \/ SignalInSelect
    \/ BreakFunction
    \/ PeerCloses
    \/ PeerResets
    \/ OtherLocks

\* Nothing happens after the end.
Terminated == fate # "running" /\ UNCHANGED vars

Next == Process \/ Environment \/ Terminated

\* The process runs whenever it is not waiting, and a select that could
\* report something does so; a device that is offered output again and again
\* takes some of it in the end; and a peer that has closed or reset has only
\* left a finite number of bytes to read.
DeviceAccepts == \E ev \in SUBSET Wanted : "deviceout" \in ev /\ SercdSelect(ev)

PeerDataEnds == fds.in = "socket" /\ SocketIn /\ SocketFd' = FALSE

Fairness == WF_vars(Process) /\ SF_vars(DeviceAccepts) /\ SF_vars(PeerDataEnds)

Spec == Init /\ [][Next]_vars /\ Fairness

----------------------------------------------------------------------------
(* Properties.                                                             *)

\* The buffers never hold more than BufferSize - 1 bytes, and every variable
\* has its type.
TypeOK ==
    /\ inetd_mode \in BOOLEAN
    /\ pc \in Stages
    /\ fate \in Fates
    /\ selret \subseteq Events
    /\ DeviceFd \in BOOLEAN
    /\ SocketFd \in BOOLEAN
    /\ fds \in Numbers
    /\ lock \in {"none", "ours", "other"}
    /\ toNet \in 0 .. BufferSize - 1
    /\ toDev \in 0 .. BufferSize - 1
    /\ InputFlow \in BOOLEAN
    /\ peer \in Peers
    /\ dropped \in Drops
    /\ signalled \in {"no", "yes", "opening"}

\* "We basically have three states": whenever DeviceFd is set, InSocketFd
\* and OutSocketFd are set as well.
ThreeStates == DeviceFd => SocketFd

\* The loop gives up with "nothing more to do" only when there is no client:
\* with a client, some event is always wanted, however full the buffers are.
NoStrandedClient == fate = "noerror" => ~SocketFd

\* What DEVICEIN and SOCKETIN make of the bytes they have read always fits
\* into the buffers: unless a read returned EWOULDBLOCK, the assertion of
\* AddToBuffer fails, if ever, in the modem state notification.
ReadsFit == fate = "assert" => pc = "modem"

\* As long as no signal interfered, a pointer is set exactly while its
\* descriptor is open, but for DeviceFd while OpenPort runs: every path out of
\* a connection closes both, and none is used after it was closed.
NoLeakedDescriptor ==
    (fate = "running" /\ signalled = "no") =>
        /\ pc \notin {"lock", "locked"} => (DeviceFd <=> fds.device = "device")
        /\ SocketFd <=> fds.in = "socket"
        /\ SocketFd <=> fds.out = "socket"

\* The device is open only while the lock file is ours, whenever a signal
\* comes but for one place: between HDBLockFile and open in OpenPort the
\* handler removes the lock, and the device is opened without it.
OpenImpliesLock == fds.device = "device" /\ signalled # "opening" => lock = "ours"

\* Our lock file outlives the open port in two ways only: the device could
\* not be opened after it was locked, or the process was killed without
\* running ExitFunction.  A signal while the port is being opened is no third.
LockReleased ==
    (lock = "ours" /\ fds.device # "device") =>
        \/ fate = "running" /\ pc = "locked"
        \/ dropped.why = "open"
        \/ fate \in {"sigpipe", "overrun"}

\* A client that is connected gets the port, or is told so by a close.
ClientServed ==
    (SocketFd /\ ~DeviceFd) ~>
        (fds.device = "device" \/ ~SocketFd \/ fate # "running")

\* A reset connection is noticed even while the buffer to the device is full
\* and nothing is read from the network.
ResetNoticed == (peer \in {"reset", "broken"}) ~> (peer = "none")

\* The number of a socket that a signal has closed belongs to another file.
NumberReused == fds.in \in {"device", "log"} \/ fds.out \in {"device", "log"}

\* A signal leaves the pointers set on descriptors it has closed.  The loop
\* gets out of that state: the next call fails with EBADF, and either drops
\* the connection or ends the process.  The exception is a number that has
\* got another meaning before it is used: the device, if the signal came
\* before it was opened, or the log.  Then select sees nothing wrong, and the
\* process may live on with a connection that is gone.
SignalHandled ==
    (SocketFd /\ (fds.in = "closed" \/ fds.out = "closed"))
        ~> (fate # "running" \/ (~DeviceFd /\ ~SocketFd) \/ NumberReused)

\* No assertion of AddToBuffer fails.
NoAssertFailure == fate # "assert"

\* "EOF from network" is only diagnosed when the peer has closed.
EOFIsReal ==
    dropped.why = "EOF from network" => dropped.peer \in {"fin", "broken"}
=============================================================================
