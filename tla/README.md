# Formal models of the CNU-680pro serial redirector

The repository builds the firmware of the CNU-680pro, a network device on a
Samsung S3C2510 (ARM without MMU, 32 bit, uClinux). Its own program is `sercd`
(`src/apps/sercd`), an RFC 2217 server that shares a serial port over TCP;
`src/apps/gpio` is a small tool. The kernel, the C library, the toolchain and the
root file system are vendored; of the kernel, the two drivers written for this
processor carry every byte that `sercd` moves: the serial driver
(`drivers/char/serial_s3c2510.c`) and the Ethernet driver
(`drivers/net/s3c2510.c`). This directory holds TLA+ models of `sercd` and of these
drivers, the TLC configurations that check them, and TLAPS proofs. `PROJECT.json`
lists components, runs, mutants, hazards, findings and theorems, and maps every
definition to the lines it models.

## The system

`sercd` is one process without threads. It runs under inetd (one process per
connection) or as a daemon that listens itself; the firmware starts it as a
daemon (`src/apps/sercd/pppoed`).

| Component | State | Operations | Correct when |
|---|---|---|---|
| Circular buffers (`sercd.c` 65-71, 287-364) | `Buffer`, `RdPos`, `WrPos` | `InitBuffer`, `AddToBuffer`, `GetBufferString`, `BufferPopBytes`, queries | they are FIFO queues of `BufferSize - 1` bytes |
| Main loop (`sercd.c` 1304-1558, `unix.c` 718-955) | `DeviceFd`, `InSocketFd`, `OutSocketFd`, both buffers, `InputFlow` | one select and seven handlers per iteration, `OpenPort`, `DropConnection`, `ExitFunction`, signal handlers | buffers never overflow, descriptors and the lock are never leaked, a client is served or told, a dead connection is noticed |
| HDB lock file (`unix.c` 593-716) | the lock file, its content | `HDBLockFile`, `HDBUnlockFile` | one process at a time has the device |
| Telnet options (`sercd.c` 237-251, 589-618, 913-1075) | `tnstate` | initial options, WILL/WONT/DO/DONT | both ends agree once the line is quiet |
| Stream codec (`sercd.c` 428-587) | `IACEscape`, `IACSigEscape`, `IACCommand`, two `Last` | `EscWriteChar`, `EscRedirectChar` | data pass unchanged, commands are recognised |
| COM-PORT commands (`sercd.c` 622-911, `unix.c` 62-591) | termios, masks, `BreakSignaled`, `InputFlow` | `HandleCPCCommand`, `SetPort*`, `Get*` | the answer reports what the port really does |
| Modem state (`sercd.c` 1540-1555, `unix.c` 293-320, 892-904) | `ModemState`, `ModemStateMask`, `LastPoll` | poll, compare, notify | no change the client asked for is lost |
| Serial driver (`serial_s3c2510.c`, with the parts of `n_tty.c`, `tty_io.c`, `tty_ioctl.c` that call it) | transmit ring, interrupt enables, `x_char`, `stopped`, control register | `rs_write`, `rs_flush_chars`, throttling, `rs_stop`/`rs_start`, open, close, two interrupts | bytes leave once and in order, none is stranded, a sleeper is woken, XON and XOFF match the room |
| Ethernet driver (`net/s3c2510.c`) | two descriptor rings, their indices, interrupt enables | transmit, two interrupts, poll, refill, watchdog, open, close | driver and controller agree on every descriptor, a stopped queue is woken, every frame is taken |
| gpio (`src/apps/gpio/gpio.c`) | GPIO registers | get, set, clear, dump | - |

The components interact by calls and shared state: the loop reads and writes
descriptors through the buffers, hands every byte through the codec, which calls
the option and COM-PORT handlers, whose answers go back into `ToNetBuf`. Several
processes meet only at the lock file. In the kernel, system calls, the timer task
queue, soft interrupts and interrupt handlers share the rings; the hardware is a
further actor.

What is hard here: room that is checked before select and used after other
handlers have run; `EWOULDBLOCK`, which is not an error and not a byte count;
signal handlers that return into the loop after closing its descriptors; a lock
protocol of several system calls in which a process can die anywhere; requests
that cross on the wire; state that outlives a connection; in the drivers, tests
made with interrupts enabled and acted upon later, interrupts acknowledged before
anybody waits for them, and wake-ups that some paths do not give. The list is in
`PROJECT.json` under `hazards`.

## Modules

| Module | Models |
|---|---|
| `ByteQueue` | abstract specification: a bounded FIFO queue drained in chunks |
| `SercdBuffer` | the circular buffer with real positions and unsigned arithmetic; implements `ByteQueue` |
| `SercdLoop` | the main loop, one handler per step, with buffers as numbers of bytes, and its environment |
| `HDBLock` | the lock file protocol, one system call per step, any number of processes |
| `TelnetOption` | option negotiation with a client that follows RFC 1143 |
| `TelnetCodec` | `EscWriteChar` and `EscRedirectChar` byte by byte, across connections |
| `PortSettings` | COM-PORT settings and queries, termios, and the UART's control register |
| `ModemState` | polling, masks, delta bits and what the client knows |
| `UartDriver` | transmitter and flow control of the serial driver |
| `EthRing` | descriptor rings of the Ethernet driver |
| `*_proofs` | theorems about `SercdBuffer`, `SercdLoop`, `HDBLock`, `TelnetOption`, `TelnetCodec`, `UartDriver`, `EthRing`; `ComPort_proofs` about `PortSettings` and `ModemState` |
| `MC*` | the modules TLC runs |

Definitions whose name starts with `Mut` are wrong versions of the definition
that follows them; `PROJECT.json` says which property each one breaks. Nothing
else uses them.

### SercdBuffer

`Buffer`, `RdPos` and `WrPos` are the fields of `BufferType`; `out` records what
the last write accepted. `BufferLength` and `BufferPopBytes` compute modulo
`UIntMod`, the range of `unsigned int`. A write is one action, `WriteOut(n)`:
`GetBufferString`, `write(2)` accepting `n` bytes, `BufferPopBytes(n)`.
`WriteWouldBlock` is the same code when `write(2)` returns -1 with
`EWOULDBLOCK`; it is part of `SpecWouldBlock` only. `GetFromBuffer` is never
called and is left out.

### SercdLoop

`pc` is the stage of the iteration: `select`, then `devicein`, `deviceout`,
`socketout`, `socketin`, `connect`, `open`, `modem`; opening the port goes through
`lock` (`DeviceFd` is set, `HDBLockFile` to be called) and `locked` (`open` to be
called). `selret` is the set of reported events not handled yet. `DeviceFd` and
`SocketFd` say whether the pointers are set, `fds` what the numbers in `devicefd`,
`insocket` and `outsocket` refer to: the device, the socket, the log, or nothing.
After a signal pointers and files differ, and `open` takes the lowest free number,
which may be that of the socket just closed (`NewNumber`), for the device or for
the log, which `ClosePort` closes and a later message opens again (`OpenLog`; at
which message depends on the log level and is left open). Each handler chooses the result of its read or write from what
the kernel can return (`ReadFromDev` and so on), and how many bytes the codec
makes of each byte read, between the bounds the code's `_bytes` macros state.
A failed assertion, an overrun of `readbuf`, SIGPIPE and the exits end the
process and are recorded in `fate`. `MayBlock` says which calls may return
`EWOULDBLOCK`; the tty of the target does so routinely on writes, because its
select does not look at the driver's free space.

Simplifications: SIGTERM and its like are delivered once between two steps,
those of `OpenPort` included, and any number of times while waiting in select. A
signal while `HDBLockFile` runs finds the lock file absent, still empty or
written; it acts as one before or after the call. `DropConnection` is one step; a
signal inside it is not modelled. Between setting `DeviceFd` and `open`, `devicefd`
is the number of an earlier port or uninitialised: a handler that closes it is
taken to close none of the loop's files. Under inetd descriptor 2 is the connection
too; it is not modelled. The lock file is `none`, `ours` or `other`; `HDBLock` has
its protocol.

### HDBLock

One action per system call: create, open, read and close, check with `kill`,
unlink, write and close, clean up, remove. `op` tells a call made by `OpenPort`
from one made by `HDBUnlockFile`. Files are inodes, so that a process can have
an unlinked file open. `Crash` leaves the file in place; pids are not reused. A
lock file that holds no number (`Pid == 0`) is not modelled. The history variable
`raced` records that a process has unlinked, as stale, a lock that had been
replaced since its pid was read (`UnlinkRace`).

### TelnetOption

Two channels carry commands in order. sercd's four handlers read and write
`tnstate` as the code does; `sent_wont` and `sent_dont` are never set to 1 and
never read, and are left out. The client is external: it keeps the states and
the queue bit of RFC 1143, answers a request either way, and changes its mind
whenever it likes. `NewConnection` drops everything in flight and starts over.

### TelnetCodec

The static state of `EscRedirectChar` is the state of the module; one action takes
one byte. `CommandLength` is the code's decision, from the bytes so far, whether a
command is complete. Bytes are the protocol's numbers, since `SB`'s option, a
parameter and data may coincide. The client is external: it sends whole messages
(data, options, commands, signatures, NOP) and escapes them as the RFCs say; the
connection may break at any byte and the next client inherits the parser.
`pristine` and `steady` remember whether something has upset the parser, and how
many option commands have come in a row since; any other message starts the
count again. The way to the client is separate (`side`): data and answers in any
order through the one `Last` of `EscWriteChar`, and the client's decoder
(`ClientByte`) at the other end. What is on the way (`wire`, `toClient`) is a
sequence of groups, one for each byte of the message with its escapes, so that
escaping is a function of the position and not a recursion; both ends read single
bytes (`FirstByte`, `ButFirstByte`) and a connection may break within a group.
Two simplifications: `SwitchMode` changes binary mode at both ends with nothing
under way, so a switch in mid-stream is not covered; and of the two flags of
COM-PORT that `HandleIACCommand` accepts only `is_do` is kept, since the client only
sends WILL (`TelnetOption` has both).

### PortSettings

`termios` is the tty's, `uart` the control register and the divisor. A command is
one step: read the attributes, convert, `tcsetattr`, read again, answer. TCSANOW
and TCSADRAIN take their two ways to `change_speed`; the second may fail with
EINTR. The driver does not know TIOCMGET and TIOCMSET, so `MLines` is then an
arbitrary value; `modemIoctls` covers drivers that do. `IxonOrIxoffInCflag` is the
test of IXON and IXOFF in `c_cflag`, where the bits mean HUPCL and CBAUDEX. `Crash`
is a killed server, after which the port keeps its settings, and the next session
takes them for the initial ones. `AnsweredAsPromised` leaves out FLOW_DCD, FLOW_DSR
and INFLOW_DTR (`IsSetting`), which sercd's README has disable flow control and the
code ignores.

### ModemState

`told` is what the client knows of each line: what it was last told while the mask
has shown the line ever since. `ModemState` is the code's, which remembers the
lines that were hidden, too. Neither it nor the mask nor `InputFlow` is reset by
a new connection. The decision when to poll is an operator over seconds and
microseconds (`PollDue`), compared with the real distance of two times, for
intervals other than 0 (a finding). The line
state mask is kept by the code and never used. The specification is `ModemSpec`,
of `ModemInit` and `ModemNext`, so that one module can prove about it and about
`PortSettings`.

### UartDriver

One process has the port open. `proc` is where it is in a system call; what the
code does under `cli()` is one step, and interrupts come between steps. Received
characters reach the line discipline in the task queue (`bh`), which interrupts
may interrupt and the process not; it calls `rs_flush_chars` after every one, with
software flow control or without, because `sercd` sets BRKINT and `real_raw` is
then 0. `xmit_cnt` may become -1. `rs_write` copies, tests, and starts the transmitter
by loading the interrupt enables and storing them (`WriteKick`, `WriteStart`);
`tcsetattr` goes through `change_speed`, which stops both directions and starts them
again in the same way, with interrupts on (`change_speed`, `SpeedLoad`,
`SpeedStore`). `ier` is what has been loaded and not yet stored. `flaws` records
that a step went wrong that can, until the damage is made good: a race of
`rs_flush_chars`, a sleeper robbed of its wake-up, an `rs_start` undone by
`change_speed`, an XON or XOFF lost; the properties say that these are the only
ways. Bounds in guards: after a race nothing is
written or received until the ring is reset, after an XON or XOFF was lost the input is
not throttled again, and of the two read-modify-writes of `rx_start` at most one is
interrupted between its load and its store. Left out: a second opener, RTS/CTS stopping the output, the
console, hang-up, the UART's own XON/XOFF, and the polled `rs_flush_chars` during
close.

### EthRing

The driver as it compiles, which is with `CONFIG_S3C2510_NAPI` only
(`curr_work_limit` is declared under it and used without), although `Config.in`
comments the option out. A descriptor is the state of its status word and whether an
skb is kept for it. The controller is external: it sends and fills descriptors in
order, sets status bits that stay until written back, and stops at a descriptor it
does not own. An allocation that fails while the interface comes up, or in the
watchdog, ends in `crashed`: `for(; --i >= 0;)` with an unsigned `i` does not
end, and `s3c2510_open` ignores the result of `allocate_buffers`. A failed allocation while
refilling is harmless and part of the model.
One assumption the driver does not show: the watchdog's reset of the BDMA sets both
of its positions (BTXBDCNT, BRXBDCNT) to zero. Only `allocate_buffers` writes them;
`s3c2510_tx_timeout` sets up the rings from zero without doing so. `RingsInStep`
after the watchdog rests on it. A packet sent from within `rx_done_check`, by what
`netif_receive_skb` calls, is taken to be sent after poll; the receive side of poll
shares nothing with transmit.
`late` records that the queue was stopped after its last completion had been
acknowledged; it then waits for the watchdog, which the driver's own comments
("to prevent tx timeout") are about. Left out: PHY and MII, multicast, statistics,
ioctls.

## Runs

| Run | Shows | Bounds |
|---|---|---|
| `buffer` | types, `StringUsable`, refinement of `ByteQueue` | 4 slots, 2 byte values, 4-bit unsigned int |
| `loop` | seven invariants and three liveness properties of the main loop | `BufferSize` 6, reads of 2, escapes of 2, notification 3, answer 4; every call may return `EWOULDBLOCK` |
| `loop_assert` | violation: the assertion in `AddToBuffer` can fail | `BufferSize` 9, no `EWOULDBLOCK` |
| `lock` | exclusion and locks in use kept until an unlink race, `HDBLockFile` returns | 3 processes, 3 inodes, all may crash |
| `lock_stale` | violation: two processes with the device open | 3 processes, 4 inodes |
| `telnet` | agreement, no COM-PORT command ignored | 3 options, 4 requests of the client, 1 reconnection |
| `codec` | data and commands pass unchanged; an upset parser heals; what a doubled parameter does | 5 data bytes, data of 2, commands of every length, 3 rates and 3 signatures, `IACCommand` of 10 bytes |
| `port` | answers as promised, settings restored, no command changes another attribute, the UART keeps up | 2 speeds and an unknown one, 4 settings in a row, 2 initial states |
| `modem` | sercd remembers what it told; deltas are news; changes are told; polls are not late | 2 lines, all masks, a second of 6 units |
| `uart` | queue, no stalled byte, coherent XON/XOFF, writers woken, the peer told once there is output | ring of 3, FIFO of 2, a write of 2 different bytes |
| `uart_xon` | violation: the XON after an XOFF is not read | ring of 2 |
| `eth` | rings in step, queue woken, frames taken | 2 transmit and 4 receive descriptors, limit 2 |

Why the bounds are enough. The buffer wraps in every position relation from
three bytes on. The loop's sizes keep the order of the code's
(`EscWriteChar` < `SendCPCByteCommand` < `EscRedirectChar` < `BufferSize`), so
that every combination of "room for this and not for that" occurs; the theorems
hold for all sizes. The unlink race takes one process
that crashed and two that find its lock, so three processes run into it: `lock`
says what holds until then and what the first step is that breaks it, `lock_stale`
that it does break. Three inodes are enough for `lock`: a process that creates a
file has none open, the name refers to none, and each of the other two has at most
one. Options do not interact; `COMPORT` is requested, `ECHO` offered, `OTHER`
unsupported, which are all the starting points there are, and four requests
reach every client state, including a mind changed twice.
The codec's data are the bytes its code compares with (IAC, CR, LF, NUL) and SB,
which after a stray IAC makes the parser wait for a suboption;
`sizeof(IACCommand)` is 10 instead of 255, enough for the longest command
and for a signature that does not fit. Two option commands are enough to heal
because the longest command a parser can be stuck in is bounded by `CommandLength`,
except a signature, which ends with the first IAC that is not doubled. They must
come in a row: with data between them that hold an SB the parser can be caught in
another suboption. Four
settings in a row are enough for a setting, an interrupted one, another by the
other way to the driver, and a request in between.
`PollDue` has the shape of the code's arithmetic with 2 and 3 in place of the two
1000, and intervals below, at and above a second. The ring of the UART has 3 slots, which is not a power of two, so the
code's mask is `%`; with 3 slots a write wraps, fills the ring and finds it full. With 4
receive descriptors a quarter is one, so refilling is both due and not due, and a
limit of 2 is below the ring, so poll comes back for more.

`telnet` does not check deadlock: a negotiation ends. Nor does `eth`: a crashed
kernel stops. All other runs do; a process that has ended, or a system whose
processes have all crashed, takes an explicit stuttering step.

### Fairness

`SercdLoop` assumes weak fairness of the process: it is scheduled, and select
returns when something it waits for is ready. It does not assume that the device
or the peer ever has data. Two strong assumptions are about the environment: a
device offered output again and again takes some (`DeviceAccepts`), since a
serial line without flow control drains, and a peer that has closed or reset has
left a finite number of bytes (`PeerDataEnds`). `ResetNoticed` does not hold
without the first: while `ToDevBuf` is full and nothing is waiting for the
client, nothing is read from the network. Only resets are promised, not an
orderly close by a client that does not read what it is sent.
`HDBLock` assumes that a process inside `HDBLockFile` keeps running.
`ModemState` assumes that the loop goes on polling and that a client reads what it is
sent; the strong fairness of `Poll` is about a network buffer that is full at times.
`UartDriver` assumes that enabled interrupts are taken, that bottom halves and the
task queue run after them, and that a system call under way goes on; nothing about
the peer or about what the process does next. Two assumptions are strong, because
what they are about is switched off for moments: the transmitter's interrupt by
every `change_speed`, which a process that calls `tcsetattr` over and over could
otherwise outrun for ever although the interrupt is pending each time it is enabled
again; and the process by the task queue, which a peer that sends without pause
does not keep busy for ever at a finite line rate. `EthRing` assumes interrupts, soft
interrupts, the watchdog's timer, and that the controller sends what it owns.

### What the violations mean

* `loop_assert`: room for the notification is checked before select, but DEVICEIN
  and SOCKETIN run in between. With, for example, 8 to 13 bytes of room, a stalled client, input from the device and a
  change of the modem lines the daemon aborts (through the SIGABRT handler, so the
  lock is removed).
* `lock_stale`: the unlink of a stale lock hits the lock that replaced it.
* `uart_xon`: `rs_stop` disables the receiver's interrupt as well. Only an overrun
  or a call that starts the receiver gets the port out of it. `sercd` sets the port
  to raw mode; the line discipline obeys XON and XOFF when the client asks for
  software flow control.

Three properties are stated and not part of a run, because the code does not have
them: `EOFIsReal` (`SercdLoop`: DEVICEIN leaves too little room in `ToNetBuf`,
SOCKETIN asks for zero bytes and takes the result for the end of the connection),
`IsQueue` under `SpecWouldBlock` (`SercdBuffer`: `BufferPopBytes(-1)`), and
`ActualFlowControl` (`PortSettings`). The findings in `PROJECT.json` that name no run
describe these, three flaws that properties name as exceptions (a signal between
`HDBLockFile` and `open` lets the device be opened without its lock; a signal before
`open` gives the device the number of the client's socket, and a standalone daemon
lives on without serving anybody; `rs_throttle` and `rs_unthrottle` leave XOFF or XON
in `x_char` without starting the transmitter), and four disagreements between documents and code met while modelling: the client's echo
is accepted and logged as rejected, DTR/DSR/DCD flow control is ignored rather than
disabled, poll interval 0 polls in every iteration, and `rs_close` masks the
interrupts before it waits for the output. `SendTelnetInitialOptions_bytes` counts
three options where six are sent (the macro is unused).

What some properties except, they name: `OpenImpliesLock` the signal between lock
and open, `SignalHandled` a number that has been reused, `ExclusionUnlessRaced` and
`HeldLockKept` the unlink race, the properties of `UartDriver` the `flaws`;
`XonXoffCoherent` does not say that the character in `x_char` is sent, which is
`PeerTold`, and only once there is output to send. `ParserHeals` says that a parser upset by
NOP or a broken connection is in step again after two option commands in a row,
and not after any two, `DoubledParameter`
what a parameter 255 really does, `PollNotLate` that the wrong unit in
`SercdSelect` makes polls early and never late, `UartKeepsUp` that the UART does at
least, and sometimes more than, what termios says.

## Proofs

All theorems hold for every value of the constants that satisfies the named
assumptions (positive sizes, `BufferSize` larger than what one answer needs,
unsigned int at least twice `BufferSize`, 9600 among the speeds, COM-PORT among the
options, `IACCommand` of at least ten bytes, where the code has 255). The bounds of the runs are constants, too, so the theorems hold for any
number of commands, requests and connections.

* `SercdBuffer_proofs`. `TypeCorrect` and `StringAlwaysUsable` from arithmetic
  lemmas that remove the modulo (`LengthValue`, `PopValue`). `Refinement`
  (`Spec => IsQueue`): the i-th byte of the queue is in `Slot(i)`
  (`ContentsValue`); adding writes the slot after the last and no other;
  writing out `n` bytes takes `Slot(1)` to `Slot(n)`, which do not wrap, and
  shifts the rest.
* `SercdLoop_proofs`. The inductive invariant `IInv` joins the invariants that
  have a theorem with three facts they rest on. `DeviceInv`: the device is open only
  while `DeviceFd` is set and, unless a signal came between lock and open, the lock
  is ours (a signal may close it under the pointer, never the other way round).
  `OpeningInv`: at `lock` and `locked` `DeviceFd` is set and the device not open
  yet, and at `locked` the lock is ours unless a signal there has removed it. `OpenedInv`: no iteration ends with a client
  that has no port, and before the first one, under inetd, the initial telnet
  options wait in `ToNetBuf`, without which the loop would find nothing to do and
  exit. One lemma per handler, with the arithmetic of `DeviceTryBytes` and
  `SocketTryBytes` apart. Theorems: `TypeCorrect`, `ThreeStatesHold`,
  `ClientNeverStranded`, `ReadsAlwaysFit`, `NoDescriptorLeaks`,
  `LockCoversOpenPort`. `LockAlwaysReleased` takes a second invariant, `LockInv`:
  what select reported is about pointers that are still set (`ReportedInv`), and up
  to network output a client without a port is one whose port has not been tried
  (`UntriedInv`), so that no drop can leave a lock behind that nobody accounts for.
* `HDBLock_proofs`. The invariant says whose file the name refers to at each
  step of each process: a process that writes or holds owns the current file, one
  about to unlink has read a dead pid. Every step but an `UnlinkRace` preserves it,
  so it holds until `raced` (`UnracedInv`), from which `ExclusionUnlessRace` and
  `LockKeptUnlessRace` follow;
  where no process crashes the race cannot arise (`ExclusionWithoutCrash`).
* `TelnetOption_proofs`. An option is negotiated in two directions that do not
  interact. Of one direction, what is in flight each way is a word over on and off,
  whatever other commands lie between (`Word`). The inductive invariant is a table of
  the words that can occur with each state of sercd and of the client: `Quiet`,
  `Asked`, `Answered` and `Requested`, the last for sercd's own request, which may
  cross with a client that changes its mind. No word is longer than two, which
  `TypeOK` and `Agreement` alone do not say and every step needs. `NegotiationAgrees`
  reads the row of the empty words. `CommandsHeard` needs `Covered` besides: the last
  WILL or WONT that sercd hears before a COM-PORT command is WILL, because the client
  sends none after its WONT.
* `TelnetCodec_proofs`. All five properties, for data, parameters, rates and
  signatures of any value, data and signatures of any length, and `IACCommand` of
  any size from ten bytes. None of the properties is
  inductive, since all but `TypeOK` speak of the moment when a message has been read.
  `IInv` therefore says what holds in the middle of one. `ParserInv`: what a command
  being received can look like. `InInv`, for a parser in step: one phase per kind of
  message (`DataPhase`, `OptionPhase`, `CommandPhase`, `SignaturePhase`,
  `DoubledPhase`) that relates what is left on the wire (`Rest`, `Left`: from which
  group on, and how much of that group) to the state of the parser and to what it
  has delivered. For a parser out of step, `Healing(n)` lists what it can be waiting
  for when `n` bytes are left of two option commands: anything at six, at most three
  more bytes of a command or the IAC that ends a signature between the two, nothing
  at zero. When
  the wire is empty, `Settled` says what the next message may rely on, the CR that
  may be in `Last` included. `OutInv` does the same for the client's decoder and what
  sercd sends (`DataOut`, `AnswerOut`). Each step moves a phase by one byte; the
  position is a number and the escaped form of a byte is given by `ClientEscapes`
  and `SendStr` at that position, so that no induction over the message is needed.
  `Transparent`, `Heals`, `DoubledHarmless` and `ClientUnderstands` read
  `Settled` and `OutSettled`. Trying to prove an earlier form of `ParserHeals`, which
  counted option commands with other messages between them, failed at `Healing`,
  and TLC then found the counterexample (an SB in the data between them).
* `ComPort_proofs`, about `PortSettings`. One lemma for each function of `unix.c` that converts a
  setting: the result is a termios, raw as before, and differs in what a client can
  ask about in its own attribute only (`OnlyChanges`). `IInv` joins `UartKeepsUp` and
  `AnsweredAsPromised` with `Restorable`: during a session without a crash the
  settings to go back to are those in `InitialPortSettings`, without which
  `Restoration` says nothing of an open port. `Separation` (`Spec => OnlyItsOwn`)
  follows step by step.
* `ComPort_proofs`, about `ModemState`. `ToldRemembered` is inductive (`ModemInv`) with the type of `told`: a
  notification sets both sides from the same poll, a mask makes the client forget
  what it hides. `DeltasAreNews` (`Spec => DeltaIsNews`) follows step by step: only
  a poll sends, and it compares with what the client knows. `PollsInTime` is the
  arithmetic of `PollDue` for every interval and every radix of the clock
  (`IntervalParts`, `LongEnough`), a clock that is set back included.
* `UartDriver_proofs`. `TypeCorrect` needs `FlushCount`: `rs_flush_chars` was called
  for a byte, so the race costs at most one. `NothingStalls`: `NoStall` becomes
  inductive as `Armed`, which also holds while `rs_unthrottle`, the task queue or the
  second half of `change_speed` is under way, with `InterruptsInUse` from open to close
  and `StartLoaded` (what `rs_write` is about to store enables the transmitter).
  `FlowCoherent` says that what the peer was told, or what waits in `x_char`, agrees
  with the room; not that the character is sent. `CharacterLeaves` adds the safety part
  of that: while there are bytes to send, a due XON or XOFF lies in `x_char` with the
  interrupt enabled that sends it. The
  coherence needs what `x_char` may be at each moment (`XcharInv`: an XOFF waits
  only for a peer that may send, no XON waits while the input is short), that the
  task queue waits during `rs_unthrottle`, and that a closed port is not throttled.
  `RingIsQueue` (`Spec => TxIsQueue`): as long as the race has not happened, the count
  is not negative and `xmit_head` is `xmit_cnt` after `xmit_tail` (`QueueInv`); what
  is stored is then the sequence from `xmit_tail` on, of which a step takes the
  front, adds at the end, or drops everything (`SendQueue`, `WriteQueue`).
* `EthRing_proofs`. `QueueIsWoken`: `CompletionWakesQueue` is inductive with the
  types of the transmit ring, since `tx_done_check` frees only what has been sent
  (`FreedIsComplete`, by the arithmetic of `AroundTheRing`). `RingsKeepStep`:
  `RingsInStep` counts descriptors, which a step would have to count anew; the
  inductive form names the counts instead. `TxInStep`: from `tx_done` on, the ring
  has `c` frames sent, `b - c` under way, and free descriptors. `RxInStep`: from
  `rx_skb_refill` on, `z` descriptors wait for an skb, `f` are filled, and the rest is
  the controller's, with an skb each. Each step moves one boundary (`TxShapeSend`,
  `RxShapeArrive`, ...); what it finds at the boundary excludes a full or an empty
  ring. The modulo is removed once, in lemmas about the distance around a ring
  (`DistShift`, `StepStep`), and an arc of length `n` has `n` members
  (`ArcCardinality`). Neither depends on the interface being up.

Only model-checked:

* the liveness properties `ClientServed`, `ResetNoticed`, `SignalHandled`,
  `HDBLockFileReturns`, `ChangeIsTold`, `WriterWoken`, `PeerTold` and `FrameTaken`:
  liveness under fairness is beyond the prover. Of what they rest on, the safety
  part is proved: `NoStrandedClient`, `NoStall`, `CharacterLeaves`, `ToldRemembered`,
  `RingsInStep`.

The three violations are TLC's counterexamples; the theorems
`ExclusionUnlessRace` and `ExclusionWithoutCrash` say how far the second reaches.

## Plan

Done: the modules above; every invariant and every safety action property that a
run checks, and the refinement of `ByteQueue`, has a theorem. Left:

1. The parts of the serial driver that `UartDriver` leaves out: a second opener,
   hang-up, RTS/CTS stopping the output.
2. The PHY and MII state of the Ethernet driver.

## Not modelled

* The kernel but for the two drivers, uClibc, toolchain and image: vendored code
  (most of the repository's lines by far) or build steps. What `sercd` needs of
  select, TCP, the tty layer and the file system is the environment of the models.
* `gpio`: seventy lines; set and clear are one read-modify-write of a register
  each, so two invocations at the same time may lose a change. A model would say
  no more than the two lines.
* Argument parsing, logging, the bind/listen start-up, the text of a signature.
* The input side of PURGE_DATA: it empties a kernel queue that no model has.
* The parts of the drivers named above under their modules.
