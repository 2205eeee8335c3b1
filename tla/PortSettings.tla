---------------------------- MODULE PortSettings ----------------------------
(***************************************************************************)
(* The COM-PORT-OPTION commands of RFC 2217 that set and query the serial  *)
(* port: HandleCPCCommand of sercd, the termios functions of unix.c below  *)
(* it, and below those the S3C2510 serial driver, which brings a change of *)
(* termios to the UART.                                                    *)
(*                                                                         *)
(* The driver is reached in two ways.  TCSANOW is an ioctl that the driver *)
(* sees first (handle_termios_tcsets); TCSADRAIN reaches it afterwards,    *)
(* through rs_set_termios, and may end with EINTR, which sercd ignores.    *)
(* The driver knows neither TIOCMGET nor TIOCMSET: sercd, which does not   *)
(* look at the result, then works with an uninitialized MLines.  Other     *)
(* drivers do know them (modemIoctls).                                     *)
(***************************************************************************)
EXTENDS Naturals

CONSTANTS Speed,              \* the rates that SetPortSpeed knows
          BadSpeed,           \* some that it does not know
          HighSpeed,          \* the rates whose code has the CBAUDEX bit
          InitialSettings,    \* termios before the first OpenPort
          CiscoIOSCompatible,
          MaxChanges          \* bound on the commands that set something

ASSUME PortAssumption ==
    /\ Speed \subseteq Nat /\ 9600 \in Speed /\ 0 \notin Speed
    /\ BadSpeed \subseteq Nat /\ BadSpeed \cap Speed = {} /\ 0 \notin BadSpeed
    /\ HighSpeed \subseteq Speed
    /\ CiscoIOSCompatible \in BOOLEAN /\ MaxChanges \in Nat

Control == {"FLOW_REQ", "FLOW_NONE", "FLOW_XONXOFF", "FLOW_HARDWARE",
            "BREAK_REQ", "BREAK_ON", "BREAK_OFF",
            "DTR_REQ", "DTR_ON", "DTR_OFF", "RTS_REQ", "RTS_ON", "RTS_OFF",
            "INFLOW_REQ", "INFLOW_NONE", "INFLOW_XONXOFF", "INFLOW_HARDWARE",
            "FLOW_DCD", "INFLOW_DTR", "FLOW_DSR"}

Termios == [speed : Speed, csize : 5 .. 8, parenb : BOOLEAN, parodd : BOOLEAN,
            cstopb : BOOLEAN, crtscts : BOOLEAN, hupcl : BOOLEAN,
            ixon : BOOLEAN, ixoff : BOOLEAN, raw : BOOLEAN]

ASSUME SettingsAssumption == InitialSettings \subseteq Termios

VARIABLES
    termios,              \* tty->termios
    InitialPortSettings,  \* what OpenPort has found
    isOpen,
    uart,                 \* the control register and the divisor of the UART
    lines,                \* the modem lines that are on
    modemIoctls,          \* the driver knows TIOCMGET and TIOCMSET
    BreakSignaled,
    reply,                \* the last command and its answer
    before, crashed,      \* history: termios at the first OpenPort; sercd was killed
    changes               \* how many commands have set something

vars == <<termios, InitialPortSettings, isOpen, uart, lines, modemIoctls,
          BreakSignaled, reply, before, crashed, changes>>

NoReply == [cmd |-> "none", val |-> 0, ans |-> 0, failed |-> FALSE]

----------------------------------------------------------------------------
(* The driver.                                                             *)

\* IXON and IXOFF have the values of HUPCL and CBAUDEX, and it is in c_cflag
\* that change_speed looks for them.
IxonOrIxoffInCflag(t) == t.hupcl \/ t.speed \in HighSpeed

\* The word lengths 5, 6, 7 and 8 are the bits 00, 01, 10 and 11.
WordLength(old, new) ==
    IF new = 5 \/ old = 5 THEN new ELSE IF old = new THEN old ELSE 8

\* Bits of the control register are set but, apart from the word length 5,
\* never cleared.  Odd parity is 100 and even parity 101.
ChangeSpeed(u, t) ==
    [speed |-> t.speed,
     wl    |-> WordLength(u.wl, t.csize),
     stb   |-> u.stb \/ t.cstopb,
     pmd   |-> IF ~t.parenb THEN u.pmd
               ELSE IF t.parodd /\ u.pmd # "even" THEN "odd" ELSE "even",
     hfen  |-> u.hfen \/ t.crtscts,
     sfen  |-> u.sfen \/ IxonOrIxoffInCflag(t)]

\* startup clears the control register.
Startup(t) ==
    ChangeSpeed([speed |-> 0, wl |-> 5, stb |-> FALSE, pmd |-> "none",
                 hfen |-> FALSE, sfen |-> FALSE], t)

c_cflag(t) == <<t.speed, t.csize, t.parenb, t.parodd, t.cstopb, t.crtscts, t.hupcl>>

\* tcsetattr with TCSANOW: handle_termios_tcsets puts c_cflag into termios,
\* so that rs_set_termios sees no change afterwards.
TcSetNow(u, t) == ChangeSpeed(u, t)

\* tcsetattr with TCSADRAIN.
MutTcSetDrain(u, old, t) ==
    IF old.speed = t.speed THEN u ELSE ChangeSpeed(u, t)
TcSetDrain(u, old, t) ==
    IF c_cflag(old) = c_cflag(t) THEN u ELSE ChangeSpeed(u, t)

\* TIOCMGET.
MLines == IF modemIoctls THEN {lines} ELSE SUBSET {"DTR", "RTS", "CTS", "DSR"}

----------------------------------------------------------------------------
(* unix.c: from termios to the codes of the protocol and back.             *)

\* The names of the operators stand for Termios2Tncom...
Parity(t) == IF ~t.parenb THEN "none" ELSE IF t.parodd THEN "odd" ELSE "even"
StopSize(t) == IF t.cstopb THEN "two" ELSE "one"
OutFlow(t) == IF t.ixon THEN "FLOW_XONXOFF"
              ELSE IF t.crtscts THEN "FLOW_HARDWARE" ELSE "FLOW_NONE"
InFlow(t) == IF t.ixoff THEN "INFLOW_XONXOFF"
             ELSE IF t.crtscts THEN "INFLOW_HARDWARE" ELSE "INFLOW_NONE"

SetPortSpeed(t, rate) == [t EXCEPT !.speed = IF rate \in Speed THEN rate ELSE 9600]

SetPortDataSize(t, size) == [t EXCEPT !.csize = IF size \in 5 .. 8 THEN size ELSE 8]

MutSetPortParity(t, par) ==
    CASE par = "odd"  -> [t EXCEPT !.parenb = TRUE, !.parodd = TRUE]
      [] par = "even" -> [t EXCEPT !.parenb = TRUE]
      [] OTHER        -> [t EXCEPT !.parenb = FALSE]
SetPortParity(t, par) ==
    CASE par = "odd"  -> [t EXCEPT !.parenb = TRUE, !.parodd = TRUE]
      [] par = "even" -> [t EXCEPT !.parenb = TRUE, !.parodd = FALSE]
      [] OTHER        -> [t EXCEPT !.parenb = FALSE]

SetPortStopSize(t, size) == [t EXCEPT !.cstopb = size = "two"]

MutSetPortFlowControl(t, how) ==
    CASE how = "FLOW_NONE"     -> [t EXCEPT !.ixon = FALSE, !.ixoff = FALSE, !.crtscts = FALSE]
      [] how = "FLOW_XONXOFF"  -> [t EXCEPT !.ixon = TRUE, !.ixoff = TRUE, !.crtscts = FALSE]
      [] how = "FLOW_HARDWARE" -> [t EXCEPT !.ixon = FALSE, !.crtscts = TRUE]
      [] OTHER                 -> [t EXCEPT !.ixoff = how = "INFLOW_XONXOFF"]
SetPortFlowControl(t, how) ==
    CASE how = "FLOW_NONE"     -> [t EXCEPT !.ixon = FALSE, !.ixoff = FALSE, !.crtscts = FALSE]
      [] how = "FLOW_XONXOFF"  -> [t EXCEPT !.ixon = TRUE, !.ixoff = TRUE, !.crtscts = FALSE]
      [] how = "FLOW_HARDWARE" -> [t EXCEPT !.ixon = FALSE, !.ixoff = FALSE, !.crtscts = TRUE]
      [] OTHER                 -> t

SetLines(m, how) ==
    CASE how = "DTR_ON"  -> m \cup {"DTR"}
      [] how = "DTR_OFF" -> m \ {"DTR"}
      [] how = "RTS_ON"  -> m \cup {"RTS"}
      [] how = "RTS_OFF" -> m \ {"RTS"}
      [] OTHER           -> m

\* For DTR and RTS the state of DSR and of CTS is returned.
GetPortFlowControl(t, m, which) ==
    CASE which = "DTR_REQ"    -> IF "DSR" \in m THEN "DTR_ON" ELSE "DTR_OFF"
      [] which = "RTS_REQ"    -> IF "CTS" \in m THEN "RTS_ON" ELSE "RTS_OFF"
      [] which = "INFLOW_REQ" -> InFlow(t)
      [] OTHER                -> OutFlow(t)

----------------------------------------------------------------------------
(* HandleCPCCommand.                                                       *)

\* One of the SetPort functions: new is written with TCSADRAIN, unless a
\* signal interrupts the wait for the output to drain.
SetPort(new, failed) ==
    /\ changes < MaxChanges
    /\ changes' = changes + 1
    /\ termios' = IF failed THEN termios ELSE new
    /\ uart' = IF failed THEN uart ELSE TcSetDrain(uart, termios, new)

\* The commands are handled one by one.
Reply(cmd, val, ans, failed) ==
    /\ isOpen
    /\ reply = NoReply
    /\ reply' = [cmd |-> cmd, val |-> val, ans |-> ans, failed |-> failed]
    /\ UNCHANGED <<InitialPortSettings, isOpen, modemIoctls, before, crashed>>

\* GetPortSpeed, GetPortDataSize, GetPortParity and GetPortStopSize.
GetPort(cmd, t) ==
    CASE cmd = "BAUDRATE" -> t.speed
      [] cmd = "DATASIZE" -> t.csize
      [] cmd = "PARITY"   -> Parity(t)
      [] cmd = "STOPSIZE" -> StopSize(t)

\* A command that sets an attribute to val, or with val = query asks for it.
SetOrQuery(cmd, val, query, new, failed) ==
    /\ IF val = query THEN ~failed /\ UNCHANGED <<termios, uart, changes>>
                      ELSE SetPort(new, failed)
    /\ Reply(cmd, val, GetPort(cmd, termios'), failed)
    /\ UNCHANGED <<lines, BreakSignaled>>

SetBaudRate(rate, failed) ==
    SetOrQuery("BAUDRATE", rate, 0, SetPortSpeed(termios, rate), failed)

SetDataSize(size, failed) ==
    SetOrQuery("DATASIZE", size, 0, SetPortDataSize(termios, size), failed)

SetParity(par, failed) ==
    SetOrQuery("PARITY", par, "query", SetPortParity(termios, par), failed)

SetStopSize(size, failed) ==
    SetOrQuery("STOPSIZE", size, "query", SetPortStopSize(termios, size), failed)

QueryControl(which) ==
    /\ which \in {"FLOW_REQ", "DTR_REQ", "RTS_REQ", "INFLOW_REQ"}
    /\ \E m \in MLines :
            Reply("CONTROL", which, GetPortFlowControl(termios, m, which), FALSE)
    /\ UNCHANGED <<termios, uart, lines, BreakSignaled, changes>>

\* A break has a fixed length: it is over when it is answered.
Break(how) ==
    /\ how \in {"BREAK_REQ", "BREAK_ON", "BREAK_OFF"}
    /\ BreakSignaled' = IF how = "BREAK_REQ" THEN BreakSignaled ELSE how = "BREAK_ON"
    /\ Reply("CONTROL", how, IF BreakSignaled' THEN "BREAK_ON" ELSE "BREAK_OFF", FALSE)
    /\ UNCHANGED <<termios, uart, lines, changes>>

Inflow == {"INFLOW_NONE", "INFLOW_XONXOFF", "INFLOW_HARDWARE"}

\* The answer of Cisco IOS to inbound flow control has the code of FLOW_REQ.
SetControl(how, failed) ==
    /\ how \notin {"FLOW_REQ", "DTR_REQ", "RTS_REQ", "INFLOW_REQ",
                   "BREAK_REQ", "BREAK_ON", "BREAK_OFF"}
    /\ SetPort(SetPortFlowControl(termios, how), failed)
    /\ lines' = IF modemIoctls THEN SetLines(lines, how) ELSE lines
    /\ Reply("CONTROL", how,
             IF CiscoIOSCompatible /\ how \in Inflow THEN "FLOW_REQ" ELSE OutFlow(termios'),
             failed)
    /\ UNCHANGED BreakSignaled

\* The client takes the answer.
TakeReply ==
    /\ reply # NoReply
    /\ reply' = NoReply
    /\ UNCHANGED <<termios, InitialPortSettings, isOpen, uart, lines, modemIoctls,
                   BreakSignaled, before, crashed, changes>>

----------------------------------------------------------------------------
(* The port is opened when a client connects and closed when it leaves.    *)

\* cfmakeraw, HUPCL and BRKINT.
Raw(t) == [t EXCEPT !.csize = 8, !.parenb = FALSE, !.ixon = FALSE,
                    !.hupcl = TRUE, !.raw = TRUE]

MutOpenPort ==
    /\ ~isOpen
    /\ isOpen' = TRUE
    /\ termios' = Raw(termios)
    /\ InitialPortSettings' = termios'
    /\ uart' = TcSetNow(Startup(termios), termios')
    /\ reply' = NoReply
    /\ UNCHANGED <<lines, modemIoctls, BreakSignaled, before, crashed, changes>>
OpenPort ==
    /\ ~isOpen
    /\ isOpen' = TRUE
    /\ InitialPortSettings' = termios
    /\ termios' = Raw(termios)
    /\ uart' = TcSetNow(Startup(termios), termios')
    /\ reply' = NoReply
    /\ UNCHANGED <<lines, modemIoctls, BreakSignaled, before, crashed, changes>>

ClosePort ==
    /\ isOpen
    /\ reply = NoReply
    /\ isOpen' = FALSE
    /\ termios' = InitialPortSettings
    /\ uart' = TcSetNow(uart, termios')
    /\ reply' = NoReply
    /\ UNCHANGED <<InitialPortSettings, lines, modemIoctls, BreakSignaled, before, crashed, changes>>

\* sercd is killed and started again: the kernel closes the port, and the
\* settings stay as they are.
Crash ==
    /\ isOpen
    /\ reply = NoReply
    /\ isOpen' = FALSE
    /\ crashed' = TRUE
    /\ BreakSignaled' = FALSE
    /\ reply' = NoReply
    /\ UNCHANGED <<termios, InitialPortSettings, uart, lines, modemIoctls, before, changes>>

----------------------------------------------------------------------------

Init ==
    /\ termios \in InitialSettings
    /\ InitialPortSettings = termios
    /\ isOpen = FALSE
    /\ uart = Startup(termios)
    /\ lines = {"CTS"}
    /\ modemIoctls \in BOOLEAN
    /\ BreakSignaled = FALSE
    /\ reply = NoReply
    /\ before = termios
    /\ crashed = FALSE
    /\ changes = 0

Next ==
    \/ \E failed \in BOOLEAN :
        \/ \E rate \in Speed \cup BadSpeed \cup {0} : SetBaudRate(rate, failed)
        \/ \E size \in {0, 5, 7, 9} : SetDataSize(size, failed)
        \/ \E par \in {"query", "none", "odd", "even", "mark"} : SetParity(par, failed)
        \/ \E size \in {"query", "one", "two", "one5"} : SetStopSize(size, failed)
        \/ \E how \in Control : SetControl(how, failed)
    \/ \E which \in Control : QueryControl(which)
    \/ \E how \in Control : Break(how)
    \/ TakeReply
    \/ OpenPort
    \/ ClosePort
    \/ Crash

Spec == Init /\ [][Next]_vars

----------------------------------------------------------------------------
(* Properties.                                                             *)

\* The settings are settings; the port is in raw mode while it is open.
TypeOK ==
    /\ termios \in Termios /\ InitialPortSettings \in Termios
    /\ isOpen => termios.raw /\ termios.hupcl
    /\ lines \subseteq {"DTR", "RTS", "CTS", "DSR"}
    /\ BreakSignaled \in BOOLEAN

\* What the README promises for a request: the value, or what replaces one
\* that is not supported.
Promised(cmd, val) ==
    CASE cmd = "BAUDRATE" -> IF val \in Speed THEN val ELSE 9600
      [] cmd = "DATASIZE" -> IF val \in 5 .. 8 THEN val ELSE 8
      [] cmd = "PARITY"   -> IF val \in {"odd", "even"} THEN val ELSE "none"
      [] cmd = "STOPSIZE" -> IF val = "two" THEN "two" ELSE "one"
      [] cmd = "CONTROL"  -> val

\* Requests that set something.  FLOW_DCD, FLOW_DSR and INFLOW_DTR are left out:
\* sercd's README has them disable flow control, SetPortFlowControl ignores them.
IsSetting(cmd, val) ==
    CASE cmd \in {"BAUDRATE", "DATASIZE"} -> val # 0
      [] cmd \in {"PARITY", "STOPSIZE"}   -> val # "query"
      [] cmd = "CONTROL" -> val \in {"FLOW_NONE", "FLOW_XONXOFF", "FLOW_HARDWARE"}

\* A client that sets an attribute is told the value it asked for, or the
\* documented replacement, whatever was set before, with two exceptions: an
\* interrupted tcsetattr, and the flow control requests FLOW_DCD, FLOW_DSR and
\* INFLOW_DTR, whose replacement the code does not give (HandleCPCCommand,
\* SetPort..., GetPort...).
AnsweredAsPromised ==
    (reply.cmd # "none" /\ IsSetting(reply.cmd, reply.val) /\ ~reply.failed) =>
        reply.ans = Promised(reply.cmd, reply.val)

\* What a client would be told if it asked for everything.
Told(t) == [BAUDRATE |-> t.speed, DATASIZE |-> t.csize, PARITY |-> Parity(t),
            STOPSIZE |-> StopSize(t), CONTROL |-> <<OutFlow(t), InFlow(t)>>]

\* A command changes no attribute but its own, as far as a client can ask,
\* and requests about the inbound flow control change nothing at all
\* ("INBOUND FLOW CONTROL is ignored", SetPortFlowControl).
OnlyItsOwn ==
    [][(isOpen /\ isOpen') =>
        \A a \in DOMAIN Told(termios) :
            (reply'.cmd # a \/ (a = "CONTROL" /\ reply'.val \in Inflow)) =>
                Told(termios')[a] = Told(termios)[a]]_vars

\* When sercd has closed the port, and unless it was ever killed, the
\* settings are those from before its first session (OpenPort, ClosePort).
SettingsRestored == (~isOpen /\ ~crashed) => termios = before

\* The UART runs at the speed of termios, and does at least what termios asks
\* for: a word length, second stop bit, parity or handshake that was set is
\* on, whichever of the two ways the change took to the driver (change_speed,
\* handle_termios_tcsets, rs_set_termios).
UartKeepsUp ==
    /\ uart.speed = termios.speed
    /\ uart.wl >= termios.csize
    /\ termios.cstopb => uart.stb
    /\ termios.parenb => uart.pmd # "none"
    /\ termios.crtscts => uart.hfen

\* "Return the actual port flow control settings": the flow control that the
\* client is told is the one that the UART does.
ActualFlowControl ==
    (reply.cmd = "CONTROL" /\ reply.val = "FLOW_REQ") =>
        /\ reply.ans = "FLOW_HARDWARE" <=> uart.hfen
        /\ reply.ans = "FLOW_XONXOFF" <=> uart.sfen
=============================================================================
