--------------------------- MODULE ComPort_proofs ---------------------------
(***************************************************************************)
(* Proofs about the COM-PORT-OPTION of sercd.                              *)
(*                                                                         *)
(* PortSettings, for every set of rates, every termios that OpenPort may   *)
(* find, and any number of commands and sessions.                          *)
(*                                                                         *)
(* ModemState, for every set of lines: what sercd compares the modem lines *)
(* with is what the client was told, and a delta bit therefore is news;    *)
(* when a poll is due is a matter of arithmetic, for every interval and    *)
(* every clock.                                                            *)
(***************************************************************************)
EXTENDS PortSettings, ModemState, TLAPS

----------------------------------------------------------------------------
(* The functions of unix.c.  Each keeps a termios a termios, leaves the    *)
(* port raw, and changes nothing that a client can ask about but its own   *)
(* attribute.                                                              *)

\* new differs from t in no attribute that a client can ask about but a.
OnlyChanges(t, new, a) ==
    \A b \in DOMAIN Told(t) \ {a} : Told(new)[b] = Told(t)[b]

\* What the rest of the session relies on: new is a termios, raw as before.
StaysRaw(t, new) ==
    /\ new \in Termios
    /\ t.raw => new.raw
    /\ t.hupcl => new.hupcl

\* SetPortSpeed: any rate; an unknown one becomes 9600.
LEMMA SpeedLemma ==
    ASSUME NEW t \in Termios, NEW rate
    PROVE  /\ StaysRaw(t, SetPortSpeed(t, rate))
           /\ OnlyChanges(t, SetPortSpeed(t, rate), "BAUDRATE")
           /\ GetPort("BAUDRATE", SetPortSpeed(t, rate)) = Promised("BAUDRATE", rate)
BY PortAssumption DEF Termios, SetPortSpeed, StaysRaw, OnlyChanges, Told, GetPort,
   Promised, Parity, StopSize, OutFlow, InFlow

\* SetPortDataSize: 5 to 8 bits; any other size becomes 8.
LEMMA DataSizeLemma ==
    ASSUME NEW t \in Termios, NEW size
    PROVE  /\ StaysRaw(t, SetPortDataSize(t, size))
           /\ OnlyChanges(t, SetPortDataSize(t, size), "DATASIZE")
           /\ GetPort("DATASIZE", SetPortDataSize(t, size)) = Promised("DATASIZE", size)
BY DEF Termios, SetPortDataSize, StaysRaw, OnlyChanges, Told, GetPort,
   Promised, Parity, StopSize, OutFlow, InFlow

\* SetPortParity: mark and space become none.
LEMMA ParityLemma ==
    ASSUME NEW t \in Termios, NEW par
    PROVE  /\ StaysRaw(t, SetPortParity(t, par))
           /\ OnlyChanges(t, SetPortParity(t, par), "PARITY")
           /\ GetPort("PARITY", SetPortParity(t, par)) = Promised("PARITY", par)
<1>1. CASE par = "odd"
  <2> DEFINE new == [t EXCEPT !.parenb = TRUE, !.parodd = TRUE]
  <2>1. SetPortParity(t, par) = new
    BY <1>1 DEF SetPortParity
  <2>2. StaysRaw(t, new)
    BY DEF Termios, StaysRaw
  <2>3. OnlyChanges(t, new, "PARITY")
    BY DEF Termios, OnlyChanges, Told, Parity, StopSize, OutFlow, InFlow
  <2>4. GetPort("PARITY", new) = "odd"
    BY DEF Termios, GetPort, Parity
  <2> HIDE DEF new
  <2> QED
    BY <1>1, <2>1, <2>2, <2>3, <2>4 DEF Promised
<1>2. CASE par = "even"
  <2> DEFINE new == [t EXCEPT !.parenb = TRUE, !.parodd = FALSE]
  <2>1. SetPortParity(t, par) = new
    BY <1>2 DEF SetPortParity
  <2>2. StaysRaw(t, new)
    BY DEF Termios, StaysRaw
  <2>3. OnlyChanges(t, new, "PARITY")
    BY DEF Termios, OnlyChanges, Told, Parity, StopSize, OutFlow, InFlow
  <2>4. GetPort("PARITY", new) = "even"
    BY DEF Termios, GetPort, Parity
  <2> HIDE DEF new
  <2> QED
    BY <1>2, <2>1, <2>2, <2>3, <2>4 DEF Promised
<1>3. CASE par \notin {"odd", "even"}
  <2> DEFINE new == [t EXCEPT !.parenb = FALSE]
  <2>1. SetPortParity(t, par) = new
    BY <1>3 DEF SetPortParity
  <2>2. StaysRaw(t, new)
    BY DEF Termios, StaysRaw
  <2>3. OnlyChanges(t, new, "PARITY")
    BY DEF Termios, OnlyChanges, Told, Parity, StopSize, OutFlow, InFlow
  <2>4. GetPort("PARITY", new) = "none"
    BY DEF Termios, GetPort, Parity
  <2> HIDE DEF new
  <2> QED
    BY <1>3, <2>1, <2>2, <2>3, <2>4 DEF Promised
<1> QED
  BY <1>1, <1>2, <1>3

\* SetPortStopSize: 1.5 becomes 1.
LEMMA StopSizeLemma ==
    ASSUME NEW t \in Termios, NEW size
    PROVE  /\ StaysRaw(t, SetPortStopSize(t, size))
           /\ OnlyChanges(t, SetPortStopSize(t, size), "STOPSIZE")
           /\ GetPort("STOPSIZE", SetPortStopSize(t, size)) = Promised("STOPSIZE", size)
<1>1. StaysRaw(t, SetPortStopSize(t, size))
  BY DEF Termios, StaysRaw, SetPortStopSize
<1>2. OnlyChanges(t, SetPortStopSize(t, size), "STOPSIZE")
  BY DEF Termios, OnlyChanges, SetPortStopSize, Told, Parity, StopSize, OutFlow, InFlow
<1>3. GetPort("STOPSIZE", SetPortStopSize(t, size)) = Promised("STOPSIZE", size)
  BY DEF Termios, SetPortStopSize, GetPort, Promised, StopSize
<1> QED
  BY <1>1, <1>2, <1>3

\* SetPortFlowControl: the three outbound settings are answered as set; the
\* inbound ones change nothing.
LEMMA FlowLemma ==
    ASSUME NEW t \in Termios, NEW how
    PROVE  /\ StaysRaw(t, SetPortFlowControl(t, how))
           /\ OnlyChanges(t, SetPortFlowControl(t, how), "CONTROL")
           /\ how \in Inflow => SetPortFlowControl(t, how) = t
           /\ how \in {"FLOW_NONE", "FLOW_XONXOFF", "FLOW_HARDWARE"} =>
                OutFlow(SetPortFlowControl(t, how)) = how
<1>1. CASE how = "FLOW_NONE"
  <2> DEFINE new == [t EXCEPT !.ixon = FALSE, !.ixoff = FALSE, !.crtscts = FALSE]
  <2>1. SetPortFlowControl(t, how) = new
    BY <1>1 DEF SetPortFlowControl
  <2>2. StaysRaw(t, new)
    BY DEF Termios, StaysRaw
  <2>3. OnlyChanges(t, new, "CONTROL")
    BY DEF Termios, OnlyChanges, Told, Parity, StopSize, OutFlow, InFlow
  <2>4. OutFlow(new) = "FLOW_NONE"
    BY DEF Termios, OutFlow
  <2> HIDE DEF new
  <2> QED
    BY <1>1, <2>1, <2>2, <2>3, <2>4 DEF Inflow
<1>2. CASE how = "FLOW_XONXOFF"
  <2> DEFINE new == [t EXCEPT !.ixon = TRUE, !.ixoff = TRUE, !.crtscts = FALSE]
  <2>1. SetPortFlowControl(t, how) = new
    BY <1>2 DEF SetPortFlowControl
  <2>2. StaysRaw(t, new)
    BY DEF Termios, StaysRaw
  <2>3. OnlyChanges(t, new, "CONTROL")
    BY DEF Termios, OnlyChanges, Told, Parity, StopSize, OutFlow, InFlow
  <2>4. OutFlow(new) = "FLOW_XONXOFF"
    BY DEF Termios, OutFlow
  <2> HIDE DEF new
  <2> QED
    BY <1>2, <2>1, <2>2, <2>3, <2>4 DEF Inflow
<1>3. CASE how = "FLOW_HARDWARE"
  <2> DEFINE new == [t EXCEPT !.ixon = FALSE, !.ixoff = FALSE, !.crtscts = TRUE]
  <2>1. SetPortFlowControl(t, how) = new
    BY <1>3 DEF SetPortFlowControl
  <2>2. StaysRaw(t, new)
    BY DEF Termios, StaysRaw
  <2>3. OnlyChanges(t, new, "CONTROL")
    BY DEF Termios, OnlyChanges, Told, Parity, StopSize, OutFlow, InFlow
  <2>4. OutFlow(new) = "FLOW_HARDWARE"
    BY DEF Termios, OutFlow
  <2> HIDE DEF new
  <2> QED
    BY <1>3, <2>1, <2>2, <2>3, <2>4 DEF Inflow
<1>4. CASE how \notin {"FLOW_NONE", "FLOW_XONXOFF", "FLOW_HARDWARE"}
  <2>1. SetPortFlowControl(t, how) = t
    BY <1>4 DEF SetPortFlowControl
  <2> QED
    BY <1>4, <2>1 DEF StaysRaw, OnlyChanges
<1> QED
  BY <1>1, <1>2, <1>3, <1>4

\* SetLines sets and clears only lines.
LEMMA LinesLemma ==
    ASSUME NEW m \in SUBSET {"DTR", "RTS", "CTS", "DSR"}, NEW how
    PROVE  SetLines(m, how) \in SUBSET {"DTR", "RTS", "CTS", "DSR"}
BY DEF SetLines

----------------------------------------------------------------------------
(* The driver.                                                             *)

\* The control register and the divisor.
Uart == [speed : Nat, wl : 5 .. 8, stb : BOOLEAN, pmd : {"none", "odd", "even"},
         hfen : BOOLEAN, sfen : BOOLEAN]

\* UartKeepsUp for a UART u and a termios t.
KeepsUp(u, t) ==
    /\ u.speed = t.speed
    /\ u.wl >= t.csize
    /\ t.cstopb => u.stb
    /\ t.parenb => u.pmd # "none"
    /\ t.crtscts => u.hfen

\* change_speed brings the UART up to the termios it is given, whatever bits
\* earlier calls have left in the control register.
LEMMA ChangeSpeedLemma ==
    ASSUME NEW u \in Uart, NEW t \in Termios
    PROVE  /\ ChangeSpeed(u, t) \in Uart
           /\ KeepsUp(ChangeSpeed(u, t), t)
<1> DEFINE wl == WordLength(u.wl, t.csize)
           pmd == IF ~t.parenb THEN u.pmd
                  ELSE IF t.parodd /\ u.pmd # "even" THEN "odd" ELSE "even"
           stb == u.stb \/ t.cstopb
           hfen == u.hfen \/ t.crtscts
           sfen == u.sfen \/ IxonOrIxoffInCflag(t)
<1>1. wl \in 5 .. 8 /\ wl >= t.csize
  <2>1. u.wl \in 5 .. 8 /\ t.csize \in 5 .. 8
    BY DEF Uart, Termios
  <2> QED
    BY <2>1 DEF WordLength
<1>2. pmd \in {"none", "odd", "even"} /\ (t.parenb => pmd # "none")
  BY DEF Uart
<1>3. stb \in BOOLEAN /\ (t.cstopb => stb)
  BY DEF Uart, Termios
<1>4. hfen \in BOOLEAN /\ (t.crtscts => hfen)
  BY DEF Uart, Termios
<1>5. sfen \in BOOLEAN
  BY DEF IxonOrIxoffInCflag
<1>6. t.speed \in Nat
  <2>1. t.speed \in Speed
    BY DEF Termios
  <2>2. Speed \subseteq Nat
    BY PortAssumption
  <2> QED
    BY <2>1, <2>2
<1>7. ChangeSpeed(u, t) = [speed |-> t.speed, wl |-> wl, stb |-> stb, pmd |-> pmd,
                          hfen |-> hfen, sfen |-> sfen]
  BY DEF ChangeSpeed
<1> HIDE DEF wl, pmd, stb, hfen, sfen
<1> QED
  BY <1>1, <1>2, <1>3, <1>4, <1>5, <1>6, <1>7 DEF Uart, KeepsUp

\* The same after startup, which clears the control register first.
LEMMA StartupLemma ==
    ASSUME NEW t \in Termios
    PROVE  /\ Startup(t) \in Uart
           /\ KeepsUp(Startup(t), t)
<1>1. [speed |-> 0, wl |-> 5, stb |-> FALSE, pmd |-> "none",
       hfen |-> FALSE, sfen |-> FALSE] \in Uart
  BY DEF Uart
<1> QED
  BY <1>1, ChangeSpeedLemma DEF Startup

\* Where rs_set_termios sees no change and returns early, the UART already
\* does what the new termios asks for.
LEMMA DrainLemma ==
    ASSUME NEW u \in Uart, NEW old \in Termios, NEW t \in Termios, KeepsUp(u, old)
    PROVE  /\ TcSetDrain(u, old, t) \in Uart
           /\ KeepsUp(TcSetDrain(u, old, t), t)
<1>1. CASE c_cflag(old) = c_cflag(t)
  <2>1. /\ old.speed = t.speed /\ old.csize = t.csize /\ old.parenb = t.parenb
        /\ old.cstopb = t.cstopb /\ old.crtscts = t.crtscts
    BY <1>1 DEF c_cflag
  <2>2. KeepsUp(u, t)
    BY <2>1 DEF KeepsUp
  <2> QED
    BY <1>1, <2>2 DEF TcSetDrain
<1>2. CASE c_cflag(old) # c_cflag(t)
  BY <1>2, ChangeSpeedLemma DEF TcSetDrain
<1> QED
  BY <1>1, <1>2

----------------------------------------------------------------------------
(* The inductive invariant.                                                *)

TypeInv ==
    /\ TypeOK
    /\ uart \in Uart
    /\ isOpen \in BOOLEAN /\ crashed \in BOOLEAN

\* During a session the settings to go back to are those in
\* InitialPortSettings; SettingsRestored alone says nothing of them.
Restorable ==
    ~crashed => before = IF isOpen THEN InitialPortSettings ELSE termios

IInv == TypeInv /\ UartKeepsUp /\ Restorable /\ AnsweredAsPromised

\* What every command leaves behind, and what it does not touch.
Handled ==
    /\ isOpen
    /\ StaysRaw(termios, termios')
    /\ uart' \in Uart /\ KeepsUp(uart', termios')
    /\ lines' \subseteq {"DTR", "RTS", "CTS", "DSR"}
    /\ BreakSignaled' \in BOOLEAN
    /\ UNCHANGED <<InitialPortSettings, isOpen, modemIoctls, before, crashed>>

\* What a client is told, before and after a command a.
ChangesOnly(a) ==
    /\ OnlyChanges(termios, termios', a)
    /\ reply'.cmd = a

\* A SetPort function that is interrupted changes nothing; otherwise termios
\* is the new one and the UART follows.
LEMMA SetPortLemma ==
    ASSUME IInv, NEW new, StaysRaw(termios, new), NEW failed \in BOOLEAN,
           SetPort(new, failed)
    PROVE  /\ termios' = IF failed THEN termios ELSE new
           /\ StaysRaw(termios, termios')
           /\ uart' \in Uart /\ KeepsUp(uart', termios')
<1>1. termios \in Termios /\ new \in Termios /\ uart \in Uart /\ KeepsUp(uart, termios)
  BY DEF IInv, TypeInv, TypeOK, UartKeepsUp, KeepsUp, StaysRaw
<1>2. CASE failed
  BY <1>1, <1>2 DEF SetPort, StaysRaw
<1>3. CASE ~failed
  BY <1>1, <1>3, DrainLemma DEF SetPort
<1> QED
  BY <1>2, <1>3 DEF SetPort

\* One of the four commands with a value: the attribute cmd may change and no
\* other, and a value that was set is answered as promised.
LEMMA SetOrQueryLemma ==
    ASSUME IInv, NEW cmd, NEW val, NEW query, NEW new, NEW failed \in BOOLEAN,
           StaysRaw(termios, new), OnlyChanges(termios, new, cmd),
           GetPort(cmd, new) = Promised(cmd, val),
           IsSetting(cmd, val) => val # query,
           SetOrQuery(cmd, val, query, new, failed)
    PROVE  Handled /\ ChangesOnly(cmd) /\ AnsweredAsPromised'
<1>1. /\ isOpen
      /\ reply' = [cmd |-> cmd, val |-> val, ans |-> GetPort(cmd, termios'), failed |-> failed]
      /\ UNCHANGED <<InitialPortSettings, isOpen, modemIoctls, before, crashed>>
      /\ UNCHANGED <<lines, BreakSignaled>>
  BY DEF SetOrQuery, Reply
<1>2. /\ lines' \subseteq {"DTR", "RTS", "CTS", "DSR"}
      /\ BreakSignaled' \in BOOLEAN
  BY <1>1 DEF IInv, TypeInv, TypeOK
<1>3. CASE val = query
  <2>1. UNCHANGED <<termios, uart>>
    BY <1>3 DEF SetOrQuery
  <2>2. Handled
    BY <1>1, <1>2, <2>1
    DEF Handled, StaysRaw, IInv, TypeInv, TypeOK, UartKeepsUp, KeepsUp
  <2>3. ChangesOnly(cmd)
    BY <1>1, <2>1 DEF ChangesOnly, OnlyChanges
  <2>4. AnsweredAsPromised'
    BY <1>1, <1>3 DEF AnsweredAsPromised
  <2> QED
    BY <2>2, <2>3, <2>4
<1>4. CASE val # query
  <2>1. SetPort(new, failed)
    BY <1>4 DEF SetOrQuery
  <2>2. /\ termios' = IF failed THEN termios ELSE new
        /\ StaysRaw(termios, termios')
        /\ uart' \in Uart /\ KeepsUp(uart', termios')
    BY <2>1, SetPortLemma
  <2>3. Handled
    BY <1>1, <1>2, <2>2 DEF Handled
  <2>4. ChangesOnly(cmd)
    BY <1>1, <2>2 DEF ChangesOnly, OnlyChanges
  <2>5. AnsweredAsPromised'
    BY <1>1, <2>2 DEF AnsweredAsPromised
  <2> QED
    BY <2>3, <2>4, <2>5
<1> QED
  BY <1>3, <1>4

\* SET-BAUDRATE.
LEMMA BaudRateStep ==
    ASSUME IInv, NEW rate, NEW failed \in BOOLEAN, SetBaudRate(rate, failed)
    PROVE  Handled /\ ChangesOnly("BAUDRATE") /\ AnsweredAsPromised'
<1>1. termios \in Termios
  BY DEF IInv, TypeInv, TypeOK
<1>2. IsSetting("BAUDRATE", rate) => rate # 0
  BY DEF IsSetting
<1> QED
  BY <1>1, <1>2, SpeedLemma, SetOrQueryLemma DEF SetBaudRate

\* SET-DATASIZE.
LEMMA DataSizeStep ==
    ASSUME IInv, NEW size, NEW failed \in BOOLEAN, SetDataSize(size, failed)
    PROVE  Handled /\ ChangesOnly("DATASIZE") /\ AnsweredAsPromised'
<1>1. termios \in Termios
  BY DEF IInv, TypeInv, TypeOK
<1>2. IsSetting("DATASIZE", size) => size # 0
  BY DEF IsSetting
<1> QED
  BY <1>1, <1>2, DataSizeLemma, SetOrQueryLemma DEF SetDataSize

\* SET-PARITY.
LEMMA ParityStep ==
    ASSUME IInv, NEW par, NEW failed \in BOOLEAN, SetParity(par, failed)
    PROVE  Handled /\ ChangesOnly("PARITY") /\ AnsweredAsPromised'
<1>1. termios \in Termios
  BY DEF IInv, TypeInv, TypeOK
<1>2. IsSetting("PARITY", par) => par # "query"
  BY DEF IsSetting
<1> QED
  BY <1>1, <1>2, ParityLemma, SetOrQueryLemma DEF SetParity

\* SET-STOPSIZE.
LEMMA StopSizeStep ==
    ASSUME IInv, NEW size, NEW failed \in BOOLEAN, SetStopSize(size, failed)
    PROVE  Handled /\ ChangesOnly("STOPSIZE") /\ AnsweredAsPromised'
<1>1. termios \in Termios
  BY DEF IInv, TypeInv, TypeOK
<1>2. IsSetting("STOPSIZE", size) => size # "query"
  BY DEF IsSetting
<1> QED
  BY <1>1, <1>2, StopSizeLemma, SetOrQueryLemma DEF SetStopSize

\* SET-CONTROL that sets something: flow control or a modem line.
LEMMA SetControlStep ==
    ASSUME IInv, NEW how, NEW failed \in BOOLEAN, SetControl(how, failed)
    PROVE  /\ Handled /\ ChangesOnly("CONTROL") /\ AnsweredAsPromised'
           /\ reply'.val = how
           /\ how \in Inflow => termios' = termios
<1> DEFINE new == SetPortFlowControl(termios, how)
<1>1. termios \in Termios /\ lines \in SUBSET {"DTR", "RTS", "CTS", "DSR"}
  BY DEF IInv, TypeInv, TypeOK
<1>2. /\ SetPort(new, failed)
      /\ isOpen
      /\ lines' = IF modemIoctls THEN SetLines(lines, how) ELSE lines
      /\ reply' = [cmd |-> "CONTROL", val |-> how,
                   ans |-> IF CiscoIOSCompatible /\ how \in Inflow
                           THEN "FLOW_REQ" ELSE OutFlow(termios'),
                   failed |-> failed]
      /\ UNCHANGED <<InitialPortSettings, isOpen, modemIoctls, before, crashed>>
      /\ UNCHANGED BreakSignaled
  BY DEF SetControl, Reply
<1>3. /\ StaysRaw(termios, new)
      /\ OnlyChanges(termios, new, "CONTROL")
      /\ how \in Inflow => new = termios
      /\ how \in {"FLOW_NONE", "FLOW_XONXOFF", "FLOW_HARDWARE"} => OutFlow(new) = how
  BY <1>1, FlowLemma
<1> HIDE DEF new
<1>4. /\ termios' = IF failed THEN termios ELSE new
      /\ StaysRaw(termios, termios')
      /\ uart' \in Uart /\ KeepsUp(uart', termios')
  BY <1>2, <1>3, SetPortLemma
<1>5. lines' \subseteq {"DTR", "RTS", "CTS", "DSR"} /\ BreakSignaled' \in BOOLEAN
  BY <1>1, <1>2, LinesLemma DEF IInv, TypeInv, TypeOK
<1>6. Handled
  BY <1>2, <1>4, <1>5 DEF Handled
<1>7. ChangesOnly("CONTROL")
  BY <1>2, <1>3, <1>4 DEF ChangesOnly, OnlyChanges
<1>8. AnsweredAsPromised'
  BY <1>2, <1>3, <1>4 DEF AnsweredAsPromised, IsSetting, Promised, Inflow
<1> QED
  BY <1>2, <1>3, <1>4, <1>6, <1>7, <1>8

\* SET-CONTROL that asks, and breaks.
LEMMA AskStep ==
    ASSUME IInv, NEW how, QueryControl(how) \/ Break(how)
    PROVE  /\ Handled /\ ChangesOnly("CONTROL") /\ AnsweredAsPromised'
           /\ termios' = termios
<1>1. /\ isOpen
      /\ reply'.cmd = "CONTROL" /\ reply'.val = how
      /\ how \notin {"FLOW_NONE", "FLOW_XONXOFF", "FLOW_HARDWARE"}
      /\ UNCHANGED <<InitialPortSettings, isOpen, modemIoctls, before, crashed>>
      /\ UNCHANGED <<termios, uart, lines>>
  BY DEF QueryControl, Break, Reply
<1>2. BreakSignaled' \in BOOLEAN
  BY DEF QueryControl, Break, IInv, TypeInv, TypeOK
<1>3. Handled
  BY <1>1, <1>2
  DEF Handled, StaysRaw, IInv, TypeInv, TypeOK, UartKeepsUp, KeepsUp
<1>4. ChangesOnly("CONTROL")
  BY <1>1 DEF ChangesOnly, OnlyChanges
<1>5. AnsweredAsPromised'
  BY <1>1 DEF AnsweredAsPromised, IsSetting
<1> QED
  BY <1>1, <1>3, <1>4, <1>5

\* Any command of the client.
Command ==
    /\ Handled
    /\ AnsweredAsPromised'
    /\ \E a : /\ ChangesOnly(a)
              /\ (a = "CONTROL" /\ reply'.val \in Inflow) => termios' = termios

\* A step is a command, or one of the four that are none.
LEMMA NextCases ==
    ASSUME IInv, Next
    PROVE  Command \/ TakeReply \/ OpenPort \/ ClosePort \/ Crash
<1>1. ASSUME NEW failed \in BOOLEAN, NEW rate, SetBaudRate(rate, failed)
      PROVE  Command
  <2>1. Handled /\ ChangesOnly("BAUDRATE") /\ AnsweredAsPromised'
    BY <1>1, BaudRateStep
  <2> QED
    BY <2>1 DEF Command
<1>2. ASSUME NEW failed \in BOOLEAN, NEW size, SetDataSize(size, failed)
      PROVE  Command
  <2>1. Handled /\ ChangesOnly("DATASIZE") /\ AnsweredAsPromised'
    BY <1>2, DataSizeStep
  <2> QED
    BY <2>1 DEF Command
<1>3. ASSUME NEW failed \in BOOLEAN, NEW par, SetParity(par, failed)
      PROVE  Command
  <2>1. Handled /\ ChangesOnly("PARITY") /\ AnsweredAsPromised'
    BY <1>3, ParityStep
  <2> QED
    BY <2>1 DEF Command
<1>4. ASSUME NEW failed \in BOOLEAN, NEW size, SetStopSize(size, failed)
      PROVE  Command
  <2>1. Handled /\ ChangesOnly("STOPSIZE") /\ AnsweredAsPromised'
    BY <1>4, StopSizeStep
  <2> QED
    BY <2>1 DEF Command
<1>5. ASSUME NEW failed \in BOOLEAN, NEW how, SetControl(how, failed)
      PROVE  Command
  <2>1. /\ Handled /\ ChangesOnly("CONTROL") /\ AnsweredAsPromised'
        /\ reply'.val = how
        /\ how \in Inflow => termios' = termios
    BY <1>5, SetControlStep
  <2> QED
    BY <2>1 DEF Command
<1>6. ASSUME NEW how, QueryControl(how) \/ Break(how)
      PROVE  Command
  <2>1. /\ Handled /\ ChangesOnly("CONTROL") /\ AnsweredAsPromised'
        /\ termios' = termios
    BY <1>6, AskStep
  <2> QED
    BY <2>1 DEF Command
<1> QED
  BY <1>1, <1>2, <1>3, <1>4, <1>5, <1>6 DEF Next

----------------------------------------------------------------------------
(* Opening and closing.                                                    *)

\* OpenPort's settings are a raw termios.
LEMMA RawLemma ==
    ASSUME NEW t \in Termios
    PROVE  Raw(t) \in Termios /\ Raw(t).raw /\ Raw(t).hupcl
<1> DEFINE eight == [t EXCEPT !.csize = 8]
           new == [eight EXCEPT !.parenb = FALSE, !.ixon = FALSE,
                                !.hupcl = TRUE, !.raw = TRUE]
<1>1. eight \in Termios
  <2>1. eight = SetPortDataSize(t, 8)
    BY DEF SetPortDataSize
  <2> QED
    BY <2>1, DataSizeLemma DEF StaysRaw
<1>2. Raw(t) = new
  BY DEF Raw
<1> HIDE DEF eight
<1>3. new \in Termios /\ new.raw = TRUE /\ new.hupcl = TRUE
  BY <1>1 DEF Termios
<1> QED
  BY <1>2, <1>3

\* Init: every initial settings are restorable, and startup has been called.
LEMMA InitInv == Init => IInv
<1> SUFFICES ASSUME Init PROVE IInv
  OBVIOUS
<1>1. termios \in Termios
  BY SettingsAssumption DEF Init
<1>2. TypeInv
  BY <1>1, StartupLemma DEF Init, TypeInv, TypeOK
<1>3. UartKeepsUp
  BY <1>1, StartupLemma DEF Init, UartKeepsUp, KeepsUp
<1>4. Restorable
  BY DEF Init, Restorable
<1>5. AnsweredAsPromised
  BY DEF Init, NoReply, AnsweredAsPromised
<1> QED
  BY <1>2, <1>3, <1>4, <1>5 DEF IInv

\* A command keeps the invariant.
LEMMA CommandInv ==
    ASSUME IInv, Command
    PROVE  IInv'
<1>1. TypeInv'
  BY DEF Command, Handled, IInv, TypeInv, TypeOK, StaysRaw
<1>2. UartKeepsUp'
  BY DEF Command, Handled, UartKeepsUp, KeepsUp
<1>3. Restorable'
  BY DEF Command, Handled, IInv, Restorable
<1> QED
  BY <1>1, <1>2, <1>3 DEF Command, IInv

\* OpenPort records the settings it is going to change.
LEMMA OpenPortInv ==
    ASSUME IInv, OpenPort
    PROVE  IInv'
<1>1. termios \in Termios /\ termios' = Raw(termios)
  BY DEF OpenPort, IInv, TypeInv, TypeOK
<1>2. termios' \in Termios /\ termios'.raw /\ termios'.hupcl
  BY <1>1, RawLemma
<1>3. uart' \in Uart /\ KeepsUp(uart', termios')
  <2>1. Startup(termios) \in Uart
    BY <1>1, StartupLemma
  <2>2. uart' = ChangeSpeed(Startup(termios), termios')
    BY DEF OpenPort, TcSetNow
  <2> QED
    BY <1>2, <2>1, <2>2, ChangeSpeedLemma
<1>4. TypeInv'
  BY <1>1, <1>2, <1>3 DEF OpenPort, IInv, TypeInv, TypeOK
<1>5. UartKeepsUp'
  BY <1>3 DEF UartKeepsUp, KeepsUp
<1>6. Restorable'
  BY DEF OpenPort, IInv, TypeInv, Restorable
<1>7. AnsweredAsPromised'
  BY DEF OpenPort, NoReply, AnsweredAsPromised
<1> QED
  BY <1>4, <1>5, <1>6, <1>7 DEF IInv

\* ClosePort goes back to them.
LEMMA ClosePortInv ==
    ASSUME IInv, ClosePort
    PROVE  IInv'
<1>1. termios' = InitialPortSettings /\ InitialPortSettings \in Termios /\ uart \in Uart
  BY DEF ClosePort, IInv, TypeInv, TypeOK
<1>2. uart' \in Uart /\ KeepsUp(uart', termios')
  BY <1>1, ChangeSpeedLemma DEF ClosePort, TcSetNow
<1>3. TypeInv'
  BY <1>1, <1>2 DEF ClosePort, IInv, TypeInv, TypeOK
<1>4. UartKeepsUp'
  BY <1>2 DEF UartKeepsUp, KeepsUp
<1>5. Restorable'
  BY <1>1 DEF ClosePort, IInv, TypeInv, Restorable
<1>6. AnsweredAsPromised'
  BY DEF ClosePort, NoReply, AnsweredAsPromised
<1> QED
  BY <1>3, <1>4, <1>5, <1>6 DEF IInv

\* A crash leaves the settings where they are; so does taking the answer.
LEMMA OtherInv ==
    ASSUME IInv, Crash \/ TakeReply \/ UNCHANGED vars
    PROVE  IInv'
<1>1. CASE Crash
  <2>1. UNCHANGED <<termios, InitialPortSettings, uart, lines>> /\ ~isOpen' /\ crashed'
    BY <1>1 DEF Crash
  <2>2. TypeInv'
    BY <1>1, <2>1 DEF Crash, IInv, TypeInv, TypeOK
  <2>3. UartKeepsUp' /\ Restorable'
    BY <2>1 DEF IInv, UartKeepsUp, Restorable
  <2>4. AnsweredAsPromised'
    BY <1>1 DEF Crash, NoReply, AnsweredAsPromised
  <2> QED
    BY <2>2, <2>3, <2>4 DEF IInv
<1>2. CASE TakeReply
  <2>1. UNCHANGED <<termios, InitialPortSettings, isOpen, uart, lines, BreakSignaled,
                    before, crashed>>
    BY <1>2 DEF TakeReply
  <2>2. TypeInv' /\ UartKeepsUp' /\ Restorable'
    BY <2>1 DEF IInv, TypeInv, TypeOK, UartKeepsUp, Restorable
  <2>3. AnsweredAsPromised'
    BY <1>2 DEF TakeReply, NoReply, AnsweredAsPromised
  <2> QED
    BY <2>2, <2>3 DEF IInv
<1>3. CASE UNCHANGED vars
  BY <1>3 DEF vars, IInv, TypeInv, TypeOK, UartKeepsUp, Restorable, AnsweredAsPromised
<1> QED
  BY <1>1, <1>2, <1>3

----------------------------------------------------------------------------
(* The theorems.                                                           *)

\* The settings are restorable, the UART does what they ask for, and every
\* answer is the promised one, in every reachable state.
THEOREM Invariance == Spec => []IInv
<1>1. IInv /\ [Next]_vars => IInv'
  BY NextCases, CommandInv, OpenPortInv, ClosePortInv, OtherInv
<1> QED
  BY <1>1, InitInv, PTL DEF Spec

\* The settings are settings, and the port is raw while it is open, whatever
\* the client sets (OpenPort, SetPort...).
THEOREM TypeCorrect == Spec => []TypeOK
<1>1. IInv => TypeOK
  BY DEF IInv, TypeInv
<1> QED
  BY <1>1, Invariance, PTL

\* A client that sets an attribute is told the value it asked for or the
\* documented replacement, for every rate, size and parity and after any
\* history of commands (HandleCPCCommand).
THEOREM Answers == Spec => []AnsweredAsPromised
<1>1. IInv => AnsweredAsPromised
  BY DEF IInv
<1> QED
  BY <1>1, Invariance, PTL

\* After any number of sessions without a crash the closed port has the
\* settings from before the first (OpenPort, ClosePort).
THEOREM Restoration == Spec => []SettingsRestored
<1>1. IInv => SettingsRestored
  BY DEF IInv, Restorable, SettingsRestored
<1> QED
  BY <1>1, Invariance, PTL

\* The UART runs at the speed of termios and does at least what it asks for,
\* on both ways into the driver, although change_speed never clears a bit.
THEOREM UartFollows == Spec => []UartKeepsUp
<1>1. IInv => UartKeepsUp
  BY DEF IInv
<1> QED
  BY <1>1, Invariance, PTL

\* No command changes an attribute other than its own, as far as a client can
\* ask, and inbound flow control changes nothing (SetPortFlowControl).
THEOREM Separation == Spec => OnlyItsOwn
<1> DEFINE Own ==
        (isOpen /\ isOpen') =>
            \A a \in DOMAIN Told(termios) :
                (reply'.cmd # a \/ (a = "CONTROL" /\ reply'.val \in Inflow)) =>
                    Told(termios')[a] = Told(termios)[a]
<1>1. ASSUME IInv, Next
      PROVE  Own
  <2>1. CASE Command
    <3>1. PICK c : /\ ChangesOnly(c)
                   /\ (c = "CONTROL" /\ reply'.val \in Inflow) => termios' = termios
      BY <2>1 DEF Command
    <3>2. CASE termios' = termios
      BY <3>2
    <3>3. CASE ~(c = "CONTROL" /\ reply'.val \in Inflow)
      <4>1. reply'.cmd = c
        BY <3>1 DEF ChangesOnly
      <4>2. \A b \in DOMAIN Told(termios) \ {c} : Told(termios')[b] = Told(termios)[b]
        BY <3>1 DEF ChangesOnly, OnlyChanges
      <4> QED
        BY <3>3, <4>1, <4>2
    <3> QED
      BY <3>1, <3>2, <3>3
  <2>2. CASE TakeReply
    BY <2>2 DEF TakeReply
  <2>3. CASE OpenPort \/ ClosePort \/ Crash
    BY <2>3 DEF OpenPort, ClosePort, Crash
  <2> QED
    BY <1>1, <2>1, <2>2, <2>3, NextCases
<1>2. IInv /\ [Next]_vars => [Own]_vars
  BY <1>1
<1>3. [][Own]_vars => OnlyItsOwn
  BY PTL DEF OnlyItsOwn
<1> QED
  BY <1>2, <1>3, Invariance, PTL DEF Spec

----------------------------------------------------------------------------
(* The modem lines: what the client was told of them.                      *)

ToldType == told \in [Line -> Value]

\* A line that the client knows is a line that the mask shows to a connected
\* client, and sercd remembers the same of it.
KnownLine(l) ==
    /\ told[l] # "unknown" => l \in Shown /\ connected
    /\ told[l] = "on" => l \in ModemState
    /\ told[l] = "off" => l \notin ModemState

ModemInv == ToldType /\ ToldRemembered

\* sercd starts with nothing told.
LEMMA ModemInitLemma == ModemInit => ModemInv
  BY DEF ModemInit, ModemInv, ToldType, ToldRemembered, Value

\* A notification says of every line that the mask shows what is remembered.
LEMMA PollLemma == ModemInv /\ Poll => ModemInv'
<1> SUFFICES ASSUME ModemInv, Poll PROVE ModemInv'
    OBVIOUS
<1>1. Shown' = Shown
    BY DEF Poll, Shown
<1>2. CASE Changed(ModemState, line, Shown)
  <2>1. /\ ModemState' = line /\ connected' /\ connected
        /\ told' = [l \in Line |-> IF l \notin Shown THEN "unknown"
                                   ELSE IF l \in line THEN "on" ELSE "off"]
      BY <1>2 DEF Poll
  <2>2. ToldType'
      BY <2>1 DEF ToldType, Value
  <2>3. ASSUME NEW l \in Line PROVE KnownLine(l)'
      BY <1>1, <2>1 DEF KnownLine
  <2> QED
      BY <2>2, <2>3 DEF ModemInv, ToldRemembered, KnownLine
<1>3. CASE ~Changed(ModemState, line, Shown)
  <2>1. UNCHANGED <<told, ModemState, connected>>
      BY <1>3 DEF Poll
  <2> QED
      BY <1>1, <2>1 DEF ModemInv, ToldType, ToldRemembered
<1> QED
    BY <1>2, <1>3

\* A mask that hides a line makes the client forget it.
LEMMA MaskLemma == ASSUME NEW mask, ModemInv, SetModemStateMask(mask) PROVE ModemInv'
<1>1. /\ connected /\ UNCHANGED <<ModemState, connected>>
      /\ ModemStateMask' = mask
      /\ told' = [l \in Line |-> IF [line |-> l, delta |-> FALSE] \in mask
                                 THEN told[l] ELSE "unknown"]
    BY DEF SetModemStateMask
<1>2. ToldType'
    BY <1>1 DEF ModemInv, ToldType, Value
<1>3. ASSUME NEW l \in Line PROVE KnownLine(l)'
  <2>1. CASE [line |-> l, delta |-> FALSE] \in mask
      BY <1>1, <2>1 DEF ModemInv, ToldRemembered, KnownLine, Shown
  <2>2. CASE [line |-> l, delta |-> FALSE] \notin mask
      BY <1>1, <2>2 DEF KnownLine
  <2> QED
      BY <2>1, <2>2
<1> QED
    BY <1>2, <1>3 DEF ModemInv, ToldRemembered, KnownLine

\* Every other step leaves what was told and remembered alone, or forgets all.
LEMMA ModemStepLemma == ModemInv /\ [ModemNext]_modemVars => ModemInv'
<1> SUFFICES ASSUME ModemInv, [ModemNext]_modemVars PROVE ModemInv'
    OBVIOUS
<1>1. CASE Poll
    BY <1>1, PollLemma
<1>2. CASE \E mask \in SUBSET Bit : SetModemStateMask(mask)
    BY <1>2, MaskLemma
<1>3. CASE Disconnect
    BY <1>3 DEF Disconnect, ModemInv, ToldType, ToldRemembered, Value
<1>4. CASE Connect
    BY <1>4 DEF Connect, ModemInv, ToldType, ToldRemembered, Shown
<1>5. ASSUME UNCHANGED <<told, ModemState, ModemStateMask, connected>> PROVE ModemInv'
    BY <1>5 DEF ModemInv, ToldType, ToldRemembered, Shown
<1>6. CASE \E break \in BOOLEAN : SetLineStateMask(break)
    BY <1>5, <1>6 DEF SetLineStateMask
<1>7. CASE \E on \in BOOLEAN : SetInputFlow(on)
    BY <1>5, <1>7 DEF SetInputFlow
<1>8. CASE \E l \in Line : LineChanges(l)
    BY <1>5, <1>8 DEF LineChanges
<1>9. CASE BufferFills \/ BufferDrains
    BY <1>5, <1>9 DEF BufferFills, BufferDrains
<1>10. CASE UNCHANGED modemVars
    BY <1>5, <1>10 DEF modemVars
<1> QED
    BY <1>1, <1>2, <1>3, <1>4, <1>6, <1>7, <1>8, <1>9, <1>10 DEF ModemNext

\* The inductive invariant holds in every behaviour: the type of what was told,
\* and the agreement of told with ModemState and the mask.
THEOREM ModemInvariance == ModemSpec => []ModemInv
  BY ModemInitLemma, ModemStepLemma, PTL DEF ModemSpec

\* What the client knows of a line is what sercd remembers of it, for every set
\* of lines and every sequence of masks, suspensions and connections (ModemState
\* and ModemStateMask).
THEOREM ToldIsRemembered == ModemSpec => []ToldRemembered
<1>1. ModemInv => ToldRemembered
    BY DEF ModemInv
<1> QED
    BY <1>1, ModemInvariance, PTL

\* Only a poll sends a notification.
LEMMA OnlyPollSends == ASSUME ModemNext, note'.sent PROVE Poll
<1>1. ~NoNote.sent
    BY DEF NoNote
<1>2. SUFFICES ASSUME ~Poll PROVE note' = NoNote
    BY <1>1
<1> QED
    BY <1>2 DEF ModemNext, SetModemStateMask, SetLineStateMask, SetInputFlow, Connect,
                Disconnect, LineChanges, BufferFills, BufferDrains

\* A delta bit of a line that the client knows says that its value is new to the
\* client (GetModemState).
LEMMA NewsLemma ==
    ASSUME ModemInv, ModemNext, note'.sent, NEW l \in ShownDelta, told[l] # "unknown"
    PROVE  l \in note'.deltas <=> told'[l] # told[l]
<1>1. Poll
    BY OnlyPollSends
<1>2. Changed(ModemState, line, Shown)
    BY <1>1 DEF Poll, NoNote
<1>3. /\ note' = [lines |-> line \cap Shown, sent |-> TRUE,
                  deltas |-> GetDeltas(ModemState, line) \cap ShownDelta]
      /\ told' = [k \in Line |-> IF k \notin Shown THEN "unknown"
                                 ELSE IF k \in line THEN "on" ELSE "off"]
    BY <1>1, <1>2 DEF Poll
<1>4. l \in Line
    BY DEF ShownDelta
<1>5. l \in Shown /\ told[l] \in {"on", "off"} /\ (told[l] = "on" <=> l \in ModemState)
    BY <1>4 DEF ModemInv, ToldType, ToldRemembered, Value
<1>6. told'[l] = IF l \in line THEN "on" ELSE "off"
    BY <1>3, <1>4, <1>5
<1>7. l \in note'.deltas <=> l \in GetDeltas(ModemState, line)
    BY <1>3
<1> QED
    BY <1>5, <1>6, <1>7 DEF GetDeltas

\* A notification reports a change of a line exactly if the value is new to the
\* client, for every set of lines (GetModemState and the masks).
THEOREM DeltasAreNews == ModemSpec => DeltaIsNews
<1>1. ModemInv /\ [ModemNext]_modemVars =>
          [note'.sent => \A l \in ShownDelta :
               told[l] # "unknown" => (l \in note'.deltas <=> told'[l] # told[l])]_modemVars
  <2> SUFFICES ASSUME ModemInv, ModemNext, note'.sent, NEW l \in ShownDelta, told[l] # "unknown"
               PROVE  l \in note'.deltas <=> told'[l] # told[l]
      OBVIOUS
  <2> QED
      BY NewsLemma
<1> QED
    BY <1>1, ModemInvariance, PTL DEF ModemSpec, DeltaIsNews

----------------------------------------------------------------------------
(* When to poll.                                                           *)

\* The bounds of the products of the arithmetic: K is a second and U a
\* millisecond in microseconds, the interval is q seconds and r milliseconds.
LEMMA Products ==
    ASSUME NEW K \in Nat, NEW U \in Nat \ {0}, NEW q \in Nat, NEW r \in Nat, NEW d \in Int
    PROVE  /\ r * U >= r /\ r * U \in Nat /\ q * K \in Nat /\ d * K \in Int
           /\ d = q => d * K = q * K
           /\ d < q => d * K + K <= q * K
<1>1. r * U >= r /\ r * U \in Nat
    OBVIOUS
<1>2. q * K \in Nat /\ d * K \in Int
    OBVIOUS
<1>3. ASSUME d < q PROVE d * K + K <= q * K
  <2>1. d + 1 <= q /\ d + 1 \in Int
      BY <1>3
  <2>2. (d + 1) * K <= q * K
      BY <2>1
  <2>3. (d + 1) * K = d * K + K
      OBVIOUS
  <2> QED
      BY <2>2, <2>3
<1> QED
    BY <1>1, <1>2, <1>3

\* The interval in milliseconds is its seconds and what is left of them.
LEMMA IntervalParts ==
    ASSUME NEW M \in Nat \ {0}, NEW U \in Nat \ {0}, NEW I \in Nat
    PROVE  /\ I \div M \in Nat /\ I % M \in Nat
           /\ I * U = (I \div M) * (M * U) + (I % M) * U
<1> DEFINE q == I \div M
           r == I % M
<1>1. q \in Nat /\ r \in Nat /\ I = M * q + r
    OBVIOUS
<1> HIDE DEF q, r
<1>2. (M * q + r) * U = q * (M * U) + r * U
    BY <1>1
<1>3. I * U = q * (M * U) + r * U
    BY <1>1, <1>2
<1> QED
    BY <1>1, <1>3 DEF q, r

\* More than the interval after last, last is before what SercdSelect
\* compares it with.
LEMMA LongEnough ==
    ASSUME NEW K \in Nat, NEW U \in Nat \ {0}, NEW q \in Nat, NEW r \in Nat,
           NEW s \in Nat, NEW u \in 0 .. K - 1, NEW s0 \in Nat, NEW u0 \in 0 .. K - 1,
           (s * K + u) - (s0 * K + u0) > q * K + r * U
    PROVE  s0 < s - q \/ (s0 = s - q /\ u0 < u - r)
<1> DEFINE d == s - s0
<1>1. d \in Int /\ d * K = s * K - s0 * K /\ s * K \in Nat /\ s0 * K \in Nat
    OBVIOUS
<1>2. d = s - s0
    OBVIOUS
<1> HIDE DEF d
<1>3. d * K + (u - u0) > q * K + r * U
    BY <1>1
<1>4. /\ r * U >= r /\ r * U \in Nat /\ q * K \in Nat /\ d * K \in Int
      /\ d = q => d * K = q * K
      /\ d < q => d * K + K <= q * K
    BY <1>1, Products
<1>5. ~(d < q)
    BY <1>3, <1>4
<1>6. CASE d = q
    BY <1>2, <1>3, <1>4, <1>6
<1>7. CASE d > q
    BY <1>1, <1>2, <1>7
<1> QED
    BY <1>1, <1>5, <1>6, <1>7

\* The poll interval is an argument of the program.
LEMMA IntervalLemma == ModemSpec => [](PollInterval \in Nat)
<1>1. ModemInit => PollInterval \in Nat
    BY ModemAssumption DEF ModemInit
<1>2. PollInterval \in Nat /\ [ModemNext]_modemVars => (PollInterval \in Nat)'
    BY DEF ModemNext, modemVars, Poll, SetModemStateMask, SetLineStateMask, SetInputFlow, Connect,
           Disconnect, LineChanges, BufferFills, BufferDrains
<1> QED
    BY <1>1, <1>2, PTL DEF ModemSpec

\* A poll is due once the interval has passed, for every interval, every clock
\* and every way the clock is set back (SercdSelect).
THEOREM PollsInTime == ModemSpec => []PollNotLate
<1>1. PollInterval \in Nat => PollNotLate
  <2> DEFINE Us(t) == t.sec * UsPerSec + t.usec
             passed(now, last) == IF Before(now, last) THEN Us(now) ELSE Us(now) - Us(last)
  <2> SUFFICES ASSUME PollInterval \in Nat, NEW now \in Time, NEW last \in Time,
                      passed(now, last) > PollInterval * UsPerMs
               PROVE  PollDue(now, last, PollInterval)
      BY DEF PollNotLate
  <2> DEFINE q == PollInterval \div MsPerSec
             r == PollInterval % MsPerSec
             zero == [sec |-> 0, usec |-> 0]
             from == IF Before(now, last) THEN zero ELSE last
  <2>1. MsPerSec \in Nat \ {0} /\ UsPerMs \in Nat \ {0} /\ MaxSec \in Nat
      BY ModemAssumption
  <2>2. UsPerSec \in Nat \ {0}
      BY <2>1 DEF UsPerSec
  <2>3. from \in Time
      BY <2>1, <2>2 DEF Time
  <2>4. passed(now, last) = Us(now) - Us(from)
    <3>1. Us(now) \in Int
        BY <2>2 DEF Time
    <3>2. Us(zero) = 0
        BY <2>2
    <3> QED
        BY <3>1, <3>2
  <2>5. q \in Nat /\ r \in Nat /\ PollInterval * UsPerMs = q * UsPerSec + r * UsPerMs
      BY <2>1, IntervalParts DEF UsPerSec
  <2> HIDE DEF q, r
  <2>6. /\ now.sec \in Nat /\ now.usec \in 0 .. UsPerSec - 1
        /\ from.sec \in Nat /\ from.usec \in 0 .. UsPerSec - 1
      BY <2>1, <2>3 DEF Time
  <2>7. Us(now) - Us(from) > q * UsPerSec + r * UsPerMs
      BY <2>4, <2>5
  <2> HIDE DEF from
  <2>8. \/ from.sec < now.sec - q
        \/ from.sec = now.sec - q /\ from.usec < now.usec - r
      BY <2>1, <2>2, <2>5, <2>6, <2>7, LongEnough
  <2>9. Before(from, [sec |-> now.sec - q, usec |-> now.usec - r])
      BY <2>8 DEF Before
  <2> QED
      BY <2>9 DEF PollDue, from, q, r
<1> QED
    BY <1>1, IntervalLemma, PTL
=============================================================================
