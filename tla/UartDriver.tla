----------------------------- MODULE UartDriver -----------------------------
(***************************************************************************)
(* The transmitter and the flow control of the S3C2510 serial driver: the  *)
(* port that sercd has open.                                               *)
(*                                                                         *)
(* One process has the port open (proc).  Interrupt handlers run between   *)
(* any two of its steps where the code has interrupts enabled; what it     *)
(* does under cli() is one step.  Received characters reach the line       *)
(* discipline in the timer task queue (bh), which the process cannot       *)
(* interrupt and an interrupt can; it does not run while a read is under   *)
(* way (TTY_DONT_FLIP).  A second opener, RTS/CTS, the console and the     *)
(* hang-up are left out.                                                   *)
(*                                                                         *)
(* soft is software flow control in both directions (IXON and IXOFF).      *)
(* Without it the line discipline takes XON and XOFF for data; it calls    *)
(* rs_flush_chars either way, since sercd sets BRKINT (real_raw is 0).     *)
(*                                                                         *)
(* The process changes the interrupt enables (ier |= ...) with interrupts  *)
(* on, in two steps: what a handler writes between the load and the store  *)
(* is undone.  The history variable flaws records that a step of the code  *)
(* went wrong that can, until the damage is made good:                     *)
(*   "race"   rs_flush_chars sent a byte that was not there any more;      *)
(*   "robbed" rs_flush_chars sent the byte a sleeping writer waited for;   *)
(*   "undone" change_speed disabled the transmitter that rs_start enabled; *)
(*   "flow"   an XON or XOFF was lost, overwritten or left behind.         *)
(***************************************************************************)
EXTENDS Integers, Sequences, FiniteSetsExt

CONSTANTS Byte,          \* the byte values
          Stale,         \* what xmit_buf holds where no byte waits to be sent
          XmitSize,      \* SERIAL_XMIT_SIZE
          WAKEUP_CHARS,
          FifoSize,      \* xmit_fifo_size
          Writes         \* what one write(2) may have to write

ASSUME UartAssumption ==
    /\ XmitSize \in Nat \ {0} /\ FifoSize \in Nat \ {0}
    /\ Writes \subseteq Seq(Byte)
    /\ WAKEUP_CHARS \in 1 .. XmitSize - 1
    /\ Stale \notin Byte

None == "none"
NothingLoaded == <<FALSE, FALSE>>

VARIABLES
    open,                                      \* S_INITIALIZED
    xmit_buf, xmit_head, xmit_tail, xmit_cnt,  \* the ring of bytes to send
    use_ints, THEIE, RXIE,                     \* the interrupts that are enabled
    stopped,                                   \* tty->stopped, by an XOFF
    soft,                                      \* the termios has IXON and IXOFF
    throttled,                                 \* TTY_THROTTLED: no room for input
    x_char,                                    \* the XON or XOFF to send
    event,                                     \* RS_EVENT_WRITE_WAKEUP is scheduled
    proc, todo,                                \* the process, what it has to write
    ier,                                       \* <<THEIE, RXIE>> as it is about to store them
    bh,                                        \* the task queue
    fifo, OER,                                 \* what has been received, an overrun
    told,                                      \* the peer may send
    flaws

ring == <<xmit_buf, xmit_head, xmit_tail, xmit_cnt>>
input == <<fifo, OER>>
flow == <<soft, throttled, told>>
vars == <<open, ring, use_ints, THEIE, RXIE, stopped, x_char, event, proc, todo,
          ier, bh, input, flow, flaws>>

\* The bytes accepted and not sent, oldest first.
Contents == [i \in 1 .. Max({0, xmit_cnt}) |-> xmit_buf[(xmit_tail + i - 1) % XmitSize]]

Stages == {"idle", "write", "kick", "tx_start", "speed", "speed_started", "rx_start",
           "asleep", "unthrottle", "closing"}

TypeOK ==
    /\ open \in BOOLEAN
    /\ xmit_buf \in [0 .. XmitSize - 1 -> Byte \cup {Stale}]
    /\ xmit_head \in 0 .. XmitSize - 1 /\ xmit_tail \in 0 .. XmitSize - 1
    /\ xmit_cnt \in -1 .. XmitSize - 1
    /\ use_ints \in BOOLEAN /\ THEIE \in BOOLEAN /\ RXIE \in BOOLEAN
    /\ stopped \in BOOLEAN /\ soft \in BOOLEAN /\ throttled \in BOOLEAN
    /\ x_char \in {None, "XON", "XOFF"}
    /\ event \in BOOLEAN /\ OER \in BOOLEAN
    /\ proc \in Stages
    /\ ier \in BOOLEAN \X BOOLEAN
    /\ todo \in Seq(Byte)
    /\ bh \in {"idle", "flush", "room"}
    /\ fifo \in {None, "XON", "XOFF", "data"}
    /\ told \in BOOLEAN
    /\ flaws \subseteq {"race", "robbed", "undone", "flow"}

Init ==
    /\ open = FALSE /\ use_ints = FALSE /\ THEIE = FALSE /\ RXIE = FALSE
    /\ xmit_buf = [i \in 0 .. XmitSize - 1 |-> Stale]
    /\ xmit_head = 0 /\ xmit_tail = 0 /\ xmit_cnt = 0
    /\ stopped = FALSE /\ soft = FALSE /\ throttled = FALSE
    /\ x_char = None /\ event = FALSE /\ proc = "idle" /\ todo = <<>>
    /\ ier = NothingLoaded /\ bh = "idle"
    /\ fifo = None /\ OER = FALSE
    /\ told = TRUE /\ flaws = {}

----------------------------------------------------------------------------
(* The parts of several operations.                                        *)

ProcessRuns(pc) == open /\ proc = pc /\ bh = "idle"

tx_start == THEIE' = (THEIE \/ use_ints)

EmptyRing ==
    /\ xmit_buf' = [i \in 0 .. XmitSize - 1 |-> Stale]
    /\ xmit_head' = 0 /\ xmit_tail' = 0 /\ xmit_cnt' = 0

\* The n bytes from xmit_tail on go to the transmitter.
Send(n) ==
    LET slot(i) == (xmit_tail + i) % XmitSize
    IN  /\ xmit_buf' = [k \in DOMAIN xmit_buf |->
                            IF k \in {slot(i) : i \in 0 .. n - 1} THEN Stale ELSE xmit_buf[k]]
        /\ xmit_tail' = slot(n)
        /\ xmit_cnt' = xmit_cnt - n
        /\ UNCHANGED xmit_head

\* What one turn of the copying loop of rs_write takes: no further than the end
\* of the ring, and one slot of it stays free.
MutFits == Min({Len(todo), XmitSize - xmit_cnt - 1})
Fits == Min({Len(todo), XmitSize - xmit_cnt - 1, XmitSize - xmit_head})

\* The peer may send, there is room, and nothing else is on the way to it.
PeerFree == told /\ ~throttled /\ x_char = None

FlawIf(condition, flaw) == IF condition THEN {flaw} ELSE {}

\* wake_up_interruptible(&tty->write_wait)
Woken == IF proc = "asleep" THEN "idle" ELSE proc

----------------------------------------------------------------------------
(* The process.                                                            *)

\* rs_open with startup and change_speed; when there is no page for xmit_buf
\* nothing changes.  An x_char of the last session is still there.
Open ==
    /\ ~open
    /\ open' = TRUE /\ use_ints' = TRUE /\ THEIE' = TRUE /\ RXIE' = TRUE
    /\ EmptyRing
    /\ flaws' = flaws \ {"race", "robbed", "undone"}
    /\ UNCHANGED <<stopped, x_char, event, proc, todo, ier, bh, input, flow>>

\* Bound: once the race has happened nothing is written before the ring is reset.
Write(s) ==
    /\ ProcessRuns("idle") /\ "race" \notin flaws
    /\ todo' = s /\ proc' = "write"
    /\ flaws' = flaws \ {"robbed"}
    /\ UNCHANGED <<open, ring, use_ints, THEIE, RXIE, stopped, x_char, event, ier, bh, input,
                   flow>>

WriteChunk ==
    /\ ProcessRuns("write") /\ Fits > 0
    /\ xmit_buf' = [k \in DOMAIN xmit_buf |->
                        IF k \in xmit_head .. xmit_head + Fits - 1
                        THEN todo[k - xmit_head + 1] ELSE xmit_buf[k]]
    /\ xmit_head' = (xmit_head + Fits) % XmitSize
    /\ xmit_cnt' = xmit_cnt + Fits
    /\ todo' = SubSeq(todo, Fits + 1, Len(todo))
    /\ UNCHANGED <<open, xmit_tail, use_ints, THEIE, RXIE, stopped, x_char, event, proc,
                   ier, bh, input, flow, flaws>>

\* What did not fit is left to the caller.
MutWriteTest ==
    /\ ProcessRuns("write") /\ Fits <= 0
    /\ todo' = <<>>
    /\ proc' = IF xmit_cnt > 1 /\ ~stopped THEN "kick" ELSE "idle"
    /\ UNCHANGED <<open, ring, use_ints, THEIE, RXIE, stopped, x_char, event, ier, bh, input,
                   flow, flaws>>
WriteTest ==
    /\ ProcessRuns("write") /\ Fits <= 0
    /\ todo' = <<>>
    /\ proc' = IF xmit_cnt # 0 /\ ~stopped THEN "kick" ELSE "idle"
    /\ UNCHANGED <<open, ring, use_ints, THEIE, RXIE, stopped, x_char, event, ier, bh, input,
                   flow, flaws>>

\* tx_start: the register is loaded and THEIE set,
WriteKick ==
    /\ ProcessRuns("kick")
    /\ ier' = <<TRUE, RXIE>> /\ proc' = "tx_start"
    /\ UNCHANGED <<open, ring, use_ints, THEIE, RXIE, stopped, x_char, event, todo, bh,
                   input, flow, flaws>>

\* and it is stored: what rs_stop or rs_start has done to RXIE is undone.
WriteStart ==
    /\ ProcessRuns("tx_start")
    /\ THEIE' = ier[1] /\ RXIE' = ier[2]
    /\ ier' = NothingLoaded /\ proc' = "idle"
    /\ flaws' = flaws \ {"undone"}
    /\ UNCHANGED <<open, ring, use_ints, stopped, x_char, event, todo, bh, input, flow>>

\* select(2), asked for a port that can be written to.
Sleep ==
    /\ ProcessRuns("idle") /\ xmit_cnt >= WAKEUP_CHARS
    /\ proc' = "asleep"
    /\ UNCHANGED <<open, ring, use_ints, THEIE, RXIE, stopped, x_char, event, todo, ier, bh,
                   input, flow, flaws>>

\* tcflush(TCOFLUSH)
rs_flush_buffer ==
    /\ ProcessRuns("idle")
    /\ EmptyRing
    /\ flaws' = flaws \ {"race", "robbed", "undone"}
    /\ UNCHANGED <<open, use_ints, THEIE, RXIE, stopped, x_char, event, proc, todo, ier, bh,
                   input, flow>>

\* tcsetattr: the flow control may be switched; change_speed, which begins by
\* stopping both directions, is called when c_cflag is another or with TCSANOW.
rs_set_termios(s) ==
    /\ ProcessRuns("idle")
    /\ \/ UNCHANGED <<THEIE, RXIE, proc>>
       \/ THEIE' = FALSE /\ RXIE' = FALSE /\ proc' = "speed"
    /\ soft' = s
    /\ flaws' = IF PeerFree THEN flaws \ {"flow"} ELSE flaws \cup FlawIf(s # soft, "flow")
    /\ UNCHANGED <<open, ring, use_ints, stopped, throttled, x_char, event, todo, ier,
                   bh, input, told>>

\* change_speed goes on with tx_start (what that writes to RXIE does not last),
change_speed ==
    /\ ProcessRuns("speed")
    /\ tx_start
    /\ proc' = "speed_started"
    /\ flaws' = flaws \ {"undone"}
    /\ UNCHANGED <<open, ring, use_ints, RXIE, stopped, x_char, event, todo, ier, bh,
                   input, flow>>

\* and rx_start, which twice loads the register and sets bits of it: RXIE is off
\* after the first load and on after the second.  Bound: at most one of the two is
\* interrupted before its store.
SpeedLoad ==
    /\ ProcessRuns("speed_started")
    /\ RXIE' \in {RXIE, TRUE}
    /\ ier' = <<THEIE, TRUE>> /\ proc' = "rx_start"
    /\ UNCHANGED <<open, ring, use_ints, THEIE, stopped, x_char, event, todo, bh,
                   input, flow, flaws>>

\* The store: an rs_start since the load has been in vain.
SpeedStore ==
    /\ ProcessRuns("rx_start")
    /\ THEIE' = ier[1] /\ RXIE' = ier[2]
    /\ ier' = NothingLoaded /\ proc' = "idle"
    /\ flaws' = flaws \cup FlawIf(THEIE /\ ~ier[1] /\ (xmit_cnt > 0 \/ x_char # None), "undone")
    /\ UNCHANGED <<open, ring, use_ints, stopped, x_char, event, todo, bh, input, flow>>

\* The input has been read.  What is in x_char is read here ...
MutUnthrottle ==
    /\ ProcessRuns("idle") /\ throttled
    /\ throttled' = FALSE
    /\ \/ soft /\ x_char # None /\ proc' = "unthrottle" /\ UNCHANGED x_char
       \/ soft /\ x_char = None /\ UNCHANGED <<x_char, proc>>
       \/ ~soft /\ UNCHANGED <<x_char, proc>>
    /\ UNCHANGED <<open, ring, use_ints, THEIE, RXIE, stopped, event, todo, ier, bh, input,
                   soft, told, flaws>>
rs_unthrottle ==
    /\ ProcessRuns("idle") /\ throttled
    /\ throttled' = FALSE
    /\ \/ soft /\ x_char # None /\ proc' = "unthrottle" /\ UNCHANGED x_char
       \/ soft /\ x_char = None /\ x_char' = "XON" /\ UNCHANGED proc
       \/ ~soft /\ UNCHANGED <<x_char, proc>>
    /\ UNCHANGED <<open, ring, use_ints, THEIE, RXIE, stopped, event, todo, ier, bh, input,
                   soft, told, flaws>>

\* ... and cleared here: an XOFF that an interrupt has sent in between is not
\* taken back.
UnthrottleClear ==
    /\ ProcessRuns("unthrottle")
    /\ x_char' = None /\ proc' = "idle"
    /\ flaws' = IF told THEN flaws \ {"flow"} ELSE flaws \cup {"flow"}
    /\ UNCHANGED <<open, ring, use_ints, THEIE, RXIE, stopped, event, todo, ier, bh, input,
                   soft, throttled, told>>

\* rs_close up to tty_wait_until_sent, with the interrupts masked.
Close ==
    /\ ProcessRuns("idle")
    /\ use_ints' = FALSE /\ proc' = "closing"
    /\ UNCHANGED <<open, ring, THEIE, RXIE, stopped, x_char, event, todo, ier, bh, input,
                   flow, flaws>>

\* The ring is empty, or closing_wait is over: shutdown, both flush_buffers (that
\* of the line discipline unthrottles), and the tty is gone.
CloseFinish ==
    /\ ProcessRuns("closing")
    /\ open' = FALSE /\ proc' = "idle" /\ THEIE' = FALSE /\ RXIE' = FALSE
    /\ EmptyRing
    /\ event' = FALSE /\ stopped' = FALSE
    /\ throttled' = FALSE
    /\ x_char' = IF throttled /\ soft THEN IF x_char = None THEN "XON" ELSE None
                 ELSE x_char
    /\ soft' = FALSE
    /\ flaws' = (flaws \ ({"race", "robbed", "undone"} \cup FlawIf(PeerFree, "flow"))) \cup
                    FlawIf(~soft /\ (x_char # None \/ ~told), "flow")
    /\ UNCHANGED <<use_ints, todo, ier, bh, fifo, OER, told>>

----------------------------------------------------------------------------
(* The interrupt handlers and the peer.                                    *)

\* Every n up to the size of the FIFO: it may be full before.
MutTxInterrupt ==
    /\ open /\ use_ints /\ THEIE
    /\ \/ /\ x_char # None
          /\ told' = (x_char = "XON") /\ x_char' = None
          /\ flaws' = flaws \ FlawIf(told' # throttled /\ (soft \/ told'), "flow")
          /\ UNCHANGED <<ring, THEIE, event>>
       \/ /\ x_char = None /\ (xmit_cnt <= 0 \/ stopped)
          /\ THEIE' = FALSE
          /\ UNCHANGED <<ring, event, x_char, told, flaws>>
       \/ /\ x_char = None /\ xmit_cnt > 0 /\ ~stopped
          /\ \E n \in 1 .. Min({xmit_cnt, FifoSize}) :
                /\ Send(n)
                /\ event' = (event \/ xmit_cnt - n > WAKEUP_CHARS)
                /\ THEIE' = (xmit_cnt - n > 0)
          /\ UNCHANGED <<x_char, told, flaws>>
    /\ UNCHANGED <<open, use_ints, RXIE, stopped, soft, throttled, proc, todo, ier, bh, input>>
rs_interrupt_Tx ==
    /\ open /\ use_ints /\ THEIE
    /\ \/ /\ x_char # None
          /\ told' = (x_char = "XON") /\ x_char' = None
          /\ flaws' = flaws \ FlawIf(told' # throttled /\ (soft \/ told'), "flow")
          /\ UNCHANGED <<ring, THEIE, event>>
       \/ /\ x_char = None /\ (xmit_cnt <= 0 \/ stopped)
          /\ THEIE' = FALSE
          /\ UNCHANGED <<ring, event, x_char, told, flaws>>
       \/ /\ x_char = None /\ xmit_cnt > 0 /\ ~stopped
          /\ \E n \in 1 .. Min({xmit_cnt, FifoSize}) :
                /\ Send(n)
                /\ event' = (event \/ xmit_cnt - n < WAKEUP_CHARS)
                /\ THEIE' = (xmit_cnt - n > 0)
          /\ UNCHANGED <<x_char, told, flaws>>
    /\ UNCHANGED <<open, use_ints, RXIE, stopped, soft, throttled, proc, todo, ier, bh, input>>

\* do_softint
do_softint ==
    /\ event /\ open
    /\ event' = FALSE /\ proc' = Woken
    /\ flaws' = flaws \ {"robbed"}
    /\ UNCHANGED <<open, ring, use_ints, THEIE, RXIE, stopped, x_char, todo, ier, bh, input,
                   flow>>

\* A character that finds the FIFO full is lost; while XON and XOFF mean nothing to
\* the line discipline, every character is data.  Unlike a character received, an
\* overrun interrupts even after rx_stop.  Bound: nothing comes after the race
\* before the ring is reset.
PeerSends(c) ==
    /\ soft \/ c = "data"
    /\ "race" \notin flaws
    /\ IF fifo = None THEN fifo' = c /\ UNCHANGED OER ELSE OER' = TRUE /\ UNCHANGED fifo
    /\ UNCHANGED <<open, ring, use_ints, THEIE, RXIE, stopped, x_char, event, proc, todo, ier,
                   bh, flow, flaws>>

----------------------------------------------------------------------------
(* The line discipline, in the timer task queue.                           *)

\* stop_tty with rs_stop, which also stops the receiver.
stop_tty ==
    /\ stopped' = TRUE
    /\ IF stopped THEN UNCHANGED <<THEIE, RXIE>> ELSE THEIE' = FALSE /\ RXIE' = FALSE
    /\ UNCHANGED proc

\* start_tty with rs_start.
start_tty ==
    /\ stopped' = FALSE
    /\ IF stopped THEN tx_start /\ RXIE' = (RXIE \/ use_ints) /\ proc' = Woken
                  ELSE UNCHANGED <<THEIE, RXIE, proc>>

\* rs_interrupt_Rx and n_tty_receive_buf, up to and with the test of rs_flush_chars.
Receive ==
    /\ open /\ use_ints /\ fifo # None /\ (RXIE \/ OER)
    /\ bh = "idle" /\ proc # "unthrottle"
    /\ fifo' = None /\ OER' = FALSE
    /\ \/ soft /\ fifo = "XOFF" /\ stop_tty
       \/ soft /\ fifo = "XON" /\ start_tty
       \/ (~soft \/ fifo = "data") /\ UNCHANGED <<stopped, THEIE, RXIE, proc>>
    /\ bh' = IF xmit_cnt > 0 /\ ~stopped' THEN "flush" ELSE "room"
    /\ flaws' = flaws \ FlawIf(THEIE', "undone")
    /\ UNCHANGED <<open, ring, use_ints, x_char, event, todo, ier, flow>>

\* rs_flush_chars: one byte, whether or not an interrupt has left one.
FlushSend ==
    /\ bh = "flush"
    /\ tx_start
    /\ Send(1)
    /\ flaws' = (flaws \ {"undone"}) \cup FlawIf(xmit_cnt <= 0, "race")
                     \cup FlawIf(xmit_cnt = 1 /\ proc = "asleep", "robbed")
    /\ bh' = "room"
    /\ UNCHANGED <<open, use_ints, RXIE, stopped, x_char, event, proc, todo, ier, input, flow>>

\* When the room for input is short: rs_throttle.  The transmitter is not started,
\* and an XON that waits in x_char is overwritten.  Bound: once the flow control
\* has gone wrong there is always room.
rs_throttle ==
    /\ bh = "room" /\ ~throttled /\ proc # "closing" /\ "flow" \notin flaws
    /\ bh' = "idle" /\ throttled' = TRUE
    /\ x_char' = IF soft THEN "XOFF" ELSE x_char
    /\ flaws' = flaws \cup FlawIf(soft /\ x_char = "XON", "flow")
    /\ UNCHANGED <<open, ring, use_ints, THEIE, RXIE, stopped, event, proc, todo, ier, input,
                   soft, told>>

ReceiveEnd ==
    /\ bh = "room"
    /\ bh' = "idle"
    /\ UNCHANGED <<open, ring, use_ints, THEIE, RXIE, stopped, x_char, event, proc, todo, ier,
                   input, flow, flaws>>

----------------------------------------------------------------------------
Process == \/ WriteChunk \/ WriteTest \/ WriteKick \/ WriteStart
           \/ change_speed \/ SpeedLoad \/ SpeedStore \/ UnthrottleClear \/ CloseFinish
TaskQueue == Receive \/ FlushSend \/ rs_throttle \/ ReceiveEnd

Next ==
    \/ Open \/ Process \/ Sleep \/ rs_flush_buffer \/ rs_unthrottle \/ Close
    \/ \E s \in Writes : Write(s)
    \/ \E s \in BOOLEAN : rs_set_termios(s)
    \/ rs_interrupt_Tx \/ do_softint
    \/ \E c \in {"XON", "XOFF", "data"} : PeerSends(c)
    \/ TaskQueue

\* Enabled interrupts are taken, bottom halves run after them, and a system call
\* under way goes on.  A process that calls tcsetattr over and over disables the
\* transmitter's interrupt each time and does not outrun it for ever; a peer that
\* sends without pause does not take all of the processor.  Nothing else is
\* promised about the peer, or about what the process calls next.
Fairness ==
    /\ SF_vars(rs_interrupt_Tx) /\ WF_vars(do_softint)
    /\ WF_vars(TaskQueue) /\ SF_vars(Process)

Spec == Init /\ [][Next]_vars /\ Fairness

----------------------------------------------------------------------------
(* Properties.                                                             *)

\* What is written to the port leaves it as a bounded queue promises: in order,
\* nothing twice and nothing left out, whatever interrupt comes between the copying
\* of rs_write, rs_flush_chars and the transmitter's own.  The exception is
\* rs_flush_chars, which tests xmit_cnt with interrupts enabled and sends after it:
\* when an interrupt has sent the last byte in between, it sends an old one and
\* xmit_cnt is -1, until the ring is next reset.
TxIsQueue ==
    [][\/ "race" \in flaws' \/ UNCHANGED Contents
       \/ EmptyRing
       \/ \E n \in 1 .. Len(Contents) : Contents' = SubSeq(Contents, n + 1, Len(Contents))
       \/ \E n \in 1 .. Len(todo) : /\ Contents' = Contents \o SubSeq(todo, 1, n)
                                    /\ todo' = SubSeq(todo, n + 1, Len(todo))]_vars

\* Whenever nothing is under way and there is a byte to send, the interrupt that
\* will send it is enabled: no order of rs_write's test and start, the handler's
\* stop, and the rs_stop and rs_start of a received XOFF and XON strands a byte.
\* The exception is an XON that arrives while change_speed is between the load and
\* the store of its rx_start: the bytes then wait for the next write.
NoStall ==
    /\ open /\ flaws \cap {"race", "undone"} = {}
    /\ proc \in {"idle", "asleep"} /\ bh = "idle"
    /\ xmit_cnt > 0 /\ ~stopped
    => THEIE

\* What the peer has been told, or what waits in x_char to be sent to it, agrees
\* with the room for input: a peer that is held has an XON coming, a full input
\* buffer has an XOFF sent or coming, and no XOFF is left over.  That is so except
\* after the three steps that flaws records: an interrupt sends the XOFF while
\* rs_unthrottle takes it back, rs_throttle overwrites an XON that was not sent, and
\* the flow control is switched or the port closed meanwhile.  It does not say that
\* the character is sent: rs_throttle and rs_unthrottle do not start the
\* transmitter, and with nothing to write it may stay in x_char for ever.
XonXoffCoherent ==
    "flow" \notin flaws =>
              /\ ~told => throttled \/ proc = "unthrottle" \/ x_char = "XON"
              /\ open /\ soft /\ throttled => ~told \/ x_char = "XOFF"
              /\ x_char = "XOFF" => throttled \/ proc = "unthrottle"

\* Once there is a byte to send as well, the peer is told: it does not go on
\* sending into a full buffer, nor wait after there is room again, unless the peer
\* has stopped the output, the port is being closed or one of the flaws has
\* happened.  The character goes out with the next interrupt of the transmitter.
PeerTold ==
    (open /\ soft /\ throttled = told /\ xmit_cnt > 0)
        ~> (throttled # told \/ ~soft \/ stopped \/ ~use_ints \/ flaws # {})

\* A process that waits in select for room in the ring is woken, unless the peer
\* has stopped the output or rs_flush_chars, which wakes nobody, has sent the last
\* byte: the handler then finds an empty ring and only stops the transmitter.  An
\* rs_start that change_speed has undone leaves it asleep as well.
WriterWoken ==
    proc = "asleep" ~>
        (proc # "asleep" \/ stopped \/ flaws \cap {"race", "robbed", "undone"} # {})

\* "They enable or disable transmitter interrupts, as necessary", says the comment
\* on rs_stop and rs_start; then the XON that follows an XOFF is received and the
\* output goes on.  It is not: rs_stop disables the receiver's interrupt as well.
XonHeard == (open /\ stopped /\ soft /\ fifo = "XON") ~> (~stopped \/ ~soft \/ ~open)
=============================================================================
