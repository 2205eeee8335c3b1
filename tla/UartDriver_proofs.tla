-------------------------- MODULE UartDriver_proofs --------------------------
(***************************************************************************)
(* Safety properties of the serial driver, for every size of the ring and  *)
(* of the FIFO: no byte is stranded, XON and XOFF keep step with the room  *)
(* for input, and the ring is a queue.                                     *)
(***************************************************************************)
EXTENDS UartDriver, SequenceTheorems, TLAPS

(***************************************************************************)
(* Types.                                                                  *)
(***************************************************************************)

\* rs_flush_chars has been called for a byte; an interrupt may have sent it since.
FlushCount == bh = "flush" => xmit_cnt >= 0

TypeInv == TypeOK /\ FlushCount

LEMMA MinOfTwo ==
    ASSUME NEW a \in Int, NEW b \in Int
    PROVE  Min({a, b}) \in {a, b} /\ Min({a, b}) <= a /\ Min({a, b}) <= b
<1>1. \E x \in {a, b} : \A y \in {a, b} : x <= y
  <2>1. CASE a <= b
      BY <2>1
  <2>2. CASE ~(a <= b)
      BY <2>2
  <2> QED
      BY <2>1, <2>2
<1> QED
    BY <1>1 DEF Min

LEMMA MinOfThree ==
    ASSUME NEW a \in Int, NEW b \in Int, NEW c \in Int
    PROVE  LET m == Min({a, b, c})
           IN  m \in {a, b, c} /\ m <= a /\ m <= b /\ m <= c
<1>1. \E x \in {a, b, c} : \A y \in {a, b, c} : x <= y
  <2>1. CASE a <= b /\ a <= c
      BY <2>1
  <2>2. CASE b <= a /\ b <= c
      BY <2>2
  <2>3. CASE c <= a /\ c <= b
      BY <2>3
  <2> QED
      BY <2>1, <2>2, <2>3
<1> QED
    BY <1>1 DEF Min

\* The bytes that one turn of rs_write takes are there, fit, and do not wrap.
LEMMA FitsBounds ==
    ASSUME TypeOK
    PROVE  /\ Fits \in Int
           /\ Fits <= Len(todo)
           /\ Fits <= XmitSize - xmit_cnt - 1
           /\ Fits <= XmitSize - xmit_head
<1>1. Len(todo) \in Int /\ XmitSize - xmit_cnt - 1 \in Int /\ XmitSize - xmit_head \in Int
    BY UartAssumption DEF TypeOK
<1> QED
    BY <1>1, MinOfThree DEF Fits

LEMMA SendType ==
    ASSUME TypeOK, NEW n \in Nat, Send(n)
    PROVE  /\ xmit_buf' \in [0 .. XmitSize - 1 -> Byte \cup {Stale}]
           /\ xmit_tail' \in 0 .. XmitSize - 1
           /\ xmit_cnt' = xmit_cnt - n
           /\ xmit_head' = xmit_head
<1>1. (xmit_tail + n) % XmitSize \in 0 .. XmitSize - 1
    BY UartAssumption DEF TypeOK
<1>2. xmit_buf' \in [0 .. XmitSize - 1 -> Byte \cup {Stale}]
    BY DEF TypeOK, Send
<1> QED
    BY <1>1, <1>2 DEF Send

LEMMA EmptyRingType ==
    ASSUME EmptyRing
    PROVE  /\ xmit_buf' \in [0 .. XmitSize - 1 -> Byte \cup {Stale}]
           /\ xmit_head' \in 0 .. XmitSize - 1 /\ xmit_tail' \in 0 .. XmitSize - 1
           /\ xmit_cnt' = 0 /\ xmit_cnt' \in -1 .. XmitSize - 1
    BY UartAssumption DEF EmptyRing

\* The types of what is not part of the ring or of a write under way.
ControlType ==
    /\ open \in BOOLEAN
    /\ use_ints \in BOOLEAN /\ THEIE \in BOOLEAN /\ RXIE \in BOOLEAN
    /\ stopped \in BOOLEAN /\ soft \in BOOLEAN /\ throttled \in BOOLEAN
    /\ x_char \in {None, "XON", "XOFF"}
    /\ event \in BOOLEAN /\ OER \in BOOLEAN
    /\ proc \in Stages
    /\ ier \in BOOLEAN \X BOOLEAN
    /\ bh \in {"idle", "flush", "room"}
    /\ fifo \in {None, "XON", "XOFF", "data"}
    /\ told \in BOOLEAN
    /\ flaws \subseteq {"race", "robbed", "undone", "flow"}

LEMMA SameRing ==
    ASSUME TypeInv, ControlType', UNCHANGED <<ring, todo>>,
           bh' = "flush" => bh = "flush" \/ xmit_cnt > 0
    PROVE  TypeInv'
<1>1. UNCHANGED <<xmit_buf, xmit_head, xmit_tail, xmit_cnt, todo>>
    BY DEF ring
<1>2. TypeOK'
    BY <1>1 DEF TypeInv, TypeOK, ControlType
<1>3. FlushCount'
    BY <1>1 DEF TypeInv, TypeOK, FlushCount
<1> QED
    BY <1>2, <1>3 DEF TypeInv

LEMMA TypeInit == Init => TypeInv
<1> SUFFICES ASSUME Init PROVE TypeInv
    OBVIOUS
<1>1. todo \in Seq(Byte)
    BY DEF Init
<1>2. xmit_cnt \in -1 .. XmitSize - 1 /\ xmit_head \in 0 .. XmitSize - 1
      /\ xmit_tail \in 0 .. XmitSize - 1
    BY UartAssumption DEF Init
<1> QED
    BY <1>1, <1>2 DEF Init, TypeInv, TypeOK, FlushCount, None, Stages, NothingLoaded

LEMMA TypeWriteChunk == ASSUME TypeInv, WriteChunk PROVE TypeInv'
<1> USE DEF TypeInv
<1>1. Fits \in Nat /\ Fits > 0 /\ Fits <= Len(todo)
      /\ Fits <= XmitSize - xmit_cnt - 1 /\ Fits <= XmitSize - xmit_head
    BY FitsBounds DEF WriteChunk
<1>2. xmit_buf' \in [0 .. XmitSize - 1 -> Byte \cup {Stale}]
  <2>1. ASSUME NEW k \in 0 .. XmitSize - 1, k \in xmit_head .. xmit_head + Fits - 1
        PROVE  todo[k - xmit_head + 1] \in Byte
    <3>1. k - xmit_head + 1 \in 1 .. Len(todo)
        BY <1>1, <2>1 DEF TypeOK
    <3> QED
        BY <3>1 DEF TypeOK
  <2> QED
      BY <2>1 DEF TypeOK, WriteChunk
<1>3. xmit_head' \in 0 .. XmitSize - 1
    BY <1>1, UartAssumption DEF TypeOK, WriteChunk
<1>4. xmit_cnt' \in -1 .. XmitSize - 1
    BY <1>1, UartAssumption DEF TypeOK, WriteChunk
<1>5. todo' \in Seq(Byte)
    BY <1>1 DEF TypeOK, WriteChunk
<1> QED
    BY <1>2, <1>3, <1>4, <1>5 DEF TypeOK, FlushCount, WriteChunk, ProcessRuns, input, flow

LEMMA TypeProcess == ASSUME TypeInv, Process \/ Sleep \/ Close \/ rs_flush_buffer PROVE TypeInv'
<1>0. ControlType
    BY DEF TypeInv, TypeOK, ControlType
<1> USE DEF ProcessRuns, input, flow, Stages
<1>1. CASE WriteTest
  <2>1. todo' \in Seq(Byte)
      BY <1>1 DEF WriteTest
  <2> QED
      BY <1>1, <2>1 DEF WriteTest, TypeInv, TypeOK, FlushCount, ring
<1>2. CASE WriteKick
  <2>0. /\ ier' \in BOOLEAN \X BOOLEAN /\ proc' \in Stages
        /\ UNCHANGED <<open, use_ints, THEIE, RXIE, stopped, x_char, event, bh, fifo, OER, soft,
                       throttled, told, flaws>>
      BY <1>0, <1>2 DEF WriteKick, ControlType
  <2>1. ControlType'
      BY <1>0, <2>0 DEF ControlType
  <2> QED
      BY <1>2, <2>1, SameRing DEF WriteKick
<1>3. CASE UnthrottleClear
  <2>1. ControlType'
      BY <1>0, <1>3 DEF UnthrottleClear, FlawIf, ControlType
  <2> QED
      BY <1>3, <2>1, SameRing DEF UnthrottleClear
<1>4. CASE CloseFinish
    BY <1>4, EmptyRingType DEF CloseFinish, FlawIf, None, TypeInv, TypeOK, FlushCount
<1>5. CASE Sleep
  <2>1. ControlType'
      BY <1>0, <1>5 DEF Sleep, ControlType
  <2> QED
      BY <1>5, <2>1, SameRing DEF Sleep
<1>6. CASE Close
  <2>1. ControlType'
      BY <1>0, <1>6 DEF Close, ControlType
  <2> QED
      BY <1>6, <2>1, SameRing DEF Close
<1>7. CASE rs_flush_buffer
    BY <1>7, EmptyRingType DEF rs_flush_buffer, TypeInv, TypeOK, FlushCount
<1>8. CASE WriteStart
  <2>1. ControlType'
      BY <1>0, <1>8 DEF WriteStart, NothingLoaded, ControlType
  <2> QED
      BY <1>8, <2>1, SameRing DEF WriteStart
<1>9. CASE change_speed
  <2>1. ControlType'
      BY <1>0, <1>9 DEF change_speed, tx_start, ControlType
  <2> QED
      BY <1>9, <2>1, SameRing DEF change_speed
<1>10. CASE SpeedLoad
  <2>0. /\ ier' \in BOOLEAN \X BOOLEAN /\ proc' \in Stages /\ RXIE' \in BOOLEAN
        /\ UNCHANGED <<open, use_ints, THEIE, stopped, x_char, event, bh, fifo, OER, soft,
                       throttled, told, flaws>>
      BY <1>0, <1>10 DEF SpeedLoad, ControlType
  <2>1. ControlType'
      BY <1>0, <2>0 DEF ControlType
  <2> QED
      BY <1>10, <2>1, SameRing DEF SpeedLoad
<1>11. CASE SpeedStore
  <2>1. ControlType'
      BY <1>0, <1>11 DEF SpeedStore, FlawIf, NothingLoaded, ControlType
  <2> QED
      BY <1>11, <2>1, SameRing DEF SpeedStore
<1> QED
    BY <1>1, <1>2, <1>3, <1>4, <1>5, <1>6, <1>7, <1>8, <1>9, <1>10, <1>11, TypeWriteChunk
    DEF Process

LEMMA TypeInterrupts == ASSUME TypeInv, rs_interrupt_Tx \/ do_softint PROVE TypeInv'
<1>0. ControlType
    BY DEF TypeInv, TypeOK, ControlType
<1>1. CASE rs_interrupt_Tx
  <2>0. /\ UNCHANGED <<open, use_ints, RXIE, stopped, soft, throttled, proc, todo, ier, bh,
                       fifo, OER>>
        /\ flaws' \subseteq flaws
      BY <1>1 DEF rs_interrupt_Tx, input
  <2>1. CASE told' = (x_char = "XON") /\ x_char' = None /\ UNCHANGED <<ring, THEIE, event>>
    <3>1. ControlType'
        BY <1>0, <2>0, <2>1 DEF ControlType
    <3> QED
        BY <2>0, <2>1, <3>1, SameRing
  <2>2. CASE THEIE' = FALSE /\ UNCHANGED <<ring, event, x_char, told>>
    <3>0. THEIE' \in BOOLEAN /\ UNCHANGED <<event, x_char, told>>
        BY <2>2
    <3>1. ControlType'
        BY <1>0, <2>0, <3>0 DEF ControlType
    <3> QED
        BY <2>0, <2>2, <3>1, SameRing
  <2>3. ASSUME NEW n \in 1 .. Min({xmit_cnt, FifoSize}), Send(n), xmit_cnt > 0,
               UNCHANGED <<x_char, told>>,
               event' = (event \/ xmit_cnt - n < WAKEUP_CHARS), THEIE' = (xmit_cnt - n > 0)
        PROVE  TypeInv'
    <3>1. xmit_cnt \in Int /\ FifoSize \in Int
        BY UartAssumption DEF TypeInv, TypeOK
    <3>2. Min({xmit_cnt, FifoSize}) \in Int /\ Min({xmit_cnt, FifoSize}) <= xmit_cnt
        BY <3>1, MinOfTwo
    <3>3. n \in Nat /\ n <= xmit_cnt
        BY <3>1, <3>2
    <3>4. xmit_cnt' \in -1 .. XmitSize - 1 /\ xmit_cnt' >= 0
        BY <2>3, <3>3, SendType, UartAssumption DEF TypeInv, TypeOK
    <3>5. event' \in BOOLEAN /\ THEIE' \in BOOLEAN
        BY <2>3
    <3> QED
        BY <2>0, <2>3, <3>3, <3>4, <3>5, SendType DEF TypeInv, TypeOK, FlushCount
  <2> QED
      BY <1>1, <2>1, <2>2, <2>3 DEF rs_interrupt_Tx
<1>2. CASE do_softint
  <2>1. ControlType'
      BY <1>0, <1>2, ZenonT(30) DEF do_softint, Woken, ControlType, Stages, input, flow
  <2> QED
      BY <1>2, <2>1, SameRing DEF do_softint
<1> QED
    BY <1>1, <1>2

LEMMA TypeTaskQueue == ASSUME TypeInv, TaskQueue PROVE TypeInv'
<1>0. ControlType
    BY DEF TypeInv, TypeOK, ControlType
<1>1. CASE Receive
  <2>1. /\ stopped' \in BOOLEAN /\ THEIE' \in BOOLEAN /\ RXIE' \in BOOLEAN
        /\ proc' \in Stages
      BY <1>0, <1>1 DEF Receive, stop_tty, start_tty, tx_start, Woken, ControlType, Stages
  <2>2. bh' \in {"flush", "room"} /\ (bh' = "flush" => xmit_cnt > 0)
      BY <1>1 DEF Receive
  <2>3. ControlType'
      BY <1>0, <1>1, <2>1, <2>2 DEF Receive, ControlType, flow
  <2> QED
      BY <1>1, <2>2, <2>3, SameRing DEF Receive
<1>2. CASE FlushSend
  <2>1. xmit_cnt' \in -1 .. XmitSize - 1
      BY <1>2, SendType, UartAssumption DEF FlushSend, TypeInv, TypeOK, FlushCount
  <2> QED
      BY <1>2, <2>1, SendType
      DEF FlushSend, tx_start, FlawIf, TypeInv, TypeOK, FlushCount, input, flow
<1>3. CASE rs_throttle
  <2>1. ControlType'
      BY <1>0, <1>3 DEF rs_throttle, FlawIf, ControlType, input
  <2> QED
      BY <1>3, <2>1, SameRing DEF rs_throttle
<1>4. CASE ReceiveEnd
  <2>1. ControlType'
      BY <1>0, <1>4 DEF ReceiveEnd, ControlType, input, flow
  <2> QED
      BY <1>4, <2>1, SameRing DEF ReceiveEnd
<1> QED
    BY <1>1, <1>2, <1>3, <1>4 DEF TaskQueue

LEMMA TypeStep == TypeInv /\ [Next]_vars => TypeInv'
<1> SUFFICES ASSUME TypeInv, [Next]_vars PROVE TypeInv'
    OBVIOUS
<1>0. ControlType
    BY DEF TypeInv, TypeOK, ControlType
<1>1. CASE Open
    BY <1>1, EmptyRingType DEF Open, TypeInv, TypeOK, FlushCount, input, flow
<1>2. CASE Process \/ Sleep \/ Close \/ rs_flush_buffer
    BY <1>2, TypeProcess
<1>3. CASE rs_unthrottle
  <2>1. ControlType'
      BY <1>0, <1>3 DEF rs_unthrottle, ProcessRuns, ControlType, Stages, input
  <2> QED
      BY <1>3, <2>1, SameRing DEF rs_unthrottle
<1>4. ASSUME NEW s \in Writes, Write(s) PROVE TypeInv'
  <2>1. s \in Seq(Byte)
      BY UartAssumption
  <2> QED
      BY <1>4, <2>1 DEF Write, ProcessRuns, TypeInv, TypeOK, FlushCount, Stages, ring, input, flow
<1>5. ASSUME NEW s \in BOOLEAN, rs_set_termios(s) PROVE TypeInv'
  <2>0. /\ proc' \in Stages /\ THEIE' \in BOOLEAN /\ RXIE' \in BOOLEAN /\ soft' \in BOOLEAN
        /\ flaws' \subseteq {"race", "robbed", "undone", "flow"}
        /\ UNCHANGED <<open, use_ints, stopped, x_char, event, ier, bh, fifo, OER, throttled,
                       told>>
      BY <1>0, <1>5 DEF rs_set_termios, FlawIf, ControlType, Stages, input
  <2>1. ControlType'
      BY <1>0, <2>0 DEF ControlType
  <2> QED
      BY <1>5, <2>1, SameRing DEF rs_set_termios
<1>6. CASE rs_interrupt_Tx \/ do_softint
    BY <1>6, TypeInterrupts
<1>7. ASSUME NEW c \in {"XON", "XOFF", "data"}, PeerSends(c) PROVE TypeInv'
  <2>0. /\ fifo' \in {None, "XON", "XOFF", "data"} /\ OER' \in BOOLEAN
        /\ UNCHANGED <<open, use_ints, THEIE, RXIE, stopped, x_char, event, proc, ier, bh,
                       soft, throttled, told, flaws>>
      BY <1>0, <1>7 DEF PeerSends, ControlType, flow
  <2>1. ControlType'
      BY <1>0, <2>0 DEF ControlType
  <2> QED
      BY <1>7, <2>1, SameRing DEF PeerSends
<1>8. CASE TaskQueue
    BY <1>8, TypeTaskQueue
<1>9. CASE UNCHANGED vars
    BY <1>9 DEF vars, TypeInv, TypeOK, FlushCount, ring, input, flow
<1> QED
    BY <1>1, <1>2, <1>3, <1>4, <1>5, <1>6, <1>7, <1>8, <1>9 DEF Next

\* The positions stay in the ring and its count below its size, whatever interrupts
\* come between the steps of rs_write and rs_flush_chars; the race of rs_flush_chars
\* takes the count to -1 and no further.
THEOREM TypeCorrect == Spec => []TypeOK
<1>1. TypeInv => TypeOK
    BY DEF TypeInv
<1> QED
    BY <1>1, TypeInit, TypeStep, PTL DEF Spec

(***************************************************************************)
(* No byte is stranded.                                                    *)
(***************************************************************************)

\* The interrupts are in use from Open to Close.
InterruptsInUse == open /\ proc # "closing" => use_ints

\* Only while rs_write, Close or the first half of change_speed is under way may a
\* byte wait with the transmitter's interrupt disabled, or after change_speed has
\* disabled it once more.
Armed ==
    /\ open /\ "undone" \notin flaws
    /\ proc \in {"idle", "asleep", "unthrottle", "speed_started", "rx_start"}
    /\ xmit_cnt > 0 /\ ~stopped
    => THEIE

\* What tx_start is about to store enables it.
StartLoaded == proc = "tx_start" => ier[1]

SendInv == InterruptsInUse /\ Armed /\ StartLoaded

LEMMA SendInit == Init => SendInv
  BY DEF Init, SendInv, InterruptsInUse, Armed, StartLoaded

LEMMA SendProcess ==
    ASSUME TypeOK, SendInv, Process \/ Sleep \/ Close \/ rs_flush_buffer PROVE SendInv'
<1> USE DEF SendInv, InterruptsInUse, Armed, StartLoaded
<1>1. CASE WriteChunk
    BY <1>1 DEF WriteChunk, ProcessRuns
<1>2. CASE WriteTest
    BY <1>2 DEF WriteTest, ProcessRuns, ring
<1>3. CASE WriteKick
    BY <1>3 DEF WriteKick, ProcessRuns, ring
<1>4. CASE UnthrottleClear
    BY <1>4 DEF UnthrottleClear, ProcessRuns, ring
<1>5. CASE CloseFinish
    BY <1>5 DEF CloseFinish
<1>6. CASE Sleep
    BY <1>6 DEF Sleep, ProcessRuns, ring
<1>7. CASE Close
    BY <1>7 DEF Close, ring
<1>8. CASE rs_flush_buffer
    BY <1>8 DEF rs_flush_buffer, EmptyRing, ProcessRuns
<1>9. CASE WriteStart
    BY <1>9 DEF WriteStart, ProcessRuns, ring
<1>10. CASE change_speed
    BY <1>10 DEF change_speed, ProcessRuns, tx_start, ring
<1>11. CASE SpeedLoad
    BY <1>11 DEF SpeedLoad, ProcessRuns, ring
<1>12. CASE SpeedStore
    BY <1>12 DEF SpeedStore, ProcessRuns, FlawIf, ring, TypeOK
<1> QED
    BY <1>1, <1>2, <1>3, <1>4, <1>5, <1>6, <1>7, <1>8, <1>9, <1>10, <1>11, <1>12 DEF Process

LEMMA SendInterrupts ==
    ASSUME TypeOK, SendInv, rs_interrupt_Tx \/ do_softint PROVE SendInv'
<1> USE DEF SendInv, InterruptsInUse, Armed, StartLoaded
<1>1. CASE rs_interrupt_Tx
  <2>1. UNCHANGED <<open, use_ints, stopped, proc, ier>>
        /\ ("undone" \in flaws => "undone" \in flaws')
      BY <1>1 DEF rs_interrupt_Tx, FlawIf
  <2>2. \/ xmit_cnt' = xmit_cnt /\ THEIE' = THEIE
        \/ (xmit_cnt <= 0 \/ stopped) /\ xmit_cnt' = xmit_cnt
        \/ \E n \in 1 .. Min({xmit_cnt, FifoSize}) :
               xmit_cnt' = xmit_cnt - n /\ THEIE' = (xmit_cnt - n > 0)
      BY <1>1 DEF rs_interrupt_Tx, Send, ring
  <2>3. CASE xmit_cnt' = xmit_cnt /\ THEIE' = THEIE
      BY <2>1, <2>3
  <2>4. CASE stopped
      BY <2>1, <2>4
  <2>5. CASE xmit_cnt <= 0 /\ xmit_cnt' = xmit_cnt
      BY <2>1, <2>5 DEF TypeOK
  <2>6. CASE \E n \in 1 .. Min({xmit_cnt, FifoSize}) :
                 xmit_cnt' = xmit_cnt - n /\ THEIE' = (xmit_cnt - n > 0)
      BY <2>1, <2>6
  <2> QED
      BY <2>2, <2>3, <2>4, <2>5, <2>6
<1>2. CASE do_softint
    BY <1>2 DEF do_softint, Woken, ring
<1> QED
    BY <1>1, <1>2

LEMMA SendTaskQueue == ASSUME TypeOK, SendInv, TaskQueue PROVE SendInv'
<1> USE DEF SendInv, InterruptsInUse, Armed, StartLoaded
<1>1. CASE Receive
    BY <1>1 DEF Receive, stop_tty, start_tty, tx_start, Woken, FlawIf, ring, TypeOK
<1>2. CASE FlushSend
    BY <1>2 DEF FlushSend, tx_start
<1>3. CASE rs_throttle \/ ReceiveEnd
    BY <1>3 DEF rs_throttle, ReceiveEnd, ring
<1> QED
    BY <1>1, <1>2, <1>3 DEF TaskQueue

LEMMA SendStep == TypeOK /\ SendInv /\ [Next]_vars => SendInv'
<1> SUFFICES ASSUME TypeOK, SendInv, [Next]_vars PROVE SendInv'
    OBVIOUS
<1> USE DEF SendInv, InterruptsInUse, Armed, StartLoaded
<1>1. CASE Open
    BY <1>1 DEF Open
<1>2. CASE Process \/ Sleep \/ Close \/ rs_flush_buffer
    BY <1>2, SendProcess
<1>3. CASE rs_unthrottle
    BY <1>3 DEF rs_unthrottle, ProcessRuns, ring
<1>4. ASSUME NEW s, Write(s) PROVE SendInv'
    BY <1>4 DEF Write, ProcessRuns, ring
<1>5. ASSUME NEW s, rs_set_termios(s) PROVE SendInv'
    BY <1>5 DEF rs_set_termios, ProcessRuns, ring
<1>6. CASE rs_interrupt_Tx \/ do_softint
    BY <1>6, SendInterrupts
<1>7. ASSUME NEW c, PeerSends(c) PROVE SendInv'
    BY <1>7 DEF PeerSends, ring
<1>8. CASE TaskQueue
    BY <1>8, SendTaskQueue
<1>9. CASE UNCHANGED vars
    BY <1>9 DEF vars, ring
<1> QED
    BY <1>1, <1>2, <1>3, <1>4, <1>5, <1>6, <1>7, <1>8, <1>9 DEF Next

\* A byte that waits while nothing is under way is sent by an enabled interrupt,
\* for every size of the ring and of the FIFO (rs_write, rs_interrupt_Tx, rs_stop
\* and rs_start), unless an rs_start has been undone by change_speed.
THEOREM NothingStalls == Spec => []NoStall
<1>1. SendInv => NoStall
    BY DEF SendInv, Armed, NoStall
<1> QED
    BY <1>1, SendInit, SendStep, TypeCorrect, PTL DEF Spec

(***************************************************************************)
(* XON and XOFF.                                                           *)
(***************************************************************************)

\* While rs_unthrottle is between its two steps the task queue waits.
UnthrottleAlone == proc = "unthrottle" => open /\ soft /\ bh = "idle" /\ ~throttled

\* A port that is closed is not throttled, and nothing is on its way to it.
ClosedQuiet == ~open => ~throttled /\ bh = "idle"

\* An XOFF waits only for a peer that may send, and never together with a need
\* for an XON; without flow control there is at most an XON of the last session.
XcharInv ==
    /\ x_char = "XOFF" => told
    /\ x_char = "XON" => ~(soft /\ throttled) /\ proc # "unthrottle"
    /\ ~soft => x_char # "XOFF" /\ (~told => x_char = "XON")

FlowInv ==
    /\ UnthrottleAlone
    /\ ClosedQuiet
    /\ XonXoffCoherent
    /\ "flow" \notin flaws => XcharInv

LEMMA FlowInit == Init => FlowInv
  BY DEF Init, FlowInv, UnthrottleAlone, ClosedQuiet, XonXoffCoherent, XcharInv, None

\* What the other steps do to the process does not concern the flow control.
LEMMA FlowSame ==
    ASSUME FlowInv, UNCHANGED <<soft, throttled, told, x_char>>,
           "flow" \in flaws => "flow" \in flaws',
           \/ UNCHANGED <<proc, open, bh>>
           \/ proc # "unthrottle" /\ proc' # "unthrottle" /\ open /\ open'
    PROVE  FlowInv'
  BY DEF FlowInv, UnthrottleAlone, ClosedQuiet, XonXoffCoherent, XcharInv


\* The steps that send, take back or announce.
LEMMA FlowSteps ==
    ASSUME TypeOK, FlowInv,
           rs_unthrottle \/ UnthrottleClear \/ rs_throttle \/ CloseFinish \/ rs_interrupt_Tx
    PROVE  FlowInv'
<1> USE DEF FlowInv, UnthrottleAlone, ClosedQuiet, XonXoffCoherent, XcharInv, PeerFree, FlawIf,
            None
<1>0. x_char \in {None, "XON", "XOFF"} /\ told \in BOOLEAN
    BY DEF TypeOK
<1>1. CASE rs_unthrottle
    BY <1>0, <1>1 DEF rs_unthrottle, ProcessRuns
<1>2. CASE UnthrottleClear
    BY <1>0, <1>2 DEF UnthrottleClear, ProcessRuns
<1>3. CASE rs_throttle
    BY <1>0, <1>3 DEF rs_throttle
<1>4. CASE CloseFinish
    BY <1>0, <1>4 DEF CloseFinish, ProcessRuns
<1>5. CASE rs_interrupt_Tx
  <2>1. UNCHANGED <<open, soft, throttled, proc, bh>> /\ throttled \in BOOLEAN
      BY <1>5 DEF rs_interrupt_Tx, TypeOK
  <2>2. \/ /\ x_char # None /\ told' = (x_char = "XON") /\ x_char' = None
           /\ "flow" \in flaws' \/ "flow" \notin flaws
                  \/ (told' # throttled /\ (soft \/ told'))
        \/ UNCHANGED <<x_char, told, flaws>>
      BY <1>5 DEF rs_interrupt_Tx
  <2>3. CASE /\ x_char = "XON" /\ told' = TRUE /\ x_char' = None
             /\ "flow" \in flaws' \/ "flow" \notin flaws
                  \/ (told' # throttled /\ (soft \/ told'))
      BY <2>1, <2>3
  <2>4. CASE /\ x_char = "XOFF" /\ told' = FALSE /\ x_char' = None
             /\ "flow" \in flaws' \/ "flow" \notin flaws
                  \/ (told' # throttled /\ (soft \/ told'))
      BY <2>1, <2>4
  <2>5. CASE UNCHANGED <<x_char, told, flaws>>
      BY <2>1, <2>5
  <2> QED
      BY <1>0, <2>2, <2>3, <2>4, <2>5
<1> QED
    BY <1>1, <1>2, <1>3, <1>4, <1>5

LEMMA FlowStep == TypeOK /\ FlowInv /\ [Next]_vars => FlowInv'
<1> SUFFICES ASSUME TypeOK, FlowInv, [Next]_vars PROVE FlowInv'
    OBVIOUS
<1>1. CASE rs_unthrottle \/ UnthrottleClear \/ rs_throttle \/ CloseFinish \/ rs_interrupt_Tx
    BY <1>1, FlowSteps
<1>2. CASE WriteChunk \/ WriteTest \/ WriteKick \/ WriteStart \/ Sleep \/ rs_flush_buffer
           \/ Close
  <2>1. /\ UNCHANGED <<soft, throttled, told, x_char, open>> /\ open
        /\ proc # "unthrottle" /\ proc' # "unthrottle"
      BY <1>2 DEF WriteChunk, WriteTest, WriteKick, WriteStart, Sleep, rs_flush_buffer, Close,
                  ProcessRuns, flow
  <2>2. "flow" \in flaws => "flow" \in flaws'
      BY <1>2 DEF WriteChunk, WriteTest, WriteKick, WriteStart, Sleep, rs_flush_buffer, Close
  <2> QED
      BY <2>1, <2>2, FlowSame
<1>11. CASE change_speed \/ SpeedLoad \/ SpeedStore
  <2>1. /\ UNCHANGED <<soft, throttled, told, x_char, open>> /\ open
        /\ proc # "unthrottle" /\ proc' # "unthrottle"
      BY <1>11 DEF change_speed, SpeedLoad, SpeedStore, ProcessRuns, flow
  <2>2. "flow" \in flaws => "flow" \in flaws'
      BY <1>11 DEF change_speed, SpeedLoad, SpeedStore
  <2> QED
      BY <2>1, <2>2, FlowSame
<1>3. CASE Open
  <2>1. UNCHANGED <<soft, throttled, told, x_char, proc, bh>> /\ ~open /\ open'
        /\ flaws' = flaws \ {"race", "robbed", "undone"}
      BY <1>3 DEF Open, flow
  <2> QED
      BY <2>1 DEF FlowInv, UnthrottleAlone, ClosedQuiet, XonXoffCoherent, XcharInv
<1>4. ASSUME NEW s, Write(s) PROVE FlowInv'
    BY <1>4, FlowSame DEF Write, ProcessRuns, flow
<1>5. ASSUME NEW s \in BOOLEAN, rs_set_termios(s) PROVE FlowInv'
  <2>1. /\ UNCHANGED <<open, throttled, told, x_char, bh>> /\ soft' = s
        /\ proc = "idle" /\ proc' # "unthrottle" /\ open
      BY <1>5 DEF rs_set_termios, ProcessRuns
  <2>2. CASE PeerFree
      BY <2>1, <2>2 DEF PeerFree, FlowInv, UnthrottleAlone, ClosedQuiet, XonXoffCoherent,
                        XcharInv, None
  <2>3. CASE ~PeerFree /\ s = soft
    <3>1. flaws \subseteq flaws'
        BY <1>5, <2>3 DEF rs_set_termios, FlawIf
    <3> QED
        BY <2>1, <2>3, <3>1, FlowSame
  <2>4. CASE ~PeerFree /\ s # soft
    <3>1. "flow" \in flaws'
        BY <1>5, <2>4 DEF rs_set_termios, FlawIf
    <3> QED
        BY <2>1, <2>4, <3>1 DEF FlowInv, UnthrottleAlone, ClosedQuiet, XonXoffCoherent, XcharInv
  <2> QED
      BY <2>2, <2>3, <2>4
<1>6. CASE do_softint
    BY <1>6, FlowSame DEF do_softint, Woken, flow
<1>7. ASSUME NEW c, PeerSends(c) PROVE FlowInv'
    BY <1>7, FlowSame DEF PeerSends, flow
<1>8. CASE Receive
    BY <1>8, FlowSame DEF Receive, stop_tty, start_tty, Woken, FlawIf, flow
<1>9. CASE FlushSend \/ ReceiveEnd
  <2>1. proc # "unthrottle" /\ open
      BY <1>9 DEF FlowInv, UnthrottleAlone, ClosedQuiet, FlushSend, ReceiveEnd
  <2> QED
      BY <1>9, <2>1, FlowSame DEF FlushSend, ReceiveEnd, flow
<1>10. CASE UNCHANGED vars
    BY <1>10, FlowSame DEF vars, flow
<1> QED
    BY <1>1, <1>2, <1>3, <1>4, <1>5, <1>6, <1>7, <1>8, <1>9, <1>10, <1>11
    DEF Next, Process, TaskQueue

\* What the peer has been told, or the character that waits in x_char, agrees with
\* the room for input, except after one of the three steps of rs_throttle, of
\* rs_unthrottle and of a switch or close that the history variable records; for
\* every size and every interleaving.  Whether the character is ever sent is not
\* part of it: neither rs_throttle nor rs_unthrottle starts the transmitter.
THEOREM FlowCoherent == Spec => []XonXoffCoherent
<1>1. FlowInv => XonXoffCoherent
    BY DEF FlowInv
<1> QED
    BY <1>1, FlowInit, FlowStep, TypeCorrect, PTL DEF Spec

\* The peer sends into a full buffer or waits although there is room, and there are
\* bytes to send: then the character that puts it right waits in x_char with the
\* interrupt that sends it enabled.
TellingUnderWay ==
    /\ open /\ soft /\ throttled = told /\ xmit_cnt > 0 /\ ~stopped
    /\ proc \in {"idle", "asleep"} /\ flaws = {}
    => x_char = (IF throttled THEN "XOFF" ELSE "XON") /\ THEIE

\* While there is output to carry it, an XON or XOFF that is due has not been left
\* with a transmitter that nobody starts (rs_throttle, rs_unthrottle, rs_write,
\* rs_interrupt_Tx); for every size and every interleaving, outside the recorded races.
THEOREM CharacterLeaves == Spec => []TellingUnderWay
<1>1. TypeOK /\ SendInv /\ FlowInv => TellingUnderWay
    BY DEF TypeOK, SendInv, Armed, FlowInv, XonXoffCoherent, TellingUnderWay
<1> QED
    BY <1>1, SendInit, SendStep, FlowInit, FlowStep, TypeCorrect, PTL DEF Spec

(***************************************************************************)
(* The ring is a queue.                                                    *)
(***************************************************************************)

Slots == 0 .. XmitSize - 1
Kept == Byte \cup {Stale}

\* The slot that is x slots from the first one.
Pos(x) == x % XmitSize

\* Positions wrap around once at most.
LEMMA PosValue ==
    ASSUME NEW x \in 0 .. 2 * XmitSize - 1
    PROVE  Pos(x) = (IF x < XmitSize THEN x ELSE x - XmitSize) /\ Pos(x) \in Slots
<1>0. XmitSize \in Nat \ {0}
    BY UartAssumption
<1>1. CASE x < XmitSize
    BY <1>0, <1>1 DEF Pos, Slots
<1>2. CASE x >= XmitSize
    BY <1>0, <1>2 DEF Pos, Slots
<1> QED
    BY <1>0, <1>1, <1>2

LEMMA MaxOfZero == ASSUME NEW c \in Nat PROVE Max({0, c}) = c
<1>1. \E x \in {0, c} : \A y \in {0, c} : x >= y
    OBVIOUS
<1> QED
    BY <1>1 DEF Max

\* The cnt bytes of a ring from tail on.
Stored(buf, tail, cnt) == [i \in 1 .. cnt |-> buf[Pos(tail + i - 1)]]

LEMMA StoredSeq ==
    ASSUME NEW buf \in [Slots -> Kept], NEW tail \in Slots, NEW cnt \in Slots
    PROVE  /\ Stored(buf, tail, cnt) \in Seq(Kept)
           /\ Len(Stored(buf, tail, cnt)) = cnt
           /\ \A i \in 1 .. cnt : Stored(buf, tail, cnt)[i] = buf[Pos(tail + i - 1)]
<1>0. XmitSize \in Nat \ {0} /\ cnt \in Nat /\ tail \in Nat
    BY UartAssumption DEF Slots
<1>1. ASSUME NEW i \in 1 .. cnt
      PROVE  buf[Pos(tail + i - 1)] \in Kept
  <2>1. tail + i - 1 \in 0 .. 2 * XmitSize - 1
      BY <1>0 DEF Slots
  <2>2. Pos(tail + i - 1) \in Slots
      BY <2>1, PosValue
  <2> QED
      BY <2>2
<1>2. Stored(buf, tail, cnt) \in [1 .. cnt -> Kept]
    BY <1>1 DEF Stored
<1>3. \A i \in 1 .. cnt : Stored(buf, tail, cnt)[i] = buf[Pos(tail + i - 1)]
    BY DEF Stored
<1>4. Stored(buf, tail, cnt) \in Seq(Kept)
    BY <1>0, <1>2
<1>5. Len(Stored(buf, tail, cnt)) = cnt
    BY <1>0, <1>2, <1>4, LenProperties
<1> QED
    BY <1>3, <1>4, <1>5

\* Without the race the count is that of the positions.
QueueInv ==
    "race" \notin flaws => xmit_cnt >= 0 /\ xmit_head = Pos(xmit_tail + xmit_cnt)

RingType ==
    /\ XmitSize \in Nat \ {0}
    /\ xmit_buf \in [Slots -> Kept]
    /\ xmit_head \in Slots /\ xmit_tail \in Slots
    /\ xmit_cnt \in -1 .. XmitSize - 1

LEMMA RingTypes == ASSUME TypeOK PROVE RingType
    BY UartAssumption DEF TypeOK, RingType, Slots, Kept

\* The slot of byte i once n bytes are gone, of the cnt there were,
LEMMA PosLater ==
    ASSUME NEW tail \in Slots, NEW cnt \in Slots, NEW n \in 1 .. cnt, NEW i \in 0 .. cnt - n
    PROVE  /\ Pos(Pos(tail + n) + i) = Pos(tail + (n + i))
           /\ Pos(tail + n) \in Slots /\ Pos(tail + (n + i)) \in Slots
<1> DEFINE t == Pos(tail + n)
           a == Pos(tail + (n + i))
<1>1. /\ XmitSize \in Nat \ {0} /\ tail \in Nat /\ cnt \in Nat /\ n \in Nat /\ i \in Nat
      /\ tail < XmitSize /\ cnt < XmitSize /\ n + i <= cnt /\ n >= 1
    BY UartAssumption DEF Slots
<1>2. tail + n \in 0 .. 2 * XmitSize - 1 /\ tail + (n + i) \in 0 .. 2 * XmitSize - 1
    BY <1>1
<1>3. /\ t = (IF tail + n < XmitSize THEN tail + n ELSE tail + n - XmitSize)
      /\ t \in Slots
    BY <1>1, <1>2, PosValue
<1>4. /\ a = (IF tail + (n + i) < XmitSize THEN tail + (n + i) ELSE tail + (n + i) - XmitSize)
      /\ a \in Slots
    BY <1>1, <1>2, PosValue
<1> HIDE DEF t, a
<1>5. t \in Nat /\ t + i \in 0 .. 2 * XmitSize - 1
    BY <1>1, <1>3 DEF Slots
<1>6. Pos(t + i) = IF t + i < XmitSize THEN t + i ELSE t + i - XmitSize
    BY <1>1, <1>5, PosValue
<1>7. Pos(t + i) = a
    BY <1>1, <1>3, <1>4, <1>5, <1>6
<1> QED
    BY <1>3, <1>4, <1>7 DEF t, a

\* which is not one of those that have gone.
LEMMA PosOther ==
    ASSUME NEW tail \in Slots, NEW j \in Slots, NEW k \in Slots, j # k
    PROVE  Pos(tail + j) # Pos(tail + k)
<1>1. /\ XmitSize \in Nat \ {0} /\ tail \in Nat /\ j \in Nat /\ k \in Nat
      /\ tail < XmitSize /\ j < XmitSize /\ k < XmitSize
    BY UartAssumption DEF Slots
<1>2. tail + j \in 0 .. 2 * XmitSize - 1 /\ tail + k \in 0 .. 2 * XmitSize - 1
    BY <1>1
<1>3. Pos(tail + j) = IF tail + j < XmitSize THEN tail + j ELSE tail + j - XmitSize
    BY <1>1, <1>2, PosValue
<1>4. Pos(tail + k) = IF tail + k < XmitSize THEN tail + k ELSE tail + k - XmitSize
    BY <1>1, <1>2, PosValue
<1> QED
    BY <1>1, <1>3, <1>4

\* A ring whose first n bytes are gone holds the rest.
LEMMA StoredLater ==
    ASSUME NEW buf \in [Slots -> Kept], NEW tail \in Slots, NEW cnt \in Slots,
           NEW n \in 1 .. cnt, NEW buf2 \in [Slots -> Kept],
           \A p \in Slots : (\A j \in 0 .. n - 1 : p # Pos(tail + j)) => buf2[p] = buf[p]
    PROVE  LET C == Stored(buf, tail, cnt)
           IN  /\ n \in 1 .. Len(C)
               /\ Stored(buf2, Pos(tail + n), cnt - n) = SubSeq(C, n + 1, Len(C))
<1> DEFINE C == Stored(buf, tail, cnt)
           t == Pos(tail + n)
           c == cnt - n
           D == Stored(buf2, t, c)
           E == SubSeq(C, n + 1, Len(C))
<1>1. /\ XmitSize \in Nat \ {0} /\ cnt \in Nat /\ n \in Nat /\ c \in Nat /\ c \in Slots
      /\ cnt < XmitSize /\ n >= 1 /\ n <= cnt /\ c = cnt - n /\ tail \in Nat
    BY UartAssumption DEF Slots
<1>2. t \in Slots
  <2>1. 0 \in 0 .. cnt - n
      BY <1>1
  <2> QED
      BY <2>1, PosLater
<1>3. /\ C \in Seq(Kept) /\ Len(C) = cnt
      /\ \A i \in 1 .. cnt : C[i] = buf[Pos(tail + i - 1)]
    BY StoredSeq
<1> HIDE DEF c
<1>4. /\ D \in Seq(Kept) /\ Len(D) = c
      /\ \A i \in 1 .. c : D[i] = buf2[Pos(t + i - 1)]
  <2> HIDE DEF t
  <2> QED
      BY <1>1, <1>2, StoredSeq
<1> HIDE DEF C, D
<1>5. ASSUME NEW i \in 1 .. c PROVE D[i] = C[n + i]
  <2> DEFINE k == i - 1
             a == Pos(tail + (n + k))
  <2>1. /\ k \in 0 .. cnt - n /\ n + k \in Slots /\ k \in Nat /\ i \in Nat
        /\ n + i \in 1 .. cnt /\ t + i - 1 = t + k /\ tail + (n + i) - 1 = tail + (n + k)
      BY <1>1, <1>2 DEF Slots
  <2> HIDE DEF k
  <2>2. Pos(t + k) = a /\ a \in Slots
      BY <2>1, PosLater
  <2>3. ASSUME NEW j \in 0 .. n - 1 PROVE a # Pos(tail + j)
    <3>1. j \in Slots /\ j # n + k
        BY <1>1, <2>1 DEF Slots
    <3> QED
        BY <2>1, <3>1, PosOther
  <2>4. C[n + i] = buf[a]
      BY <1>3, <2>1
  <2>5. D[i] = buf2[a]
      BY <1>4, <2>1, <2>2
  <2> HIDE DEF a
  <2>6. buf2[a] = buf[a]
      BY <2>2, <2>3
  <2> QED
      BY <2>4, <2>5, <2>6
<1>6. /\ E \in Seq(Kept)
      /\ Len(E) = IF n + 1 <= Len(C) THEN Len(C) - (n + 1) + 1 ELSE 0
      /\ \A k \in 1 .. Len(C) - (n + 1) + 1 : E[k] = C[n + 1 + k - 1]
  <2>1. \A k \in n + 1 .. Len(C) : C[k] \in Kept
      BY <1>1, <1>3
  <2>2. n + 1 \in Int /\ Len(C) \in Int
      BY <1>1, <1>3
  <2> QED
      BY <2>1, <2>2, SubSeqProperties
<1> HIDE DEF E
<1>7. Len(E) = c
    BY <1>1, <1>3, <1>6
<1>8. ASSUME NEW i \in 1 .. c PROVE D[i] = E[i]
  <2>1. i \in 1 .. Len(C) - (n + 1) + 1 /\ n + 1 + i - 1 = n + i
      BY <1>1, <1>3
  <2>2. E[i] = C[n + i]
      BY <1>6, <2>1
  <2> QED
      BY <1>5, <2>2
<1>9. D = E
    BY <1>4, <1>6, <1>7, <1>8, SeqEqual
<1>10. n \in 1 .. Len(C)
    BY <1>1, <1>3
<1> QED
    BY <1>9, <1>10 DEF C, D, E, t, c

\* Sending n bytes that are there takes them from the front, and the positions
\* stay in step with the count.
LEMMA SendQueue ==
    ASSUME TypeOK, NEW n \in 1 .. XmitSize - 1, n <= xmit_cnt, Send(n)
    PROVE  /\ n \in 1 .. Len(Contents)
           /\ Contents' = SubSeq(Contents, n + 1, Len(Contents))
           /\ xmit_cnt' >= 0
           /\ xmit_head = Pos(xmit_tail + xmit_cnt) => xmit_head' = Pos(xmit_tail' + xmit_cnt')
<1>0. RingType
    BY RingTypes
<1>1. /\ xmit_cnt \in Slots /\ xmit_cnt' = xmit_cnt - n /\ xmit_cnt \in Nat /\ xmit_cnt' \in Nat
      /\ n \in 1 .. xmit_cnt /\ xmit_head' = xmit_head /\ xmit_tail \in Slots
    BY <1>0 DEF RingType, Slots, Send
<1>2. xmit_tail' = Pos(xmit_tail + n)
    BY DEF Send, Pos
<1>3. xmit_buf \in [Slots -> Kept] /\ xmit_buf' \in [Slots -> Kept]
    BY <1>0 DEF RingType, Send, Kept
<1>4. \A p \in Slots :
          (\A j \in 0 .. n - 1 : p # Pos(xmit_tail + j)) => xmit_buf'[p] = xmit_buf[p]
    BY <1>3 DEF Send, Pos
<1>5. Contents = Stored(xmit_buf, xmit_tail, xmit_cnt)
    BY <1>1, MaxOfZero DEF Contents, Stored, Pos
<1>6. Contents' = Stored(xmit_buf', xmit_tail', xmit_cnt')
    BY <1>1, MaxOfZero DEF Contents, Stored, Pos
<1>7. Contents' = Stored(xmit_buf', Pos(xmit_tail + n), xmit_cnt - n)
    BY <1>1, <1>2, <1>6
<1>8. /\ n \in 1 .. Len(Contents)
      /\ Contents' = SubSeq(Contents, n + 1, Len(Contents))
    BY <1>1, <1>3, <1>4, <1>5, <1>7, StoredLater
<1>9. ASSUME xmit_head = Pos(xmit_tail + xmit_cnt)
      PROVE  xmit_head' = Pos(xmit_tail' + xmit_cnt')
  <2>1. PICK k : k = xmit_cnt - n
      OBVIOUS
  <2>2. k \in 0 .. xmit_cnt - n /\ n + k = xmit_cnt
      BY <1>1, <2>1
  <2>3. Pos(Pos(xmit_tail + n) + k) = Pos(xmit_tail + (n + k))
      BY <1>1, <2>2, PosLater
  <2>4. Pos(xmit_tail' + xmit_cnt') = Pos(Pos(xmit_tail + n) + k)
      BY <1>1, <1>2, <2>1
  <2> QED
      BY <1>1, <1>9, <2>2, <2>3, <2>4
<1> QED
    BY <1>1, <1>8, <1>9

\* The free slots from xmit_head on, up to the end of the ring.
LEMMA PosFree ==
    ASSUME NEW tail \in Slots, NEW cnt \in Slots, NEW head, head = Pos(tail + cnt),
           NEW F \in Nat, cnt + F < XmitSize, head + F <= XmitSize
    PROVE  /\ head \in Slots
           /\ \A j \in 0 .. F - 1 : head + j = Pos(tail + (cnt + j))
           /\ Pos(head + F) = Pos(tail + (cnt + F))
<1>1. /\ XmitSize \in Nat \ {0} /\ tail \in Nat /\ cnt \in Nat
      /\ tail < XmitSize /\ cnt < XmitSize
    BY UartAssumption DEF Slots
<1>2. tail + cnt \in 0 .. 2 * XmitSize - 1
    BY <1>1
<1>3. head = (IF tail + cnt < XmitSize THEN tail + cnt ELSE tail + cnt - XmitSize)
      /\ head \in Slots
    BY <1>1, <1>2, PosValue
<1>4. head \in Nat /\ head + F \in 0 .. 2 * XmitSize - 1
    BY <1>1, <1>3 DEF Slots
<1>5. ASSUME NEW j \in 0 .. F - 1 PROVE head + j = Pos(tail + (cnt + j))
  <2>1. tail + (cnt + j) \in 0 .. 2 * XmitSize - 1 /\ j \in Nat
      BY <1>1
  <2>2. Pos(tail + (cnt + j)) = IF tail + (cnt + j) < XmitSize THEN tail + (cnt + j)
                                ELSE tail + (cnt + j) - XmitSize
      BY <1>1, <2>1, PosValue
  <2> QED
      BY <1>1, <1>3, <1>4, <2>1, <2>2
<1>6. Pos(head + F) = Pos(tail + (cnt + F))
  <2>1. tail + (cnt + F) \in 0 .. 2 * XmitSize - 1
      BY <1>1
  <2>2. Pos(tail + (cnt + F)) = IF tail + (cnt + F) < XmitSize THEN tail + (cnt + F)
                                ELSE tail + (cnt + F) - XmitSize
      BY <1>1, <2>1, PosValue
  <2>3. Pos(head + F) = IF head + F < XmitSize THEN head + F ELSE head + F - XmitSize
      BY <1>1, <1>4, PosValue
  <2>4. tail + (cnt + F) = (tail + cnt) + F
      BY <1>1
  <2> QED
      BY <1>1, <1>3, <1>4, <2>1, <2>2, <2>3, <2>4
<1> QED
    BY <1>3, <1>5, <1>6

\* The first F bytes of s have been copied to the ring, from head on.
Copied(buf, buf2, head, F, s) ==
    \A p \in Slots : buf2[p] = IF p \in head .. head + F - 1
                               THEN s[p - head + 1] ELSE buf[p]

\* Then it holds them after what it held before.
LEMMA StoredMore ==
    ASSUME NEW buf \in [Slots -> Kept], NEW tail \in Slots, NEW cnt \in Slots,
           NEW head, head = Pos(tail + cnt), NEW s \in Seq(Byte), NEW F \in 1 .. Len(s),
           cnt + F < XmitSize, head + F <= XmitSize,
           NEW buf2 \in [Slots -> Kept], Copied(buf, buf2, head, F, s)
    PROVE  Stored(buf2, tail, cnt + F) = Stored(buf, tail, cnt) \o SubSeq(s, 1, F)
<1> DEFINE C == Stored(buf, tail, cnt)
           c == cnt + F
           D == Stored(buf2, tail, c)
           W == SubSeq(s, 1, F)
           E == C \o W
<1>0. XmitSize \in Nat \ {0} /\ cnt \in Nat /\ F \in Nat /\ F >= 1 /\ tail \in Nat /\ c \in Nat
      /\ c \in Slots /\ c = cnt + F /\ Len(s) \in Nat /\ F <= Len(s)
    BY UartAssumption DEF Slots
<1>1. /\ head \in Slots /\ head \in Nat
      /\ \A j \in 0 .. F - 1 : head + j = Pos(tail + (cnt + j))
  <2>1. /\ head \in Slots
        /\ \A j \in 0 .. F - 1 : head + j = Pos(tail + (cnt + j))
      BY <1>0, PosFree
  <2> QED
      BY <1>0, <2>1 DEF Slots
<1>2. /\ C \in Seq(Kept) /\ Len(C) = cnt
      /\ \A i \in 1 .. cnt : C[i] = buf[Pos(tail + i - 1)]
    BY StoredSeq
<1> HIDE DEF c
<1>3. /\ D \in Seq(Kept) /\ Len(D) = c
      /\ \A i \in 1 .. c : D[i] = buf2[Pos(tail + i - 1)]
    BY <1>0, StoredSeq
<1>4. /\ W \in Seq(Kept) /\ Len(W) = F
      /\ \A i \in 1 .. F : W[i] = s[i]
  <2>1. \A i \in 1 .. F : s[i] \in Kept
      BY <1>0 DEF Kept
  <2>2. /\ W \in Seq(Kept) /\ Len(W) = (IF 1 <= F THEN F - 1 + 1 ELSE 0)
        /\ \A i \in 1 .. F - 1 + 1 : W[i] = s[1 + i - 1]
      BY <1>0, <2>1, SubSeqProperties
  <2> HIDE DEF W
  <2>3. F - 1 + 1 = F /\ \A i \in 1 .. F : 1 + i - 1 = i
      BY <1>0
  <2> QED
      BY <1>0, <2>2, <2>3
<1> HIDE DEF C, D, W
<1>5. /\ E \in Seq(Kept) /\ Len(E) = cnt + F
      /\ \A i \in 1 .. cnt + F : E[i] = IF i <= cnt THEN C[i] ELSE W[i - cnt]
    BY <1>2, <1>4, ConcatProperties
<1> HIDE DEF E
<1>6. ASSUME NEW i \in 1 .. c PROVE D[i] = E[i]
  <2>1. CASE i <= cnt
    <3> DEFINE k == i - 1
               a == Pos(tail + k)
    <3>1. k \in Slots /\ k < cnt /\ tail + i - 1 = tail + k /\ i \in 1 .. cnt
        BY <1>0, <2>1 DEF Slots
    <3> HIDE DEF k
    <3>2. a \in Slots
      <4>1. tail + k \in 0 .. 2 * XmitSize - 1 /\ k \in Int
          BY <1>0, <3>1 DEF Slots
      <4> QED
          BY <1>0, <4>1, PosValue
    <3>3. ASSUME NEW j \in 0 .. F - 1 PROVE a # head + j
      <4>1. cnt + j \in Slots /\ k # cnt + j
          BY <1>0, <3>1 DEF Slots
      <4>2. a # Pos(tail + (cnt + j))
          BY <3>1, <4>1, PosOther
      <4> QED
          BY <1>1, <4>2
    <3> HIDE DEF a
    <3>4. a \notin head .. head + F - 1
      <4>1. SUFFICES ASSUME a \in head .. head + F - 1 PROVE FALSE
          OBVIOUS
      <4>2. a - head \in 0 .. F - 1 /\ a = head + (a - head)
          BY <1>0, <1>1, <4>1
      <4> QED
          BY <3>3, <4>2
    <3>5. buf2[a] = buf[a]
        BY <3>2, <3>4 DEF Copied
    <3>6. D[i] = buf2[a]
        BY <1>3, <3>1 DEF a
    <3>7. C[i] = buf[a]
        BY <1>2, <3>1 DEF a
    <3>8. E[i] = C[i]
        BY <1>0, <1>5, <2>1
    <3> QED
        BY <3>5, <3>6, <3>7, <3>8
  <2>2. CASE i > cnt
    <3> DEFINE j == i - cnt - 1
    <3>1. /\ j \in 0 .. F - 1 /\ j \in Nat /\ tail + i - 1 = tail + (cnt + j)
          /\ i - cnt = j + 1 /\ j + 1 \in 1 .. F /\ i \in 1 .. cnt + F
        BY <1>0, <2>2
    <3> HIDE DEF j
    <3>2. D[i] = buf2[head + j]
        BY <1>1, <1>3, <3>1
    <3>3. head + j \in Slots /\ head + j \in head .. head + F - 1 /\ (head + j) - head + 1 = j + 1
        BY <1>0, <1>1, <3>1 DEF Slots
    <3>4. buf2[head + j] = s[j + 1]
        BY <3>3 DEF Copied
    <3>5. E[i] = W[j + 1]
        BY <1>0, <1>5, <2>2, <3>1
    <3> QED
        BY <1>4, <3>1, <3>2, <3>4, <3>5
  <2> QED
      BY <1>0, <2>1, <2>2
<1>7. D = E
    BY <1>0, <1>3, <1>5, <1>6, SeqEqual
<1> QED
    BY <1>7 DEF C, D, E, W, c

\* What rs_write copies goes to the end of the queue.
LEMMA WriteQueue ==
    ASSUME TypeOK, WriteChunk, xmit_cnt >= 0, xmit_head = Pos(xmit_tail + xmit_cnt)
    PROVE  /\ Fits \in 1 .. Len(todo)
           /\ Contents' = Contents \o SubSeq(todo, 1, Fits)
           /\ todo' = SubSeq(todo, Fits + 1, Len(todo))
           /\ xmit_cnt' >= 0 /\ xmit_head' = Pos(xmit_tail' + xmit_cnt')
<1>0. RingType /\ todo \in Seq(Byte)
    BY RingTypes DEF TypeOK
<1>1. PICK F : F = Fits
    OBVIOUS
<1>2. /\ F \in Int /\ F > 0 /\ F <= Len(todo) /\ F <= XmitSize - xmit_cnt - 1
      /\ F <= XmitSize - xmit_head
    BY <1>1, FitsBounds DEF WriteChunk
<1>3. /\ xmit_cnt \in Slots /\ xmit_cnt \in Nat /\ xmit_tail \in Slots /\ XmitSize \in Nat
      /\ xmit_buf \in [Slots -> Kept] /\ xmit_head \in Int
    BY <1>0 DEF RingType, Slots
<1>4. /\ F \in 1 .. Len(todo) /\ xmit_cnt + F < XmitSize /\ xmit_head + F <= XmitSize /\ F \in Nat
    BY <1>0, <1>2, <1>3
<1>5. /\ xmit_cnt' = xmit_cnt + F /\ xmit_tail' = xmit_tail /\ xmit_head' = Pos(xmit_head + F)
      /\ todo' = SubSeq(todo, F + 1, Len(todo))
      /\ xmit_buf' = [p \in DOMAIN xmit_buf |->
                        IF p \in xmit_head .. xmit_head + F - 1
                        THEN todo[p - xmit_head + 1] ELSE xmit_buf[p]]
    BY <1>1 DEF WriteChunk, Pos
<1>6. Copied(xmit_buf, xmit_buf', xmit_head, F, todo)
    BY <1>3, <1>5 DEF Copied
<1>7. xmit_buf' \in [Slots -> Kept]
  <2>1. ASSUME NEW p \in Slots, p \in xmit_head .. xmit_head + F - 1
        PROVE  todo[p - xmit_head + 1] \in Kept
    <3>1. p - xmit_head + 1 \in 1 .. Len(todo)
        BY <1>0, <1>2, <1>3, <2>1 DEF Slots
    <3> QED
        BY <1>0, <3>1 DEF Kept
  <2> QED
      BY <1>3, <1>5, <2>1
<1>8. Contents = Stored(xmit_buf, xmit_tail, xmit_cnt)
    BY <1>3, MaxOfZero DEF Contents, Stored, Pos
<1>9. xmit_cnt' \in Nat /\ xmit_cnt' >= 0
    BY <1>3, <1>4, <1>5
<1>10. Contents' = Stored(xmit_buf', xmit_tail', xmit_cnt')
    BY <1>9, MaxOfZero DEF Contents, Stored, Pos
<1>11. Contents' = Contents \o SubSeq(todo, 1, F)
  <2>1. Stored(xmit_buf', xmit_tail, xmit_cnt + F)
            = Stored(xmit_buf, xmit_tail, xmit_cnt) \o SubSeq(todo, 1, F)
      BY <1>0, <1>3, <1>4, <1>6, <1>7, StoredMore
  <2> QED
      BY <1>5, <1>8, <1>10, <2>1
<1>12. xmit_head' = Pos(xmit_tail' + xmit_cnt')
  <2>1. Pos(xmit_head + F) = Pos(xmit_tail + (xmit_cnt + F))
      BY <1>3, <1>4, PosFree
  <2> QED
      BY <1>5, <2>1
<1> QED
    BY <1>1, <1>4, <1>5, <1>9, <1>11, <1>12

\* What a step may do to the queue.
QueueStep ==
    \/ "race" \in flaws' \/ UNCHANGED Contents
    \/ EmptyRing
    \/ \E n \in 1 .. Len(Contents) : Contents' = SubSeq(Contents, n + 1, Len(Contents))
    \/ \E n \in 1 .. Len(todo) : /\ Contents' = Contents \o SubSeq(todo, 1, n)
                                 /\ todo' = SubSeq(todo, n + 1, Len(todo))

LEMMA QueueInit == Init => QueueInv
<1>1. 0 \in 0 .. 2 * XmitSize - 1 /\ XmitSize \in Nat \ {0}
    BY UartAssumption
<1>2. Pos(0 + 0) = 0
    BY <1>1 DEF Pos
<1> QED
    BY <1>2 DEF Init, QueueInv

LEMMA QueueSame ==
    ASSUME QueueInv, UNCHANGED ring, "race" \in flaws => "race" \in flaws'
    PROVE  QueueInv' /\ QueueStep
    BY DEF QueueInv, QueueStep, ring, Contents

LEMMA QueueEmpty == ASSUME EmptyRing PROVE QueueInv' /\ QueueStep
<1>1. XmitSize \in Nat \ {0}
    BY UartAssumption
<1>2. Pos(0 + 0) = 0
    BY <1>1 DEF Pos
<1> QED
    BY <1>2 DEF EmptyRing, QueueInv, QueueStep

\* The bytes sent are those that were there.
LEMMA QueueSend ==
    ASSUME TypeOK, QueueInv, NEW n \in Nat \ {0}, n <= xmit_cnt, Send(n),
           "race" \in flaws => "race" \in flaws'
    PROVE  QueueInv' /\ QueueStep
<1>1. n \in 1 .. XmitSize - 1
    BY UartAssumption DEF TypeOK
<1>2. /\ n \in 1 .. Len(Contents)
      /\ Contents' = SubSeq(Contents, n + 1, Len(Contents))
      /\ xmit_cnt' >= 0
      /\ xmit_head = Pos(xmit_tail + xmit_cnt) => xmit_head' = Pos(xmit_tail' + xmit_cnt')
    BY <1>1, SendQueue
<1>3. QueueStep
    BY <1>2 DEF QueueStep
<1>4. QueueInv'
    BY <1>2 DEF QueueInv
<1> QED
    BY <1>3, <1>4

LEMMA QueueSteps ==
    ASSUME TypeOK, QueueInv, rs_interrupt_Tx \/ FlushSend \/ WriteChunk
    PROVE  QueueInv' /\ QueueStep
<1>1. CASE rs_interrupt_Tx
  <2>1. "race" \in flaws => "race" \in flaws'
      BY <1>1 DEF rs_interrupt_Tx, FlawIf
  <2>2. CASE UNCHANGED ring
      BY <2>1, <2>2, QueueSame
  <2>3. CASE \E n \in 1 .. Min({xmit_cnt, FifoSize}) : Send(n)
    <3>1. PICK n \in 1 .. Min({xmit_cnt, FifoSize}) : Send(n)
        BY <2>3
    <3>2. xmit_cnt \in Int /\ FifoSize \in Int
        BY UartAssumption DEF TypeOK
    <3>3. Min({xmit_cnt, FifoSize}) \in Int /\ Min({xmit_cnt, FifoSize}) <= xmit_cnt
        BY <3>2, MinOfTwo
    <3>4. n \in Nat \ {0} /\ n <= xmit_cnt
        BY <3>2, <3>3
    <3> QED
        BY <2>1, <3>1, <3>4, QueueSend
  <2> QED
      BY <1>1, <2>2, <2>3 DEF rs_interrupt_Tx
<1>2. CASE FlushSend
  <2>1. ("race" \in flaws => "race" \in flaws') /\ (xmit_cnt <= 0 => "race" \in flaws') /\ Send(1)
      BY <1>2 DEF FlushSend, FlawIf
  <2>2. CASE xmit_cnt <= 0
      BY <2>1, <2>2 DEF QueueInv, QueueStep
  <2>3. CASE xmit_cnt >= 1
      BY <2>1, <2>3, QueueSend
  <2>4. xmit_cnt \in Int
      BY UartAssumption DEF TypeOK
  <2> QED
      BY <2>2, <2>3, <2>4
<1>3. CASE WriteChunk
  <2>1. UNCHANGED flaws
      BY <1>3 DEF WriteChunk
  <2>2. CASE "race" \in flaws
      BY <2>1, <2>2 DEF QueueInv, QueueStep
  <2>3. CASE "race" \notin flaws
    <3>1. xmit_cnt >= 0 /\ xmit_head = Pos(xmit_tail + xmit_cnt)
        BY <2>3 DEF QueueInv
    <3>2. /\ Fits \in 1 .. Len(todo)
          /\ Contents' = Contents \o SubSeq(todo, 1, Fits)
          /\ todo' = SubSeq(todo, Fits + 1, Len(todo))
          /\ xmit_cnt' >= 0 /\ xmit_head' = Pos(xmit_tail' + xmit_cnt')
        BY <1>3, <3>1, WriteQueue
    <3>3. QueueStep
        BY <3>2 DEF QueueStep
    <3> QED
        BY <3>2, <3>3 DEF QueueInv
  <2> QED
      BY <2>2, <2>3
<1> QED
    BY <1>1, <1>2, <1>3

LEMMA QueueNext ==
    ASSUME TypeOK, QueueInv, [Next]_vars
    PROVE  QueueInv' /\ QueueStep
<1>1. CASE rs_interrupt_Tx \/ FlushSend \/ WriteChunk
    BY <1>1, QueueSteps
<1>2. CASE Open \/ rs_flush_buffer \/ CloseFinish
    BY <1>2, QueueEmpty DEF Open, rs_flush_buffer, CloseFinish
<1>3. CASE WriteTest \/ WriteKick \/ UnthrottleClear \/ Sleep \/ rs_unthrottle \/ Close
    BY <1>3, QueueSame DEF WriteTest, WriteKick, UnthrottleClear, Sleep, rs_unthrottle, Close
<1>9. CASE WriteStart \/ change_speed \/ SpeedLoad \/ SpeedStore
    BY <1>9, QueueSame DEF WriteStart, change_speed, SpeedLoad, SpeedStore
<1>4. ASSUME NEW s, Write(s) PROVE QueueInv' /\ QueueStep
    BY <1>4, QueueSame DEF Write
<1>5. ASSUME NEW s, rs_set_termios(s) PROVE QueueInv' /\ QueueStep
    BY <1>5, QueueSame DEF rs_set_termios, FlawIf
<1>6. ASSUME NEW c, PeerSends(c) PROVE QueueInv' /\ QueueStep
    BY <1>6, QueueSame DEF PeerSends
<1>7. CASE do_softint \/ Receive \/ rs_throttle \/ ReceiveEnd
    BY <1>7, QueueSame DEF do_softint, Receive, rs_throttle, ReceiveEnd, FlawIf
<1>8. CASE UNCHANGED vars
    BY <1>8, QueueSame DEF vars
<1> QED
    BY <1>1, <1>2, <1>3, <1>4, <1>5, <1>6, <1>7, <1>8, <1>9 DEF Next, Process, TaskQueue

\* What is written leaves the port in order, nothing twice and nothing left out, for
\* every size of the ring, of the FIFO and of a write, and every interrupt between
\* the steps of rs_write and of rs_flush_chars; but for the race of the latter.
THEOREM RingIsQueue == Spec => TxIsQueue
<1>1. TypeOK /\ QueueInv /\ [Next]_vars => QueueInv' /\ [QueueStep]_vars
    BY QueueNext
<1>2. TxIsQueue <=> [][QueueStep]_vars
    BY PTL DEF TxIsQueue, QueueStep
<1> QED
    BY <1>1, <1>2, QueueInit, TypeCorrect, PTL DEF Spec
=============================================================================
