------------------------------ MODULE EthRing ------------------------------
(***************************************************************************)
(* The descriptor rings of the S3C2510 Ethernet driver, through which      *)
(* every byte between sercd and its client goes: the driver, its two       *)
(* interrupt handlers and its poll routine, against the DMA controller,    *)
(* which works on the rings at any time.  The driver is taken as it        *)
(* compiles, with CONFIG_S3C2510_NAPI and REFILL_RXSKB_GROUP.              *)
(*                                                                         *)
(* A descriptor is the state of its status word and of the skb kept for    *)
(* it.  Transmit and timer run in soft interrupts on one processor, and so *)
(* does poll: they do not interrupt each other, an interrupt handler may   *)
(* interrupt each except under np->lock.  What the controller does is read *)
(* off the driver: status bits stay until written back, an enabled one     *)
(* interrupts, and reception stops at a descriptor the controller does not *)
(* own.  One assumption is not: that a reset empties the status and starts *)
(* both rings at zero.  allocate_buffers writes the two positions; the     *)
(* watchdog resets and does not.                                           *)
(***************************************************************************)
EXTENDS Integers, FiniteSets

CONSTANTS TX_NUM_FD, RX_NUM_FD,
          Limit            \* the smaller of poll's budget and quota

ASSUME EthAssumption ==
    TX_NUM_FD \in Nat \ {0} /\ RX_NUM_FD \in Nat \ {0} /\ Limit \in Nat \ {0}

VARIABLES
    up,                                \* "down", "up" or "crashed"
    txFd, tx_ready, tx_done, txHW,     \* the transmit ring; where the controller is
    TxComp, BTxEmpty, TxCompIE,        \* BMTXSTAT and BMTXINTEN
    stopped,                           \* netif_queue_stopped
    late,                              \* the queue was stopped after the last completion
    rxFd, rxFrCtl,                     \* the receive ring and its skbs
    rx_done, rx_skb_refill, rxHW,
    RxStat, RxIE, BRxEN,               \* BMRXSTAT, BMRXINTEN, the receiver is on
    poll, received                     \* poll: off, scheduled or under way

tx == <<txFd, tx_ready, tx_done, txHW, TxComp, BTxEmpty, TxCompIE, stopped, late>>
rx == <<rxFd, rxFrCtl, rx_done, rx_skb_refill, rxHW, RxStat, RxIE, BRxEN, poll, received>>
vars == <<up, tx, rx>>

TxSlot == 0 .. TX_NUM_FD - 1
RxSlot == 0 .. RX_NUM_FD - 1

TypeOK ==
    /\ up \in {"down", "up", "crashed"}
    /\ txFd \in [TxSlot -> {"free", "owned", "complete"}]
    /\ tx_ready \in TxSlot /\ tx_done \in TxSlot /\ txHW \in TxSlot
    /\ TxComp \in BOOLEAN /\ BTxEmpty \in BOOLEAN /\ TxCompIE \in BOOLEAN
    /\ stopped \in BOOLEAN /\ late \in BOOLEAN
    /\ rxFd \in [RxSlot -> {"zero", "owned", "done", "error"}]
    /\ rxFrCtl \in [RxSlot -> BOOLEAN]
    /\ rx_done \in RxSlot /\ rx_skb_refill \in RxSlot /\ rxHW \in RxSlot
    /\ RxStat \subseteq {"BRxDone", "BRxNO"}
    /\ RxIE \in BOOLEAN /\ BRxEN \in BOOLEAN
    /\ poll \in {"off", "scheduled", "scan", "end"} /\ received \in 0 .. Limit

\* The rings of an interface that is down, or has just been set up.
TxRing(queue) ==
    /\ txFd' = [i \in TxSlot |-> "free"] /\ tx_ready' = 0 /\ tx_done' = 0 /\ txHW' = 0
    /\ TxComp' = FALSE /\ BTxEmpty' = FALSE /\ TxCompIE' = FALSE
    /\ stopped' = queue /\ late' = FALSE
RxRing(full) ==
    /\ rxFd' = [i \in RxSlot |-> IF full THEN "owned" ELSE "zero"]
    /\ rxFrCtl' = [i \in RxSlot |-> full]
    /\ rx_done' = 0 /\ rx_skb_refill' = 0 /\ rxHW' = 0
    /\ RxStat' = {} /\ RxIE' = full /\ BRxEN' = full

Init ==
    /\ up = "down"
    /\ txFd = [i \in TxSlot |-> "free"] /\ tx_ready = 0 /\ tx_done = 0 /\ txHW = 0
    /\ TxComp = FALSE /\ BTxEmpty = FALSE /\ TxCompIE = FALSE /\ stopped = TRUE /\ late = FALSE
    /\ rxFd = [i \in RxSlot |-> "zero"] /\ rxFrCtl = [i \in RxSlot |-> FALSE]
    /\ rx_done = 0 /\ rx_skb_refill = 0 /\ rxHW = 0
    /\ RxStat = {} /\ RxIE = FALSE /\ BRxEN = FALSE
    /\ poll = "off" /\ received = 0

\* An allocation of s3c2510_open or of the time-out fails.  The loop of SetupRxFDs
\* that should release what there is counts an unsigned index down to below zero;
\* when it is the descriptors themselves that are missing, open goes on without.
NoMemory ==
    /\ up' = "crashed"
    /\ UNCHANGED <<tx, rx>>

----------------------------------------------------------------------------
(* Up, down and the watchdog.                                              *)

s3c2510_open ==
    /\ up = "down"
    /\ \/ NoMemory
       \/ up' = "up" /\ TxRing(FALSE) /\ RxRing(TRUE) /\ UNCHANGED <<poll, received>>

\* The kernel waits for poll to end first.
s3c2510_close ==
    /\ up = "up" /\ poll = "off"
    /\ up' = "down" /\ TxRing(TRUE) /\ RxRing(FALSE) /\ UNCHANGED <<poll, received>>

\* hw_init, remove_skb_in_HW, SetupTxFDs, SetupRxFDs, hw_start: what the rings hold
\* is lost.
s3c2510_tx_timeout ==
    /\ up = "up" /\ stopped /\ poll \in {"off", "scheduled"}
    /\ \/ NoMemory
       \/ TxRing(FALSE) /\ RxRing(TRUE) /\ UNCHANGED <<up, poll, received>>

----------------------------------------------------------------------------
(* Transmit.                                                               *)

\* The controller is started when the descriptor is ready; when the ring is full
\* the packet stays with the kernel and the completion interrupt is enabled.  A
\* packet sent from within rx_done_check, by what netif_receive_skb calls, is taken
\* to be sent after poll, whose receive side shares nothing with transmit.
s3c2510_send_packet ==
    /\ up = "up" /\ ~stopped /\ poll \in {"off", "scheduled"}
    /\ \/ /\ txFd[tx_ready] = "free"
          /\ txFd' = [txFd EXCEPT ![tx_ready] = "owned"]
          /\ tx_ready' = (tx_ready + 1) % TX_NUM_FD
          /\ UNCHANGED <<TxCompIE, stopped, late>>
       \/ /\ txFd[tx_ready] # "free"
          /\ stopped' = TRUE /\ TxCompIE' = TRUE
          /\ late' = (~TxComp /\ \A i \in TxSlot : txFd[i] # "owned")
          /\ UNCHANGED <<txFd, tx_ready>>
    /\ UNCHANGED <<up, tx_done, txHW, TxComp, BTxEmpty, rx>>

\* The controller has sent a frame, or finds that there is none left.
Transmit ==
    /\ up = "up"
    /\ \/ /\ txFd[txHW] = "owned"
          /\ txFd' = [txFd EXCEPT ![txHW] = "complete"]
          /\ txHW' = (txHW + 1) % TX_NUM_FD
          /\ TxComp' = TRUE
          /\ UNCHANGED BTxEmpty
       \/ /\ txFd[txHW] # "owned" /\ TxComp
          /\ BTxEmpty' = TRUE
          /\ UNCHANGED <<txFd, txHW, TxComp>>
    /\ UNCHANGED <<up, tx_ready, tx_done, TxCompIE, stopped, late, rx>>

\* The completed frames from tx_done on are freed, up to the first that is not.
TxFreed ==
    {i \in TxSlot : \A k \in 0 .. (i - tx_done) % TX_NUM_FD :
                        txFd[(tx_done + k) % TX_NUM_FD] = "complete"}
MutTxDone ==
    /\ txFd' = [i \in TxSlot |-> IF txFd[i] = "complete" THEN "free" ELSE txFd[i]]
    /\ tx_done' = (tx_done + 1) % TX_NUM_FD
tx_done_check ==
    /\ txFd' = [i \in TxSlot |-> IF i \in TxFreed THEN "free" ELSE txFd[i]]
    /\ tx_done' = (tx_done + Cardinality(TxFreed)) % TX_NUM_FD

\* All status is acknowledged, and a completion is acted upon only when the queue
\* is stopped.
MutTx ==
    /\ up = "up" /\ poll \in {"off", "scheduled"} /\ (BTxEmpty \/ (TxComp /\ TxCompIE))
    /\ TxComp' = FALSE /\ BTxEmpty' = FALSE
    /\ IF TxComp /\ stopped /\ ~BTxEmpty
       THEN tx_done_check /\ TxCompIE' = FALSE /\ stopped' = FALSE /\ late' = FALSE
       ELSE UNCHANGED <<txFd, tx_done, TxCompIE, stopped, late>>
    /\ UNCHANGED <<up, tx_ready, txHW, rx>>
s3c2510_Tx ==
    /\ up = "up" /\ poll \in {"off", "scheduled"} /\ (BTxEmpty \/ (TxComp /\ TxCompIE))
    /\ TxComp' = FALSE /\ BTxEmpty' = FALSE
    /\ IF TxComp /\ stopped
       THEN tx_done_check /\ TxCompIE' = FALSE /\ stopped' = FALSE /\ late' = FALSE
       ELSE UNCHANGED <<txFd, tx_done, TxCompIE, stopped, late>>
    /\ UNCHANGED <<up, tx_ready, txHW, rx>>

----------------------------------------------------------------------------
(* Receive.                                                                *)

\* A frame comes in: it is good or not, or there is no descriptor for it.
Arrive ==
    /\ up = "up" /\ BRxEN
    /\ \/ /\ rxFd[rxHW] = "owned"
          /\ \E s \in {"done", "error"} : rxFd' = [rxFd EXCEPT ![rxHW] = s]
          /\ rxHW' = (rxHW + 1) % RX_NUM_FD
          /\ RxStat' = RxStat \cup {"BRxDone"}
          /\ UNCHANGED BRxEN
       \/ /\ rxFd[rxHW] # "owned"
          /\ RxStat' = RxStat \cup {"BRxNO"} /\ BRxEN' = FALSE
          /\ UNCHANGED <<rxFd, rxHW>>
    /\ UNCHANGED <<up, tx, rxFrCtl, rx_done, rx_skb_refill, RxIE, poll, received>>

\* BRxDone is not acknowledged here: the interrupt is disabled until poll has run.
s3c2510_Rx ==
    /\ up = "up" /\ poll \in {"off", "scheduled"}
    /\ "BRxNO" \in RxStat \/ ("BRxDone" \in RxStat /\ RxIE)
    /\ RxStat' = RxStat \ {"BRxNO"}
    /\ IF "BRxDone" \in RxStat
       THEN RxIE' = FALSE /\ poll' = IF poll = "off" THEN "scheduled" ELSE poll
       ELSE UNCHANGED <<RxIE, poll>>
    /\ UNCHANGED <<up, tx, rxFd, rxFrCtl, rx_done, rx_skb_refill, rxHW, BRxEN, received>>

\* The start of s3c2510_poll: the status is acknowledged before the ring is looked
\* at, and the transmit ring is cleaned up; the queue is not woken.
s3c2510_poll ==
    /\ up = "up" /\ poll = "scheduled"
    /\ poll' = "scan" /\ received' = 0
    /\ RxStat' = {}
    /\ tx_done_check
    /\ UNCHANGED <<up, tx_ready, txHW, TxComp, BTxEmpty, TxCompIE, stopped, late, rxFd,
                   rxFrCtl, rx_done, rx_skb_refill, rxHW, RxIE, BRxEN>>

\* One turn of the loop of rx_done_check: a good frame goes up with its skb, the
\* skb of a bad one is kept.
Filled == rxFd[rx_done] \in {"done", "error"} /\ received < Limit
rx_done_check ==
    /\ poll = "scan" /\ Filled
    /\ rxFd' = [rxFd EXCEPT ![rx_done] = "zero"]
    /\ IF rxFd[rx_done] = "done"
       THEN rxFrCtl' = [rxFrCtl EXCEPT ![rx_done] = FALSE] /\ received' = received + 1
       ELSE UNCHANGED <<rxFrCtl, received>>
    /\ rx_done' = (rx_done + 1) % RX_NUM_FD
    /\ UNCHANGED <<up, tx, rx_skb_refill, rxHW, RxStat, RxIE, BRxEN, poll>>

\* The last look at the ring; the next frame may come in right after it.
ScanEnd ==
    /\ poll = "scan" /\ ~Filled
    /\ poll' = "end"
    /\ UNCHANGED <<up, tx, rxFd, rxFrCtl, rx_done, rx_skb_refill, rxHW, RxStat, RxIE, BRxEN,
                   received>>

\* The first n empty descriptors from rx_skb_refill on go back to the controller:
\* all of them, or as many as come before an skb that cannot be allocated.
Refillable(n) ==
    LET slot(k) == (rx_skb_refill + k) % RX_NUM_FD
    IN  /\ \A k \in 0 .. n - 1 : rxFd[slot(k)] = "zero"
        /\ \/ n = RX_NUM_FD
           \/ rxFd[slot(n)] # "zero"
           \/ ~rxFrCtl[slot(n)]
rx_refill_skb(n) ==
    LET filled == {(rx_skb_refill + k) % RX_NUM_FD : k \in 0 .. n - 1}
    IN  /\ rxFd' = [i \in RxSlot |-> IF i \in filled THEN "owned" ELSE rxFd[i]]
        /\ rxFrCtl' = [i \in RxSlot |-> rxFrCtl[i] \/ i \in filled]
        /\ rx_skb_refill' = (rx_skb_refill + n) % RX_NUM_FD

\* Refilling waits until a quarter of the ring is empty; a distance of zero stands
\* for none and for all.
RefillDue ==
    LET len == (rx_done - rx_skb_refill) % RX_NUM_FD
    IN  len > RX_NUM_FD \div 4 \/ len = 0

\* The end of s3c2510_poll.  curr_work_limit has been counted down by then, so half
\* of the limit is enough for another round.
MutPollEnd ==
    /\ poll = "end"
    /\ IF RefillDue THEN \E n \in 0 .. RX_NUM_FD : Refillable(n) /\ rx_refill_skb(n)
                    ELSE UNCHANGED <<rxFd, rxFrCtl, rx_skb_refill>>
    /\ IF received >= Limit - received
       THEN poll' = "scheduled" /\ UNCHANGED <<RxIE, BRxEN>>
       ELSE poll' = "off" /\ RxIE' = TRUE /\ BRxEN' = TRUE
    /\ RxStat' = {}
    /\ UNCHANGED <<up, tx, rx_done, rxHW, received>>
PollEnd ==
    /\ poll = "end"
    /\ IF RefillDue THEN \E n \in 0 .. RX_NUM_FD : Refillable(n) /\ rx_refill_skb(n)
                    ELSE UNCHANGED <<rxFd, rxFrCtl, rx_skb_refill>>
    /\ IF received >= Limit - received
       THEN poll' = "scheduled" /\ UNCHANGED <<RxIE, BRxEN>>
       ELSE poll' = "off" /\ RxIE' = TRUE /\ BRxEN' = TRUE
    /\ UNCHANGED <<up, tx, rx_done, rxHW, RxStat, received>>

----------------------------------------------------------------------------
SoftIrq == s3c2510_poll \/ rx_done_check \/ ScanEnd \/ PollEnd

Next ==
    \/ s3c2510_open \/ s3c2510_close \/ s3c2510_tx_timeout
    \/ s3c2510_send_packet \/ Transmit \/ s3c2510_Tx
    \/ Arrive \/ s3c2510_Rx \/ SoftIrq

\* Interrupts are taken, soft interrupts run, and the watchdog's timer expires.
Fairness ==
    /\ WF_vars(s3c2510_Tx) /\ WF_vars(s3c2510_Rx) /\ WF_vars(SoftIrq)
    /\ WF_vars(s3c2510_tx_timeout) /\ WF_vars(Transmit)

Spec == Init /\ [][Next]_vars /\ Fairness

----------------------------------------------------------------------------
(* Properties.                                                             *)

Between(i, from, n, size) == (i - from) % size < n

\* Driver and controller never disagree about who has a descriptor.  The frames
\* from tx_done to tx_ready, and no others, are under way, those the controller has
\* sent before those it has not; the controller owns no receive descriptor without
\* an skb, what it has filled starts at rx_done and what waits for an skb starts at
\* rx_skb_refill, however often allocations failed, frames were bad and the
\* watchdog began anew.
RingsInStep ==
    up = "up" =>
    /\ LET busy == Cardinality({i \in TxSlot : txFd[i] # "free"})
           sent == Cardinality({i \in TxSlot : txFd[i] = "complete"})
       IN  /\ (tx_done + busy) % TX_NUM_FD = tx_ready
           /\ (tx_done + sent) % TX_NUM_FD = txHW
           /\ \A i \in TxSlot : /\ Between(i, tx_done, busy, TX_NUM_FD) <=> txFd[i] # "free"
                                /\ Between(i, tx_done, sent, TX_NUM_FD) <=> txFd[i] = "complete"
    /\ LET zero == {i \in RxSlot : rxFd[i] = "zero"}
           full == {i \in RxSlot : rxFd[i] \in {"done", "error"}}
       IN  /\ \A i \in RxSlot \ zero : rxFrCtl[i]
           /\ (rx_done + Cardinality(full)) % RX_NUM_FD = rxHW
           /\ (rx_skb_refill + Cardinality(zero)) % RX_NUM_FD = rx_done
           /\ \A i \in RxSlot : /\ Between(i, rx_done, Cardinality(full), RX_NUM_FD) <=> i \in full
                                /\ Between(i, rx_skb_refill, Cardinality(zero), RX_NUM_FD) <=> i \in zero

\* A stopped transmit queue is woken by a completion: one is pending with its
\* interrupt enabled, or there is a frame still to be sent.  Poll may have freed the
\* whole ring meanwhile, and any interrupt may have been acknowledged.  The exception
\* is a queue stopped after its last frame was sent and that completion acknowledged
\* by the interrupt for an empty ring: it waits for the watchdog.
CompletionWakesQueue ==
    up = "up" /\ stopped /\ ~late =>
        TxCompIE /\ (TxComp \/ \E i \in TxSlot : txFd[i] = "owned")

\* A received frame is taken off the ring, also when it comes in between poll's last
\* look at the ring and its enabling the interrupt.  Descriptor 0 stands for each.
FrameTaken ==
    rxFd[0] \in {"done", "error"} ~> rxFd[0] \notin {"done", "error"} \/ up # "up"
=============================================================================
