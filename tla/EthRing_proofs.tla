--------------------------- MODULE EthRing_proofs ---------------------------
(***************************************************************************)
(* Two invariants of the Ethernet driver, for rings of every size.         *)
(*                                                                         *)
(* A stopped transmit queue is woken: the argument follows the descriptors *)
(* that the controller owns, of which neither poll nor an interrupt takes  *)
(* one away.                                                               *)
(*                                                                         *)
(* Driver and controller agree about the descriptors: a ring is a word of  *)
(* two or three kinds of descriptor read from one position on, and a step  *)
(* moves a boundary of that word.  Positions are compared by how far they  *)
(* lie apart around the ring.                                              *)
(***************************************************************************)
EXTENDS EthRing, FiniteSetTheorems, FunctionTheorems, TLAPS

TxType ==
    /\ txFd \in [TxSlot -> {"free", "owned", "complete"}]
    /\ tx_ready \in TxSlot /\ tx_done \in TxSlot /\ txHW \in TxSlot

TxInv == TxType /\ CompletionWakesQueue

\* The distance from b to a around a ring of N leads from b to a.
LEMMA AroundTheRing ==
    ASSUME NEW N \in Nat \ {0}, NEW a \in 0 .. N - 1, NEW b \in 0 .. N - 1
    PROVE  /\ (a - b) % N \in 0 .. N - 1
           /\ (b + ((a - b) % N)) % N = a
<1>1. CASE a >= b
  <2>1. (a - b) % N = a - b
      BY <1>1
  <2> QED
      BY <1>1, <2>1
<1>2. CASE a < b
  <2>1. (a - b) % N = a - b + N
      BY <1>2
  <2>2. b + (a - b + N) = a + N
      OBVIOUS
  <2>3. (a + N) % N = a
      OBVIOUS
  <2>4. a - b + N \in 0 .. N - 1
      BY <1>2
  <2> QED
      BY <2>1, <2>2, <2>3, <2>4
<1> QED
    BY <1>1, <1>2

\* tx_done_check frees only what the controller has sent.
LEMMA FreedIsComplete == ASSUME TxType, NEW i \in TxFreed PROVE txFd[i] = "complete"
<1>1. TX_NUM_FD \in Nat \ {0} /\ i \in 0 .. TX_NUM_FD - 1 /\ tx_done \in 0 .. TX_NUM_FD - 1
    BY EthAssumption DEF TxFreed, TxType, TxSlot
<1>2. PICK k : k = (i - tx_done) % TX_NUM_FD
    OBVIOUS
<1>3. k \in 0 .. TX_NUM_FD - 1
    BY <1>1, <1>2, AroundTheRing
<1>4. (tx_done + k) % TX_NUM_FD = i
    BY <1>1, <1>2, AroundTheRing
<1>5. \A j \in 0 .. k : txFd[(tx_done + j) % TX_NUM_FD] = "complete"
    BY <1>2 DEF TxFreed
<1>6. k \in 0 .. k
    BY <1>3
<1>7. txFd[(tx_done + k) % TX_NUM_FD] = "complete"
    BY <1>5, <1>6, Zenon
<1> QED
    BY <1>4, <1>7, Zenon

LEMMA DoneCheck ==
    ASSUME TxType, tx_done_check
    PROVE  /\ txFd' \in [TxSlot -> {"free", "owned", "complete"}]
           /\ tx_done' \in TxSlot
           /\ \A i \in TxSlot : txFd[i] = "owned" => txFd'[i] = "owned"
<1>1. IsFiniteSet(TxSlot) /\ TxFreed \in SUBSET TxSlot
    BY EthAssumption, FS_Interval DEF TxSlot, TxFreed
<1>2. Cardinality(TxFreed) \in Nat
    BY <1>1, FS_Subset, FS_CardinalityType
<1>3. tx_done' \in TxSlot
  <2>1. tx_done + Cardinality(TxFreed) \in Nat /\ TX_NUM_FD \in Nat \ {0}
      BY <1>2, EthAssumption DEF TxType, TxSlot
  <2> QED
      BY <2>1 DEF tx_done_check, TxSlot
<1>4. txFd' \in [TxSlot -> {"free", "owned", "complete"}]
    BY DEF TxType, tx_done_check
<1>5. ASSUME NEW i \in TxSlot, txFd[i] = "owned" PROVE txFd'[i] = "owned"
  <2>1. i \notin TxFreed
      BY <1>5, FreedIsComplete
  <2> QED
      BY <1>5, <2>1 DEF tx_done_check
<1> QED
    BY <1>3, <1>4, <1>5

LEMMA TxRingInv == ASSUME NEW q, TxRing(q), ~q \/ up' # "up" PROVE TxInv'
<1>1. 0 \in TxSlot
    BY EthAssumption DEF TxSlot
<1> QED
    BY <1>1 DEF TxRing, TxInv, TxType, CompletionWakesQueue

LEMMA TxInit == Init => TxInv
<1>1. 0 \in TxSlot
    BY EthAssumption DEF TxSlot
<1> QED
    BY <1>1 DEF Init, TxInv, TxType, CompletionWakesQueue

\* What leaves the transmit ring alone, and does not bring the interface up.
LEMMA TxSame == ASSUME TxInv, UNCHANGED tx, up' = up \/ up' # "up" PROVE TxInv'
  BY DEF tx, TxInv, TxType, CompletionWakesQueue

LEMMA NextSlot == ASSUME NEW i \in TxSlot PROVE (i + 1) % TX_NUM_FD \in TxSlot
  BY EthAssumption DEF TxSlot

\* When the queue is stopped, a frame is still to be sent or a completion is
\* pending, or it is late.
LEMMA SendPacket == ASSUME TxInv, s3c2510_send_packet PROVE TxInv'
<1> USE DEF TxInv, TxType
<1>1. CASE UNCHANGED <<TxCompIE, stopped, late>>
  <2>1. TxType'
      BY <1>1, NextSlot DEF s3c2510_send_packet
  <2> QED
      BY <1>1, <2>1 DEF s3c2510_send_packet, CompletionWakesQueue
<1>2. CASE /\ stopped' = TRUE /\ TxCompIE' = TRUE
           /\ late' = (~TxComp /\ \A i \in TxSlot : txFd[i] # "owned")
           /\ UNCHANGED <<txFd, tx_ready>>
    BY <1>2 DEF s3c2510_send_packet, CompletionWakesQueue
<1> QED
    BY <1>1, <1>2 DEF s3c2510_send_packet

LEMMA TransmitLemma == ASSUME TxInv, Transmit PROVE TxInv'
<1> USE DEF TxInv, TxType
<1>1. CASE TxComp' = TRUE
  <2>1. TxType'
      BY NextSlot DEF Transmit
  <2> QED
      BY <1>1, <2>1 DEF Transmit, CompletionWakesQueue
<1>2. CASE UNCHANGED <<txFd, txHW, TxComp>>
    BY <1>2 DEF Transmit, CompletionWakesQueue
<1> QED
    BY <1>1, <1>2 DEF Transmit

LEMMA TxInterrupt == ASSUME TxInv, s3c2510_Tx PROVE TxInv'
<1> USE DEF TxInv, TxType
<1>1. CASE TxComp /\ stopped
    BY <1>1, DoneCheck DEF s3c2510_Tx, CompletionWakesQueue
<1>2. CASE ~(TxComp /\ stopped)
    BY <1>2 DEF s3c2510_Tx, CompletionWakesQueue
<1> QED
    BY <1>1, <1>2

LEMMA PollStart == ASSUME TxInv, s3c2510_poll PROVE TxInv'
<1> USE DEF TxInv, TxType
<1>1. TxType'
    BY DoneCheck DEF s3c2510_poll
<1>2. \A i \in TxSlot : txFd[i] = "owned" => txFd'[i] = "owned"
    BY DoneCheck DEF s3c2510_poll
<1> QED
    BY <1>1, <1>2 DEF s3c2510_poll, CompletionWakesQueue

LEMMA TxStep == TxInv /\ [Next]_vars => TxInv'
<1> SUFFICES ASSUME TxInv, [Next]_vars PROVE TxInv'
    OBVIOUS
<1>1. CASE s3c2510_open
    BY <1>1, TxRingInv, TxSame DEF s3c2510_open, NoMemory
<1>2. CASE s3c2510_close
    BY <1>2, TxRingInv DEF s3c2510_close
<1>3. CASE s3c2510_tx_timeout
    BY <1>3, TxRingInv, TxSame DEF s3c2510_tx_timeout, NoMemory
<1>4. CASE s3c2510_send_packet
    BY <1>4, SendPacket
<1>5. CASE Transmit
    BY <1>5, TransmitLemma
<1>6. CASE s3c2510_Tx
    BY <1>6, TxInterrupt
<1>7. CASE Arrive \/ s3c2510_Rx
    BY <1>7, TxSame DEF Arrive, s3c2510_Rx
<1>8. CASE s3c2510_poll
    BY <1>8, PollStart
<1>9. CASE rx_done_check \/ ScanEnd \/ PollEnd
    BY <1>9, TxSame DEF rx_done_check, ScanEnd, PollEnd
<1>10. CASE UNCHANGED vars
    BY <1>10, TxSame DEF vars
<1> QED
    BY <1>1, <1>2, <1>3, <1>4, <1>5, <1>6, <1>7, <1>8, <1>9, <1>10 DEF Next, SoftIrq

\* Unless it was stopped too late for its last completion, a stopped queue has a
\* completion pending with its interrupt enabled, or a frame that will cause one;
\* for rings of every size (s3c2510_send_packet, s3c2510_Tx, s3c2510_poll).
THEOREM QueueIsWoken == Spec => []CompletionWakesQueue
<1>1. TxInv => CompletionWakesQueue
    BY DEF TxInv
<1> QED
    BY <1>1, TxInit, TxStep, PTL DEF Spec

----------------------------------------------------------------------------
(* Positions on a ring of N descriptors, and arcs of it.                   *)

Ring(N) == 0 .. N - 1
Step(a, k, N) == (a + k) % N
Dist(i, a, N) == (i - a) % N

\* The descriptors that lie less than n from a.
Arc(a, n, N) == {i \in Ring(N) : Dist(i, a, N) < n}

\* The modulo is one subtraction or none.
LEMMA StepValue ==
    ASSUME NEW N \in Nat \ {0}, NEW a \in Ring(N), NEW k \in 0 .. N
    PROVE  /\ Step(a, k, N) = IF a + k < N THEN a + k ELSE a + k - N
           /\ Step(a, k, N) \in Ring(N)
<1>1. a \in Nat /\ k \in Nat /\ a < N /\ k <= N
    BY DEF Ring
<1>2. CASE a + k < N
    BY <1>1, <1>2 DEF Step, Ring
<1>3. CASE a + k >= N
    BY <1>1, <1>3 DEF Step, Ring
<1> QED
    BY <1>1, <1>2, <1>3

LEMMA DistValue ==
    ASSUME NEW N \in Nat \ {0}, NEW a \in Ring(N), NEW i \in Ring(N)
    PROVE  /\ Dist(i, a, N) = IF i >= a THEN i - a ELSE i - a + N
           /\ Dist(i, a, N) \in Ring(N)
<1>1. a \in Nat /\ i \in Nat /\ a < N /\ i < N
    BY DEF Ring
<1>2. CASE i >= a
    BY <1>1, <1>2 DEF Dist, Ring
<1>3. CASE i < a
    BY <1>1, <1>3 DEF Dist, Ring
<1> QED
    BY <1>1, <1>2, <1>3

\* Dist undoes Step: k from a is the one descriptor at distance k.
LEMMA DistStep ==
    ASSUME NEW N \in Nat \ {0}, NEW a \in Ring(N), NEW k \in Ring(N)
    PROVE  Dist(Step(a, k, N), a, N) = k
<1>1. a \in Nat /\ k \in Nat /\ a < N /\ k < N /\ k \in 0 .. N
    BY DEF Ring
<1> DEFINE s == Step(a, k, N)
<1>2. s = (IF a + k < N THEN a + k ELSE a + k - N) /\ s \in Ring(N)
    BY <1>1, StepValue
<1> HIDE DEF s
<1>3. Dist(s, a, N) = IF s >= a THEN s - a ELSE s - a + N
    BY <1>2, DistValue
<1>4. Dist(s, a, N) = k
    BY <1>1, <1>2, <1>3
<1> QED
    BY <1>4 DEF s

LEMMA StepDist ==
    ASSUME NEW N \in Nat \ {0}, NEW a \in Ring(N), NEW i \in Ring(N)
    PROVE  Step(a, Dist(i, a, N), N) = i
<1>1. a \in Nat /\ i \in Nat /\ a < N /\ i < N
    BY DEF Ring
<1> DEFINE d == Dist(i, a, N)
<1>2. d = (IF i >= a THEN i - a ELSE i - a + N) /\ d \in Ring(N)
    BY DistValue
<1> HIDE DEF d
<1>3. d \in 0 .. N /\ d \in Nat
    BY <1>2 DEF Ring
<1>4. Step(a, d, N) = IF a + d < N THEN a + d ELSE a + d - N
    BY <1>3, StepValue
<1>5. Step(a, d, N) = i
    BY <1>1, <1>2, <1>3, <1>4
<1> QED
    BY <1>5 DEF d

\* Steps add up, up to once around the ring.
LEMMA StepStep ==
    ASSUME NEW N \in Nat \ {0}, NEW a \in Ring(N), NEW k \in Nat, NEW m \in Nat, k + m <= N
    PROVE  Step(Step(a, k, N), m, N) = Step(a, k + m, N)
<1>1. a \in Nat /\ a < N /\ k \in 0 .. N /\ m \in 0 .. N /\ k + m \in 0 .. N
    BY DEF Ring
<1> DEFINE s == Step(a, k, N)
           t == Step(a, k + m, N)
           j == k + m
<1>2. s = (IF a + k < N THEN a + k ELSE a + k - N) /\ s \in Ring(N)
    BY <1>1, StepValue
<1>3. j \in 0 .. N /\ j = k + m
    BY <1>1
<1>4. t = IF a + j < N THEN a + j ELSE a + j - N
  <2> HIDE DEF j
  <2>1. Step(a, j, N) = IF a + j < N THEN a + j ELSE a + j - N
      BY <1>3, StepValue
  <2> QED
      BY <2>1 DEF j
<1> HIDE DEF s, t, j
<1>5. s \in Nat
    BY <1>2 DEF Ring
<1>6. Step(s, m, N) = IF s + m < N THEN s + m ELSE s + m - N
    BY <1>1, <1>2, StepValue
<1>7. Step(s, m, N) = t
    BY <1>1, <1>2, <1>3, <1>4, <1>5, <1>6
<1> QED
    BY <1>7 DEF s, t

\* Distances from a position k further on.
LEMMA DistShift ==
    ASSUME NEW N \in Nat \ {0}, NEW a \in Ring(N), NEW k \in 0 .. N, NEW i \in Ring(N)
    PROVE  Dist(i, Step(a, k, N), N) =
               IF Dist(i, a, N) >= k THEN Dist(i, a, N) - k ELSE Dist(i, a, N) - k + N
<1>1. a \in Nat /\ i \in Nat /\ a < N /\ i < N /\ k \in Nat /\ k <= N
    BY DEF Ring
<1> DEFINE s == Step(a, k, N)
           d == Dist(i, a, N)
<1>2. s = (IF a + k < N THEN a + k ELSE a + k - N) /\ s \in Ring(N)
    BY StepValue
<1>3. d = (IF i >= a THEN i - a ELSE i - a + N) /\ d \in Ring(N)
    BY DistValue
<1> HIDE DEF s, d
<1>4. s \in Nat /\ d \in Nat /\ d < N
    BY <1>2, <1>3 DEF Ring
<1>5. Dist(i, s, N) = IF i >= s THEN i - s ELSE i - s + N
    BY <1>2, DistValue
<1>6. Dist(i, s, N) = IF d >= k THEN d - k ELSE d - k + N
    BY <1>1, <1>2, <1>3, <1>4, <1>5
<1> QED
    BY <1>6 DEF s, d

\* An arc has as many descriptors as its length says.
LEMMA ArcCardinality ==
    ASSUME NEW N \in Nat \ {0}, NEW a \in Ring(N), NEW n \in 0 .. N
    PROVE  Cardinality(Arc(a, n, N)) = n
<1> DEFINE A == Arc(a, n, N)
           F == [k \in 1 .. n |-> Step(a, k - 1, N)]
<1>1. \A k \in 1 .. n : k - 1 \in Ring(N) /\ k - 1 \in 0 .. N /\ k - 1 < n /\ k \in Int
    BY DEF Ring
<1>2. \A k \in 1 .. n : Step(a, k - 1, N) \in Ring(N) /\ Dist(Step(a, k - 1, N), a, N) = k - 1
  <2> TAKE k \in 1 .. n
  <2> DEFINE j == k - 1
  <2>1. j \in Ring(N) /\ j \in 0 .. N
      BY <1>1
  <2> HIDE DEF j
  <2>2. Step(a, j, N) \in Ring(N) /\ Dist(Step(a, j, N), a, N) = j
      BY <2>1, StepValue, DistStep
  <2> QED
      BY <2>2 DEF j
<1>3. F \in [1 .. n -> A]
  <2>1. ASSUME NEW k \in 1 .. n PROVE Step(a, k - 1, N) \in A
      BY <1>1, <1>2 DEF Arc
  <2> QED
      BY <2>1
<1>4. \A k \in 1 .. n : F[k] = Step(a, k - 1, N)
    OBVIOUS
<1> HIDE DEF F
<1>5. ASSUME NEW k \in 1 .. n, NEW m \in 1 .. n, F[k] = F[m] PROVE k = m
  <2>1. k - 1 = m - 1
      BY <1>2, <1>4, <1>5
  <2> QED
      BY <1>1, <2>1
<1>6. ASSUME NEW i \in A PROVE \E k \in 1 .. n : F[k] = i
  <2> DEFINE d == Dist(i, a, N)
  <2>1. i \in Ring(N) /\ d < n
      BY DEF Arc
  <2>2. d \in Ring(N) /\ Step(a, d, N) = i
      BY <2>1, DistValue, StepDist
  <2> HIDE DEF d
  <2>3. d + 1 \in 1 .. n /\ (d + 1) - 1 = d
      BY <2>1, <2>2 DEF Ring
  <2> QED
      BY <1>4, <2>2, <2>3
<1> HIDE DEF A
<1>7. F \in Bijection(1 .. n, A)
    BY <1>3, <1>5, <1>6, Fun_IsBij
<1>8. ExistsBijection(1 .. n, A) /\ n \in Nat
    BY <1>7, Fun_ExistsBij
<1> QED
    BY <1>8, FS_CountingElements DEF A

----------------------------------------------------------------------------
(* The transmit ring: from done on, c descriptors are complete, the next   *)
(* up to b are the controller's and the rest is free.                      *)

TxOf(d, b, c) == IF d < c THEN "complete" ELSE IF d < b THEN "owned" ELSE "free"

TxShape(fd, ready, done, hw, b, c) ==
    /\ b \in 0 .. TX_NUM_FD /\ c \in 0 .. b
    /\ fd \in [Ring(TX_NUM_FD) -> {"free", "owned", "complete"}]
    /\ done \in Ring(TX_NUM_FD)
    /\ ready = Step(done, b, TX_NUM_FD) /\ hw = Step(done, c, TX_NUM_FD)
    /\ \A i \in Ring(TX_NUM_FD) : fd[i] = TxOf(Dist(i, done, TX_NUM_FD), b, c)

\* An empty ring.
LEMMA TxShapeEmpty ==
    TxShape([i \in TxSlot |-> "free"], 0, 0, 0, 0, 0)
<1>1. TX_NUM_FD \in Nat \ {0} /\ TxSlot = Ring(TX_NUM_FD) /\ 0 \in Ring(TX_NUM_FD)
      /\ 0 \in 0 .. TX_NUM_FD
    BY EthAssumption DEF TxSlot, Ring
<1>2. Step(0, 0, TX_NUM_FD) = 0
    BY <1>1, StepValue
<1>3. ASSUME NEW i \in Ring(TX_NUM_FD)
      PROVE  TxOf(Dist(i, 0, TX_NUM_FD), 0, 0) = "free"
  <2>1. Dist(i, 0, TX_NUM_FD) \in Ring(TX_NUM_FD)
      BY <1>1, DistValue
  <2> QED
      BY <2>1 DEF TxOf, Ring
<1> QED
    BY <1>1, <1>2, <1>3 DEF TxShape

\* The descriptors k after done, of a ring of that shape.
LEMMA TxShapeAt ==
    ASSUME NEW fd, NEW ready, NEW done, NEW hw, NEW b, NEW c,
           TxShape(fd, ready, done, hw, b, c), NEW k \in Ring(TX_NUM_FD)
    PROVE  /\ Step(done, k, TX_NUM_FD) \in Ring(TX_NUM_FD)
           /\ fd[Step(done, k, TX_NUM_FD)] = TxOf(k, b, c)
<1>1. TX_NUM_FD \in Nat \ {0} /\ done \in Ring(TX_NUM_FD) /\ k \in 0 .. TX_NUM_FD
    BY EthAssumption DEF TxShape, Ring
<1>2. Step(done, k, TX_NUM_FD) \in Ring(TX_NUM_FD)
      /\ Dist(Step(done, k, TX_NUM_FD), done, TX_NUM_FD) = k
    BY <1>1, StepValue, DistStep
<1> QED
    BY <1>2 DEF TxShape

\* A full turn of the ring leads back.
LEMMA StepFull ==
    ASSUME NEW N \in Nat \ {0}, NEW a \in Ring(N)
    PROVE  Step(a, N, N) = a /\ Step(a, 0, N) = a
<1>1. N \in 0 .. N /\ 0 \in 0 .. N /\ a \in Nat /\ a < N
    BY DEF Ring
<1>2. Step(a, N, N) = IF a + N < N THEN a + N ELSE a + N - N
    BY <1>1, StepValue
<1>3. Step(a, 0, N) = IF a + 0 < N THEN a + 0 ELSE a + 0 - N
    BY <1>1, StepValue
<1> QED
    BY <1>1, <1>2, <1>3

\* A frame is given to the controller.
LEMMA TxShapeSend ==
    ASSUME NEW fd, NEW ready, NEW done, NEW hw, NEW b, NEW c,
           TxShape(fd, ready, done, hw, b, c), fd[ready] = "free"
    PROVE  TxShape([fd EXCEPT ![ready] = "owned"], Step(ready, 1, TX_NUM_FD), done, hw, b + 1, c)
<1>1. /\ TX_NUM_FD \in Nat \ {0} /\ done \in Ring(TX_NUM_FD) /\ b \in Nat /\ c \in Nat /\ c <= b
      /\ b <= TX_NUM_FD /\ b \in 0 .. TX_NUM_FD
    BY EthAssumption DEF TxShape, Ring
<1>2. ready = Step(done, b, TX_NUM_FD) /\ ready \in Ring(TX_NUM_FD)
    BY <1>1, StepValue DEF TxShape
<1>3. b < TX_NUM_FD
  <2>1. SUFFICES ASSUME b = TX_NUM_FD PROVE FALSE
      BY <1>1
  <2>2. ready = Step(done, 0, TX_NUM_FD) /\ 0 \in Ring(TX_NUM_FD)
      BY <1>1, <1>2, <2>1, StepFull DEF Ring
  <2>3. fd[ready] = TxOf(0, b, c)
      BY <2>2, TxShapeAt
  <2> QED
      BY <1>1, <2>1, <2>3 DEF TxOf
<1> DEFINE g == [fd EXCEPT ![ready] = "owned"]
<1>4. /\ g \in [Ring(TX_NUM_FD) -> {"free", "owned", "complete"}]
      /\ g[ready] = "owned" /\ \A i \in Ring(TX_NUM_FD) : i # ready => g[i] = fd[i]
    BY <1>2 DEF TxShape
<1> HIDE DEF g
<1>5. Step(ready, 1, TX_NUM_FD) = Step(done, b + 1, TX_NUM_FD)
    BY <1>1, <1>2, <1>3, StepStep
<1>6. ASSUME NEW i \in Ring(TX_NUM_FD)
      PROVE  g[i] = TxOf(Dist(i, done, TX_NUM_FD), b + 1, c)
  <2> DEFINE d == Dist(i, done, TX_NUM_FD)
  <2>1. d \in Ring(TX_NUM_FD) /\ i = Step(done, d, TX_NUM_FD)
      BY <1>1, DistValue, StepDist
  <2>2. fd[i] = TxOf(d, b, c)
      BY DEF TxShape
  <2>3. b \in Ring(TX_NUM_FD)
      BY <1>1, <1>3 DEF Ring
  <2>4. Dist(ready, done, TX_NUM_FD) = b
      BY <1>1, <1>2, <2>3, DistStep
  <2>5. i = ready => d = b
      BY <2>4
  <2> HIDE DEF d
  <2>6. d \in Nat
      BY <2>1 DEF Ring
  <2>7. CASE i = ready
    <3>1. TxOf(d, b + 1, c) = "owned"
        BY <1>1, <2>5, <2>7 DEF TxOf
    <3> QED
        BY <1>4, <2>7, <3>1 DEF d
  <2>8. CASE i # ready
    <3>1. d # b
        BY <1>2, <2>1, <2>8
    <3>2. TxOf(d, b + 1, c) = TxOf(d, b, c)
        BY <1>1, <2>6, <3>1 DEF TxOf
    <3> QED
        BY <1>4, <2>2, <2>8, <3>2 DEF d
  <2> QED
      BY <2>7, <2>8
<1>7. b + 1 \in 0 .. TX_NUM_FD /\ c \in 0 .. b + 1
    BY <1>1, <1>3
<1>8. hw = Step(done, c, TX_NUM_FD)
    BY DEF TxShape
<1>9. TxShape(g, Step(ready, 1, TX_NUM_FD), done, hw, b + 1, c)
    BY <1>1, <1>4, <1>5, <1>6, <1>7, <1>8 DEF TxShape
<1> QED
    BY <1>9 DEF g

\* The controller has sent a frame.
LEMMA TxShapeTransmit ==
    ASSUME NEW fd, NEW ready, NEW done, NEW hw, NEW b, NEW c,
           TxShape(fd, ready, done, hw, b, c), fd[hw] = "owned"
    PROVE  TxShape([fd EXCEPT ![hw] = "complete"], ready, done, Step(hw, 1, TX_NUM_FD), b, c + 1)
<1>1. /\ TX_NUM_FD \in Nat \ {0} /\ done \in Ring(TX_NUM_FD) /\ b \in Nat /\ c \in Nat /\ c <= b
      /\ b <= TX_NUM_FD /\ b \in 0 .. TX_NUM_FD /\ c \in 0 .. TX_NUM_FD
    BY EthAssumption DEF TxShape, Ring
<1>2. hw = Step(done, c, TX_NUM_FD) /\ hw \in Ring(TX_NUM_FD)
    BY <1>1, StepValue DEF TxShape
<1>3. c < b
  <2>1. CASE c < TX_NUM_FD
    <3>1. fd[hw] = TxOf(c, b, c)
      <4>1. c \in Ring(TX_NUM_FD)
          BY <1>1, <2>1 DEF Ring
      <4> QED
          BY <1>2, <4>1, TxShapeAt
    <3> QED
        BY <1>1, <3>1 DEF TxOf
  <2>2. CASE c = TX_NUM_FD
    <3>1. hw = Step(done, 0, TX_NUM_FD) /\ 0 \in Ring(TX_NUM_FD)
        BY <1>1, <1>2, <2>2, StepFull DEF Ring
    <3>2. fd[hw] = TxOf(0, b, c)
        BY <3>1, TxShapeAt
    <3> QED
        BY <1>1, <2>2, <3>2 DEF TxOf
  <2> QED
      BY <1>1, <2>1, <2>2
<1> DEFINE g == [fd EXCEPT ![hw] = "complete"]
<1>4. /\ g \in [Ring(TX_NUM_FD) -> {"free", "owned", "complete"}]
      /\ g[hw] = "complete" /\ \A i \in Ring(TX_NUM_FD) : i # hw => g[i] = fd[i]
    BY <1>2 DEF TxShape
<1> HIDE DEF g
<1>5. Step(hw, 1, TX_NUM_FD) = Step(done, c + 1, TX_NUM_FD)
    BY <1>1, <1>2, <1>3, StepStep
<1>6. ASSUME NEW i \in Ring(TX_NUM_FD)
      PROVE  g[i] = TxOf(Dist(i, done, TX_NUM_FD), b, c + 1)
  <2> DEFINE d == Dist(i, done, TX_NUM_FD)
  <2>1. d \in Ring(TX_NUM_FD) /\ i = Step(done, d, TX_NUM_FD)
      BY <1>1, DistValue, StepDist
  <2>2. fd[i] = TxOf(d, b, c)
      BY DEF TxShape
  <2>3. c \in Ring(TX_NUM_FD)
      BY <1>1, <1>3 DEF Ring
  <2>4. Dist(hw, done, TX_NUM_FD) = c
      BY <1>1, <1>2, <2>3, DistStep
  <2>5. i = hw => d = c
      BY <2>4
  <2> HIDE DEF d
  <2>6. d \in Nat
      BY <2>1 DEF Ring
  <2>7. CASE i = hw
    <3>1. TxOf(d, b, c + 1) = "complete"
        BY <1>1, <2>5, <2>7 DEF TxOf
    <3> QED
        BY <1>4, <2>7, <3>1 DEF d
  <2>8. CASE i # hw
    <3>1. d # c
        BY <1>2, <2>1, <2>8
    <3>2. TxOf(d, b, c + 1) = TxOf(d, b, c)
        BY <1>1, <2>6, <3>1 DEF TxOf
    <3> QED
        BY <1>4, <2>2, <2>8, <3>2 DEF d
  <2> QED
      BY <2>7, <2>8
<1>7. c + 1 \in 0 .. b
    BY <1>1, <1>3
<1>8. ready = Step(done, b, TX_NUM_FD)
    BY DEF TxShape
<1>9. TxShape(g, ready, done, Step(hw, 1, TX_NUM_FD), b, c + 1)
    BY <1>1, <1>4, <1>5, <1>6, <1>7, <1>8 DEF TxShape
<1> QED
    BY <1>9 DEF g

\* The descriptors whose frames have been sent are freed.
LEMMA TxShapeFree ==
    ASSUME NEW fd, NEW ready, NEW done, NEW hw, NEW b, NEW c,
           TxShape(fd, ready, done, hw, b, c)
    PROVE  TxShape([i \in Ring(TX_NUM_FD) |->
                        IF i \in Arc(done, c, TX_NUM_FD) THEN "free" ELSE fd[i]],
                   ready, Step(done, c, TX_NUM_FD), hw, b - c, 0)
<1> DEFINE done2 == Step(done, c, TX_NUM_FD)
           k == b - c
           g == [i \in Ring(TX_NUM_FD) |->
                     IF i \in Arc(done, c, TX_NUM_FD) THEN "free" ELSE fd[i]]
<1>1. /\ TX_NUM_FD \in Nat \ {0} /\ done \in Ring(TX_NUM_FD) /\ b \in Nat /\ c \in Nat /\ c <= b
      /\ b <= TX_NUM_FD /\ c \in 0 .. TX_NUM_FD /\ k \in Nat /\ k \in 0 .. TX_NUM_FD
      /\ k = b - c /\ c + k = b /\ c + k <= TX_NUM_FD /\ 0 \in 0 .. k
    BY EthAssumption DEF TxShape, Ring
<1>2. done2 \in Ring(TX_NUM_FD)
    BY <1>1, StepValue
<1>3. ready = Step(done2, k, TX_NUM_FD)
  <2> HIDE DEF k
  <2>1. Step(Step(done, c, TX_NUM_FD), k, TX_NUM_FD) = Step(done, c + k, TX_NUM_FD)
      BY <1>1, StepStep
  <2> QED
      BY <1>1, <2>1 DEF TxShape
<1>4. hw = Step(done2, 0, TX_NUM_FD)
    BY <1>1, <1>2, StepFull DEF TxShape
<1>5. g \in [Ring(TX_NUM_FD) -> {"free", "owned", "complete"}]
    BY DEF TxShape
<1>6. ASSUME NEW i \in Ring(TX_NUM_FD)
      PROVE  g[i] = TxOf(Dist(i, done2, TX_NUM_FD), k, 0)
  <2> DEFINE d == Dist(i, done, TX_NUM_FD)
             e == Dist(i, done2, TX_NUM_FD)
  <2>1. d \in Ring(TX_NUM_FD)
      BY <1>1, DistValue
  <2>2. e = IF d >= c THEN d - c ELSE d - c + TX_NUM_FD
      BY <1>1, DistShift
  <2>3. fd[i] = TxOf(d, b, c)
      BY DEF TxShape
  <2>4. g[i] = IF d < c THEN "free" ELSE fd[i]
      BY DEF Arc
  <2> HIDE DEF d, e, g, k
  <2>5. d \in Nat /\ d < TX_NUM_FD
      BY <1>1, <2>1 DEF Ring
  <2>6. CASE d < c
    <3>1. ~(e < k) /\ ~(e < 0)
        BY <1>1, <2>2, <2>5, <2>6
    <3> QED
        BY <2>4, <2>6, <3>1 DEF TxOf, e
  <2>7. CASE d >= c
    <3>1. (e < k <=> d < b) /\ ~(e < 0)
        BY <1>1, <2>2, <2>5, <2>7
    <3>2. ~(d < c)
        BY <1>1, <2>5, <2>7
    <3>3. TxOf(e, k, 0) = TxOf(d, b, c)
        BY <3>1, <3>2 DEF TxOf
    <3> QED
        BY <2>3, <2>4, <3>2, <3>3 DEF e
  <2> QED
      BY <1>1, <2>5, <2>6, <2>7
<1> HIDE DEF g, k, done2
<1>7. TxShape(g, ready, done2, hw, k, 0)
    BY <1>1, <1>2, <1>3, <1>4, <1>5, <1>6 DEF TxShape
<1> QED
    BY <1>7 DEF g, done2, k

\* tx_done_check stops at the first descriptor that is not complete.
LEMMA TxFreedArc ==
    ASSUME NEW b, NEW c, TxShape(txFd, tx_ready, tx_done, txHW, b, c)
    PROVE  TxFreed = Arc(tx_done, c, TX_NUM_FD)
<1>1. /\ TX_NUM_FD \in Nat \ {0} /\ tx_done \in Ring(TX_NUM_FD) /\ c \in Nat /\ c <= TX_NUM_FD
      /\ TxSlot = Ring(TX_NUM_FD)
    BY EthAssumption DEF TxShape, Ring, TxSlot
<1>2. TxFreed = {i \in Ring(TX_NUM_FD) : \A k \in 0 .. Dist(i, tx_done, TX_NUM_FD) :
                     txFd[Step(tx_done, k, TX_NUM_FD)] = "complete"}
    BY <1>1 DEF TxFreed, Step, Dist
<1>3. ASSUME NEW i \in Ring(TX_NUM_FD)
      PROVE  (\A k \in 0 .. Dist(i, tx_done, TX_NUM_FD) :
                  txFd[Step(tx_done, k, TX_NUM_FD)] = "complete")
             <=> Dist(i, tx_done, TX_NUM_FD) < c
  <2> DEFINE d == Dist(i, tx_done, TX_NUM_FD)
  <2>1. d \in Ring(TX_NUM_FD)
      BY <1>1, DistValue
  <2> HIDE DEF d
  <2>2. d \in Nat /\ d < TX_NUM_FD /\ d \in 0 .. d
      BY <1>1, <2>1 DEF Ring
  <2>3. ASSUME d < c, NEW k \in 0 .. d
        PROVE  txFd[Step(tx_done, k, TX_NUM_FD)] = "complete"
    <3>1. k \in Ring(TX_NUM_FD) /\ k < c
        BY <1>1, <2>2, <2>3 DEF Ring
    <3>2. txFd[Step(tx_done, k, TX_NUM_FD)] = TxOf(k, b, c)
        BY <3>1, TxShapeAt
    <3> QED
        BY <3>1, <3>2 DEF TxOf
  <2>4. ASSUME ~(d < c) PROVE txFd[Step(tx_done, d, TX_NUM_FD)] # "complete"
    <3>1. txFd[Step(tx_done, d, TX_NUM_FD)] = TxOf(d, b, c)
        BY <2>1, TxShapeAt
    <3> QED
        BY <2>4, <3>1 DEF TxOf
  <2>5. (\A k \in 0 .. d : txFd[Step(tx_done, k, TX_NUM_FD)] = "complete") <=> d < c
      BY <2>2, <2>3, <2>4
  <2> QED
      BY <2>5 DEF d
<1> QED
    BY <1>2, <1>3 DEF Arc

TxInStep ==
    \E b, c \in 0 .. TX_NUM_FD : TxShape(txFd, tx_ready, tx_done, txHW, b, c)

\* The bounds of a shape.
LEMMA TxBounds ==
    ASSUME NEW fd, NEW ready, NEW done, NEW hw, NEW b, NEW c,
           TxShape(fd, ready, done, hw, b, c)
    PROVE  b \in 0 .. TX_NUM_FD /\ c \in 0 .. TX_NUM_FD /\ b \in Nat /\ c \in Nat /\ c <= b
    BY EthAssumption DEF TxShape

LEMMA TxInStepRing == ASSUME NEW q, TxRing(q) PROVE TxInStep'
<1>1. 0 \in 0 .. TX_NUM_FD
    BY EthAssumption
<1>2. TxShape(txFd', tx_ready', tx_done', txHW', 0, 0)
    BY TxShapeEmpty DEF TxRing
<1> QED
    BY <1>1, <1>2 DEF TxInStep

LEMMA TxInStepInit == Init => TxInStep
<1>1. 0 \in 0 .. TX_NUM_FD
    BY EthAssumption
<1>2. ASSUME Init PROVE TxShape(txFd, tx_ready, tx_done, txHW, 0, 0)
    BY <1>2, TxShapeEmpty DEF Init
<1> QED
    BY <1>1, <1>2 DEF TxInStep

LEMMA TxInStepSame ==
    ASSUME TxInStep, UNCHANGED <<txFd, tx_ready, tx_done, txHW>> PROVE TxInStep'
    BY DEF TxInStep

LEMMA TxInStepDone ==
    ASSUME TxInStep, tx_done_check, UNCHANGED <<tx_ready, txHW>> PROVE TxInStep'
<1>1. PICK b \in 0 .. TX_NUM_FD, c \in 0 .. TX_NUM_FD :
          TxShape(txFd, tx_ready, tx_done, txHW, b, c)
    BY DEF TxInStep
<1>2. /\ TX_NUM_FD \in Nat \ {0} /\ tx_done \in Ring(TX_NUM_FD) /\ TxSlot = Ring(TX_NUM_FD)
    BY <1>1, EthAssumption DEF TxShape, TxSlot, Ring
<1>3. TxFreed = Arc(tx_done, c, TX_NUM_FD) /\ Cardinality(TxFreed) = c
    BY <1>1, <1>2, TxFreedArc, ArcCardinality
<1>4. tx_done' = Step(tx_done, c, TX_NUM_FD)
    BY <1>3 DEF tx_done_check, Step
<1>5. txFd' = [i \in Ring(TX_NUM_FD) |->
                   IF i \in Arc(tx_done, c, TX_NUM_FD) THEN "free" ELSE txFd[i]]
    BY <1>2, <1>3 DEF tx_done_check
<1>6. TxShape(txFd', tx_ready, Step(tx_done, c, TX_NUM_FD), txHW, b - c, 0)
    BY <1>1, <1>5, TxShapeFree
<1>7. TxShape(txFd', tx_ready', tx_done', txHW', b - c, 0)
    BY <1>4, <1>6
<1>8. b - c \in 0 .. TX_NUM_FD /\ 0 \in 0 .. TX_NUM_FD
    BY <1>2, <1>7, TxBounds
<1> QED
    BY <1>7, <1>8 DEF TxInStep

LEMMA TxInStepStep == ASSUME TxInStep, [Next]_vars PROVE TxInStep'
<1>1. CASE s3c2510_open
    BY <1>1, TxInStepRing, TxInStepSame DEF s3c2510_open, NoMemory, tx
<1>2. CASE s3c2510_close
    BY <1>2, TxInStepRing DEF s3c2510_close
<1>3. CASE s3c2510_tx_timeout
    BY <1>3, TxInStepRing, TxInStepSame DEF s3c2510_tx_timeout, NoMemory, tx
<1>4. PICK b \in 0 .. TX_NUM_FD, c \in 0 .. TX_NUM_FD :
          TxShape(txFd, tx_ready, tx_done, txHW, b, c)
    BY DEF TxInStep
<1>5. CASE s3c2510_send_packet
  <2>1. CASE UNCHANGED <<txFd, tx_ready>>
      BY <1>5, <2>1, TxInStepSame DEF s3c2510_send_packet
  <2>2. CASE /\ txFd[tx_ready] = "free"
             /\ txFd' = [txFd EXCEPT ![tx_ready] = "owned"]
             /\ tx_ready' = (tx_ready + 1) % TX_NUM_FD
    <3>1. TxShape(txFd', Step(tx_ready, 1, TX_NUM_FD), tx_done, txHW, b + 1, c)
        BY <1>4, <2>2, TxShapeSend
    <3>2. UNCHANGED <<tx_done, txHW>> /\ tx_ready' = Step(tx_ready, 1, TX_NUM_FD)
        BY <1>5, <2>2 DEF s3c2510_send_packet, Step
    <3>3. TxShape(txFd', tx_ready', tx_done', txHW', b + 1, c)
        BY <3>1, <3>2
    <3>4. b + 1 \in 0 .. TX_NUM_FD /\ c \in 0 .. TX_NUM_FD
        BY <3>3, TxBounds
    <3> QED
        BY <3>3, <3>4 DEF TxInStep
  <2> QED
      BY <1>5, <2>1, <2>2 DEF s3c2510_send_packet
<1>6. CASE Transmit
  <2>1. CASE UNCHANGED <<txFd, txHW>>
      BY <1>6, <2>1, TxInStepSame DEF Transmit
  <2>2. CASE /\ txFd[txHW] = "owned"
             /\ txFd' = [txFd EXCEPT ![txHW] = "complete"]
             /\ txHW' = (txHW + 1) % TX_NUM_FD
    <3>1. TxShape(txFd', tx_ready, tx_done, Step(txHW, 1, TX_NUM_FD), b, c + 1)
        BY <1>4, <2>2, TxShapeTransmit
    <3>2. UNCHANGED <<tx_done, tx_ready>> /\ txHW' = Step(txHW, 1, TX_NUM_FD)
        BY <1>6, <2>2 DEF Transmit, Step
    <3>3. TxShape(txFd', tx_ready', tx_done', txHW', b, c + 1)
        BY <3>1, <3>2
    <3>4. b \in 0 .. TX_NUM_FD /\ c + 1 \in 0 .. TX_NUM_FD
        BY <3>3, TxBounds
    <3> QED
        BY <3>3, <3>4 DEF TxInStep
  <2> QED
      BY <1>6, <2>1, <2>2 DEF Transmit
<1>7. CASE s3c2510_Tx
  <2>1. UNCHANGED <<tx_ready, txHW>> /\ (tx_done_check \/ UNCHANGED <<txFd, tx_done>>)
      BY <1>7 DEF s3c2510_Tx
  <2> QED
      BY <2>1, TxInStepDone, TxInStepSame
<1>8. CASE s3c2510_poll
    BY <1>8, TxInStepDone DEF s3c2510_poll
<1>9. CASE Arrive \/ s3c2510_Rx \/ rx_done_check \/ ScanEnd \/ PollEnd
    BY <1>9, TxInStepSame DEF Arrive, s3c2510_Rx, rx_done_check, ScanEnd, PollEnd, tx
<1>10. CASE UNCHANGED vars
    BY <1>10, TxInStepSame DEF vars, tx
<1> QED
    BY <1>1, <1>2, <1>3, <1>5, <1>6, <1>7, <1>8, <1>9, <1>10 DEF Next, SoftIrq

----------------------------------------------------------------------------
(* The receive ring: from refill on, z descriptors wait for an skb, the    *)
(* next f are filled and the rest is the controller's.                     *)

RxFits(v, skb, d, z, f) ==
    /\ d < z => v = "zero"
    /\ z <= d /\ d < z + f => v \in {"done", "error"} /\ skb
    /\ z + f <= d => v = "owned" /\ skb

RxShape(fd, ctl, refill, done, hw, z, f) ==
    /\ z \in 0 .. RX_NUM_FD /\ f \in 0 .. RX_NUM_FD /\ z + f <= RX_NUM_FD
    /\ fd \in [Ring(RX_NUM_FD) -> {"zero", "owned", "done", "error"}]
    /\ ctl \in [Ring(RX_NUM_FD) -> BOOLEAN]
    /\ refill \in Ring(RX_NUM_FD)
    /\ done = Step(refill, z, RX_NUM_FD) /\ hw = Step(refill, z + f, RX_NUM_FD)
    /\ \A i \in Ring(RX_NUM_FD) : RxFits(fd[i], ctl[i], Dist(i, refill, RX_NUM_FD), z, f)

\* The facts about a shape that the steps use.
LEMMA RxBounds ==
    ASSUME NEW fd, NEW ctl, NEW refill, NEW done, NEW hw, NEW z, NEW f,
           RxShape(fd, ctl, refill, done, hw, z, f)
    PROVE  /\ RX_NUM_FD \in Nat \ {0} /\ refill \in Ring(RX_NUM_FD)
           /\ z \in 0 .. RX_NUM_FD /\ f \in 0 .. RX_NUM_FD /\ z + f \in 0 .. RX_NUM_FD
           /\ z \in Nat /\ f \in Nat /\ z + f <= RX_NUM_FD
           /\ done = Step(refill, z, RX_NUM_FD) /\ hw = Step(refill, z + f, RX_NUM_FD)
           /\ done \in Ring(RX_NUM_FD) /\ hw \in Ring(RX_NUM_FD)
<1>1. /\ RX_NUM_FD \in Nat \ {0} /\ refill \in Ring(RX_NUM_FD)
      /\ z \in 0 .. RX_NUM_FD /\ f \in 0 .. RX_NUM_FD /\ z + f \in 0 .. RX_NUM_FD
      /\ z \in Nat /\ f \in Nat /\ z + f <= RX_NUM_FD
      /\ done = Step(refill, z, RX_NUM_FD) /\ hw = Step(refill, z + f, RX_NUM_FD)
    BY EthAssumption DEF RxShape
<1>2. done \in Ring(RX_NUM_FD)
    BY <1>1, StepValue
<1>3. hw \in Ring(RX_NUM_FD)
  <2> DEFINE k == z + f
  <2>1. k \in 0 .. RX_NUM_FD /\ hw = Step(refill, k, RX_NUM_FD)
      BY <1>1
  <2> HIDE DEF k
  <2> QED
      BY <1>1, <2>1, StepValue
<1> QED
    BY <1>1, <1>2, <1>3

\* The descriptor k after refill.
LEMMA RxShapeAt ==
    ASSUME NEW fd, NEW ctl, NEW refill, NEW done, NEW hw, NEW z, NEW f,
           RxShape(fd, ctl, refill, done, hw, z, f), NEW k \in Ring(RX_NUM_FD)
    PROVE  /\ Step(refill, k, RX_NUM_FD) \in Ring(RX_NUM_FD)
           /\ RxFits(fd[Step(refill, k, RX_NUM_FD)], ctl[Step(refill, k, RX_NUM_FD)], k, z, f)
<1>1. RX_NUM_FD \in Nat \ {0} /\ refill \in Ring(RX_NUM_FD) /\ k \in 0 .. RX_NUM_FD
    BY EthAssumption DEF RxShape, Ring
<1>2. Step(refill, k, RX_NUM_FD) \in Ring(RX_NUM_FD)
      /\ Dist(Step(refill, k, RX_NUM_FD), refill, RX_NUM_FD) = k
    BY <1>1, StepValue, DistStep
<1> QED
    BY <1>2 DEF RxShape

\* The ring after SetupRxFDs, and that of an interface that is down.
LEMMA RxShapeNew ==
    ASSUME NEW full \in BOOLEAN
    PROVE  RxShape([i \in RxSlot |-> IF full THEN "owned" ELSE "zero"],
                   [i \in RxSlot |-> full], 0, 0, 0, IF full THEN 0 ELSE RX_NUM_FD, 0)
<1> DEFINE z == IF full THEN 0 ELSE RX_NUM_FD
           fd == [i \in RxSlot |-> IF full THEN "owned" ELSE "zero"]
           ctl == [i \in RxSlot |-> full]
<1>1. RX_NUM_FD \in Nat \ {0} /\ RxSlot = Ring(RX_NUM_FD) /\ 0 \in Ring(RX_NUM_FD)
      /\ 0 \in 0 .. RX_NUM_FD
    BY EthAssumption DEF RxSlot, Ring
<1>2. z \in 0 .. RX_NUM_FD /\ z + 0 = z /\ z + 0 <= RX_NUM_FD /\ z \in {0, RX_NUM_FD} /\ z \in Nat
    BY <1>1
<1>3. Step(0, z, RX_NUM_FD) = 0 /\ Step(0, z + 0, RX_NUM_FD) = 0
    BY <1>1, <1>2, StepFull
<1>4. ASSUME NEW i \in Ring(RX_NUM_FD)
      PROVE  RxFits(fd[i], ctl[i], Dist(i, 0, RX_NUM_FD), z, 0)
  <2> DEFINE d == Dist(i, 0, RX_NUM_FD)
  <2>1. d \in Ring(RX_NUM_FD)
      BY <1>1, DistValue
  <2>2. d \in Nat /\ d < RX_NUM_FD
      BY <1>1, <2>1 DEF Ring
  <2> HIDE DEF d
  <2>3. CASE full
    <3>1. fd[i] = "owned" /\ ctl[i] /\ ~(d < z) /\ ~(d < z + 0)
        BY <1>1, <2>2, <2>3
    <3>2. RxFits(fd[i], ctl[i], d, z, 0)
      <4> HIDE DEF fd, ctl, z
      <4> QED
          BY <3>1 DEF RxFits
    <3> QED
        BY <3>2 DEF d
  <2>4. CASE ~full
    <3>1. fd[i] = "zero" /\ d < z /\ ~(z <= d) /\ ~(z + 0 <= d)
        BY <1>1, <2>2, <2>4
    <3>2. RxFits(fd[i], ctl[i], d, z, 0)
      <4> HIDE DEF fd, ctl, z
      <4> QED
          BY <3>1 DEF RxFits
    <3> QED
        BY <3>2 DEF d
  <2> QED
      BY <2>3, <2>4
<1>5. fd \in [Ring(RX_NUM_FD) -> {"zero", "owned", "done", "error"}]
      /\ ctl \in [Ring(RX_NUM_FD) -> BOOLEAN]
    BY <1>1
<1> HIDE DEF z, fd, ctl
<1>6. RxShape(fd, ctl, 0, 0, 0, z, 0)
    BY <1>1, <1>2, <1>3, <1>4, <1>5 DEF RxShape
<1> QED
    BY <1>6 DEF z, fd, ctl

\* Every descriptor but the one k after refill is at another distance.
LEMMA OtherDist ==
    ASSUME NEW N \in Nat \ {0}, NEW a \in Ring(N), NEW k \in Ring(N), NEW i \in Ring(N)
    PROVE  /\ Dist(i, a, N) \in Ring(N)
           /\ i = Step(a, k, N) <=> Dist(i, a, N) = k
<1>1. Dist(i, a, N) \in Ring(N) /\ Step(a, Dist(i, a, N), N) = i
    BY DistValue, StepDist
<1>2. Dist(Step(a, k, N), a, N) = k
    BY DistStep
<1> QED
    BY <1>1, <1>2

\* A frame comes in.
LEMMA RxShapeArrive ==
    ASSUME NEW fd, NEW ctl, NEW refill, NEW done, NEW hw, NEW z, NEW f,
           RxShape(fd, ctl, refill, done, hw, z, f), fd[hw] = "owned",
           NEW s \in {"done", "error"}
    PROVE  RxShape([fd EXCEPT ![hw] = s], ctl, refill, done, Step(hw, 1, RX_NUM_FD), z, f + 1)
<1> DEFINE N == RX_NUM_FD
           k == z + f
           g == [fd EXCEPT ![hw] = s]
<1>1. /\ N \in Nat \ {0} /\ refill \in Ring(N) /\ z \in Nat /\ f \in Nat /\ k \in Nat /\ k <= N
      /\ k \in 0 .. N /\ k = z + f /\ done = Step(refill, z, N) /\ hw = Step(refill, k, N)
      /\ hw \in Ring(N)
    BY RxBounds
<1>2. k < N
  <2>1. SUFFICES ASSUME k = N PROVE FALSE
      BY <1>1
  <2>2. hw = Step(refill, 0, N) /\ 0 \in Ring(N) /\ 0 < k
      BY <1>1, <2>1, StepFull DEF Ring
  <2>3. RxFits(fd[hw], ctl[hw], 0, z, f)
      BY <2>2, RxShapeAt
  <2> QED
      BY <1>1, <2>2, <2>3 DEF RxFits
<1>3. ctl[hw]
  <2>1. k \in Ring(N) /\ z + f <= k
      BY <1>1, <1>2 DEF Ring
  <2>2. RxFits(fd[hw], ctl[hw], k, z, f)
      BY <1>1, <2>1, RxShapeAt
  <2> HIDE DEF k
  <2> QED
      BY <2>1, <2>2 DEF RxFits
<1>4. /\ g \in [Ring(N) -> {"zero", "owned", "done", "error"}]
      /\ g[hw] = s /\ \A i \in Ring(N) : i # hw => g[i] = fd[i]
    BY <1>1 DEF RxShape
<1> HIDE DEF g
<1>5. Step(hw, 1, N) = Step(refill, k + 1, N) /\ k + 1 = z + (f + 1)
  <2> HIDE DEF k
  <2> QED
      BY <1>1, <1>2, StepStep
<1>6. ASSUME NEW i \in Ring(N)
      PROVE  RxFits(g[i], ctl[i], Dist(i, refill, N), z, f + 1)
  <2> DEFINE d == Dist(i, refill, N)
  <2>1. d \in Ring(N) /\ (i = hw <=> d = k)
    <3>1. k \in Ring(N)
        BY <1>1, <1>2 DEF Ring
    <3> HIDE DEF k
    <3> QED
        BY <1>1, <3>1, OtherDist
  <2>2. RxFits(fd[i], ctl[i], d, z, f)
      BY DEF RxShape
  <2>3. d \in Nat
      BY <2>1 DEF Ring
  <2> HIDE DEF d
  <2>4. CASE i = hw
    <3>1. z <= d /\ d < z + (f + 1) /\ ~(d < z) /\ ~(z + (f + 1) <= d)
        BY <1>1, <2>1, <2>3, <2>4
    <3>2. RxFits(g[i], ctl[i], d, z, f + 1)
        BY <1>3, <1>4, <2>4, <3>1 DEF RxFits
    <3> QED
        BY <3>2 DEF d
  <2>5. CASE i # hw
    <3>1. g[i] = fd[i]
        BY <1>4, <2>5
    <3>2. (d < z + (f + 1) <=> d < z + f) /\ (z + (f + 1) <= d <=> z + f <= d)
        BY <1>1, <2>1, <2>3, <2>5
    <3>3. RxFits(g[i], ctl[i], d, z, f + 1)
        BY <2>2, <3>1, <3>2 DEF RxFits
    <3> QED
        BY <3>3 DEF d
  <2> QED
      BY <2>4, <2>5
<1>7. f + 1 \in 0 .. N /\ z \in 0 .. N /\ z + (f + 1) <= N
    BY <1>1, <1>2
<1>8. ctl \in [Ring(N) -> BOOLEAN]
    BY DEF RxShape
<1>9. RxShape(g, ctl, refill, done, Step(hw, 1, N), z, f + 1)
    BY <1>1, <1>4, <1>5, <1>6, <1>7, <1>8 DEF RxShape
<1> QED
    BY <1>9 DEF g

\* A filled descriptor is emptied; its skb has gone up or not.
LEMMA RxShapeDone ==
    ASSUME NEW fd, NEW ctl, NEW refill, NEW done, NEW hw, NEW z, NEW f,
           RxShape(fd, ctl, refill, done, hw, z, f), fd[done] \in {"done", "error"},
           NEW ctl2 \in [Ring(RX_NUM_FD) -> BOOLEAN],
           \A i \in Ring(RX_NUM_FD) : i # done => ctl2[i] = ctl[i]
    PROVE  RxShape([fd EXCEPT ![done] = "zero"], ctl2, refill, Step(done, 1, RX_NUM_FD), hw,
                   z + 1, f - 1)
<1> DEFINE N == RX_NUM_FD
           g == [fd EXCEPT ![done] = "zero"]
<1>1. /\ N \in Nat \ {0} /\ refill \in Ring(N) /\ z \in Nat /\ f \in Nat /\ z + f <= N
      /\ z \in 0 .. N /\ done = Step(refill, z, N) /\ hw = Step(refill, z + f, N)
      /\ done \in Ring(N)
    BY RxBounds
<1>2. f > 0
  <2>1. CASE z < N
    <3>1. z \in Ring(N)
        BY <1>1, <2>1 DEF Ring
    <3>2. RxFits(fd[done], ctl[done], z, z, f)
        BY <1>1, <3>1, RxShapeAt
    <3> QED
        BY <1>1, <3>2 DEF RxFits
  <2>2. CASE z = N
    <3>1. done = Step(refill, 0, N) /\ 0 \in Ring(N) /\ 0 < z
        BY <1>1, <2>2, StepFull DEF Ring
    <3>2. RxFits(fd[done], ctl[done], 0, z, f)
        BY <3>1, RxShapeAt
    <3> QED
        BY <3>1, <3>2 DEF RxFits
  <2> QED
      BY <1>1, <2>1, <2>2
<1>3. z < N /\ z \in Ring(N)
    BY <1>1, <1>2 DEF Ring
<1>4. /\ g \in [Ring(N) -> {"zero", "owned", "done", "error"}]
      /\ g[done] = "zero" /\ \A i \in Ring(N) : i # done => g[i] = fd[i]
    BY <1>1 DEF RxShape
<1> HIDE DEF g
<1>5. Step(done, 1, N) = Step(refill, z + 1, N) /\ (z + 1) + (f - 1) = z + f
  <2>1. z + 1 <= N /\ 1 \in Nat
      BY <1>1, <1>3
  <2>2. Step(Step(refill, z, N), 1, N) = Step(refill, z + 1, N)
    <3> HIDE DEF N
    <3> QED
        BY <1>1, <2>1, StepStep
  <2>3. (z + 1) + (f - 1) = z + f
      BY <1>1
  <2> QED
      BY <1>1, <2>2, <2>3
<1>6. ASSUME NEW i \in Ring(N)
      PROVE  RxFits(g[i], ctl2[i], Dist(i, refill, N), z + 1, f - 1)
  <2> DEFINE d == Dist(i, refill, N)
  <2>1. d \in Ring(N) /\ (i = done <=> d = z)
      BY <1>1, <1>3, OtherDist
  <2>2. RxFits(fd[i], ctl[i], d, z, f)
      BY DEF RxShape
  <2>3. d \in Nat
      BY <2>1 DEF Ring
  <2> HIDE DEF d
  <2>4. CASE i = done
    <3>1. d < z + 1 /\ ~(z + 1 <= d) /\ ~((z + 1) + (f - 1) <= d)
        BY <1>1, <1>2, <2>1, <2>3, <2>4
    <3>2. RxFits(g[i], ctl2[i], d, z + 1, f - 1)
        BY <1>4, <2>4, <3>1 DEF RxFits
    <3> QED
        BY <3>2 DEF d
  <2>5. CASE i # done
    <3>1. g[i] = fd[i] /\ ctl2[i] = ctl[i]
        BY <1>4, <2>5
    <3>2. /\ d < z + 1 <=> d < z
          /\ z + 1 <= d <=> z <= d
          /\ d < (z + 1) + (f - 1) <=> d < z + f
          /\ (z + 1) + (f - 1) <= d <=> z + f <= d
        BY <1>1, <1>5, <2>1, <2>3, <2>5
    <3>3. RxFits(g[i], ctl2[i], d, z + 1, f - 1)
        BY <2>2, <3>1, <3>2 DEF RxFits
    <3> QED
        BY <3>3 DEF d
  <2> QED
      BY <2>4, <2>5
<1>7. z + 1 \in 0 .. N /\ f - 1 \in 0 .. N /\ (z + 1) + (f - 1) <= N
    BY <1>1, <1>2, <1>3
<1>8. RxShape(g, ctl2, refill, Step(done, 1, N), hw, z + 1, f - 1)
    BY <1>1, <1>4, <1>5, <1>6, <1>7 DEF RxShape
<1> QED
    BY <1>8 DEF g

\* The first n empty descriptors get an skb and go back to the controller.
LEMMA RxShapeRefill ==
    ASSUME NEW fd, NEW ctl, NEW refill, NEW done, NEW hw, NEW z, NEW f,
           RxShape(fd, ctl, refill, done, hw, z, f), NEW n \in 0 .. RX_NUM_FD,
           \A k \in 0 .. n - 1 : fd[Step(refill, k, RX_NUM_FD)] = "zero"
    PROVE  RxShape([i \in Ring(RX_NUM_FD) |->
                        IF i \in Arc(refill, n, RX_NUM_FD) THEN "owned" ELSE fd[i]],
                   [i \in Ring(RX_NUM_FD) |-> ctl[i] \/ i \in Arc(refill, n, RX_NUM_FD)],
                   Step(refill, n, RX_NUM_FD), done, hw, z - n, f)
<1> DEFINE N == RX_NUM_FD
           A == Arc(refill, n, N)
           g == [i \in Ring(N) |-> IF i \in A THEN "owned" ELSE fd[i]]
           c == [i \in Ring(N) |-> ctl[i] \/ i \in A]
           r == Step(refill, n, N)
<1>1. /\ N \in Nat \ {0} /\ refill \in Ring(N) /\ z \in Nat /\ f \in Nat /\ z + f <= N
      /\ f \in 0 .. N /\ done = Step(refill, z, N) /\ hw = Step(refill, z + f, N)
      /\ n \in Nat /\ n <= N
    BY RxBounds
<1>2. n <= z
  <2>1. SUFFICES ASSUME z < n PROVE FALSE
      BY <1>1
  <2>2. z \in 0 .. n - 1 /\ z \in Ring(N)
      BY <1>1, <2>1 DEF Ring
  <2>3. fd[Step(refill, z, N)] = "zero"
      BY <2>2
  <2>4. RxFits(fd[Step(refill, z, N)], ctl[Step(refill, z, N)], z, z, f)
      BY <2>2, RxShapeAt
  <2>5. z <= z /\ (z < z + f \/ z + f <= z)
      BY <1>1
  <2> QED
      BY <2>3, <2>4, <2>5 DEF RxFits
<1>3. r \in Ring(N)
    BY <1>1, StepValue
<1>4. done = Step(r, z - n, N) /\ hw = Step(r, (z - n) + f, N)
  <2>1. ASSUME NEW m \in Nat, n <= m, m <= N
        PROVE  Step(refill, m, N) = Step(r, m - n, N)
    <3> DEFINE e == m - n
    <3>1. e \in Nat /\ n + e = m /\ n + e <= N
        BY <1>1, <2>1
    <3> HIDE DEF e, N
    <3>2. Step(Step(refill, n, N), e, N) = Step(refill, n + e, N)
        BY <1>1, <3>1, StepStep
    <3> QED
        BY <3>1, <3>2 DEF e
  <2>2. z <= N /\ z + f \in Nat /\ n <= z + f /\ (z + f) - n = (z - n) + f
      BY <1>1, <1>2
  <2> HIDE DEF r, N
  <2> QED
      BY <1>1, <1>2, <2>1, <2>2
<1>5. g \in [Ring(N) -> {"zero", "owned", "done", "error"}] /\ c \in [Ring(N) -> BOOLEAN]
  <2>1. fd \in [Ring(N) -> {"zero", "owned", "done", "error"}]
      BY DEF RxShape
  <2> HIDE DEF A, N
  <2> QED
      BY <2>1
<1>6. ASSUME NEW i \in Ring(N)
      PROVE  RxFits(g[i], c[i], Dist(i, r, N), z - n, f)
  <2> DEFINE d == Dist(i, refill, N)
             e == Dist(i, r, N)
  <2>1. d \in Ring(N)
      BY <1>1, DistValue
  <2>2. d \in Nat /\ d < N
      BY <1>1, <2>1 DEF Ring
  <2>3. e = IF d >= n THEN d - n ELSE d - n + N
      BY <1>1, DistShift
  <2>4. RxFits(fd[i], ctl[i], d, z, f)
      BY DEF RxShape
  <2>5. i \in A <=> d < n
      BY DEF Arc
  <2>6. g[i] = (IF i \in A THEN "owned" ELSE fd[i]) /\ (c[i] <=> ctl[i] \/ i \in A)
    <3> HIDE DEF A, N
    <3> QED
        OBVIOUS
  <2> HIDE DEF d, e, g, c, A, r
  <2>7. CASE d < n
    <3>1. e = d - n + N
        BY <1>1, <2>2, <2>3, <2>7
    <3>2. ~(e < z - n) /\ ~(e < (z - n) + f)
        BY <1>1, <1>2, <2>2, <3>1
    <3>3. g[i] = "owned" /\ c[i]
        BY <2>5, <2>6, <2>7
    <3>4. RxFits(g[i], c[i], e, z - n, f)
        BY <3>2, <3>3 DEF RxFits
    <3> QED
        BY <3>4 DEF e
  <2>8. CASE d >= n
    <3>1. e = d - n
        BY <1>1, <2>2, <2>3, <2>8
    <3>2. /\ e < z - n <=> d < z
          /\ z - n <= e <=> z <= d
          /\ e < (z - n) + f <=> d < z + f
          /\ (z - n) + f <= e <=> z + f <= d
        BY <1>1, <1>2, <2>2, <3>1
    <3>3. g[i] = fd[i] /\ (c[i] <=> ctl[i])
      <4>1. i \notin A
          BY <1>1, <2>2, <2>5, <2>8
      <4> QED
          BY <2>6, <4>1
    <3>4. RxFits(g[i], c[i], e, z - n, f)
        BY <2>4, <3>2, <3>3 DEF RxFits
    <3> QED
        BY <3>4 DEF e
  <2> QED
      BY <1>1, <2>2, <2>7, <2>8
<1>7. z - n \in 0 .. N /\ (z - n) + f <= N
    BY <1>1, <1>2
<1> HIDE DEF g, c, r, A
<1>8. RxShape(g, c, r, done, hw, z - n, f)
    BY <1>1, <1>3, <1>4, <1>5, <1>6, <1>7 DEF RxShape
<1> QED
    BY <1>8 DEF g, c, r, A

RxInStep ==
    \E z, f \in 0 .. RX_NUM_FD :
        RxShape(rxFd, rxFrCtl, rx_skb_refill, rx_done, rxHW, z, f)

\* A shape, whichever its bounds, is in step.
LEMMA RxShaped ==
    ASSUME NEW z, NEW f, RxShape(rxFd, rxFrCtl, rx_skb_refill, rx_done, rxHW, z, f)
    PROVE  RxInStep
<1>1. z \in 0 .. RX_NUM_FD /\ f \in 0 .. RX_NUM_FD
    BY DEF RxShape
<1> QED
    BY <1>1 DEF RxInStep

LEMMA RxShapedNext ==
    ASSUME NEW z, NEW f, RxShape(rxFd', rxFrCtl', rx_skb_refill', rx_done', rxHW', z, f)
    PROVE  RxInStep'
<1>1. z \in 0 .. RX_NUM_FD /\ f \in 0 .. RX_NUM_FD
    BY DEF RxShape
<1> QED
    BY <1>1 DEF RxInStep

LEMMA RxInStepRing == ASSUME NEW full \in BOOLEAN, RxRing(full) PROVE RxInStep'
<1>1. RxShape(rxFd', rxFrCtl', rx_skb_refill', rx_done', rxHW',
              IF full THEN 0 ELSE RX_NUM_FD, 0)
    BY RxShapeNew DEF RxRing
<1> QED
    BY <1>1, RxShapedNext

LEMMA RxInStepInit == Init => RxInStep
<1>1. ASSUME Init
      PROVE  RxShape(rxFd, rxFrCtl, rx_skb_refill, rx_done, rxHW, RX_NUM_FD, 0)
  <2>1. RxShape([i \in RxSlot |-> "zero"], [i \in RxSlot |-> FALSE], 0, 0, 0, RX_NUM_FD, 0)
      BY RxShapeNew
  <2> QED
      BY <1>1, <2>1 DEF Init
<1> QED
    BY <1>1, RxShaped

LEMMA RxInStepSame ==
    ASSUME RxInStep, UNCHANGED <<rxFd, rxFrCtl, rx_done, rx_skb_refill, rxHW>>
    PROVE  RxInStep'
    BY DEF RxInStep

LEMMA RxInStepArrive == ASSUME RxInStep, Arrive PROVE RxInStep'
<1>1. PICK z \in 0 .. RX_NUM_FD, f \in 0 .. RX_NUM_FD :
          RxShape(rxFd, rxFrCtl, rx_skb_refill, rx_done, rxHW, z, f)
    BY DEF RxInStep
<1>2. UNCHANGED <<rxFrCtl, rx_done, rx_skb_refill>>
    BY DEF Arrive
<1>3. CASE rxFd[rxHW] # "owned"
    BY <1>3, RxInStepSame DEF Arrive
<1>4. CASE rxFd[rxHW] = "owned"
  <2>1. PICK s \in {"done", "error"} : rxFd' = [rxFd EXCEPT ![rxHW] = s]
      BY <1>4 DEF Arrive
  <2>2. rxHW' = Step(rxHW, 1, RX_NUM_FD)
      BY <1>4 DEF Arrive, Step
  <2>3. RxShape([rxFd EXCEPT ![rxHW] = s], rxFrCtl, rx_skb_refill, rx_done,
                Step(rxHW, 1, RX_NUM_FD), z, f + 1)
      BY <1>1, <1>4, RxShapeArrive
  <2>4. RxShape(rxFd', rxFrCtl', rx_skb_refill', rx_done', rxHW', z, f + 1)
      BY <1>2, <2>1, <2>2, <2>3
  <2> QED
      BY <2>4, RxShapedNext
<1> QED
    BY <1>3, <1>4

LEMMA RxInStepDone == ASSUME RxInStep, rx_done_check PROVE RxInStep'
<1>1. PICK z \in 0 .. RX_NUM_FD, f \in 0 .. RX_NUM_FD :
          RxShape(rxFd, rxFrCtl, rx_skb_refill, rx_done, rxHW, z, f)
    BY DEF RxInStep
<1>2. /\ rxFd[rx_done] \in {"done", "error"} /\ UNCHANGED <<rx_skb_refill, rxHW>>
      /\ rxFd' = [rxFd EXCEPT ![rx_done] = "zero"]
      /\ rx_done' = Step(rx_done, 1, RX_NUM_FD)
    BY DEF rx_done_check, Filled, Step
<1>3. rxFrCtl \in [Ring(RX_NUM_FD) -> BOOLEAN]
    BY <1>1 DEF RxShape
<1>4. /\ rxFrCtl' \in [Ring(RX_NUM_FD) -> BOOLEAN]
      /\ \A i \in Ring(RX_NUM_FD) : i # rx_done => rxFrCtl'[i] = rxFrCtl[i]
    BY <1>3 DEF rx_done_check
<1>5. RxShape([rxFd EXCEPT ![rx_done] = "zero"], rxFrCtl', rx_skb_refill,
              Step(rx_done, 1, RX_NUM_FD), rxHW, z + 1, f - 1)
    BY <1>1, <1>2, <1>4, RxShapeDone
<1>6. RxShape(rxFd', rxFrCtl', rx_skb_refill', rx_done', rxHW', z + 1, f - 1)
    BY <1>2, <1>5
<1> QED
    BY <1>6, RxShapedNext

\* What rx_refill_skb fills are the n descriptors from rx_skb_refill on.
LEMMA FilledArc ==
    ASSUME NEW N \in Nat \ {0}, NEW a \in Ring(N), NEW n \in 0 .. N
    PROVE  {Step(a, k, N) : k \in 0 .. n - 1} = Arc(a, n, N)
<1>1. ASSUME NEW k \in 0 .. n - 1 PROVE Step(a, k, N) \in Arc(a, n, N)
  <2>1. k \in Ring(N) /\ k \in 0 .. N /\ k < n
      BY DEF Ring
  <2>2. Step(a, k, N) \in Ring(N) /\ Dist(Step(a, k, N), a, N) = k
      BY <2>1, StepValue, DistStep
  <2> QED
      BY <2>1, <2>2 DEF Arc
<1>2. ASSUME NEW i \in Arc(a, n, N) PROVE \E k \in 0 .. n - 1 : i = Step(a, k, N)
  <2>1. i \in Ring(N) /\ Dist(i, a, N) < n
      BY DEF Arc
  <2>2. Dist(i, a, N) \in Ring(N) /\ Step(a, Dist(i, a, N), N) = i
      BY <2>1, DistValue, StepDist
  <2>3. Dist(i, a, N) \in 0 .. n - 1
      BY <2>1, <2>2 DEF Ring
  <2> QED
      BY <2>2, <2>3
<1> QED
    BY <1>1, <1>2

LEMMA RxInStepRefill ==
    ASSUME RxInStep, NEW n \in 0 .. RX_NUM_FD, Refillable(n), rx_refill_skb(n),
           UNCHANGED <<rx_done, rxHW>>
    PROVE  RxInStep'
<1>1. PICK z \in 0 .. RX_NUM_FD, f \in 0 .. RX_NUM_FD :
          RxShape(rxFd, rxFrCtl, rx_skb_refill, rx_done, rxHW, z, f)
    BY DEF RxInStep
<1>2. RX_NUM_FD \in Nat \ {0} /\ rx_skb_refill \in Ring(RX_NUM_FD) /\ RxSlot = Ring(RX_NUM_FD)
    BY <1>1, EthAssumption DEF RxShape, RxSlot, Ring
<1>3. \A k \in 0 .. n - 1 : rxFd[Step(rx_skb_refill, k, RX_NUM_FD)] = "zero"
    BY DEF Refillable, Step
<1> DEFINE A == Arc(rx_skb_refill, n, RX_NUM_FD)
           S == {Step(rx_skb_refill, k, RX_NUM_FD) : k \in 0 .. n - 1}
<1>4. S = A
    BY <1>2, FilledArc
<1>5. /\ rxFd' = [i \in RxSlot |-> IF i \in S THEN "owned" ELSE rxFd[i]]
      /\ rxFrCtl' = [i \in RxSlot |-> rxFrCtl[i] \/ i \in S]
      /\ rx_skb_refill' = Step(rx_skb_refill, n, RX_NUM_FD)
    BY DEF rx_refill_skb, Step
<1>6. RxShape([i \in Ring(RX_NUM_FD) |-> IF i \in A THEN "owned" ELSE rxFd[i]],
              [i \in Ring(RX_NUM_FD) |-> rxFrCtl[i] \/ i \in A],
              Step(rx_skb_refill, n, RX_NUM_FD), rx_done, rxHW, z - n, f)
    BY <1>1, <1>3, RxShapeRefill
<1> HIDE DEF A, S
<1>7. RxShape(rxFd', rxFrCtl', rx_skb_refill', rx_done', rxHW', z - n, f)
    BY <1>2, <1>4, <1>5, <1>6
<1> QED
    BY <1>7, RxShapedNext

LEMMA RxInStepStep == ASSUME RxInStep, [Next]_vars PROVE RxInStep'
<1>1. CASE s3c2510_open
    BY <1>1, RxInStepRing, RxInStepSame DEF s3c2510_open, NoMemory, rx
<1>2. CASE s3c2510_close
    BY <1>2, RxInStepRing DEF s3c2510_close
<1>3. CASE s3c2510_tx_timeout
    BY <1>3, RxInStepRing, RxInStepSame DEF s3c2510_tx_timeout, NoMemory, rx
<1>4. CASE s3c2510_send_packet
    BY <1>4, RxInStepSame DEF s3c2510_send_packet, rx
<1>5. CASE Transmit
    BY <1>5, RxInStepSame DEF Transmit, rx
<1>6. CASE s3c2510_Tx
    BY <1>6, RxInStepSame DEF s3c2510_Tx, rx
<1>7. CASE Arrive
    BY <1>7, RxInStepArrive
<1>8. CASE s3c2510_Rx
    BY <1>8, RxInStepSame DEF s3c2510_Rx
<1>9. CASE s3c2510_poll
    BY <1>9, RxInStepSame DEF s3c2510_poll
<1>10. CASE rx_done_check
    BY <1>10, RxInStepDone
<1>11. CASE ScanEnd
    BY <1>11, RxInStepSame DEF ScanEnd
<1>12. CASE PollEnd
  <2>1. UNCHANGED <<rx_done, rxHW>>
      BY <1>12 DEF PollEnd
  <2>2. CASE RefillDue
    <3>1. \E n \in 0 .. RX_NUM_FD : Refillable(n) /\ rx_refill_skb(n)
        BY <1>12, <2>2 DEF PollEnd
    <3> QED
        BY <2>1, <3>1, RxInStepRefill
  <2>3. CASE ~RefillDue
      BY <1>12, <2>1, <2>3, RxInStepSame DEF PollEnd
  <2> QED
      BY <2>2, <2>3
<1>13. CASE UNCHANGED vars
    BY <1>13, RxInStepSame DEF vars, rx
<1> QED
    BY <1>1, <1>2, <1>3, <1>4, <1>5, <1>6, <1>7, <1>8, <1>9, <1>10, <1>11, <1>12, <1>13
    DEF Next, SoftIrq

----------------------------------------------------------------------------
(* The counts of RingsInStep are the lengths of these arcs.                *)

LEMMA TxCounts ==
    ASSUME NEW b, NEW c, TxShape(txFd, tx_ready, tx_done, txHW, b, c)
    PROVE  /\ {i \in TxSlot : txFd[i] # "free"} = Arc(tx_done, b, TX_NUM_FD)
           /\ {i \in TxSlot : txFd[i] = "complete"} = Arc(tx_done, c, TX_NUM_FD)
<1>1. TX_NUM_FD \in Nat \ {0} /\ tx_done \in Ring(TX_NUM_FD) /\ TxSlot = Ring(TX_NUM_FD)
      /\ b \in Nat /\ c \in Nat /\ c <= b
    BY EthAssumption, TxBounds DEF TxShape, TxSlot, Ring
<1>2. ASSUME NEW i \in Ring(TX_NUM_FD)
      PROVE  /\ txFd[i] # "free" <=> Dist(i, tx_done, TX_NUM_FD) < b
             /\ txFd[i] = "complete" <=> Dist(i, tx_done, TX_NUM_FD) < c
  <2> DEFINE d == Dist(i, tx_done, TX_NUM_FD)
  <2>1. txFd[i] = TxOf(d, b, c)
      BY DEF TxShape
  <2>2. d \in Nat
      BY <1>1, DistValue DEF Ring
  <2> HIDE DEF d
  <2>3. (txFd[i] # "free" <=> d < b) /\ (txFd[i] = "complete" <=> d < c)
      BY <1>1, <2>1, <2>2 DEF TxOf
  <2> QED
      BY <2>3 DEF d
<1> QED
    BY <1>1, <1>2 DEF Arc

LEMMA RxCounts ==
    ASSUME NEW z, NEW f, RxShape(rxFd, rxFrCtl, rx_skb_refill, rx_done, rxHW, z, f)
    PROVE  /\ {i \in RxSlot : rxFd[i] = "zero"} = Arc(rx_skb_refill, z, RX_NUM_FD)
           /\ {i \in RxSlot : rxFd[i] \in {"done", "error"}} = Arc(rx_done, f, RX_NUM_FD)
           /\ \A i \in RxSlot : rxFd[i] # "zero" => rxFrCtl[i]
<1>1. /\ RX_NUM_FD \in Nat \ {0} /\ rx_skb_refill \in Ring(RX_NUM_FD)
      /\ z \in 0 .. RX_NUM_FD /\ z \in Nat /\ f \in Nat /\ z + f <= RX_NUM_FD
      /\ rx_done = Step(rx_skb_refill, z, RX_NUM_FD)
    BY RxBounds
<1>2. RxSlot = Ring(RX_NUM_FD)
    BY DEF RxSlot, Ring
<1>3. ASSUME NEW i \in Ring(RX_NUM_FD)
      PROVE  /\ rxFd[i] = "zero" <=> Dist(i, rx_skb_refill, RX_NUM_FD) < z
             /\ rxFd[i] \in {"done", "error"} <=> Dist(i, rx_done, RX_NUM_FD) < f
             /\ rxFd[i] # "zero" => rxFrCtl[i]
  <2> DEFINE d == Dist(i, rx_skb_refill, RX_NUM_FD)
             e == Dist(i, rx_done, RX_NUM_FD)
  <2>1. RxFits(rxFd[i], rxFrCtl[i], d, z, f)
      BY DEF RxShape
  <2>2. d \in Nat /\ d < RX_NUM_FD
    <3>1. d \in Ring(RX_NUM_FD)
        BY <1>1, DistValue
    <3> QED
        BY <1>1, <3>1 DEF Ring
  <2>3. e = IF d >= z THEN d - z ELSE d - z + RX_NUM_FD
      BY <1>1, DistShift
  <2> HIDE DEF d, e
  <2>4. (d < z \/ z <= d) /\ (d < z + f \/ z + f <= d) /\ ~(d < z /\ z <= d)
      BY <1>1, <2>2
  <2>5. e < f <=> z <= d /\ d < z + f
      BY <1>1, <2>2, <2>3
  <2>6. z + f <= d => z <= d /\ ~(d < z + f)
      BY <1>1, <2>2
  <2>7. /\ rxFd[i] = "zero" <=> d < z
        /\ rxFd[i] \in {"done", "error"} <=> e < f
        /\ rxFd[i] # "zero" => rxFrCtl[i]
      BY <2>1, <2>4, <2>5, <2>6 DEF RxFits
  <2> QED
      BY <2>7 DEF d, e
<1> QED
    BY <1>1, <1>2, <1>3 DEF Arc

LEMMA TxSide ==
    ASSUME TxInStep
    PROVE  LET busy == Cardinality({i \in TxSlot : txFd[i] # "free"})
               sent == Cardinality({i \in TxSlot : txFd[i] = "complete"})
           IN  /\ (tx_done + busy) % TX_NUM_FD = tx_ready
               /\ (tx_done + sent) % TX_NUM_FD = txHW
               /\ \A i \in TxSlot : /\ Between(i, tx_done, busy, TX_NUM_FD) <=> txFd[i] # "free"
                                    /\ Between(i, tx_done, sent, TX_NUM_FD) <=> txFd[i] = "complete"
<1>1. PICK b \in 0 .. TX_NUM_FD, c \in 0 .. TX_NUM_FD :
          TxShape(txFd, tx_ready, tx_done, txHW, b, c)
    BY DEF TxInStep
<1> DEFINE Busy == {i \in TxSlot : txFd[i] # "free"}
           Sent == {i \in TxSlot : txFd[i] = "complete"}
<1>2. TX_NUM_FD \in Nat \ {0} /\ tx_done \in Ring(TX_NUM_FD) /\ TxSlot = Ring(TX_NUM_FD)
    BY <1>1, EthAssumption DEF TxShape, TxSlot, Ring
<1>3. Busy = Arc(tx_done, b, TX_NUM_FD) /\ Sent = Arc(tx_done, c, TX_NUM_FD)
    BY <1>1, TxCounts
<1>4. Cardinality(Busy) = b /\ Cardinality(Sent) = c
    BY <1>2, <1>3, ArcCardinality
<1>5. (tx_done + b) % TX_NUM_FD = tx_ready /\ (tx_done + c) % TX_NUM_FD = txHW
    BY <1>1 DEF TxShape, Step
<1>6. ASSUME NEW i \in TxSlot
      PROVE  /\ Between(i, tx_done, b, TX_NUM_FD) <=> i \in Busy
             /\ Between(i, tx_done, c, TX_NUM_FD) <=> i \in Sent
    BY <1>2, <1>3 DEF Between, Arc, Dist
<1>7. \A i \in TxSlot : (i \in Busy <=> txFd[i] # "free") /\ (i \in Sent <=> txFd[i] = "complete")
    OBVIOUS
<1> HIDE DEF Busy, Sent
<1>8. /\ (tx_done + Cardinality(Busy)) % TX_NUM_FD = tx_ready
      /\ (tx_done + Cardinality(Sent)) % TX_NUM_FD = txHW
      /\ \A i \in TxSlot :
            /\ Between(i, tx_done, Cardinality(Busy), TX_NUM_FD) <=> txFd[i] # "free"
            /\ Between(i, tx_done, Cardinality(Sent), TX_NUM_FD) <=> txFd[i] = "complete"
    BY <1>4, <1>5, <1>6, <1>7, Zenon
<1> QED
    BY <1>8, Zenon DEF Busy, Sent

LEMMA RxSide ==
    ASSUME RxInStep
    PROVE  LET zero == {i \in RxSlot : rxFd[i] = "zero"}
               full == {i \in RxSlot : rxFd[i] \in {"done", "error"}}
           IN  /\ \A i \in RxSlot \ zero : rxFrCtl[i]
               /\ (rx_done + Cardinality(full)) % RX_NUM_FD = rxHW
               /\ (rx_skb_refill + Cardinality(zero)) % RX_NUM_FD = rx_done
               /\ \A i \in RxSlot :
                     /\ Between(i, rx_done, Cardinality(full), RX_NUM_FD) <=> i \in full
                     /\ Between(i, rx_skb_refill, Cardinality(zero), RX_NUM_FD) <=> i \in zero
<1>1. PICK z \in 0 .. RX_NUM_FD, f \in 0 .. RX_NUM_FD :
          RxShape(rxFd, rxFrCtl, rx_skb_refill, rx_done, rxHW, z, f)
    BY DEF RxInStep
<1> DEFINE Zero == {i \in RxSlot : rxFd[i] = "zero"}
           Full == {i \in RxSlot : rxFd[i] \in {"done", "error"}}
<1>2. /\ RX_NUM_FD \in Nat \ {0} /\ rx_skb_refill \in Ring(RX_NUM_FD) /\ rx_done \in Ring(RX_NUM_FD)
      /\ z \in Nat /\ f \in Nat /\ z + f <= RX_NUM_FD
      /\ rx_done = Step(rx_skb_refill, z, RX_NUM_FD)
      /\ rxHW = Step(rx_skb_refill, z + f, RX_NUM_FD)
    BY <1>1, RxBounds
<1>3. RxSlot = Ring(RX_NUM_FD)
    BY DEF RxSlot, Ring
<1>4. Zero = Arc(rx_skb_refill, z, RX_NUM_FD) /\ Full = Arc(rx_done, f, RX_NUM_FD)
    BY <1>1, RxCounts
<1>5. Cardinality(Zero) = z /\ Cardinality(Full) = f
    BY <1>2, <1>4, ArcCardinality
<1>6. Step(rx_done, f, RX_NUM_FD) = rxHW
    BY <1>2, StepStep
<1>7. (rx_done + f) % RX_NUM_FD = rxHW /\ (rx_skb_refill + z) % RX_NUM_FD = rx_done
    BY <1>2, <1>6 DEF Step
<1>8. ASSUME NEW i \in RxSlot
      PROVE  /\ Between(i, rx_done, f, RX_NUM_FD) <=> i \in Full
             /\ Between(i, rx_skb_refill, z, RX_NUM_FD) <=> i \in Zero
    BY <1>3, <1>4 DEF Between, Arc, Dist
<1>9. \A i \in RxSlot \ Zero : rxFrCtl[i]
    BY <1>1, RxCounts
<1> HIDE DEF Zero, Full
<1>10. /\ \A i \in RxSlot \ Zero : rxFrCtl[i]
       /\ (rx_done + Cardinality(Full)) % RX_NUM_FD = rxHW
       /\ (rx_skb_refill + Cardinality(Zero)) % RX_NUM_FD = rx_done
       /\ \A i \in RxSlot :
             /\ Between(i, rx_done, Cardinality(Full), RX_NUM_FD) <=> i \in Full
             /\ Between(i, rx_skb_refill, Cardinality(Zero), RX_NUM_FD) <=> i \in Zero
    BY <1>5, <1>7, <1>8, <1>9, Zenon
<1> QED
    BY <1>10, Zenon DEF Zero, Full

\* Driver and controller never disagree about who has a descriptor, for rings of
\* every size and whatever fails: the positions and the descriptors' states tell the
\* same story of frames under way, frames sent, frames filled and frames to refill.
THEOREM RingsKeepStep == Spec => []RingsInStep
<1>1. Init => TxInStep /\ RxInStep
    BY TxInStepInit, RxInStepInit
<1>2. TxInStep /\ RxInStep /\ [Next]_vars => TxInStep' /\ RxInStep'
    BY TxInStepStep, RxInStepStep
<1>3. TxInStep /\ RxInStep => RingsInStep
  <2> SUFFICES ASSUME TxInStep, RxInStep PROVE RingsInStep
      OBVIOUS
  <2> QED
      BY TxSide, RxSide DEF RingsInStep
<1> QED
    BY <1>1, <1>2, <1>3, PTL DEF Spec
=============================================================================
