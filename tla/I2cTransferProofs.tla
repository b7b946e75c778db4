------------------------- MODULE I2cTransferProofs -------------------------
(***************************************************************************)
(* Proofs about the I2C transfers, for any threshold and lengths.          *)
(***************************************************************************)
EXTENDS I2cTransfer, TLAPS

USE I2cAssumption DEF driver, ctrl

-----------------------------------------------------------------------------
(***************************************************************************)
(* Type correctness.                                                       *)
(***************************************************************************)
LEMMA InitType == Init => TypeOK
<1> SUFFICES ASSUME Init PROVE TypeOK
  OBVIOUS
<1>1. /\ intexpected \in BOOLEAN /\ re_start \in BOOLEAN /\ ie \in BOOLEAN /\ stop \in BOOLEAN
      /\ clean \in BOOLEAN /\ cut \in BOOLEAN
  BY Zenon DEF Init
<1>2. xlen \in Nat /\ pulses \in Nat /\ cnt \in Nat /\ fifo \in 0 .. 2 * Thr
  BY DEF Init
<1> QED
  BY <1>1, <1>2 DEF Init, TypeOK

LEMMA SmallerType ==
  ASSUME NEW a \in Nat, NEW b \in Nat
  PROVE  Smaller(a, b) \in Nat /\ Smaller(a, b) <= a /\ Smaller(a, b) <= b
  BY DEF Smaller

(***************************************************************************)
(* The count register takes no more than it is told.                       *)
(***************************************************************************)
LEMMA CountType ==
  ASSUME NEW n \in Nat \ {0}
  PROVE  Count(n) \in Nat /\ Count(n) <= n
<1> DEFINE m == n - 1
           q == m \div CntMax
           r == m % CntMax
<1>1. m \in Nat /\ CntMax \in Nat /\ CntMax > 0
  OBVIOUS
<1>2. q \in Int /\ r \in 0 .. (CntMax - 1) /\ m = CntMax * q + r
  BY <1>1
<1>3. Count(n) = r + 1
  BY DEF Count
<1> HIDE DEF q, r
<1>4. r <= m
  <2>1. CASE q >= 0
    <3>1. CntMax * q >= 0
      BY <1>1, <1>2, <2>1
    <3> QED
      BY <1>1, <1>2, <3>1
  <2>2. CASE q < 0
    <3>1. CntMax * q <= CntMax * (-1)
      BY <1>1, <1>2, <2>2
    <3> QED
      BY <1>1, <1>2, <3>1
  <2> QED
    BY <1>2, <2>1, <2>2
<1> QED
  BY <1>2, <1>3, <1>4

LEMMA ResetType ==
  ASSUME TypeOK, NEW ok \in BOOLEAN, Reset(ok)
  PROVE  /\ ie' \in BOOLEAN /\ stat' = {} /\ cnt' = 0 /\ fifo' = 0
         /\ bus' \in {"free", "stuck"}
         /\ dir' = dir /\ stop' = stop
  BY DEF Reset

(***************************************************************************)
(* What the handler moves: no more than is left, in or out, and no more    *)
(* than there is room for.                                                 *)
(***************************************************************************)
LEMMA MoveBytesType ==
  ASSUME TypeOK, MoveBytes
  PROVE  xlen' \in Nat /\ fifo' \in 0 .. 2 * Thr
<1> DEFINE ask  == IF RRDY THEN Thr ELSE IF RDR THEN fifo ELSE 0
           give == IF XRDY THEN Thr ELSE IF XDR THEN cnt - fifo ELSE 0
           in   == Smaller(ask, xlen)
           out  == Smaller(give, xlen)
<1>1. xlen \in Nat /\ fifo \in 0 .. 2 * Thr /\ cnt \in Nat
  BY DEF TypeOK
<1>2. ask \in Nat /\ give \in Nat /\ ask <= fifo
  BY <1>1 DEF RRDY, RDR, XRDY, XDR
<1>3. give # 0 => ask = 0 /\ give <= Thr /\ fifo <= Thr
  BY <1>1 DEF RRDY, RDR, XRDY, XDR
<1>4. xlen' = xlen - in - out /\ fifo' = fifo - in + out
  BY DEF MoveBytes
<1> HIDE DEF ask, give
<1>5. in \in Nat /\ out \in Nat /\ in <= ask /\ out <= give /\ in <= xlen /\ out <= xlen
  BY <1>1, <1>2, SmallerType
<1> HIDE DEF in, out
<1>6. CASE give = 0
  BY <1>1, <1>2, <1>4, <1>5, <1>6
<1>7. CASE give # 0
  BY <1>1, <1>2, <1>3, <1>4, <1>5, <1>7
<1> QED
  BY <1>6, <1>7

LEMMA StepType == TypeOK /\ [Next]_vars => TypeOK'
<1> SUFFICES ASSUME TypeOK, [Next]_vars PROVE TypeOK'
  OBVIOUS
<1> USE DEF TypeOK
<1>1. ASSUME NEW d \in {"send", "recv"}, NEW n \in Lengths, NEW s \in BOOLEAN, Transfer(d, n, s)
      PROVE  TypeOK'
  <2>1. n \in Nat /\ Count(n) \in Nat /\ Count(n) <= n
    BY CountType
  <2>2. xlen' \in Nat /\ fifo' \in 0 .. 2 * Thr /\ cnt' \in Nat /\ beyond' \in Nat
    BY <1>1, <2>1 DEF Transfer, Start, Smaller
  <2>3. /\ pc' = "wait" /\ result' = result /\ status' = {} /\ pulses' = pulses /\ dir' = d
        /\ stat' \subseteq {"ARDY", "NACK", "AL", "ERR"} /\ bus' = "moving"
    BY <1>1 DEF Transfer, Start
  <2>4. ie' \in BOOLEAN /\ clean' \in BOOLEAN /\ cut' \in BOOLEAN
    BY <1>1, Zenon DEF Transfer
  <2>5. intexpected' \in BOOLEAN /\ re_start' \in BOOLEAN /\ stop' \in BOOLEAN
    BY <1>1, Zenon DEF Transfer, Start
  <2> QED
    BY <2>2, <2>3, <2>4, <2>5
<1>2. CASE TransferBusy
  <2>1. result' \subseteq Status \cup {"BUSY"}
    BY <1>2 DEF TransferBusy
  <2>2. Reset(FALSE)
    BY <1>2 DEF TransferBusy
  <2>3. /\ ie' \in BOOLEAN /\ stat' = {} /\ cnt' = 0 /\ fifo' = 0
        /\ bus' \in {"free", "stuck"} /\ dir' = dir /\ stop' = stop
    BY <2>2, ResetType, FALSE \in BOOLEAN
  <2>4. UNCHANGED <<pc, driver, pulses, clean, cut>>
    BY <1>2 DEF TransferBusy
  <2> QED
    BY <2>1, <2>3, <2>4
<1>3. CASE TakePulse
  <2>1. pulses' \in Nat /\ result' \subseteq Status \cup {"BUSY"}
    BY <1>3 DEF TakePulse
  <2>2. pc' \in {"idle", "recover"}
    BY <1>3 DEF TakePulse
  <2>3. UNCHANGED <<driver, ctrl, clean, cut>>
    BY <1>3 DEF TakePulse
  <2> QED
    BY <2>1, <2>2, <2>3
<1>4. ASSUME NEW ok \in BOOLEAN, Recover(ok) PROVE TypeOK'
  BY <1>4, ResetType DEF Recover
<1>5. CASE Timeout
  <2>1. pc' = "timedout" /\ clean' \in BOOLEAN
    BY <1>5, Zenon DEF Timeout
  <2> QED
    BY <1>5, <2>1 DEF Timeout
<1>6. ASSUME NEW ok \in BOOLEAN, TimeoutReset(ok) PROVE TypeOK'
  <2>1. result' \subseteq Status
    BY <1>6 DEF TimeoutReset, Status
  <2> QED
    BY <1>6, <2>1, ResetType DEF TimeoutReset
<1>7. ASSUME NEW ok \in BOOLEAN, BusReset(ok) PROVE TypeOK'
  <2>1. cut' \in BOOLEAN
    BY <1>7, Zenon DEF BusReset
  <2> QED
    BY <1>7, <2>1, ResetType DEF BusReset
<1>8. CASE Intr
  <2>1. xlen' \in Nat /\ fifo' \in 0 .. 2 * Thr
    BY <1>8, MoveBytesType DEF Intr
  <2>2. status' \subseteq Status
    BY <1>8 DEF Intr, NewStatus, Status
  <2>3. re_start' \in BOOLEAN
    BY <1>8, Zenon DEF Intr, NewRestart
  <2>4. intexpected' \in BOOLEAN
    BY <1>8, Zenon DEF Intr
  <2>5. pulses' \in Nat
    BY <1>8 DEF Intr
  <2>6. bus' \in {"free", "held", "moving", "nacked", "stopping", "stuck"}
    BY <1>8 DEF Intr, AskForStop
  <2>7. stat' = {}
    BY <1>8 DEF Intr
  <2> QED
    BY <1>8, <2>1, <2>2, <2>3, <2>4, <2>5, <2>6, <2>7 DEF Intr
<1>9. CASE Wire \/ OtherDevice
  <2>1. cnt' \in Nat /\ fifo' \in 0 .. 2 * Thr
    BY <1>9 DEF Wire, MoveByte, MoveEnd, Nack, ArbitrationLost, Overrun, StopSent, OtherDevice
  <2>2. /\ stat' \subseteq {"ARDY", "NACK", "AL", "ERR"}
        /\ bus' \in {"free", "held", "moving", "nacked", "stopping", "stuck"}
    BY <1>9 DEF Wire, MoveByte, MoveEnd, Nack, ArbitrationLost, Overrun, StopSent, OtherDevice
  <2>3. WireSame
    BY <1>9 DEF Wire, MoveByte, MoveEnd, Nack, ArbitrationLost, Overrun, StopSent, OtherDevice
  <2> QED
    BY <2>1, <2>2, <2>3 DEF WireSame
<1>10. CASE UNCHANGED vars
  BY <1>10 DEF vars
<1> QED
  BY <1>1, <1>2, <1>3, <1>4, <1>5, <1>6, <1>7, <1>8, <1>9, <1>10 DEF Next, Thread

\* The state keeps its types; the FIFO never holds more than it can.
THEOREM TypeCorrect == Spec => []TypeOK
<1> QED
  BY InitType, StepType, PTL DEF Spec

-----------------------------------------------------------------------------
(***************************************************************************)
(* Where the bytes are is kept by every step of the handler and the bus.   *)
(***************************************************************************)
LEMMA MoveBytesAdd ==
  ASSUME TypeOK, MoveBytes, BytesAddUp, dir' = dir, cnt' = cnt, beyond' = beyond
  PROVE  BytesAddUp'
<1> DEFINE in  == Smaller(IF RRDY THEN Thr ELSE IF RDR THEN fifo ELSE 0, xlen)
           out == Smaller(IF XRDY THEN Thr ELSE IF XDR THEN cnt - fifo ELSE 0, xlen)
<1>1. xlen \in Nat /\ fifo \in Nat /\ cnt \in Nat /\ beyond \in Nat
  BY DEF TypeOK
<1>2. xlen' = xlen - in - out /\ fifo' = fifo - in + out
  BY DEF MoveBytes
<1>3. (dir = "recv" => out = 0) /\ (dir # "recv" => in = 0)
  BY <1>1 DEF RRDY, RDR, XRDY, XDR, Smaller
<1>4. in \in Int /\ out \in Int
  BY <1>1 DEF Smaller
<1> HIDE DEF in, out
<1> QED
  BY <1>1, <1>2, <1>3, <1>4 DEF BytesAddUp

LEMMA MoveBytesNone ==
  ASSUME TypeOK, MoveBytes, xlen = 0 \/ ~Ready
  PROVE  xlen' = xlen /\ fifo' = fifo
<1> DEFINE in  == Smaller(IF RRDY THEN Thr ELSE IF RDR THEN fifo ELSE 0, xlen)
           out == Smaller(IF XRDY THEN Thr ELSE IF XDR THEN cnt - fifo ELSE 0, xlen)
<1>1. xlen \in Nat /\ fifo \in Nat /\ cnt \in Nat
  BY DEF TypeOK
<1>2. xlen' = xlen - in - out /\ fifo' = fifo - in + out
  BY DEF MoveBytes
<1>3. in = 0 /\ out = 0
  BY <1>1 DEF Ready, RRDY, RDR, XRDY, XDR, Smaller
<1> HIDE DEF in, out
<1> QED
  BY <1>1, <1>2, <1>3

(***************************************************************************)
(* A controller that has been reset is quiet.                              *)
(***************************************************************************)
LEMMA ResetQuiet ==
  ASSUME TypeOK, NEW ok \in BOOLEAN, Reset(ok)
  PROVE  /\ Still' /\ stat' = {} /\ ~Ready' /\ bus' # "held"
         /\ cnt' = 0 /\ fifo' = 0
<1>1. stat' = {} /\ cnt' = 0 /\ fifo' = 0 /\ bus' \in {"free", "stuck"}
  BY ResetType
<1> QED
  BY <1>1 DEF Still, Ready, RRDY, RDR, XRDY, XDR

-----------------------------------------------------------------------------
(***************************************************************************)
(* The invariant, step by step.                                            *)
(***************************************************************************)
LEMMA InitInv == Init => IInv
<1> SUFFICES ASSUME Init PROVE IInv
  OBVIOUS
<1>1. TypeOK
  BY InitType
<1>2. pc = "idle" /\ status = {} /\ pulses = 0 /\ stat = {} /\ fifo = 0 /\ bus = "free" /\ dir = "send"
  BY DEF Init
<1>3. ~intexpected /\ ~re_start
  BY Zenon DEF Init
<1> QED
  BY <1>1, <1>2, <1>3 DEF IInv, TransferIsWhole, CallerOwnsBuffer, RestartMeansHeld,
     Still, Ready, RRDY, RDR, XRDY, XDR

\* A transfer begins.
LEMMA TransferInv ==
  ASSUME IInv, NEW d \in {"send", "recv"}, NEW n \in Lengths, NEW s \in BOOLEAN, Transfer(d, n, s)
  PROVE  IInv'
<1>1. TypeOK'
  BY StepType DEF IInv, Next, Thread
<1>2. /\ pc' = "wait" /\ status' = {} /\ bus' = "moving" /\ dir' = d
      /\ pulses' = pulses
  BY DEF Transfer, Start
<1>3. intexpected' = TRUE /\ (re_start' <=> ~stop')
  BY Zenon DEF Transfer, Start
<1>4. clean' => pulses = 0 /\ stat' = {}
  BY DEF Transfer, Start
<1>5. BytesAddUp'
  <2>1. n \in Nat /\ Count(n) \in Nat
    BY CountType
  <2> QED
    BY <2>1 DEF Transfer, Start, BytesAddUp, Smaller
<1>6. clean' => Waiting'
  BY <1>2, <1>3, <1>4, <1>5 DEF Waiting, Moving, Faulted
<1> QED
  BY <1>1, <1>2, <1>6 DEF IInv, TransferIsWhole, CallerOwnsBuffer, RestartMeansHeld

\* A wait ends with a pulse.
LEMMA TakePulseInv == ASSUME IInv, TakePulse PROVE IInv'
<1>1. TypeOK'
  BY StepType DEF IInv, Next, Thread
<1>2. UNCHANGED <<driver, ctrl, clean, cut>>
  BY DEF TakePulse
<1>3. pc = "wait" /\ pulses > 0 /\ pulses' = pulses - 1 /\ pulses \in Nat
  BY DEF TakePulse, IInv, TypeOK
<1>4. pc' = IF Broken THEN "recover" ELSE "idle"
  BY DEF TakePulse
<1>5. TransferIsWhole'
  BY <1>2 DEF IInv, TransferIsWhole
<1>6. ASSUME clean PROVE /\ ~intexpected /\ pulses' = 0 /\ "DONE" \in status
                         /\ (re_start <=> ~stop /\ ~Faulted)
  <2>1. Waiting
    BY <1>3, <1>6 DEF IInv
  <2>2. ~intexpected
    BY <1>3, <2>1 DEF Waiting
  <2>3. pulses = 1
    BY <2>1, <2>2 DEF Waiting
  <2> QED
    BY <1>3, <2>1, <2>2, <2>3 DEF Waiting
<1>7. CASE Broken
  <2>1. clean' => Recovering'
    BY <1>2, <1>6, <1>7 DEF Recovering, Broken, Faulted
  <2> QED
    BY <1>1, <1>4, <1>5, <1>7, <2>1 DEF IInv, CallerOwnsBuffer, RestartMeansHeld
<1>8. CASE ~Broken
  <2>1. ASSUME clean PROVE Over
    <3>1. Waiting
      BY <1>3, <2>1 DEF IInv
    <3>2. status # {}
      BY <1>6, <2>1
    <3>3. Stopping \/ Stopped \/ Over
      BY <3>1, <3>2 DEF Waiting, Moving, Refused, Lost, Ended
    <3> QED
      BY <1>6, <1>8, <2>1, <3>3 DEF Stopping, Stopped
  <2>2. ASSUME clean PROVE Still /\ stat = {} /\ ~Ready /\ (re_start <=> bus = "held")
    <3>1. Over
      BY <2>1, <2>2
    <3>2. CASE Faulted
      <4>1. bus = "free" /\ stat = {} /\ (dir = "recv" => fifo = 0)
        BY <1>8, <3>1, <3>2 DEF Over
      <4>2. ~re_start
        BY <1>6, <2>2, <3>2
      <4>3. ~Ready
        BY <4>1 DEF Ready, RRDY, RDR, XRDY, XDR
      <4> QED
        BY <4>1, <4>2, <4>3 DEF Still
    <3>3. CASE ~Faulted
      <4>1. bus = EndOfBus /\ stat = {} /\ (dir = "recv" => fifo = 0)
        BY <1>8, <3>1, <3>3 DEF Over, NoneLeft
      <4>2. re_start <=> ~stop
        BY <1>6, <2>2, <3>3
      <4>3. bus = "held" <=> ~stop
        BY <4>1 DEF EndOfBus
      <4>4. ~Ready /\ Still
        BY <4>1 DEF Ready, RRDY, RDR, XRDY, XDR, Still, EndOfBus
      <4> QED
        BY <4>1, <4>2, <4>3, <4>4
    <3> QED
      BY <3>2, <3>3
  <2>3. clean' => Still' /\ stat' = {} /\ ~Ready' /\ (re_start' <=> bus' = "held") /\ pulses' = 0 /\ ~intexpected'
    BY <1>2, <1>6, <2>2 DEF Still, Ready, RRDY, RDR, XRDY, XDR
  <2> QED
    BY <1>1, <1>4, <1>5, <1>8, <2>3 DEF IInv, CallerOwnsBuffer, RestartMeansHeld
<1> QED
  BY <1>7, <1>8

\* A reset after a lost arbitration or an error.
LEMMA RecoverInv == ASSUME IInv, NEW ok \in BOOLEAN, Recover(ok) PROVE IInv'
<1>1. TypeOK'
  BY StepType DEF IInv, Next, Thread
<1>2. pc = "recover" /\ pc' = "idle" /\ UNCHANGED <<driver, pulses, clean, cut>>
  BY DEF Recover
<1>3. Still' /\ stat' = {} /\ ~Ready' /\ bus' # "held" /\ cnt' = 0 /\ fifo' = 0
  BY ResetQuiet DEF Recover, IInv
<1>4. clean => pulses = 0 /\ ~intexpected /\ ~re_start
  BY <1>2 DEF IInv, Recovering
<1>5. TransferIsWhole'
  BY <1>2, <1>3 DEF IInv, TransferIsWhole
<1>6. CallerOwnsBuffer'
  BY <1>2, <1>3, <1>4 DEF CallerOwnsBuffer
<1>7. RestartMeansHeld'
  BY <1>2, <1>3, <1>4 DEF RestartMeansHeld
<1> QED
  BY <1>1, <1>2, <1>5, <1>6, <1>7 DEF IInv

\* A timeout, and the reset that follows it.
LEMMA TimeoutInv ==
  ASSUME IInv, Timeout \/ \E ok \in BOOLEAN : TimeoutReset(ok)
  PROVE  IInv'
<1>1. TypeOK'
  BY StepType DEF IInv, Next, Thread
<1>2. ~clean'
  BY DEF Timeout, TimeoutReset, IInv
<1> QED
  BY <1>1, <1>2 DEF IInv, TransferIsWhole, CallerOwnsBuffer, RestartMeansHeld

\* The reset before a transfer fails, or a client resets the bus.
LEMMA IdleResetInv ==
  ASSUME IInv, TransferBusy \/ \E ok \in BOOLEAN : BusReset(ok)
  PROVE  IInv'
<1>1. TypeOK'
  BY StepType DEF IInv, Next, Thread
<1>2. pc = "idle" /\ pc' = "idle" /\ UNCHANGED <<driver, pulses, clean>>
  BY DEF TransferBusy, BusReset
<1>3. Still' /\ stat' = {} /\ ~Ready' /\ bus' # "held" /\ cnt' = 0 /\ fifo' = 0
  <2>1. PICK ok \in BOOLEAN : Reset(ok)
    BY FALSE \in BOOLEAN DEF TransferBusy, BusReset
  <2> QED
    BY <2>1, ResetQuiet DEF IInv
<1>4. TransferIsWhole'
  BY <1>2, <1>3 DEF IInv, TransferIsWhole
<1>5. CallerOwnsBuffer'
  BY <1>2, <1>3 DEF IInv, CallerOwnsBuffer
<1>6. cut' \/ ~re_start'
  BY <1>2 DEF TransferBusy, MustReset, BusReset
<1>7. RestartMeansHeld'
  BY <1>3, <1>6 DEF RestartMeansHeld
<1> QED
  BY <1>1, <1>2, <1>4, <1>5, <1>7 DEF IInv

(***************************************************************************)
(* The handler.  It never runs between clean transfers; while one waits,   *)
(* it takes the transfer from one phase to the next.                       *)
(***************************************************************************)
LEMMA IntrPhase ==
  ASSUME TypeOK, Intr, Moving \/ Refused \/ Lost \/ Ended \/ Stopping \/ Stopped \/ Over
  PROVE  Moving' \/ Refused' \/ Lost' \/ Ended' \/ Stopping' \/ Stopped' \/ Over'
<1>1. /\ status' = NewStatus /\ bus' = AskForStop /\ stat' = {} /\ MoveBytes
      /\ dir' = dir /\ stop' = stop /\ cnt' = cnt
  BY DEF Intr
<1>2. CASE Moving
  <2>1. CASE stat = {}
    <3>1. status' = {} /\ bus' = "moving"
      BY <1>1, <1>2, <2>1 DEF Moving, NewStatus, AskForStop, Fault
    <3> QED
      BY <1>1, <3>1 DEF Moving
  <2>2. CASE stat # {}
    <3>1. stat = {"ERR"}
      BY <1>2, <2>2 DEF Moving
    <3>2. status' = {"ERROR"} /\ bus' = "stopping"
      BY <1>1, <1>2, <3>1 DEF Moving, NewStatus, AskForStop, Fault
    <3> QED
      BY <1>1, <3>2 DEF Stopping, Faulted
  <2> QED
    BY <2>1, <2>2
<1>3. CASE Refused
  <2>1. "NACK" \in status' /\ "DONE" \notin status' /\ bus' = "stopping"
    BY <1>1, <1>3 DEF Refused, NewStatus, AskForStop, Fault
  <2> QED
    BY <1>1, <2>1 DEF Stopping, Faulted
<1>4. CASE Lost
  <2>1. "ARBL" \in status' /\ "DONE" \in status' /\ bus' = bus
    BY <1>1, <1>4 DEF Lost, NewStatus, AskForStop, Fault
  <2> QED
    BY <1>1, <1>4, <2>1 DEF Lost, Over, Broken, Still
<1>5. CASE Ended
  <2>0. ~Ready
    BY <1>5 DEF Ended, NoneLeft, EndOfBus, Ready, RRDY, RDR, XRDY, XDR
  <2>1. NoneLeft'
    BY <1>1, <1>5, <2>0, MoveBytesNone DEF Ended, NoneLeft, Intr
  <2>2. CASE "ERR" \notin stat
    <3>1. status' = {"DONE"} /\ bus' = bus
      BY <1>1, <1>5, <2>2 DEF Ended, NewStatus, AskForStop, Fault
    <3>2. bus' = EndOfBus'
      BY <1>1, <1>5, <3>1 DEF Ended, EndOfBus
    <3> QED
      BY <1>1, <2>1, <3>1, <3>2 DEF Over, Faulted, Broken, Still, EndOfBus
  <2>3. CASE "ERR" \in stat
    <3>1. status' = {"DONE", "ERROR"}
      BY <1>1, <1>5, <2>3 DEF Ended, NewStatus
    <3>2. bus' \in {"free", "stopping"}
      BY <1>1, <1>5, <2>3 DEF Ended, AskForStop, Fault, EndOfBus
    <3> QED
      BY <1>1, <3>1, <3>2 DEF Over, Stopping, Faulted, Broken, Still
  <2> QED
    BY <2>2, <2>3
<1>6. CASE Stopping
  <2>1. status' = status /\ bus' = bus
    BY <1>1, <1>6 DEF Stopping, NewStatus, AskForStop, Fault
  <2> QED
    BY <1>1, <1>6, <2>1 DEF Stopping, Faulted, Broken
<1>7. CASE Stopped
  <2>1. status' = status \cup {"DONE"} /\ bus' = "free"
    BY <1>1, <1>7 DEF Stopped, NewStatus, AskForStop, Fault
  <2>2. ~Ready
    BY <1>7 DEF Stopped, Ready, RRDY, RDR, XRDY, XDR
  <2>3. fifo' = fifo
    BY <1>1, <2>2, MoveBytesNone
  <2>4. Faulted'
    BY <1>7, <2>1 DEF Stopped, Faulted
  <2> QED
    BY <1>1, <1>7, <2>1, <2>3, <2>4 DEF Stopped, Over, Still
<1>8. CASE Over
  <2>1. stat # {} \/ Ready
    BY DEF Intr, Interrupting
  <2>2. Ready
    BY <1>8, <2>1 DEF Over
  <2>3. Broken
    BY <1>8, <2>2 DEF Over, Ready, RRDY, RDR, XRDY, XDR, EndOfBus, NoneLeft, TypeOK
  <2>4. status' = status /\ bus' = bus
    BY <1>1, <1>8 DEF Over, NewStatus, AskForStop, Fault
  <2> QED
    BY <1>1, <1>8, <2>3, <2>4 DEF Over, Broken, Still
<1> QED
  BY <1>2, <1>3, <1>4, <1>5, <1>6, <1>7, <1>8

LEMMA IntrInv == ASSUME IInv, Intr PROVE IInv'
<1>1. TypeOK'
  BY StepType DEF IInv, Next
<1>2. UNCHANGED <<pc, result, beyond, ie, dir, stop, cnt, clean, cut>>
  BY DEF Intr
<1>3. TypeOK
  BY DEF IInv
<1>4. ~(clean /\ pc = "idle")
  BY DEF IInv, CallerOwnsBuffer, Intr, Interrupting
<1>5. status' = NewStatus /\ re_start' = NewRestart /\ stat' = {}
  BY DEF Intr
<1>6. Faulted' <=> Faulted \/ Fault
  BY <1>5 DEF Faulted, Fault, NewStatus
<1>7. "DONE" \notin status /\ "DONE" \in status' => "ARDY" \in stat \/ "AL" \in stat
  BY <1>5 DEF NewStatus
<1>8. ASSUME clean, pc = "wait" PROVE Waiting'
  <2>1. Waiting
    BY <1>8 DEF IInv
  <2>2. BytesAddUp'
    BY <1>2, <1>3, <2>1, MoveBytesAdd DEF Intr, Waiting
  <2>3. /\ pulses' = IF intexpected' THEN 0 ELSE 1
        /\ intexpected' <=> "DONE" \notin status'
    <3>1. status \subseteq status'
      BY <1>5 DEF NewStatus
    <3>2. CASE "DONE" \in NewStatus /\ intexpected
      <4>1. pulses = 0
        BY <2>1, <3>2 DEF Waiting
      <4>2. pulses' = 1
        <5>1. pulses' = pulses + 1
          BY <3>2, Zenon DEF Intr
        <5> QED
          BY <4>1, <5>1
      <4>3. ~intexpected'
        BY <3>2, Zenon DEF Intr
      <4> QED
        BY <1>5, <3>2, <4>2, <4>3
    <3>3. CASE ~("DONE" \in NewStatus /\ intexpected)
      <4>1. UNCHANGED <<intexpected, pulses>>
        BY <3>3 DEF Intr
      <4>2. intexpected => "DONE" \notin status'
        BY <1>5, <3>3
      <4>3. ~intexpected => "DONE" \in status'
        BY <2>1, <3>1 DEF Waiting
      <4> QED
        BY <2>1, <4>1, <4>2, <4>3 DEF Waiting
    <3> QED
      BY <3>2, <3>3
  <2>4. re_start' <=> ~stop' /\ ~Faulted'
    BY <1>2, <1>5, <1>6, <2>1 DEF Waiting, NewRestart
  <2>5. Moving' \/ Refused' \/ Lost' \/ Ended' \/ Stopping' \/ Stopped' \/ Over'
    BY <1>3, <2>1, IntrPhase DEF Waiting
  <2> QED
    BY <2>2, <2>3, <2>4, <2>5 DEF Waiting
<1>9. ASSUME clean, pc = "recover" PROVE Recovering'
  <2>1. Recovering
    BY <1>9 DEF IInv
  <2>2. pulses' = pulses /\ intexpected' = intexpected
    BY <2>1 DEF Intr, Recovering
  <2>3. Broken'
    BY <1>5, <2>1 DEF Recovering, Broken, NewStatus
  <2> QED
    BY <1>5, <2>1, <2>2, <2>3 DEF Recovering, NewRestart
<1>10. TransferIsWhole'
  <2>1. ASSUME clean, status' = {"DONE"} PROVE NoneLeft'
    <3>1. pc = "wait"
      <4>1. pc # "recover"
        BY <1>5, <2>1 DEF IInv, Recovering, Broken, NewStatus
      <4> QED
        BY <1>3, <1>4, <2>1, <4>1 DEF IInv, TypeOK
    <3>2. Waiting'
      BY <1>8, <2>1, <3>1
    <3>3. Over'
      BY <2>1, <3>2 DEF Waiting, Moving, Refused, Lost, Ended, Stopping, Stopped, Faulted
    <3>4. ~Broken' /\ ~Faulted'
      BY <2>1 DEF Broken, Faulted
    <3> QED
      BY <3>3, <3>4 DEF Over, Faulted, Broken
  <2> QED
    BY <1>2, <2>1 DEF TransferIsWhole, NoneLeft
<1> QED
  BY <1>1, <1>2, <1>4, <1>8, <1>9, <1>10 DEF IInv, CallerOwnsBuffer, RestartMeansHeld

(***************************************************************************)
(* The controller and the bus.                                             *)
(***************************************************************************)
LEMMA WireInv == ASSUME IInv, Wire \/ OtherDevice PROVE IInv'
<1>1. TypeOK /\ TypeOK'
  BY StepType DEF IInv, Next
<1>2. WireSame
  BY DEF Wire, MoveByte, MoveEnd, Nack, ArbitrationLost, Overrun, StopSent, OtherDevice
<1>3. /\ pc' = pc /\ xlen' = xlen /\ beyond' = beyond /\ status' = status /\ intexpected' = intexpected
      /\ re_start' = re_start /\ pulses' = pulses /\ ie' = ie /\ dir' = dir /\ stop' = stop
      /\ clean' = clean /\ cut' = cut
  BY <1>2 DEF WireSame
<1>4. Still => /\ OtherDevice /\ bus # "held" /\ bus' \in {"free", "stuck"}
               /\ UNCHANGED <<stat, cnt, fifo>>
  BY DEF Still, Wire, MoveByte, MoveEnd, Nack, ArbitrationLost, Overrun, StopSent, OtherDevice
<1>5. ASSUME clean, pc = "idle" PROVE CallerOwnsBuffer' /\ RestartMeansHeld'
  <2>1. Still /\ stat = {} /\ ~Ready /\ pulses = 0 /\ ~intexpected
    BY <1>5 DEF IInv, CallerOwnsBuffer
  <2>2. CallerOwnsBuffer'
    BY <1>3, <1>4, <2>1 DEF CallerOwnsBuffer, Still, Ready, RRDY, RDR, XRDY, XDR
  <2>3. RestartMeansHeld'
    BY <1>3, <1>4, <1>5, <2>1 DEF IInv, RestartMeansHeld
  <2> QED
    BY <2>2, <2>3
<1>6. ASSUME clean, pc = "wait" PROVE Waiting'
  <2>1. Waiting
    BY <1>6 DEF IInv
  <2>2. BytesAddUp'
    <3>1. CASE MoveByte
      <4>1. xlen \in Nat /\ fifo \in Nat /\ cnt \in Nat /\ beyond \in Nat /\ dir \in {"send", "recv"}
        BY <1>1 DEF TypeOK
      <4>2. BytesAddUp
        BY <2>1 DEF Waiting
      <4> QED
        BY <1>3, <3>1, <4>1, <4>2 DEF MoveByte, BytesAddUp
    <3>2. CASE ~MoveByte
      <4>1. UNCHANGED <<cnt, fifo>>
        BY <3>2 DEF Wire, MoveEnd, Nack, ArbitrationLost, Overrun, StopSent, OtherDevice
      <4> QED
        BY <1>3, <2>1, <4>1 DEF Waiting, BytesAddUp
    <3> QED
      BY <3>1, <3>2
  <2>3. CASE Moving
    <3>1. ASSUME MoveByte PROVE Moving'
      BY <1>3, <2>3, <3>1 DEF Moving, MoveByte
    <3>2. ASSUME MoveEnd PROVE Ended'
      <4>1. NoneLeft
        BY <1>1, <2>1, <3>2 DEF Waiting, BytesAddUp, NoneLeft, MoveEnd, TypeOK
      <4>2. NoneLeft'
        BY <1>3, <3>2, <4>1 DEF NoneLeft, MoveEnd
      <4> QED
        BY <1>3, <2>3, <3>2, <4>2 DEF Moving, MoveEnd, Ended, EndOfBus
    <3>3. ASSUME Nack PROVE Refused'
      BY <1>3, <2>3, <3>3 DEF Moving, Nack, Refused
    <3>4. ASSUME ArbitrationLost PROVE Lost'
      BY <1>3, <2>3, <3>4 DEF Moving, ArbitrationLost, Lost
    <3>5. ASSUME Overrun PROVE Moving'
      BY <1>3, <2>3, <3>5 DEF Moving, Overrun
    <3>6. ~StopSent /\ ~OtherDevice
      BY <1>6, <2>3 DEF Moving, StopSent, OtherDevice
    <3>7. Moving' \/ Refused' \/ Lost' \/ Ended'
      BY <3>1, <3>2, <3>3, <3>4, <3>5, <3>6 DEF Wire
    <3> QED
      BY <1>3, <2>1, <2>2, <3>7 DEF Waiting, Faulted
  <2>4. CASE Stopping
    <3>1. StopSent
      BY <2>4 DEF Stopping, Wire, MoveByte, MoveEnd, Nack, ArbitrationLost, Overrun, OtherDevice
    <3>2. Stopped'
      BY <1>3, <2>4, <3>1 DEF Stopping, StopSent, Stopped, Faulted, Broken
    <3> QED
      BY <1>3, <2>1, <2>2, <3>2 DEF Waiting, Faulted
  <2>5. CASE Refused
    BY <2>5 DEF Refused, Wire, MoveByte, MoveEnd, Nack, ArbitrationLost, Overrun, StopSent, OtherDevice
  <2>6. CASE Lost \/ Ended \/ Stopped \/ Over
    <3>1. Still
      BY <2>6 DEF Lost, Ended, Stopped, Over, Still, EndOfBus
    <3>2. bus = "stuck" /\ bus' = "free" /\ UNCHANGED <<stat, cnt, fifo>>
      BY <1>4, <1>6, <3>1 DEF OtherDevice
    <3>3. Lost \/ (Over /\ Broken)
      BY <2>6, <3>2 DEF Lost, Ended, Stopped, Over, EndOfBus
    <3>4. Lost' \/ Over'
      BY <1>3, <3>2, <3>3 DEF Lost, Over, Broken, Still
    <3> QED
      BY <1>3, <2>1, <2>2, <3>4 DEF Waiting, Faulted
  <2> QED
    BY <2>1, <2>3, <2>4, <2>5, <2>6 DEF Waiting
<1>7. clean /\ pc = "recover" => Recovering'
  BY <1>3 DEF IInv, Recovering, Broken
<1>8. TransferIsWhole'
  <2>1. ASSUME clean, status = {"DONE"} PROVE Still
    <3>1. ~Broken /\ ~Faulted
      BY <2>1 DEF Broken, Faulted
    <3>2. CASE pc = "wait"
      <4>1. Over
        BY <2>1, <3>1, <3>2 DEF IInv, Waiting, Moving, Refused, Lost, Ended, Stopping, Stopped
      <4> QED
        BY <4>1 DEF Over
    <3>3. CASE pc # "wait"
      BY <1>1, <2>1, <3>1, <3>3 DEF IInv, Recovering, CallerOwnsBuffer, TypeOK
    <3> QED
      BY <3>2, <3>3
  <2> QED
    BY <1>3, <1>4, <2>1 DEF IInv, TransferIsWhole
<1> QED
  BY <1>1, <1>3, <1>5, <1>6, <1>7, <1>8 DEF IInv, CallerOwnsBuffer, RestartMeansHeld

LEMMA StepInv == IInv /\ [Next]_vars => IInv'
<1> SUFFICES ASSUME IInv, [Next]_vars PROVE IInv'
  OBVIOUS
<1>1. CASE UNCHANGED vars
  BY <1>1 DEF vars, IInv, TypeOK, Waiting, BytesAddUp, Moving, Refused, Lost, Ended, Stopping,
     Stopped, Over, Recovering, Broken, Faulted, EndOfBus, NoneLeft, Still, TransferIsWhole,
     CallerOwnsBuffer, RestartMeansHeld, Ready, RRDY, RDR, XRDY, XDR
<1> QED
  BY <1>1, TransferInv, TakePulseInv, RecoverInv, TimeoutInv, IdleResetInv, IntrInv, WireInv
  DEF Next, Thread

(***************************************************************************)
(* The inductive invariant, from which the rest follows.                   *)
(***************************************************************************)
THEOREM Invariance == Spec => []IInv
<1> QED
  BY InitInv, StepInv, PTL DEF Spec

\* A clean transfer that reports DONE alone has moved every byte.
THEOREM TransfersAreWhole == Spec => []TransferIsWhole
<1>1. IInv => TransferIsWhole
  BY DEF IInv
<1> QED
  BY <1>1, Invariance, PTL

\* When a clean transfer returns, nothing is left that touches its buffer.
THEOREM BufferReturned == Spec => []CallerOwnsBuffer
<1>1. IInv => CallerOwnsBuffer
  BY DEF IInv
<1> QED
  BY <1>1, Invariance, PTL

\* re_start says that the driver holds the bus.
THEOREM RestartIsHeld == Spec => []RestartMeansHeld
<1>1. IInv => RestartMeansHeld
  BY DEF IInv
<1> QED
  BY <1>1, Invariance, PTL

\* A clean transfer that waits has something to wait for.
THEOREM WaitsAreAnswered == Spec => []WaitIsAnswered
<1>1. ASSUME IInv PROVE WaitIsAnswered
  <2>1. ASSUME clean, pc = "wait", ie, ~(pulses > 0)
        PROVE  Interrupting \/ WireCanMove
    <3>1. TypeOK /\ Waiting
      BY <1>1, <2>1 DEF IInv
    <3>2. intexpected /\ "DONE" \notin status
      BY <2>1, <3>1 DEF Waiting
    <3>3. Moving \/ Refused \/ Lost \/ Ended \/ Stopping \/ Stopped
      BY <3>1, <3>2 DEF Waiting, Over
    <3>4. CASE stat # {}
      BY <2>1, <3>4 DEF Interrupting
    <3>5. CASE stat = {} /\ Moving
      <4>1. xlen \in Nat /\ fifo \in 0 .. 2 * Thr /\ cnt \in Nat /\ Thr \in Nat \ {0}
        BY <3>1 DEF TypeOK
      <4>2. CASE dir = "recv"
        BY <2>1, <3>5, <4>1, <4>2 DEF Moving, WireCanMove, Interrupting, Ready, RRDY
      <4>3. CASE dir # "recv"
        <5>1. dir = "send"
          BY <3>1, <4>3 DEF Waiting, BytesAddUp, TypeOK
        <5>2. fifo = 0 /\ cnt # 0 => XRDY \/ XDR
          BY <3>5, <4>1, <5>1 DEF Moving, XRDY, XDR
        <5> QED
          BY <2>1, <3>5, <4>1, <5>1, <5>2 DEF Moving, WireCanMove, Interrupting, Ready
      <4> QED
        BY <4>2, <4>3
    <3>6. CASE stat = {} /\ Stopping
      BY <2>1, <3>1, <3>6 DEF Stopping, WireCanMove, Interrupting, Ready, RRDY, RDR, TypeOK
    <3> QED
      BY <3>3, <3>4, <3>5, <3>6 DEF Refused, Lost, Ended, Stopped
  <2> QED
    BY <2>1 DEF WaitIsAnswered
<1> QED
  BY <1>1, Invariance, PTL
=============================================================================
