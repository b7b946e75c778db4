--------------------------- MODULE SpiXferProofs ---------------------------
(***************************************************************************)
(* Proofs about the transfer engine of the SPI controller, for any FIFO,   *)
(* number of chip selects and transfer lengths.                            *)
(***************************************************************************)
EXTENDS SpiXfer, SequenceTheorems, TLAPS

USE DEF thread, wire, edma

-----------------------------------------------------------------------------
(***************************************************************************)
(* Type correctness.                                                       *)
(***************************************************************************)
LEMMA InitType == Init => TypeOK
<1> SUFFICES ASSUME Init PROVE TypeOK
  OBVIOUS
<1> USE XferAssumption
<1>1. 0 \in Channels
  BY DEF Channels
<1>2. bits \in [Channels -> SUBSET {"tx", "rx"}]
  BY DEF Init, NoBits
<1>3. pulses \in Seq({"spi", "edma"})
  BY DEF Init
<1> QED
  BY <1>1, <1>2, <1>3 DEF Init, TypeOK

LEMMA PulseType ==
  ASSUME pulses \in Seq({"spi", "edma"}), pulses # <<>>
  PROVE  Tail(pulses) \in Seq({"spi", "edma"})
  OBVIOUS

LEMMA StepType == TypeOK /\ [Next]_vars => TypeOK'
<1> SUFFICES ASSUME TypeOK, [Next]_vars PROVE TypeOK'
  OBVIOUS
<1> USE XferAssumption DEF TypeOK
<1>1. ASSUME NEW c \in Channels, NEW n \in Lengths, Xfer(c, n) PROVE TypeOK'
  BY <1>1 DEF Xfer, Smaller, NothingQueued
<1>2. ASSUME NEW c \in Channels, NEW n \in Lengths, DmaXfer(c, n) PROVE TypeOK'
  <2>1. left' \in Nat
    BY <1>2 DEF DmaXfer, CountsFor
  <2>2. clean' \in BOOLEAN
    BY <1>2, Zenon DEF DmaXfer
  <2> QED
    BY <1>2, <2>1, <2>2 DEF DmaXfer
<1>3. CASE TakeSpiPulse
  BY <1>3, PulseType DEF TakeSpiPulse, WaitReturns
<1>4. CASE TakeEdmaPulse
  <2>1. pulses' \in Seq({"spi", "edma"})
    BY <1>4, PulseType DEF TakeEdmaPulse
  <2>2. rlen' \in Int /\ ret' \in Int /\ pc' \in {"wait", "last", "finish"}
    BY <1>4 DEF TakeEdmaPulse, WaitReturns
  <2>3. emask' \in BOOLEAN
    BY <1>4 DEF TakeEdmaPulse
  <2> QED
    BY <1>4, <2>1, <2>2, <2>3 DEF TakeEdmaPulse
<1>5. CASE Timeout
  <2>1. rlen' \in Int /\ ret' \in Int /\ pc' \in {"wait", "last", "finish"}
    BY <1>5 DEF Timeout, WaitReturns
  <2> QED
    BY <1>5, <2>1 DEF Timeout
<1>6. CASE NoneMissing
  BY <1>6 DEF NoneMissing
<1>7. CASE Poll
  BY <1>7 DEF Poll
<1>8. CASE PollTimeout
  <2>1. rlen' \in Int
    BY <1>8 DEF PollTimeout
  <2>2. clean' \in BOOLEAN /\ late' \in BOOLEAN
    BY <1>8, Zenon DEF PollTimeout
  <2> QED
    BY <1>8, <2>1, <2>2 DEF PollTimeout
<1>9. CASE ReadWord
  BY <1>9 DEF ReadWord, Received, Garbage
<1>10. CASE ReadDone
  BY <1>10 DEF ReadDone
<1>11. CASE Finish
  <2>1. ret' \in Int
    BY <1>11 DEF Finish
  <2>2. wcnt' \in Nat /\ tx' \in Int /\ rx' \in Nat
    BY <1>11 DEF Finish
  <2>3. irq' \in BOOLEAN
    BY <1>11, Zenon DEF Finish
  <2> QED
    BY <1>11, <2>1, <2>2, <2>3 DEF Finish
<1>12. CASE SpiIntr
  <2>1. bits' \in [Channels -> SUBSET {"tx", "rx"}]
    BY <1>12 DEF SpiIntr, NoBits
  <2>2. ASSUME NEW c \in Channels, ReceiveFifo(c)
        PROVE  /\ rlen' \in Int /\ tlen' \in Int /\ tx' \in Int /\ rx' \in Nat
               /\ \A s \in stored' : s[1] \in Int /\ s[2] \in Int
    <3>0. Fifo \in Nat /\ rlen \in Int /\ tlen \in Int /\ len \in Nat /\ tx \in Int /\ rx \in Nat
      OBVIOUS
    <3>1. tlen' \in Int /\ tx' \in Int /\ rx' \in Nat /\ rlen' \in Int
      <4> HIDE DEF TypeOK
      <4> QED
        BY <2>2, <3>0 DEF ReceiveFifo, Smaller
    <3>2. ASSUME NEW i \in 0 .. Fifo - 1
          PROVE  rlen + i \in Int /\ (IF c = chan THEN Received(i) ELSE Garbage) \in Int
      BY DEF Received, Garbage
    <3>3. stored' = stored \cup
            {<<rlen + i, IF c = chan THEN Received(i) ELSE Garbage>> : i \in 0 .. Fifo - 1}
      BY <2>2 DEF ReceiveFifo
    <3>4. ASSUME NEW s \in stored' PROVE s[1] \in Int /\ s[2] \in Int
      <4>1. CASE s \in stored
        BY <4>1
      <4>2. CASE s \notin stored
        <5>1. PICK i \in 0 .. Fifo - 1 :
                s = <<rlen + i, IF c = chan THEN Received(i) ELSE Garbage>>
          BY <3>3, <4>2
        <5> QED BY <5>1, <3>2
      <4> QED BY <4>1, <4>2
    <3> QED BY <3>1, <3>4
  <2>3. /\ rlen' \in Int /\ tlen' \in Int /\ tx' \in Int /\ rx' \in Nat
        /\ \A s \in stored' : s[1] \in Int /\ s[2] \in Int
        /\ eow' \in BOOLEAN
    BY <1>12, <2>2 DEF SpiIntr
  <2>4. pulses' \in Seq({"spi", "edma"})
    <3>1. pulses' = pulses \/ pulses' = Append(pulses, "spi")
      BY <1>12, Zenon DEF SpiIntr, ReceiveFifo
    <3>2. pulses \in Seq({"spi", "edma"})
      OBVIOUS
    <3> HIDE DEF TypeOK
    <3> QED
      BY <3>1, <3>2
  <2> QED
    BY <1>12, <2>1, <2>3, <2>4 DEF SpiIntr
<1>13. CASE Shift
  BY <1>13 DEF Shift
<1>14. CASE EndOfCount
  BY <1>14 DEF EndOfCount
<1>15. CASE DmaMove
  <2>1. left' \in Nat /\ eirq' \in BOOLEAN
    BY <1>15 DEF DmaMove
  <2>2. bits' \in [Channels -> SUBSET {"tx", "rx"}]
    BY <1>15 DEF DmaMove
  <2> QED
    BY <1>15, <2>1, <2>2 DEF DmaMove
<1>16. CASE EdmaIntr
  <2>1. pulses' \in Seq({"spi", "edma"})
    BY <1>16 DEF EdmaIntr
  <2>2. eirq' \in BOOLEAN /\ emask' \in BOOLEAN
    BY <1>16 DEF EdmaIntr
  <2> QED
    BY <1>16, <2>1, <2>2 DEF EdmaIntr
<1>17. CASE UNCHANGED vars
  BY <1>17 DEF vars
<1>18. CASE TimeoutFault
  <2>1. irq' \in BOOLEAN /\ clean' \in BOOLEAN /\ late' \in BOOLEAN
    BY <1>18, Zenon DEF TimeoutFault
  <2> QED
    BY <1>18, <2>1 DEF TimeoutFault
<1> QED
  BY <1>1, <1>2, <1>3, <1>4, <1>5, <1>6, <1>7, <1>8, <1>9, <1>10, <1>11, <1>12,
     <1>13, <1>14, <1>15, <1>16, <1>17, <1>18 DEF Next, Call, Thread

-----------------------------------------------------------------------------
(***************************************************************************)
(* Storing the next words in order extends what has been exchanged.        *)
(***************************************************************************)
LEMMA ExchangedMore ==
  ASSUME NEW n \in Nat, NEW m \in Nat
  PROVE  Exchanged(n) \cup {<<n + i, n + i>> : i \in 0 .. m - 1} = Exchanged(n + m)
<1> DEFINE New == {<<n + i, n + i>> : i \in 0 .. m - 1}
<1>1. Exchanged(n) \subseteq Exchanged(n + m)
  <2>1. 0 .. n - 1 \subseteq 0 .. (n + m) - 1
    OBVIOUS
  <2> QED
    BY <2>1, Zenon DEF Exchanged
<1>2. New \subseteq Exchanged(n + m)
  <2>1. \A i \in 0 .. m - 1 : n + i \in 0 .. (n + m) - 1
    OBVIOUS
  <2> QED
    BY <2>1, Zenon DEF Exchanged
<1>3. ASSUME NEW k \in 0 .. (n + m) - 1 PROVE <<k, k>> \in Exchanged(n) \cup New
  <2>1. CASE k \in 0 .. n - 1
    BY <2>1, Zenon DEF Exchanged
  <2>2. CASE k \notin 0 .. n - 1
    <3>1. k - n \in 0 .. m - 1 /\ n + (k - n) = k
      BY <2>2
    <3> QED
      BY <3>1, Zenon
  <2> QED
    BY <2>1, <2>2
<1>4. Exchanged(n + m) \subseteq Exchanged(n) \cup New
  BY <1>3, Zenon DEF Exchanged
<1> QED
  BY <1>1, <1>2, <1>4, Zenon

LEMMA ExchangedNext ==
  ASSUME NEW n \in Nat
  PROVE  Exchanged(n) \cup {<<n, n>>} = Exchanged(n + 1)
<1>1. 0 .. 1 - 1 = {0} /\ n + 0 = n
  OBVIOUS
<1>2. {<<n + i, n + i>> : i \in 0 .. 1 - 1} = {<<n, n>>}
  BY <1>1, Zenon
<1> QED
  BY <1>2, ExchangedMore, Zenon

-----------------------------------------------------------------------------
(***************************************************************************)
(* The step that preserves the invariant, one lemma for each action that   *)
(* moves an exchange on.                                                   *)
(***************************************************************************)
LEMMA Calls ==
  ASSUME IInv, TypeOK', NEW c \in Channels, NEW n \in Lengths, Xfer(c, n) \/ DmaXfer(c, n)
  PROVE  IInv'
<1> USE XferAssumption
<1>1. CASE Xfer(c, n)
  <2>1. Armed' /\ ExchangeIsExact'
    BY <1>1 DEF Xfer, Armed, ExchangeIsExact
  <2>2. Completions'
    BY <1>1 DEF Xfer, IInv, Completions, PioRuns, DmaRuns, OneCompletion, NothingQueued
  <2>3. ASSUME clean' PROVE InStep'
    <3>1. bits' = [bits EXCEPT ![c] = {}] /\ chan' = c /\ \A d \in Channels \ {c} : bits[d] = {}
      BY <1>1, <2>3 DEF Xfer
    <3>2. \A d \in Channels : bits'[d] = {}
      BY <3>1 DEF IInv, TypeOK
    <3>3. Exchanged(0) = {}
      BY DEF Exchanged
    <3> QED
      BY <1>1, <3>1, <3>2, <3>3 DEF Xfer, InStep, Smaller
  <2> QED
    BY <2>1, <2>2, <2>3 DEF IInv
<1>2. CASE DmaXfer(c, n)
  <2>1. left' # 0
    BY <1>2 DEF DmaXfer, CountsFor
  <2> QED
    BY <1>2, <2>1 DEF DmaXfer, IInv, TypeOK, Armed, Completions, PioRuns, DmaRuns, OneDmaCompletion,
                      NothingQueued, ExchangeIsExact
<1> QED
  BY <1>1, <1>2

LEMMA Waits ==
  ASSUME IInv, TypeOK', TakeSpiPulse \/ TakeEdmaPulse \/ Timeout \/ TimeoutFault
  PROVE  IInv'
<1> USE DEF IInv, TypeOK
<1>1. CASE TakeSpiPulse
  <2>1. Armed' /\ ExchangeIsExact'
    BY <1>1 DEF TakeSpiPulse, WaitReturns, Armed, ExchangeIsExact
  <2>2. Completions'
    <3>1. pulses = <<"spi">> => pulses' = <<>>
      BY <1>1 DEF TakeSpiPulse
    <3>2. ~(kind = "dma" /\ clean)
      BY <1>1 DEF TakeSpiPulse, Completions, DmaRuns
    <3>3. ~(kind = "dma" /\ ~late)
      BY <1>1 DEF TakeSpiPulse, Completions, DmaRuns, OneDmaCompletion
    <3> QED
      BY <1>1, <3>1, <3>2, <3>3 DEF TakeSpiPulse, WaitReturns, Completions, PioRuns, DmaRuns, OneCompletion
  <2>3. PioRuns' /\ clean' => InStep'
    <3> SUFFICES ASSUME kind = "pio", clean PROVE InStep'
      BY <1>1 DEF TakeSpiPulse, PioRuns
    <3>1. InStep /\ OneCompletion /\ pulses # <<>>
      BY <1>1 DEF TakeSpiPulse, PioRuns, Completions
    <3> QED
      BY <1>1, <3>1 DEF TakeSpiPulse, WaitReturns, InStep, OneCompletion, Smaller
  <2> QED
    BY <2>1, <2>2, <2>3
<1>2. CASE TakeEdmaPulse
  <2>1. ~(kind = "pio" /\ (clean \/ ~late))
    BY <1>2 DEF TakeEdmaPulse, Completions, PioRuns, OneCompletion
  <2>2. pulses = <<"edma">> => pulses' = <<>>
    BY <1>2 DEF TakeEdmaPulse
  <2>3. (\A i \in 1 .. Len(pulses) : pulses[i] # "spi") => \A i \in 1 .. Len(pulses') : pulses'[i] # "spi"
    BY <1>2 DEF TakeEdmaPulse
  <2>4. Armed' /\ ExchangeIsExact'
    BY <1>2 DEF TakeEdmaPulse, WaitReturns, Armed, ExchangeIsExact
  <2>5. Completions'
    BY <1>2, <2>1, <2>2, <2>3 DEF TakeEdmaPulse, WaitReturns, Completions, PioRuns, DmaRuns, OneDmaCompletion
  <2> QED
    BY <1>2, <2>1, <2>4, <2>5 DEF TakeEdmaPulse, PioRuns
<1>3. CASE Timeout
  BY <1>3 DEF Timeout, WaitReturns, Armed, Completions, PioRuns, DmaRuns, ExchangeIsExact
<1>4. CASE TimeoutFault
  BY <1>4 DEF TimeoutFault, Armed, Completions, PioRuns, DmaRuns, ExchangeIsExact
<1> QED
  BY <1>1, <1>2, <1>3, <1>4

LEMMA Drains ==
  ASSUME IInv, TypeOK', NoneMissing \/ Poll \/ PollTimeout \/ ReadDone
  PROVE  IInv'
<1> USE DEF IInv, TypeOK
<1>1. Armed' /\ ExchangeIsExact'
  BY DEF NoneMissing, Poll, PollTimeout, ReadDone, Armed, ExchangeIsExact
<1>2. Completions'
  BY DEF NoneMissing, Poll, PollTimeout, ReadDone, Armed, Completions, PioRuns, DmaRuns, OneCompletion
<1>3. PioRuns' /\ clean' => InStep'
  <2> SUFFICES ASSUME PioRuns, clean, NoneMissing \/ Poll \/ ReadDone PROVE InStep'
    BY DEF NoneMissing, Poll, PollTimeout, ReadDone, PioRuns
  <2>1. InStep /\ OneCompletion
    BY DEF Completions
  <2>2. sent = len /\ rlen + rx = len
    BY <2>1 DEF InStep, OneCompletion, NoneMissing, Poll, ReadDone
  <2>3. pc' = "finish" => rlen = len
    <3>1. rlen \in Nat /\ len \in Nat /\ rx \in Nat /\ rlen <= len /\ (pc = "drain" => todo = len - rlen)
      BY <2>1, <2>2 DEF InStep
    <3>2. NoneMissing => rlen = len
      BY <3>1 DEF NoneMissing, WordsMissing
    <3>3. ReadDone => rlen = len
      BY <3>1 DEF ReadDone
    <3> QED
      BY <3>2, <3>3 DEF Poll
  <2> QED
    BY <2>1, <2>2, <2>3 DEF InStep, NoneMissing, Poll, ReadDone, Smaller
<1> QED
  BY <1>1, <1>2, <1>3

LEMMA Reads ==
  ASSUME IInv, TypeOK', ReadWord
  PROVE  IInv'
<1> USE DEF IInv
<1>1. Armed' /\ ExchangeIsExact' /\ Completions'
  BY DEF TypeOK, ReadWord, Armed, ExchangeIsExact, Completions, PioRuns, DmaRuns, OneCompletion
<1>2. PioRuns' /\ clean' => InStep'
  <2> SUFFICES ASSUME PioRuns, clean PROVE InStep'
    BY DEF ReadWord, PioRuns
  <2>1. InStep /\ OneCompletion
    BY DEF Completions
  <2>2. pc = "drain" /\ wcnt = 0 /\ todo > 0 /\ pulses' = pulses /\ bits' = bits
    BY <2>1 DEF OneCompletion, ReadWord
  <2>3. /\ rlen \in Nat /\ len \in Nat /\ rx \in Nat /\ tx \in Int /\ tlen \in Int
        /\ Fifo \in Nat /\ sent \in Nat /\ todo \in Int /\ sent = len
        /\ sent = rlen + rx /\ todo = len - rlen /\ tlen = sent + tx /\ tx >= 0 /\ tlen <= len /\ rx + tx <= Fifo
    BY <2>1, <2>2, XferAssumption DEF InStep, TypeOK
  <2> HIDE DEF IInv
  <2>4. rx > 0 /\ Received(0) = rlen
    <3>0. len = rlen + rx /\ todo = len - rlen /\ rlen \in Nat /\ rx \in Nat
      BY <2>3
    <3>1. rx = todo /\ rx > 0
      BY <2>2, <3>0
    <3> QED
      BY <2>3, <3>1 DEF Received
  <2>5. /\ rlen' = rlen + 1 /\ rx' = rx - 1 /\ todo' = todo - 1 /\ pc' = "drain"
        /\ UNCHANGED <<chan, len, tlen, wcnt, sent, tx>>
        /\ stored' = stored \cup {<<rlen, rlen>>}
    BY <2>2, <2>4 DEF ReadWord
  <2>6. stored' = Exchanged(rlen')
    BY <2>1, <2>3, <2>5, ExchangedNext DEF InStep
  <2>7. /\ \A d \in Channels \ {chan'} : bits'[d] = {}
        /\ "rx" \notin bits'[chan']
    BY <2>1, <2>2, <2>5 DEF InStep
  <2>8. len = rlen + rx /\ todo = rx /\ tlen = len + tx /\ rlen \in Nat /\ rx \in Nat /\ tx \in Int
    <3>1. len = rlen + rx /\ todo = len - rlen /\ tlen = len + tx /\ rlen \in Nat /\ rx \in Nat /\ tx \in Int
      BY <2>3
    <3> QED
      BY <3>1
  <2>9. sent' = len /\ len' = len /\ tx' = tx /\ tlen' = tlen
    BY <2>3, <2>5
  <2>10. /\ rlen' >= 0 /\ sent' = rlen' + rx' /\ tlen' = sent' + tx'
         /\ sent' = len' /\ todo' = len' - rlen'
    BY <2>5, <2>8, <2>9
  <2>11. tx' >= 0 /\ tlen' <= len' /\ rx' + tx' <= Fifo
    BY <2>3, <2>5, <2>8, <2>9
  <2> QED
    BY <2>5, <2>6, <2>7, <2>10, <2>11 DEF InStep
<1> QED
  BY <1>1, <1>2 DEF ReadWord

LEMMA Finishes ==
  ASSUME IInv, TypeOK', Finish
  PROVE  IInv'
<1> USE DEF IInv, TypeOK
<1>1. Armed'
  BY DEF Finish, Armed
<1>2. Completions'
  BY DEF Finish, Completions, PioRuns, DmaRuns, OneCompletion, OneDmaCompletion, NothingQueued
<1>3. ExchangeIsExact'
  BY DEF Finish, ExchangeIsExact, Completions, PioRuns, DmaRuns, InStep
<1> QED
  BY <1>1, <1>2, <1>3 DEF Finish, PioRuns

LEMMA Interrupts ==
  ASSUME IInv, TypeOK', SpiIntr
  PROVE  IInv'
<1> USE XferAssumption DEF IInv, TypeOK
<1>1. Armed' /\ PioRuns /\ PioRuns' /\ pc' = pc
  BY DEF SpiIntr, Armed, PioRuns
<1>2. ExchangeIsExact'
  BY <1>1 DEF ExchangeIsExact, PioRuns
<1>3. Completions'
  <2>1. CASE eow
    <3>1. pulses = <<>> => pulses' = <<"spi">>
      BY <2>1 DEF SpiIntr
    <3> QED
      BY <2>1, <1>1, <3>1 DEF SpiIntr, Completions, PioRuns, DmaRuns, OneCompletion
  <2>2. CASE ~eow
    <3>1. pulses' = pulses /\ ~eow'
      BY <2>2 DEF SpiIntr, ReceiveFifo
    <3> QED
      BY <2>2, <1>1, <3>1 DEF SpiIntr, Completions, PioRuns, DmaRuns, OneCompletion
  <2> QED
    BY <2>1, <2>2
<1>4. PioRuns' /\ clean' => InStep'
  <2> SUFFICES ASSUME clean PROVE InStep'
    BY DEF SpiIntr
  <2>1. InStep /\ OneCompletion
    BY <1>1 DEF Completions
  <2>2. \A d \in Channels : bits'[d] = {}
    BY DEF SpiIntr, NoBits
  <2>3. CASE eow
    BY <2>1, <2>2, <2>3 DEF SpiIntr, InStep, OneCompletion, Smaller
  <2>4. CASE ~eow
    <3> HIDE DEF IInv, TypeOK
    <3>1. "rx" \in bits[chan] /\ rx = Fifo /\ pc = "wait"
      BY <2>1, <2>4 DEF SpiIntr, InStep
    <3>2. PICK c \in Channels : IsSource(c) /\ ("rx" \in bits[c] => ReceiveFifo(c))
      BY <2>4 DEF SpiIntr
    <3>3. chan \in Channels /\ rlen \in Int /\ len \in Nat /\ rx \in Nat /\ tx \in Int
          /\ tlen \in Int /\ sent \in Nat /\ Fifo \in Nat
      BY DEF IInv, TypeOK
    <3>4. c = chan /\ ReceiveFifo(chan)
      BY <2>1, <3>1, <3>2, <3>3 DEF InStep, IsSource, Pending
    <3>5. /\ rlen \in Nat /\ sent = rlen + rx /\ tlen = sent + tx /\ tx >= 0 /\ tlen <= len /\ rx + tx <= Fifo
          /\ (sent = len \/ tlen = Smaller(len, rlen + Fifo)) /\ (wcnt = 0 => sent = len)
      BY <2>1, <3>3 DEF InStep
    <3>6. sent = rlen + Fifo /\ tx = 0 /\ tlen = sent
      BY <3>1, <3>3, <3>5 DEF Smaller
    <3>7. \A i \in 0 .. Fifo - 1 : Received(i) = rlen + i
      <4> TAKE i \in 0 .. Fifo - 1
      <4>1. i \in Int /\ i < rx
        BY <3>1, <3>3
      <4> QED
        BY <4>1, <3>1, <3>3, <3>6 DEF Received
    <3>8. stored' = stored \cup {<<rlen + i, rlen + i>> : i \in 0 .. Fifo - 1}
      BY <3>4, <3>7 DEF ReceiveFifo
    <3>9. /\ rlen' = rlen + Fifo /\ tlen' = tlen + Smaller(Fifo, len - tlen) /\ pulses' = pulses
          /\ tx' = tx + Smaller(Fifo, len - tlen)
      BY <3>4 DEF ReceiveFifo
    <3>10. rx' = 0
      BY <3>1, <3>3, <3>4 DEF ReceiveFifo
    <3>11. stored' = Exchanged(rlen')
      BY <2>1, <3>3, <3>5, <3>8, <3>9, ExchangedMore DEF InStep
    <3>12. chan' = chan /\ sent' = sent /\ len' = len /\ wcnt' = wcnt /\ pc' = "wait"
      BY <3>1 DEF SpiIntr
    <3>13. /\ rlen' >= 0 /\ sent' = rlen' + rx' /\ tlen' = sent' + tx' /\ tlen' <= len'
           /\ tx' >= 0 /\ rx' + tx' <= Fifo /\ tlen' = Smaller(len', rlen' + Fifo)
      BY <3>3, <3>5, <3>6, <3>9, <3>10, <3>12 DEF Smaller
    <3>14. Fifo # 0
      OBVIOUS
    <3>15. "rx" \notin bits'[chan'] /\ \A d \in Channels \ {chan'} : bits'[d] = {}
      BY <2>2, <3>3, <3>12
    <3> QED
      BY <3>5, <3>10, <3>11, <3>12, <3>13, <3>14, <3>15 DEF InStep
  <2> QED
    BY <2>3, <2>4
<1> QED
  BY <1>2, <1>1, <1>3, <1>4

LEMMA Shifts ==
  ASSUME IInv, TypeOK', Shift
  PROVE  IInv'
<1> USE XferAssumption DEF IInv, TypeOK
<1>1. Armed' /\ PioRuns /\ PioRuns' /\ ExchangeIsExact' /\ Completions'
  BY DEF Shift, Armed, PioRuns, DmaRuns, ExchangeIsExact, Completions, OneCompletion
<1>2. PioRuns' /\ clean' => InStep'
  <2> SUFFICES ASSUME clean PROVE InStep'
    BY DEF Shift
  <2>1. InStep /\ OneCompletion
    BY <1>1 DEF Completions
  <2>2. pc = "wait" /\ wcnt = len /\ pulses = <<>> /\ sent < len /\ tx > 0
    BY <2>1 DEF Shift, OneCompletion
  <2>3. rx + tx <= Fifo /\ rx < Fifo /\ "rx" \notin bits[chan]
    BY <2>1, <2>2 DEF InStep
  <2>4. "rx" \in bits'[chan] <=> rx' = Fifo
    BY <2>3 DEF Shift
  <2>5. \A d \in Channels \ {chan} : bits'[d] = {}
    BY <2>1 DEF Shift, InStep
  <2> QED
    BY <2>1, <2>2, <2>3, <2>4, <2>5 DEF Shift, InStep, Smaller
<1> QED
  BY <1>1, <1>2

LEMMA Counts ==
  ASSUME IInv, TypeOK', EndOfCount
  PROVE  IInv'
<1> USE DEF IInv, TypeOK
<1>1. Armed' /\ PioRuns /\ PioRuns' /\ ExchangeIsExact' /\ Completions'
  BY DEF EndOfCount, Armed, PioRuns, DmaRuns, ExchangeIsExact, Completions, OneCompletion
<1>2. PioRuns' /\ clean' => InStep'
  BY <1>1 DEF EndOfCount, InStep, Smaller, Completions, OneCompletion
<1> QED
  BY <1>1, <1>2

LEMMA Moves ==
  ASSUME IInv, TypeOK', DmaMove
  PROVE  IInv'
<1> USE DEF IInv
<1>1. kind = "dma" /\ kind' = "dma" /\ pc # "idle" /\ pc' = pc /\ left > 0 /\ left \in Nat
  BY DEF DmaMove, TypeOK
<1>2. Armed' /\ ExchangeIsExact' /\ ~PioRuns'
  BY <1>1 DEF DmaMove, Armed, ExchangeIsExact, PioRuns
<1>3. ~late => OneDmaCompletion'
  <2> SUFFICES ASSUME ~late PROVE OneDmaCompletion'
    BY DEF DmaMove
  <2>1. ~eow /\ pc = "wait" /\ ~eirq /\ ~emask /\ pulses = <<>>
    BY <1>1 DEF Completions, DmaRuns, OneDmaCompletion
  <2> HIDE DEF IInv
  <2>2. UNCHANGED <<eow, pc, emask, pulses>> /\ (eirq' <=> left' = 0)
    BY <2>1 DEF DmaMove
  <2> QED
    BY <2>1, <2>2 DEF OneDmaCompletion
<1>4. (pc = "finish" => ~clean) /\ (clean => \A i \in 1 .. Len(pulses) : pulses[i] # "spi")
  BY <1>1 DEF Completions, DmaRuns
<1>5. Completions'
  BY <1>1, <1>2, <1>3, <1>4 DEF DmaMove, Completions
<1> QED
  BY <1>2, <1>5

LEMMA EdmaInterrupts ==
  ASSUME IInv, TypeOK', EdmaIntr
  PROVE  IInv'
<1> USE DEF IInv, TypeOK
<1>1. pulses = <<>> => pulses' = <<"edma">>
  BY DEF EdmaIntr
<1>2. (\A i \in 1 .. Len(pulses) : pulses[i] # "spi") => \A i \in 1 .. Len(pulses') : pulses'[i] # "spi"
  BY DEF EdmaIntr
<1>3. ~(PioRuns /\ (clean \/ ~late))
  BY DEF EdmaIntr, Completions
<1> QED
  BY <1>1, <1>2, <1>3 DEF EdmaIntr, Armed, PioRuns, DmaRuns, ExchangeIsExact, Completions,
                          OneDmaCompletion, NothingQueued

-----------------------------------------------------------------------------
(***************************************************************************)
(* The invariant holds in every state, and with it the type invariant, the *)
(* exactness of an exchange, the relation between buffer and wire, and     *)
(* that nothing is left over.                                              *)
(***************************************************************************)
THEOREM Invariance == Spec => []IInv
<1>1. Init => IInv
  <2> SUFFICES ASSUME Init PROVE IInv
    OBVIOUS
  <2>1. Exchanged(0) = {}
    BY DEF Exchanged
  <2> QED
    BY <2>1, InitType DEF Init, IInv, Armed, Completions, PioRuns, DmaRuns, NothingQueued, ExchangeIsExact
<1>2. IInv /\ [Next]_vars => IInv'
  <2> SUFFICES ASSUME IInv, [Next]_vars PROVE IInv'
    OBVIOUS
  <2>1. TypeOK'
    BY StepType DEF IInv
  <2>2. CASE UNCHANGED vars
    BY <2>2, <2>1 DEF vars, IInv, Armed, Completions, PioRuns, DmaRuns, OneCompletion, OneDmaCompletion,
                      NothingQueued, InStep, Exchanged, ExchangeIsExact, Smaller
  <2>3. CASE Next
    BY <2>1, <2>3, Calls, Waits, Drains, Reads, Finishes, Interrupts, Shifts, Counts, Moves,
       EdmaInterrupts DEF Next, Call, Thread
  <2> QED
    BY <2>2, <2>3
<1> QED
  BY <1>1, <1>2, PTL DEF Spec

(***************************************************************************)
(* The state of the engine keeps its types.                                *)
(***************************************************************************)
THEOREM TypeCorrect == Spec => []TypeOK
BY Invariance, PTL DEF IInv

(***************************************************************************)
(* An exchange that began with nothing left over and did not time out has  *)
(* stored every word once and in place (omap3_xfer), or waited for all of  *)
(* them (omap3_dmaxfer).                                                   *)
(***************************************************************************)
THEOREM ExchangesAreExact == Spec => []ExchangeIsExact
BY Invariance, PTL DEF IInv

(***************************************************************************)
(* While it runs, what spi_intr and the thread stored is what came in.     *)
(***************************************************************************)
THEOREM BufferAndWireAgree == Spec => []BufferFollowsWire
<1>1. IInv => BufferFollowsWire
  <2> SUFFICES ASSUME IInv, PioRuns, clean
               PROVE  /\ stored = Exchanged(rlen) /\ rlen <= len
                      /\ tlen = Smaller(len, rlen + Fifo) \/ sent = len
    BY DEF PioRuns, BufferFollowsWire
  <2>1. InStep /\ rlen \in Int /\ len \in Nat /\ rx \in Nat /\ sent \in Nat /\ tlen \in Int /\ tx \in Int
    BY DEF IInv, TypeOK
  <2>2. rlen + rx + tx <= len /\ tx >= 0 /\ sent = rlen + rx
    BY <2>1 DEF InStep
  <2> QED
    BY <2>1, <2>2 DEF InStep
<1> QED
  BY <1>1, Invariance, PTL

(***************************************************************************)
(* Until a wait or a poll has timed out, omap3_wait consumes every         *)
(* completion the exchange before it caused.                               *)
(***************************************************************************)
THEOREM CompletionsAreConsumed == Spec => []NothingLeftOver
<1>1. IInv => NothingLeftOver
  BY DEF IInv, Completions, NothingLeftOver
<1> QED
  BY <1>1, Invariance, PTL

(***************************************************************************)
(* A controller with one chip select, the default, is never confused by    *)
(* what another channel left in the status register: as long as no wait or *)
(* poll of omap3_xfer or omap3_dmaxfer has timed out, every exchange that  *)
(* has returned was exact.                                                 *)
(***************************************************************************)
THEOREM OneDeviceIsExact ==
  ASSUME NumCs = 1
  PROVE  Spec => [](~late /\ pc = "idle" => ret = len /\ (kind = "pio" => stored = Exchanged(len)))
<1> DEFINE Clean == ~late => clean
<1>1. Init => Clean
  BY DEF Init
<1>2. IInv /\ Clean /\ [Next]_vars => Clean'
  <2> SUFFICES ASSUME IInv, Clean, [Next]_vars PROVE Clean'
    OBVIOUS
  <2>1. Channels = {0}
    BY DEF Channels
  <2>2. ASSUME NEW c \in Channels, NEW n \in Lengths, Xfer(c, n) PROVE Clean'
    BY <2>1, <2>2 DEF Xfer, IInv, Completions
  <2>3. ASSUME NEW c \in Channels, NEW n \in Lengths, DmaXfer(c, n) PROVE Clean'
    BY <2>3 DEF DmaXfer, IInv, Completions, NothingQueued
  <2>4. CASE Thread \/ SpiIntr \/ Shift \/ EndOfCount \/ DmaMove \/ EdmaIntr \/ UNCHANGED vars
    BY <2>4 DEF Thread, TakeSpiPulse, TakeEdmaPulse, Timeout, TimeoutFault, NoneMissing, Poll, PollTimeout, ReadWord,
                ReadDone, Finish, SpiIntr, Shift, EndOfCount, DmaMove, EdmaIntr, vars
  <2> QED
    BY <2>2, <2>3, <2>4 DEF Next, Call
<1>3. IInv /\ Clean => (~late /\ pc = "idle" => ret = len /\ (kind = "pio" => stored = Exchanged(len)))
  BY DEF IInv, ExchangeIsExact
<1> QED
  BY <1>1, <1>2, <1>3, Invariance, PTL DEF Spec
=============================================================================
