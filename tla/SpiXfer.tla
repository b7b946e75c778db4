------------------------------ MODULE SpiXfer ------------------------------
(***************************************************************************)
(* The transfer engine of the AM335x SPI controller (omap3spi.c, intr.c,   *)
(* wait.c, edma.c): the resource manager's thread runs one exchange at a   *)
(* time, by programmed I/O (omap3_xfer) or by EDMA (omap3_dmaxfer), and    *)
(* waits for it on a channel of pulses that the interrupt handler spi_intr *)
(* and the EDMA interrupt event fill.  The thread's wait times out; nothing*)
(* drains the channel or stops the controller when it does, and the report *)
(* of it reads a register of the EDMA controller, whose registers are not  *)
(* mapped while EDMA is off, as it is by default.                          *)
(*                                                                         *)
(* The unit is the word: every length, offset and count of the code is a   *)
(* number of bytes that its word width (dlen) divides.  Word k is the k-th *)
(* word the wire returns in an exchange; Garbage is what reading an empty  *)
(* receive FIFO, or another channel's, returns.  The handler and the thread*)
(* share one processor, so the handler is one step.                        *)
(***************************************************************************)
EXTENDS Integers, Sequences

CONSTANTS
    Fifo,       \* OMAP3_SPI_FIFOLEN
    NumCs,      \* dev->num_cs
    Lengths,    \* transfer lengths that clients ask for
    MaxPulses   \* bound: no exchange begins with more pulses than this queued

ASSUME XferAssumption ==
    /\ Fifo \in Nat \ {0} /\ NumCs \in Nat \ {0} /\ MaxPulses \in Nat
    /\ Lengths \subseteq Nat

VARIABLES
    pc,         \* where the thread is: "idle", "wait", "last", "drain", "finish",
                \* or "dead" when it has ended with a fault
    kind,       \* "pio" (omap3_xfer) or "dma" (omap3_dmaxfer)
    chan,       \* the chip select of the exchange
    len,        \* its length: dev->xlen, and the len of omap3_dmaxfer
    rlen,       \* dev->rlen, words stored; -1 once the exchange has failed
    tlen,       \* dev->tlen, words written to the transmit FIFO
    todo,       \* iterations left of the loop that reads the last words
    ret,        \* what the last call returned: its length, or -1
    stored,     \* <<offset, word>> pairs written to dev->pbuf
    wcnt,       \* WCNT of MCSPI_XFERLEVEL, 0 when no end of count is to come
    sent,       \* words the wire has exchanged
    tx,         \* words in the transmit FIFO
    rx,         \* words in the receive FIFO
    eow,        \* EOWKE of the interrupt status register
    bits,       \* its "tx" (TXx_EMPTY) and "rx" (RXx_FULL) bits of each channel
    irq,        \* the interrupt enable register is set for this exchange
    mapped,     \* dev->edma: EDMA is on and edmavbase maps its registers
    left,       \* abcnt and ccnt of the EDMA receive channel, in words
    eirq,       \* the EDMA interrupt line is asserted
    emask,      \* and masked, until InterruptUnmask
    pulses,     \* the pulses queued at dev->chid
    clean,      \* history: this exchange began with nothing left over that
                \* it could take for its own, and has not timed out
    late        \* history: some exchange has timed out

thread == <<pc, kind, chan, len, rlen, tlen, todo, ret, stored>>
wire   == <<wcnt, sent, tx, rx, eow, bits, irq>>
edma   == <<mapped, left, eirq, emask>>
vars   == <<thread, wire, edma, pulses, clean, late>>

Channels == 0 .. NumCs - 1
Garbage == -1
NoBits == [c \in Channels |-> {}]
Smaller(a, b) == IF a < b THEN a ELSE b

(***************************************************************************)
(* Word i of the receive FIFO, counted from its head.                      *)
(***************************************************************************)
Received(i) == IF i < rx THEN sent - rx + i ELSE Garbage

TypeOK ==
    /\ pc \in {"idle", "wait", "last", "drain", "finish", "dead"}
    /\ kind \in {"pio", "dma"} /\ chan \in Channels /\ len \in Nat
    /\ rlen \in Int /\ tlen \in Int /\ todo \in Int /\ ret \in Int
    /\ \A s \in stored : s[1] \in Int /\ s[2] \in Int
    /\ wcnt \in Nat /\ sent \in Nat /\ tx \in Int /\ rx \in Nat
    /\ eow \in BOOLEAN /\ bits \in [Channels -> SUBSET {"tx", "rx"}] /\ irq \in BOOLEAN
    /\ mapped \in BOOLEAN /\ left \in Nat /\ eirq \in BOOLEAN /\ emask \in BOOLEAN
    /\ pulses \in Seq({"spi", "edma"})
    /\ clean \in BOOLEAN /\ late \in BOOLEAN

Init ==
    /\ pc = "idle" /\ kind = "pio" /\ chan = 0
    /\ len = 0 /\ rlen = 0 /\ tlen = 0 /\ todo = 0 /\ ret = 0 /\ stored = {}
    /\ wcnt = 0 /\ sent = 0 /\ tx = 0 /\ rx = 0
    /\ eow = FALSE /\ bits = NoBits /\ irq = FALSE
    /\ mapped \in BOOLEAN /\ left = 0 /\ eirq = FALSE /\ emask = FALSE
    /\ pulses = <<>> /\ clean = TRUE /\ late = FALSE

NothingQueued == pulses = <<>> /\ ~eow /\ ~eirq

(***************************************************************************)
(* omap3_xfer up to its wait.  IRQ_RESET_CHANNEL clears the status bits of *)
(* this channel only: neither EOWKE nor the bits of another channel.       *)
(***************************************************************************)
Xfer(c, n) ==
    /\ pc = "idle" /\ Len(pulses) <= MaxPulses
    /\ pc' = "wait" /\ kind' = "pio" /\ chan' = c /\ len' = n
    /\ rlen' = 0 /\ tlen' = Smaller(Fifo, n) /\ stored' = {}
    /\ wcnt' = n /\ sent' = 0 /\ tx' = tlen' /\ rx' = 0
    /\ bits' = [bits EXCEPT ![c] = {}] /\ irq' = TRUE
    /\ clean' = (NothingQueued /\ \A d \in Channels \ {c} : bits[d] = {})
    /\ UNCHANGED <<todo, ret, eow, edma, pulses, late>>

(***************************************************************************)
(* omap3_dmaxfer up to its wait, with omap3_setup_edma.  While EDMA is off *)
(* it returns -1 at once.  For a length of 0 the counts are 8000H (bcnt)   *)
(* and 0 (ccnt): they are not both 0 until one request has come.           *)
(***************************************************************************)
CountsFor(n) == IF n = 0 THEN 1 ELSE n

DmaXfer(c, n) ==
    /\ pc = "idle" /\ Len(pulses) <= MaxPulses /\ mapped
    /\ pc' = "wait" /\ kind' = "dma" /\ chan' = c /\ len' = n
    /\ left' = CountsFor(n)
    /\ clean' = (\A i \in 1 .. Len(pulses) : pulses[i] # "spi")
    /\ UNCHANGED <<rlen, tlen, todo, ret, stored, wire, mapped, eirq, emask, pulses, late>>

(***************************************************************************)
(* What omap3_wait returns, 0 (ok) or -1, to the function that waits.      *)
(***************************************************************************)
WaitReturns(ok) ==
    \/ /\ kind = "pio"
       /\ pc' = "last"
       /\ rlen' = IF ok THEN rlen ELSE -1
       /\ UNCHANGED ret
    \/ /\ kind = "dma"
       /\ pc' = "finish"
       /\ ret' = IF ok THEN len ELSE -1
       /\ UNCHANGED rlen

(***************************************************************************)
(* omap3_wait takes a pulse: of spi_intr, or of the EDMA interrupt, which  *)
(* it unmasks; if the receive channel still counts, it waits again.        *)
(***************************************************************************)
TakeSpiPulse ==
    /\ pc = "wait" /\ pulses # <<>> /\ Head(pulses) = "spi"
    /\ pulses' = Tail(pulses)
    /\ WaitReturns(TRUE)
    /\ UNCHANGED <<kind, chan, len, tlen, todo, stored, wire, edma, clean, late>>

\* An EDMA pulse that ends the wait without a look at the counts.
TakeEdmaPulseBlindly ==
    /\ pc = "wait" /\ pulses # <<>> /\ Head(pulses) = "edma"
    /\ pulses' = Tail(pulses) /\ emask' = FALSE
    /\ WaitReturns(TRUE)
    /\ UNCHANGED <<kind, chan, len, tlen, todo, stored, wire, mapped, left, eirq, clean, late>>

TakeEdmaPulse ==
    /\ pc = "wait" /\ pulses # <<>> /\ Head(pulses) = "edma"
    /\ pulses' = Tail(pulses) /\ emask' = FALSE
    /\ \/ left # 0 /\ UNCHANGED <<pc, rlen, ret>>
       \/ left = 0 /\ WaitReturns(TRUE)
    /\ UNCHANGED <<kind, chan, len, tlen, todo, stored, wire, mapped, left, eirq, clean, late>>

\* A timeout armed only while the controller has yet to reach its count.
TimeoutUnlessCounted ==
    /\ pc = "wait" /\ pulses = <<>> /\ len # 0 /\ wcnt # 0
    /\ WaitReturns(FALSE)
    /\ clean' = FALSE /\ late' = TRUE
    /\ UNCHANGED <<kind, chan, len, tlen, todo, stored, wire, edma, pulses>>

(***************************************************************************)
(* The timeout of omap3_wait, which a wait of length 0 does not arm.  The  *)
(* kernel prefers a queued pulse to an expired timeout.                    *)
(***************************************************************************)
Timeout ==
    /\ pc = "wait" /\ pulses = <<>> /\ len # 0
    /\ WaitReturns(FALSE)
    /\ clean' = FALSE /\ late' = TRUE
    /\ UNCHANGED <<kind, chan, len, tlen, todo, stored, wire, edma, pulses>>

(***************************************************************************)
(* To report the timeout omap3_wait reads the counts of the receive        *)
(* channel through edmavbase, which is 0 or no longer mapped while EDMA is *)
(* off.  If nothing else is mapped there the manager ends; its handler is  *)
(* detached with it.                                                       *)
(***************************************************************************)
TimeoutFault ==
    /\ pc = "wait" /\ pulses = <<>> /\ len # 0 /\ ~mapped
    /\ pc' = "dead" /\ irq' = FALSE
    /\ clean' = FALSE /\ late' = TRUE
    /\ UNCHANGED <<kind, chan, len, rlen, tlen, todo, ret, stored,
                   wcnt, sent, tx, rx, eow, bits, edma, pulses>>

(***************************************************************************)
(* The rest of omap3_xfer: poll the receive register if words are missing, *)
(* read as many as were missing when the poll ended, and disable.          *)
(***************************************************************************)
WordsMissing == rlen < len /\ rlen # -1

NoneMissing ==
    /\ pc = "last" /\ ~WordsMissing
    /\ pc' = "finish"
    /\ UNCHANGED <<kind, chan, len, rlen, tlen, todo, ret, stored, wire, edma, pulses, clean, late>>

Poll ==
    /\ pc = "last" /\ WordsMissing /\ rx # 0
    /\ pc' = "drain" /\ todo' = len - rlen
    /\ UNCHANGED <<kind, chan, len, rlen, tlen, ret, stored, wire, edma, pulses, clean, late>>

PollTimeout ==
    /\ pc = "last" /\ WordsMissing /\ rx = 0
    /\ pc' = "finish" /\ rlen' = -1
    /\ clean' = FALSE /\ late' = TRUE
    /\ UNCHANGED <<kind, chan, len, tlen, todo, ret, stored, wire, edma, pulses>>

\* A read that takes the FIFO below empty.
ReadWordUnderrun ==
    /\ pc = "drain" /\ todo > 0
    /\ stored' = stored \cup {<<rlen, Received(0)>>}
    /\ rlen' = rlen + 1 /\ todo' = todo - 1
    /\ rx' = rx - 1
    /\ UNCHANGED <<pc, kind, chan, len, tlen, ret, wcnt, sent, tx, eow, bits, irq, edma, pulses, clean, late>>

ReadWord ==
    /\ pc = "drain" /\ todo > 0
    /\ stored' = stored \cup {<<rlen, Received(0)>>}
    /\ rlen' = rlen + 1 /\ todo' = todo - 1
    /\ rx' = IF rx > 0 THEN rx - 1 ELSE 0
    /\ UNCHANGED <<pc, kind, chan, len, tlen, ret, wcnt, sent, tx, eow, bits, irq, edma, pulses, clean, late>>

ReadDone ==
    /\ pc = "drain" /\ todo <= 0
    /\ pc' = "finish"
    /\ UNCHANGED <<kind, chan, len, rlen, tlen, todo, ret, stored, wire, edma, pulses, clean, late>>

(***************************************************************************)
(* The registers both functions reset before they return.  Disabling the   *)
(* channel empties the FIFOs; the status register keeps its bits.          *)
(***************************************************************************)
Finish ==
    /\ pc = "finish"
    /\ pc' = "idle"
    /\ ret' = IF kind = "pio" THEN rlen ELSE ret
    /\ irq' = FALSE /\ wcnt' = 0 /\ tx' = 0 /\ rx' = 0
    /\ UNCHANGED <<kind, chan, len, rlen, tlen, todo, stored, sent, eow, bits, edma, pulses, clean, late>>

(***************************************************************************)
(* spi_intr.  The channel is the lowest one with a status bit, whichever   *)
(* channel the exchange is on; all bits are cleared; the end of the count  *)
(* sends the pulse and leaves the words to the thread; a full FIFO is      *)
(* stored and the transmit FIFO filled again.                              *)
(***************************************************************************)
Pending == {c \in Channels : bits[c] # {}}
IsSource(c) == c \in Pending /\ \A d \in Pending : c <= d

\* A refill that forgets how much has been sent already.
ReceiveFifoOverfill(c) ==
    /\ stored' = stored \cup {<<rlen + i, Received(i)>> : i \in 0 .. Fifo - 1}
    /\ rlen' = rlen + Fifo /\ tlen' = tlen + Fifo
    /\ rx' = (IF rx > Fifo THEN rx - Fifo ELSE 0) /\ tx' = tx + Fifo
    /\ UNCHANGED pulses

ReceiveFifo(c) ==
    LET more == Smaller(Fifo, len - tlen)
        mine == c = chan
    IN  /\ stored' = stored \cup
              {<<rlen + i, IF mine THEN Received(i) ELSE Garbage>> : i \in 0 .. Fifo - 1}
        /\ rlen' = rlen + Fifo /\ tlen' = tlen + more
        /\ rx' = IF ~mine THEN rx ELSE IF rx > Fifo THEN rx - Fifo ELSE 0
        /\ tx' = IF mine THEN tx + more ELSE tx
        /\ UNCHANGED pulses

\* A handler that leaves the end of count in the status register.
SpiIntrKeepEow ==
    /\ irq /\ (eow \/ "rx" \in bits[chan])
    /\ bits' = NoBits
    /\ \/ eow /\ Len(pulses) < 2 /\ pulses' = Append(pulses, "spi") /\ UNCHANGED <<rlen, tlen, stored, tx, rx>>
       \/ ~eow /\ \E c \in Channels : IsSource(c) /\ "rx" \in bits[c] /\ ReceiveFifo(c)
    /\ UNCHANGED <<pc, kind, chan, len, todo, ret, wcnt, sent, eow, irq, edma, clean, late>>

SpiIntr ==
    /\ irq /\ (eow \/ "rx" \in bits[chan])
    /\ eow' = FALSE /\ bits' = NoBits
    /\ \/ /\ eow
          /\ pulses' = Append(pulses, "spi")
          /\ UNCHANGED <<rlen, tlen, stored, tx, rx>>
       \/ /\ ~eow
          /\ \E c \in Channels : IsSource(c) /\ "rx" \in bits[c] /\ ReceiveFifo(c)
       \/ /\ ~eow
          /\ \E c \in Channels : IsSource(c) /\ "rx" \notin bits[c]
          /\ UNCHANGED <<rlen, tlen, stored, tx, rx, pulses>>
    /\ UNCHANGED <<pc, kind, chan, len, todo, ret, wcnt, sent, irq, edma, clean, late>>

(***************************************************************************)
(* The controller: a word goes out and one comes in; RXx_FULL rises when   *)
(* the receive FIFO reaches its level and TXx_EMPTY when the transmit FIFO *)
(* runs empty, with that word; EOWKE when the word count is reached, then. *)
(***************************************************************************)
Shift ==
    /\ tx > 0 /\ sent < wcnt
    /\ sent' = sent + 1 /\ tx' = tx - 1 /\ rx' = rx + 1
    /\ bits' = [bits EXCEPT ![chan] =
                  @ \cup (IF rx' = Fifo THEN {"rx"} ELSE {}) \cup (IF tx' = 0 THEN {"tx"} ELSE {})]
    /\ UNCHANGED <<thread, wcnt, eow, irq, edma, pulses, clean, late>>

EndOfCount ==
    /\ wcnt > 0 /\ sent = wcnt
    /\ eow' = TRUE /\ wcnt' = 0
    /\ UNCHANGED <<thread, sent, tx, rx, bits, irq, edma, pulses, clean, late>>

(***************************************************************************)
(* The EDMA channels move a word each way while omap3_dmaxfer waits; the   *)
(* receive channel's last word raises its interrupt, which the kernel      *)
(* turns into a pulse and masks (InterruptAttachEvent).                    *)
(***************************************************************************)
DmaMove ==
    /\ kind = "dma" /\ pc \in {"wait", "finish"} /\ left > 0
    /\ left' = left - 1
    /\ eirq' = (eirq \/ left' = 0)
    /\ \E b \in SUBSET {"tx", "rx"} : bits' = [bits EXCEPT ![chan] = @ \cup b]
    /\ UNCHANGED <<thread, wcnt, sent, tx, rx, eow, irq, mapped, emask, pulses, clean, late>>

EdmaIntr ==
    /\ eirq /\ ~emask
    /\ eirq' = FALSE /\ emask' = TRUE
    /\ pulses' = Append(pulses, "edma")
    /\ UNCHANGED <<thread, wire, mapped, left, clean, late>>

Call == \E c \in Channels, n \in Lengths : Xfer(c, n) \/ DmaXfer(c, n)

Thread ==
    \/ TakeSpiPulse \/ TakeEdmaPulse \/ Timeout \/ TimeoutFault
    \/ NoneMissing \/ Poll \/ PollTimeout \/ ReadWord \/ ReadDone \/ Finish

Next == Call \/ Thread \/ SpiIntr \/ Shift \/ EndOfCount \/ DmaMove \/ EdmaIntr

Spec == Init /\ [][Next]_vars

(***************************************************************************)
(* Fairness: a thread that can run runs, and the kernel's timer expires.   *)
(* Nothing is assumed of the controller, the EDMA or the interrupts.       *)
(***************************************************************************)
FairSpec == Spec /\ WF_vars(Thread)

-----------------------------------------------------------------------------
(***************************************************************************)
(* An exchange that began with nothing left over of an earlier one and did *)
(* not time out returns its whole length: by programmed I/O, with every    *)
(* word stored once and at its place, although the handler and the thread  *)
(* both store words and the last chunk may go either way; by EDMA, with no *)
(* word still to come.                                                     *)
(***************************************************************************)
Exchanged(n) == {<<k, k>> : k \in 0 .. n - 1}

ExchangeIsExact ==
    clean /\ pc = "idle" =>
        /\ ret = len
        /\ kind = "pio" => stored = Exchanged(len)
        /\ kind = "dma" => left = 0

(***************************************************************************)
(* While such an exchange runs, the handler and the thread have stored the *)
(* words that came in first, never one outside the buffer, and the         *)
(* handler's refills have not run past the end of what is to be sent.      *)
(***************************************************************************)
BufferFollowsWire ==
    clean /\ kind = "pio" /\ pc # "idle" =>
        /\ stored = Exchanged(rlen) /\ rlen <= len
        /\ tlen = Smaller(len, rlen + Fifo) \/ sent = len

(***************************************************************************)
(* Unless some exchange has timed out, none leaves a pulse, an unanswered  *)
(* end of count or an EDMA interrupt behind for the next one to take for   *)
(* its own: every completion is waited for exactly once.                   *)
(***************************************************************************)
NothingLeftOver == pc = "idle" /\ ~late => NothingQueued

(***************************************************************************)
(* A wait for a length that is not 0 ends, whatever the controller, the    *)
(* EDMA and the interrupts do or fail to do, and so does the call: the     *)
(* manager's only thread is not lost to a dead bus.  With EDMA off it may  *)
(* end with the fault of the timeout's report instead.                     *)
(***************************************************************************)
EveryCallEnds == pc = "wait" /\ len # 0 ~> pc = "idle" \/ (pc = "dead" /\ ~mapped)

-----------------------------------------------------------------------------
(***************************************************************************)
(* The inductive invariant of the proofs.  Armed: the controller works     *)
(* only for a programmed exchange.  OneCompletion: such an exchange, if    *)
(* nothing was left over, has its end of count to come, unanswered, in the *)
(* queue, or behind it, in that order and once.  InStep: the words stored, *)
(* in the FIFOs and sent add up.                                           *)
(***************************************************************************)
Armed ==
    /\ pc \in {"last", "drain"} => kind = "pio"
    /\ pc = "idle" \/ kind = "dma" => ~irq /\ wcnt = 0 /\ tx = 0

OneCompletion ==
    \/ pc = "wait" /\ wcnt = len /\ ~eow /\ pulses = <<>>
    \/ pc = "wait" /\ wcnt = 0 /\ len # 0 /\ eow /\ pulses = <<>>
    \/ pc = "wait" /\ wcnt = 0 /\ len # 0 /\ ~eow /\ pulses = <<"spi">>
    \/ pc # "wait" /\ wcnt = 0 /\ ~eow /\ pulses = <<>>

OneDmaCompletion ==
    /\ ~eow
    /\ \/ pc = "wait" /\ left # 0 /\ ~eirq /\ ~emask /\ pulses = <<>>
       \/ pc = "wait" /\ left = 0 /\ eirq /\ ~emask /\ pulses = <<>>
       \/ pc = "wait" /\ left = 0 /\ ~eirq /\ emask /\ pulses = <<"edma">>
       \/ pc = "finish" /\ left = 0 /\ ~eirq /\ ~emask /\ pulses = <<>>

InStep ==
    /\ \A d \in Channels \ {chan} : bits[d] = {}
    /\ rlen >= 0 /\ stored = Exchanged(rlen)
    /\ sent = rlen + rx /\ tlen = sent + tx
    /\ tx >= 0 /\ tlen <= len /\ rx + tx <= Fifo
    /\ sent = len \/ tlen = Smaller(len, rlen + Fifo)
    /\ "rx" \in bits[chan] => rx = Fifo /\ pc = "wait" /\ pulses = <<>>
    /\ pc = "wait" /\ rx = Fifo => wcnt = 0 \/ "rx" \in bits[chan]
    /\ wcnt = 0 => sent = len
    /\ pc = "drain" => todo = len - rlen
    /\ pc = "finish" => rlen = len

PioRuns == kind = "pio" /\ pc # "idle"
DmaRuns == kind = "dma" /\ pc # "idle"

Completions ==
    /\ PioRuns /\ (clean \/ ~late) => OneCompletion /\ ~eirq
    /\ PioRuns /\ ~late => ~emask
    /\ DmaRuns /\ ~late => OneDmaCompletion
    /\ DmaRuns /\ clean => \A i \in 1 .. Len(pulses) : pulses[i] # "spi"
    /\ DmaRuns /\ pc = "finish" /\ clean => ret = len /\ left = 0
    /\ pc = "idle" /\ ~late => NothingQueued /\ ~emask

IInv == TypeOK /\ Armed /\ Completions /\ (PioRuns /\ clean => InStep) /\ ExchangeIsExact
=============================================================================
