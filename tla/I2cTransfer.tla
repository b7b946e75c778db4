---------------------------- MODULE I2cTransfer -----------------------------
(***************************************************************************)
(* A master transfer of the OMAP I2C driver (i2c/omap35xx: send.c, recv.c, *)
(* wait.c, reset.c and omap_i2c_reset of init.c).  One thread starts a     *)
(* transfer and waits for a pulse of the interrupt handler i2c_intr, or    *)
(* for a timeout; the handler moves bytes between the caller's buffer and  *)
(* the FIFO while the controller moves them on the bus.                    *)
(*                                                                         *)
(* Bytes are counted and not named.  Addresses, clocks and the bus speed   *)
(* are left out.  The handler is one step: the thread shares its processor *)
(* and the status register keeps what rises while it runs.                 *)
(***************************************************************************)
EXTENDS Integers, FiniteSets

CONSTANTS
    Thr,        \* dev->fifo_size: the threshold, half of the FIFO
    Lengths,    \* lengths of transfers (one of length 0 changes nothing)
    CntMax,     \* 65536: the count register has 16 bits, and 0 in it means this
    MaxPulses   \* bound: no transfer begins with more pulses than this queued

ASSUME I2cAssumption ==
    /\ Thr \in Nat \ {0} /\ CntMax \in Nat \ {0} /\ Lengths \subseteq Nat \ {0} /\ MaxPulses \in Nat

VARIABLES
    pc,           \* the thread: "idle", "wait", "timedout", "recover"
    result,       \* what the last transfer returned
    xlen,         \* dev->xlen: bytes the handler still has to move
    beyond,       \* history: how many bytes of the last transfer the count
                  \* register was not told of
    status,       \* dev->status
    intexpected,  \* dev->intexpected
    re_start,     \* dev->re_start: the next transfer repeats the start
    pulses,       \* pulses queued at dev->chid
    ie,           \* interrupts are enabled in OMAP_I2C_IE
    stat,         \* latched bits of OMAP_I2C_STAT
    dir, stop,    \* the transfer as programmed: direction, stop at its end
    cnt,          \* bytes the controller still has to move on the bus
    fifo,         \* bytes in the FIFO
    bus,          \* "free", "held" (no stop sent), "moving", "nacked",
                  \* "stopping", or "stuck" in another's hands
    clean,        \* history: the last transfer began with nothing of an
                  \* earlier one left over and has not timed out
    cut           \* history: a client has reset the bus since then

driver == <<xlen, beyond, status, intexpected, re_start>>
ctrl   == <<ie, stat, dir, stop, cnt, fifo, bus>>
vars   == <<pc, result, driver, pulses, ctrl, clean, cut>>

Status == {"DONE", "NACK", "ARBL", "ERROR"}
Smaller(a, b) == IF a < b THEN a ELSE b

TypeOK ==
    /\ pc \in {"idle", "wait", "timedout", "recover"}
    /\ result \subseteq Status \cup {"BUSY"}
    /\ xlen \in Nat /\ beyond \in Nat /\ status \subseteq Status
    /\ intexpected \in BOOLEAN /\ re_start \in BOOLEAN
    /\ pulses \in Nat /\ ie \in BOOLEAN
    /\ stat \subseteq {"ARDY", "NACK", "AL", "ERR"}
    /\ dir \in {"send", "recv"} /\ stop \in BOOLEAN
    /\ cnt \in Nat /\ fifo \in 0 .. 2 * Thr
    /\ bus \in {"free", "held", "moving", "nacked", "stopping", "stuck"}
    /\ clean \in BOOLEAN /\ cut \in BOOLEAN

Init ==
    /\ pc = "idle" /\ result = {}
    /\ xlen = 0 /\ beyond = 0 /\ status = {} /\ intexpected = FALSE /\ re_start = FALSE
    /\ pulses = 0 /\ ie = TRUE /\ stat = {}
    /\ dir = "send" /\ stop = TRUE /\ cnt = 0 /\ fifo = 0 /\ bus = "free"
    /\ clean = TRUE /\ cut = FALSE

-----------------------------------------------------------------------------
(* The bits of the status register that follow the FIFO.                    *)

RRDY == dir = "recv" /\ fifo >= Thr
RDR  == dir = "recv" /\ 0 < fifo /\ fifo < Thr /\ (cnt = 0 \/ bus # "moving")

XRDY == dir = "send" /\ bus = "moving" /\ fifo <= Thr /\ cnt - fifo >= Thr
XDR  == dir = "send" /\ bus = "moving" /\ fifo <= Thr /\ 0 < cnt - fifo /\ cnt - fifo < Thr

Ready        == RRDY \/ RDR \/ XRDY \/ XDR
Interrupting == ie /\ (stat # {} \/ Ready)

-----------------------------------------------------------------------------
(* The thread.                                                              *)

(***************************************************************************)
(* omap_i2c_reset.  It fails when the module does not come out of reset or *)
(* the bus stays busy, and then leaves the interrupts disabled.            *)
(***************************************************************************)
Reset(ok) ==
    /\ ie' = ok
    /\ stat' = {} /\ cnt' = 0 /\ fifo' = 0
    /\ bus' \in IF ok THEN {"free"} ELSE {"free", "stuck"}
    /\ UNCHANGED <<dir, stop>>

(***************************************************************************)
(* omap_wait_bus_not_busy: a repeated start looks at nothing; otherwise    *)
(* the controller is reset unless the bus and the register are quiet.      *)
(***************************************************************************)
Still     == bus \in {"free", "held", "stuck"}
Quiet     == bus = "free" /\ stat = {} /\ ~Ready
MustReset == ~re_start /\ ~Quiet

(***************************************************************************)
(* What the controller moves when the length n is written to its count     *)
(* register, of which only the low 16 bits are kept.                       *)
(***************************************************************************)
Count(n) == ((n - 1) % CntMax) + 1

\* A prefill that does not count its bytes.
StartUncounted(d, n, s) ==
    LET pre == IF d = "send" THEN Smaller(n, Thr) ELSE 0
    IN  /\ pc' = "wait" /\ xlen' = n /\ status' = {} /\ intexpected' = TRUE
        /\ re_start' = ~s
        /\ dir' = d /\ stop' = s /\ cnt' = Count(n) /\ beyond' = n - cnt' /\ fifo' = pre
        /\ stat' = IF MustReset THEN {} ELSE stat
        /\ bus' = "moving"
        /\ UNCHANGED <<result, pulses>>

(***************************************************************************)
(* The rest of omap_i2c_send (d = "send"), which fills the FIFO before the *)
(* start condition, and of omap_i2c_recv, up to omap_wait_status.  A       *)
(* transfer without a stop leaves re_start set, one with a stop clears it. *)
(***************************************************************************)
Start(d, n, s) ==
    LET pre == IF d = "send" THEN Smaller(n, Thr) ELSE 0
    IN  /\ pc' = "wait" /\ xlen' = n - pre /\ status' = {} /\ intexpected' = TRUE
        /\ re_start' = ~s
        /\ dir' = d /\ stop' = s /\ cnt' = Count(n) /\ beyond' = n - cnt' /\ fifo' = pre
        /\ stat' = IF MustReset THEN {} ELSE stat
        /\ bus' = "moving"
        /\ UNCHANGED <<result, pulses>>

Transfer(d, n, s) ==
    /\ pc = "idle" /\ pulses <= MaxPulses
    /\ Start(d, n, s)
    /\ ie' = (ie \/ MustReset)
    /\ clean' = (pulses = 0 /\ (MustReset \/ (Still /\ stat = {})))
    /\ cut' = FALSE

\* The reset fails: the transfer returns I2C_STATUS_BUSY.
TransferBusy ==
    /\ pc = "idle" /\ pulses <= MaxPulses
    /\ MustReset /\ Reset(FALSE)
    /\ result' = {"BUSY"}
    /\ UNCHANGED <<pc, driver, pulses, clean, cut>>

(***************************************************************************)
(* omap_wait_status: a pulse ends the wait, whatever it was sent for; the  *)
(* controller is reset after a lost arbitration or an error.               *)
(***************************************************************************)
Broken == status \cap {"ARBL", "ERROR"} # {}

TakePulse ==
    /\ pc = "wait" /\ pulses > 0
    /\ pulses' = pulses - 1
    /\ \/ Broken /\ pc' = "recover" /\ UNCHANGED result
       \/ ~Broken /\ pc' = "idle" /\ result' = status
    /\ UNCHANGED <<driver, ctrl, clean, cut>>

Recover(ok) ==
    /\ pc = "recover"
    /\ Reset(ok)
    /\ pc' = "idle" /\ result' = status
    /\ UNCHANGED <<driver, pulses, clean, cut>>

(***************************************************************************)
(* The timeout: interrupts stay enabled until the reset disables them, and *)
(* the reset leaves re_start, intexpected and the queued pulses alone.     *)
(***************************************************************************)
Timeout ==
    /\ pc = "wait" /\ pulses = 0
    /\ pc' = "timedout" /\ clean' = FALSE
    /\ UNCHANGED <<result, driver, pulses, ctrl, cut>>

TimeoutReset(ok) ==
    /\ pc = "timedout"
    /\ Reset(ok)
    /\ pc' = "idle" /\ result' = {"DONE", "ERROR"}
    /\ UNCHANGED <<driver, pulses, clean, cut>>

\* omap_bus_reset, which a client may ask for between transfers.
BusReset(ok) ==
    /\ pc = "idle"
    /\ Reset(ok)
    /\ cut' = TRUE
    /\ UNCHANGED <<pc, result, driver, pulses, clean>>

-----------------------------------------------------------------------------
(***************************************************************************)
(* i2c_intr.  Fault: NACK, arbitration lost, overrun or underflow; the     *)
(* handler asks for a stop.  Only arbitration lost is the end at once.     *)
(***************************************************************************)
Fault == stat \cap {"NACK", "AL", "ERR"} # {}

\* A lost arbitration that waits for ARDY.
NewStatusNoForce ==
    status \cup (IF "NACK" \in stat THEN {"NACK"} ELSE {})
           \cup (IF "AL" \in stat THEN {"ARBL"} ELSE {})
           \cup (IF "ERR" \in stat THEN {"ERROR"} ELSE {})
           \cup (IF "ARDY" \in stat THEN {"DONE"} ELSE {})

\* A refused byte that is the end at once.
NewStatusNackDone ==
    status \cup (IF "NACK" \in stat THEN {"NACK", "DONE"} ELSE {})
           \cup (IF "AL" \in stat THEN {"ARBL", "DONE"} ELSE {})
           \cup (IF "ERR" \in stat THEN {"ERROR"} ELSE {})
           \cup (IF "ARDY" \in stat THEN {"DONE"} ELSE {})

NewStatus ==
    status \cup (IF "NACK" \in stat THEN {"NACK"} ELSE {})
           \cup (IF "AL" \in stat THEN {"ARBL", "DONE"} ELSE {})
           \cup (IF "ERR" \in stat THEN {"ERROR"} ELSE {})
           \cup (IF "ARDY" \in stat THEN {"DONE"} ELSE {})

\* A handler that writes all that is left.
MoveBytesAll ==
    LET in  == Smaller(IF RRDY THEN Thr ELSE IF RDR THEN fifo ELSE 0, xlen)
        out == IF XRDY \/ XDR THEN xlen ELSE 0
    IN  xlen' = xlen - in - out /\ fifo' = fifo - in + out

\* One of the thresholds at most is reached, each for one direction.
MoveBytes ==
    LET in  == Smaller(IF RRDY THEN Thr ELSE IF RDR THEN fifo ELSE 0, xlen)
        out == Smaller(IF XRDY THEN Thr ELSE IF XDR THEN cnt - fifo ELSE 0, xlen)
    IN  xlen' = xlen - in - out /\ fifo' = fifo - in + out

AskForStop == IF Fault /\ bus \in {"moving", "nacked", "held"} THEN "stopping" ELSE bus

\* A handler that keeps re_start through a fault.
KeepRestart == re_start

NewRestart == re_start /\ ~Fault

Intr ==
    /\ Interrupting
    /\ status' = NewStatus
    /\ re_start' = NewRestart
    /\ bus' = AskForStop
    /\ MoveBytes
    /\ stat' = {}
    /\ \/ "DONE" \in NewStatus /\ intexpected /\ intexpected' = FALSE /\ pulses' = pulses + 1
       \/ ~("DONE" \in NewStatus /\ intexpected) /\ UNCHANGED <<intexpected, pulses>>
    /\ UNCHANGED <<pc, result, beyond, ie, dir, stop, cnt, clean, cut>>

-----------------------------------------------------------------------------
(***************************************************************************)
(* The controller and the bus.  The controller stretches the clock when    *)
(* the FIFO is full (recv) or empty (send).  ARDY rises when the last byte *)
(* counted has left the FIFO; it does not rise after a lost arbitration.   *)
(***************************************************************************)
WireSame == UNCHANGED <<pc, result, driver, pulses, ie, dir, stop, clean, cut>>

MoveByte ==
    /\ bus = "moving" /\ cnt > 0
    /\ \/ dir = "recv" /\ fifo < 2 * Thr /\ fifo' = fifo + 1
       \/ dir = "send" /\ fifo > 0 /\ fifo' = fifo - 1
    /\ cnt' = cnt - 1
    /\ UNCHANGED <<stat, bus>> /\ WireSame

MoveEnd ==
    /\ bus = "moving" /\ cnt = 0 /\ (dir = "recv" => fifo = 0)
    /\ bus' = IF stop THEN "free" ELSE "held"
    /\ stat' = stat \cup {"ARDY"}
    /\ UNCHANGED <<cnt, fifo>> /\ WireSame

\* The other side does not acknowledge.
Nack ==
    /\ bus = "moving" /\ cnt > 0
    /\ bus' = "nacked" /\ stat' = stat \cup {"NACK"}
    /\ UNCHANGED <<cnt, fifo>> /\ WireSame

ArbitrationLost ==
    /\ bus = "moving"
    /\ bus' \in {"free", "stuck"} /\ stat' = stat \cup {"AL"}
    /\ UNCHANGED <<cnt, fifo>> /\ WireSame

Overrun ==
    /\ bus = "moving" /\ cnt > 0
    /\ stat' = stat \cup {"ERR"}
    /\ UNCHANGED <<cnt, fifo, bus>> /\ WireSame

StopSent ==
    /\ bus = "stopping" /\ (dir = "recv" => fifo = 0)
    /\ bus' = "free" /\ stat' = stat \cup {"ARDY"}
    /\ UNCHANGED <<cnt, fifo>> /\ WireSame

\* Another device takes the bus or lets go of it.
OtherDevice ==
    /\ \/ pc = "idle" /\ bus = "free" /\ bus' = "stuck"
       \/ bus = "stuck" /\ bus' = "free"
    /\ UNCHANGED <<stat, cnt, fifo>> /\ WireSame

Wire == MoveByte \/ MoveEnd \/ Nack \/ ArbitrationLost \/ Overrun \/ StopSent

Thread ==
    \/ \E d \in {"send", "recv"}, n \in Lengths, s \in BOOLEAN : Transfer(d, n, s)
    \/ TransferBusy \/ TakePulse \/ Timeout
    \/ \E ok \in BOOLEAN : Recover(ok) \/ TimeoutReset(ok) \/ BusReset(ok)

Next == Thread \/ Intr \/ Wire \/ OtherDevice

Spec == Init /\ [][Next]_vars

-----------------------------------------------------------------------------
(***************************************************************************)
(* A transfer that began with nothing left over and reports DONE and       *)
(* nothing else has moved every byte the count register was told of, the   *)
(* handler's count, the FIFO and the controller's count agreeing: the two  *)
(* thresholds and the prefill together hand over each byte once.  That is  *)
(* the whole transfer unless it was longer than 65536 bytes.               *)
(***************************************************************************)
TransferIsWhole ==
    clean /\ status = {"DONE"} =>
        cnt = 0 /\ xlen <= beyond /\ (beyond = 0 => fifo = 0)

(***************************************************************************)
(* When such a transfer returns, for whatever reason but a timeout, the    *)
(* caller has its buffer back: the controller is quiet, and no interrupt   *)
(* or pulse is left that would touch the buffer or the next transfer.      *)
(***************************************************************************)
CallerOwnsBuffer ==
    clean /\ pc = "idle" =>
        /\ Still /\ stat = {} /\ ~Ready
        /\ pulses = 0 /\ ~intexpected

(***************************************************************************)
(* Between such transfers, and unless a client has reset the bus since,    *)
(* re_start is set exactly while the driver holds the bus: a combined      *)
(* transaction is never taken for a busy bus and reset, and a bus that     *)
(* somebody else may own is never started on without a look.               *)
(***************************************************************************)
RestartMeansHeld == clean /\ ~cut /\ pc = "idle" => (re_start <=> bus = "held")

(***************************************************************************)
(* While such a transfer waits with interrupts enabled, something is still *)
(* to come: a step of the controller, an interrupt or a pulse.  A timeout  *)
(* means that the bus is slow or dead, never that the last bytes sit below *)
(* a threshold or that the completion was lost.                            *)
(***************************************************************************)
WireCanMove ==
    \/ bus = "moving" /\ (IF dir = "recv" THEN fifo < 2 * Thr ELSE fifo > 0 \/ cnt = 0)
    \/ bus = "stopping" /\ (dir = "recv" => fifo = 0)

WaitIsAnswered ==
    clean /\ pc = "wait" /\ ie => pulses > 0 \/ Interrupting \/ WireCanMove

-----------------------------------------------------------------------------
(***************************************************************************)
(* The inductive invariant of the proofs: while a clean transfer waits,    *)
(* every byte is in one place and the transfer is in one of these phases.  *)
(***************************************************************************)
BytesAddUp == IF dir = "recv" THEN xlen = fifo + cnt + beyond ELSE cnt + beyond = xlen + fifo
NoneLeft   == /\ cnt = 0 /\ xlen <= beyond
              /\ dir = "recv" \/ beyond = 0 => fifo = 0
Faulted    == status \cap {"NACK", "ARBL", "ERROR"} # {}
EndOfBus   == IF stop THEN "free" ELSE "held"

Moving   == bus = "moving" /\ status = {} /\ stat \subseteq {"ERR"}
Refused  == bus = "nacked" /\ status = {} /\ "NACK" \in stat /\ stat \subseteq {"NACK", "ERR"}
Lost     == bus \in {"free", "stuck"} /\ status = {} /\ "AL" \in stat /\ stat \subseteq {"AL", "ERR"}
Ended    == bus = EndOfBus /\ status = {} /\ "ARDY" \in stat /\ stat \subseteq {"ARDY", "ERR"} /\ NoneLeft
Stopping == bus = "stopping" /\ Faulted /\ ("DONE" \in status => Broken) /\ stat = {}
Stopped  == /\ bus = "free" /\ Faulted /\ ("DONE" \in status => Broken)
            /\ stat = {"ARDY"} /\ (dir = "recv" => fifo = 0)
Over     == /\ "DONE" \in status /\ stat = {} /\ Still
            /\ ~Broken => IF Faulted THEN bus = "free" /\ (dir = "recv" => fifo = 0)
                          ELSE bus = EndOfBus /\ NoneLeft

Waiting ==
    /\ BytesAddUp
    /\ pulses = IF intexpected THEN 0 ELSE 1
    /\ intexpected <=> "DONE" \notin status
    /\ re_start <=> ~stop /\ ~Faulted
    /\ Moving \/ Refused \/ Lost \/ Ended \/ Stopping \/ Stopped \/ Over

Recovering == pulses = 0 /\ ~intexpected /\ ~re_start /\ Broken

IInv ==
    /\ TypeOK
    /\ pc = "timedout" => ~clean
    /\ clean /\ pc = "wait" => Waiting
    /\ clean /\ pc = "recover" => Recovering
    /\ TransferIsWhole /\ CallerOwnsBuffer /\ RestartMeansHeld
=============================================================================
