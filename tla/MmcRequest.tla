----------------------------- MODULE MmcRequest -----------------------------
(***************************************************************************)
(* The requests of the MMC/SD block driver (devb/mmcsd: sim.c, sim_mmc.c,  *)
(* and the command and interrupt functions of mmcsd.c and sim_omap3.c),    *)
(* for a soldered card: the board option nocd, one unprotected partition,  *)
(* DMA into one contiguous buffer.  The driver thread takes one pulse at a *)
(* time; the control thread starts an identification; the queue of         *)
(* requests is the CAM library's and the controller the hardware's.        *)
(*                                                                         *)
(* Left out: removal of the card, aborted requests, PIO and scatter lists, *)
(* partition switches, and the devctls that send commands.                 *)
(***************************************************************************)
EXTENDS Integers, Sequences, FiniteSets

CONSTANTS
    Req,          \* control blocks of requests, used again once answered
    None,
    Uses,         \* what each is used for: a kind, and for transfers the
                  \* whole blocks and whether part of one more is asked for
    MaxDma,       \* most blocks setup_dma takes for a command: sim_omap3's
                  \* takes all it is given, mmc_dma_rw allows for less
    PwrRetry,     \* ext->pwr_retry
    StopRetries,  \* the 5 of mmc_data_irq
    MaxProbes     \* bound: commands of an identification between its start
                  \* and its last one

Kinds == {"rw", "sync", "erase", "ready", "devctl"}

ASSUME MmcAssumption ==
    /\ None \notin Req
    /\ Uses \in [Req -> SUBSET (Kinds \X Nat \X BOOLEAN)]
    /\ MaxDma \in Nat \ {0}
    /\ PwrRetry \in Nat /\ StopRetries \in Nat /\ MaxProbes \in Nat \ {0}

VARIABLES
    ccb,        \* the control blocks: kind, blocks, whether part of a block
                \* is left over, cam_status, SCS_CHECK
    queue,      \* hba->simq, the requests accepted and not yet taken
    enq,        \* a SIM_ENQUEUE pulse is queued
    nexus,      \* ext->nexus: the request being served
    drv,        \* the driver thread: "wait" for a pulse, "start" requests
    state,      \* ext->state
    ident,      \* ext->ident, "probe" standing for the stages in the middle
    probes,     \* commands sent by those stages
    count,      \* the static count of mmc_ident_start
    ready,      \* MMC_EFLAG_READY
    resetting,  \* MMC_EFLAG_RESETTING
    starter,    \* the thread that starts identifications: the attaching one
                \* ("boot", "booting"), then the control thread ("wait", "sent")
    resets,     \* MMCSD_PULSE_RESET pulses queued
    stop,       \* ext->stop
    stops,      \* the static stops_retry of mmc_data_irq
    offset,     \* ext->offset, in blocks
    blkno,      \* ext->blkno, counted from the request's first block
    acmd12,     \* MMC_HCCAP_ACMD12: the controller sends the stop itself
    hw,         \* the command in the controller and its latched status
    powered,    \* the controller and the card are powered up
    open,       \* the card is inside a multi-block transfer
    moved,      \* history: the blocks moved for a request, as pairs of a
                \* place in the buffer and a block of the card
    earlier,    \* history: reads and writes accepted before a request and
                \* not answered yet
    overtaken   \* history: the state of an identification was stored too
                \* late, after its interrupt was thrown away or it had ended

requests == <<ccb, queue, nexus, earlier>>
idents   == <<ident, probes, count, ready, resetting, resets>>
transfer == <<stop, stops, offset, blkno>>
card     == <<hw, powered, open, moved>>
vars == <<requests, enq, drv, state, idents, starter, transfer, acmd12, card, overtaken>>

Smaller(a, b) == IF a < b THEN a ELSE b

NoCommand  == [cmd |-> "none", status |-> "idle", req |-> None, mem |-> 0, blk |-> 0, n |-> 0]
Command(c) == [NoCommand EXCEPT !.cmd = c, !.status = "busy"]

TypeOK ==
    /\ ccb \in [Req -> [kind : Kinds, len : Nat, part : BOOLEAN, check : BOOLEAN,
                        status : {"new", "inprog", "good", "error"}]]
    /\ queue \in Seq(Req) /\ nexus \in Req \cup {None}
    /\ enq \in BOOLEAN /\ drv \in {"wait", "start"}
    /\ state \in {"idle", "ident", "data"}
    /\ ident \in {"none", "start", "probe", "final"}
    /\ probes \in 0 .. MaxProbes /\ count \in 0 .. PwrRetry /\ resets \in Nat
    /\ ready \in BOOLEAN /\ resetting \in BOOLEAN
    /\ starter \in {"boot", "booting", "wait", "sent"}
    /\ stop \in {"none", "pend", "issued", "auto"} /\ stops \in Nat
    /\ offset \in Nat /\ blkno \in Nat
    /\ acmd12 \in BOOLEAN /\ powered \in BOOLEAN /\ open \in BOOLEAN
    /\ hw \in [cmd : {"none", "data", "stop", "other"}, req : Req \cup {None},
               status : {"idle", "busy", "ok", "err"}, mem : Nat, blk : Nat, n : Nat]
    /\ moved \in [Req -> Seq(Nat \X Nat)]
    /\ earlier \in [Req -> SUBSET Req] /\ overtaken \in BOOLEAN

Init ==
    /\ ccb = [r \in Req |-> [kind |-> "sync", len |-> 0, part |-> FALSE, check |-> FALSE,
                             status |-> "new"]]
    /\ queue = <<>> /\ nexus = None /\ enq = FALSE /\ drv = "wait"
    /\ state = "idle" /\ ident = "none" /\ probes = 0 /\ count = 0
    /\ ready = FALSE /\ resetting = FALSE /\ starter = "boot" /\ resets = 0
    /\ stop = "none" /\ stops = 0 /\ offset = 0 /\ blkno = 0
    /\ acmd12 \in BOOLEAN /\ hw = NoCommand /\ powered = FALSE /\ open = FALSE
    /\ moved = [r \in Req |-> <<>>] /\ earlier = [r \in Req |-> {}]
    /\ overtaken = FALSE

-----------------------------------------------------------------------------
(* Clients of the CAM interface, once the driver has attached.              *)

InProgress(r) == ccb[r].status = "inprog"

\* mmc_sim_action.
Submit(r, k, n, p) ==
    /\ starter \in {"wait", "sent"} /\ ~InProgress(r)
    /\ ccb' = [ccb EXCEPT ![r] = [kind |-> k, len |-> n, part |-> p, check |-> FALSE,
                                  status |-> "inprog"]]
    /\ queue' = Append(queue, r) /\ enq' = TRUE
    /\ earlier' = [earlier EXCEPT ![r] = {q \in Req : InProgress(q) /\ ccb[q].kind = "rw"}]
    /\ moved' = [moved EXCEPT ![r] = <<>>]
    /\ UNCHANGED <<nexus, drv, state, idents, starter, transfer, acmd12, hw, powered, open, overtaken>>

\* A status is set and the request handed back (mmc_post_ccb).
Post(r, s) ==
    /\ ccb' = [ccb EXCEPT ![r].status = s] /\ nexus' = None
    /\ earlier' = [q \in Req |-> earlier[q] \ {r}]

Keep(r) == nexus' = r /\ UNCHANGED <<ccb, earlier>>

\* mmc_error on the current request, if there is one.
Fail == IF nexus = None THEN Keep(None) ELSE Post(nexus, "error")

-----------------------------------------------------------------------------
(* Reads and writes.                                                        *)

(***************************************************************************)
(* mmc_dma_rw at offset off and block blk of request r: it is complete, or *)
(* one command moves what the chipset takes (omap3_setup_dma, whole blocks *)
(* only, and mmc_send_rwcmd), or only part of a block is left and nothing  *)
(* can be set up.  h is the controller if no command is sent.              *)
(***************************************************************************)
Sent(r, off) == Smaller(MaxDma, ccb[r].len - off)

DmaRw(r, off, blk, h) ==
    \/ /\ Sent(r, off) = 0
       /\ Post(r, IF ccb[r].part THEN "error" ELSE "good")
       /\ offset' = off /\ blkno' = blk /\ hw' = h /\ UNCHANGED open
    \/ /\ Sent(r, off) # 0
       /\ Keep(r)
       /\ offset' = off + Sent(r, off) /\ blkno' = blk + Sent(r, off)
       /\ hw' = [cmd |-> "data", status |-> "busy", req |-> r,
                 mem |-> off, blk |-> blk, n |-> Sent(r, off)]
       /\ open' = (open \/ Sent(r, off) # 1)

\* ext->stop as mmc_send_rwcmd sets it for that command; s if none is sent.
StopFor(r, off, s) ==
    CASE Sent(r, off) = 0 -> s
      [] Sent(r, off) = 1 -> "none"
      [] OTHER -> IF acmd12 THEN "auto" ELSE "pend"

\* An answer leaves the state idle, a command leaves it data.
StateAfter == state' = IF nexus' = None THEN "idle" ELSE "data"

-----------------------------------------------------------------------------
(* The driver thread: starting requests (mmc_start_ccb).                    *)

TakeEnqueue ==
    /\ drv = "wait" /\ enq
    /\ enq' = FALSE /\ drv' = "start"
    /\ UNCHANGED <<requests, state, idents, starter, transfer, acmd12, card, overtaken>>

\* Waits inside a handler take the pulses they do not want off the channel.
MayDropEnqueue == enq' \in {enq, FALSE}

(***************************************************************************)
(* The request at the head of the queue.  During an identification it is   *)
(* kept as the nexus, but a devctl is served at once (mmc_io_cmds).        *)
(***************************************************************************)
Start(r) ==
    LET k == ccb[r].kind IN
    \/ /\ k = "devctl" \/ (k = "sync" /\ state # "ident")
       /\ Post(r, "good") /\ UNCHANGED <<enq, state, transfer, card>>
    \/ /\ k # "devctl" /\ state = "ident"
       /\ Keep(r) /\ UNCHANGED <<enq, state, transfer, card>>
    \/ /\ k = "ready" /\ state # "ident"
       /\ Post(r, IF ready THEN "good" ELSE "error") /\ UNCHANGED <<enq, state, transfer, card>>
    \/ /\ k = "erase" /\ state # "ident"
       /\ \E s \in {"good", "error"} : Post(r, s) /\ (s = "good" => powered)
       /\ hw' = IF powered THEN NoCommand ELSE Command("other")
       /\ MayDropEnqueue /\ UNCHANGED <<state, transfer, powered, open, moved>>
    \/ /\ k = "rw" /\ state # "ident" /\ ~ready
       /\ Post(r, "error") /\ UNCHANGED <<enq, state, transfer, card>>
    \/ /\ k = "rw" /\ state # "ident" /\ ready
       /\ DmaRw(r, 0, 0, hw) /\ stop' = StopFor(r, 0, stop)
       /\ state' = IF nexus' = None THEN state ELSE "data"
       /\ UNCHANGED <<enq, stops, powered, moved>>

StartNext ==
    /\ drv = "start" /\ nexus = None /\ queue # <<>>
    /\ queue' = Tail(queue) /\ Start(Head(queue))
    /\ UNCHANGED <<drv, idents, starter, acmd12, overtaken>>

StartDone ==
    /\ drv = "start" /\ (nexus # None \/ queue = <<>>)
    /\ drv' = "wait"
    /\ UNCHANGED <<requests, enq, state, idents, starter, transfer, acmd12, card, overtaken>>

-----------------------------------------------------------------------------
(* Identification.                                                          *)

IdentStartKeepCount ==
    /\ ident' = IF count + 1 > PwrRetry THEN "probe" ELSE "start"
    /\ count' = count + 1 /\ probes' = 0
    /\ hw' = Command("other") /\ powered' = TRUE /\ open' = FALSE
    /\ UNCHANGED moved

(***************************************************************************)
(* mmc_ident_start, entered PwrRetry + 1 times: the controller is powered  *)
(* down and up again and the card told to go idle.                         *)
(***************************************************************************)
IdentStart ==
    /\ ident' = IF count + 1 > PwrRetry THEN "probe" ELSE "start"
    /\ count' = IF count + 1 > PwrRetry THEN 0 ELSE count + 1
    /\ probes' = 0
    /\ hw' = Command("other") /\ powered' = TRUE /\ open' = FALSE
    /\ UNCHANGED moved

\* An interrupt after which the queue is not looked at.
InterruptedNoLook ==
    /\ drv = "wait" /\ hw.status \in {"ok", "err"}
    /\ overtaken' = (overtaken \/ starter = "booting")
    /\ UNCHANGED <<queue, drv, starter, acmd12>>

Interrupted ==
    /\ drv = "wait" /\ hw.status \in {"ok", "err"}
    /\ drv' = "start"
    /\ overtaken' = (overtaken \/ starter = "booting")
    /\ UNCHANGED <<queue, starter, acmd12>>

\* mmc_process_interrupt with nothing under way.
Unexpected ==
    /\ Interrupted /\ state = "idle"
    /\ hw' = NoCommand
    /\ UNCHANGED <<ccb, nexus, earlier, enq, state, idents, transfer, powered, open, moved>>

IdentAgain ==
    /\ Interrupted /\ state = "ident" /\ ident = "start"
    /\ IdentStart
    /\ UNCHANGED <<ccb, nexus, earlier, enq, state, ready, resetting, resets, transfer>>

\* Any of the stages in the middle: another command goes out.
IdentNext ==
    /\ Interrupted /\ state = "ident" /\ ident = "probe"
    /\ \/ probes < MaxProbes /\ ident' = "probe" /\ probes' = probes + 1
       \/ ident' = "final" /\ UNCHANGED probes
    /\ hw' = Command("other") /\ MayDropEnqueue
    /\ UNCHANGED <<ccb, nexus, earlier, state, count, ready, resetting, resets, transfer,
                   powered, open, moved>>

(***************************************************************************)
(* The request kept as the nexus is started from the interrupt handler     *)
(* (mmc_io_cmds); the interrupt is still masked, so that the waits of an   *)
(* erase time out and its first command's completion stays latched.        *)
(***************************************************************************)
StartKept(r) ==
    LET k == ccb[r].kind IN
    \/ /\ k \in {"sync", "ready"}
       /\ Post(r, "good") /\ hw' = NoCommand
       /\ UNCHANGED <<enq, transfer, open>>
    \/ /\ k = "erase"
       /\ Post(r, "error") /\ MayDropEnqueue
       /\ \E s \in {"ok", "err"} : hw' = [Command("other") EXCEPT !.status = s]
       /\ UNCHANGED <<transfer, open>>
    \/ /\ k = "rw"
       /\ DmaRw(r, 0, 0, NoCommand) /\ stop' = StopFor(r, 0, stop)
       /\ UNCHANGED <<enq, stops>>

\* mmc_ident_irq, success: the last command or a stage that needs no other.
IdentDone ==
    /\ Interrupted /\ state = "ident"
    /\ ident = "probe" \/ (ident = "final" /\ hw.status = "ok")
    /\ ident' = "none" /\ ready' = TRUE /\ resetting' = FALSE
    /\ \/ nexus # None /\ StartKept(nexus)
       \/ nexus = None /\ Keep(None) /\ hw' = NoCommand /\ UNCHANGED <<enq, transfer, open>>
    /\ StateAfter
    /\ UNCHANGED <<probes, count, resets, powered, moved>>

(***************************************************************************)
(* mmc_ident_irq, failure.  A reset is tried again by the control thread,  *)
(* the first identification is not: the card is powered down for good.     *)
(***************************************************************************)
IdentFailed ==
    /\ Interrupted /\ state = "ident"
    /\ ident \in {"probe", "none"} \/ (ident = "final" /\ hw.status = "err")
    /\ ident' = IF ident = "final" THEN "none" ELSE ident
    /\ Fail /\ hw' = NoCommand
    /\ IF resetting
       THEN resets' = resets + 1 /\ UNCHANGED <<state, powered, open>>
       ELSE state' = "idle" /\ powered' = FALSE /\ open' = FALSE /\ UNCHANGED resets
    /\ MayDropEnqueue
    /\ UNCHANGED <<probes, count, ready, resetting, transfer, moved>>

-----------------------------------------------------------------------------
(* Data and stop commands (mmc_data_irq, mmc_dma_irq).                      *)

DataIrq ==
    /\ Interrupted /\ state = "data"
    /\ UNCHANGED <<queue, enq, ident, probes, count, ready, resetting, powered, moved>>

\* The next command of the request, or its answer.
Continue ==
    /\ DmaRw(nexus, offset, blkno, NoCommand)
    /\ StateAfter

DataDone ==
    /\ DataIrq /\ stop # "issued" /\ hw.status = "ok"
    /\ stops' = 0 /\ UNCHANGED resets
    /\ \/ /\ stop = "pend"
          /\ hw' = Command("stop") /\ stop' = "issued"
          /\ UNCHANGED <<ccb, nexus, earlier, state, offset, blkno, open>>
       \/ /\ stop # "pend"
          /\ Continue /\ stop' = StopFor(nexus, offset, stop)

DataFailedNoStop ==
    /\ DataIrq /\ stop # "issued" /\ hw.status = "err"
    /\ stops' = 0 /\ hw' = NoCommand /\ stop' = "none"
    /\ Post(nexus, "error") /\ state' = "idle"
    /\ UNCHANGED <<resets, offset, blkno, open>>

\* The stop is sent whatever the command was; SCS_CHECK remembers the error.
DataFailed ==
    /\ DataIrq /\ stop # "issued" /\ hw.status = "err"
    /\ stops' = 0 /\ hw' = Command("stop") /\ stop' = "issued"
    /\ ccb' = [ccb EXCEPT ![nexus].check = TRUE]
    /\ UNCHANGED <<nexus, earlier, state, resets, offset, blkno, open>>

StopDoneUnchecked ==
    /\ DataIrq /\ stop = "issued" /\ hw.status = "ok"
    /\ stops' = 0 /\ UNCHANGED resets
    /\ Continue /\ stop' = StopFor(nexus, offset, "none")

StopDone ==
    /\ DataIrq /\ stop = "issued" /\ hw.status = "ok"
    /\ stops' = 0 /\ UNCHANGED resets
    /\ \/ /\ ccb[nexus].check
          /\ Post(nexus, "error") /\ state' = "idle"
          /\ stop' = "none" /\ hw' = NoCommand
          /\ UNCHANGED <<offset, blkno, open>>
       \/ /\ ~ccb[nexus].check
          /\ Continue /\ stop' = StopFor(nexus, offset, "none")

StopFailedNoReset ==
    /\ DataIrq /\ stop = "issued" /\ hw.status = "err"
    /\ stops' = stops + 1
    /\ \/ /\ stops <= StopRetries
          /\ hw' = Command("stop") /\ UNCHANGED <<ccb, nexus, earlier, state, stop>>
       \/ /\ stops > StopRetries
          /\ Post(nexus, "error") /\ state' = "ident" /\ stop' = "none" /\ hw' = NoCommand
    /\ UNCHANGED <<offset, blkno, open, resets>>

\* A stop that fails is repeated, and in the end the card is reset.
StopFailed ==
    /\ DataIrq /\ stop = "issued" /\ hw.status = "err"
    /\ stops' = stops + 1
    /\ \/ /\ stops <= StopRetries
          /\ hw' = Command("stop") /\ UNCHANGED <<ccb, nexus, earlier, state, resets, stop>>
       \/ /\ stops > StopRetries
          /\ Post(nexus, "error") /\ state' = "ident" /\ stop' = "none"
          /\ resets' = resets + 1 /\ hw' = NoCommand
    /\ UNCHANGED <<offset, blkno, open>>

-----------------------------------------------------------------------------
(* The threads that start identifications, and the hardware.                *)

\* mmc_creat_threads, for the card that is there.
Boot ==
    /\ starter = "boot" /\ starter' = "booting"
    /\ IdentStart
    /\ UNCHANGED <<requests, enq, drv, state, ready, resetting, resets, transfer, acmd12, overtaken>>

\* mmc_control_thread takes MMCSD_PULSE_RESET.
Reset ==
    /\ starter = "wait" /\ resets > 0
    /\ resets' = resets - 1
    /\ IF ready
       THEN starter' = "sent" /\ resetting' = TRUE /\ IdentStart
       ELSE UNCHANGED <<starter, resetting, ident, probes, count, card>>
    /\ UNCHANGED <<requests, enq, drv, state, ready, transfer, acmd12, overtaken>>

\* The state is stored after the command has been sent.
StoreIdent ==
    /\ starter \in {"booting", "sent"} /\ starter' = "wait"
    /\ state' = "ident"
    /\ overtaken' = (overtaken \/ (starter = "sent" /\ state # "ident"))
    /\ UNCHANGED <<requests, enq, drv, idents, transfer, acmd12, card>>

\* Blocks of the command in the controller, as pairs of buffer and card.
Blocks(c) == [i \in 1 .. c.n |-> <<c.mem + i - 1, c.blk + i - 1>>]

(***************************************************************************)
(* The controller ends a command, well or badly: it has timeouts of its    *)
(* own for both the response and the data.  A good stop, or the automatic  *)
(* one of a multi-block command, ends the card's transfer.                 *)
(***************************************************************************)
Works(s) ==
    /\ powered /\ hw.status = "busy" /\ hw' = [hw EXCEPT !.status = s]
    /\ IF s = "ok" /\ hw.cmd = "data"
       THEN moved' = [moved EXCEPT ![hw.req] = @ \o Blocks(hw)]
       ELSE UNCHANGED moved
    /\ open' = (open /\ ~(s = "ok" /\ (hw.cmd = "stop" \/ (hw.cmd = "data" /\ acmd12))))
    /\ UNCHANGED <<requests, enq, drv, state, idents, starter, transfer, acmd12, powered, overtaken>>

-----------------------------------------------------------------------------
Client   == \E r \in Req : \E u \in Uses[r] : Submit(r, u[1], u[2], u[3])
Driver   == \/ TakeEnqueue \/ StartNext \/ StartDone \/ Unexpected
            \/ IdentAgain \/ IdentNext \/ IdentDone \/ IdentFailed
            \/ DataDone \/ DataFailed \/ StopDone \/ StopFailed
Starter  == Boot \/ Reset \/ StoreIdent
Hardware == Works("ok") \/ Works("err")

Next == Client \/ Driver \/ Starter \/ Hardware
Spec == Init /\ [][Next]_vars

(***************************************************************************)
(* Every thread runs when it can and the controller ends every command of  *)
(* a powered card.  No client has to ask for anything.                     *)
(***************************************************************************)
FairSpec == Spec /\ WF_vars(Driver) /\ WF_vars(Starter) /\ WF_vars(Hardware)

-----------------------------------------------------------------------------
(***************************************************************************)
(* A good answer is true.  A read or write answered CAM_REQ_CMP has moved  *)
(* every block of its length once, in order, between its place in the      *)
(* buffer and its block of the card, whatever failed, was stopped or was   *)
(* reset on the way; and when a sync is answered every earlier read and    *)
(* write has been, for mmc_sync itself waits for nothing.                  *)
(***************************************************************************)
InOrder(n) == [i \in 1 .. n |-> <<i - 1, i - 1>>]

GoodIsTrue ==
    \A r \in Req : ccb[r].status = "good" =>
        /\ ccb[r].kind = "rw" => ~ccb[r].part /\ moved[r] = InOrder(ccb[r].len)
        /\ ccb[r].kind = "sync" => earlier[r] = {}

(***************************************************************************)
(* No command goes out while a powered controller is still at another, and *)
(* no read or write to a card that is still inside a multi-block transfer: *)
(* a stop, an automatic stop or a power cycle came between.                *)
(***************************************************************************)
CardReadyForCommand ==
    [][hw' # hw /\ hw'.status = "busy" =>
          /\ hw.status # "busy" \/ ~powered
          /\ hw'.cmd = "data" => ~open]_vars

(***************************************************************************)
(* No request is forgotten: as long as one is in progress, its driver is   *)
(* about to look at the queue or has a pulse, an interrupt or a command of *)
(* the controller to come, or the control thread is going to reset the     *)
(* card, although the driver sleeps on one channel, takes the pulses of    *)
(* others off it and gives a failed reset back to the other thread.  (But  *)
(* see overtaken.)                                                         *)
(***************************************************************************)
NoRequestForgotten ==
    ~overtaken /\ (\E r \in Req : InProgress(r)) =>
        \/ enq \/ drv = "start"
        \/ hw.status \in {"ok", "err"} \/ (hw.status = "busy" /\ powered)
        \/ resets > 0 /\ ready

(***************************************************************************)
(* Every request is answered, however often commands, stops and            *)
(* identifications fail, unless the state of an identification was stored  *)
(* too late.                                                               *)
(***************************************************************************)
EveryRequestIsAnswered ==
    \A r \in Req : InProgress(r) ~> (~InProgress(r) \/ overtaken)

-----------------------------------------------------------------------------
(***************************************************************************)
(* The inductive invariant of the proofs.  Served: the requests in progress *)
(* are the nexus and those in the queue, each once.  Ordered: what was      *)
(* accepted earlier is ahead.  Quiet: outside a transfer the controller has *)
(* none of its commands and the card is not inside one, unless a late store *)
(* of the state hides a transfer that is then failed.  InTransfer: what was *)
(* moved, what is being moved and the offsets agree.                        *)
(***************************************************************************)
Served ==
    /\ nexus # None => InProgress(nexus)
    /\ \A i \in 1 .. Len(queue) :
          InProgress(queue[i]) /\ queue[i] # nexus /\ moved[queue[i]] = <<>>
    /\ \A i, j \in 1 .. Len(queue) : queue[i] = queue[j] => i = j
    /\ \A r \in Req : InProgress(r) => r = nexus \/ \E i \in 1 .. Len(queue) : queue[i] = r
    /\ starter \in {"boot", "booting"} => nexus = None /\ queue = <<>>

Ordered ==
    /\ nexus # None => earlier[nexus] = {}
    /\ \A i \in 1 .. Len(queue) :
          earlier[queue[i]] \subseteq {nexus} \cup {queue[j] : j \in 1 .. i - 1}

Quiet ==
    /\ hw.cmd = "data" => nexus # None /\ hw.req = nexus
    /\ state = "idle" => nexus = None /\ hw.cmd \in {"none", "other"} /\ ~open
    /\ state = "idle" /\ hw.status = "busy" => ~powered \/ starter = "booting"
    /\ state = "ident" /\ (ident # "none" \/ resets > 0) =>
          /\ hw.cmd \in {"none", "other"}
          /\ nexus # None => moved[nexus] = <<>>
    /\ state = "ident" /\ ident # "none" => ~open
    /\ resets > 0 => resets = 1 /\ state = "ident" /\ hw.status = "idle"
    /\ ready /\ ident # "none" => resetting /\ state = "ident"
    /\ starter = "boot" => hw.status = "idle" /\ state = "idle" /\ ~ready
    /\ starter = "booting" => state = "idle"

InTransfer ==
    state = "data" =>
        /\ nexus # None /\ ccb[nexus].kind = "rw" /\ ident = "none"
        /\ offset = blkno /\ blkno <= ccb[nexus].len
        /\ hw.cmd \in {"data", "stop"} /\ (hw.cmd = "stop" <=> stop = "issued")
        /\ hw.cmd = "data" =>
              /\ hw.mem = hw.blk /\ hw.mem + hw.n = blkno
              /\ moved[nexus] = InOrder(IF hw.status = "ok" THEN blkno ELSE hw.mem)
              /\ stop = "none" => ~open
              /\ stop = "auto" => acmd12
        /\ hw.cmd = "stop" /\ ~ccb[nexus].check => moved[nexus] = InOrder(blkno)
        /\ hw.status = "ok" /\ stop # "pend" => ~open

IInv == TypeOK /\ Served /\ Ordered /\ Quiet /\ InTransfer /\ GoodIsTrue

(***************************************************************************)
(* What keeps the requests going.  A queue nobody serves has a pulse; a    *)
(* transfer has a command in the controller or its interrupt latched, and  *)
(* so has an identification, or the card is to be reset; a reset is asked  *)
(* for only of a card that is ready, which is what mmc_control_thread      *)
(* looks at, and a card that is ready is powered; and the first            *)
(* identification is not lost before its state is stored.                  *)
(***************************************************************************)
Identifying == ident # "none" /\ hw.cmd # "none" /\ powered

Driven ==
    ~overtaken =>
        /\ drv = "wait" /\ nexus = None /\ queue # <<>> => enq
        /\ hw.cmd # "none" => hw.status # "idle"
        /\ state = "data" => ready
        /\ ready => powered
        /\ resets > 0 \/ resetting => ready
        /\ starter = "booting" => Identifying
        /\ state = "ident" => resets > 0 \/ Identifying
=============================================================================
