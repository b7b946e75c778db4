------------------------------- MODULE CpswTx -------------------------------
(***************************************************************************)
(* The transmit path of one CPDMA channel of the CPSW Ethernet driver      *)
(* (devnp/dm814x: transmit.c, event.c, mii.c).                             *)
(*                                                                         *)
(* Software appends packets to a ring of NumTxPkts descriptors shared with *)
(* the DMA engine.  Every software handler runs under the lock if_snd_ex,  *)
(* so its steps interleave with the DMA engine, the interrupt handler and  *)
(* the unlocked reads of the timer and of the link callback.  `owner' is   *)
(* the thread that holds the lock and `pc' the point it has reached; only  *)
(* the points between which the DMA engine can be observed are separate.   *)
(***************************************************************************)
EXTENDS Integers, Sequences, FiniteSets

CONSTANTS
  NumTxPkts,     \* NUM_TX_PKTS: descriptors of the ring
  DefragLimit,   \* DEFRAG_LIMIT: the most descriptors a packet may need
  IfqMaxlen,     \* if_snd.ifq_maxlen: packets the stack may have waiting
  Queue,         \* the queue: 0 is fed by ti814x_start, 1..3 by ti814x_output
  LinkDrops,     \* whether the PHY may lose its link
  Pkts,          \* mbuf chains
  Nil            \* the null pointer

ASSUME TxAssumption ==
  /\ NumTxPkts \in Nat
  /\ DefragLimit \in 1 .. NumTxPkts - 1
  /\ IfqMaxlen \in Nat
  /\ Queue \in 0 .. 3
  /\ LinkDrops \in BOOLEAN
  /\ Nil \notin Pkts
  /\ Nil \notin Int

Slots == 0 .. NumTxPkts - 1

VARIABLES
  desc,          \* tx_desc: the descriptors, in CPPI memory
  mbuf,          \* tx_mbuf: the packet to free with a slot, or Nil
  pidx, cidx,    \* tx_pidx, tx_cidx
  qlen,          \* tx_q_len
  ifq,           \* if_snd
  m,             \* the packet the lock holder is about to transmit, or Nil
  start,         \* idx_start of ti814x_tx
  oactive,       \* IFF_OACTIVE in if_flags_tx
  linkup,        \* linkup
  reaped,        \* tx_reaped
  owner, pc,     \* the holder of if_snd_ex and its program counter
  irq,           \* the deferred interrupt handler
  mii,           \* the PHY's link callback
  timer,         \* the three-second timer
  masked, pend,  \* the channel's interrupt mask and its pending bit
  hdp,           \* TXn_HDP, the head descriptor pointer
  cur, nxt, dma  \* the DMA engine: descriptor in hand, latched next, state

ring  == <<mbuf, pidx, cidx, qlen>>
stack == <<ifq, m, start, oactive>>
sync  == <<owner, pc>>
work  == <<linkup, reaped, irq, mii, timer>>
chan  == <<masked, pend>>
vars  == <<desc, ring, stack, sync, work, chan, hdp, cur, nxt, dma>>

-----------------------------------------------------------------------------
(* Ring arithmetic: (idx + k) % NUM_TX_PKTS for k <= NUM_TX_PKTS, idx - 1   *)
(* wrapped to the last slot, and the distance the scans walk.               *)

\* Mutant: the index is not wrapped.
AdvanceUnwrapped(idx, k) == idx + k

Advance(idx, k) ==
  IF idx + k < NumTxPkts THEN idx + k ELSE idx + k - NumTxPkts

Before(idx) == IF idx = 0 THEN NumTxPkts - 1 ELSE idx - 1

Offset(idx, s) == IF s >= idx THEN s - idx ELSE s - idx + NumTxPkts

\* The slots between tx_cidx and tx_pidx.
InUse(s) == Offset(cidx, s) < qlen

\* Mutant: off by one, so that the ring may fill completely.
HasRoomExact(n) == NumTxPkts - n >= DefragLimit

HasRoom(n) == NumTxPkts - n > DefragLimit

Unsent(s) == InUse(s) /\ desc[s].own

Unused(p) ==
  /\ p # m
  /\ \A s \in Slots : mbuf[s] # p
  /\ \A i \in 1 .. Len(ifq) : ifq[i] # p

-----------------------------------------------------------------------------
(* ti814x_setup_descriptors, ti814x_hw_config, ti814x_init: an empty ring   *)
(* whose descriptors all carry EOQ, so that the first packet kicks the DMA. *)

\* Mutant: the flags are cleared, EOQ too.
ClearDesc ==
  [own |-> FALSE, sop |-> FALSE, eop |-> FALSE, eoq |-> FALSE, next |-> Nil]

FreshDesc ==
  [own |-> FALSE, sop |-> FALSE, eop |-> FALSE, eoq |-> TRUE, next |-> Nil]

Init ==
  /\ desc = [s \in Slots |-> FreshDesc]
  /\ mbuf = [s \in Slots |-> Nil]
  /\ pidx = 0 /\ cidx = 0 /\ qlen = 0
  /\ ifq = <<>> /\ m = Nil /\ start = 0
  /\ oactive = FALSE
  /\ linkup = TRUE
  /\ reaped = FALSE
  /\ owner = "none" /\ pc = "unlocked"
  /\ irq = "idle" /\ mii = "idle" /\ timer = "idle"
  /\ masked = FALSE /\ pend = FALSE
  /\ hdp = Nil /\ cur = Nil /\ nxt = Nil /\ dma = "idle"

-----------------------------------------------------------------------------
(* if_snd_ex.                                                               *)

Goto(t, l) ==
  /\ owner' = t
  /\ pc' = l
  /\ irq' = IF t = "irq" THEN "running" ELSE irq
  /\ mii' = IF t = "mii" THEN "running" ELSE mii

\* NW_SIGUNLOCK_P, and the return of the handler: io-pkt re-enables the
\* interrupt of a work entry after its process function has returned.
Unlock ==
  /\ owner' = "none"
  /\ pc' = "unlocked"
  /\ irq' = IF owner = "irq" THEN "enable" ELSE irq
  /\ mii' = IF owner = "mii" THEN "idle" ELSE mii

\* The entry of ti814x_start by t, which holds the lock.
EnterStart(t) ==
  /\ linkup
  /\ oactive' = TRUE
  /\ Goto(t, "space")

\* Mutant: the scan for used slots does not stop at OWN.
ReapAll(r) ==
  /\ r = qlen
  /\ mbuf' = [s \in Slots |-> Nil]
  /\ cidx' = pidx
  /\ qlen' = 0

\* ti814x_reap_pkts: free the r leading slots, up to the first the DMA owns.
Reap(r) ==
  /\ \A s \in Slots : Offset(cidx, s) < r => ~desc[s].own
  /\ r < qlen => desc[Advance(cidx, r)].own
  /\ mbuf' = [s \in Slots |-> IF Offset(cidx, s) < r THEN Nil ELSE mbuf[s]]
  /\ cidx' = Advance(cidx, r)
  /\ qlen' = qlen - r

-----------------------------------------------------------------------------
(* The stack: io-pkt queues a packet on if_snd and calls if_start unless    *)
(* IFF_OACTIVE is set; a prioritised packet goes to ti814x_output.          *)

StackSend(p) ==
  /\ Queue = 0
  /\ owner = "none"
  /\ Unused(p)
  /\ Len(ifq) < IfqMaxlen
  /\ ifq' = Append(ifq, p)
  /\ IF ~oactive /\ linkup
       THEN EnterStart("stack")
       ELSE UNCHANGED <<oactive, sync, irq, mii>>
  /\ UNCHANGED <<desc, ring, m, start, linkup, reaped, timer, chan,
                 hdp, cur, nxt, dma>>

Output(p) ==
  /\ Queue # 0
  /\ owner = "none"
  /\ Unused(p)
  /\ m' = p
  /\ Goto("stack", "space")
  /\ UNCHANGED <<desc, ring, ifq, start, oactive, linkup, reaped, timer, chan,
                 hdp, cur, nxt, dma>>

-----------------------------------------------------------------------------
(* The space check that ti814x_start and ti814x_output share.               *)

AfterSpace == pc' = IF Queue = 0 THEN "take" ELSE "tx"

SpaceLeft ==
  /\ pc = "space"
  /\ HasRoom(qlen)
  /\ AfterSpace
  /\ UNCHANGED <<desc, ring, stack, owner, work, chan, hdp, cur, nxt, dma>>

\* A full ring is reaped.  If that does not help, ti814x_start returns with
\* IFF_OACTIVE still set and ti814x_output frees the packet.
SpaceReap ==
  /\ pc = "space"
  /\ ~HasRoom(qlen)
  /\ \E r \in 0 .. qlen :
       /\ Reap(r)
       /\ IF HasRoom(qlen - r)
            THEN /\ AfterSpace
                 /\ UNCHANGED <<owner, irq, mii, m>>
            ELSE /\ Unlock
                 /\ m' = Nil
  /\ reaped' = (reaped \/ Queue = 0)
  /\ UNCHANGED <<desc, pidx, ifq, start, oactive, linkup, timer, chan,
                 hdp, cur, nxt, dma>>

\* IFQ_DEQUEUE in the loop of ti814x_start.
StartDequeue ==
  /\ pc = "take"
  /\ ifq # <<>>
  /\ m' = Head(ifq)
  /\ ifq' = Tail(ifq)
  /\ pc' = "tx"
  /\ UNCHANGED <<desc, ring, start, oactive, owner, work, chan,
                 hdp, cur, nxt, dma>>

StartDone ==
  /\ pc = "take"
  /\ ifq = <<>>
  /\ oactive' = FALSE
  /\ Unlock
  /\ UNCHANGED <<desc, ring, ifq, m, start, linkup, reaped, timer, chan,
                 hdp, cur, nxt, dma>>

-----------------------------------------------------------------------------
(* ti814x_tx.                                                               *)

\* ti814x_start loops, ti814x_output unlocks.
AfterTx ==
  IF Queue = 0
    THEN pc' = "space" /\ UNCHANGED <<owner, irq, mii>>
    ELSE Unlock

\* Build a chain of k descriptors and append it to the one before.  Nothing
\* of the chain can be reached by the DMA before the append is written.
TxBuild(k) ==
  /\ pc = "tx"
  /\ desc' = [s \in Slots |->
       LET i == Offset(pidx, s) IN
       IF i < k
         THEN [own |-> i = 0, sop |-> i = 0, eop |-> i = k - 1, eoq |-> FALSE,
               next |-> IF i = k - 1 THEN Nil ELSE Advance(s, 1)]
         ELSE IF s = Before(pidx)
                THEN [desc[s] EXCEPT !.next = pidx]
                ELSE desc[s]]
  /\ mbuf' = [mbuf EXCEPT ![pidx] = m]
  /\ m' = Nil
  /\ start' = pidx
  /\ pidx' = Advance(pidx, k)
  /\ qlen' = qlen + k
  /\ pc' = "hdp"
  /\ UNCHANGED <<cidx, ifq, oactive, owner, work, chan, hdp, cur, nxt, dma>>

\* ti814x_defrag found no cluster: the packet is freed.
TxDefragFailed ==
  /\ pc = "tx"
  /\ m' = Nil
  /\ AfterTx
  /\ UNCHANGED <<desc, ring, ifq, start, oactive, linkup, reaped, timer, chan,
                 hdp, cur, nxt, dma>>

\* Mutant: EOQ alone is taken for a stopped DMA.
TxSkipHdp ==
  /\ pc = "hdp"
  /\ pc' = "eoq"
  /\ UNCHANGED <<desc, ring, stack, owner, work, chan, hdp, cur, nxt, dma>>

\* "If previous packet is done, kick the DMA": the register is read first.
TxReadHdp ==
  /\ pc = "hdp"
  /\ IF hdp = Nil
       THEN pc' = "eoq" /\ UNCHANGED <<owner, irq, mii>>
       ELSE AfterTx
  /\ UNCHANGED <<desc, ring, stack, linkup, reaped, timer, chan,
                 hdp, cur, nxt, dma>>

TxKick ==
  /\ pc = "eoq"
  /\ hdp' = IF desc[Before(start)].eoq THEN start ELSE hdp
  /\ AfterTx
  /\ UNCHANGED <<desc, ring, stack, linkup, reaped, timer, chan, cur, nxt, dma>>

-----------------------------------------------------------------------------
(* The transmit interrupt.                                                  *)

\* ti814x_isr_tx masks the channel and queues the work entry.
IsrTx ==
  /\ pend /\ ~masked
  /\ masked' = TRUE
  /\ irq' = "queued"
  /\ UNCHANGED <<desc, ring, stack, sync, linkup, reaped, mii, timer, pend,
                 hdp, cur, nxt, dma>>

\* ti814x_process_tx_interrupt: the lock, then the acknowledgement, which is
\* the write of the completion pointer just read.
IrqLock ==
  /\ irq = "queued"
  /\ owner = "none"
  /\ Goto("irq", "ack")
  /\ UNCHANGED <<desc, ring, stack, linkup, reaped, timer, chan,
                 hdp, cur, nxt, dma>>

IrqAck ==
  /\ pc = "ack"
  /\ pend' = FALSE
  /\ pc' = "check"
  /\ UNCHANGED <<desc, ring, stack, owner, work, masked, hdp, cur, nxt, dma>>

\* Mutant: no recovery from a misqueue.
IrqNoRecovery ==
  /\ pc = "check"
  /\ pc' = "full"
  /\ UNCHANGED <<desc, ring, stack, owner, work, chan, hdp, cur, nxt, dma>>

IrqReadHdp ==
  /\ pc = "check"
  /\ pc' = IF hdp = Nil THEN "scan" ELSE "full"
  /\ UNCHANGED <<desc, ring, stack, owner, work, chan, hdp, cur, nxt, dma>>

\* The DMA missed a packet appended behind its back: kick it on the oldest.
Oldest(s) ==
  /\ Unsent(s)
  /\ \A t \in Slots : Offset(cidx, t) < Offset(cidx, s) => ~desc[t].own

\* Mutant: the scan ends at the newest packet.
IrqScanNewest ==
  /\ pc = "scan"
  /\ IF \E s \in Slots : Unsent(s)
       THEN \E s \in Slots :
              /\ Unsent(s)
              /\ \A t \in Slots : Unsent(t) => Offset(cidx, t) <= Offset(cidx, s)
              /\ hdp' = s
       ELSE UNCHANGED hdp
  /\ pc' = "full"
  /\ UNCHANGED <<desc, ring, stack, owner, work, chan, cur, nxt, dma>>

IrqScan ==
  /\ pc = "scan"
  /\ IF \E s \in Slots : Unsent(s)
       THEN \E s \in Slots : Oldest(s) /\ hdp' = s
       ELSE UNCHANGED hdp
  /\ pc' = "full"
  /\ UNCHANGED <<desc, ring, stack, owner, work, chan, cur, nxt, dma>>

\* Mutant: the interrupt does not restart a full interface.
IrqNoStart ==
  /\ pc = "full"
  /\ Unlock
  /\ UNCHANGED <<desc, ring, stack, linkup, reaped, timer, chan,
                 hdp, cur, nxt, dma>>

\* "If was out of tx descriptors call start to reap and Tx more".
IrqFull ==
  /\ pc = "full"
  /\ IF Queue = 0 /\ oactive /\ linkup
       THEN EnterStart("irq")
       ELSE Unlock /\ UNCHANGED oactive
  /\ UNCHANGED <<desc, ring, ifq, m, start, linkup, reaped, timer, chan,
                 hdp, cur, nxt, dma>>

\* ti814x_enable_tx_interrupt.
IrqEnable ==
  /\ irq = "enable"
  /\ masked' = FALSE
  /\ irq' = "idle"
  /\ UNCHANGED <<desc, ring, stack, sync, linkup, reaped, mii, timer, pend,
                 hdp, cur, nxt, dma>>

-----------------------------------------------------------------------------
(* The link callback (bsd_mii_linkstate) and the timer (MonitorPhy), which  *)
(* only care about queue 0.                                                 *)

LinkDown ==
  /\ LinkDrops /\ Queue = 0
  /\ mii = "idle" /\ linkup
  /\ linkup' = FALSE
  /\ UNCHANGED <<desc, ring, stack, sync, reaped, irq, mii, timer, chan,
                 hdp, cur, nxt, dma>>

LinkUp ==
  /\ mii = "idle" /\ ~linkup
  /\ linkup' = TRUE
  /\ mii' = "qlen"
  /\ UNCHANGED <<desc, ring, stack, sync, reaped, irq, timer, chan,
                 hdp, cur, nxt, dma>>

\* tx_q_len is read without the lock.
LinkUpCheck ==
  /\ mii = "qlen"
  /\ mii' = IF qlen > 0 THEN "lock" ELSE "idle"
  /\ UNCHANGED <<desc, ring, stack, sync, linkup, reaped, irq, timer, chan,
                 hdp, cur, nxt, dma>>

LinkUpStart ==
  /\ mii = "lock"
  /\ owner = "none"
  /\ EnterStart("mii")
  /\ UNCHANGED <<desc, ring, ifq, m, start, linkup, reaped, timer, chan,
                 hdp, cur, nxt, dma>>

\* "Reap if not recently done": tx_reaped is read and cleared without the lock.
TimerCheck ==
  /\ Queue = 0
  /\ timer = "idle"
  /\ timer' = IF reaped THEN "clear" ELSE "lock"
  /\ UNCHANGED <<desc, ring, stack, sync, linkup, reaped, irq, mii, chan,
                 hdp, cur, nxt, dma>>

TimerReap ==
  /\ timer = "lock"
  /\ owner = "none"
  /\ \E r \in 0 .. qlen : Reap(r)
  /\ reaped' = TRUE
  /\ timer' = "clear"
  /\ UNCHANGED <<desc, pidx, stack, sync, linkup, irq, mii, chan,
                 hdp, cur, nxt, dma>>

TimerClear ==
  /\ timer = "clear"
  /\ reaped' = FALSE
  /\ timer' = "idle"
  /\ UNCHANGED <<desc, ring, stack, sync, linkup, irq, mii, chan,
                 hdp, cur, nxt, dma>>

-----------------------------------------------------------------------------
(* The DMA engine, as the driver relies on it.  It follows the chain at HDP *)
(* packet by packet, latches the next pointer of an end-of-packet           *)
(* descriptor, writes the flags back, and only then moves HDP on and raises *)
(* the interrupt.                                                           *)

DmaBegin ==
  /\ dma = "idle" /\ hdp # Nil
  /\ cur' = hdp
  /\ dma' = "busy"
  /\ UNCHANGED <<desc, ring, stack, sync, work, chan, hdp, nxt>>

DmaNext ==
  /\ dma = "busy" /\ ~desc[cur].eop
  /\ cur' = desc[cur].next
  /\ UNCHANGED <<desc, ring, stack, sync, work, chan, hdp, nxt, dma>>

DmaLatch ==
  /\ dma = "busy" /\ desc[cur].eop
  /\ nxt' = desc[cur].next
  /\ dma' = "latched"
  /\ UNCHANGED <<desc, ring, stack, sync, work, chan, hdp, cur>>

DmaWriteBack ==
  /\ dma = "latched"
  /\ desc' = [s \in Slots |->
       [desc[s] EXCEPT !.own = @ /\ s # hdp,
                       !.eoq = @ \/ (s = cur /\ nxt = Nil)]]
  /\ dma' = "written"
  /\ UNCHANGED <<ring, stack, sync, work, chan, hdp, cur, nxt>>

DmaComplete ==
  /\ dma = "written"
  /\ hdp' = nxt
  /\ cur' = Nil /\ nxt' = Nil
  /\ dma' = "idle"
  /\ pend' = TRUE
  /\ UNCHANGED <<desc, ring, stack, sync, work, masked>>

-----------------------------------------------------------------------------
Stack == \E p \in Pkts : StackSend(p) \/ Output(p)
Start == SpaceLeft \/ SpaceReap \/ StartDequeue \/ StartDone
Tx    == (\E k \in 1 .. DefragLimit : TxBuild(k))
           \/ TxDefragFailed \/ TxReadHdp \/ TxKick
Irq   == IrqAck \/ IrqReadHdp \/ IrqScan \/ IrqFull \/ IrqEnable
Link  == LinkDown \/ LinkUp \/ LinkUpCheck \/ LinkUpStart
Timer == TimerCheck \/ TimerReap \/ TimerClear
Dma   == DmaBegin \/ DmaNext \/ DmaLatch \/ DmaWriteBack \/ DmaComplete

Next == Stack \/ Start \/ Tx \/ IsrTx \/ IrqLock \/ Irq \/ Link \/ Timer \/ Dma

Spec == Init /\ [][Next]_vars

\* The holder of the lock, the interrupt controller and the DMA engine run on,
\* and the interrupt work thread gets the lock in the end even if the stack
\* keeps taking it (SF): mutex waiters are queued by priority.  The timer and
\* the link callback need no fairness.
FairSpec ==
  /\ Spec
  /\ WF_vars(Start) /\ WF_vars(Tx) /\ WF_vars(Irq) /\ WF_vars(Dma)
  /\ WF_vars(IsrTx) /\ SF_vars(IrqLock)

-----------------------------------------------------------------------------
(* Properties.                                                              *)

\* Types of the variables.
TypeOK ==
  /\ desc \in [Slots -> [own : BOOLEAN, sop : BOOLEAN, eop : BOOLEAN,
                         eoq : BOOLEAN, next : Slots \cup {Nil}]]
  /\ mbuf \in [Slots -> Pkts \cup {Nil}]
  /\ pidx \in Slots /\ cidx \in Slots /\ qlen \in 0 .. NumTxPkts
  /\ ifq \in Seq(Pkts) /\ m \in Pkts \cup {Nil} /\ start \in Slots
  /\ oactive \in BOOLEAN /\ linkup \in BOOLEAN /\ reaped \in BOOLEAN
  /\ owner \in {"none", "stack", "irq", "mii"}
  /\ pc \in {"unlocked", "space", "take", "tx", "hdp", "eoq",
             "ack", "check", "scan", "full"}
  /\ irq \in {"idle", "queued", "running", "enable"}
  /\ mii \in {"idle", "qlen", "lock", "running"}
  /\ timer \in {"idle", "lock", "clear"}
  /\ masked \in BOOLEAN /\ pend \in BOOLEAN
  /\ hdp \in Slots \cup {Nil} /\ cur \in Slots \cup {Nil}
  /\ nxt \in Slots \cup {Nil}
  /\ dma \in {"idle", "busy", "latched", "written"}

\* The two indices and the count agree, the ring never fills completely (a
\* full ring would make tx_pidx = tx_cidx and hide every packet from the scan
\* of the interrupt handler), and a slot holds a packet to free exactly when
\* it starts a chain in use: no mbuf leaks and none is freed twice.
RingConsistent ==
  /\ qlen < NumTxPkts
  /\ pidx = Advance(cidx, qlen)
  /\ \A s \in Slots : mbuf[s] # Nil <=> InUse(s) /\ desc[s].sop

\* "Don't free memory owned by DMA": while the engine works on a packet, the
\* packet is still attached to the ring, its descriptors are in use and the
\* start descriptor still carries OWN.
DmaMemoryKept ==
  dma \in {"busy", "latched"} =>
    /\ Unsent(hdp) /\ mbuf[hdp] # Nil
    /\ InUse(cur) /\ Offset(cidx, hdp) <= Offset(cidx, cur)

\* Software writes the head descriptor pointer only while the engine is
\* stopped, although it tested the register several steps earlier, and points
\* it to the oldest packet that is not sent.
KickIsSafe ==
  [][hdp' # hdp /\ pc' # pc =>
       /\ hdp = Nil /\ hdp' # Nil
       /\ Oldest(hdp')]_vars

\* The misqueue: whenever the engine stands still although a packet is
\* waiting on the ring, somebody is about to see it (ti814x_tx before its
\* test of EOQ, or an interrupt that has not looked at the HDP yet).
StallIsNoticed ==
  hdp = Nil /\ (\E s \in Slots : Unsent(s)) =>
    \/ pend
    \/ irq = "queued"
    \/ pc \in {"ack", "check", "scan"}
    \/ pc \in {"hdp", "eoq"} /\ desc[Before(start)].eoq

\* "ensure things keep running" (bsd_mii_linkstate): an interface marked
\* IFF_OACTIVE with its link up is one whose handlers will run ti814x_start
\* again: an interrupt is due, the running DMA will raise one, or the link
\* callback has not done its part yet.
StartWillRun ==
  oactive /\ linkup /\ owner = "none" =>
    \/ pend
    \/ irq = "queued"
    \/ hdp # Nil
    \/ mii \in {"qlen", "lock"}

-----------------------------------------------------------------------------
(* The channel implements PacketPipe: what waits is the packet in hand and      *)
(* if_snd, what is committed are the packets of the ring the DMA engine has *)
(* not released yet.                                                        *)

Waiting == (IF m = Nil THEN <<>> ELSE <<m>>) \o ifq

\* Slot number i of the set S, counted in ring order from slot c.
Ranked(S, c, i) ==
  CHOOSE s \in S :
    Cardinality({t \in S : Offset(c, t) <= Offset(c, s)}) = i

Committed ==
  LET owned == {s \in Slots : Unsent(s)}
  IN  [i \in 1 .. Cardinality(owned) |-> mbuf[Ranked(owned, cidx, i)]]

Pipe == INSTANCE PacketPipe WITH waiting <- Waiting, committed <- Committed

\* Packets leave in the order they were accepted, once each, and after they
\* reached the ring none is lost.
ImplementsPipe == Pipe!Spec

\* The same, and (while the link stays up) every packet the stack queued
\* reaches the ring or is dropped, and every packet on the ring is transmitted:
\* no misqueue, no lost interrupt and no IFF_OACTIVE stops the channel.
ImplementsFairPipe == Pipe!FairSpec

-----------------------------------------------------------------------------
(* The inductive invariant from which CpswTxProofs derives the safety       *)
(* properties.                                                              *)

\* Who holds the lock, where it is, what it holds.
LockInv ==
  /\ owner = "none" <=> pc = "unlocked"
  /\ owner = "irq" <=> irq = "running"
  /\ owner = "mii" <=> mii = "running"
  /\ masked <=> irq # "idle"
  /\ Queue # 0 => mii = "idle" /\ linkup /\ ifq = <<>>
  /\ pc \in {"ack", "check", "scan", "full"} => owner = "irq"
  /\ m # Nil <=> pc = "tx" \/ (Queue # 0 /\ pc = "space")
  /\ pc \in {"take", "tx"} => HasRoom(qlen)

\* The descriptors in use form one chain in ring order; only a start
\* descriptor carries OWN.
ChainInv ==
  \A s \in Slots : InUse(s) =>
    LET t == Advance(s, 1) IN
    /\ desc[s].own => desc[s].sop
    /\ ~desc[s].eop => desc[s].next = t /\ InUse(t) /\ ~desc[t].sop
    /\ desc[s].eop => \/ desc[s].next = Nil /\ t = pidx
                      \/ desc[s].next = t /\ InUse(t) /\ desc[t].sop

\* Packets are released in order.
OrderInv ==
  \A s, t \in Slots :
    /\ Unsent(s)
    /\ InUse(t) /\ desc[t].sop
    /\ Offset(cidx, s) < Offset(cidx, t)
    => desc[t].own

\* The engine works on the oldest packet that is not sent.
EngineInv ==
  /\ hdp = Nil => dma = "idle"
  /\ dma = "idle" /\ hdp # Nil => Oldest(hdp)
  /\ dma \in {"busy", "latched"} =>
       /\ Oldest(hdp)
       /\ cur \in Slots /\ InUse(cur)
       /\ Offset(cidx, hdp) <= Offset(cidx, cur)
       /\ \A s \in Slots :
            /\ Offset(cidx, hdp) < Offset(cidx, s)
            /\ Offset(cidx, s) <= Offset(cidx, cur)
            => ~desc[s].sop
  /\ dma = "latched" => desc[cur].eop /\ nxt \in {Nil, desc[cur].next}
  /\ dma = "written" /\ nxt # Nil => Oldest(nxt)

\* The engine has seen the end of the chain, or has already stopped.
Stopped == hdp = Nil \/ (dma = "written" /\ nxt = Nil)

\* EOQ before the packet just appended means that the engine missed it.
AppendInv ==
  /\ pc \in {"eoq", "scan"} => hdp = Nil
  /\ pc \in {"hdp", "eoq"} =>
       /\ InUse(start) /\ desc[start].sop
       /\ desc[Before(start)].eoq => Oldest(start) /\ Stopped

\* The last descriptor appended carries EOQ exactly when all is sent.
EoqInv == desc[Before(pidx)].eoq <=> \A s \in Slots : ~Unsent(s)

IInv ==
  /\ TypeOK
  /\ LockInv
  /\ RingConsistent
  /\ ChainInv
  /\ OrderInv
  /\ EngineInv
  /\ AppendInv
  /\ EoqInv
  /\ StallIsNoticed
=============================================================================
