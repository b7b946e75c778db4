------------------------------- MODULE CpswRx -------------------------------
(***************************************************************************)
(* The receive path of one CPDMA channel of the CPSW Ethernet driver and   *)
(* the interface it feeds (devnp/dm814x: receive.c, event.c).              *)
(*                                                                         *)
(* The DMA engine fills a ring of descriptors.  The receive thread, woken  *)
(* by a pulse of the interrupt handler, moves the frames to rx_queue under *)
(* rx_mutex and gives the descriptors back by extending the engine's chain *)
(* behind its tail; a stack thread, started when rx_queue is in need of    *)
(* it, hands the frames to io-pkt.  With flow control a filling rx_queue   *)
(* stops the receive thread, and the stack thread is to restart it.        *)
(***************************************************************************)
EXTENDS Integers, Sequences, FiniteSetsExt

CONSTANTS
  NumRxPkts,     \* NUM_RX_PKTS: descriptors of the ring
  QueueMaxlen,   \* rx_queue.ifq_maxlen
  FlowControl,   \* whether flow_status has IFM_ETH_TXPAUSE
  MaxPulses,     \* bound on the pulses waiting on the channel of rx_thread
  Pkts,          \* frames
  Nil            \* the null pointer

ASSUME RxAssumption ==
  /\ NumRxPkts \in Nat \ {0, 1}
  /\ QueueMaxlen \in Nat \ {0}
  /\ FlowControl \in BOOLEAN
  /\ MaxPulses \in Nat \ {0}
  /\ Nil \notin Pkts
  /\ Nil \notin Int

Slots == 0 .. NumRxPkts - 1

VARIABLES
  desc,            \* rx_desc: the descriptors, in CPPI memory
  cidx, tail,      \* rx_cidx, rx_tail
  rxq,             \* rx_queue
  running, full,   \* rx_running, rx_full
  mutex,           \* whether the stack thread holds rx_mutex between two steps
  pc,              \* the receive thread
  m,               \* its frame in hand
  eidx, eoq,       \* its locals of the same names
  stack,           \* the stack thread (ti814x_process_interrupt)
  masked, pend,    \* the channel's interrupt mask and pending bit
  pulses,          \* pulses waiting for the receive thread
  hdp, cp,         \* RXn_HDP, RXn_CP as the engine wrote it
  frame, nxt       \* the DMA engine: frame in hand, next pointer latched

chain  == <<cidx, tail>>
queue  == <<rxq, running, full, mutex, stack>>
locals == <<m, eidx, eoq>>
chan   == <<masked, pend, pulses>>
engine == <<hdp, cp, frame, nxt>>
vars   == <<desc, chain, queue, pc, locals, chan, engine>>

-----------------------------------------------------------------------------
\* Mutant: the index is not wrapped.
AdvanceUnwrapped(i, k) == i + k

Advance(i, k) ==
  IF i + k < NumRxPkts THEN i + k ELSE i + k - NumRxPkts

Offset(i, s) == IF s >= i THEN s - i ELSE s - i + NumRxPkts

Unused(p) ==
  /\ p # m /\ p # frame
  /\ \A s \in Slots : desc[s].pkt # p
  /\ \A i \in 1 .. Len(rxq) : rxq[i] # p

\* The descriptors with a frame that waits.
HasFrame(s) == desc[s].pkt # Nil

\* The slot of the frame in hand: rx_cidx is already beyond it.
InHand == Advance(cidx, NumRxPkts - 1)

-----------------------------------------------------------------------------
(* ti814x_setup_descriptors, ti814x_hw_config, ti814x_attach: one chain from *)
(* the first descriptor to the last, given to the engine.                   *)

Init ==
  /\ desc = [s \in Slots |->
       [own |-> TRUE, eoq |-> FALSE, pkt |-> Nil,
        next |-> IF s = NumRxPkts - 1 THEN Nil ELSE s + 1]]
  /\ cidx = 0 /\ tail = NumRxPkts - 1
  /\ rxq = <<>> /\ running = FALSE /\ full = FALSE /\ mutex = FALSE
  /\ pc = "wait" /\ m = Nil /\ eidx = Nil /\ eoq = FALSE
  /\ stack = "idle"
  /\ masked = FALSE /\ pend = FALSE /\ pulses = 0
  /\ hdp = 0 /\ cp = Nil /\ frame = Nil /\ nxt = Nil

-----------------------------------------------------------------------------
(* The interrupt handler: mask the channel, send a pulse.                   *)

Isr ==
  /\ pend /\ ~masked
  /\ pulses < MaxPulses
  /\ masked' = TRUE
  /\ pulses' = pulses + 1
  /\ UNCHANGED <<desc, chain, queue, pc, locals, pend, engine>>

-----------------------------------------------------------------------------
(* The receive thread.                                                      *)

RxPulse ==
  /\ pc = "wait" /\ pulses > 0
  /\ pulses' = pulses - 1
  /\ eidx' = Nil /\ eoq' = FALSE
  /\ pc' = "loop"
  /\ UNCHANGED <<desc, chain, queue, m, masked, pend, engine>>

\* ti814x_add_rx_desc: the slot gets a buffer and is OWNed by the engine,
\* which cannot reach it before the chain is extended.
Rearm(s) ==
  desc' = [desc EXCEPT ![s].own = TRUE, ![s].eoq = FALSE, ![s].pkt = Nil]

\* The write of RXn_CP, which clears the interrupt unless the engine has
\* completed another descriptor meanwhile.
Acknowledge(s) == pend' = (pend /\ s # cp)

\* The top of the loop: EOQ is collected, the consumer index moves on.
Consume ==
  /\ pc = "loop"
  /\ ~desc[cidx].own
  /\ eoq' = (eoq \/ desc[cidx].eoq)
  /\ cidx' = Advance(cidx, 1)

\* No replacement buffer (the frame is lost and its buffer used again), or an
\* AVB frame, which goes straight up to io-pkt.
RxDivert ==
  /\ Consume
  /\ Rearm(cidx)
  /\ Acknowledge(cidx)
  /\ eidx' = cidx
  /\ pc' = "flow"
  /\ UNCHANGED <<tail, queue, m, masked, pulses, engine>>

RxTake ==
  /\ Consume
  /\ m' = desc[cidx].pkt
  /\ desc' = [desc EXCEPT ![cidx].pkt = Nil]
  /\ pc' = "enqueue"
  /\ UNCHANGED <<tail, queue, eidx, chan, engine>>

\* Under rx_mutex: a full queue drops the frame; the stack thread is started
\* (interrupt_queue) unless it runs.
RxEnqueue ==
  /\ pc = "enqueue"
  /\ ~mutex
  /\ rxq' = IF Len(rxq) >= QueueMaxlen THEN rxq ELSE Append(rxq, m)
  /\ running' = TRUE
  /\ stack' = IF running THEN stack ELSE "work"
  /\ m' = Nil
  /\ Rearm(InHand)
  /\ Acknowledge(InHand)
  /\ eidx' = InHand
  /\ pc' = "flow"
  /\ UNCHANGED <<chain, full, mutex, eoq, masked, pulses, engine>>

\* The length of rx_queue is read without rx_mutex.
RxFlowCheck ==
  /\ pc = "flow"
  /\ pc' = IF FlowControl /\ Len(rxq) >= QueueMaxlen - 1 THEN "full" ELSE "loop"
  /\ UNCHANGED <<desc, chain, queue, locals, chan, engine>>

RxFull ==
  /\ pc = "full"
  /\ ~mutex
  /\ full' = TRUE
  /\ pc' = "stop"
  /\ UNCHANGED <<desc, chain, rxq, running, mutex, stack, locals, chan, engine>>

\* "Ran out of descriptors, start DMA again".
\* Mutant: the engine is started whether or not it stopped.
RestartAlways == hdp' = cidx

\* Mutant: the engine is started on the descriptor behind the tail.
RestartBehindTail == hdp' = IF eoq THEN Advance(tail, 1) ELSE hdp

Restart == hdp' = IF eoq THEN cidx ELSE hdp

\* Mutant: the early return forgets that the engine has stopped.
RxStopOnly ==
  /\ pc = "stop"
  /\ pc' = "wait"
  /\ UNCHANGED <<desc, chain, queue, locals, chan, engine>>

\* The early return: the channel stays masked and the chain as it is.
RxStop ==
  /\ pc = "stop"
  /\ Restart
  /\ pc' = "wait"
  /\ UNCHANGED <<desc, chain, queue, locals, chan, cp, frame, nxt>>

\* The next descriptor is OWNed by the engine: end of the loop.
RxEmpty ==
  /\ pc = "loop"
  /\ desc[cidx].own
  /\ pc' = IF eidx \notin {Nil, tail} THEN "cut" ELSE "restart"
  /\ UNCHANGED <<desc, chain, queue, locals, chan, engine>>

\* Mutant: the new chain is not cut off at its end.
RxNoCut ==
  /\ pc = "cut"
  /\ pc' = "link"
  /\ UNCHANGED <<desc, chain, queue, locals, chan, engine>>

\* "rx_tail = end of current descriptor chain, nidx = start of new descriptor
\* chain to add, eidx = end of new descriptor chain to add": the new chain is
\* cut off at its end first, then linked behind the current one.
RxCut ==
  /\ pc = "cut"
  /\ desc' = [desc EXCEPT ![eidx].next = Nil]
  /\ pc' = "link"
  /\ UNCHANGED <<chain, queue, locals, chan, engine>>

RxLink ==
  /\ pc = "link"
  /\ desc' = [desc EXCEPT ![tail].next = Advance(tail, 1)]
  /\ tail' = eidx
  /\ pc' = "restart"
  /\ UNCHANGED <<cidx, queue, locals, chan, engine>>

RxRestart ==
  /\ pc = "restart"
  /\ Restart
  /\ pc' = "unmask"
  /\ UNCHANGED <<desc, chain, queue, locals, chan, cp, frame, nxt>>

\* Mutant: the interrupt is acknowledged when it is unmasked.
RxUnmaskAck ==
  /\ pc = "unmask"
  /\ masked' = FALSE /\ pend' = FALSE
  /\ pc' = "wait"
  /\ UNCHANGED <<desc, chain, queue, locals, pulses, engine>>

RxUnmask ==
  /\ pc = "unmask"
  /\ masked' = FALSE
  /\ pc' = "wait"
  /\ UNCHANGED <<desc, chain, queue, locals, pend, pulses, engine>>

-----------------------------------------------------------------------------
(* The stack thread.                                                        *)

\* Mutant: the mutex is released when the queue was found empty.
StackUnlocked ==
  /\ stack = "work"
  /\ IF rxq # <<>>
       THEN rxq' = Tail(rxq) /\ UNCHANGED stack
       ELSE stack' = "enable" /\ UNCHANGED rxq
  /\ UNCHANGED <<desc, chain, running, full, mutex, pc, locals, chan, engine>>

\* ti814x_process_interrupt hands a frame to io-pkt, or finds rx_queue empty:
\* "Leave mutex locked to prevent any enqueues, unlock in enable".
StackDequeue ==
  /\ stack = "work"
  /\ ~mutex
  /\ IF rxq # <<>>
       THEN rxq' = Tail(rxq) /\ UNCHANGED <<mutex, stack>>
       ELSE mutex' = TRUE /\ stack' = "enable" /\ UNCHANGED rxq
  /\ UNCHANGED <<desc, chain, running, full, pc, locals, chan, engine>>

\* ti814x_enable_interrupt unmasks the channels recorded in rx_full, which
\* nothing clears.
StackEnable ==
  /\ stack = "enable"
  /\ running' = FALSE
  /\ masked' = (masked /\ ~full)
  /\ mutex' = FALSE
  /\ stack' = "idle"
  /\ UNCHANGED <<desc, chain, rxq, full, pc, locals, pend, pulses, engine>>

-----------------------------------------------------------------------------
(* The DMA engine, as the driver relies on it: it latches the next pointer  *)
(* of the descriptor it fills before it writes the flags back, and EOQ in   *)
(* the flags means that it has stopped.                                     *)

DmaFill(p) ==
  /\ hdp # Nil /\ frame = Nil
  /\ Unused(p)
  /\ frame' = p
  /\ nxt' = desc[hdp].next
  /\ UNCHANGED <<desc, chain, queue, pc, locals, chan, hdp, cp>>

DmaWriteBack ==
  /\ frame # Nil
  /\ desc' = [desc EXCEPT ![hdp].own = FALSE, ![hdp].eoq = (nxt = Nil),
                          ![hdp].pkt = frame]
  /\ hdp' = nxt
  /\ cp' = hdp
  /\ pend' = TRUE
  /\ frame' = Nil /\ nxt' = Nil
  /\ UNCHANGED <<chain, queue, pc, locals, masked, pulses>>

-----------------------------------------------------------------------------
RxThread == RxPulse \/ RxDivert \/ RxTake \/ RxEnqueue \/ RxFlowCheck
              \/ RxFull \/ RxStop \/ RxEmpty \/ RxCut \/ RxLink
              \/ RxRestart \/ RxUnmask
StackThread == StackDequeue \/ StackEnable
Dma == (\E p \in Pkts : DmaFill(p)) \/ DmaWriteBack

Next == Isr \/ RxThread \/ StackThread \/ Dma

Spec == Init /\ [][Next]_vars

\* The threads run, the interrupt is delivered and a frame once begun is
\* written back.  Nothing makes the network send.
FairSpec ==
  /\ Spec
  /\ WF_vars(Isr) /\ WF_vars(RxThread) /\ WF_vars(StackThread)
  /\ WF_vars(DmaWriteBack)

-----------------------------------------------------------------------------
(* Properties.                                                              *)

\* Types of the variables.
TypeOK ==
  /\ desc \in [Slots -> [own : BOOLEAN, eoq : BOOLEAN, pkt : Pkts \cup {Nil},
                         next : Slots \cup {Nil}]]
  /\ cidx \in Slots /\ tail \in Slots
  /\ rxq \in Seq(Pkts) /\ Len(rxq) <= QueueMaxlen
  /\ running \in BOOLEAN /\ full \in BOOLEAN /\ mutex \in BOOLEAN
  /\ pc \in {"wait", "loop", "enqueue", "flow", "full", "stop",
             "cut", "link", "restart", "unmask"}
  /\ m \in Pkts \cup {Nil}
  /\ eidx \in Slots \cup {Nil} /\ eoq \in BOOLEAN
  /\ stack \in {"idle", "work", "enable"}
  /\ masked \in BOOLEAN /\ pend \in BOOLEAN /\ pulses \in 0 .. MaxPulses
  /\ hdp \in Slots \cup {Nil} /\ cp \in Slots \cup {Nil}
  /\ frame \in Pkts \cup {Nil} /\ nxt \in Slots \cup {Nil}

\* The engine never runs over a frame the receive thread has not consumed and
\* never skips a descriptor: it stands right behind the frames that wait, which
\* lie in arrival order from rx_cidx on.
EngineBehindFrames ==
  /\ \A s, t \in Slots :
       Offset(cidx, s) < Offset(cidx, t) /\ HasFrame(t) => HasFrame(s)
  /\ hdp # Nil =>
       /\ desc[hdp].own
       /\ \A s \in Slots : Offset(cidx, s) < Offset(cidx, hdp) => HasFrame(s)

\* An engine that reached the end of its chain is started again: the EOQ it
\* left is in a frame that waits, or was seen by the pass under way.
StopIsNoticed ==
  hdp = Nil =>
    \/ eoq /\ pc \notin {"wait", "unmask"}
    \/ \E s \in Slots : HasFrame(s) /\ desc[s].eoq

\* RXn_HDP is written only while the engine stands still, and to a descriptor
\* that the engine owns.
KickIsSafe ==
  [][hdp' # hdp /\ pc' # pc => hdp = Nil /\ desc[hdp'].own]_vars

\* Without flow control a frame on the ring is never forgotten: the receive
\* thread is at work or has a pulse, or the interrupt will come.  With it, the
\* stack thread has rx_full and an empty queue still to come ("instead stop
\* reading and wait for process_interrupt to drain it").
FramesAreNoticed ==
  (\E s \in Slots : HasFrame(s)) /\ pc = "wait" =>
    \/ pulses > 0
    \/ pend /\ ~masked
    \/ FlowControl /\ full /\ stack # "idle"

\* A queued frame has a stack thread that will come for it.
QueueIsServed == rxq # <<>> => stack = "work" /\ running

\* "If flow control is enabled then don't overflow the queue": the receive
\* thread never drops a frame for want of room in rx_queue.
QueueNeverOverflows ==
  FlowControl => ~(pc = "enqueue" /\ ~mutex /\ Len(rxq) >= QueueMaxlen)

-----------------------------------------------------------------------------
(* The channel implements PacketPipe: what waits is the frame in hand and   *)
(* those on the ring, what is committed is rx_queue.                        *)

\* How many frames lie from rx_cidx on, up to the first slot without one.
Filled ==
  Min({n \in 0 .. NumRxPkts : n = NumRxPkts \/ ~HasFrame(Advance(cidx, n))})

Waiting ==
  (IF m = Nil THEN <<>> ELSE <<m>>)
    \o [i \in 1 .. Filled |-> desc[Advance(cidx, i - 1)].pkt]

Pipe == INSTANCE PacketPipe WITH waiting <- Waiting, committed <- rxq

\* Frames reach the stack in the order they arrived, once each.
ImplementsPipe == Pipe!Spec

\* The same, and (without flow control) every frame the engine received is
\* taken off the ring and every queued frame reaches the stack.
ImplementsFairPipe == Pipe!FairSpec

-----------------------------------------------------------------------------
(* The inductive invariant from which CpswRxProofs derives the safety       *)
(* properties.                                                              *)

\* OWN is off exactly on the frames that wait, and on the slot in hand.
OwnInv ==
  /\ m # Nil <=> pc = "enqueue"
  /\ \A s \in Slots :
       IF pc = "enqueue" /\ s = InHand
         THEN ~desc[s].own /\ ~HasFrame(s)
         ELSE desc[s].own <=> ~HasFrame(s)

\* The next pointers go round the ring and are cut at the tail only, or at the
\* end of the chain about to be linked.
NextInv ==
  \A s \in Slots :
    desc[s].next = IF s = tail \/ (pc = "link" /\ s = eidx)
                     THEN Nil ELSE Advance(s, 1)

\* Where eidx is during a pass.
PassInv ==
  /\ pc \notin {"wait", "unmask", "enqueue"} /\ eidx # Nil => eidx = InHand
  /\ pc \in {"cut", "link"} => eidx \notin {Nil, tail}
  /\ pc = "enqueue" /\ tail = InHand => hdp = Nil

\* The engine is on the chain, and what it latched is null or what follows.
EngineInv ==
  /\ hdp # Nil => Offset(cidx, hdp) <= Offset(cidx, tail)
  /\ frame # Nil =>
       /\ hdp # Nil
       /\ nxt # Nil => nxt = Advance(hdp, 1) /\ hdp # tail

\* EOQ, on the ring or in the hands of the pass, is behind the last frame and
\* means that the engine stands still.
EoqInv ==
  /\ eoq /\ pc \notin {"wait", "unmask"} => hdp = Nil /\ \A s \in Slots : ~HasFrame(s)
  /\ \A s, t \in Slots :
       HasFrame(s) /\ desc[s].eoq =>
         hdp = Nil /\ (HasFrame(t) => Offset(cidx, t) <= Offset(cidx, s))

\* RXn_CP names the last frame that waits, so that no acknowledgement of an
\* earlier one clears the interrupt.
PendInv ==
  \A s \in Slots : HasFrame(s) =>
    /\ pend
    /\ cp # Nil /\ HasFrame(cp)
    /\ Offset(cidx, s) <= Offset(cidx, cp)

\* A frame that the engine is filling is nowhere else yet.
FrameInv ==
  frame # Nil =>
    /\ frame # m
    /\ \A s \in Slots : desc[s].pkt # frame
    /\ \A i \in 1 .. Len(rxq) : rxq[i] # frame

\* Who runs for rx_queue.
WorkInv ==
  /\ running <=> stack # "idle"
  /\ mutex <=> stack = "enable"
  /\ QueueIsServed

\* Without flow control the channel is masked exactly while a pulse or a pass
\* is under way.
PulseInv ==
  ~FlowControl =>
    /\ ~full /\ pc \notin {"full", "stop"}
    /\ pulses = IF masked /\ pc = "wait" THEN 1 ELSE 0
    /\ pc # "wait" => masked

IInv ==
  /\ TypeOK
  /\ OwnInv
  /\ NextInv
  /\ EngineBehindFrames
  /\ PassInv
  /\ EngineInv
  /\ EoqInv
  /\ PendInv
  /\ StopIsNoticed
  /\ FrameInv
  /\ WorkInv
  /\ PulseInv
=============================================================================
