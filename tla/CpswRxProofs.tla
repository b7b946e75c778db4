---------------------------- MODULE CpswRxProofs ----------------------------
(***************************************************************************)
(* Machine-checked proofs about CpswRx, for every size of the ring and of  *)
(* rx_queue and every set of frames, with and without flow control.        *)
(***************************************************************************)
EXTENDS CpswRx, DataLemmas, TLAPS

-----------------------------------------------------------------------------
(* Ring arithmetic.                                                         *)

\* Advancing stays on the ring.
LEMMA AdvanceType ==
  ASSUME NEW i \in Slots, NEW k \in 0 .. NumRxPkts
  PROVE  Advance(i, k) \in Slots
BY RxAssumption DEF Slots, Advance

\* Offsets are below the size of the ring, and zero at the origin only.
LEMMA OffsetType ==
  ASSUME NEW i \in Slots, NEW s \in Slots
  PROVE  /\ Offset(i, s) \in 0 .. NumRxPkts - 1
         /\ Offset(i, s) = 0 <=> s = i
BY RxAssumption DEF Slots, Offset

\* Distinct slots have distinct offsets.
LEMMA OffsetInjective ==
  ASSUME NEW i \in Slots, NEW s \in Slots, NEW t \in Slots,
         Offset(i, s) = Offset(i, t)
  PROVE  s = t
BY RxAssumption DEF Slots, Offset

\* Moving the origin on by one shortens the offsets by one.
LEMMA OffsetShift ==
  ASSUME NEW i \in Slots, NEW s \in Slots
  PROVE  Offset(Advance(i, 1), s) =
           IF s = i THEN NumRxPkts - 1 ELSE Offset(i, s) - 1
BY RxAssumption DEF Slots, Offset, Advance

\* The next slot is one further, unless it is the origin.
LEMMA OffsetNext ==
  ASSUME NEW i \in Slots, NEW s \in Slots
  PROVE  Offset(i, Advance(s, 1)) =
           IF Offset(i, s) = NumRxPkts - 1 THEN 0 ELSE Offset(i, s) + 1
BY RxAssumption DEF Slots, Offset, Advance

\* The slot before rx_cidx is the last one from there.
LEMMA LastSlot ==
  ASSUME NEW i \in Slots
  PROVE  /\ Advance(i, NumRxPkts - 1) \in Slots
         /\ Offset(i, Advance(i, NumRxPkts - 1)) = NumRxPkts - 1
         /\ Advance(Advance(i, 1), NumRxPkts - 1) = i
BY RxAssumption DEF Slots, Offset, Advance

-----------------------------------------------------------------------------
(* Types.                                                                   *)

Descriptors ==
  [own : BOOLEAN, eoq : BOOLEAN, pkt : Pkts \cup {Nil}, next : Slots \cup {Nil}]

\* The initial state is well-typed.
LEMMA TypeInit == Init => TypeOK
<1>. SUFFICES ASSUME Init PROVE TypeOK
  OBVIOUS
<1>1. /\ running \in BOOLEAN /\ full \in BOOLEAN /\ mutex \in BOOLEAN
      /\ eoq \in BOOLEAN /\ masked \in BOOLEAN /\ pend \in BOOLEAN
  BY Zenon DEF Init
<1>2. 0 \in Slots /\ NumRxPkts - 1 \in Slots /\ 0 \in 0 .. MaxPulses
  BY RxAssumption DEF Slots
<1>3. desc \in [Slots -> Descriptors]
  <2>1. ASSUME NEW s \in Slots
        PROVE  (IF s = NumRxPkts - 1 THEN Nil ELSE s + 1) \in Slots \cup {Nil}
    BY RxAssumption DEF Slots
  <2>. QED  BY <2>1 DEF Init, Descriptors
<1>4. Len(rxq) <= QueueMaxlen /\ rxq \in Seq(Pkts)
  BY RxAssumption DEF Init
<1>. QED  BY <1>1, <1>2, <1>3, <1>4 DEF Init, TypeOK, Descriptors

\* Giving a descriptor back to the engine keeps its type.
LEMMA RearmType ==
  ASSUME TypeOK, NEW s \in Slots, Rearm(s)
  PROVE  desc' \in [Slots -> Descriptors]
<1>0. desc \in [Slots -> Descriptors]
  BY DEF TypeOK, Descriptors
<1>1. ASSUME NEW t \in Slots  PROVE desc'[t] \in Descriptors
  <2>0. desc[t] \in Descriptors
    BY <1>0
  <2>1. CASE t = s
    <3>1. desc'[t] = [[[desc[t] EXCEPT !.own = TRUE] EXCEPT !.eoq = FALSE] EXCEPT !.pkt = Nil]
      BY <2>1, <1>0 DEF Rearm
    <3>. QED  BY <3>1, <2>0 DEF Descriptors
  <2>2. CASE t # s
    <3>1. desc'[t] = desc[t]
      BY <2>2, <1>0 DEF Rearm
    <3>. QED  BY <3>1, <2>0
  <2>. QED  BY <2>1, <2>2
<1>2. desc' = [t \in Slots |-> desc'[t]]
  BY DEF TypeOK, Rearm
<1>. QED  BY <1>1, <1>2

\* Every step keeps the types.
LEMMA TypeStep ==
  ASSUME TypeOK, OwnInv, PassInv, EngineInv, [Next]_vars
  PROVE  TypeOK'
<1>. USE DEF TypeOK
<1>a. /\ Advance(cidx, 1) \in Slots /\ InHand \in Slots
      /\ Advance(tail, 1) \in Slots
  BY AdvanceType, RxAssumption DEF InHand
<1>1. CASE UNCHANGED vars
  BY <1>1 DEF vars, chain, queue, locals, chan, engine
<1>2. CASE Isr
  <2>1. masked' \in BOOLEAN
    BY <1>2, Zenon DEF Isr
  <2>2. pulses' \in 0 .. MaxPulses
    BY <1>2, RxAssumption DEF Isr
  <2>. QED  BY <1>2, <2>1, <2>2 DEF Isr, chain, queue, locals, engine
<1>3. CASE RxPulse
  <2>1. pulses' \in 0 .. MaxPulses
    BY <1>3, RxAssumption DEF RxPulse
  <2>2. eoq' \in BOOLEAN /\ eidx' = Nil
    BY <1>3, Zenon DEF RxPulse
  <2>. QED  BY <1>3, <2>1, <2>2 DEF RxPulse, chain, queue, engine
<1>4. CASE RxDivert
  <2>1. eoq' \in BOOLEAN /\ pend' \in BOOLEAN
    BY <1>4, Zenon DEF RxDivert, Consume, Acknowledge
  <2>2. desc' \in [Slots -> Descriptors]
    BY <1>4, RearmType DEF RxDivert
  <2>. QED  BY <1>4, <1>a, <2>1, <2>2 DEF RxDivert, Consume, Descriptors, queue, engine
<1>5. CASE RxTake
  <2>1. eoq' \in BOOLEAN
    BY <1>5, Zenon DEF RxTake, Consume
  <2>. QED  BY <1>5, <1>a, <2>1 DEF RxTake, Consume, queue, chan, engine
<1>6. CASE RxEnqueue
  <2>1. pend' \in BOOLEAN
    BY <1>6, Zenon DEF RxEnqueue, Acknowledge
  <2>2. m \in Pkts
    BY <1>6 DEF RxEnqueue, OwnInv
  <2>3. rxq' \in Seq(Pkts) /\ Len(rxq') <= QueueMaxlen
    BY <1>6, <2>2, RxAssumption DEF RxEnqueue
  <2>4. desc' \in [Slots -> Descriptors]
    BY <1>6, <1>a, RearmType DEF RxEnqueue
  <2>5. running' \in BOOLEAN /\ stack' \in {"idle", "work", "enable"}
    BY <1>6, Zenon DEF RxEnqueue
  <2>. QED  BY <1>6, <1>a, <2>1, <2>3, <2>4, <2>5 DEF RxEnqueue, Descriptors, chain, engine
<1>7. CASE RxFlowCheck
  BY <1>7 DEF RxFlowCheck, chain, queue, locals, chan, engine
<1>8. CASE RxFull
  BY <1>8 DEF RxFull, chain, locals, chan, engine
<1>9. CASE RxStop
  BY <1>9 DEF RxStop, Restart, chain, queue, locals, chan
<1>10. CASE RxEmpty
  BY <1>10 DEF RxEmpty, chain, queue, locals, chan, engine
<1>11. CASE RxCut
  BY <1>11 DEF RxCut, PassInv, chain, queue, locals, chan, engine
<1>12. CASE RxLink
  BY <1>12, <1>a DEF RxLink, PassInv, queue, locals, chan, engine
<1>13. CASE RxRestart
  BY <1>13 DEF RxRestart, Restart, chain, queue, locals, chan
<1>14. CASE RxUnmask
  <2>1. masked' \in BOOLEAN
    BY <1>14, Zenon DEF RxUnmask
  <2>. QED  BY <1>14, <2>1 DEF RxUnmask, chain, queue, locals, engine
<1>15. CASE StackDequeue
  <2>1. mutex' \in BOOLEAN /\ stack' \in {"idle", "work", "enable"}
    BY <1>15, Zenon DEF StackDequeue
  <2>2. rxq' \in Seq(Pkts) /\ Len(rxq') <= QueueMaxlen
    BY <1>15, RxAssumption DEF StackDequeue
  <2>. QED  BY <1>15, <2>1, <2>2 DEF StackDequeue, chain, locals, chan, engine
<1>16. CASE StackEnable
  <2>1. masked' \in BOOLEAN /\ running' \in BOOLEAN /\ mutex' \in BOOLEAN
    BY <1>16, Zenon DEF StackEnable
  <2>. QED  BY <1>16, <2>1 DEF StackEnable, chain, locals, engine
<1>17. ASSUME NEW p \in Pkts, DmaFill(p)  PROVE TypeOK'
  BY <1>17, RxAssumption DEF DmaFill, chain, queue, locals, chan
<1>18. CASE DmaWriteBack
  <2>1. hdp \in Slots /\ frame \in Pkts
    BY <1>18 DEF DmaWriteBack, EngineInv
  <2>2. ASSUME NEW s \in Slots  PROVE desc'[s] \in Descriptors
    <3>1. CASE s = hdp
      <4>. DEFINE last == nxt = Nil
      <4>1. last \in BOOLEAN
        BY Zenon
      <4>2. desc'[s] = [desc[s] EXCEPT !.own = FALSE, !.eoq = last, !.pkt = frame]
        BY <1>18, <3>1 DEF DmaWriteBack
      <4>. HIDE DEF last
      <4>. QED  BY <2>1, <4>1, <4>2 DEF Descriptors
    <3>2. CASE s # hdp
      BY <1>18, <2>1, <3>2 DEF DmaWriteBack, Descriptors
    <3>. QED  BY <3>1, <3>2
  <2>3. desc' = [s \in Slots |-> desc'[s]]
    BY <1>18 DEF DmaWriteBack
  <2>4. pend' \in BOOLEAN
    BY <1>18, Zenon DEF DmaWriteBack
  <2>. QED  BY <1>18, <2>1, <2>2, <2>3, <2>4 DEF DmaWriteBack, Descriptors, chain, queue, locals
<1>. QED
  BY <1>1, <1>2, <1>3, <1>4, <1>5, <1>6, <1>7, <1>8, <1>9, <1>10, <1>11, <1>12,
     <1>13, <1>14, <1>15, <1>16, <1>17, <1>18
     DEF Next, RxThread, StackThread, Dma

-----------------------------------------------------------------------------
(* The ring.                                                                *)

RingInv ==
  /\ OwnInv
  /\ NextInv
  /\ EngineBehindFrames
  /\ PassInv
  /\ EngineInv
  /\ EoqInv
  /\ PendInv
  /\ StopIsNoticed

\* The initial state satisfies the invariant of the ring.
LEMMA RingInit == Init => RingInv
<1>. SUFFICES ASSUME Init PROVE RingInv
  OBVIOUS
<1>1. /\ \A s \in Slots : desc[s].own /\ ~HasFrame(s)
      /\ cidx = 0 /\ tail = NumRxPkts - 1 /\ hdp = 0 /\ frame = Nil
      /\ pc = "wait" /\ m = Nil
  BY DEF Init, HasFrame
<1>2. hdp \in Slots /\ tail \in Slots /\ hdp # Nil /\ Offset(cidx, hdp) = 0
  BY <1>1, RxAssumption DEF Slots, Offset
<1>3. OwnInv
  BY <1>1 DEF OwnInv
<1>4. NextInv
  <2>1. \A s \in Slots : desc[s].next = IF s = NumRxPkts - 1 THEN Nil ELSE s + 1
    BY DEF Init
  <2>2. ASSUME NEW s \in Slots, s # NumRxPkts - 1  PROVE Advance(s, 1) = s + 1
    BY <2>2, RxAssumption DEF Slots, Advance
  <2>. QED  BY <1>1, <2>1, <2>2 DEF NextInv
<1>5. EngineBehindFrames
  <2>1. \A s \in Slots : ~(Offset(cidx, s) < 0)
    BY <1>1, RxAssumption DEF Slots, Offset
  <2>. QED  BY <1>1, <1>2, <2>1 DEF EngineBehindFrames
<1>6. EngineInv
  BY <1>1, <1>2, OffsetType, RxAssumption DEF EngineInv
<1>. QED
  BY <1>1, <1>2, <1>3, <1>4, <1>5, <1>6
     DEF RingInv, PassInv, EoqInv, PendInv, StopIsNoticed

\* A step of the program counter alone keeps the invariant of the ring.
LEMMA RingQuiet ==
  ASSUME RingInv,
         UNCHANGED <<desc, chain, m, eidx, eoq, pend, engine>>,
         pc' = "enqueue" <=> pc = "enqueue",
         pc' = "link" <=> pc = "link",
         pc' \in {"wait", "unmask"} <=> pc \in {"wait", "unmask"},
         pc' = "cut" => pc = "cut" \/ eidx \notin {Nil, tail}
  PROVE  RingInv'
<1>1. UNCHANGED <<desc, cidx, tail, m, eidx, eoq, pend, hdp, cp, frame, nxt>>
  BY DEF chain, engine
<1>2. OwnInv'
  BY <1>1 DEF RingInv, OwnInv, HasFrame, InHand, Advance
<1>3. NextInv'
  BY <1>1 DEF RingInv, NextInv, Advance
<1>4. EngineBehindFrames'
  BY <1>1 DEF RingInv, EngineBehindFrames, HasFrame, Offset
<1>5. PassInv'
  BY <1>1 DEF RingInv, PassInv, InHand, Advance
<1>6. EngineInv'
  BY <1>1 DEF RingInv, EngineInv, Advance, Offset
<1>7. EoqInv'
  BY <1>1 DEF RingInv, EoqInv, HasFrame, Offset
<1>8. PendInv'
  BY <1>1 DEF RingInv, PendInv, HasFrame, Offset
<1>9. StopIsNoticed'
  BY <1>1 DEF RingInv, StopIsNoticed, HasFrame
<1>. QED
  BY <1>2, <1>3, <1>4, <1>5, <1>6, <1>7, <1>8, <1>9 DEF RingInv

\* The start of a pass.
LEMMA RingPulse ==
  ASSUME RingInv, RxPulse
  PROVE  RingInv'
<1>1. /\ UNCHANGED <<desc, cidx, tail, m, pend, hdp, cp, frame, nxt>>
      /\ pc = "wait" /\ pc' = "loop" /\ eidx' = Nil /\ ~eoq'
  BY DEF RxPulse, chain, engine
<1>2. OwnInv'
  BY <1>1 DEF RingInv, OwnInv, HasFrame, InHand, Advance
<1>3. NextInv'
  BY <1>1 DEF RingInv, NextInv, Advance
<1>4. EngineBehindFrames'
  BY <1>1 DEF RingInv, EngineBehindFrames, HasFrame, Offset
<1>5. PassInv'
  BY <1>1 DEF PassInv
<1>6. EngineInv'
  BY <1>1 DEF RingInv, EngineInv, Advance, Offset
<1>7. EoqInv'
  BY <1>1 DEF RingInv, EoqInv, HasFrame, Offset
<1>8. PendInv'
  BY <1>1 DEF RingInv, PendInv, HasFrame, Offset
<1>9. StopIsNoticed'
  BY <1>1 DEF RingInv, StopIsNoticed, HasFrame
<1>. QED
  BY <1>2, <1>3, <1>4, <1>5, <1>6, <1>7, <1>8, <1>9 DEF RingInv

\* What consuming the descriptor at rx_cidx does to the frames that wait and to
\* the engine, whatever becomes of the descriptor.
LEMMA Consumed ==
  ASSUME TypeOK, RingInv, Consume,
         UNCHANGED <<tail, hdp, cp, frame, nxt>>,
         desc'[cidx].pkt = Nil,
         \A s \in Slots : s # cidx => desc'[s] = desc[s],
         pc' \notin {"wait", "unmask"}
  PROVE  /\ ~desc[cidx].own /\ HasFrame(cidx) /\ m = Nil
         /\ InHand' = cidx
         /\ EngineBehindFrames'
         /\ EngineInv'
         /\ EoqInv'
         /\ StopIsNoticed'
         /\ tail = cidx => hdp = Nil
         /\ \A s \in Slots : HasFrame(s)' =>
              /\ pend /\ cp # Nil /\ cp # cidx /\ HasFrame(cp)'
              /\ Offset(cidx', s) <= Offset(cidx', cp)
<1>1. /\ pc = "loop" /\ ~desc[cidx].own
      /\ eoq' = (eoq \/ desc[cidx].eoq)
      /\ cidx' = Advance(cidx, 1)
      /\ cidx \in Slots /\ tail \in Slots
      /\ hdp # Nil => hdp \in Slots
      /\ cp # Nil => cp \in Slots
      /\ NumRxPkts \in Nat \ {0, 1}
  BY RxAssumption DEF Consume, TypeOK
<1>2. HasFrame(cidx) /\ m = Nil
  BY <1>1 DEF RingInv, OwnInv
<1>3. InHand' = cidx
  BY <1>1, LastSlot DEF InHand, Advance
<1>4. \A s \in Slots :
        /\ Offset(cidx, s) \in 0 .. NumRxPkts - 1
        /\ Offset(cidx, s) = 0 <=> s = cidx
        /\ Offset(cidx', s) = IF s = cidx THEN NumRxPkts - 1 ELSE Offset(cidx, s) - 1
  BY <1>1, OffsetType, OffsetShift
<1>5. \A s \in Slots : desc'[s].pkt # Nil <=> s # cidx /\ HasFrame(s)
  BY DEF HasFrame
<1>6. hdp # Nil => /\ hdp \in Slots /\ hdp # cidx /\ tail # cidx
                   /\ desc[hdp].own /\ desc'[hdp].own
                   /\ Offset(cidx, hdp) <= Offset(cidx, tail)
  BY <1>1, <1>4 DEF RingInv, EngineBehindFrames, EngineInv
<1>7. EngineBehindFrames'
  <2>1. ASSUME NEW s \in Slots, NEW t \in Slots,
               Offset(cidx', s) < Offset(cidx', t), desc'[t].pkt # Nil
        PROVE  desc'[s].pkt # Nil
    <3>1. t # cidx /\ HasFrame(t)
      BY <2>1, <1>5
    <3>2. s # cidx
      BY <2>1, <3>1, <1>1, <1>4
    <3>3. Offset(cidx, s) < Offset(cidx, t)
      BY <2>1, <3>1, <3>2, <1>4
    <3>. QED  BY <3>1, <3>2, <3>3, <1>5 DEF RingInv, EngineBehindFrames
  <2>2. ASSUME hdp # Nil, NEW s \in Slots, Offset(cidx', s) < Offset(cidx', hdp)
        PROVE  desc'[s].pkt # Nil
    <3>1. s # cidx
      BY <2>2, <1>1, <1>4, <1>6
    <3>2. Offset(cidx, s) < Offset(cidx, hdp)
      BY <2>2, <3>1, <1>4, <1>6
    <3>. QED  BY <2>2, <3>1, <3>2, <1>5 DEF RingInv, EngineBehindFrames
  <2>. QED  BY <1>6, <2>1, <2>2 DEF EngineBehindFrames, HasFrame, Offset
<1>8. EngineInv'
  <2>1. hdp # Nil => Offset(cidx', hdp) <= Offset(cidx', tail)
    BY <1>1, <1>4, <1>6
  <2>. QED  BY <2>1 DEF RingInv, EngineInv, Offset, Advance
<1>9. EoqInv'
  <2>1. ~eoq
    BY <1>1, <1>2 DEF RingInv, EoqInv
  <2>2. desc[cidx].eoq => hdp = Nil /\ \A t \in Slots : desc'[t].pkt = Nil
    <3>1. ASSUME desc[cidx].eoq, NEW t \in Slots, HasFrame(t)  PROVE t = cidx
      BY <3>1, <1>1, <1>2, <1>4 DEF RingInv, EoqInv
    <3>2. desc[cidx].eoq => hdp = Nil
      BY <1>1, <1>2 DEF RingInv, EoqInv
    <3>. QED  BY <3>1, <3>2, <1>5
  <2>3. ASSUME NEW s \in Slots, NEW t \in Slots, desc'[s].pkt # Nil, desc'[s].eoq
        PROVE  hdp = Nil /\ (desc'[t].pkt # Nil => Offset(cidx', t) <= Offset(cidx', s))
    <3>1. s # cidx /\ HasFrame(s) /\ desc[s].eoq
      BY <2>3, <1>5
    <3>2. hdp = Nil /\ (HasFrame(t) => Offset(cidx, t) <= Offset(cidx, s))
      BY <3>1 DEF RingInv, EoqInv
    <3>. QED  BY <3>1, <3>2, <1>4, <1>5
  <2>4. eoq' => hdp' = Nil /\ \A s \in Slots : desc'[s].pkt = Nil
    BY <1>1, <2>1, <2>2
  <2>. QED  BY <2>3, <2>4 DEF EoqInv, HasFrame, Offset
<1>10. StopIsNoticed'
  <2>1. ASSUME hdp = Nil, ~eoq'
        PROVE  \E s \in Slots : desc'[s].pkt # Nil /\ desc'[s].eoq
    <3>1. PICK s \in Slots : HasFrame(s) /\ desc[s].eoq
      BY <2>1, <1>1 DEF RingInv, StopIsNoticed
    <3>2. s # cidx
      BY <2>1, <3>1, <1>1
    <3>. QED  BY <3>1, <3>2, <1>5
  <2>. QED  BY <2>1 DEF StopIsNoticed, HasFrame
<1>11. tail = cidx => hdp = Nil
  BY <1>6
<1>12. ASSUME NEW s \in Slots, desc'[s].pkt # Nil
       PROVE  /\ pend /\ cp # Nil /\ cp # cidx /\ desc'[cp].pkt # Nil
              /\ Offset(cidx', s) <= Offset(cidx', cp)
  <2>1. s # cidx /\ HasFrame(s)
    BY <1>12, <1>5
  <2>2. pend /\ cp # Nil /\ HasFrame(cp) /\ Offset(cidx, s) <= Offset(cidx, cp)
    BY <2>1 DEF RingInv, PendInv
  <2>3. cp \in Slots /\ cp # cidx
    BY <2>1, <2>2, <1>1, <1>4
  <2>. QED  BY <2>1, <2>2, <2>3, <1>4, <1>5
<1>. QED
  BY <1>1, <1>2, <1>3, <1>7, <1>8, <1>9, <1>10, <1>11, <1>12 DEF HasFrame

\* A frame that is diverted leaves its descriptor with the engine.
LEMMA RingDivert ==
  ASSUME TypeOK, RingInv, RxDivert
  PROVE  RingInv'
<1>1. /\ Consume /\ UNCHANGED <<tail, m, hdp, cp, frame, nxt>>
      /\ pend' = (pend /\ cidx # cp)
      /\ eidx' = cidx /\ pc = "loop" /\ pc' = "flow"
  BY DEF RxDivert, Consume, Acknowledge, engine
<1>2. /\ cidx \in Slots
      /\ desc'[cidx].pkt = Nil /\ desc'[cidx].own
      /\ \A s \in Slots : s # cidx => desc'[s] = desc[s]
      /\ \A s \in Slots : desc'[s].next = desc[s].next
  BY DEF RxDivert, Rearm, TypeOK
<1>3. /\ m = Nil
      /\ InHand' = cidx
      /\ EngineBehindFrames'
      /\ EngineInv'
      /\ EoqInv'
      /\ StopIsNoticed'
      /\ \A s \in Slots : HasFrame(s)' =>
           /\ pend /\ cp # Nil /\ cp # cidx /\ HasFrame(cp)'
           /\ Offset(cidx', s) <= Offset(cidx', cp)
  BY <1>1, <1>2, Consumed
<1>4. OwnInv'
  <2>1. \A s \in Slots : desc[s].own <=> ~HasFrame(s)
    BY <1>1 DEF RingInv, OwnInv
  <2>2. \A s \in Slots : desc'[s].own <=> desc'[s].pkt = Nil
    BY <1>2, <2>1 DEF HasFrame
  <2>. QED  BY <1>1, <1>3, <2>2 DEF OwnInv, HasFrame
<1>5. NextInv'
  BY <1>1, <1>2 DEF RingInv, NextInv, Advance
<1>6. PassInv'
  BY <1>1, <1>3 DEF PassInv
<1>7. PendInv'
  BY <1>1, <1>3 DEF PendInv, Offset, HasFrame
<1>. QED
  BY <1>3, <1>4, <1>5, <1>6, <1>7 DEF RingInv

\* A frame that is taken leaves its descriptor in the hands of the thread.
LEMMA RingTake ==
  ASSUME TypeOK, RingInv, RxTake
  PROVE  RingInv'
<1>1. /\ Consume /\ UNCHANGED <<tail, eidx, pend, hdp, cp, frame, nxt>>
      /\ m' = desc[cidx].pkt
      /\ pc = "loop" /\ pc' = "enqueue"
  BY DEF RxTake, Consume, chan, engine
<1>2. /\ cidx \in Slots
      /\ desc'[cidx].pkt = Nil /\ desc'[cidx].own = desc[cidx].own
      /\ \A s \in Slots : s # cidx => desc'[s] = desc[s]
      /\ \A s \in Slots : desc'[s].next = desc[s].next
  BY DEF RxTake, TypeOK
<1>3. /\ ~desc[cidx].own /\ HasFrame(cidx)
      /\ InHand' = cidx
      /\ EngineBehindFrames'
      /\ EngineInv'
      /\ EoqInv'
      /\ StopIsNoticed'
      /\ tail = cidx => hdp = Nil
      /\ \A s \in Slots : HasFrame(s)' =>
           /\ pend /\ cp # Nil /\ cp # cidx /\ HasFrame(cp)'
           /\ Offset(cidx', s) <= Offset(cidx', cp)
  BY <1>1, <1>2, Consumed
<1>4. OwnInv'
  <2>1. \A s \in Slots : desc[s].own <=> ~HasFrame(s)
    BY <1>1 DEF RingInv, OwnInv
  <2>2. \A s \in Slots : s # cidx => (desc'[s].own <=> desc'[s].pkt = Nil)
    BY <1>2, <2>1 DEF HasFrame
  <2>3. m' # Nil
    BY <1>1, <1>3 DEF HasFrame
  <2>. QED  BY <1>1, <1>2, <1>3, <2>2, <2>3 DEF OwnInv, HasFrame
<1>5. NextInv'
  BY <1>1, <1>2 DEF RingInv, NextInv, Advance
<1>6. PassInv'
  BY <1>1, <1>3 DEF PassInv
<1>7. PendInv'
  BY <1>1, <1>3 DEF PendInv, Offset, HasFrame
<1>. QED
  BY <1>3, <1>4, <1>5, <1>6, <1>7 DEF RingInv

\* The descriptor in hand goes back to the engine.
LEMMA RingEnqueue ==
  ASSUME TypeOK, RingInv, RxEnqueue
  PROVE  RingInv'
<1>1. /\ UNCHANGED <<cidx, tail, eoq, hdp, cp, frame, nxt>>
      /\ pend' = (pend /\ InHand # cp)
      /\ m' = Nil /\ eidx' = InHand /\ pc = "enqueue" /\ pc' = "flow"
  BY DEF RxEnqueue, Acknowledge, chain, engine
<1>2. InHand \in Slots /\ ~HasFrame(InHand) /\ InHand' = InHand
  BY <1>1, LastSlot DEF TypeOK, RingInv, OwnInv, InHand, Advance
<1>3. /\ desc'[InHand].own /\ desc'[InHand].pkt = Nil
      /\ \A s \in Slots : s # InHand => desc'[s] = desc[s]
      /\ \A s \in Slots : desc'[s].next = desc[s].next
  BY <1>2 DEF RxEnqueue, Rearm, TypeOK
<1>4. \A s \in Slots : desc'[s].pkt # Nil <=> HasFrame(s)
  BY <1>2, <1>3 DEF HasFrame
<1>5. OwnInv'
  <2>1. \A s \in Slots : desc'[s].own <=> desc'[s].pkt = Nil
    BY <1>1, <1>2, <1>3 DEF RingInv, OwnInv, HasFrame
  <2>. QED  BY <1>1, <2>1 DEF OwnInv, HasFrame
<1>6. NextInv'
  BY <1>1, <1>3 DEF RingInv, NextInv, Advance
<1>7. EngineBehindFrames'
  <2>1. hdp # Nil => hdp \in Slots /\ desc'[hdp].own
    BY <1>3 DEF RingInv, EngineBehindFrames, TypeOK
  <2>. QED  BY <1>1, <1>4, <2>1 DEF RingInv, EngineBehindFrames, HasFrame, Offset
<1>8. PassInv'
  BY <1>1, <1>2 DEF PassInv
<1>9. EngineInv'
  BY <1>1 DEF RingInv, EngineInv, Advance, Offset
<1>10. EoqInv'
  <2>1. \A s \in Slots : desc'[s].pkt # Nil => desc'[s] = desc[s]
    BY <1>3
  <2>. QED  BY <1>1, <1>4, <2>1 DEF RingInv, EoqInv, HasFrame, Offset
<1>11. PendInv'
  <2>1. ASSUME NEW s \in Slots, HasFrame(s)
        PROVE  /\ pend' /\ cp # Nil /\ desc'[cp].pkt # Nil
               /\ Offset(cidx, s) <= Offset(cidx, cp)
    BY <1>1, <1>2, <1>4, <2>1 DEF RingInv, PendInv, TypeOK
  <2>. QED  BY <1>1, <1>4, <2>1 DEF PendInv, HasFrame, Offset
<1>12. StopIsNoticed'
  <2>1. \A s \in Slots : HasFrame(s) => desc'[s] = desc[s]
    BY <1>2, <1>3
  <2>. QED  BY <1>1, <1>4, <2>1 DEF RingInv, StopIsNoticed, HasFrame
<1>. QED
  BY <1>5, <1>6, <1>7, <1>8, <1>9, <1>10, <1>11, <1>12 DEF RingInv

\* The engine that has stopped is started again at rx_cidx.
LEMMA RingRestart ==
  ASSUME TypeOK, RingInv, RxStop \/ RxRestart
  PROVE  RingInv'
<1>1. /\ UNCHANGED <<desc, cidx, tail, m, eidx, eoq, pend, cp, frame, nxt>>
      /\ hdp' = IF eoq THEN cidx ELSE hdp
      /\ pc \in {"stop", "restart"} /\ pc' \in {"wait", "unmask"}
  BY DEF RxStop, RxRestart, Restart, chain, locals, chan
<1>2. CASE ~eoq
  <2>1. hdp' = hdp
    BY <1>1, <1>2
  <2>2. OwnInv'
    BY <1>1 DEF RingInv, OwnInv, HasFrame, InHand, Advance
  <2>3. NextInv'
    BY <1>1 DEF RingInv, NextInv, Advance
  <2>4. EngineBehindFrames'
    BY <1>1, <2>1 DEF RingInv, EngineBehindFrames, HasFrame, Offset
  <2>5. PassInv'
    BY <1>1 DEF PassInv
  <2>6. EngineInv'
    BY <1>1, <2>1 DEF RingInv, EngineInv, Advance, Offset
  <2>7. EoqInv'
    BY <1>1, <1>2, <2>1 DEF RingInv, EoqInv, HasFrame, Offset
  <2>8. PendInv'
    BY <1>1 DEF RingInv, PendInv, HasFrame, Offset
  <2>9. StopIsNoticed'
    BY <1>1, <1>2, <2>1 DEF RingInv, StopIsNoticed, HasFrame
  <2>. QED
    BY <2>2, <2>3, <2>4, <2>5, <2>6, <2>7, <2>8, <2>9 DEF RingInv
<1>3. CASE eoq
  <2>1. hdp = Nil /\ frame = Nil /\ \A s \in Slots : ~HasFrame(s)
    BY <1>1, <1>3 DEF RingInv, EoqInv, EngineInv
  <2>2. /\ cidx \in Slots /\ tail \in Slots /\ cidx # Nil /\ hdp' = cidx
        /\ desc[cidx].own
        /\ \A s \in Slots : desc'[s].pkt = Nil
    BY <1>1, <1>3, <2>1, RxAssumption
       DEF RingInv, OwnInv, TypeOK, HasFrame, Slots
  <2>3. /\ Offset(cidx, cidx) = 0
        /\ \A s \in Slots : Offset(cidx, s) \in Nat
    BY <2>2, OffsetType, RxAssumption
  <2>4. OwnInv'
    BY <1>1 DEF RingInv, OwnInv, HasFrame, InHand, Advance
  <2>5. NextInv'
    BY <1>1 DEF RingInv, NextInv, Advance
  <2>6. EngineBehindFrames'
    <3>1. \A s \in Slots : ~(Offset(cidx, s) < Offset(cidx, cidx))
      BY <2>3
    <3>. QED  BY <1>1, <2>2, <3>1 DEF EngineBehindFrames, HasFrame, Offset
  <2>7. PassInv'
    BY <1>1 DEF PassInv
  <2>8. EngineInv'
    <3>1. Offset(cidx, cidx) <= Offset(cidx, tail)
      BY <2>2, <2>3
    <3>. QED  BY <1>1, <2>1, <2>2, <3>1 DEF EngineInv, Offset
  <2>9. EoqInv'
    BY <1>1, <2>2 DEF EoqInv, HasFrame
  <2>10. PendInv'
    BY <2>2 DEF PendInv, HasFrame
  <2>11. StopIsNoticed'
    BY <2>2 DEF StopIsNoticed
  <2>. QED
    BY <2>4, <2>5, <2>6, <2>7, <2>8, <2>9, <2>10, <2>11 DEF RingInv
<1>. QED  BY <1>2, <1>3

\* The new chain is cut off at its end.
LEMMA RingCut ==
  ASSUME TypeOK, RingInv, RxCut
  PROVE  RingInv'
<1>1. /\ UNCHANGED <<cidx, tail, m, eidx, eoq, pend, hdp, cp, frame, nxt>>
      /\ pc = "cut" /\ pc' = "link"
  BY DEF RxCut, chain, locals, chan, engine
<1>2. eidx \in Slots /\ eidx \notin {Nil, tail} /\ eidx = InHand
  BY <1>1 DEF RingInv, PassInv, TypeOK
<1>3. \A s \in Slots :
        /\ desc'[s].own = desc[s].own /\ desc'[s].eoq = desc[s].eoq
        /\ desc'[s].pkt = desc[s].pkt
        /\ desc'[s].next = IF s = eidx THEN Nil ELSE desc[s].next
  BY <1>2 DEF RxCut, TypeOK
<1>4. OwnInv'
  BY <1>1, <1>3 DEF RingInv, OwnInv, HasFrame
<1>5. NextInv'
  <2>1. \A s \in Slots :
          desc'[s].next = IF s = tail \/ s = eidx THEN Nil ELSE Advance(s, 1)
    BY <1>1, <1>3 DEF RingInv, NextInv
  <2>. QED  BY <1>1, <2>1 DEF NextInv, Advance
<1>6. EngineBehindFrames'
  <2>1. hdp # Nil => hdp \in Slots /\ desc'[hdp].own
    BY <1>3 DEF RingInv, EngineBehindFrames, TypeOK
  <2>. QED  BY <1>1, <1>3, <2>1 DEF RingInv, EngineBehindFrames, HasFrame, Offset
<1>7. PassInv'
  BY <1>1, <1>2 DEF PassInv, InHand, Advance
<1>8. EngineInv'
  BY <1>1 DEF RingInv, EngineInv, Advance, Offset
<1>9. EoqInv'
  BY <1>1, <1>3 DEF RingInv, EoqInv, HasFrame, Offset
<1>10. PendInv'
  BY <1>1, <1>3 DEF RingInv, PendInv, TypeOK, HasFrame, Offset
<1>11. StopIsNoticed'
  BY <1>1, <1>3 DEF RingInv, StopIsNoticed, HasFrame
<1>. QED
  BY <1>4, <1>5, <1>6, <1>7, <1>8, <1>9, <1>10, <1>11 DEF RingInv

\* The new chain is linked behind the tail.
LEMMA RingLink ==
  ASSUME TypeOK, RingInv, RxLink
  PROVE  RingInv'
<1>1. /\ UNCHANGED <<cidx, m, eidx, eoq, pend, hdp, cp, frame, nxt>>
      /\ tail' = eidx
      /\ pc = "link" /\ pc' = "restart"
  BY DEF RxLink, locals, chan, engine
<1>2. /\ eidx \in Slots /\ eidx \notin {Nil, tail} /\ eidx = InHand
      /\ cidx \in Slots /\ tail \in Slots
  BY <1>1 DEF RingInv, PassInv, TypeOK
<1>3. \A s \in Slots :
        /\ desc'[s].own = desc[s].own /\ desc'[s].eoq = desc[s].eoq
        /\ desc'[s].pkt = desc[s].pkt
        /\ desc'[s].next = IF s = tail THEN Advance(tail, 1) ELSE desc[s].next
  BY <1>2 DEF RxLink, TypeOK
<1>4. OwnInv'
  BY <1>1, <1>3 DEF RingInv, OwnInv, HasFrame
<1>5. NextInv'
  <2>1. \A s \in Slots :
          desc'[s].next = IF s = eidx THEN Nil ELSE Advance(s, 1)
    BY <1>1, <1>2, <1>3 DEF RingInv, NextInv
  <2>. QED  BY <1>1, <2>1 DEF NextInv, Advance
<1>6. EngineBehindFrames'
  <2>1. hdp # Nil => hdp \in Slots /\ desc'[hdp].own
    BY <1>3 DEF RingInv, EngineBehindFrames, TypeOK
  <2>. QED  BY <1>1, <1>3, <2>1 DEF RingInv, EngineBehindFrames, HasFrame, Offset
<1>7. PassInv'
  BY <1>1, <1>2 DEF PassInv, InHand, Advance
<1>8. EngineInv'
  <2>1. ASSUME hdp # Nil
        PROVE  Offset(cidx, hdp) <= Offset(cidx, eidx) /\ hdp # eidx
    <3>1. /\ Offset(cidx, eidx) = NumRxPkts - 1
          /\ Offset(cidx, tail) \in 0 .. NumRxPkts - 1
          /\ hdp \in Slots /\ Offset(cidx, hdp) <= Offset(cidx, tail)
          /\ Offset(cidx, hdp) \in 0 .. NumRxPkts - 1
      BY <1>2, <2>1, LastSlot, OffsetType DEF RingInv, EngineInv, TypeOK, InHand
    <3>2. Offset(cidx, tail) # NumRxPkts - 1
      BY <1>2, <3>1, OffsetInjective
    <3>. QED  BY <3>1, <3>2, RxAssumption
  <2>. QED  BY <1>1, <2>1 DEF RingInv, EngineInv, Advance, Offset
<1>9. EoqInv'
  BY <1>1, <1>3 DEF RingInv, EoqInv, HasFrame, Offset
<1>10. PendInv'
  BY <1>1, <1>3 DEF RingInv, PendInv, TypeOK, HasFrame, Offset
<1>11. StopIsNoticed'
  BY <1>1, <1>3 DEF RingInv, StopIsNoticed, HasFrame
<1>. QED
  BY <1>4, <1>5, <1>6, <1>7, <1>8, <1>9, <1>10, <1>11 DEF RingInv

\* The engine begins a frame and latches the next pointer.
LEMMA RingFill ==
  ASSUME TypeOK, RingInv, NEW p \in Pkts, DmaFill(p)
  PROVE  RingInv'
<1>1. /\ UNCHANGED <<desc, cidx, tail, m, eidx, eoq, pend, pc, hdp, cp>>
      /\ hdp # Nil /\ nxt' = desc[hdp].next
  BY DEF DmaFill, chain, locals, chan
<1>2. OwnInv'
  BY <1>1 DEF RingInv, OwnInv, HasFrame, InHand, Advance
<1>3. NextInv'
  BY <1>1 DEF RingInv, NextInv, Advance
<1>4. EngineBehindFrames'
  BY <1>1 DEF RingInv, EngineBehindFrames, HasFrame, Offset
<1>5. PassInv'
  BY <1>1 DEF RingInv, PassInv, InHand, Advance
<1>6. EngineInv'
  <2>1. nxt' # Nil => nxt' = Advance(hdp, 1) /\ hdp # tail
    BY <1>1 DEF RingInv, NextInv, TypeOK
  <2>. QED  BY <1>1, <2>1 DEF RingInv, EngineInv, Advance, Offset
<1>7. EoqInv'
  BY <1>1 DEF RingInv, EoqInv, HasFrame, Offset
<1>8. PendInv'
  BY <1>1 DEF RingInv, PendInv, HasFrame, Offset
<1>9. StopIsNoticed'
  BY <1>1 DEF RingInv, StopIsNoticed, HasFrame
<1>. QED
  BY <1>2, <1>3, <1>4, <1>5, <1>6, <1>7, <1>8, <1>9 DEF RingInv

\* The engine writes a frame back and goes on, or stops.
LEMMA RingWriteBack ==
  ASSUME TypeOK, RingInv, DmaWriteBack
  PROVE  RingInv'
<1>1. /\ UNCHANGED <<cidx, tail, m, eidx, eoq, pc>>
      /\ hdp' = nxt /\ cp' = hdp /\ pend' /\ frame' = Nil
      /\ frame # Nil
  BY DEF DmaWriteBack, chain, queue, locals
<1>2. /\ hdp # Nil /\ hdp \in Slots /\ cidx \in Slots /\ tail \in Slots
      /\ desc[hdp].own
      /\ nxt # Nil => nxt \in Slots /\ nxt = Advance(hdp, 1) /\ hdp # tail
      /\ Offset(cidx, hdp) <= Offset(cidx, tail)
  BY <1>1 DEF RingInv, EngineInv, EngineBehindFrames, TypeOK
<1>3. /\ ~desc'[hdp].own /\ desc'[hdp].pkt = frame
      /\ desc'[hdp].eoq <=> nxt = Nil
      /\ \A s \in Slots : s # hdp => desc'[s] = desc[s]
      /\ \A s \in Slots : desc'[s].next = desc[s].next
  BY <1>2 DEF DmaWriteBack, TypeOK
<1>4. ~HasFrame(hdp) /\ (pc = "enqueue" => hdp # InHand /\ tail # InHand)
  BY <1>2 DEF RingInv, OwnInv, PassInv
<1>5. \A s \in Slots : desc'[s].pkt # Nil <=> s = hdp \/ HasFrame(s)
  BY <1>1, <1>2, <1>3 DEF HasFrame
<1>6. \A s \in Slots :
        /\ Offset(cidx, s) \in 0 .. NumRxPkts - 1
        /\ Offset(cidx, s) < Offset(cidx, hdp) => HasFrame(s)
        /\ Offset(cidx, s) = Offset(cidx, hdp) => s = hdp
        /\ Offset(cidx, s) = Offset(cidx, tail) => s = tail
        /\ HasFrame(s) => Offset(cidx, s) < Offset(cidx, hdp)
  <2>1. ASSUME NEW s \in Slots  PROVE Offset(cidx, s) \in 0 .. NumRxPkts - 1
    BY <1>2, OffsetType
  <2>2. ASSUME NEW s \in Slots, Offset(cidx, s) < Offset(cidx, hdp)  PROVE HasFrame(s)
    BY <1>2, <2>2 DEF RingInv, EngineBehindFrames
  <2>3. ASSUME NEW s \in Slots
        PROVE  /\ Offset(cidx, s) = Offset(cidx, hdp) => s = hdp
               /\ Offset(cidx, s) = Offset(cidx, tail) => s = tail
    BY <1>2, OffsetInjective
  <2>4. ASSUME NEW s \in Slots, HasFrame(s)  PROVE Offset(cidx, s) < Offset(cidx, hdp)
    <3>1. ~(Offset(cidx, hdp) < Offset(cidx, s))
      BY <1>2, <1>4, <2>4 DEF RingInv, EngineBehindFrames
    <3>2. s # hdp
      BY <1>4, <2>4
    <3>. QED  BY <1>2, <2>1, <2>3, <3>1, <3>2, RxAssumption
  <2>. QED  BY <2>1, <2>2, <2>3, <2>4
<1>7. ASSUME nxt # Nil
      PROVE  /\ Offset(cidx, nxt) = Offset(cidx, hdp) + 1
             /\ Offset(cidx, nxt) <= Offset(cidx, tail)
             /\ desc'[nxt].own
  <2>1. Offset(cidx, hdp) < Offset(cidx, tail)
    BY <1>2, <1>6, <1>7, RxAssumption
  <2>2. Offset(cidx, nxt) = Offset(cidx, hdp) + 1
    BY <1>2, <1>6, <1>7, <2>1, OffsetNext, RxAssumption
  <2>3. nxt \in Slots /\ nxt # hdp /\ ~HasFrame(nxt)
    BY <1>2, <1>6, <1>7, <2>2, RxAssumption
  <2>4. pc = "enqueue" => nxt # InHand
    <3>1. SUFFICES ASSUME pc = "enqueue", nxt = InHand  PROVE FALSE
      OBVIOUS
    <3>2. Offset(cidx, nxt) = NumRxPkts - 1
      BY <1>2, <3>1, LastSlot DEF InHand
    <3>3. Offset(cidx, tail) = Offset(cidx, nxt)
      BY <1>2, <1>6, <2>1, <2>2, <3>2, RxAssumption
    <3>. QED  BY <1>2, <1>4, <1>6, <2>3, <3>1, <3>3
  <2>5. desc[nxt].own
    BY <2>3, <2>4 DEF RingInv, OwnInv
  <2>. QED  BY <1>2, <1>3, <1>6, <2>1, <2>2, <2>3, <2>5, RxAssumption
<1>8. OwnInv'
  <2>1. \A s \in Slots :
          IF pc = "enqueue" /\ s = InHand
            THEN ~desc'[s].own /\ desc'[s].pkt = Nil
            ELSE desc'[s].own <=> desc'[s].pkt = Nil
    BY <1>1, <1>2, <1>3, <1>4, <1>5 DEF RingInv, OwnInv, HasFrame
  <2>2. m # Nil <=> pc = "enqueue"
    BY DEF RingInv, OwnInv
  <2>. QED  BY <1>1, <2>1, <2>2 DEF OwnInv, HasFrame, InHand, Advance
<1>9. NextInv'
  BY <1>1, <1>3 DEF RingInv, NextInv, Advance
<1>10. EngineBehindFrames'
  <2>1. ASSUME NEW s \in Slots, NEW t \in Slots,
               Offset(cidx, s) < Offset(cidx, t), desc'[t].pkt # Nil
        PROVE  desc'[s].pkt # Nil
    BY <1>5, <2>1 , <1>2, <1>6 DEF RingInv, EngineBehindFrames
  <2>2. ASSUME nxt # Nil, NEW s \in Slots, Offset(cidx, s) < Offset(cidx, nxt)
        PROVE  desc'[s].pkt # Nil
    <3>1. Offset(cidx, s) <= Offset(cidx, hdp)
      BY <1>2, <1>6, <1>7, <2>2, RxAssumption
    <3>. QED  BY <1>2, <1>5, <1>6, <3>1, RxAssumption
  <2>. QED  BY <1>1, <1>7, <2>1, <2>2 DEF EngineBehindFrames, HasFrame, Offset
<1>11. PassInv'
  BY <1>1, <1>4 DEF RingInv, PassInv, InHand, Advance
<1>12. EngineInv'
  BY <1>1, <1>7 DEF EngineInv, Offset
<1>13. EoqInv'
  <2>1. ~(eoq /\ pc \notin {"wait", "unmask"})
    BY <1>2 DEF RingInv, EoqInv
  <2>2. ASSUME NEW s \in Slots, NEW t \in Slots, desc'[s].pkt # Nil, desc'[s].eoq
        PROVE  nxt = Nil /\ (desc'[t].pkt # Nil => Offset(cidx, t) <= Offset(cidx, s))
    <3>1. s = hdp
      BY <1>2, <1>3, <1>5, <2>2 DEF RingInv, EoqInv
    <3>. QED  BY <1>2, <1>3, <1>5, <1>6, <2>2, <3>1, RxAssumption
  <2>. QED  BY <1>1, <2>1, <2>2 DEF EoqInv, HasFrame, Offset
<1>14. PendInv'
  <2>1. ASSUME NEW s \in Slots, desc'[s].pkt # Nil
        PROVE  Offset(cidx, s) <= Offset(cidx, hdp)
    BY <1>2, <1>5, <1>6, <2>1, RxAssumption
  <2>. QED  BY <1>1, <1>2, <1>5, <2>1 DEF PendInv, HasFrame, Offset
<1>15. StopIsNoticed'
  BY <1>1, <1>2, <1>3, <1>5 DEF StopIsNoticed, HasFrame
<1>. QED
  BY <1>8, <1>9, <1>10, <1>11, <1>12, <1>13, <1>14, <1>15 DEF RingInv

\* Every step keeps the invariant of the ring.
LEMMA RingStep ==
  ASSUME TypeOK, RingInv, [Next]_vars
  PROVE  RingInv'
<1>1. CASE UNCHANGED vars
  <2>1. /\ UNCHANGED <<desc, chain, m, eidx, eoq, pend, engine>>
        /\ pc' = pc
    BY <1>1 DEF vars, locals, chan
  <2>. QED  BY <2>1, RingQuiet DEF RingInv, PassInv
<1>2. CASE Isr \/ RxUnmask \/ StackDequeue \/ StackEnable
  <2>1. /\ UNCHANGED <<desc, chain, m, eidx, eoq, pend, engine>>
        /\ pc' = pc \/ (pc = "unmask" /\ pc' = "wait")
    BY <1>2 DEF Isr, RxUnmask, StackDequeue, StackEnable, locals, chan
  <2>. QED  BY <2>1, RingQuiet DEF RingInv, PassInv
<1>3. CASE RxFlowCheck \/ RxFull \/ RxEmpty
  <2>1. /\ UNCHANGED <<desc, chain, m, eidx, eoq, pend, engine>>
        /\ pc \in {"flow", "full", "loop"}
        /\ pc' \in {"loop", "full", "stop", "cut", "restart"}
        /\ pc' = "cut" => eidx \notin {Nil, tail}
    BY <1>3 DEF RxFlowCheck, RxFull, RxEmpty, locals, chan
  <2>. QED  BY <2>1, RingQuiet
<1>4. CASE RxPulse
  BY <1>4, RingPulse
<1>5. CASE RxDivert
  BY <1>5, RingDivert
<1>6. CASE RxTake
  BY <1>6, RingTake
<1>7. CASE RxEnqueue
  BY <1>7, RingEnqueue
<1>8. CASE RxStop \/ RxRestart
  BY <1>8, RingRestart
<1>9. CASE RxCut
  BY <1>9, RingCut
<1>10. CASE RxLink
  BY <1>10, RingLink
<1>11. ASSUME NEW p \in Pkts, DmaFill(p)  PROVE RingInv'
  BY <1>11, RingFill
<1>12. CASE DmaWriteBack
  BY <1>12, RingWriteBack
<1>. QED
  BY <1>1, <1>2, <1>3, <1>4, <1>5, <1>6, <1>7, <1>8, <1>9, <1>10, <1>11, <1>12
     DEF Next, RxThread, StackThread, Dma

-----------------------------------------------------------------------------
(* The threads.                                                             *)

\* Every step keeps a stack thread on a queue that is not empty.
LEMMA WorkStep ==
  ASSUME TypeOK, WorkInv, [Next]_vars
  PROVE  WorkInv'
<1>. USE DEF WorkInv, QueueIsServed
<1>1. CASE RxEnqueue
  <2>1. ~mutex /\ UNCHANGED mutex /\ running' /\ stack' = IF running THEN stack ELSE "work"
    BY <1>1, Zenon DEF RxEnqueue
  <2>. QED  BY <2>1 DEF TypeOK
<1>2. CASE StackDequeue
  <2>1. CASE rxq # <<>>
    BY <1>2, <2>1 DEF StackDequeue
  <2>2. CASE rxq = <<>>
    <3>1. mutex' /\ stack' = "enable" /\ UNCHANGED <<rxq, running>> /\ stack = "work"
      BY <1>2, <2>2, Zenon DEF StackDequeue
    <3>. QED  BY <2>2, <3>1
  <2>. QED  BY <2>1, <2>2
<1>3. CASE StackEnable
  <2>1. ~running' /\ ~mutex' /\ stack' = "idle" /\ UNCHANGED rxq /\ stack = "enable"
    BY <1>3, Zenon DEF StackEnable
  <2>. QED  BY <2>1
<1>4. CASE \/ Isr \/ RxPulse \/ RxDivert \/ RxTake \/ RxFlowCheck \/ RxFull \/ RxStop
           \/ RxEmpty \/ RxCut \/ RxLink \/ RxRestart \/ RxUnmask \/ Dma \/ UNCHANGED vars
  <2>1. UNCHANGED <<rxq, running, mutex, stack>>
    BY <1>4 DEF Isr, RxPulse, RxDivert, RxTake, RxFlowCheck, RxFull, RxStop, RxEmpty,
                RxCut, RxLink, RxRestart, RxUnmask, Dma, DmaFill, DmaWriteBack, vars, queue
  <2>. QED  BY <2>1
<1>. QED
  BY <1>1, <1>2, <1>3, <1>4 DEF Next, RxThread, StackThread

\* Every step keeps the balance of mask, pulse and pass.
LEMMA PulseStep ==
  ASSUME TypeOK, PulseInv, [Next]_vars
  PROVE  PulseInv'
<1>. SUFFICES ASSUME ~FlowControl
     PROVE  /\ ~full' /\ pc' \notin {"full", "stop"}
            /\ pulses' = IF masked' /\ pc' = "wait" THEN 1 ELSE 0
            /\ pc' # "wait" => masked'
  BY DEF PulseInv
<1>0. /\ ~full /\ pc \notin {"full", "stop"}
      /\ pulses = IF masked /\ pc = "wait" THEN 1 ELSE 0
      /\ pc # "wait" => masked
  BY DEF PulseInv
<1>1. CASE Isr
  <2>1. ~masked /\ masked' /\ pulses' = pulses + 1 /\ UNCHANGED <<full, pc>>
    BY <1>1, Zenon DEF Isr, queue
  <2>. QED  BY <1>0, <2>1
<1>2. CASE RxPulse
  BY <1>0, <1>2 DEF RxPulse, queue
<1>3. CASE RxUnmask
  <2>1. ~masked' /\ pc = "unmask" /\ pc' = "wait" /\ UNCHANGED <<full, pulses>>
    BY <1>3, Zenon DEF RxUnmask, queue
  <2>. QED  BY <1>0, <2>1
<1>4. CASE StackEnable
  <2>1. (masked' <=> masked) /\ UNCHANGED <<full, pc, pulses>>
    BY <1>0, <1>4, Zenon DEF StackEnable
  <2>. QED  BY <1>0, <2>1
<1>5. CASE RxDivert \/ RxTake \/ RxEnqueue \/ RxFlowCheck \/ RxEmpty \/ RxCut \/ RxLink \/ RxRestart
  <2>1. /\ UNCHANGED <<full, masked, pulses>>
        /\ pc # "wait" /\ pc' \notin {"wait", "full", "stop"}
    BY <1>5 DEF RxDivert, RxTake, Consume, RxEnqueue, RxFlowCheck, RxEmpty, RxCut, RxLink,
                RxRestart, queue, chan
  <2>. QED  BY <1>0, <2>1
<1>6. CASE StackDequeue \/ Dma \/ UNCHANGED vars
  <2>1. UNCHANGED <<full, masked, pulses, pc>>
    BY <1>6 DEF StackDequeue, Dma, DmaFill, DmaWriteBack, vars, queue, chan
  <2>. QED  BY <1>0, <2>1
<1>7. ~RxFull /\ ~RxStop
  BY <1>0 DEF RxFull, RxStop
<1>. QED
  BY <1>1, <1>2, <1>3, <1>4, <1>5, <1>6, <1>7 DEF Next, RxThread, StackThread

\* Every step keeps the frame of the engine out of the ring and the queues.
LEMMA FrameStep ==
  ASSUME TypeOK, OwnInv, FrameInv, [Next]_vars
  PROVE  FrameInv'
<1>. SUFFICES ASSUME frame' # Nil
     PROVE  /\ frame' # m'
            /\ \A s \in Slots : desc'[s].pkt # frame'
            /\ \A i \in 1 .. Len(rxq') : rxq'[i] # frame'
  BY DEF FrameInv
<1>1. ASSUME NEW p \in Pkts, DmaFill(p)
      PROVE  /\ frame' # m'
             /\ \A s \in Slots : desc'[s].pkt # frame'
             /\ \A i \in 1 .. Len(rxq') : rxq'[i] # frame'
  BY <1>1 DEF DmaFill, Unused, queue, locals
<1>2. ~DmaWriteBack
  BY DEF DmaWriteBack
<1>. SUFFICES ASSUME ~DmaWriteBack, \A p \in Pkts : ~DmaFill(p)
     PROVE  /\ frame' # m'
            /\ \A s \in Slots : desc'[s].pkt # frame'
            /\ \A i \in 1 .. Len(rxq') : rxq'[i] # frame'
  BY <1>1, <1>2
<1>3. frame' = frame
  BY DEF Next, Isr, RxThread, RxPulse, RxDivert, RxTake, RxEnqueue, RxFlowCheck, RxFull,
         RxStop, RxEmpty, RxCut, RxLink, RxRestart, RxUnmask, StackThread, StackDequeue,
         StackEnable, Dma, vars, engine
<1>4. /\ frame # m /\ \A s \in Slots : desc[s].pkt # frame
      /\ \A i \in 1 .. Len(rxq) : rxq[i] # frame
  BY <1>3 DEF FrameInv
<1>5. CASE RxTake
  BY <1>3, <1>4, <1>5 DEF RxTake, Consume, TypeOK, queue
<1>6. CASE RxDivert
  BY <1>3, <1>4, <1>6 DEF RxDivert, Consume, Rearm, TypeOK, queue
<1>7. CASE RxEnqueue
  <2>1. \A s \in Slots : desc'[s].pkt \in {Nil, desc[s].pkt}
    BY <1>7 DEF RxEnqueue, Rearm, TypeOK
  <2>2. \A i \in 1 .. Len(rxq') : rxq'[i] # frame
    <3>1. CASE rxq' = rxq
      BY <1>4, <3>1
    <3>2. CASE rxq' = Append(rxq, m) /\ m \in Pkts
      <4>1. \A i \in 1 .. Len(rxq) + 1 : rxq'[i] = IF i <= Len(rxq) THEN rxq[i] ELSE m
        BY <3>2 DEF TypeOK
      <4>. QED  BY <1>4, <3>2, <4>1 DEF TypeOK
    <3>. QED  BY <1>7, <3>1, <3>2 DEF RxEnqueue, OwnInv, TypeOK
  <2>. QED  BY <1>3, <1>4, <1>7, <2>1, <2>2 DEF RxEnqueue
<1>8. CASE StackDequeue
  <2>1. \A i \in 1 .. Len(rxq') : rxq'[i] # frame
    <3>1. CASE rxq' = rxq
      BY <1>4, <3>1
    <3>2. CASE rxq # <<>> /\ rxq' = Tail(rxq)
      <4>1. /\ Len(rxq') = Len(rxq) - 1 /\ Len(rxq) \in Nat
            /\ \A i \in 1 .. Len(rxq) - 1 : rxq'[i] = rxq[i + 1]
        BY <3>2, HeadTailProperties DEF TypeOK
      <4>. QED  BY <1>4, <4>1
    <3>. QED  BY <1>8, <3>1, <3>2 DEF StackDequeue
  <2>. QED  BY <1>3, <1>4, <1>8, <2>1 DEF StackDequeue, locals
<1>9. CASE RxCut \/ RxLink
  <2>1. \A s \in Slots : desc'[s].pkt = desc[s].pkt
    BY <1>9 DEF RxCut, RxLink, TypeOK
  <2>. QED  BY <1>3, <1>4, <1>9, <2>1 DEF RxCut, RxLink, queue, locals
<1>10. CASE \/ Isr \/ RxPulse \/ RxFlowCheck \/ RxFull \/ RxStop \/ RxEmpty \/ RxRestart
            \/ RxUnmask \/ StackEnable \/ UNCHANGED vars
  <2>1. UNCHANGED <<desc, m, rxq>>
    BY <1>10 DEF Isr, RxPulse, RxFlowCheck, RxFull, RxStop, RxEmpty, RxRestart, RxUnmask,
                 StackEnable, vars, queue, locals
  <2>. QED  BY <1>3, <1>4, <2>1
<1>. QED
  BY <1>5, <1>6, <1>7, <1>8, <1>9, <1>10 DEF Next, RxThread, StackThread, Dma

-----------------------------------------------------------------------------
(* The theorems.                                                            *)

\* The inductive invariant holds in every reachable state.
THEOREM Invariance == Spec => []IInv
<1>1. Init => IInv
  <2>. SUFFICES ASSUME Init PROVE IInv
    OBVIOUS
  <2>1. WorkInv
    BY DEF Init, WorkInv, QueueIsServed
  <2>2. PulseInv /\ FrameInv
    BY DEF Init, PulseInv, FrameInv
  <2>. QED  BY <2>1, <2>2, TypeInit, RingInit DEF IInv, RingInv
<1>2. IInv /\ [Next]_vars => IInv'
  <2>. SUFFICES ASSUME IInv, [Next]_vars PROVE IInv'
    OBVIOUS
  <2>. USE DEF IInv
  <2>1. TypeOK'
    BY TypeStep
  <2>2. RingInv'
    BY RingStep DEF RingInv
  <2>3. WorkInv' /\ PulseInv' /\ FrameInv'
    BY WorkStep, PulseStep, FrameStep
  <2>. QED  BY <2>1, <2>2, <2>3 DEF RingInv
<1>. QED  BY <1>1, <1>2, PTL DEF Spec

\* The receive path is well-typed.
THEOREM TypeCorrect == Spec => []TypeOK
<1>1. IInv => TypeOK
  BY DEF IInv
<1>. QED  BY <1>1, Invariance, PTL

\* The DMA engine stands right behind the frames that wait on the ring.
THEOREM EngineNeverOverruns == Spec => []EngineBehindFrames
<1>1. IInv => EngineBehindFrames
  BY DEF IInv
<1>. QED  BY <1>1, Invariance, PTL

\* Whenever the engine stands still, its EOQ is before the receive thread.
THEOREM StopsAreNoticed == Spec => []StopIsNoticed
<1>1. IInv => StopIsNoticed
  BY DEF IInv
<1>. QED  BY <1>1, Invariance, PTL

\* A frame on rx_queue has a stack thread that will come for it.
THEOREM QueueServed == Spec => []QueueIsServed
<1>1. IInv => QueueIsServed
  BY DEF IInv, WorkInv
<1>. QED  BY <1>1, Invariance, PTL

\* The engine is started only while it stands still, on a descriptor it owns.
THEOREM KicksAreSafe == Spec => KickIsSafe
<1>1. ASSUME IInv, [Next]_vars
      PROVE  [hdp' # hdp /\ pc' # pc => hdp = Nil /\ desc[hdp'].own]_vars
  <2>. SUFFICES ASSUME hdp' # hdp, pc' # pc, Next
       PROVE  hdp = Nil /\ desc[hdp'].own
    BY <1>1 DEF vars, engine
  <2>1. CASE RxStop \/ RxRestart
    <3>1. eoq /\ hdp' = cidx /\ pc \in {"stop", "restart"}
      BY <2>1 DEF RxStop, RxRestart, Restart
    <3>. QED  BY <1>1, <3>1 DEF IInv, TypeOK, OwnInv, EoqInv
  <2>2. CASE \/ Isr \/ RxPulse \/ RxDivert \/ RxTake \/ RxEnqueue \/ RxFlowCheck \/ RxFull
             \/ RxEmpty \/ RxCut \/ RxLink \/ RxUnmask \/ StackThread \/ Dma
    <3>1. hdp' = hdp \/ pc' = pc
      BY <2>2 DEF Isr, RxPulse, RxDivert, RxTake, RxEnqueue, RxFlowCheck, RxFull, RxEmpty,
                  RxCut, RxLink, RxUnmask, StackThread, StackDequeue, StackEnable,
                  Dma, DmaFill, DmaWriteBack, engine
    <3>. QED  BY <3>1
  <2>. QED  BY <2>1, <2>2 DEF Next, RxThread
<1>. QED  BY <1>1, Invariance, PTL DEF Spec, KickIsSafe

\* Without flow control no frame on the ring is forgotten.
THEOREM FramesNoticed ==
  ASSUME ~FlowControl
  PROVE  Spec => []FramesAreNoticed
<1>1. IInv => FramesAreNoticed
  BY DEF IInv, FramesAreNoticed, PendInv, PulseInv, TypeOK
<1>. QED  BY <1>1, Invariance, PTL

-----------------------------------------------------------------------------
(* The refinement of PacketPipe: the frames on the ring as a sequence.      *)

\* Advancing by an offset, and by one more.
LEMMA AdvanceOffset ==
  ASSUME NEW c \in Slots, NEW k \in 0 .. NumRxPkts - 1
  PROVE  /\ Advance(c, k) \in Slots
         /\ Offset(c, Advance(c, k)) = k
         /\ Advance(Advance(c, 1), k) = Advance(c, k + 1)
         /\ Advance(c, k) = c <=> k = 0
BY RxAssumption DEF Slots, Advance, Offset

\* A slot is reached by advancing by its offset.
LEMMA OffsetAdvance ==
  ASSUME NEW c \in Slots, NEW s \in Slots
  PROVE  Advance(c, Offset(c, s)) = s
BY RxAssumption DEF Slots, Advance, Offset

Gaps(c, d) ==
  {n \in 0 .. NumRxPkts : n = NumRxPkts \/ d[Advance(c, n)].pkt = Nil}

Frames(c, d) == [i \in 1 .. Min(Gaps(c, d)) |-> d[Advance(c, i - 1)].pkt]

\* The frames run up to the first gap.
LEMMA FirstGap ==
  ASSUME NEW c, NEW d
  PROVE  /\ Min(Gaps(c, d)) \in 0 .. NumRxPkts
         /\ Min(Gaps(c, d)) = NumRxPkts \/ d[Advance(c, Min(Gaps(c, d)))].pkt = Nil
         /\ \A k \in 0 .. Min(Gaps(c, d)) - 1 : d[Advance(c, k)].pkt # Nil
<1>1. Gaps(c, d) \in SUBSET Nat /\ NumRxPkts \in Gaps(c, d)
  BY RxAssumption DEF Gaps
<1>2. Min(Gaps(c, d)) \in Gaps(c, d) /\ \A k \in Gaps(c, d) : Min(Gaps(c, d)) <= k
  BY <1>1, MinLeast
<1>3. \A k \in 0 .. NumRxPkts : k \notin Gaps(c, d) => d[Advance(c, k)].pkt # Nil
  BY DEF Gaps
<1>4. Min(Gaps(c, d)) \in 0 .. NumRxPkts
  BY <1>2 DEF Gaps
<1>5. ASSUME NEW k \in 0 .. Min(Gaps(c, d)) - 1  PROVE d[Advance(c, k)].pkt # Nil
  <2>1. k \in 0 .. NumRxPkts /\ k \notin Gaps(c, d)
    BY <1>2, <1>4, RxAssumption
  <2>. QED  BY <1>3, <2>1
<1>. QED  BY <1>2, <1>4, <1>5 DEF Gaps

\* A gap with frames up to it is the first one.
LEMMA FirstGapIs ==
  ASSUME NEW c, NEW d, NEW n \in 0 .. NumRxPkts,
         n = NumRxPkts \/ d[Advance(c, n)].pkt = Nil,
         \A k \in 0 .. n - 1 : d[Advance(c, k)].pkt # Nil
  PROVE  Min(Gaps(c, d)) = n
<1>1. Gaps(c, d) \in SUBSET Nat /\ n \in Gaps(c, d)
  BY RxAssumption DEF Gaps
<1>2. ASSUME NEW k \in Gaps(c, d)  PROVE n <= k
  <2>1. k \in 0 .. NumRxPkts /\ (k = NumRxPkts \/ d[Advance(c, k)].pkt = Nil)
    BY DEF Gaps
  <2>2. k < n => k \in 0 .. n - 1 /\ k # NumRxPkts
    BY <2>1, RxAssumption
  <2>. QED  BY <2>1, <2>2, RxAssumption
<1>. QED  BY <1>1, <1>2, MinIs

\* The frames on the ring are a sequence of frames.
LEMMA FramesType ==
  ASSUME NEW c \in Slots, NEW d \in [Slots -> Descriptors]
  PROVE  /\ Frames(c, d) \in Seq(Pkts)
         /\ Len(Frames(c, d)) = Min(Gaps(c, d))
         /\ \A i \in 1 .. Min(Gaps(c, d)) : Frames(c, d)[i] = d[Advance(c, i - 1)].pkt
<1>. DEFINE n == Min(Gaps(c, d))
<1>1. n \in 0 .. NumRxPkts /\ \A k \in 0 .. n - 1 : d[Advance(c, k)].pkt # Nil
  BY FirstGap
<1>2. ASSUME NEW i \in 1 .. n  PROVE d[Advance(c, i - 1)].pkt \in Pkts
  <2>1. i - 1 \in 0 .. n - 1 /\ i - 1 \in 0 .. NumRxPkts - 1
    BY <1>1, RxAssumption
  <2>2. Advance(c, i - 1) \in Slots
    BY <2>1, AdvanceOffset
  <2>3. d[Advance(c, i - 1)].pkt \in Pkts \cup {Nil}
    BY <2>2 DEF Descriptors
  <2>. QED  BY <1>1, <2>1, <2>3
<1>3. n \in Nat
  BY <1>1, RxAssumption
<1>4. Frames(c, d) = [i \in 1 .. n |-> d[Advance(c, i - 1)].pkt]
  BY DEF Frames
<1>. HIDE DEF n
<1>. QED  BY <1>2, <1>3, <1>4 DEF n

\* The frames are what their slots hold.
LEMMA FramesSame ==
  ASSUME NEW c \in Slots, NEW d, NEW e,
         \A s \in Slots : e[s].pkt = d[s].pkt
  PROVE  Frames(c, e) = Frames(c, d)
<1>1. \A k \in 0 .. NumRxPkts - 1 : e[Advance(c, k)].pkt = d[Advance(c, k)].pkt
  BY AdvanceOffset
<1>2. Gaps(c, e) = Gaps(c, d)
  <2>1. \A n \in 0 .. NumRxPkts : n # NumRxPkts => n \in 0 .. NumRxPkts - 1
    BY RxAssumption
  <2>. QED  BY <1>1, <2>1 DEF Gaps
<1>3. \A i \in 1 .. Min(Gaps(c, d)) : i - 1 \in 0 .. NumRxPkts - 1
  BY FirstGap, RxAssumption
<1>. QED  BY <1>1, <1>2, <1>3 DEF Frames

\* Consuming the slot at the index takes the head off the frames.
LEMMA FramesConsume ==
  ASSUME NEW c \in Slots, NEW d \in [Slots -> Descriptors],
         NEW e \in [Slots -> Descriptors],
         d[c].pkt # Nil, e[c].pkt = Nil,
         \A s \in Slots : s # c => e[s].pkt = d[s].pkt
  PROVE  /\ Frames(c, d) # <<>>
         /\ Head(Frames(c, d)) = d[c].pkt
         /\ Frames(Advance(c, 1), e) = Tail(Frames(c, d))
<1>. DEFINE n == Min(Gaps(c, d))
            f == Frames(c, d)
            g == Frames(Advance(c, 1), e)
<1>0. NumRxPkts \in Nat \ {0, 1} /\ Advance(c, 0) = c /\ Advance(c, NumRxPkts) = c
  BY RxAssumption DEF Advance, Slots
<1>1. /\ n \in 0 .. NumRxPkts
      /\ n = NumRxPkts \/ d[Advance(c, n)].pkt = Nil
      /\ \A k \in 0 .. n - 1 : d[Advance(c, k)].pkt # Nil
  BY FirstGap
<1>2. f \in Seq(Pkts) /\ Len(f) = n /\ \A i \in 1 .. n : f[i] = d[Advance(c, i - 1)].pkt
  BY FramesType
<1>. HIDE DEF n, f, g
<1>3. n \in 1 .. NumRxPkts
  BY <1>0, <1>1
<1>4. f # <<>> /\ Head(f) = d[c].pkt
  BY <1>0, <1>2, <1>3, EmptySeq
<1>5. Advance(c, 1) \in Slots
  BY <1>0, AdvanceOffset
<1>6. \A k \in 0 .. NumRxPkts - 2 :
        /\ Advance(Advance(c, 1), k) = Advance(c, k + 1)
        /\ e[Advance(c, k + 1)].pkt = d[Advance(c, k + 1)].pkt
  <2>1. ASSUME NEW k \in 0 .. NumRxPkts - 2
        PROVE  /\ Advance(Advance(c, 1), k) = Advance(c, k + 1)
               /\ Advance(c, k + 1) \in Slots \ {c}
    <3>1. k \in 0 .. NumRxPkts - 1 /\ k + 1 \in 0 .. NumRxPkts - 1 /\ k + 1 # 0
      BY <1>0
    <3>. QED  BY <3>1, AdvanceOffset
  <2>. QED  BY <2>1
<1>7. Min(Gaps(Advance(c, 1), e)) = n - 1
  <2>1. n - 1 \in 0 .. NumRxPkts
    BY <1>0, <1>3
  <2>2. e[Advance(Advance(c, 1), n - 1)].pkt = Nil
    <3>1. CASE n = NumRxPkts
      <4>1. Advance(Advance(c, 1), n - 1) = c
        BY <1>0, <3>1, LastSlot
      <4>. QED  BY <4>1
    <3>2. CASE n # NumRxPkts
      <4>1. n - 1 \in 0 .. NumRxPkts - 2 /\ (n - 1) + 1 = n
        BY <1>0, <1>3, <3>2
      <4>. QED  BY <1>1, <1>6, <3>2, <4>1
    <3>. QED  BY <3>1, <3>2
  <2>3. ASSUME NEW k \in 0 .. (n - 1) - 1
        PROVE  e[Advance(Advance(c, 1), k)].pkt # Nil
    <3>1. k \in 0 .. NumRxPkts - 2 /\ k + 1 \in 0 .. n - 1
      BY <1>0, <1>3
    <3>. QED  BY <1>1, <1>6, <3>1
  <2>. QED  BY <2>1, <2>2, <2>3, FirstGapIs
<1>8. /\ g \in Seq(Pkts) /\ Len(g) = n - 1
      /\ \A i \in 1 .. n - 1 : g[i] = e[Advance(Advance(c, 1), i - 1)].pkt
  BY <1>5, <1>7, FramesType DEF g
<1>9. /\ Tail(f) \in Seq(Pkts) /\ Len(Tail(f)) = n - 1
      /\ \A i \in 1 .. n - 1 : Tail(f)[i] = f[i + 1]
  BY <1>2, <1>4, HeadTailProperties
<1>10. ASSUME NEW i \in 1 .. n - 1  PROVE g[i] = Tail(f)[i]
  <2>1. /\ i - 1 \in 0 .. NumRxPkts - 2 /\ (i - 1) + 1 = i
        /\ i + 1 \in 1 .. n /\ (i + 1) - 1 = i
    BY <1>0, <1>3
  <2>2. g[i] = d[Advance(c, i)].pkt
    BY <1>6, <1>8, <2>1
  <2>3. Tail(f)[i] = d[Advance(c, i)].pkt
    BY <1>2, <1>9, <2>1
  <2>. QED  BY <2>2, <2>3
<1>11. g = Tail(f)
  BY <1>8, <1>9, <1>10, SeqEqual
<1>. QED  BY <1>4, <1>11 DEF f, g

\* A frame written right behind the others is appended to them.
LEMMA FramesWrite ==
  ASSUME NEW c \in Slots, NEW d \in [Slots -> Descriptors],
         NEW e \in [Slots -> Descriptors], NEW h \in Slots, NEW p \in Pkts,
         d[h].pkt = Nil, e[h].pkt = p,
         \A s \in Slots : s # h => e[s].pkt = d[s].pkt,
         \A s \in Slots : Offset(c, s) < Offset(c, h) => d[s].pkt # Nil,
         \A s \in Slots : Offset(c, h) < Offset(c, s) => d[s].pkt = Nil
  PROVE  Frames(c, e) = Append(Frames(c, d), p)
<1>. DEFINE n == Offset(c, h)
            f == Frames(c, d)
            g == Frames(c, e)
<1>0. NumRxPkts \in Nat \ {0, 1} /\ n \in 0 .. NumRxPkts - 1 /\ Advance(c, n) = h
  BY RxAssumption, OffsetType, OffsetAdvance
<1>1. \A k \in 0 .. NumRxPkts - 1 :
        /\ Advance(c, k) \in Slots
        /\ Offset(c, Advance(c, k)) = k
        /\ k # n => Advance(c, k) # h
  BY <1>0, AdvanceOffset
<1>2. Min(Gaps(c, d)) = n
  <2>1. \A k \in 0 .. n - 1 : d[Advance(c, k)].pkt # Nil
    BY <1>0, <1>1
  <2>. QED  BY <1>0, <2>1, FirstGapIs
<1>3. Min(Gaps(c, e)) = n + 1
  <2>1. n + 1 \in 0 .. NumRxPkts
    BY <1>0
  <2>2. n + 1 = NumRxPkts \/ e[Advance(c, n + 1)].pkt = Nil
    BY <1>0, <1>1
  <2>3. ASSUME NEW k \in 0 .. (n + 1) - 1  PROVE e[Advance(c, k)].pkt # Nil
    <3>1. k \in 0 .. NumRxPkts - 1 /\ (k = n \/ k < n)
      BY <1>0
    <3>2. CASE k = n
      BY <1>0, <3>2, RxAssumption
    <3>3. CASE k < n
      BY <1>0, <1>1, <3>1, <3>3
    <3>. QED  BY <3>1, <3>2, <3>3
  <2>. QED  BY <2>1, <2>2, <2>3, FirstGapIs
<1>4. f \in Seq(Pkts) /\ Len(f) = n /\ \A i \in 1 .. n : f[i] = d[Advance(c, i - 1)].pkt
  BY <1>2, FramesType
<1>5. /\ g \in Seq(Pkts) /\ Len(g) = n + 1
      /\ \A i \in 1 .. n + 1 : g[i] = e[Advance(c, i - 1)].pkt
  BY <1>3, FramesType
<1>. HIDE DEF f, g, n
<1>6. /\ Append(f, p) \in Seq(Pkts) /\ Len(Append(f, p)) = n + 1
      /\ \A i \in 1 .. n : Append(f, p)[i] = f[i]
      /\ Append(f, p)[n + 1] = p
  BY <1>4, AppendProperties
<1>7. ASSUME NEW i \in 1 .. n + 1  PROVE g[i] = Append(f, p)[i]
  <2>1. i - 1 \in 0 .. NumRxPkts - 1
    BY <1>0
  <2>2. CASE i = n + 1
    <3>1. i - 1 = n
      BY <1>0, <2>2
    <3>. QED  BY <1>0, <1>5, <1>6, <2>2, <3>1
  <2>3. CASE i # n + 1
    <3>1. i \in 1 .. n /\ i - 1 # n
      BY <1>0, <2>3
    <3>. QED  BY <1>1, <1>4, <1>5, <1>6, <2>1, <3>1
  <2>. QED  BY <2>2, <2>3
<1>8. g = Append(f, p)
  BY <1>5, <1>6, <1>7, SeqEqual
<1>. QED  BY <1>8 DEF f, g

-----------------------------------------------------------------------------
(* The refinement of PacketPipe, step by step.                              *)

\* What waits is the frame in hand before the frames on the ring.
LEMMA WaitingIs ==
  /\ Waiting = Hand(m, Nil) \o Frames(cidx, desc)
  /\ Waiting' = Hand(m', Nil) \o Frames(cidx', desc')
<1>1. Filled = Min(Gaps(cidx, desc)) /\ Filled' = Min(Gaps(cidx', desc'))
  BY DEF Filled, Gaps, HasFrame, Advance
<1>. QED  BY <1>1 DEF Waiting, Hand, Frames, Advance

\* The ring and the queue are empty at first.
LEMMA InitImplements == Init => Pipe!Init
<1>. SUFFICES ASSUME Init PROVE Pipe!Init
  OBVIOUS
<1>1. /\ cidx = 0 /\ 0 \in Slots /\ m = Nil /\ rxq = <<>>
      /\ desc \in [Slots -> Descriptors]
      /\ \A s \in Slots : desc[s].pkt = Nil
  BY TypeInit, RxAssumption DEF Init, TypeOK, Descriptors, Slots
<1>2. Advance(cidx, 0) = cidx /\ 0 \in 0 .. NumRxPkts
  BY <1>1, RxAssumption DEF Advance
<1>3. Min(Gaps(cidx, desc)) = 0
  BY <1>1, <1>2, FirstGapIs
<1>4. Frames(cidx, desc) = <<>> /\ Frames(cidx, desc) \in Seq(Pkts)
  BY <1>1, <1>3, FramesType, EmptySeq
<1>5. Waiting = <<>>
  BY <1>1, <1>4, WaitingIs, HandType
<1>. QED  BY <1>1, <1>5 DEF Pipe!Init

\* A step that leaves the frames, the frame in hand and rx_queue alone stutters.
LEMMA PipeStutter ==
  ASSUME TypeOK, UNCHANGED <<cidx, m, rxq>>,
         \A s \in Slots : desc'[s].pkt = desc[s].pkt
  PROVE  UNCHANGED <<Waiting, rxq>>
<1>1. Frames(cidx', desc') = Frames(cidx, desc)
  BY FramesSame DEF TypeOK
<1>. QED  BY <1>1, WaitingIs

\* A frame received is accepted behind the others.
LEMMA PipeAccept ==
  ASSUME IInv, IInv', DmaWriteBack
  PROVE  \E p \in Pkts : Pipe!Accept(p)
<1>1. /\ frame \in Pkts /\ hdp \in Slots /\ cidx \in Slots /\ m \in Pkts \cup {Nil}
      /\ desc \in [Slots -> Descriptors] /\ desc' \in [Slots -> Descriptors]
      /\ UNCHANGED <<cidx, m, rxq>>
  BY DEF IInv, TypeOK, EngineInv, DmaWriteBack, Descriptors, chain, queue, locals
<1>2. desc[hdp].pkt = Nil
  <2>1. desc[hdp].own
    BY <1>1, RxAssumption DEF IInv, EngineBehindFrames, DmaWriteBack, EngineInv
  <2>. QED  BY <1>1, <2>1 DEF IInv, OwnInv, HasFrame
<1>3. \A s \in Slots : Offset(cidx, s) < Offset(cidx, hdp) => desc[s].pkt # Nil
  BY <1>1, RxAssumption DEF IInv, EngineBehindFrames, HasFrame, DmaWriteBack, EngineInv
<1>4. \A s \in Slots : Offset(cidx, hdp) < Offset(cidx, s) => desc[s].pkt = Nil
  BY <1>1, <1>2 DEF IInv, EngineBehindFrames, HasFrame
<1>5. /\ desc'[hdp].pkt = frame
      /\ \A s \in Slots : s # hdp => desc'[s].pkt = desc[s].pkt
  BY <1>1 DEF DmaWriteBack, Descriptors
<1>6. Frames(cidx, desc') = Append(Frames(cidx, desc), frame)
  BY <1>1, <1>2, <1>3, <1>4, <1>5, FramesWrite
<1>. DEFINE f == Frames(cidx, desc)
<1>7. /\ f \in Seq(Pkts) /\ Len(f) = Min(Gaps(cidx, desc))
      /\ \A i \in 1 .. Len(f) : f[i] = desc[Advance(cidx, i - 1)].pkt
  BY <1>1, FramesType
<1>8. Waiting = Hand(m, Nil) \o f /\ Waiting' = Append(Waiting, frame)
  BY <1>1, <1>6, <1>7, WaitingIs, HandAppend
<1>9. frame # m /\ \A i \in 1 .. Len(f) : f[i] # frame
  <2>1. /\ frame # m /\ \A s \in Slots : desc[s].pkt # frame
    BY DEF IInv, FrameInv, DmaWriteBack
  <2>2. ASSUME NEW i \in 1 .. Len(f)  PROVE Advance(cidx, i - 1) \in Slots
    <3>1. Len(f) \in 0 .. NumRxPkts
      BY <1>7, FirstGap
    <3>2. i - 1 \in 0 .. NumRxPkts - 1
      BY <3>1, RxAssumption
    <3>. QED  BY <1>1, <3>2, AdvanceOffset
  <2>. QED  BY <1>7, <2>1, <2>2
<1>. HIDE DEF f
<1>10. ~Pipe!Holds(Waiting, frame)
  <2>1. \A i \in 1 .. Len(Hand(m, Nil) \o f) : (Hand(m, Nil) \o f)[i] # frame
    <3>1. m \in Pkts \cup {Nil} /\ f \in Seq(Pkts)
      BY <1>1, <1>7
    <3>. QED  BY <1>9, <3>1, HandHolds
  <2>. QED  BY <1>8, <2>1 DEF Pipe!Holds
<1>11. ~Pipe!Holds(rxq, frame)
  BY DEF IInv, FrameInv, DmaWriteBack, Pipe!Holds
<1>12. Pipe!Accept(frame)
  BY <1>1, <1>8, <1>10, <1>11 DEF Pipe!Accept
<1>. QED  BY <1>1, <1>12

\* A frame that goes straight up is diverted, one taken in hand still waits.
LEMMA PipeConsume ==
  ASSUME IInv, IInv', RxDivert \/ RxTake
  PROVE  Pipe!Divert \/ UNCHANGED <<Waiting, rxq>>
<1>1. /\ cidx \in Slots /\ cidx' = Advance(cidx, 1) /\ m = Nil
      /\ desc \in [Slots -> Descriptors] /\ desc' \in [Slots -> Descriptors]
      /\ desc[cidx].pkt # Nil /\ UNCHANGED rxq
      /\ pc = "loop" /\ ~desc[cidx].own
  BY DEF IInv, TypeOK, OwnInv, HasFrame, RxDivert, RxTake, Consume, Descriptors, queue
<1>2. /\ desc'[cidx].pkt = Nil
      /\ \A s \in Slots : s # cidx => desc'[s].pkt = desc[s].pkt
  BY <1>1 DEF RxDivert, RxTake, Rearm, Descriptors
<1>3. /\ Frames(cidx, desc) # <<>>
      /\ Head(Frames(cidx, desc)) = desc[cidx].pkt
      /\ Frames(cidx', desc') = Tail(Frames(cidx, desc))
  BY <1>1, <1>2, FramesConsume
<1>4. Frames(cidx, desc) \in Seq(Pkts) /\ Frames(cidx', desc') \in Seq(Pkts)
  <2>1. cidx' \in Slots
    BY DEF IInv, TypeOK
  <2>. QED  BY <1>1, <2>1, FramesType
<1>5. Waiting = Frames(cidx, desc)
  BY <1>1, <1>4, WaitingIs, HandType
<1>6. CASE RxDivert
  <2>1. m' = Nil
    BY <1>1, <1>6 DEF RxDivert
  <2>2. Waiting' = Frames(cidx', desc')
    BY <1>4, <2>1, WaitingIs, HandType
  <2>. QED  BY <1>1, <1>3, <1>5, <2>2 DEF Pipe!Divert
<1>7. CASE RxTake
  <2>1. m' = Head(Frames(cidx, desc))
    BY <1>3, <1>7 DEF RxTake
  <2>2. Waiting' = Waiting
    BY <1>3, <1>4, <1>5, <2>1, WaitingIs, HandTake, RxAssumption
  <2>. QED  BY <1>1, <2>2
<1>. QED  BY <1>6, <1>7

\* The frame in hand is committed to rx_queue, or diverted if that is full.
LEMMA PipeCommit ==
  ASSUME IInv, IInv', RxEnqueue
  PROVE  Pipe!Commit \/ Pipe!Divert
<1>1. /\ m \in Pkts /\ m # Nil /\ m' = Nil /\ UNCHANGED cidx
      /\ cidx \in Slots /\ InHand \in Slots /\ desc[InHand].pkt = Nil
      /\ desc \in [Slots -> Descriptors] /\ desc' \in [Slots -> Descriptors]
  BY LastSlot DEF IInv, TypeOK, OwnInv, InHand, HasFrame, RxEnqueue, chain, Descriptors
<1>2. \A s \in Slots : desc'[s].pkt = desc[s].pkt
  BY <1>1 DEF RxEnqueue, Rearm, Descriptors
<1>3. /\ Frames(cidx', desc') = Frames(cidx, desc)
      /\ Frames(cidx, desc) \in Seq(Pkts)
  BY <1>1, <1>2, FramesSame, FramesType
<1>4. Waiting' = Frames(cidx, desc)
  BY <1>1, <1>3, WaitingIs, HandType
<1>5. Waiting # <<>> /\ Head(Waiting) = m /\ Tail(Waiting) = Frames(cidx, desc)
  <2>1. m \in Pkts /\ m # Nil /\ Frames(cidx, desc) \in Seq(Pkts)
    BY <1>1, <1>3
  <2>. QED  BY <2>1, WaitingIs, HandHead
<1>6. rxq' = rxq \/ rxq' = Append(rxq, m)
  BY DEF RxEnqueue
<1>. QED  BY <1>4, <1>5, <1>6 DEF Pipe!Commit, Pipe!Divert

\* Every step of the receive path is a step of PacketPipe or changes neither
\* what waits nor what is queued.
LEMMA StepImplements == IInv /\ IInv' /\ [Next]_vars => [Pipe!Next]_(Pipe!vars)
<1>. SUFFICES ASSUME IInv, IInv', [Next]_vars
     PROVE  Pipe!Next \/ UNCHANGED <<Waiting, rxq>>
  BY DEF Pipe!vars
<1>0. TypeOK
  BY DEF IInv
<1>1. CASE DmaWriteBack
  BY <1>1, PipeAccept DEF Pipe!Next
<1>2. CASE RxDivert \/ RxTake
  BY <1>2, PipeConsume DEF Pipe!Next
<1>3. CASE RxEnqueue
  BY <1>3, PipeCommit DEF Pipe!Next
<1>4. CASE StackDequeue
  <2>1. UNCHANGED <<desc, cidx, m>>
    BY <1>4 DEF StackDequeue, chain, locals
  <2>2. Waiting' = Waiting
    BY <2>1, WaitingIs
  <2>3. rxq' = rxq \/ (rxq # <<>> /\ rxq' = Tail(rxq))
    BY <1>4 DEF StackDequeue
  <2>. QED  BY <2>2, <2>3 DEF Pipe!Next, Pipe!Deliver
<1>5. CASE RxCut \/ RxLink
  <2>1. \A s \in Slots : desc'[s].pkt = desc[s].pkt
    BY <1>0, <1>5 DEF RxCut, RxLink, TypeOK
  <2>2. UNCHANGED <<cidx, m, rxq>>
    BY <1>5 DEF RxCut, RxLink, chain, queue, locals
  <2>. QED  BY <1>0, <2>1, <2>2, PipeStutter
<1>6. CASE \/ Isr \/ RxPulse \/ RxFlowCheck \/ RxFull \/ RxStop \/ RxEmpty \/ RxRestart
           \/ RxUnmask \/ StackEnable \/ (\E p \in Pkts : DmaFill(p)) \/ UNCHANGED vars
  <2>1. UNCHANGED <<desc, cidx, m, rxq>>
    BY <1>6 DEF Isr, RxPulse, RxFlowCheck, RxFull, RxStop, RxEmpty, RxRestart, RxUnmask,
                StackEnable, DmaFill, vars, chain, queue, locals
  <2>. QED  BY <1>0, <2>1, PipeStutter
<1>. QED
  BY <1>1, <1>2, <1>3, <1>4, <1>5, <1>6 DEF Next, RxThread, StackThread, Dma

\* The receive path implements PacketPipe: frames reach the stack in the order
\* in which the DMA engine wrote them to the ring, each at most once, and those
\* on rx_queue are not lost.
THEOREM Refinement == Spec => ImplementsPipe
<1>1. IInv /\ IInv' /\ [Next]_vars => [Pipe!Next]_(Pipe!vars)
  BY StepImplements
<1>. QED  BY <1>1, InitImplements, Invariance, PTL DEF Spec, ImplementsPipe, Pipe!Spec
=============================================================================
