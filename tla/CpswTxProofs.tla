---------------------------- MODULE CpswTxProofs ----------------------------
(***************************************************************************)
(* Machine-checked proofs about CpswTx, for every size of the ring, every  *)
(* defragmentation limit, every queue and every set of packets.            *)
(***************************************************************************)
EXTENDS CpswTx, DataLemmas, FiniteSetTheorems, TLAPS

-----------------------------------------------------------------------------
(* Ring arithmetic.                                                         *)

\* Advancing stays on the ring.
LEMMA AdvanceType ==
  ASSUME NEW a \in Slots, NEW k \in 0 .. NumTxPkts
  PROVE  Advance(a, k) \in Slots
BY TxAssumption DEF Slots, Advance

\* The slot before another is a slot, and advancing from it comes back.
LEMMA BeforeType ==
  ASSUME NEW a \in Slots
  PROVE  /\ Before(a) \in Slots
         /\ Advance(Before(a), 1) = a
         /\ Before(Advance(a, 1)) = a
BY TxAssumption DEF Slots, Advance, Before

\* Offsets are below the size of the ring.
LEMMA OffsetType ==
  ASSUME NEW a \in Slots, NEW s \in Slots
  PROVE  Offset(a, s) \in 0 .. NumTxPkts - 1
BY TxAssumption DEF Slots, Offset

\* Distinct slots have distinct offsets.
LEMMA OffsetInjective ==
  ASSUME NEW a \in Slots, NEW s \in Slots, NEW t \in Slots,
         Offset(a, s) = Offset(a, t)
  PROVE  s = t
BY TxAssumption DEF Slots, Offset

\* The offset of the slot reached by advancing.
LEMMA OffsetAdvance ==
  ASSUME NEW a \in Slots, NEW k \in 0 .. NumTxPkts - 1
  PROVE  Offset(a, Advance(a, k)) = k
BY TxAssumption DEF Slots, Offset, Advance

\* The next slot is one further, unless it is the origin.
LEMMA OffsetNext ==
  ASSUME NEW a \in Slots, NEW s \in Slots
  PROVE  Offset(a, Advance(s, 1)) =
           IF Offset(a, s) = NumTxPkts - 1 THEN 0 ELSE Offset(a, s) + 1
BY TxAssumption DEF Slots, Offset, Advance

\* Moving the origin forward by r shortens the offsets by r.
LEMMA OffsetShift ==
  ASSUME NEW a \in Slots, NEW s \in Slots, NEW r \in 0 .. NumTxPkts - 1
  PROVE  Offset(Advance(a, r), s) =
           IF Offset(a, s) >= r THEN Offset(a, s) - r
                                ELSE Offset(a, s) - r + NumTxPkts
BY TxAssumption DEF Slots, Offset, Advance

\* Two advances add up.
LEMMA AdvanceTwice ==
  ASSUME NEW a \in Slots, NEW j \in 0 .. NumTxPkts, NEW k \in 0 .. NumTxPkts,
         j + k \in 0 .. NumTxPkts
  PROVE  Advance(Advance(a, j), k) = Advance(a, j + k)
BY TxAssumption DEF Slots, Advance

-----------------------------------------------------------------------------
(* Types.                                                                   *)

\* The initial state has the right types.
LEMMA TypeInit == Init => TypeOK
<1>. SUFFICES ASSUME Init PROVE TypeOK
  OBVIOUS
<1>1. /\ oactive \in BOOLEAN /\ linkup \in BOOLEAN /\ reaped \in BOOLEAN
      /\ masked \in BOOLEAN /\ pend \in BOOLEAN
  BY Zenon DEF Init
<1>2. 0 \in Slots /\ 0 \in 0 .. NumTxPkts
  BY TxAssumption DEF Slots
<1>3. desc \in [Slots -> [own : BOOLEAN, sop : BOOLEAN, eop : BOOLEAN,
                         eoq : BOOLEAN, next : Slots \cup {Nil}]]
  BY DEF Init, FreshDesc
<1>. QED  BY <1>1, <1>2, <1>3 DEF Init, TypeOK

\* ti814x_reap_pkts keeps the types of the ring.
LEMMA TypeReap ==
  ASSUME TypeOK, NEW r \in 0 .. qlen, Reap(r)
  PROVE  /\ mbuf' \in [Slots -> Pkts \cup {Nil}]
         /\ cidx' \in Slots
         /\ qlen' \in 0 .. NumTxPkts
<1>1. mbuf' \in [Slots -> Pkts \cup {Nil}]
  BY DEF TypeOK, Reap
<1>2. cidx' \in Slots
  BY AdvanceType, TxAssumption DEF TypeOK, Reap
<1>3. qlen' \in 0 .. NumTxPkts
  BY TxAssumption DEF TypeOK, Reap
<1>. QED  BY <1>1, <1>2, <1>3

\* Every step keeps the types.
LEMMA TypeStep ==
  ASSUME TypeOK, LockInv, EngineInv, [Next]_vars
  PROVE  TypeOK'
<1>. USE DEF TypeOK
<1>1. ASSUME NEW p \in Pkts, StackSend(p) PROVE TypeOK'
  <2>1. oactive' \in BOOLEAN
    BY <1>1, Zenon DEF StackSend, EnterStart
  <2>2. /\ owner' \in {owner, "stack"} /\ pc' \in {pc, "space"}
        /\ irq' = irq /\ mii' = mii
    BY <1>1 DEF StackSend, EnterStart, Goto, sync
  <2>3. ifq' \in Seq(Pkts)
    BY <1>1 DEF StackSend
  <2>. QED  BY <1>1, <2>1, <2>2, <2>3 DEF StackSend, ring, chan
<1>2. ASSUME NEW p \in Pkts, Output(p) PROVE TypeOK'
  BY <1>2 DEF Output, Goto, ring, chan
<1>3. CASE SpaceLeft
  BY <1>3 DEF SpaceLeft, AfterSpace, ring, stack, work, chan
<1>4. CASE SpaceReap
  <2>1. PICK r \in 0 .. qlen : Reap(r)
    BY <1>4 DEF SpaceReap
  <2>2. /\ mbuf' \in [Slots -> Pkts \cup {Nil}]
        /\ cidx' \in Slots
        /\ qlen' \in 0 .. NumTxPkts
    BY <2>1, TypeReap
  <2>3. /\ owner' \in {"none", "stack", "irq", "mii"}
        /\ pc' \in {"unlocked", "take", "tx"}
        /\ irq' \in {irq, "enable"} /\ mii' \in {mii, "idle"}
        /\ m' \in {m, Nil}
    BY <1>4 DEF SpaceReap, Unlock, AfterSpace
  <2>. QED  BY <1>4, <2>2, <2>3 DEF SpaceReap, chan
<1>5. CASE StartDequeue
  BY <1>5 DEF StartDequeue, ring, work, chan
<1>6. CASE StartDone
  <2>1. oactive' \in BOOLEAN
    BY <1>6, Zenon DEF StartDone
  <2>. QED  BY <1>6, <2>1 DEF StartDone, Unlock, ring, chan
<1>7. ASSUME NEW k \in 1 .. DefragLimit, TxBuild(k) PROVE TypeOK'
  <2>1. k \in 0 .. NumTxPkts /\ qlen + k \in 0 .. NumTxPkts
    BY <1>7, TxAssumption DEF TxBuild, LockInv, HasRoom
  <2>2. Advance(pidx, k) \in Slots
    BY <2>1, AdvanceType
  <2>3. \A s \in Slots : Advance(s, 1) \in Slots
    BY AdvanceType, TxAssumption
  <2>4. desc' \in [Slots -> [own : BOOLEAN, sop : BOOLEAN, eop : BOOLEAN,
                            eoq : BOOLEAN, next : Slots \cup {Nil}]]
    BY <1>7, <2>3 DEF TxBuild
  <2>. QED  BY <1>7, <2>1, <2>2, <2>4 DEF TxBuild, work, chan
<1>8. CASE TxDefragFailed
  BY <1>8 DEF TxDefragFailed, AfterTx, Unlock, ring, chan
<1>9. CASE TxReadHdp
  BY <1>9 DEF TxReadHdp, AfterTx, Unlock, ring, stack, chan
<1>10. CASE TxKick
  BY <1>10 DEF TxKick, AfterTx, Unlock, ring, stack, chan
<1>11. CASE IsrTx
  BY <1>11 DEF IsrTx, ring, stack, sync
<1>12. CASE IrqLock
  BY <1>12 DEF IrqLock, Goto, ring, stack, chan
<1>13. CASE IrqAck
  <2>1. pend' \in BOOLEAN
    BY <1>13, Zenon DEF IrqAck
  <2>. QED  BY <1>13, <2>1 DEF IrqAck, ring, stack, work
<1>14. CASE IrqReadHdp
  BY <1>14 DEF IrqReadHdp, ring, stack, work, chan
<1>15. CASE IrqScan
  BY <1>15 DEF IrqScan, ring, stack, work, chan
<1>16. CASE IrqFull
  <2>1. oactive' \in BOOLEAN
    BY <1>16, Zenon DEF IrqFull, EnterStart
  <2>2. /\ owner' \in {"irq", "none"} /\ pc' \in {"space", "unlocked"}
        /\ irq' \in {irq, "running", "enable"} /\ mii' \in {mii, "running", "idle"}
    BY <1>16 DEF IrqFull, EnterStart, Goto, Unlock
  <2>. QED  BY <1>16, <2>1, <2>2 DEF IrqFull, ring, chan
<1>17. CASE IrqEnable
  <2>1. masked' \in BOOLEAN
    BY <1>17, Zenon DEF IrqEnable
  <2>. QED  BY <1>17, <2>1 DEF IrqEnable, ring, stack, sync
<1>18. CASE LinkDown
  <2>1. linkup' \in BOOLEAN
    BY <1>18, Zenon DEF LinkDown
  <2>. QED  BY <1>18, <2>1 DEF LinkDown, ring, stack, sync, chan
<1>19. CASE LinkUp
  BY <1>19 DEF LinkUp, ring, stack, sync, chan
<1>20. CASE LinkUpCheck
  BY <1>20 DEF LinkUpCheck, ring, stack, sync, chan
<1>21. CASE LinkUpStart
  BY <1>21 DEF LinkUpStart, EnterStart, Goto, ring, chan
<1>22. CASE TimerCheck
  BY <1>22 DEF TimerCheck, ring, stack, sync, chan
<1>23. CASE TimerReap
  <2>1. PICK r \in 0 .. qlen : Reap(r)
    BY <1>23 DEF TimerReap
  <2>2. /\ mbuf' \in [Slots -> Pkts \cup {Nil}]
        /\ cidx' \in Slots
        /\ qlen' \in 0 .. NumTxPkts
    BY <2>1, TypeReap
  <2>. QED  BY <1>23, <2>2 DEF TimerReap, stack, sync, chan
<1>24. CASE TimerClear
  <2>1. reaped' \in BOOLEAN
    BY <1>24, Zenon DEF TimerClear
  <2>. QED  BY <1>24, <2>1 DEF TimerClear, ring, stack, sync, chan
<1>25. CASE DmaBegin
  BY <1>25 DEF DmaBegin, ring, stack, sync, work, chan
<1>26. CASE DmaNext
  <2>1. cur \in Slots
    BY <1>26 DEF DmaNext, EngineInv
  <2>. QED  BY <1>26, <2>1 DEF DmaNext, ring, stack, sync, work, chan
<1>27. CASE DmaLatch
  <2>1. cur \in Slots
    BY <1>27 DEF DmaLatch, EngineInv
  <2>. QED  BY <1>27, <2>1 DEF DmaLatch, ring, stack, sync, work, chan
<1>28. CASE DmaWriteBack
  <2>1. ASSUME NEW s \in Slots
        PROVE  desc'[s] \in [own : BOOLEAN, sop : BOOLEAN, eop : BOOLEAN,
                            eoq : BOOLEAN, next : Slots \cup {Nil}]
    <3>. DEFINE own == desc[s].own /\ s # hdp
                eoq == desc[s].eoq \/ (s = cur /\ nxt = Nil)
    <3>1. own \in BOOLEAN /\ eoq \in BOOLEAN
      BY Zenon
    <3>2. desc'[s] = [desc[s] EXCEPT !.own = own, !.eoq = eoq]
      BY <1>28, Zenon DEF DmaWriteBack
    <3>. HIDE DEF own, eoq
    <3>. QED  BY <3>1, <3>2
  <2>2. desc' = [s \in Slots |-> desc'[s]]
    BY <1>28 DEF DmaWriteBack
  <2>3. desc' \in [Slots -> [own : BOOLEAN, sop : BOOLEAN, eop : BOOLEAN,
                            eoq : BOOLEAN, next : Slots \cup {Nil}]]
    BY <2>1, <2>2
  <2>4. /\ UNCHANGED <<ring, stack, sync, work, chan, hdp, cur, nxt>>
        /\ dma' = "written"
    BY <1>28 DEF DmaWriteBack
  <2>. QED  BY <2>3, <2>4 DEF ring, stack, sync, work, chan
<1>29. CASE DmaComplete
  BY <1>29 DEF DmaComplete, ring, stack, sync, work
<1>30. CASE UNCHANGED vars
  BY <1>30 DEF vars, ring, stack, sync, work, chan
<1>. QED
  BY <1>1, <1>2, <1>3, <1>4, <1>5, <1>6, <1>7, <1>8, <1>9, <1>10, <1>11,
     <1>12, <1>13, <1>14, <1>15, <1>16, <1>17, <1>18, <1>19, <1>20, <1>21,
     <1>22, <1>23, <1>24, <1>25, <1>26, <1>27, <1>28, <1>29, <1>30
     DEF Next, Stack, Start, Tx, Irq, Link, Timer, Dma

-----------------------------------------------------------------------------
(* The lock.                                                                *)

\* Every step keeps the invariant of the lock.
LEMMA LockStep ==
  ASSUME TypeOK, LockInv, [Next]_vars
  PROVE  LockInv'
<1>. USE DEF LockInv
<1>1. ASSUME NEW p \in Pkts, StackSend(p) PROVE LockInv'
  BY <1>1 DEF StackSend, EnterStart, Goto, sync, ring, chan, HasRoom
<1>2. ASSUME NEW p \in Pkts, Output(p) PROVE LockInv'
  BY <1>2, TxAssumption DEF Output, Goto, ring, chan
<1>3. CASE SpaceLeft
  BY <1>3 DEF SpaceLeft, AfterSpace, ring, stack, work, chan, HasRoom
<1>4. CASE SpaceReap
  <2>1. PICK r \in 0 .. qlen :
          /\ Reap(r)
          /\ IF HasRoom(qlen - r)
               THEN AfterSpace /\ UNCHANGED <<owner, irq, mii, m>>
               ELSE Unlock /\ m' = Nil
    BY <1>4 DEF SpaceReap
  <2>2. CASE HasRoom(qlen - r)
    BY <1>4, <2>1, <2>2 DEF SpaceReap, Reap, AfterSpace, chan, HasRoom
  <2>3. CASE ~HasRoom(qlen - r)
    BY <1>4, <2>1, <2>3 DEF SpaceReap, Unlock, chan
  <2>. QED  BY <2>2, <2>3
<1>5. CASE StartDequeue
  <2>1. m' # Nil
    BY <1>5, TxAssumption DEF StartDequeue, TypeOK
  <2>. QED  BY <1>5, <2>1 DEF StartDequeue, ring, work, chan, HasRoom
<1>6. CASE StartDone
  BY <1>6 DEF StartDone, Unlock, ring, chan
<1>7. ASSUME NEW k \in 1 .. DefragLimit, TxBuild(k) PROVE LockInv'
  BY <1>7 DEF TxBuild, work, chan
<1>8. CASE TxDefragFailed
  BY <1>8 DEF TxDefragFailed, AfterTx, Unlock, ring, chan
<1>9. CASE TxReadHdp
  BY <1>9 DEF TxReadHdp, AfterTx, Unlock, ring, stack, chan
<1>10. CASE TxKick
  BY <1>10 DEF TxKick, AfterTx, Unlock, ring, stack, chan
<1>11. CASE IsrTx
  BY <1>11 DEF IsrTx, ring, stack, sync, HasRoom
<1>12. CASE IrqLock
  BY <1>12 DEF IrqLock, Goto, ring, stack, chan
<1>13. CASE IrqAck
  BY <1>13 DEF IrqAck, ring, stack, work
<1>14. CASE IrqReadHdp
  BY <1>14 DEF IrqReadHdp, ring, stack, work, chan
<1>15. CASE IrqScan
  BY <1>15 DEF IrqScan, ring, stack, work, chan
<1>16. CASE IrqFull
  BY <1>16 DEF IrqFull, EnterStart, Goto, Unlock, ring, chan
<1>17. CASE IrqEnable
  <2>1. ~masked' /\ irq' = "idle" /\ irq # "running"
    BY <1>17, Zenon DEF IrqEnable
  <2>2. UNCHANGED <<owner, pc, mii, m, qlen, linkup, ifq>>
    BY <1>17 DEF IrqEnable, ring, stack, sync
  <2>. QED  BY <2>1, <2>2 DEF HasRoom
<1>18. CASE LinkDown
  BY <1>18 DEF LinkDown, ring, stack, sync, chan, HasRoom
<1>19. CASE LinkUp
  BY <1>19 DEF LinkUp, ring, stack, sync, chan, HasRoom
<1>20. CASE LinkUpCheck
  <2>1. mii = "qlen" /\ mii' \in {"lock", "idle"}
    BY <1>20 DEF LinkUpCheck
  <2>2. UNCHANGED <<owner, pc, irq, m, qlen, masked, linkup, ifq>>
    BY <1>20 DEF LinkUpCheck, ring, stack, sync, chan
  <2>. QED  BY <2>1, <2>2 DEF HasRoom
<1>21. CASE LinkUpStart
  BY <1>21 DEF LinkUpStart, EnterStart, Goto, ring, chan
<1>22. CASE TimerCheck
  BY <1>22 DEF TimerCheck, ring, stack, sync, chan, HasRoom
<1>23. CASE TimerReap
  BY <1>23 DEF TimerReap, stack, sync, chan
<1>24. CASE TimerClear
  BY <1>24 DEF TimerClear, ring, stack, sync, chan, HasRoom
<1>25. CASE Dma
  <2>1. UNCHANGED <<owner, pc, irq, mii, m, qlen, masked, linkup, ifq>>
    BY <1>25 DEF Dma, DmaBegin, DmaNext, DmaLatch, DmaWriteBack, DmaComplete,
                 ring, stack, sync, work, chan
  <2>. QED  BY <2>1 DEF HasRoom
<1>26. CASE UNCHANGED vars
  BY <1>26 DEF vars, ring, stack, sync, work, chan, HasRoom
<1>. QED
  BY <1>1, <1>2, <1>3, <1>4, <1>5, <1>6, <1>7, <1>8, <1>9, <1>10, <1>11,
     <1>12, <1>13, <1>14, <1>15, <1>16, <1>17, <1>18, <1>19, <1>20, <1>21,
     <1>22, <1>23, <1>24, <1>25, <1>26
     DEF Next, Stack, Start, Tx, Irq, Link, Timer

-----------------------------------------------------------------------------
(* Reaping.                                                                 *)

\* What reaping r slots does to the offsets: the slots that stay in use are
\* those r or more from the old start, and no slot with OWN is given up.
LEMMA ReapOffsets ==
  ASSUME TypeOK, RingConsistent, NEW r \in 0 .. qlen, Reap(r),
         UNCHANGED <<desc, pidx>>
  PROVE  /\ \A s \in Slots : InUse(s)' <=> InUse(s) /\ Offset(cidx, s) >= r
         /\ \A s \in Slots : Unsent(s)' <=> Unsent(s)
         /\ \A s \in Slots : Unsent(s) => Offset(cidx, s) >= r
         /\ \A s \in Slots : InUse(s)' =>
              Offset(cidx', s) = Offset(cidx, s) - r
         /\ \A s \in Slots : InUse(s) => InUse(s) /\ Offset(cidx, s) \in 0 .. qlen - 1
<1>1. r \in 0 .. NumTxPkts - 1 /\ qlen \in 0 .. NumTxPkts - 1
  BY TxAssumption DEF TypeOK, RingConsistent
<1>2. cidx \in Slots /\ cidx' = Advance(cidx, r) /\ qlen' = qlen - r
  BY DEF TypeOK, Reap
<1>3. \A s \in Slots : Offset(cidx, s) \in 0 .. NumTxPkts - 1
  BY <1>2, OffsetType
<1>4. \A s \in Slots : Offset(cidx', s) =
        IF Offset(cidx, s) >= r THEN Offset(cidx, s) - r
                                ELSE Offset(cidx, s) - r + NumTxPkts
  BY <1>1, <1>2, OffsetShift
<1>5. \A s \in Slots : InUse(s)' <=> InUse(s) /\ Offset(cidx, s) >= r
  BY <1>1, <1>2, <1>3, <1>4, TxAssumption DEF InUse
<1>6. \A s \in Slots : Unsent(s) => Offset(cidx, s) >= r
  BY <1>1, <1>3, TxAssumption DEF Unsent, Reap
<1>7. \A s \in Slots : Unsent(s)' <=> Unsent(s)
  BY <1>5, <1>6 DEF Unsent
<1>8. \A s \in Slots : InUse(s)' => Offset(cidx', s) = Offset(cidx, s) - r
  BY <1>4, <1>5
<1>. QED  BY <1>1, <1>3, <1>5, <1>6, <1>7, <1>8 DEF InUse

\* Reaping keeps the ring, the chain, the order and the engine's packet.
LEMMA ReapStep ==
  ASSUME TypeOK, RingConsistent, ChainInv, OrderInv, EoqInv, EngineInv,
         NEW r \in 0 .. qlen, Reap(r),
         UNCHANGED <<desc, pidx, hdp, cur, nxt, dma>>
  PROVE  RingConsistent' /\ ChainInv' /\ OrderInv' /\ EoqInv' /\ EngineInv'
<1>1. /\ \A s \in Slots : InUse(s)' <=> InUse(s) /\ Offset(cidx, s) >= r
      /\ \A s \in Slots : Unsent(s)' <=> Unsent(s)
      /\ \A s \in Slots : Unsent(s) => Offset(cidx, s) >= r
      /\ \A s \in Slots : InUse(s)' => Offset(cidx', s) = Offset(cidx, s) - r
      /\ \A s \in Slots : InUse(s) => Offset(cidx, s) \in 0 .. qlen - 1
  BY ReapOffsets
<1>2. /\ cidx \in Slots /\ r \in 0 .. NumTxPkts - 1
      /\ qlen \in 0 .. NumTxPkts - 1 /\ NumTxPkts \in Nat
  BY TxAssumption DEF TypeOK, RingConsistent
<1>3. RingConsistent'
  <2>1. qlen' < NumTxPkts
    BY <1>2 DEF Reap
  <2>2. pidx' = Advance(cidx', qlen')
    <3>1. Advance(Advance(cidx, r), qlen - r) = Advance(cidx, r + (qlen - r))
      BY <1>2, AdvanceTwice
    <3>. QED  BY <1>2, <3>1 DEF Reap, RingConsistent
  <2>3. ASSUME NEW s \in Slots
        PROVE  mbuf'[s] # Nil <=> InUse(s)' /\ desc'[s].sop
    <3>1. mbuf'[s] = IF Offset(cidx, s) < r THEN Nil ELSE mbuf[s]
      BY DEF Reap
    <3>2. Offset(cidx, s) \in Int
      BY <1>2, OffsetType
    <3>. QED  BY <1>1, <1>2, <3>1, <3>2 DEF RingConsistent
  <2>. QED  BY <2>1, <2>2, <2>3 DEF RingConsistent
<1>4. ChainInv'
  <2>. SUFFICES ASSUME NEW s \in Slots, InUse(s)'
       PROVE LET t == Advance(s, 1) IN
             /\ desc[s].own => desc[s].sop
             /\ ~desc[s].eop => desc[s].next = t /\ InUse(t)' /\ ~desc[t].sop
             /\ desc[s].eop => \/ desc[s].next = Nil /\ t = pidx
                               \/ desc[s].next = t /\ InUse(t)' /\ desc[t].sop
    BY DEF ChainInv
  <2>. DEFINE t == Advance(s, 1)
  <2>1. t \in Slots
    BY AdvanceType, <1>2
  <2>2. InUse(s) /\ Offset(cidx, s) >= r /\ Offset(cidx, s) \in 0 .. qlen - 1
    BY <1>1
  <2>3. Offset(cidx, t) = Offset(cidx, s) + 1
    BY <1>2, <2>2, OffsetNext
  <2>4. InUse(t) => InUse(t)'
    BY <1>1, <1>2, <2>1, <2>2, <2>3
  <2>. QED  BY <2>2, <2>4 DEF ChainInv
<1>5. OrderInv'
  <2>. SUFFICES ASSUME NEW s \in Slots, NEW t \in Slots,
                       Unsent(s)', InUse(t)', desc[t].sop,
                       Offset(cidx', s) < Offset(cidx', t)
                PROVE  desc[t].own
    BY DEF OrderInv
  <2>1. Unsent(s) /\ InUse(t) /\ InUse(s)'
    BY <1>1 DEF Unsent
  <2>2. Offset(cidx, s) < Offset(cidx, t)
    BY <1>1, <1>2, <2>1, OffsetType
  <2>. QED  BY <2>1, <2>2 DEF OrderInv
<1>6. EoqInv'
  BY <1>1 DEF EoqInv
<1>7. ASSUME NEW s \in Slots, Oldest(s)
      PROVE  Oldest(s)'
  <2>1. Unsent(s) /\ Unsent(s)' /\ InUse(s)'
    BY <1>1, <1>7 DEF Oldest, Unsent
  <2>2. ASSUME NEW t \in Slots, Offset(cidx', t) < Offset(cidx', s), desc[t].own
        PROVE  FALSE
    <3>1. /\ Offset(cidx, s) \in 0 .. NumTxPkts - 1
          /\ Offset(cidx, t) \in 0 .. NumTxPkts - 1
          /\ Offset(cidx', s) = Offset(cidx, s) - r
          /\ Offset(cidx', t) = IF Offset(cidx, t) >= r
                                  THEN Offset(cidx, t) - r
                                  ELSE Offset(cidx, t) - r + NumTxPkts
      BY <1>1, <1>2, <2>1, OffsetType, OffsetShift DEF Reap
    <3>2. Offset(cidx, t) < Offset(cidx, s)
      BY <1>2, <2>2, <3>1
    <3>. QED  BY <1>7, <2>2, <3>2 DEF Oldest
  <2>. QED  BY <2>1, <2>2 DEF Oldest
<1>8. EngineInv'
  <2>1. dma = "idle" /\ hdp # Nil => Oldest(hdp)'
    BY <1>7 DEF EngineInv, TypeOK
  <2>2. ASSUME dma \in {"busy", "latched"}
        PROVE  /\ Oldest(hdp)'
               /\ cur \in Slots /\ InUse(cur)'
               /\ Offset(cidx', hdp) <= Offset(cidx', cur)
               /\ \A s \in Slots :
                    /\ Offset(cidx', hdp) < Offset(cidx', s)
                    /\ Offset(cidx', s) <= Offset(cidx', cur)
                    => ~desc[s].sop
    <3>1. /\ hdp \in Slots /\ cur \in Slots
          /\ Oldest(hdp) /\ Unsent(hdp) /\ InUse(cur)
          /\ Offset(cidx, hdp) <= Offset(cidx, cur)
      BY <2>2 DEF EngineInv, TypeOK, Oldest, Unsent
    <3>2. /\ Oldest(hdp)' /\ Unsent(hdp)' /\ InUse(hdp)'
          /\ Offset(cidx, hdp) >= r
      BY <1>1, <1>7, <3>1 DEF Unsent
    <3>3. /\ Offset(cidx, cur) \in 0 .. NumTxPkts - 1
          /\ Offset(cidx, hdp) \in 0 .. NumTxPkts - 1
      BY <1>2, <3>1, OffsetType
    <3>4. InUse(cur)'
      BY <1>1, <1>2, <3>1, <3>2, <3>3
    <3>5. /\ Offset(cidx', hdp) = Offset(cidx, hdp) - r
          /\ Offset(cidx', cur) = Offset(cidx, cur) - r
      BY <1>1, <3>1, <3>2, <3>4
    <3>6. ASSUME NEW s \in Slots, Offset(cidx', hdp) < Offset(cidx', s),
                 Offset(cidx', s) <= Offset(cidx', cur)
          PROVE  ~desc[s].sop
      <4>1. /\ Offset(cidx, s) \in 0 .. NumTxPkts - 1
            /\ Offset(cidx', s) = IF Offset(cidx, s) >= r
                                    THEN Offset(cidx, s) - r
                                    ELSE Offset(cidx, s) - r + NumTxPkts
        BY <1>2, OffsetType, OffsetShift DEF Reap
      <4>2. /\ Offset(cidx, hdp) < Offset(cidx, s)
            /\ Offset(cidx, s) <= Offset(cidx, cur)
        BY <1>2, <3>2, <3>3, <3>5, <3>6, <4>1
      <4>. QED  BY <2>2, <4>2 DEF EngineInv
    <3>. QED  BY <1>2, <3>1, <3>2, <3>3, <3>4, <3>5, <3>6
  <2>3. dma = "written" /\ nxt # Nil => Oldest(nxt)'
    BY <1>7 DEF EngineInv, TypeOK
  <2>. QED  BY <2>1, <2>2, <2>3 DEF EngineInv
<1>. QED  BY <1>3, <1>4, <1>5, <1>6, <1>8

-----------------------------------------------------------------------------
(* Building and appending a chain.                                          *)

\* After TxBuild(k) the slots at offsets qlen .. qlen + k - 1 hold the new
\* chain, the slot before them points to it, and nothing else changed.
LEMMA BuildShape ==
  ASSUME TypeOK, LockInv, RingConsistent,
         NEW k \in 1 .. DefragLimit, TxBuild(k)
  PROVE  /\ qlen + k < NumTxPkts
         /\ \A s \in Slots : Offset(cidx, s) \in 0 .. NumTxPkts - 1
         /\ \A s \in Slots : InUse(s)' <=> Offset(cidx, s) < qlen + k
         /\ Offset(cidx, pidx) = qlen
         /\ \A s \in Slots : InUse(s) =>
              /\ desc'[s].own = desc[s].own /\ desc'[s].sop = desc[s].sop
              /\ desc'[s].eop = desc[s].eop /\ desc'[s].eoq = desc[s].eoq
              /\ desc'[s].next =
                   IF Advance(s, 1) = pidx THEN pidx ELSE desc[s].next
         /\ \A s \in Slots : InUse(s)' /\ ~InUse(s) =>
              /\ desc'[s].own <=> Offset(cidx, s) = qlen
              /\ desc'[s].sop <=> Offset(cidx, s) = qlen
              /\ desc'[s].eop <=> Offset(cidx, s) = qlen + k - 1
              /\ ~desc'[s].eoq
              /\ desc'[s].next = IF Offset(cidx, s) = qlen + k - 1
                                  THEN Nil ELSE Advance(s, 1)
         /\ desc'[Before(pidx)].eoq = desc[Before(pidx)].eoq
<1>1. /\ cidx \in Slots /\ pidx \in Slots /\ pidx = Advance(cidx, qlen)
      /\ qlen \in 0 .. NumTxPkts - 1 /\ NumTxPkts \in Nat /\ DefragLimit \in Nat
      /\ qlen + k < NumTxPkts
      /\ k \in 1 .. NumTxPkts - 1
  BY TxAssumption DEF TypeOK, RingConsistent, TxBuild, LockInv, HasRoom
<1>2. \A s \in Slots : Offset(cidx, s) \in 0 .. NumTxPkts - 1
  BY <1>1, OffsetType
<1>3. \A s \in Slots : InUse(s)' <=> Offset(cidx, s) < qlen + k
  BY DEF TxBuild, InUse
<1>4. Offset(cidx, pidx) = qlen
  BY <1>1, OffsetAdvance
<1>5. \A s \in Slots : Offset(pidx, s) =
        IF Offset(cidx, s) >= qlen THEN Offset(cidx, s) - qlen
                                   ELSE Offset(cidx, s) - qlen + NumTxPkts
  BY <1>1, OffsetShift
<1>6. \A s \in Slots : Offset(pidx, s) < k <=>
        Offset(cidx, s) >= qlen /\ Offset(cidx, s) < qlen + k
  <2>. SUFFICES ASSUME NEW s \in Slots
       PROVE  Offset(pidx, s) < k <=>
                Offset(cidx, s) >= qlen /\ Offset(cidx, s) < qlen + k
    OBVIOUS
  <2>. QED  BY <1>1, <1>2, <1>5
<1>7. \A s \in Slots : ~(Offset(pidx, s) < k) =>
        desc'[s] = IF s = Before(pidx)
                     THEN [desc[s] EXCEPT !.next = pidx] ELSE desc[s]
  BY DEF TxBuild
<1>8. \A s \in Slots : Offset(pidx, s) < k =>
        LET i == Offset(pidx, s) IN
        desc'[s] = [own |-> i = 0, sop |-> i = 0, eop |-> i = k - 1,
                    eoq |-> FALSE,
                    next |-> IF i = k - 1 THEN Nil ELSE Advance(s, 1)]
  BY DEF TxBuild
<1>9. ASSUME NEW s \in Slots, InUse(s)
      PROVE  /\ desc'[s].own = desc[s].own /\ desc'[s].sop = desc[s].sop
             /\ desc'[s].eop = desc[s].eop /\ desc'[s].eoq = desc[s].eoq
             /\ desc'[s].next =
                  IF Advance(s, 1) = pidx THEN pidx ELSE desc[s].next
  <2>1. ~(Offset(pidx, s) < k)
    BY <1>1, <1>2, <1>6, <1>9 DEF InUse
  <2>2. s = Before(pidx) <=> Advance(s, 1) = pidx
    BY <1>1, BeforeType
  <2>3. desc'[s] = IF s = Before(pidx)
                     THEN [desc[s] EXCEPT !.next = pidx] ELSE desc[s]
    BY <1>7, <2>1
  <2>4. desc[s] \in [own : BOOLEAN, sop : BOOLEAN, eop : BOOLEAN,
                    eoq : BOOLEAN, next : Slots \cup {Nil}]
    BY DEF TypeOK
  <2>. QED  BY <2>2, <2>3, <2>4
<1>10. ASSUME NEW s \in Slots, InUse(s)', ~InUse(s)
       PROVE  /\ desc'[s].own <=> Offset(cidx, s) = qlen
              /\ desc'[s].sop <=> Offset(cidx, s) = qlen
              /\ desc'[s].eop <=> Offset(cidx, s) = qlen + k - 1
              /\ ~desc'[s].eoq
              /\ desc'[s].next = IF Offset(cidx, s) = qlen + k - 1
                                  THEN Nil ELSE Advance(s, 1)
  <2>1. Offset(cidx, s) >= qlen
    BY <1>1, <1>2, <1>10 DEF InUse
  <2>2. /\ Offset(pidx, s) = Offset(cidx, s) - qlen
        /\ Offset(pidx, s) < k
    BY <1>3, <1>5, <1>6, <1>10, <2>1
  <2>3. /\ Offset(pidx, s) = 0 <=> Offset(cidx, s) = qlen
        /\ Offset(pidx, s) = k - 1 <=> Offset(cidx, s) = qlen + k - 1
    BY <1>1, <1>2, <2>2
  <2>. DEFINE first == Offset(pidx, s) = 0
              last  == Offset(pidx, s) = k - 1
              after == IF last THEN Nil ELSE Advance(s, 1)
  <2>4. desc'[s] = [own |-> first, sop |-> first, eop |-> last, eoq |-> FALSE,
                    next |-> after]
    BY <1>8, <2>2
  <2>5. /\ desc'[s].own = first /\ desc'[s].sop = first
        /\ desc'[s].eop = last /\ desc'[s].eoq = FALSE
        /\ desc'[s].next = after
    <3>. HIDE DEF first, last, after
    <3>. QED  BY <2>4
  <2>. QED  BY <2>3, <2>5
<1>11. desc'[Before(pidx)].eoq = desc[Before(pidx)].eoq
  <2>1. Before(pidx) \in Slots /\ Advance(Before(pidx), 1) = pidx
    BY <1>1, BeforeType
  <2>2. Offset(pidx, Before(pidx)) = NumTxPkts - 1
    BY <1>1 DEF Offset, Before, Slots
  <2>3. ~(Offset(pidx, Before(pidx)) < k)
    BY <1>1, <2>2
  <2>4. desc[Before(pidx)] \in [own : BOOLEAN, sop : BOOLEAN, eop : BOOLEAN,
                               eoq : BOOLEAN, next : Slots \cup {Nil}]
    BY <2>1 DEF TypeOK
  <2>. QED  BY <1>7, <2>1, <2>3, <2>4
<1>. QED  BY <1>1, <1>2, <1>3, <1>4, <1>9, <1>10, <1>11

\* A new chain is in use, starts at the old tx_pidx, is owned by the DMA, and
\* what was unsent before still is; its last descriptor has no EOQ.
LEMMA BuildOwn ==
  ASSUME TypeOK, LockInv, RingConsistent,
         NEW k \in 1 .. DefragLimit, TxBuild(k),
         NEW p \in Slots, p = pidx
  PROVE  /\ \A s \in Slots : InUse(s) => InUse(s)'
         /\ \A s \in Slots : Unsent(s)' <=> Unsent(s) \/ s = p
         /\ InUse(p)' /\ ~InUse(p) /\ desc'[p].sop /\ desc'[p].own
         /\ \A s \in Slots : Oldest(s) => Oldest(s)'
         /\ ~desc'[Before(pidx')].eoq
         /\ pidx' \in Slots /\ pidx' = Advance(cidx, qlen + k)
<1>1. /\ qlen + k < NumTxPkts
      /\ \A s \in Slots : Offset(cidx, s) \in 0 .. NumTxPkts - 1
      /\ \A s \in Slots : InUse(s)' <=> Offset(cidx, s) < qlen + k
      /\ Offset(cidx, pidx) = qlen
      /\ \A s \in Slots : InUse(s) =>
            desc'[s].own = desc[s].own /\ desc'[s].sop = desc[s].sop
      /\ \A s \in Slots : InUse(s)' /\ ~InUse(s) =>
              /\ desc'[s].own <=> Offset(cidx, s) = qlen
              /\ desc'[s].sop <=> Offset(cidx, s) = qlen
              /\ desc'[s].eop <=> Offset(cidx, s) = qlen + k - 1
              /\ ~desc'[s].eoq
              /\ desc'[s].next = IF Offset(cidx, s) = qlen + k - 1
                                  THEN Nil ELSE Advance(s, 1)
  BY BuildShape
<1>2. /\ cidx \in Slots /\ pidx \in Slots /\ pidx = Advance(cidx, qlen)
      /\ qlen \in 0 .. NumTxPkts - 1 /\ NumTxPkts \in Nat
      /\ k \in 1 .. NumTxPkts - 1 /\ cidx' = cidx /\ qlen' = qlen + k
      /\ pidx' = Advance(pidx, k)
  BY TxAssumption DEF TypeOK, RingConsistent, TxBuild
<1>3. \A s \in Slots : InUse(s) <=> Offset(cidx, s) < qlen
  BY DEF InUse
<1>4. \A s \in Slots : InUse(s) => InUse(s)'
  BY <1>1, <1>2, <1>3
<1>5. InUse(p)' /\ ~InUse(p) /\ desc'[p].sop /\ desc'[p].own
  BY <1>1, <1>2, <1>3
<1>6. ASSUME NEW s \in Slots, InUse(s)', ~InUse(s), s # pidx
      PROVE  ~desc'[s].own
  <2>1. Offset(cidx, s) # Offset(cidx, pidx)
    BY <1>2, <1>6, OffsetInjective
  <2>. QED  BY <1>1, <1>2, <1>6, <2>1
<1>7. \A s \in Slots : Unsent(s)' <=> Unsent(s) \/ s = p
  BY <1>1, <1>4, <1>5, <1>6 DEF Unsent
<1>8. ASSUME NEW s \in Slots, Oldest(s)
      PROVE  Oldest(s)'
  <2>1. Unsent(s) /\ InUse(s) /\ Unsent(s)'
    BY <1>7, <1>8 DEF Oldest, Unsent
  <2>2. ASSUME NEW t \in Slots, Offset(cidx', t) < Offset(cidx', s)
        PROVE  ~desc'[t].own
    <3>1. InUse(t) /\ ~desc[t].own
      BY <1>1, <1>2, <1>3, <1>8, <2>1, <2>2 DEF Oldest
    <3>. QED  BY <1>1, <3>1
  <2>. QED  BY <2>1, <2>2 DEF Oldest
<1>9. pidx' \in Slots /\ pidx' = Advance(cidx, qlen + k)
  BY <1>1, <1>2, AdvanceTwice, AdvanceType
<1>10. ~desc'[Before(pidx')].eoq
  <2>1. Before(pidx') \in Slots /\ Advance(Before(pidx'), 1) = pidx'
    BY <1>9, BeforeType
  <2>2. Offset(cidx, pidx') = qlen + k
    BY <1>1, <1>2, <1>9, OffsetAdvance
  <2>3. Offset(cidx, Before(pidx')) = qlen + k - 1
    BY <1>1, <1>2, <2>1, <2>2, OffsetNext
  <2>. QED  BY <1>1, <1>2, <1>3, <2>1, <2>3
<1>. QED  BY <1>4, <1>5, <1>7, <1>8, <1>9, <1>10

\* Building keeps the ring and the chain.
LEMMA BuildRing ==
  ASSUME TypeOK, LockInv, RingConsistent, ChainInv, OrderInv,
         NEW k \in 1 .. DefragLimit, TxBuild(k)
  PROVE  RingConsistent' /\ ChainInv' /\ OrderInv'
<1>0. PICK p \in Slots : p = pidx
  BY DEF TypeOK
<1>1. /\ qlen + k < NumTxPkts
      /\ \A s \in Slots : Offset(cidx, s) \in 0 .. NumTxPkts - 1
      /\ \A s \in Slots : InUse(s)' <=> Offset(cidx, s) < qlen + k
      /\ Offset(cidx, pidx) = qlen
      /\ \A s \in Slots : InUse(s) =>
              /\ desc'[s].own = desc[s].own /\ desc'[s].sop = desc[s].sop
              /\ desc'[s].eop = desc[s].eop
              /\ desc'[s].next =
                   IF Advance(s, 1) = pidx THEN pidx ELSE desc[s].next
      /\ \A s \in Slots : InUse(s)' /\ ~InUse(s) =>
              /\ desc'[s].own <=> Offset(cidx, s) = qlen
              /\ desc'[s].sop <=> Offset(cidx, s) = qlen
              /\ desc'[s].eop <=> Offset(cidx, s) = qlen + k - 1
              /\ ~desc'[s].eoq
              /\ desc'[s].next = IF Offset(cidx, s) = qlen + k - 1
                                  THEN Nil ELSE Advance(s, 1)
  BY BuildShape
<1>2. /\ \A s \in Slots : InUse(s) => InUse(s)'
      /\ \A s \in Slots : Unsent(s)' <=> Unsent(s) \/ s = p
      /\ InUse(p)' /\ ~InUse(p) /\ desc'[p].sop /\ desc'[p].own
      /\ pidx' \in Slots /\ pidx' = Advance(cidx, qlen + k)
  BY <1>0, BuildOwn
<1>3. /\ cidx \in Slots /\ pidx \in Slots /\ pidx = Advance(cidx, qlen)
      /\ qlen \in 0 .. NumTxPkts - 1 /\ NumTxPkts \in Nat
      /\ k \in 1 .. NumTxPkts - 1 /\ cidx' = cidx /\ qlen' = qlen + k
      /\ m # Nil
  BY TxAssumption DEF TypeOK, RingConsistent, TxBuild, LockInv
<1>4. \A s \in Slots : InUse(s) <=> Offset(cidx, s) < qlen
  BY DEF InUse
<1>5. \A s \in Slots : InUse(s)' /\ ~InUse(s) /\ s # pidx =>
        Offset(cidx, s) > qlen
  BY <1>1, <1>3, <1>4, OffsetInjective
<1>6. RingConsistent'
  <2>1. ASSUME NEW s \in Slots
        PROVE  mbuf'[s] # Nil <=> InUse(s)' /\ desc'[s].sop
    <3>1. mbuf'[s] = IF s = pidx THEN m ELSE mbuf[s]
      BY DEF TxBuild, TypeOK
    <3>2. CASE s = pidx
      BY <1>0, <1>2, <1>3, <3>1, <3>2
    <3>3. CASE InUse(s)
      BY <1>0, <1>1, <1>2, <3>1, <3>3 DEF RingConsistent
    <3>4. CASE ~InUse(s) /\ s # pidx
      <4>1. mbuf'[s] = Nil
        BY <3>1, <3>4 DEF RingConsistent
      <4>2. InUse(s)' => ~desc'[s].sop
        BY <1>1, <1>3, <1>5, <3>4
      <4>. QED  BY <4>1, <4>2
    <3>. QED  BY <3>2, <3>3, <3>4
  <2>. QED  BY <1>0, <1>1, <1>2, <1>3, <2>1 DEF RingConsistent
<1>7. ChainInv'
  <2>. SUFFICES ASSUME NEW s \in Slots, InUse(s)'
       PROVE LET t == Advance(s, 1) IN
             /\ desc'[s].own => desc'[s].sop
             /\ ~desc'[s].eop => desc'[s].next = t /\ InUse(t)' /\ ~desc'[t].sop
             /\ desc'[s].eop => \/ desc'[s].next = Nil /\ t = pidx'
                                \/ desc'[s].next = t /\ InUse(t)' /\ desc'[t].sop
    BY DEF ChainInv
  <2>. DEFINE t == Advance(s, 1)
  <2>1. t \in Slots
    BY AdvanceType, <1>3
  <2>2. CASE InUse(s)
    <3>1. t = pidx => desc[s].eop
      BY <1>0, <1>2, <2>2 DEF ChainInv
    <3>2. t # pidx => InUse(t)
      BY <2>2 DEF ChainInv
    <3>3. CASE t = pidx
      BY <1>0, <1>1, <1>2, <2>2, <3>1, <3>3 DEF ChainInv
    <3>4. CASE t # pidx
      BY <1>0, <1>1, <1>2, <2>1, <2>2, <3>2, <3>4 DEF ChainInv
    <3>. QED  BY <3>3, <3>4
  <2>3. CASE ~InUse(s)
    <3>. DEFINE i == Offset(cidx, s) - qlen
    <3>1. /\ desc'[s].own <=> i = 0
          /\ desc'[s].sop <=> i = 0
          /\ desc'[s].eop <=> i = k - 1
          /\ desc'[s].next = IF i = k - 1 THEN Nil ELSE t
          /\ i \in 0 .. k - 1
      BY <1>1, <1>3, <1>4, <2>3
    <3>2. Offset(cidx, t) = qlen + i + 1
      BY <1>1, <1>3, <3>1, OffsetNext
    <3>3. i = k - 1 => t = pidx'
      <4>1. Offset(cidx, pidx') = qlen + k
        BY <1>0, <1>1, <1>2, <1>3, OffsetAdvance
      <4>. QED  BY <1>0, <1>2, <1>3, <2>1, <3>1, <3>2, <4>1, OffsetInjective
    <3>4. i # k - 1 => InUse(t)' /\ ~desc'[t].sop
      <4>1. i # k - 1 => InUse(t)' /\ ~InUse(t)
        BY <1>1, <1>3, <1>4, <2>1, <3>1, <3>2
      <4>. QED  BY <1>1, <1>3, <2>1, <3>1, <3>2, <4>1
    <3>. HIDE DEF i
    <3>. QED  BY <3>1, <3>3, <3>4
  <2>. QED  BY <2>2, <2>3
<1>8. OrderInv'
  <2>. SUFFICES ASSUME NEW s \in Slots, NEW t \in Slots,
                       Unsent(s)', InUse(t)', desc'[t].sop,
                       Offset(cidx, s) < Offset(cidx, t)
                PROVE  desc'[t].own
    BY <1>3 DEF OrderInv
  <2>1. CASE InUse(t)
    <3>1. s # pidx
      BY <1>1, <1>3, <1>4, <2>1
    <3>2. Unsent(s)
      BY <1>0, <1>2, <3>1
    <3>. QED  BY <1>1, <2>1, <3>2 DEF OrderInv
  <2>2. CASE ~InUse(t)
    BY <1>1, <2>2
  <2>. QED  BY <2>1, <2>2
<1>. QED  BY <1>6, <1>7, <1>8

\* Building keeps the engine's packet, and the engine either follows the new
\* chain, or missed it and the caller will see EOQ, or has yet to stop.
LEMMA BuildEngine ==
  ASSUME TypeOK, LockInv, RingConsistent, ChainInv, EngineInv, EoqInv,
         StallIsNoticed,
         NEW k \in 1 .. DefragLimit, TxBuild(k)
  PROVE  EngineInv' /\ AppendInv' /\ EoqInv' /\ StallIsNoticed'
<1>0. PICK p \in Slots : p = pidx
  BY DEF TypeOK
<1>1. /\ \A s \in Slots : Offset(cidx, s) \in 0 .. NumTxPkts - 1
      /\ Offset(cidx, pidx) = qlen
      /\ \A s \in Slots : InUse(s) =>
              /\ desc'[s].sop = desc[s].sop
              /\ desc'[s].eop = desc[s].eop
              /\ desc'[s].next =
                   IF Advance(s, 1) = pidx THEN pidx ELSE desc[s].next
      /\ desc'[Before(pidx)].eoq = desc[Before(pidx)].eoq
  BY BuildShape
<1>2. /\ \A s \in Slots : InUse(s) => InUse(s)'
      /\ \A s \in Slots : Unsent(s)' <=> Unsent(s) \/ s = p
      /\ InUse(p)' /\ ~InUse(p) /\ desc'[p].sop /\ desc'[p].own
      /\ \A s \in Slots : Oldest(s) => Oldest(s)'
      /\ ~desc'[Before(pidx')].eoq
  BY <1>0, BuildOwn
<1>3. /\ UNCHANGED <<cidx, hdp, cur, nxt, dma, pend, irq>>
      /\ pc = "tx" /\ pc' = "hdp" /\ start' = pidx
      /\ pidx \in Slots /\ cidx \in Slots /\ NumTxPkts \in Nat /\ qlen \in Nat
  BY TxAssumption DEF TxBuild, TypeOK, chan, work
<1>4. hdp \in Slots \cup {Nil} /\ nxt \in Slots \cup {Nil} /\ cur \in Slots \cup {Nil}
  BY DEF TypeOK
<1>5. EngineInv'
  <2>1. dma \in {"busy", "latched"} => hdp \in Slots /\ cur \in Slots
    BY <1>4 DEF EngineInv
  <2>2. dma = "latched" => desc'[cur].eop /\ nxt \in {Nil, desc'[cur].next}
    <3>. SUFFICES ASSUME dma = "latched"
         PROVE  desc'[cur].eop /\ nxt \in {Nil, desc'[cur].next}
      OBVIOUS
    <3>1. InUse(cur) /\ cur \in Slots /\ desc[cur].eop /\ nxt \in {Nil, desc[cur].next}
      BY <2>1 DEF EngineInv
    <3>2. Advance(cur, 1) = pidx => desc[cur].next = Nil
      BY <1>0, <1>2, <3>1 DEF ChainInv
    <3>. QED  BY <1>1, <3>1, <3>2
  <2>3. dma \in {"busy", "latched"} =>
          \A s \in Slots :
            /\ Offset(cidx, hdp) < Offset(cidx, s)
            /\ Offset(cidx, s) <= Offset(cidx, cur)
            => ~desc'[s].sop
    <3>. SUFFICES ASSUME dma \in {"busy", "latched"}, NEW s \in Slots,
                         Offset(cidx, hdp) < Offset(cidx, s),
                         Offset(cidx, s) <= Offset(cidx, cur)
         PROVE  ~desc'[s].sop
      OBVIOUS
    <3>1. InUse(cur) /\ ~desc[s].sop
      BY DEF EngineInv
    <3>2. InUse(s)
      BY <1>1, <1>3, <2>1, <3>1 DEF InUse
    <3>. QED  BY <1>1, <3>1, <3>2
  <2>. QED  BY <1>0, <1>2, <1>3, <1>4, <2>1, <2>2, <2>3 DEF EngineInv
<1>6. EoqInv'
  BY <1>0, <1>2, <1>3 DEF EoqInv
<1>7. desc[Before(pidx)].eoq => Stopped
  <2>. SUFFICES ASSUME desc[Before(pidx)].eoq, ~Stopped PROVE FALSE
    OBVIOUS
  <2>1. \A s \in Slots : ~Unsent(s)
    BY DEF EoqInv
  <2>2. \A s \in Slots : ~Oldest(s)
    BY <2>1 DEF Oldest
  <2>3. dma \in {"idle", "busy", "latched", "written"} /\ hdp \in Slots
    BY <1>4 DEF TypeOK, Stopped
  <2>. QED  BY <1>4, <2>2, <2>3 DEF EngineInv, Stopped
<1>8. desc[Before(pidx)].eoq => Oldest(p)'
  <2>. SUFFICES ASSUME desc[Before(pidx)].eoq PROVE Oldest(p)'
    OBVIOUS
  <2>1. \A s \in Slots : ~Unsent(s)
    BY DEF EoqInv
  <2>2. ASSUME NEW t \in Slots, Offset(cidx, t) < Offset(cidx, pidx)
        PROVE  ~desc'[t].own
    <3>1. InUse(t) /\ InUse(t)' /\ t # pidx
      BY <1>0, <1>1, <1>2, <1>3, <2>2 DEF InUse
    <3>2. ~Unsent(t)'
      BY <1>0, <1>2, <2>1, <3>1
    <3>. QED  BY <3>1, <3>2 DEF Unsent
  <2>. QED  BY <1>0, <1>2, <1>3, <2>2 DEF Oldest
<1>9. AppendInv'
  <2>1. Stopped' <=> Stopped
    BY <1>3 DEF Stopped
  <2>. QED  BY <1>0, <1>1, <1>2, <1>3, <1>7, <1>8, <2>1 DEF AppendInv
<1>10. StallIsNoticed'
  <2>. SUFFICES ASSUME hdp = Nil, ~desc[Before(pidx)].eoq
                PROVE  pend \/ irq = "queued"
    BY <1>1, <1>3 DEF StallIsNoticed
  <2>. QED  BY <1>3 DEF StallIsNoticed, EoqInv
<1>. QED  BY <1>5, <1>6, <1>9, <1>10

-----------------------------------------------------------------------------
(* Steps that leave the ring alone.                                         *)

\* The invariants of the ring depend on the descriptors and the ring only.
LEMMA RingFrame ==
  ASSUME RingConsistent, ChainInv, OrderInv, EoqInv, UNCHANGED <<desc, ring>>
  PROVE  RingConsistent' /\ ChainInv' /\ OrderInv' /\ EoqInv'
<1>1. RingConsistent'
  BY DEF RingConsistent, InUse, ring
<1>2. ChainInv'
  BY DEF ChainInv, InUse, ring
<1>3. OrderInv'
  BY DEF OrderInv, Unsent, InUse, ring
<1>4. EoqInv'
  BY DEF EoqInv, Unsent, InUse, ring
<1>. QED  BY <1>1, <1>2, <1>3, <1>4

\* That of the engine depends on its registers too.
LEMMA EngineFrame ==
  ASSUME EngineInv, UNCHANGED <<desc, ring, hdp, cur, nxt, dma>>
  PROVE  EngineInv'
BY DEF EngineInv, Oldest, Unsent, InUse, ring

\* The window of ti814x_tx between the append and the kick is left, or kept.
LEMMA AppendFrame ==
  ASSUME AppendInv, UNCHANGED <<desc, ring, start, hdp, nxt, dma>>,
         pc' \in {"hdp", "eoq"} => pc \in {"hdp", "eoq"},
         pc' \in {"eoq", "scan"} => hdp = Nil
  PROVE  AppendInv'
BY DEF AppendInv, Stopped, Oldest, Unsent, InUse, ring

\* A stall that somebody will notice stays so while nobody loses his reason.
LEMMA StallFrame ==
  ASSUME StallIsNoticed, UNCHANGED <<desc, ring, start, hdp>>,
         pend => pend' \/ pc' = "check",
         irq = "queued" => irq' = "queued" \/ pc' = "ack",
         hdp = Nil /\ pc \in {"ack", "check", "scan"} =>
           pc' \in {"ack", "check", "scan"},
         hdp = Nil /\ pc \in {"hdp", "eoq"} => pc' \in {"hdp", "eoq"}
  PROVE  StallIsNoticed'
<1>1. hdp' = hdp /\ \A s \in Slots : Unsent(s)' <=> Unsent(s)
  BY DEF Unsent, InUse, ring
<1>. QED  BY <1>1 DEF StallIsNoticed

-----------------------------------------------------------------------------
(* The DMA engine.                                                          *)

\* The engine takes up the chain, walks along it and latches its end.
LEMMA DmaWalk ==
  ASSUME TypeOK, LockInv, RingConsistent, ChainInv, OrderInv, EngineInv,
         AppendInv, DmaBegin \/ DmaNext \/ DmaLatch
  PROVE  EngineInv' /\ AppendInv'
<1>1. /\ UNCHANGED <<desc, mbuf, pidx, cidx, qlen, hdp, pc, start>>
      /\ dma' \in {"busy", "latched"}
  BY DEF DmaBegin, DmaNext, DmaLatch, ring, stack, sync
<1>2. \A s \in Slots : Oldest(s)' <=> Oldest(s)
  BY <1>1 DEF Oldest, Unsent, InUse
<1>3. /\ cidx \in Slots /\ qlen \in 0 .. NumTxPkts - 1 /\ NumTxPkts \in Nat
      /\ hdp \in Slots \cup {Nil} /\ nxt \in Slots \cup {Nil}
      /\ cur \in Slots \cup {Nil}
  BY TxAssumption DEF TypeOK, RingConsistent
<1>4. \A s \in Slots : Offset(cidx, s) \in 0 .. NumTxPkts - 1
  BY <1>3, OffsetType
<1>5. CASE DmaBegin
  <2>1. /\ hdp \in Slots /\ cur' = hdp /\ Oldest(hdp) /\ InUse(hdp)
        /\ dma' = "busy" /\ nxt' = nxt /\ dma = "idle"
    BY <1>3, <1>5 DEF DmaBegin, EngineInv, Oldest, Unsent
  <2>2. EngineInv'
    BY <1>1, <1>2, <1>3, <1>4, <2>1, TxAssumption DEF EngineInv, InUse, Slots
  <2>3. ~Stopped
    BY <2>1, TxAssumption DEF Stopped, Slots
  <2>4. pc \notin {"eoq", "scan"}
    BY <2>1, TxAssumption DEF AppendInv, Slots
  <2>5. AppendInv'
    BY <1>1, <2>3, <2>4 DEF AppendInv, InUse
  <2>. QED  BY <2>2, <2>5
<1>6. dma \in {"busy", "latched"} => hdp \in Slots /\ cur \in Slots
  BY <1>3 DEF EngineInv
<1>7. dma \in {"busy", "latched"} => ~Stopped /\ ~Stopped'
  BY <1>1, <1>6, TxAssumption DEF Stopped, Slots
<1>8. dma \in {"busy", "latched"} => AppendInv'
  BY <1>1, <1>2, <1>7 DEF AppendInv, InUse
<1>9. CASE DmaNext
  <2>1. /\ dma = "busy" /\ dma' = "busy" /\ ~desc[cur].eop
        /\ cur' = desc[cur].next /\ nxt' = nxt
    BY <1>9 DEF DmaNext
  <2>2. /\ hdp \in Slots /\ cur \in Slots /\ Oldest(hdp) /\ InUse(cur)
        /\ Offset(cidx, hdp) <= Offset(cidx, cur)
        /\ \A s \in Slots :
             /\ Offset(cidx, hdp) < Offset(cidx, s)
             /\ Offset(cidx, s) <= Offset(cidx, cur)
             => ~desc[s].sop
    BY <1>6, <2>1 DEF EngineInv
  <2>3. PICK t \in Slots : t = Advance(cur, 1)
    BY <1>3, <2>2, AdvanceType
  <2>4. cur' = t /\ InUse(t) /\ ~desc[t].sop
    BY <2>1, <2>2, <2>3 DEF ChainInv
  <2>5. Offset(cidx, t) = Offset(cidx, cur) + 1
    BY <1>3, <1>4, <2>2, <2>3, OffsetNext DEF InUse
  <2>6. ASSUME NEW s \in Slots,
               Offset(cidx, hdp) < Offset(cidx, s),
               Offset(cidx, s) <= Offset(cidx, t)
        PROVE  ~desc[s].sop
    <3>1. CASE Offset(cidx, s) = Offset(cidx, t)
      BY <1>3, <2>4, <3>1, OffsetInjective
    <3>2. CASE Offset(cidx, s) # Offset(cidx, t)
      BY <1>4, <2>2, <2>5, <2>6, <3>2
    <3>. QED  BY <3>1, <3>2
  <2>7. Offset(cidx, hdp) <= Offset(cidx, t)
    BY <1>4, <2>2, <2>5
  <2>8. InUse(t)' <=> InUse(t)
    BY <1>1 DEF InUse
  <2>9. EngineInv'
    BY <1>1, <1>2, <2>1, <2>2, <2>4, <2>6, <2>7, <2>8 DEF EngineInv, InUse
  <2>. QED  BY <1>8, <2>1, <2>9
<1>10. CASE DmaLatch
  <2>1. /\ dma = "busy" /\ dma' = "latched" /\ desc[cur].eop
        /\ cur' = cur /\ nxt' = desc[cur].next
    BY <1>10 DEF DmaLatch
  <2>2. EngineInv'
    BY <1>1, <1>2, <1>6, <2>1 DEF EngineInv, InUse
  <2>. QED  BY <1>8, <2>1, <2>2
<1>. QED  BY <1>5, <1>9, <1>10

\* Writing the flags back releases the oldest packet; what follows it is the
\* oldest now, and EOQ is left behind exactly when nothing was latched.
LEMMA DmaRelease ==
  ASSUME TypeOK, LockInv, RingConsistent, ChainInv, OrderInv, EngineInv,
         AppendInv, EoqInv, StallIsNoticed, DmaWriteBack
  PROVE  /\ RingConsistent' /\ ChainInv' /\ OrderInv'
         /\ EngineInv' /\ AppendInv' /\ EoqInv' /\ StallIsNoticed'
<1>1. /\ UNCHANGED <<mbuf, pidx, cidx, qlen, hdp, cur, nxt, pc, start>>
      /\ dma = "latched" /\ dma' = "written"
  BY DEF DmaWriteBack, ring, stack, sync
<1>2. ASSUME NEW s \in Slots
      PROVE  /\ desc'[s].own <=> desc[s].own /\ s # hdp
             /\ desc'[s].eoq <=> desc[s].eoq \/ (s = cur /\ nxt = Nil)
             /\ desc'[s].sop = desc[s].sop /\ desc'[s].eop = desc[s].eop
             /\ desc'[s].next = desc[s].next
  <2>. DEFINE own == desc[s].own /\ s # hdp
              eoq == desc[s].eoq \/ (s = cur /\ nxt = Nil)
  <2>1. desc'[s] = [desc[s] EXCEPT !.own = own, !.eoq = eoq]
    BY Zenon DEF DmaWriteBack
  <2>2. desc[s] \in [own : BOOLEAN, sop : BOOLEAN, eop : BOOLEAN,
                    eoq : BOOLEAN, next : Slots \cup {Nil}]
    BY DEF TypeOK
  <2>3. /\ desc'[s].own = own /\ desc'[s].eoq = eoq
        /\ desc'[s].sop = desc[s].sop /\ desc'[s].eop = desc[s].eop
        /\ desc'[s].next = desc[s].next
    <3>. HIDE DEF own, eoq
    <3>. QED  BY <2>1, <2>2
  <2>. QED  BY <2>3
<1>3. /\ cidx \in Slots /\ pidx \in Slots /\ pidx = Advance(cidx, qlen)
      /\ qlen \in 0 .. NumTxPkts - 1 /\ NumTxPkts \in Nat
      /\ nxt \in Slots \cup {Nil} /\ hdp \in Slots /\ cur \in Slots
  BY <1>1, TxAssumption DEF TypeOK, RingConsistent, EngineInv
<1>4. \A s \in Slots : Offset(cidx, s) \in 0 .. NumTxPkts - 1
  BY <1>3, OffsetType
<1>5. /\ Oldest(hdp) /\ Unsent(hdp) /\ InUse(hdp) /\ desc[hdp].own
      /\ InUse(cur) /\ Offset(cidx, hdp) <= Offset(cidx, cur)
      /\ \A s \in Slots :
            /\ Offset(cidx, hdp) < Offset(cidx, s)
            /\ Offset(cidx, s) <= Offset(cidx, cur)
            => ~desc[s].sop
      /\ desc[cur].eop /\ nxt \in {Nil, desc[cur].next}
  BY <1>1, <1>3 DEF EngineInv, Oldest, Unsent
<1>6. \A s \in Slots : InUse(s)' <=> InUse(s)
  BY <1>1 DEF InUse
<1>7. \A s \in Slots : Unsent(s)' <=> Unsent(s) /\ s # hdp
  BY <1>2, <1>6 DEF Unsent
<1>8. \A s \in Slots : Unsent(s)' => Offset(cidx, s) > Offset(cidx, cur)
  <2>. SUFFICES ASSUME NEW s \in Slots, Unsent(s), s # hdp
                PROVE  Offset(cidx, s) > Offset(cidx, cur)
    BY <1>7
  <2>1. desc[s].own /\ desc[s].sop
    BY DEF Unsent, ChainInv
  <2>2. Offset(cidx, s) > Offset(cidx, hdp)
    BY <1>3, <1>4, <1>5, <2>1, OffsetInjective DEF Oldest
  <2>. QED  BY <1>3, <1>4, <1>5, <2>1, <2>2
<1>9. PICK t \in Slots : t = Advance(cur, 1)
  BY <1>3, AdvanceType
<1>10. InUse(t) => Offset(cidx, t) = Offset(cidx, cur) + 1
  BY <1>3, <1>4, <1>5, <1>9, OffsetNext DEF InUse
<1>11. \/ desc[cur].next = Nil /\ t = pidx
       \/ desc[cur].next = t /\ InUse(t) /\ desc[t].sop
  BY <1>3, <1>5, <1>9 DEF ChainInv
<1>12. InUse(t) => Oldest(t)'
  <2>. SUFFICES ASSUME InUse(t) PROVE Oldest(t)'
    OBVIOUS
  <2>1. ~InUse(pidx)
    BY <1>3, OffsetAdvance DEF InUse
  <2>2. desc[t].sop
    BY <1>11, <2>1
  <2>3. Offset(cidx, hdp) < Offset(cidx, t)
    BY <1>3, <1>4, <1>5, <1>10
  <2>4. Unsent(t) /\ t # hdp
    BY <1>3, <1>4, <1>5, <2>2, <2>3 DEF OrderInv, Unsent
  <2>5. ASSUME NEW s \in Slots, Offset(cidx, s) < Offset(cidx, t), desc'[s].own
        PROVE  FALSE
    <3>1. InUse(s)
      BY <1>3, <1>4, <2>5 DEF InUse
    <3>2. Unsent(s)'
      BY <1>6, <2>5, <3>1 DEF Unsent
    <3>. QED  BY <1>3, <1>4, <1>8, <1>10, <2>5, <3>2
  <2>. QED  BY <1>1, <1>7, <2>4, <2>5 DEF Oldest
<1>13. RingConsistent'
  BY <1>1, <1>2, <1>6 DEF RingConsistent
<1>14. ChainInv'
  <2>1. \A s \in Slots : Advance(s, 1) \in Slots
    BY AdvanceType, <1>3
  <2>. QED  BY <1>1, <1>2, <1>6, <2>1 DEF ChainInv
<1>15. OrderInv'
  <2>. SUFFICES ASSUME NEW s \in Slots, NEW u \in Slots,
                       Unsent(s)', InUse(u)', desc'[u].sop,
                       Offset(cidx, s) < Offset(cidx, u)
                PROVE  desc'[u].own
    BY <1>1 DEF OrderInv
  <2>1. Unsent(s) /\ InUse(u) /\ desc[u].sop
    BY <1>2, <1>6, <1>7
  <2>2. desc[u].own
    BY <2>1 DEF OrderInv
  <2>3. u # hdp
    BY <1>3, <1>4, <1>5, <1>8
  <2>. QED  BY <1>2, <2>2, <2>3
<1>16. EngineInv'
  <2>1. nxt # Nil => nxt = t /\ Oldest(t)'
    BY <1>3, <1>5, <1>9, <1>11, <1>12
  <2>2. nxt # Nil => Oldest(nxt)'
    BY <1>1, <2>1 DEF Oldest, Unsent, InUse
  <2>. QED  BY <1>1, <1>3, <2>2, TxAssumption DEF EngineInv, Slots
<1>17. EoqInv'
  <2>1. Before(pidx) \in Slots /\ Advance(Before(pidx), 1) = pidx
    BY <1>3, BeforeType
  <2>2. ~InUse(pidx)
    BY <1>3, OffsetAdvance DEF InUse
  <2>3. ~desc[Before(pidx)].eoq
    BY <1>3, <1>5 DEF EoqInv
  <2>4. CASE t = pidx
    <3>1. nxt = Nil /\ cur = Before(pidx)
      BY <1>3, <1>5, <1>9, <1>11, <2>2, <2>4, BeforeType
    <3>2. desc'[Before(pidx)].eoq
      BY <1>2, <1>3, <3>1
    <3>3. ASSUME NEW s \in Slots, Unsent(s)' PROVE FALSE
      <4>1. InUse(s) /\ Offset(cidx, s) > Offset(cidx, cur)
        BY <1>7, <1>8, <3>3 DEF Unsent
      <4>2. Offset(cidx, t) = qlen
        BY <1>3, <2>4, OffsetAdvance
      <4>3. qlen = IF Offset(cidx, cur) = NumTxPkts - 1
                     THEN 0 ELSE Offset(cidx, cur) + 1
        BY <1>3, <1>9, <4>2, OffsetNext
      <4>. QED  BY <1>3, <1>4, <1>5, <4>1, <4>3 DEF InUse
    <3>. QED  BY <1>1, <3>2, <3>3 DEF EoqInv
  <2>5. CASE t # pidx
    <3>1. InUse(t) /\ Unsent(t)'
      BY <1>11, <1>12, <2>5 DEF Oldest
    <3>2. cur # Before(pidx)
      BY <1>9, <2>1, <2>5
    <3>3. ~desc'[Before(pidx)].eoq
      BY <1>2, <2>1, <2>3, <3>2
    <3>. QED  BY <1>1, <3>1, <3>3 DEF EoqInv
  <2>. QED  BY <2>4, <2>5
<1>18. AppendInv'
  <2>1. ~Stopped
    BY <1>1, <1>3, TxAssumption DEF Stopped, Slots
  <2>2. pc \notin {"eoq", "scan"}
    BY <1>3, TxAssumption DEF AppendInv, Slots
  <2>3. CASE pc = "hdp"
    <3>1. /\ InUse(start) /\ desc[start].sop /\ ~desc[Before(start)].eoq
          /\ start \in Slots
      BY <2>1, <2>3 DEF AppendInv, TypeOK
    <3>2. Before(start) \in Slots /\ Advance(Before(start), 1) = start
      BY <3>1, BeforeType
    <3>3. desc'[Before(start)].eoq => t = start /\ nxt = Nil
      BY <1>2, <1>9, <3>1, <3>2
    <3>4. desc'[Before(start)].eoq => Oldest(start)' /\ Stopped'
      BY <1>1, <1>12, <3>1, <3>3 DEF Stopped
    <3>5. InUse(start)' /\ desc'[start].sop
      BY <1>1, <1>2, <1>6, <3>1 DEF InUse
    <3>. QED  BY <1>1, <2>3, <3>4, <3>5 DEF AppendInv
  <2>. QED  BY <1>1, <2>2, <2>3 DEF AppendInv
<1>19. StallIsNoticed'
  BY <1>1, <1>3, TxAssumption DEF StallIsNoticed, Slots
<1>. QED  BY <1>13, <1>14, <1>15, <1>16, <1>17, <1>18, <1>19

\* Moving on to the latched descriptor, or stopping, raises the interrupt.
LEMMA DmaFinish ==
  ASSUME TypeOK, EngineInv, AppendInv, DmaComplete
  PROVE  EngineInv' /\ AppendInv' /\ StallIsNoticed'
<1>1. /\ UNCHANGED <<desc, mbuf, pidx, cidx, qlen, pc, start>>
      /\ dma = "written" /\ dma' = "idle" /\ hdp' = nxt /\ nxt' = Nil /\ pend'
  BY DEF DmaComplete, ring, stack, sync
<1>2. \A s \in Slots : (Oldest(s)' <=> Oldest(s)) /\ (InUse(s)' <=> InUse(s))
  BY <1>1 DEF Oldest, Unsent, InUse
<1>3. hdp # Nil /\ (nxt # Nil => nxt \in Slots /\ Oldest(nxt))
  BY <1>1 DEF EngineInv, TypeOK
<1>4. EngineInv'
  BY <1>1, <1>2, <1>3 DEF EngineInv
<1>5. Stopped => Stopped'
  BY <1>1, <1>3 DEF Stopped
<1>6. AppendInv'
  BY <1>1, <1>2, <1>3, <1>5 DEF AppendInv, TypeOK
<1>7. StallIsNoticed'
  BY <1>1 DEF StallIsNoticed
<1>. QED  BY <1>4, <1>6, <1>7

-----------------------------------------------------------------------------
(* The steps that leave the descriptors, the ring and the engine alone.     *)

\* All the invariants but the types and the lock, which have lemmas of their
\* own, are kept by a step that touches none of their variables.
LEMMA QuietStep ==
  ASSUME IInv, UNCHANGED <<desc, ring, start, hdp, cur, nxt, dma>>,
         pc' \in {"hdp", "eoq"} => pc \in {"hdp", "eoq"},
         pc' \in {"eoq", "scan"} => hdp = Nil,
         pend => pend' \/ pc' = "check",
         irq = "queued" => irq' = "queued" \/ pc' = "ack",
         hdp = Nil /\ pc \in {"ack", "check", "scan"} =>
           pc' \in {"ack", "check", "scan"},
         hdp = Nil /\ pc \in {"hdp", "eoq"} => pc' \in {"hdp", "eoq"}
  PROVE  /\ RingConsistent' /\ ChainInv' /\ OrderInv'
         /\ EngineInv' /\ AppendInv' /\ EoqInv' /\ StallIsNoticed'
BY RingFrame, EngineFrame, AppendFrame, StallFrame DEF IInv

\* Reaping outside ti814x_tx.
LEMMA ReapOnly ==
  ASSUME IInv, NEW r \in 0 .. qlen, Reap(r),
         UNCHANGED <<desc, pidx, hdp, cur, nxt, dma, pend>>,
         pc \in {"space", "unlocked"}, pc' \in {"take", "tx", "unlocked"},
         irq = "queued" => irq' = "queued"
  PROVE  /\ RingConsistent' /\ ChainInv' /\ OrderInv'
         /\ EngineInv' /\ AppendInv' /\ EoqInv' /\ StallIsNoticed'
<1>1. RingConsistent' /\ ChainInv' /\ OrderInv' /\ EoqInv' /\ EngineInv'
  BY ReapStep DEF IInv
<1>2. AppendInv'
  BY DEF AppendInv
<1>3. \A s \in Slots : Unsent(s)' <=> Unsent(s)
  BY ReapOffsets DEF IInv
<1>4. StallIsNoticed'
  BY <1>3 DEF IInv, StallIsNoticed
<1>. QED  BY <1>1, <1>2, <1>4

\* Software points the stopped engine to the oldest packet.
LEMMA KickStep ==
  ASSUME IInv, NEW s \in Slots, Oldest(s), hdp = Nil, hdp' = s,
         UNCHANGED <<desc, ring, cur, nxt, dma>>,
         pc' \notin {"hdp", "eoq", "scan"}
  PROVE  /\ RingConsistent' /\ ChainInv' /\ OrderInv'
         /\ EngineInv' /\ AppendInv' /\ EoqInv' /\ StallIsNoticed'
<1>1. RingConsistent' /\ ChainInv' /\ OrderInv' /\ EoqInv'
  BY RingFrame DEF IInv
<1>2. dma = "idle" /\ dma' = "idle" /\ hdp' # Nil
  BY TxAssumption DEF IInv, EngineInv, Slots
<1>3. Oldest(s)'
  BY DEF Oldest, Unsent, InUse, ring
<1>4. Oldest(hdp)'
  BY <1>3 DEF Oldest, Unsent, InUse
<1>5. EngineInv'
  BY <1>2, <1>4 DEF EngineInv
<1>6. AppendInv' /\ StallIsNoticed'
  BY <1>2 DEF AppendInv, StallIsNoticed
<1>. QED  BY <1>1, <1>5, <1>6

-----------------------------------------------------------------------------
(* The inductive invariant.                                                 *)

\* The invariant holds initially.
LEMMA InvInit == Init => IInv
<1>. SUFFICES ASSUME Init PROVE IInv
  OBVIOUS
<1>1. TypeOK
  BY TypeInit
<1>2. \A s \in Slots : /\ Offset(cidx, s) \in 0 .. NumTxPkts - 1
                        /\ ~InUse(s) /\ ~Unsent(s) /\ ~desc[s].own
                        /\ mbuf[s] = Nil /\ desc[s].eoq
  BY TxAssumption DEF Init, FreshDesc, InUse, Unsent, Offset, Slots
<1>3. LockInv
  BY TxAssumption DEF Init, LockInv
<1>4. RingConsistent
  BY <1>2, TxAssumption DEF Init, RingConsistent, Advance
<1>5. ChainInv /\ OrderInv
  BY <1>2 DEF ChainInv, OrderInv
<1>6. EngineInv /\ AppendInv /\ StallIsNoticed
  BY <1>2 DEF Init, EngineInv, AppendInv, StallIsNoticed
<1>7. EoqInv
  <2>1. Before(pidx) \in Slots
    BY <1>1, BeforeType DEF TypeOK
  <2>. QED  BY <1>2, <2>1 DEF EoqInv
<1>. QED  BY <1>1, <1>3, <1>4, <1>5, <1>6, <1>7 DEF IInv

\* Every step keeps the invariant.
LEMMA InvStep == IInv /\ [Next]_vars => IInv'
<1>. SUFFICES ASSUME IInv, [Next]_vars PROVE IInv'
  OBVIOUS
<1>. DEFINE Rest == /\ RingConsistent /\ ChainInv /\ OrderInv
                    /\ EngineInv /\ AppendInv /\ EoqInv /\ StallIsNoticed
<1>1. TypeOK' /\ LockInv'
  BY TypeStep, LockStep DEF IInv
<1>2. Rest'
  <2>. USE DEF LockInv
  <2>0. LockInv /\ TypeOK
    BY DEF IInv
  <2>1. ASSUME NEW p \in Pkts, StackSend(p) PROVE Rest'
    <3>1. /\ UNCHANGED <<desc, ring, start, hdp, cur, nxt, dma, pend, irq>>
          /\ pc = "unlocked" /\ pc' \in {"unlocked", "space"}
      BY <2>0, <2>1 DEF StackSend, EnterStart, Goto, sync, chan
    <3>. QED  BY <3>1, QuietStep
  <2>2. ASSUME NEW p \in Pkts, Output(p) PROVE Rest'
    <3>1. /\ UNCHANGED <<desc, ring, start, hdp, cur, nxt, dma, pend, irq>>
          /\ pc = "unlocked" /\ pc' = "space"
      BY <2>0, <2>2 DEF Output, Goto, chan
    <3>. QED  BY <3>1, QuietStep
  <2>3. CASE SpaceLeft
    <3>1. /\ UNCHANGED <<desc, ring, start, hdp, cur, nxt, dma, pend, irq>>
          /\ pc = "space" /\ pc' \in {"take", "tx"}
      BY <2>3 DEF SpaceLeft, AfterSpace, stack, work, chan
    <3>. QED  BY <3>1, QuietStep
  <2>4. CASE SpaceReap
    <3>1. PICK r \in 0 .. qlen : Reap(r)
      BY <2>4 DEF SpaceReap
    <3>2. /\ UNCHANGED <<desc, pidx, hdp, cur, nxt, dma, pend>>
          /\ pc = "space" /\ pc' \in {"take", "tx", "unlocked"}
          /\ irq = "queued" => irq' = "queued"
      BY <2>0, <2>4 DEF SpaceReap, AfterSpace, Unlock, chan
    <3>. QED  BY <3>1, <3>2, ReapOnly
  <2>5. CASE StartDequeue
    <3>1. /\ UNCHANGED <<desc, ring, start, hdp, cur, nxt, dma, pend, irq>>
          /\ pc = "take" /\ pc' = "tx"
      BY <2>5 DEF StartDequeue, work, chan
    <3>. QED  BY <3>1, QuietStep
  <2>6. CASE StartDone
    <3>1. /\ UNCHANGED <<desc, ring, start, hdp, cur, nxt, dma, pend>>
          /\ pc = "take" /\ pc' = "unlocked"
          /\ irq = "queued" => irq' = "queued"
      BY <2>0, <2>6 DEF StartDone, Unlock, chan
    <3>. QED  BY <3>1, QuietStep
  <2>7. ASSUME NEW k \in 1 .. DefragLimit, TxBuild(k) PROVE Rest'
    BY <2>7, BuildRing, BuildEngine DEF IInv
  <2>8. CASE TxDefragFailed
    <3>1. /\ UNCHANGED <<desc, ring, start, hdp, cur, nxt, dma, pend>>
          /\ pc = "tx" /\ pc' \in {"space", "unlocked"}
          /\ irq = "queued" => irq' = "queued"
      BY <2>0, <2>8 DEF TxDefragFailed, AfterTx, Unlock, chan
    <3>. QED  BY <3>1, QuietStep
  <2>9. CASE TxReadHdp
    <3>1. /\ UNCHANGED <<desc, ring, start, hdp, cur, nxt, dma, pend>>
          /\ pc = "hdp" /\ pc' \in {"eoq", "space", "unlocked"}
          /\ hdp = Nil <=> pc' = "eoq"
          /\ irq = "queued" => irq' = "queued"
      BY <2>0, <2>9 DEF TxReadHdp, AfterTx, Unlock, stack, chan
    <3>. QED  BY <3>1, QuietStep
  <2>10. CASE TxKick
    <3>1. /\ UNCHANGED <<desc, ring, start, cur, nxt, dma, pend>>
          /\ pc = "eoq" /\ pc' \in {"space", "unlocked"}
          /\ irq = "queued" => irq' = "queued"
          /\ hdp' = IF desc[Before(start)].eoq THEN start ELSE hdp
      BY <2>0, <2>10 DEF TxKick, AfterTx, Unlock, stack, chan
    <3>2. hdp = Nil /\ start \in Slots
      BY <3>1 DEF IInv, AppendInv, TypeOK
    <3>3. CASE desc[Before(start)].eoq
      <4>1. Oldest(start)
        BY <3>1, <3>3 DEF IInv, AppendInv
      <4>. QED  BY <3>1, <3>2, <3>3, <4>1, KickStep
    <3>4. CASE ~desc[Before(start)].eoq
      <4>1. UNCHANGED <<desc, ring, start, hdp, cur, nxt, dma>>
        BY <3>1, <3>4
      <4>2. RingConsistent' /\ ChainInv' /\ OrderInv' /\ EoqInv'
            /\ EngineInv' /\ AppendInv'
        BY <3>1, <4>1, RingFrame, EngineFrame, AppendFrame DEF IInv
      <4>3. \A s \in Slots : Unsent(s)' <=> Unsent(s)
        BY <4>1 DEF Unsent, InUse, ring
      <4>4. StallIsNoticed'
        BY <3>1, <3>4, <4>1, <4>3 DEF IInv, StallIsNoticed
      <4>. QED  BY <4>2, <4>4
    <3>. QED  BY <3>3, <3>4
  <2>11. CASE IsrTx
    <3>1. /\ UNCHANGED <<desc, ring, start, hdp, cur, nxt, dma, pend, pc>>
          /\ irq' = "queued"
      BY <2>11 DEF IsrTx, stack, sync
    <3>2. pc \in {"eoq", "scan"} => hdp = Nil
      BY DEF IInv, AppendInv
    <3>. QED  BY <3>1, <3>2, QuietStep
  <2>12. CASE IrqLock
    <3>1. /\ UNCHANGED <<desc, ring, start, hdp, cur, nxt, dma, pend>>
          /\ pc = "unlocked" /\ pc' = "ack"
      BY <2>0, <2>12 DEF IrqLock, Goto, stack, chan
    <3>. QED  BY <3>1, QuietStep
  <2>13. CASE IrqAck
    <3>1. /\ UNCHANGED <<desc, ring, start, hdp, cur, nxt, dma, irq>>
          /\ pc = "ack" /\ pc' = "check"
      BY <2>13 DEF IrqAck, stack, work
    <3>. QED  BY <3>1, QuietStep
  <2>14. CASE IrqReadHdp
    <3>1. /\ UNCHANGED <<desc, ring, start, hdp, cur, nxt, dma, pend, irq>>
          /\ pc = "check" /\ pc' = IF hdp = Nil THEN "scan" ELSE "full"
      BY <2>14 DEF IrqReadHdp, stack, work, chan
    <3>. QED  BY <3>1, QuietStep
  <2>15. CASE IrqScan
    <3>1. /\ UNCHANGED <<desc, ring, start, cur, nxt, dma, pend, irq>>
          /\ pc = "scan" /\ pc' = "full" /\ hdp = Nil
      BY <2>15 DEF IrqScan, stack, work, chan, IInv, AppendInv
    <3>2. CASE \E s \in Slots : Unsent(s)
      <4>1. PICK s \in Slots : Oldest(s) /\ hdp' = s
        BY <2>15, <3>2 DEF IrqScan
      <4>. QED  BY <3>1, <4>1, KickStep
    <3>3. CASE ~\E s \in Slots : Unsent(s)
      <4>1. UNCHANGED <<desc, ring, start, hdp, cur, nxt, dma>>
        BY <2>15, <3>1, <3>3 DEF IrqScan
      <4>2. RingConsistent' /\ ChainInv' /\ OrderInv' /\ EoqInv'
            /\ EngineInv' /\ AppendInv'
        BY <3>1, <4>1, RingFrame, EngineFrame, AppendFrame DEF IInv
      <4>3. \A s \in Slots : ~Unsent(s)'
        BY <3>3, <4>1 DEF Unsent, InUse, ring
      <4>. QED  BY <4>2, <4>3 DEF StallIsNoticed
    <3>. QED  BY <3>2, <3>3
  <2>16. CASE IrqFull
    <3>1. /\ UNCHANGED <<desc, ring, start, hdp, cur, nxt, dma, pend>>
          /\ pc = "full" /\ pc' \in {"space", "unlocked"}
          /\ irq # "queued"
      BY <2>0, <2>16 DEF IrqFull, EnterStart, Goto, Unlock, chan
    <3>. QED  BY <3>1, QuietStep
  <2>17. CASE IrqEnable
    <3>1. /\ UNCHANGED <<desc, ring, start, hdp, cur, nxt, dma, pend, pc>>
          /\ irq # "queued"
      BY <2>17 DEF IrqEnable, stack, sync
    <3>2. pc \in {"eoq", "scan"} => hdp = Nil
      BY DEF IInv, AppendInv
    <3>. QED  BY <3>1, <3>2, QuietStep
  <2>18. CASE LinkDown \/ LinkUp \/ LinkUpCheck \/ TimerCheck \/ TimerClear
    <3>1. UNCHANGED <<desc, ring, start, hdp, cur, nxt, dma, pend, pc, irq>>
      BY <2>18 DEF LinkDown, LinkUp, LinkUpCheck, TimerCheck, TimerClear,
                   stack, sync, chan
    <3>2. pc \in {"eoq", "scan"} => hdp = Nil
      BY DEF IInv, AppendInv
    <3>. QED  BY <3>1, <3>2, QuietStep
  <2>19. CASE LinkUpStart
    <3>1. /\ UNCHANGED <<desc, ring, start, hdp, cur, nxt, dma, pend, irq>>
          /\ pc = "unlocked" /\ pc' = "space"
      BY <2>0, <2>19 DEF LinkUpStart, EnterStart, Goto, chan
    <3>. QED  BY <3>1, QuietStep
  <2>20. CASE TimerReap
    <3>1. PICK r \in 0 .. qlen : Reap(r)
      BY <2>20 DEF TimerReap
    <3>2. /\ UNCHANGED <<desc, pidx, hdp, cur, nxt, dma, pend, irq>>
          /\ pc = "unlocked" /\ pc' = "unlocked"
      BY <2>0, <2>20 DEF TimerReap, sync, chan
    <3>. QED  BY <3>1, <3>2, ReapOnly
  <2>21. CASE DmaBegin \/ DmaNext \/ DmaLatch
    <3>1. UNCHANGED <<desc, ring, start, hdp, pend, pc, irq>>
      BY <2>21 DEF DmaBegin, DmaNext, DmaLatch, stack, sync, work, chan
    <3>2. EngineInv' /\ AppendInv'
      BY <2>21, DmaWalk DEF IInv
    <3>. QED  BY <3>1, <3>2, RingFrame, StallFrame DEF IInv
  <2>22. CASE DmaWriteBack
    BY <2>22, DmaRelease DEF IInv
  <2>23. CASE DmaComplete
    <3>1. UNCHANGED <<desc, ring>>
      BY <2>23 DEF DmaComplete
    <3>. QED  BY <2>23, <3>1, RingFrame, DmaFinish DEF IInv
  <2>24. CASE UNCHANGED vars
    <3>1. UNCHANGED <<desc, ring, start, hdp, cur, nxt, dma, pend, pc, irq>>
      BY <2>24 DEF vars, stack, sync, work, chan
    <3>2. pc \in {"eoq", "scan"} => hdp = Nil
      BY DEF IInv, AppendInv
    <3>. QED  BY <3>1, <3>2, QuietStep
  <2>. HIDE DEF Rest
  <2>. QED
    BY <2>1, <2>2, <2>3, <2>4, <2>5, <2>6, <2>7, <2>8, <2>9, <2>10, <2>11,
       <2>12, <2>13, <2>14, <2>15, <2>16, <2>17, <2>18, <2>19, <2>20, <2>21,
       <2>22, <2>23, <2>24
       DEF Next, Stack, Start, Tx, Irq, Link, Timer, Dma
<1>. QED  BY <1>1, <1>2 DEF IInv

-----------------------------------------------------------------------------
(* The theorems.                                                            *)

\* The inductive invariant holds in every reachable state.
THEOREM Invariance == Spec => []IInv
<1>1. Init => IInv
  BY InvInit
<1>2. IInv /\ [Next]_vars => IInv'
  BY InvStep
<1>. QED  BY <1>1, <1>2, PTL DEF Spec

\* Every variable keeps its type.
THEOREM TypeCorrect == Spec => []TypeOK
<1>1. IInv => TypeOK
  BY DEF IInv
<1>. QED  BY <1>1, Invariance, PTL

\* The ring's indices and count agree, it never fills up, and each packet in
\* it is attached to exactly its start slot.
THEOREM RingCorrect == Spec => []RingConsistent
<1>1. IInv => RingConsistent
  BY DEF IInv
<1>. QED  BY <1>1, Invariance, PTL

\* No packet is freed while the DMA engine works on it.
THEOREM MemoryKept == Spec => []DmaMemoryKept
<1>1. IInv => DmaMemoryKept
  <2>. SUFFICES ASSUME IInv, dma \in {"busy", "latched"}
                PROVE  /\ Unsent(hdp) /\ mbuf[hdp] # Nil
                       /\ InUse(cur) /\ Offset(cidx, hdp) <= Offset(cidx, cur)
    BY DEF DmaMemoryKept
  <2>1. /\ Unsent(hdp) /\ InUse(cur)
        /\ Offset(cidx, hdp) <= Offset(cidx, cur)
    BY DEF IInv, EngineInv, Oldest
  <2>2. hdp \in Slots
    BY DEF IInv, TypeOK, EngineInv
  <2>3. desc[hdp].sop /\ InUse(hdp)
    BY <2>1, <2>2 DEF IInv, ChainInv, Unsent
  <2>. QED  BY <2>1, <2>2, <2>3 DEF IInv, RingConsistent
<1>. QED  BY <1>1, Invariance, PTL

\* A packet waiting before a stopped engine will be noticed: the misqueue of
\* ti814x_tx and the DMA engine is always caught.
THEOREM NoStall == Spec => []StallIsNoticed
<1>1. IInv => StallIsNoticed
  BY DEF IInv
<1>. QED  BY <1>1, Invariance, PTL

\* The head descriptor pointer is written only while the engine stands still,
\* and then points to the oldest packet that is not sent.
THEOREM SafeKick == Spec => KickIsSafe
<1>1. ASSUME IInv, [Next]_vars, hdp' # hdp, pc' # pc
      PROVE  hdp = Nil /\ hdp' # Nil /\ Oldest(hdp')
  <2>1. CASE TxKick
    <3>1. pc = "eoq" /\ hdp' = start /\ desc[Before(start)].eoq
      BY <1>1, <2>1 DEF TxKick
    <3>2. hdp = Nil /\ hdp' # Nil /\ Oldest(start)
      BY <1>1, <3>1, TxAssumption DEF IInv, AppendInv, TypeOK, Slots
    <3>. QED  BY <3>1, <3>2 DEF Oldest, Unsent, InUse
  <2>2. CASE IrqScan
    <3>1. PICK s \in Slots : pc = "scan" /\ Oldest(s) /\ hdp' = s
      BY <1>1, <2>2 DEF IrqScan
    <3>2. hdp = Nil /\ hdp' # Nil
      BY <1>1, <3>1, TxAssumption DEF IInv, AppendInv, Slots
    <3>. QED  BY <3>1, <3>2 DEF Oldest, Unsent, InUse
  <2>3. CASE ~TxKick /\ ~IrqScan
    BY <1>1, <2>3
       DEF Next, Stack, StackSend, Output, Start, SpaceLeft, SpaceReap,
           StartDequeue, StartDone, Tx, TxBuild, TxDefragFailed, TxReadHdp,
           IsrTx, IrqLock, Irq, IrqAck, IrqReadHdp, IrqFull, IrqEnable,
           Link, LinkDown, LinkUp, LinkUpCheck, LinkUpStart,
           Timer, TimerCheck, TimerReap, TimerClear,
           Dma, DmaBegin, DmaNext, DmaLatch, DmaWriteBack, DmaComplete,
           sync, vars
  <2>. QED  BY <2>1, <2>2, <2>3
<1>2. IInv /\ [Next]_vars =>
        [hdp' # hdp /\ pc' # pc => hdp = Nil /\ hdp' # Nil /\ Oldest(hdp')]_vars
  BY <1>1
<1>. QED  BY <1>2, Invariance, PTL DEF Spec, KickIsSafe

-----------------------------------------------------------------------------
(* The restart of a full interface, while the link stays up.                *)

StartInv ==
  /\ linkup /\ mii = "idle"
  /\ Queue # 0 => ~oactive
  /\ StartWillRun

\* ti814x_start gives up on a full ring only with packets of the DMA engine
\* left on it, and those will raise an interrupt.
LEMMA FullRingIsBusy ==
  ASSUME IInv, IInv', NEW r \in 0 .. qlen, Reap(r), ~HasRoom(qlen - r),
         UNCHANGED <<desc, pidx>>, pc' = "unlocked"
  PROVE  pend' \/ irq' = "queued" \/ hdp' # Nil
<1>1. /\ r \in Nat /\ qlen \in 0 .. NumTxPkts - 1 /\ NumTxPkts \in Nat
      /\ cidx \in Slots
  BY TxAssumption DEF IInv, TypeOK, RingConsistent
<1>2. qlen - r >= NumTxPkts - DefragLimit /\ r < qlen
  BY <1>1, TxAssumption DEF HasRoom
<1>3. PICK s \in Slots : s = Advance(cidx, r)
  BY <1>1, <1>2, AdvanceType
<1>4. Offset(cidx, s) = r
  BY <1>1, <1>2, <1>3, OffsetAdvance
<1>5. Unsent(s)
  BY <1>2, <1>3, <1>4 DEF Unsent, InUse, Reap
<1>6. Unsent(s)'
  BY <1>5, ReapOffsets DEF IInv
<1>. QED  BY <1>6 DEF IInv, StallIsNoticed

\* Every step keeps it.
LEMMA StartStep ==
  ASSUME ~LinkDrops, IInv, IInv', StartInv, [Next]_vars
  PROVE  StartInv'
<1>0. linkup /\ mii = "idle" /\ (Queue # 0 => ~oactive) /\ StartWillRun
      /\ LockInv
  BY DEF StartInv, IInv
<1>1. ASSUME NEW p \in Pkts, StackSend(p) \/ Output(p)  PROVE StartInv'
  <2>1. CASE owner' = "stack"
    <3>1. linkup' = linkup /\ mii' = mii
      BY <1>1 DEF StackSend, Output, EnterStart, Goto
    <3>2. oactive' = oactive \/ Queue = 0
      BY <1>1 DEF StackSend, Output
    <3>. QED  BY <1>0, <2>1, <3>1, <3>2 DEF StartInv, StartWillRun
  <2>2. CASE owner' # "stack"
    BY <1>0, <1>1, <2>2
       DEF StartInv, StartWillRun, StackSend, Output, EnterStart, Goto, sync, chan
  <2>. QED  BY <2>1, <2>2
<1>2. CASE SpaceReap
  <2>1. PICK r \in 0 .. qlen :
          /\ Reap(r)
          /\ IF HasRoom(qlen - r)
               THEN AfterSpace /\ UNCHANGED <<owner, irq, mii>>
               ELSE Unlock
    BY <1>2 DEF SpaceReap
  <2>2. UNCHANGED <<desc, pidx, oactive, linkup>> /\ pc = "space"
    BY <1>2 DEF SpaceReap
  <2>3. CASE HasRoom(qlen - r)
    BY <1>0, <2>1, <2>2, <2>3 DEF StartInv, StartWillRun, LockInv
  <2>4. CASE ~HasRoom(qlen - r)
    <3>1. mii' = "idle" /\ pc' = "unlocked"
      BY <1>0, <2>1, <2>4 DEF Unlock
    <3>2. pend' \/ irq' = "queued" \/ hdp' # Nil
      BY <2>1, <2>2, <2>4, <3>1, FullRingIsBusy
    <3>. QED  BY <1>0, <2>2, <3>1, <3>2 DEF StartInv, StartWillRun
  <2>. QED  BY <2>3, <2>4
<1>3. CASE SpaceLeft \/ StartDequeue \/ StartDone \/ TxReadHdp \/ TxKick \/ TxDefragFailed
           \/ \E k \in 1 .. DefragLimit : TxBuild(k)
  <2>1. /\ UNCHANGED linkup /\ (mii' = mii \/ mii' = "idle")
        /\ oactive' = oactive \/ ~oactive'
        /\ owner' = "none" => Queue # 0 \/ ~oactive'
    BY <1>0, <1>3
       DEF LockInv, SpaceLeft, StartDequeue, StartDone, TxReadHdp, TxKick,
           TxDefragFailed, TxBuild, AfterTx, Unlock, stack, work
  <2>. QED  BY <1>0, <2>1 DEF StartInv, StartWillRun
<1>4. CASE IsrTx \/ IrqLock \/ IrqAck \/ IrqReadHdp \/ IrqScan
  <2>1. UNCHANGED <<oactive, linkup, mii>> /\ (owner' # "none" \/ irq' = "queued")
    BY <1>0, <1>4
       DEF LockInv, IsrTx, IrqLock, IrqAck, IrqReadHdp, IrqScan, Goto, stack, work
  <2>. QED  BY <1>0, <2>1 DEF StartInv, StartWillRun
<1>5. CASE IrqFull
  <2>1. UNCHANGED linkup /\ mii' = "idle"
    BY <1>0, <1>5 DEF IrqFull, EnterStart, Goto, Unlock, LockInv
  <2>2. CASE Queue = 0 /\ oactive
    BY <1>0, <1>5, <2>1, <2>2 DEF IrqFull, EnterStart, Goto, StartInv, StartWillRun
  <2>3. CASE ~(Queue = 0 /\ oactive)
    BY <1>0, <1>5, <2>1, <2>3 DEF IrqFull, StartInv, StartWillRun
  <2>. QED  BY <2>2, <2>3
<1>6. CASE IrqEnable \/ TimerCheck \/ TimerReap \/ TimerClear \/ DmaBegin \/ DmaNext
           \/ DmaLatch \/ DmaWriteBack \/ UNCHANGED vars
  <2>1. /\ UNCHANGED <<oactive, linkup, mii, owner, pend, hdp>>
        /\ irq = "queued" => irq' = "queued"
    BY <1>6
       DEF IrqEnable, TimerCheck, TimerReap, TimerClear, DmaBegin, DmaNext, DmaLatch,
           DmaWriteBack, vars, stack, sync, work, chan
  <2>. QED  BY <1>0, <2>1 DEF StartInv, StartWillRun
<1>7. CASE DmaComplete
  BY <1>0, <1>7 DEF DmaComplete, StartInv, StartWillRun, stack, sync, work
<1>8. ~LinkDown /\ ~LinkUp /\ ~LinkUpCheck /\ ~LinkUpStart
  BY <1>0 DEF LinkDown, LinkUp, LinkUpCheck, LinkUpStart
<1>. QED
  BY <1>1, <1>2, <1>3, <1>4, <1>5, <1>6, <1>7, <1>8
     DEF Next, Stack, Start, Tx, Irq, Link, Timer, Dma

\* While the link stays up, an interface marked IFF_OACTIVE always has an
\* interrupt to come that runs ti814x_start again.
THEOREM StartComes ==
  ASSUME ~LinkDrops
  PROVE  Spec => []StartWillRun
<1>1. Init => StartInv
  BY DEF Init, StartInv, StartWillRun
<1>2. IInv /\ IInv' /\ StartInv /\ [Next]_vars => StartInv'
  BY StartStep
<1>3. StartInv => StartWillRun
  BY DEF StartInv
<1>. QED  BY <1>1, <1>2, <1>3, Invariance, PTL DEF Spec

-----------------------------------------------------------------------------
(* The refinement of PacketPipe: a set of slots as a sequence in ring order.*)

Rank(S, c, s) == Cardinality({t \in S : Offset(c, t) <= Offset(c, s)})

InOrder(S, c, b) == [i \in 1 .. Cardinality(S) |-> b[Ranked(S, c, i)]]

\* Sets of slots are finite.
LEMMA SlotsFinite ==
  ASSUME NEW S \in SUBSET Slots
  PROVE  IsFiniteSet(S) /\ Cardinality(S) \in Nat
<1>1. IsFiniteSet(Slots)
  BY FS_Interval, TxAssumption DEF Slots
<1>. QED  BY <1>1, FS_Subset, FS_CardinalityType

\* Ranks run from one to the number of slots.
LEMMA RankType ==
  ASSUME NEW S \in SUBSET Slots, NEW c \in Slots, NEW s \in S
  PROVE  Rank(S, c, s) \in 1 .. Cardinality(S)
<1>. DEFINE R == {t \in S : Offset(c, t) <= Offset(c, s)}
<1>1. R \in SUBSET S /\ IsFiniteSet(S) /\ Cardinality(S) \in Nat
  BY SlotsFinite
<1>2. s \in R
  <2>1. Offset(c, s) \in 0 .. NumTxPkts - 1
    BY OffsetType
  <2>2. Offset(c, s) <= Offset(c, s)
    BY <2>1, TxAssumption
  <2>. QED  BY <2>2
<1>3. IsFiniteSet(R) /\ Cardinality(R) <= Cardinality(S)
  BY <1>1, FS_Subset
<1>4. Cardinality(R) \in Nat /\ Cardinality(R) # 0
  BY <1>2, <1>3, FS_EmptySet, FS_CardinalityType
<1>. QED  BY <1>1, <1>3, <1>4 DEF Rank

\* A slot that lies further on has a greater rank.
LEMMA RankGrows ==
  ASSUME NEW S \in SUBSET Slots, NEW c \in Slots, NEW s \in S, NEW t \in S,
         Offset(c, s) < Offset(c, t)
  PROVE  Rank(S, c, s) < Rank(S, c, t)
<1>. DEFINE R == {u \in S : Offset(c, u) <= Offset(c, s)}
            T == {u \in S : Offset(c, u) <= Offset(c, t)}
<1>1. \A u \in S : Offset(c, u) \in 0 .. NumTxPkts - 1
  BY OffsetType
<1>2. R \in SUBSET T /\ T \in SUBSET Slots /\ t \in T /\ t \notin R
  BY <1>1, TxAssumption
<1>. HIDE DEF R, T
<1>3. IsFiniteSet(T) /\ Cardinality(T) \in Nat
  BY <1>2, SlotsFinite
<1>4. /\ IsFiniteSet(R) /\ Cardinality(R) \in Nat
      /\ Cardinality(R) <= Cardinality(T) /\ Cardinality(R) # Cardinality(T)
  BY <1>2, <1>3, FS_Subset, FS_CardinalityType
<1>. QED  BY <1>3, <1>4 DEF Rank, R, T

\* Distinct slots have distinct ranks.
LEMMA RankInjective ==
  ASSUME NEW S \in SUBSET Slots, NEW c \in Slots, NEW s \in S, NEW t \in S,
         Rank(S, c, s) = Rank(S, c, t)
  PROVE  s = t
<1>1. /\ Offset(c, s) \in 0 .. NumTxPkts - 1 /\ Offset(c, t) \in 0 .. NumTxPkts - 1
      /\ Rank(S, c, s) \in 1 .. Cardinality(S) /\ Cardinality(S) \in Nat
  BY OffsetType, RankType, SlotsFinite
<1>2. ~(Offset(c, s) < Offset(c, t)) /\ ~(Offset(c, t) < Offset(c, s))
  BY <1>1, RankGrows
<1>3. Offset(c, s) = Offset(c, t)
  BY <1>1, <1>2, TxAssumption
<1>. QED  BY <1>3, OffsetInjective

\* Every rank is taken: an injection between sets of one size is onto.
LEMMA RankOnto ==
  ASSUME NEW S \in SUBSET Slots, NEW c \in Slots,
         NEW i \in 1 .. Cardinality(S)
  PROVE  \E s \in S : Rank(S, c, s) = i
<1>. DEFINE n == Cardinality(S)
            f == [s \in S |-> Rank(S, c, s)]
<1>1. IsFiniteSet(S) /\ n \in Nat
  BY SlotsFinite
<1>2. IsFiniteSet(1 .. n) /\ Cardinality(1 .. n) = n
  BY <1>1, FS_Interval
<1>3. f \in Injection(S, 1 .. n)
  <2>1. f \in [S -> 1 .. n]
    BY RankType
  <2>2. ASSUME NEW s \in DOMAIN f, NEW t \in DOMAIN f, f[s] = f[t]  PROVE s = t
    BY <2>2, RankInjective
  <2>. QED  BY <2>1, <2>2 DEF Injection, IsInjective
<1>4. f \in Surjection(S, 1 .. n)
  <2>. HIDE DEF f, n
  <2>. QED  BY <1>1, <1>2, <1>3, FS_Injection DEF n
<1>. QED  BY <1>4 DEF Surjection

\* The slot of a rank is the one that has it.
LEMMA RankedIs ==
  ASSUME NEW S \in SUBSET Slots, NEW c \in Slots, NEW s \in S
  PROVE  Ranked(S, c, Rank(S, c, s)) = s
<1>. DEFINE i == Rank(S, c, s)
<1>1. Ranked(S, c, i) = CHOOSE t \in S : Rank(S, c, t) = i
  BY DEF Ranked, Rank
<1>2. \A t \in S : Rank(S, c, t) = i => t = s
  BY RankInjective
<1>. HIDE DEF i
<1>3. Rank(S, c, s) = i
  BY DEF i
<1>. QED  BY <1>1, <1>2, <1>3, Zenon DEF i

\* The slots of a set by rank.
LEMMA RankedType ==
  ASSUME NEW S \in SUBSET Slots, NEW c \in Slots,
         NEW i \in 1 .. Cardinality(S)
  PROVE  /\ Ranked(S, c, i) \in S
         /\ Rank(S, c, Ranked(S, c, i)) = i
<1>1. PICK s \in S : Rank(S, c, s) = i
  BY RankOnto
<1>. QED  BY <1>1, RankedIs

\* What a set of slots holds is a sequence.
LEMMA InOrderType ==
  ASSUME NEW S \in SUBSET Slots, NEW c \in Slots, NEW b,
         \A s \in S : b[s] \in Pkts
  PROVE  /\ InOrder(S, c, b) \in Seq(Pkts)
         /\ Len(InOrder(S, c, b)) = Cardinality(S)
         /\ \A i \in 1 .. Cardinality(S) : InOrder(S, c, b)[i] = b[Ranked(S, c, i)]
<1>. DEFINE n == Cardinality(S)
<1>1. n \in Nat
  BY SlotsFinite
<1>2. \A i \in 1 .. n : b[Ranked(S, c, i)] \in Pkts
  BY RankedType
<1>3. InOrder(S, c, b) = [i \in 1 .. n |-> b[Ranked(S, c, i)]]
  BY DEF InOrder
<1>. HIDE DEF n
<1>. QED  BY <1>1, <1>2, <1>3 DEF n

\* Moving the origin without changing the order changes nothing.
LEMMA InOrderSame ==
  ASSUME NEW S \in SUBSET Slots, NEW c \in Slots, NEW d \in Slots, NEW b, NEW a,
         \A s \in S : b[s] \in Pkts /\ a[s] = b[s],
         \A s \in S, t \in S :
           Offset(d, t) <= Offset(d, s) <=> Offset(c, t) <= Offset(c, s)
  PROVE  InOrder(S, d, a) = InOrder(S, c, b)
<1>1. ASSUME NEW s \in S  PROVE Rank(S, d, s) = Rank(S, c, s)
  <2>1. {t \in S : Offset(d, t) <= Offset(d, s)} = {t \in S : Offset(c, t) <= Offset(c, s)}
    OBVIOUS
  <2>. QED  BY <2>1 DEF Rank
<1>2. ASSUME NEW i \in 1 .. Cardinality(S)
      PROVE  a[Ranked(S, d, i)] = b[Ranked(S, c, i)]
  <2>1. PICK s \in S : s = Ranked(S, c, i) /\ Rank(S, c, s) = i
    BY RankedType
  <2>2. Ranked(S, d, i) = s
    BY <1>1, <2>1, RankedIs
  <2>. QED  BY <2>1, <2>2
<1>. QED  BY <1>2 DEF InOrder

\* A slot added behind the others is appended.
LEMMA InOrderAdd ==
  ASSUME NEW S \in SUBSET Slots, NEW T \in SUBSET Slots, NEW p \in Slots,
         p \notin S, \A s \in Slots : s \in T <=> s \in S \/ s = p,
         NEW c \in Slots, NEW b, \A s \in T : b[s] \in Pkts,
         \A s \in S : Offset(c, s) < Offset(c, p),
         NEW q, q = Append(InOrder(S, c, b), b[p])
  PROVE  InOrder(T, c, b) = q
<1>. DEFINE n == Cardinality(S)
            f == InOrder(S, c, b)
            g == InOrder(T, c, b)
<1>1. T \in SUBSET Slots /\ n \in Nat /\ Cardinality(T) = n + 1
  <2>1. T = S \cup {p}
    OBVIOUS
  <2>2. IsFiniteSet(S) /\ n \in Nat
    BY SlotsFinite
  <2>. QED  BY <2>1, <2>2, FS_AddElement
<1>2. \A s \in T : Offset(c, s) \in 0 .. NumTxPkts - 1
  BY <1>1, OffsetType
<1>3. ASSUME NEW s \in S  PROVE Rank(T, c, s) = Rank(S, c, s)
  <2>1. {t \in T : Offset(c, t) <= Offset(c, s)} = {t \in S : Offset(c, t) <= Offset(c, s)}
    BY <1>2, TxAssumption
  <2>. QED  BY <2>1 DEF Rank
<1>4. Rank(T, c, p) = n + 1
  <2>1. {t \in T : Offset(c, t) <= Offset(c, p)} = T
    BY <1>2, TxAssumption
  <2>. QED  BY <1>1, <2>1 DEF Rank
<1>5. /\ f \in Seq(Pkts) /\ Len(f) = n
      /\ \A i \in 1 .. n : f[i] = b[Ranked(S, c, i)]
  BY InOrderType
<1>6. /\ g \in Seq(Pkts) /\ Len(g) = n + 1
      /\ \A i \in 1 .. n + 1 : g[i] = b[Ranked(T, c, i)]
  <2>1. /\ g \in Seq(Pkts) /\ Len(g) = Cardinality(T)
        /\ \A i \in 1 .. Cardinality(T) : g[i] = b[Ranked(T, c, i)]
    BY InOrderType
  <2>. QED  BY <1>1, <2>1
<1>7. /\ Append(f, b[p]) \in Seq(Pkts) /\ Len(Append(f, b[p])) = n + 1
      /\ \A i \in 1 .. n : Append(f, b[p])[i] = f[i]
      /\ Append(f, b[p])[n + 1] = b[p]
  BY <1>5, AppendProperties
<1>8. ASSUME NEW i \in 1 .. n + 1  PROVE g[i] = Append(f, b[p])[i]
  <2>1. CASE i = n + 1
    <3>1. Ranked(T, c, i) = p
      BY <1>1, <1>4, <2>1, RankedIs
    <3>. QED  BY <1>6, <1>7, <2>1, <3>1
  <2>2. CASE i # n + 1
    <3>1. i \in 1 .. n
      BY <1>1, <2>2
    <3>2. PICK s \in S : s = Ranked(S, c, i) /\ Rank(S, c, s) = i
      BY <3>1, RankedType
    <3>3. Ranked(T, c, i) = s
      <4>1. s \in T /\ Rank(T, c, s) = i
        BY <1>3, <3>2
      <4>. QED  BY <4>1, RankedIs
    <3>. QED  BY <1>5, <1>6, <1>7, <3>1, <3>2, <3>3
  <2>. QED  BY <2>1, <2>2
<1>. HIDE DEF f, g, n
<1>9. g = Append(f, b[p])
  BY <1>5, <1>6, <1>7, <1>8, SeqEqual
<1>. QED  BY <1>9 DEF f, g

\* The foremost slot is the head of the sequence.
LEMMA InOrderRemove ==
  ASSUME NEW S \in SUBSET Slots, NEW c \in Slots, NEW b, NEW h \in S,
         \A s \in S : b[s] \in Pkts,
         \A s \in S : Offset(c, h) <= Offset(c, s)
  PROVE  /\ InOrder(S, c, b) # <<>>
         /\ InOrder(S \ {h}, c, b) = Tail(InOrder(S, c, b))
<1>. DEFINE T == S \ {h}
            n == Cardinality(S)
            f == InOrder(S, c, b)
            g == InOrder(T, c, b)
<1>1. /\ T \in SUBSET Slots /\ n \in Nat \ {0} /\ Cardinality(T) = n - 1
      /\ IsFiniteSet(S)
  <2>1. IsFiniteSet(S) /\ n \in Nat
    BY SlotsFinite
  <2>2. n # 0
    BY <2>1, FS_EmptySet
  <2>. QED  BY <2>1, <2>2, FS_RemoveElement
<1>2. ASSUME NEW s \in T  PROVE Rank(S, c, s) = Rank(T, c, s) + 1
  <2>. DEFINE R == {t \in S : Offset(c, t) <= Offset(c, s)}
  <2>1. R \in SUBSET Slots /\ h \in R /\ R \ {h} = {t \in T : Offset(c, t) <= Offset(c, s)}
    OBVIOUS
  <2>. HIDE DEF R
  <2>2. IsFiniteSet(R) /\ Cardinality(R) \in Nat
    BY <2>1, SlotsFinite
  <2>3. Cardinality(R \ {h}) = Cardinality(R) - 1
    BY <2>1, <2>2, FS_RemoveElement
  <2>4. Rank(S, c, s) = Cardinality(R)
    BY DEF Rank, R
  <2>5. Rank(T, c, s) = Cardinality(R \ {h})
    BY <2>1 DEF Rank
  <2>. QED  BY <2>2, <2>3, <2>4, <2>5
<1>3. /\ f \in Seq(Pkts) /\ Len(f) = n
      /\ \A i \in 1 .. n : f[i] = b[Ranked(S, c, i)]
  BY InOrderType
<1>4. /\ g \in Seq(Pkts) /\ Len(g) = n - 1
      /\ \A i \in 1 .. n - 1 : g[i] = b[Ranked(T, c, i)]
  <2>1. \A s \in T : b[s] \in Pkts
    OBVIOUS
  <2>. HIDE DEF T, n
  <2>. QED  BY <1>1, <2>1, InOrderType
<1>5. f # <<>>
  BY <1>1, <1>3, EmptySeq
<1>6. /\ Tail(f) \in Seq(Pkts) /\ Len(Tail(f)) = n - 1
      /\ \A i \in 1 .. n - 1 : Tail(f)[i] = f[i + 1]
  BY <1>3, <1>5, HeadTailProperties
<1>7. ASSUME NEW i \in 1 .. n - 1  PROVE g[i] = Tail(f)[i]
  <2>1. i \in 1 .. Cardinality(T) /\ i + 1 \in 1 .. n
    BY <1>1
  <2>2. PICK s \in T : s = Ranked(T, c, i) /\ Rank(T, c, s) = i
    <3>. HIDE DEF T
    <3>. QED  BY <1>1, <2>1, RankedType
  <2>3. Ranked(S, c, i + 1) = s
    <3>1. Rank(S, c, s) = i + 1
      BY <1>2, <2>2
    <3>. QED  BY <2>2, <3>1, RankedIs
  <2>4. Tail(f)[i] = b[s]
    <3>. HIDE DEF f, n
    <3>. QED  BY <1>3, <1>6, <2>1, <2>3
  <2>5. g[i] = b[s]
    <3>. HIDE DEF g, n
    <3>. QED  BY <1>4, <2>2
  <2>. QED  BY <2>4, <2>5
<1>. HIDE DEF f, g, n
<1>8. g = Tail(f)
  BY <1>1, <1>3, <1>4, <1>6, <1>7, SeqEqual
<1>. QED  BY <1>5, <1>8 DEF f, g

-----------------------------------------------------------------------------
(* The refinement of PacketPipe, step by step.                              *)

\* The slots of the packets that the DMA engine has not released.
Owned == {s \in Slots : Unsent(s)}

\* What waits is the packet in hand before if_snd; what is committed is what
\* the slots of unsent packets hold, in ring order.
LEMMA PipeIs ==
  /\ Waiting = Hand(m, Nil) \o ifq
  /\ Waiting' = Hand(m', Nil) \o ifq'
  /\ Committed = InOrder(Owned, cidx, mbuf)
  /\ Committed' = InOrder(Owned', cidx', mbuf')
BY DEF Waiting, Hand, Committed, InOrder, Owned, Ranked, Offset

\* A slot with an unsent packet holds it.
LEMMA OwnedHolds ==
  ASSUME IInv
  PROVE  /\ Owned \in SUBSET Slots /\ cidx \in Slots
         /\ \A s \in Owned : mbuf[s] \in Pkts
<1>1. \A s \in Owned : s \in Slots /\ InUse(s) /\ desc[s].sop
  BY DEF Owned, Unsent, IInv, ChainInv
<1>2. \A s \in Owned : mbuf[s] # Nil /\ mbuf[s] \in Pkts \cup {Nil}
  BY <1>1 DEF IInv, RingConsistent, TypeOK
<1>. QED  BY <1>2 DEF IInv, TypeOK, Owned

\* Ring and queue are empty at first.
LEMMA InitImplements == Init => Pipe!Init
<1>. SUFFICES ASSUME Init PROVE Pipe!Init
  OBVIOUS
<1>1. Owned = {}
  BY DEF Init, FreshDesc, Owned, Unsent
<1>2. IInv
  BY InvInit
<1>3. Committed \in Seq(Pkts) /\ Len(Committed) = Cardinality(Owned)
  BY <1>2, OwnedHolds, PipeIs, InOrderType
<1>4. Committed = <<>>
  BY <1>1, <1>3, FS_EmptySet, EmptySeq
<1>5. Waiting = <<>>
  BY DEF Init, Waiting
<1>. QED  BY <1>4, <1>5 DEF Pipe!Init

\* A step that leaves the ring alone leaves what is committed alone.
LEMMA CommittedSame ==
  ASSUME UNCHANGED <<desc, ring>>
  PROVE  UNCHANGED Committed
BY DEF Committed, Ranked, Unsent, InUse, Offset, ring

\* What the stack sends is accepted behind what waits.
LEMMA PipeAccept ==
  ASSUME IInv, NEW p \in Pkts, StackSend(p) \/ Output(p)
  PROVE  Pipe!Accept(p)
<1>1. /\ m \in Pkts \cup {Nil} /\ ifq \in Seq(Pkts) /\ Unused(p)
      /\ UNCHANGED <<desc, ring>>
  BY DEF IInv, TypeOK, StackSend, Output
<1>2. UNCHANGED Committed
  BY <1>1, CommittedSame
<1>3. Waiting' = Append(Waiting, p)
  <2>1. CASE StackSend(p)
    <3>1. m' = m /\ ifq' = Append(ifq, p)
      BY <2>1 DEF StackSend
    <3>. QED  BY <1>1, <3>1, PipeIs, HandAppend
  <2>2. CASE Output(p)
    <3>1. m = Nil /\ m' = p /\ ifq = <<>> /\ ifq' = <<>>
      BY <2>2 DEF Output, IInv, LockInv
    <3>2. Hand(p, Nil) = <<p>> /\ Hand(Nil, Nil) = <<>>
      BY TxAssumption DEF Hand
    <3>. QED  BY <3>1, <3>2, PipeIs
  <2>. QED  BY <2>1, <2>2
<1>4. ~Pipe!Holds(Waiting, p)
  <2>1. \A i \in 1 .. Len(Hand(m, Nil) \o ifq) : (Hand(m, Nil) \o ifq)[i] # p
    BY <1>1, HandHolds DEF Unused
  <2>. QED  BY <2>1, PipeIs DEF Pipe!Holds
<1>5. ~Pipe!Holds(Committed, p)
  <2>1. /\ Len(Committed) = Cardinality(Owned)
        /\ \A i \in 1 .. Cardinality(Owned) :
              /\ Committed[i] = mbuf[Ranked(Owned, cidx, i)]
              /\ Ranked(Owned, cidx, i) \in Slots
    BY OwnedHolds, PipeIs, InOrderType, RankedType
  <2>. QED  BY <1>1, <2>1 DEF Unused, Pipe!Holds
<1>. QED  BY <1>2, <1>3, <1>4, <1>5 DEF Pipe!Accept

\* The packet that ti814x_tx appends to the chain is committed behind the others.
LEMMA PipeCommit ==
  ASSUME IInv, NEW k \in 1 .. DefragLimit, TxBuild(k)
  PROVE  Pipe!Commit
<1>1. /\ pidx \in Slots /\ cidx \in Slots /\ m \in Pkts /\ m # Nil
      /\ ifq \in Seq(Pkts) /\ mbuf \in [Slots -> Pkts \cup {Nil}]
      /\ cidx' = cidx /\ m' = Nil /\ ifq' = ifq
      /\ mbuf' = [mbuf EXCEPT ![pidx] = m]
      /\ qlen \in 0 .. NumTxPkts - 1 /\ pidx = Advance(cidx, qlen)
  BY TxAssumption DEF IInv, TypeOK, RingConsistent, LockInv, TxBuild
<1>2. /\ \A s \in Slots : Unsent(s)' <=> Unsent(s) \/ s = pidx
      /\ ~InUse(pidx)
  BY <1>1, BuildOwn DEF IInv
<1>3. Owned' = Owned \cup {pidx} /\ pidx \notin Owned
  BY <1>1, <1>2 DEF Owned, Unsent
<1>4. \A s \in Owned : Offset(cidx, s) < Offset(cidx, pidx)
  BY <1>1, OffsetAdvance DEF Owned, Unsent, InUse
<1>5. /\ mbuf'[pidx] = m
      /\ \A s \in Owned : mbuf[s] \in Pkts /\ mbuf'[s] = mbuf[s]
  BY <1>1, <1>3, OwnedHolds
<1>6. Committed' = Append(Committed, m)
  <2>1. /\ Owned \in SUBSET Slots /\ Owned' \in SUBSET Slots
        /\ pidx \notin Owned
        /\ \A s \in Slots : s \in Owned' <=> s \in Owned \/ s = pidx
        /\ \A s \in Owned' : mbuf'[s] \in Pkts
    BY <1>1, <1>3, <1>5, OwnedHolds
  <2>2. InOrder(Owned', cidx, mbuf') = Append(InOrder(Owned, cidx, mbuf'), mbuf'[pidx])
    <3>1. cidx \in Slots /\ pidx \in Slots
      BY <1>1
    <3>2. ASSUME NEW q, q = Append(InOrder(Owned, cidx, mbuf'), mbuf'[pidx])
          PROVE  InOrder(Owned', cidx, mbuf') = q
      BY <1>4, <2>1, <3>1, <3>2, InOrderAdd
    <3>. QED  BY <3>2
  <2>3. InOrder(Owned, cidx, mbuf') = InOrder(Owned, cidx, mbuf)
    <3>1. cidx \in Slots
      BY <1>1
    <3>. QED  BY <1>5, <2>1, <3>1, InOrderSame
  <2>. QED  BY <1>1, <1>5, <2>2, <2>3, PipeIs
<1>7. Waiting # <<>> /\ Head(Waiting) = m /\ Tail(Waiting) = ifq
  <2>1. m \in Pkts /\ m # Nil /\ ifq \in Seq(Pkts)
    BY <1>1
  <2>. QED  BY <2>1, PipeIs, HandHead
<1>8. Waiting' = ifq
  <2>1. ifq \in Seq(Pkts) /\ Waiting' = Hand(Nil, Nil) \o ifq
    BY <1>1, PipeIs
  <2>. QED  BY <2>1, HandType
<1>. QED  BY <1>6, <1>7, <1>8 DEF Pipe!Commit

\* The packet that the engine releases is the oldest, which is delivered.
LEMMA PipeDeliver ==
  ASSUME IInv, DmaWriteBack
  PROVE  Pipe!Deliver
<1>1. UNCHANGED <<mbuf, pidx, cidx, qlen, m, ifq>> /\ dma = "latched" /\ hdp \in Slots
  BY DEF DmaWriteBack, ring, stack, IInv, TypeOK, EngineInv
<1>2. Oldest(hdp) /\ hdp \in Owned
  BY <1>1 DEF IInv, EngineInv, Oldest, Owned
<1>3. \A s \in Slots : desc'[s].own <=> desc[s].own /\ s # hdp
  <2>. SUFFICES ASSUME NEW s \in Slots
                PROVE  desc'[s].own <=> desc[s].own /\ s # hdp
    OBVIOUS
  <2>. DEFINE own == desc[s].own /\ s # hdp
              eoq == desc[s].eoq \/ (s = cur /\ nxt = Nil)
  <2>1. desc'[s] = [desc[s] EXCEPT !.own = own, !.eoq = eoq]
    BY Zenon DEF DmaWriteBack
  <2>2. desc[s] \in [own : BOOLEAN, sop : BOOLEAN, eop : BOOLEAN,
                    eoq : BOOLEAN, next : Slots \cup {Nil}]
    BY DEF IInv, TypeOK
  <2>3. desc'[s].own = own
    <3>. HIDE DEF own, eoq
    <3>. QED  BY <2>1, <2>2
  <2>. QED  BY <2>3
<1>4. Owned' = Owned \ {hdp}
  BY <1>1, <1>3 DEF Owned, Unsent, InUse
<1>5. ASSUME NEW s \in Owned  PROVE Offset(cidx, hdp) <= Offset(cidx, s)
  <2>1. /\ Offset(cidx, hdp) \in 0 .. NumTxPkts - 1
        /\ Offset(cidx, s) \in 0 .. NumTxPkts - 1
    BY <1>1, OwnedHolds, OffsetType
  <2>2. ~(Offset(cidx, s) < Offset(cidx, hdp))
    BY <1>2 DEF Oldest, Owned, Unsent
  <2>. QED  BY <2>1, <2>2, TxAssumption
<1>6. Committed # <<>> /\ Committed' = Tail(Committed)
  BY <1>1, <1>2, <1>4, <1>5, OwnedHolds, PipeIs, InOrderRemove
<1>7. Waiting' = Waiting
  BY <1>1, PipeIs
<1>. QED  BY <1>6, <1>7 DEF Pipe!Deliver

\* Reaping frees released packets only.
LEMMA PipeReap ==
  ASSUME IInv, NEW r \in 0 .. qlen, Reap(r), UNCHANGED <<desc, pidx>>
  PROVE  UNCHANGED Committed
<1>1. /\ \A s \in Slots : InUse(s)' <=> InUse(s) /\ Offset(cidx, s) >= r
      /\ \A s \in Slots : Unsent(s)' <=> Unsent(s)
      /\ \A s \in Slots : Unsent(s) => Offset(cidx, s) >= r
      /\ \A s \in Slots : InUse(s)' => Offset(cidx', s) = Offset(cidx, s) - r
  BY ReapOffsets DEF IInv
<1>2. Owned' = Owned
  BY <1>1 DEF Owned
<1>3. cidx \in Slots /\ cidx' \in Slots /\ r \in Nat
  BY TypeReap, TxAssumption DEF IInv, TypeOK
<1>4. ASSUME NEW s \in Owned
      PROVE  /\ Offset(cidx, s) \in 0 .. NumTxPkts - 1 /\ Offset(cidx, s) >= r
             /\ Offset(cidx', s) = Offset(cidx, s) - r
  BY <1>1, <1>3, OffsetType DEF Owned, Unsent
<1>5. ASSUME NEW s \in Owned  PROVE mbuf'[s] = mbuf[s]
  <2>1. mbuf'[s] = IF Offset(cidx, s) < r THEN Nil ELSE mbuf[s]
    BY OwnedHolds DEF Reap
  <2>. QED  BY <1>3, <1>4, <2>1, TxAssumption
<1>6. \A s \in Owned, t \in Owned :
        Offset(cidx', t) <= Offset(cidx', s) <=> Offset(cidx, t) <= Offset(cidx, s)
  BY <1>3, <1>4, TxAssumption
<1>. QED  BY <1>2, <1>3, <1>5, <1>6, OwnedHolds, PipeIs, InOrderSame

\* A packet for which there is no room, or no cluster, is dropped.
LEMMA PipeDrop ==
  ASSUME IInv, m' = Nil, UNCHANGED ifq, UNCHANGED Committed
  PROVE  Pipe!Divert \/ UNCHANGED <<Waiting, Committed>>
<1>1. m \in Pkts \cup {Nil} /\ ifq \in Seq(Pkts)
  BY DEF IInv, TypeOK
<1>2. Waiting' = ifq
  <2>1. Waiting' = Hand(Nil, Nil) \o ifq
    BY PipeIs
  <2>. QED  BY <1>1, <2>1, HandType
<1>3. CASE m = Nil
  <2>1. Waiting = ifq
    BY <1>1, <1>3, PipeIs, HandType
  <2>. QED  BY <1>2, <2>1
<1>4. CASE m # Nil
  <2>1. Waiting # <<>> /\ Tail(Waiting) = ifq
    BY <1>1, <1>4, PipeIs, HandHead
  <2>. QED  BY <1>2, <2>1 DEF Pipe!Divert
<1>. QED  BY <1>3, <1>4

\* Every step of the channel is a step of PacketPipe or changes neither what
\* waits nor what is committed.
LEMMA StepImplements == IInv /\ [Next]_vars => [Pipe!Next]_(Pipe!vars)
<1>. SUFFICES ASSUME IInv, [Next]_vars
     PROVE  Pipe!Next \/ UNCHANGED <<Waiting, Committed>>
  BY DEF Pipe!vars
<1>0. ifq \in Seq(Pkts)
  BY DEF IInv, TypeOK
<1>1. ASSUME NEW p \in Pkts, StackSend(p) \/ Output(p)  PROVE Pipe!Next
  BY <1>1, PipeAccept DEF Pipe!Next
<1>2. ASSUME NEW k \in 1 .. DefragLimit, TxBuild(k)  PROVE Pipe!Next
  BY <1>2, PipeCommit DEF Pipe!Next
<1>3. CASE DmaWriteBack
  BY <1>3, PipeDeliver DEF Pipe!Next
<1>4. CASE SpaceReap
  <2>1. UNCHANGED Committed
    BY <1>4, PipeReap DEF SpaceReap
  <2>2. UNCHANGED ifq /\ (m' = m \/ m' = Nil)
    BY <1>4 DEF SpaceReap
  <2>3. CASE m' = m
    BY <2>1, <2>2, <2>3, PipeIs
  <2>4. CASE m' = Nil
    BY <2>1, <2>2, <2>4, PipeDrop DEF Pipe!Next
  <2>. QED  BY <2>2, <2>3, <2>4
<1>5. CASE TimerReap
  <2>1. UNCHANGED Committed
    BY <1>5, PipeReap DEF TimerReap
  <2>2. UNCHANGED <<m, ifq>>
    BY <1>5 DEF TimerReap, stack
  <2>. QED  BY <2>1, <2>2, PipeIs
<1>6. CASE TxDefragFailed
  <2>1. UNCHANGED <<desc, ring, ifq>> /\ m' = Nil
    BY <1>6 DEF TxDefragFailed
  <2>. QED  BY <2>1, CommittedSame, PipeDrop DEF Pipe!Next
<1>7. CASE StartDequeue
  <2>1. /\ UNCHANGED <<desc, ring>> /\ m = Nil /\ ifq # <<>>
        /\ m' = Head(ifq) /\ ifq' = Tail(ifq)
    BY <1>7 DEF StartDequeue, IInv, LockInv
  <2>2. Waiting' = ifq
    BY <1>0, <2>1, PipeIs, HandTake, TxAssumption
  <2>3. Waiting = ifq
    BY <1>0, <2>1, PipeIs, HandType
  <2>. QED  BY <2>1, <2>2, <2>3, CommittedSame
<1>8. CASE \/ SpaceLeft \/ StartDone \/ TxReadHdp \/ TxKick \/ IsrTx \/ IrqLock
           \/ Irq \/ Link \/ TimerCheck \/ TimerClear
           \/ DmaBegin \/ DmaNext \/ DmaLatch \/ DmaComplete \/ UNCHANGED vars
  <2>1. UNCHANGED <<desc, ring, m, ifq>>
    BY <1>8 DEF SpaceLeft, StartDone, TxReadHdp, TxKick, IsrTx, IrqLock, Irq, IrqAck,
                IrqReadHdp, IrqScan, IrqFull, IrqEnable, Link, LinkDown, LinkUp,
                LinkUpCheck, LinkUpStart, TimerCheck, TimerClear, DmaBegin, DmaNext,
                DmaLatch, DmaComplete, stack, vars
  <2>. QED  BY <2>1, CommittedSame, PipeIs
<1>. QED
  BY <1>1, <1>2, <1>3, <1>4, <1>5, <1>6, <1>7, <1>8 DEF Next, Stack, Start, Tx, Timer, Dma

\* The channel implements PacketPipe: packets leave in the order in which they
\* were accepted, each at most once, and a packet that reached the ring is sent,
\* whatever the interrupt, the timer and the link callback do in between.
THEOREM Refinement == Spec => ImplementsPipe
<1>1. IInv /\ [Next]_vars => [Pipe!Next]_(Pipe!vars)
  BY StepImplements
<1>. QED  BY <1>1, InitImplements, Invariance, PTL DEF Spec, ImplementsPipe, Pipe!Spec
=============================================================================
