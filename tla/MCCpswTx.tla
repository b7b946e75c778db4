------------------------------ MODULE MCCpswTx ------------------------------
(* Small instances of CpswTx for TLC. *)
EXTENDS CpswTx, TLC

CONSTANTS p1, p2, p3

MCPkts3 == {p1, p2, p3}

\* Packets are interchangeable.
MCSymmetry == Permutations(Pkts)

\* What a step can still depend on.  A descriptor that is not in use is written
\* anew by TxBuild before anybody reads it (the engine stays on descriptors in
\* use, by IInv), except for the EOQ before the next packet; idx_start is dead
\* outside ti814x_tx.
MCView ==
  <<[s \in Slots |->
       IF InUse(s) THEN desc[s] ELSE [eoq |-> s = Before(pidx) /\ desc[s].eoq]],
    ring, ifq, m, IF pc \in {"hdp", "eoq"} THEN start ELSE 0, oactive,
    sync, work, chan, hdp, cur, nxt, dma>>
=============================================================================
