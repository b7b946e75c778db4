----------------------------- MODULE PacketPipe -----------------------------
(***************************************************************************)
(* What each direction of the CPSW driver promises about packets.          *)
(*                                                                         *)
(* Accepted packets wait in order.  The oldest one is either committed (on *)
(* transmit, to the ring of the DMA engine; on receive, to the queue of    *)
(* the stack) or leaves without being committed (it is dropped, or, on     *)
(* receive, handed straight up).  Committed packets are delivered in order,*)
(* each once, and are never dropped.  FairSpec adds that none stays for    *)
(* ever.                                                                   *)
(***************************************************************************)
EXTENDS Sequences, Naturals

CONSTANT Pkts

VARIABLES waiting, committed

vars == <<waiting, committed>>

Holds(q, p) == \E i \in 1 .. Len(q) : q[i] = p

Init == waiting = <<>> /\ committed = <<>>

Accept(p) ==
  /\ ~Holds(waiting, p) /\ ~Holds(committed, p)
  /\ waiting' = Append(waiting, p)
  /\ UNCHANGED committed

Divert ==
  /\ waiting # <<>>
  /\ waiting' = Tail(waiting)
  /\ UNCHANGED committed

Commit ==
  /\ waiting # <<>>
  /\ committed' = Append(committed, Head(waiting))
  /\ waiting' = Tail(waiting)

Deliver ==
  /\ committed # <<>>
  /\ committed' = Tail(committed)
  /\ UNCHANGED waiting

Next == (\E p \in Pkts : Accept(p)) \/ Divert \/ Commit \/ Deliver

Spec == Init /\ [][Next]_vars

FairSpec == Spec /\ WF_vars(Commit \/ Divert) /\ WF_vars(Deliver)
=============================================================================
