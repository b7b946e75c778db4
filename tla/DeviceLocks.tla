---------------------------- MODULE DeviceLocks ----------------------------
(***************************************************************************)
(* What the SPI manager promises about its device locks: a device has at   *)
(* most one owner, which is a connected client; only a free device can be  *)
(* locked and only its owner unlocks it; a client leaves without locks;    *)
(* and a client that names a device uses it only while no other client     *)
(* owns it.  Uses of a client's default device are not held to the last    *)
(* promise.                                                                *)
(***************************************************************************)
CONSTANTS Clients, Devices, Nil

VARIABLES
  open,    \* clients that are connected
  owner,   \* the owner of each device, Nil when there is none
  use      \* the transfer just made, Nil when there was none

vars == <<open, owner, use>>

Uses == [client : Clients, device : Devices, named : BOOLEAN]

Init ==
  /\ open = {}
  /\ owner = [d \in Devices |-> Nil]
  /\ use = Nil

Acquire(c, d) == owner[d] = Nil /\ owner' = [owner EXCEPT ![d] = c]
Release(c, d) == owner[d] = c   /\ owner' = [owner EXCEPT ![d] = Nil]

\* The transfer of a request, after the change of locks it asks for.
MayUse(c) ==
  \/ use' = Nil
  \/ /\ use' \in Uses /\ use'.client = c
     /\ use'.named => owner'[use'.device] \in {c, Nil}

Request(c) ==
  /\ c \in open
  /\ \/ UNCHANGED owner
     \/ \E d \in Devices : Acquire(c, d) \/ Release(c, d)
  /\ MayUse(c)
  /\ UNCHANGED open

Enter(c) ==
  /\ c \notin open
  /\ open' = open \cup {c} /\ use' = Nil
  /\ UNCHANGED owner

Leave(c) ==
  /\ \A d \in Devices : owner[d] # c
  /\ open' = open \ {c} /\ use' = Nil
  /\ UNCHANGED owner

Next == \E c \in Clients : Enter(c) \/ Leave(c) \/ Request(c)

Spec == Init /\ [][Next]_vars
=============================================================================
