----------------------------- MODULE MCSpiMaster ----------------------------
(* Two clients, a device of the controller and one it does not have.        *)
(* Configurations the driver accepts, rejects and keeps (character lengths  *)
(* of none and of four bits), or dies of at once (no clock rate).           *)
EXTENDS SpiMaster, TLC
CONSTANTS c1, c2
MCClients  == {c1, c2}
MCDevices  == {0, 1}
MCFirst    == [len |-> 16, clocked |-> TRUE]
MCConfigs  == [len : {0, 4, 16}, clocked : {TRUE}] \cup [len : {4, 16}, clocked : {FALSE}]
\* No handler reads bus, which only records the last transfer.
MCView     == <<locks, chip, closing, config, buffer, down>>
MCSymmetry == Permutations(MCClients)
=============================================================================
