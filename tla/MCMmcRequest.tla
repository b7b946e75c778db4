---------------------------- MODULE MCMmcRequest ----------------------------
(* One block is used for transfers that end in part of a block or in a     *)
(* command of their own for the last one, and for syncs; the other for the *)
(* rest.                                                                   *)
EXTENDS MmcRequest

CONSTANTS r1, r2

Plain(k) == <<k, 0, FALSE>>

MCReq  == {r1, r2}
MCUses ==
    [r \in Req |->
        IF r = r1 THEN {<<"rw", 2, TRUE>>, <<"rw", 3, FALSE>>, Plain("sync")}
        ELSE {<<"rw", 3, FALSE>>, Plain("erase"), Plain("ready"), Plain("devctl")}]
=============================================================================
