---- MODULE MCAttClient ----
(* AttClient with two reads, one exchange_mtu and one send outside the lock. *)
EXTENDS AttClient

CONSTANTS r1, r2, x, w

MCExpects == (r1 :> "read_rsp") @@ (r2 :> "read_rsp") @@ (x :> EXCHANGE_MTU_RSP)
MCPeerMtus == {300}
====
