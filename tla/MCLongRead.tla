---- MODULE MCLongRead ----
(* LongRead at the lengths where a PDU is just full, one short or one over. *)
EXTENDS LongRead

MCAttrLens == {0, 21, 22, 23, 44, 99, 100, 246, 247, 512}
MCPeerMtus == {20, 100, 512}
====
