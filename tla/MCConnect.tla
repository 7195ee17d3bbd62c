---- MODULE MCConnect ----
(* Connect with no timeout, too little to prescan, and enough for all. *)
EXTENDS Connect

MCTimeouts == {0, 2, 5, 8}
====
