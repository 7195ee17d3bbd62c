---- MODULE MCDiscovery ----
(* Discovery with every valid attribute table of five handles. *)
EXTENDS Discovery

MCDbs == {d \in [Handles -> Types] : ValidDb(d)}
====
