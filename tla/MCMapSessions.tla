------------------------------ MODULE MCMapSessions ------------------------------
(* Two zones on two map processes. *)
EXTENDS MapSessions
HostOf == [z1 |-> "p1", z2 |-> "p2"]
=============================================================================
