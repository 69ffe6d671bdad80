---------------------------- MODULE MCThymeMqtt ----------------------------
(* A small instance of ThymeMqtt for TLC. *)
EXTENDS ThymeMqtt, TLC

CONSTANTS c1, c2, s1

MCSubParent == [s \in {s1} |-> c1]
=============================================================================
