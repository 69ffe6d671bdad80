------------------------ MODULE MCThymeRegistration ------------------------
(* Small instances of ThymeRegistration for TLC. *)
EXTENDS ThymeRegistration, TLC

CONSTANTS c1, c2, s1

\* conf.json subscribes to parking_mode only: one subscription, on c1.
MCSubParent == [s \in {s1} |-> c1]
=============================================================================
