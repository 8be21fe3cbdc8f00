---------------------------- MODULE MCFecSwitch ----------------------------
(* Constants of FecSwitch for TLC: different numbers of packets. *)
EXTENDS FecSwitch

MCParams == {[k |-> 1, h |-> 1], [k |-> 2, h |-> 1], [k |-> 4, h |-> 2]}
=============================================================================
