---------------------------- MODULE MCFPRuntime ----------------------------
(* FPRuntime for TLC: how many packets the link towards each candidate may *)
(* lose.                                                                   *)
EXTENDS FPRuntime

NoLoss == [d \in Candidates |-> 0]
OneLoss == [d \in Candidates |-> 1]
TwoThenOneLoss == [d \in Candidates |-> IF d = 1 THEN 2 ELSE 1]
=============================================================================
