----------------------------- MODULE FecChannel -----------------------------
(***************************************************************************)
(* What a pair of FEC boosters promises to the traffic of one class: a     *)
(* channel that may lose packets, but delivers only packets that were sent *)
(* and none of them twice.                                                 *)
(***************************************************************************)
EXTENDS Integers, Sequences

VARIABLES
    sent,  \* how many packets were sent: they are numbered 1 .. sent
    out    \* the packets delivered, in the order of delivery

Init ==
    /\ sent = 0
    /\ out = << >>

Send ==
    /\ sent' = sent + 1
    /\ UNCHANGED out

(* One or more packets are delivered: a received one, recovered ones. *)
Deliver ==
    /\ Len(out) < Len(out')
    /\ SubSeq(out', 1, Len(out)) = out
    /\ \A i \in 1 .. Len(out') : out'[i] \in 1 .. sent
    /\ \A i, j \in 1 .. Len(out') : i # j => out'[i] # out'[j]
    /\ UNCHANGED sent

Next == Send \/ Deliver

Spec == Init /\ [][Next]_<<sent, out>>
=============================================================================
