---------------------------- MODULE FecRuleTable ----------------------------
(***************************************************************************)
(* What the rule commands of the FEC boosters promise (readme.md of        *)
(* fecBoosters): SET gives a port and protocol a traffic class, DEL takes  *)
(* the rule away again, and neither touches another rule.                  *)
(***************************************************************************)
CONSTANTS Keys, Classes, NoRule

VARIABLE rule

Init == rule = [k \in Keys |-> NoRule]

Set(k, c) == rule' = [rule EXCEPT ![k] = c]

Delete(k) ==
    /\ rule[k] # NoRule
    /\ rule' = [rule EXCEPT ![k] = NoRule]

Next == \E k \in Keys : Delete(k) \/ \E c \in Classes : Set(k, c)

Spec == Init /\ [][Next]_rule
=============================================================================
