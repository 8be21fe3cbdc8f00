----------------------------- MODULE MCFecRules -----------------------------
(* FecRules on small tables, for TLC. *)
EXTENDS FecRules

CONSTANTS k1, k2, k3, c1, c2

MCKeys == {k1, k2, k3}
MCClasses == {c1, c2}

(* First bytes of IPv4 headers of 20 and of 32 bytes. *)
MCFirstBytes == {69, 72}
=============================================================================
