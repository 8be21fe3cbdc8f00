--------------------------- MODULE MCVJCompression ---------------------------
(* VJCompression with two flows that share a slot, for TLC. *)
EXTENDS VJCompression, TLC

CONSTANTS f1, f2

MCSlotOf == f1 :> 0 @@ f2 :> 0

(* The fixed fields of a flow: one value, or a change of route. *)
MCFixedOf == f1 :> {1} @@ f2 :> {2}
MCFixedChanges == f1 :> {1, 4} @@ f2 :> {2}
=============================================================================
