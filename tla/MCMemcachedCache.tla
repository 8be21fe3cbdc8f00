-------------------------- MODULE MCMemcachedCache --------------------------
(* Constants of MemcachedCache for TLC: all keys share one slot. *)
EXTENDS MemcachedCache

MCSlotOf == [k \in Keys |-> 0]
=============================================================================
