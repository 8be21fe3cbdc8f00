----------------------------- MODULE MCFecPcap -----------------------------
(* FecPcap on small blocks, for TLC. *)
EXTENDS FecPcap
=============================================================================
