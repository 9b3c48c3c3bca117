---------------------------- MODULE MCDurablePersist ----------------------------
(* A small instance of DurablePersist: names for two keys. *)
EXTENDS DurablePersist

CONSTANTS k1, k2
=============================================================================
