------------------------- MODULE MCVolatileSecrets -------------------------
(* Small instances of VolatileSecrets for TLC. *)
EXTENDS VolatileSecrets, TLC

(* The requests of one kind are interchangeable: no invariant names one. *)
RequestSymmetry == Permutations(Submits)
=============================================================================
