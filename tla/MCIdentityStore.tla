--------------------------- MODULE MCIdentityStore ---------------------------
(* Small instances of IdentityStore for TLC. *)
EXTENDS IdentityStore, TLC

Symmetry == Permutations(Procs)
=============================================================================
