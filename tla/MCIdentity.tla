----------------------------- MODULE MCIdentity -----------------------------
(* Instances of Identity for TLC. *)
EXTENDS Identity, TLC

Symmetry == Permutations(Proc)
=============================================================================
