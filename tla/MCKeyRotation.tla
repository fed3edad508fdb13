---------------------------- MODULE MCKeyRotation ----------------------------
(* KeyRotation with symmetric calls and keys. *)
EXTENDS KeyRotation, TLC

Symmetry == Permutations(Call \ {Boot}) \cup Permutations(Key \ {First})
==============================================================================
