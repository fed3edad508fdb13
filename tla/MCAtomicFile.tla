----------------------------- MODULE MCAtomicFile -----------------------------
(* AtomicFile with symmetric calls. *)
EXTENDS AtomicFile, TLC

Symmetry == Permutations(Call)
==============================================================================
