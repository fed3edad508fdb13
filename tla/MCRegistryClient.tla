--------------------------- MODULE MCRegistryClient ---------------------------
(* RegistryClient with symmetric calls and keys. *)
EXTENDS RegistryClient, TLC

Symmetry == Permutations(Call) \cup Permutations(Key)
===============================================================================
