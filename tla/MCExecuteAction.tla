---------------------------- MODULE MCExecuteAction ----------------------------
(* ExecuteAction with symmetric requests and agents. *)
EXTENDS ExecuteAction, TLC

Symmetry == Permutations(Call) \cup Permutations(Did)
================================================================================
