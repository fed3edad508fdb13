------------------------------ MODULE MCGateway ------------------------------
(* Gateway with symmetric requests and two policies. *)
EXTENDS Gateway, TLC

MCPolicy == {[unknown |-> TRUE, interval |-> 1], [unknown |-> FALSE, interval |-> 2]}
Symmetry == Permutations(Call)
==============================================================================
