----------------------------- MODULE MCEscalation -----------------------------
(* Escalation with symmetric requests, keys and calls. *)
EXTENDS Escalation, TLC

\* One request for a more privileged ring, and one for the ring the agent has.
MCRequest == {[from |-> 2, to |-> System], [from |-> 2, to |-> 2]}

Symmetry == Permutations(Id) \cup Permutations(Key) \cup Permutations(Call)
===============================================================================
