--------------------------------- MODULE Clock ---------------------------------
(* The time that services of one process read, in ticks. *)
EXTENDS Naturals

CONSTANTS MaxTime, None

ASSUME ClockAssumption == MaxTime \in Nat /\ None \notin Nat

VARIABLE now

Time == 0..MaxTime

ClockInit == now = 0
Advance == now < MaxTime /\ now' = now + 1
================================================================================
