------------------------------ MODULE MCCycles ------------------------------
(* Instances of Cycles for TLC. *)
EXTENDS Cycles, TLC

Deliveries == Permutations(Request)
=============================================================================
