----------------------------- MODULE MCThrottle -----------------------------
(* Instances of Throttle for TLC: the plans of the seeder, with small limits. *)
EXTENDS Throttle, TLC

CONSTANTS FREE, STARTER, PRO

\* FREE is charged before the handler; PRO's limit is below STARTER's, as in plan.seeder.ts.
SmallLimit == [p \in Plan |-> CASE p = FREE -> 2 [] p = STARTER -> 3 [] OTHER -> 1]
SeededCharge == [p \in Plan |-> p # FREE]

Ids == Permutations(Request)
=============================================================================
