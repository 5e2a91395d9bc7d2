--------------------------- MODULE MCSubscriptions ---------------------------
(* Instances of Subscriptions for TLC. *)
EXTENDS Subscriptions, TLC

Ids == Permutations(Paid) \cup Permutations(Plan) \cup Permutations(FreeSub) \cup Permutations(Request)
=============================================================================
