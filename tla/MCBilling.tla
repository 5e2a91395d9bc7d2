------------------------------ MODULE MCBilling ------------------------------
(* An instance of Billing for TLC. *)
EXTENDS Billing

Accounts == [m \in Method |-> IF m = "m3" THEN "other" ELSE "same"]

\* Free, Starter and Pro, and one whose price is odd, in hundreds of rupiah.
PlanSet == {[name |-> "FREE", price |-> 0], [name |-> "STARTER", price |-> 750],
            [name |-> "PRO", price |-> 2250], [name |-> "ODD", price |-> 751]}

\* A month, eight days and one day, paid in full or less the largest credit.
Subscriptions ==
    {[plan |-> p[1], paid |-> p[2], started |-> 0, expires |-> e] :
        p \in {<<"FREE", 0>>, <<"STARTER", 750>>, <<"STARTER", 563>>, <<"PRO", 2250>>,
               <<"PRO", 1688>>},
        e \in {60, 16, 2}}

MomentSet == 0..62

\* No method, or one of each account.
Ranks == {<<>>, [m \in {"m1", "m3"} |-> IF m = "m1" THEN 1 ELSE 2]}

\* What is in progress together.
Mixes == {<<"add", "add", "webhook", "webhook">>,
          <<"webhook", "add", "sort", "sort">>,
          <<"createAddress", "updateAddress", "updateAddress", "none">>,
          <<"price", "none", "none", "none">>}
==============================================================================
