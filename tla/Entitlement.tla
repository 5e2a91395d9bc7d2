----------------------------- MODULE Entitlement -----------------------------
(***************************************************************************)
(* What the subscription component promises about plans, whatever requests, *)
(* webhooks and failures do: a user holds one subscription at a time; it    *)
(* becomes a paid one only after the payment provider confirmed that very   *)
(* subscription and only for the user who ordered it, and otherwise it is a *)
(* Free one never held before.                                              *)
(***************************************************************************)
CONSTANTS User, Paid, FreeSub, NoSub, NoUser

VARIABLES
    holds,      \* the subscription each user holds
    buyer,      \* who ordered each paid subscription
    confirmed,  \* the paid subscriptions confirmed by the payment provider
    issued      \* the Free subscriptions ever created

vars == <<holds, buyer, confirmed, issued>>

Init ==
    /\ holds = [u \in User |-> NoSub]
    /\ buyer = [s \in Paid |-> NoUser]
    /\ confirmed = {}
    /\ issued = {}

Order(u, s) ==
    /\ buyer[s] = NoUser
    /\ buyer' = [buyer EXCEPT ![s] = u]
    /\ UNCHANGED <<holds, confirmed, issued>>

Confirm(s) ==
    /\ confirmed' = confirmed \cup {s}
    /\ UNCHANGED <<holds, buyer, issued>>

\* A Free subscription is created, and held at once or (a fallback) later.
Issue(f) ==
    /\ f \notin issued
    /\ issued' = issued \cup {f}
    /\ UNCHANGED <<holds, buyer, confirmed>>

IssueTo(u, f) ==
    /\ f \notin issued
    /\ issued' = issued \cup {f}
    /\ holds' = [holds EXCEPT ![u] = f]
    /\ UNCHANGED <<buyer, confirmed>>

Fallback(u, f) ==
    /\ f \in issued
    /\ \A v \in User : holds[v] # f
    /\ holds' = [holds EXCEPT ![u] = f]
    /\ UNCHANGED <<buyer, confirmed, issued>>

Grant(s) ==
    /\ s \in confirmed
    /\ buyer[s] # NoUser
    /\ holds[buyer[s]] # NoSub
    /\ holds' = [holds EXCEPT ![buyer[s]] = s]
    /\ UNCHANGED <<buyer, confirmed, issued>>

Next ==
    \/ \E u \in User, s \in Paid : Order(u, s)
    \/ \E s \in Paid : Confirm(s) \/ Grant(s)
    \/ \E f \in FreeSub : Issue(f)
    \/ \E u \in User, f \in FreeSub : IssueTo(u, f) \/ Fallback(u, f)

Spec == Init /\ [][Next]_vars
=============================================================================
