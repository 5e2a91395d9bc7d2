------------------------------- MODULE Ledger -------------------------------
(***************************************************************************)
(* What the transactions table promises.  Xendit settles each billing cycle *)
(* of a plan once; the book holds at most one entry for a cycle, the entry  *)
(* says how the cycle was settled, and an entry never changes.  The book    *)
(* may lack an entry: nothing here says when one is made.                   *)
(***************************************************************************)
CONSTANT Cycle

VARIABLES
    outcome, \* how Xendit settled each cycle
    book     \* what the entry of each cycle says

vars == <<outcome, book>>

Settled == {"succeeded", "failed"}

Init ==
    /\ outcome = [c \in Cycle |-> "open"]
    /\ book = [c \in Cycle |-> "none"]

Settle(c) ==
    /\ outcome[c] = "open"
    /\ \E o \in Settled : outcome' = [outcome EXCEPT ![c] = o]
    /\ UNCHANGED book

Enter(c) ==
    /\ book[c] = "none"
    /\ outcome[c] \in Settled
    /\ book' = [book EXCEPT ![c] = outcome[c]]
    /\ UNCHANGED outcome

Next == \E c \in Cycle : Settle(c) \/ Enter(c)

Spec == Init /\ [][Next]_vars
=============================================================================
