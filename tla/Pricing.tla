------------------------------- MODULE Pricing -------------------------------
(***************************************************************************)
(* What an upgrade costs: getUpgradePlanOption, with fractions of a rupiah   *)
(* kept exact until the code rounds them.  Time is counted in half days, so  *)
(* that a day that has begun and a day that is over differ.                  *)
(***************************************************************************)
EXTENDS Integers

LOCAL AtLeast(x, y) == IF x < y THEN y ELSE x

\* Math.ceil of a time in days, Math.round of num / den (not negative).
Days(t) == (t + 1) \div 2
Rounded(num, den) == (2 * num + den) \div (2 * den)

TotalDays(sub) == AtLeast(Days(sub.expires - sub.started), 1)
RemainingDays(sub, now) == AtLeast(TotalDays(sub) - AtLeast(Days(now - sub.started), 0), 0)

\* The unused part of what was paid, and a quarter of the new price, as
\* numerators over TotalDays * 4.
Unused(sub, now) == 4 * sub.paid * RemainingDays(sub, now)
Quarter(sub, price) == price * TotalDays(sub)

\* Beyond a quarter the credit is cut, and the plan cannot be upgraded to.
ExceedsCap(sub, price, now) == Unused(sub, now) > Quarter(sub, price)
CreditMutant(sub, price, now) == Unused(sub, now)
Credit(sub, price, now) ==
    IF ExceedsCap(sub, price, now) THEN Quarter(sub, price) ELSE Unused(sub, now)

NoOffer == [upgradable |-> FALSE, options |-> {}]

Offer(sub, target, discount, now) ==
    LET price == target.price
        den == 4 * TotalDays(sub)
        credit == Credit(sub, price, now)
        finish == AtLeast(price - discount, 0)
        upgradable == ~ExceedsCap(sub, price, now)
        Option(strategy, allowed, part, net) ==
            [strategy |-> strategy, upgradable |-> allowed /\ upgradable,
             credit |-> Rounded(part, den), net |-> net]
    IN
    IF target.name \in {sub.plan, "FREE"} THEN NoOffer
    ELSE [upgradable |-> upgradable, options |->
        IF RemainingDays(sub, now) > 7 /\ sub.plan # "FREE"
        THEN {Option("IMMEDIATELY", TRUE, credit,
                     Rounded(AtLeast((price - discount) * den - credit, 0), den)),
              Option("FINISH_CYCLE", TRUE, 0, finish)}
        ELSE {Option("IMMEDIATELY", TRUE, 0, price), Option("FINISH_CYCLE", FALSE, 0, finish)}]
==============================================================================
