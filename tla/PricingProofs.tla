---------------------------- MODULE PricingProofs ----------------------------
(***************************************************************************)
(* Proofs about the price of an upgrade, for any amounts, dates and        *)
(* discounts. Rounding is the only place where a part of a rupiah is lost: *)
(* what it returns is within half a unit of its argument, grows with it,   *)
(* and two parts that add up to a whole number round to it or to one more. *)
(* The credit is the smaller of the unused part and a quarter of the       *)
(* price, and both days left and credit only shrink as time passes.        *)
(***************************************************************************)
EXTENDS Pricing, TLAPS

\* Division rounds down, and a factor above zero cancels.
LEMMA Division ==
    ASSUME NEW a \in Int, NEW d \in Nat \ {0}
    PROVE  a \div d \in Int /\ d * (a \div d) <= a /\ a < d * (a \div d) + d
OBVIOUS

LEMMA Times ==
    ASSUME NEW x \in Int, NEW y \in Int, NEW z \in Nat, x <= y
    PROVE  z * x <= z * y
OBVIOUS

LEMMA Cancelled ==
    ASSUME NEW x \in Int, NEW y \in Int, NEW z \in Nat \ {0}, z * x < z * y
    PROVE  x < y
OBVIOUS

\* The nearest whole number.
LEMMA RoundedIs ==
    ASSUME NEW num \in Nat, NEW den \in Nat \ {0}
    PROVE  /\ Rounded(num, den) \in Nat
           /\ 2 * (den * Rounded(num, den)) <= 2 * num + den
           /\ 2 * num < 2 * (den * Rounded(num, den)) + den
<1>1. PICK a \in Nat : a = 2 * num + den
    OBVIOUS
<1>2. PICK d \in Nat \ {0} : d = 2 * den
    OBVIOUS
<1>3. PICK q : q = a \div d
    OBVIOUS
<1>4. q \in Int /\ d * q <= a /\ a < d * q + d
    BY <1>3, Division
<1>5. q \in Nat
    <2>1. d * 0 < d * (q + 1)
        BY <1>4
    <2>2. 0 < q + 1
        BY <1>4, <2>1, Cancelled
    <2> QED BY <1>4, <2>2
<1>6. d * q = 2 * (den * q)
    BY <1>2, <1>4
<1>7. Rounded(num, den) = q
    BY <1>1, <1>2, <1>3 DEF Rounded
<1> QED BY <1>1, <1>2, <1>4, <1>5, <1>6, <1>7

LEMMA RoundedZero == \A den \in Nat \ {0} : Rounded(0, den) = 0
<1> SUFFICES ASSUME NEW den \in Nat \ {0} PROVE Rounded(0, den) = 0
    OBVIOUS
<1>1. PICK q : q = Rounded(0, den)
    OBVIOUS
<1>2. q \in Nat /\ 2 * (den * q) <= den
    BY <1>1, RoundedIs
<1>3. den * q < den * 1
    BY <1>2
<1>4. q < 1
    BY <1>2, <1>3, Cancelled
<1> QED BY <1>1, <1>2, <1>4

\* What is not more than n times den does not round to more than n.
LEMMA RoundedAtMost ==
    ASSUME NEW num \in Nat, NEW den \in Nat \ {0}, NEW n \in Nat, num <= den * n
    PROVE  Rounded(num, den) <= n
<1>1. PICK q : q = Rounded(num, den)
    OBVIOUS
<1>2. q \in Nat /\ 2 * (den * q) <= 2 * num + den
    BY <1>1, RoundedIs
<1>3. den * q < den * n + den /\ den * (n + 1) = den * n + den
    BY <1>2
<1>4. q < n + 1
    BY <1>2, <1>3, Cancelled
<1> QED BY <1>1, <1>2, <1>4

LEMMA RoundedGrows ==
    ASSUME NEW less \in Nat, NEW num \in Nat, NEW den \in Nat \ {0}, less <= num
    PROVE  Rounded(less, den) <= Rounded(num, den)
<1>1. PICK p : p = Rounded(less, den)
    OBVIOUS
<1>2. PICK q : q = Rounded(num, den)
    OBVIOUS
<1>3. p \in Nat /\ 2 * (den * p) <= 2 * less + den
    BY <1>1, RoundedIs
<1>4. q \in Nat /\ 2 * num < 2 * (den * q) + den
    BY <1>2, RoundedIs
<1>5. den * p < den * q + den /\ den * (q + 1) = den * q + den
    BY <1>3, <1>4
<1>6. p < q + 1
    BY <1>3, <1>4, <1>5, Cancelled
<1> QED BY <1>1, <1>2, <1>3, <1>4, <1>6

\* Two parts that add up to n times den are rounded to n, or one more.
LEMMA RoundedSum ==
    ASSUME NEW x \in Nat, NEW y \in Nat, NEW den \in Nat \ {0}, NEW n \in Int, x + y = den * n
    PROVE  Rounded(x, den) + Rounded(y, den) \in n..(n + 1)
<1>1. PICK p : p = Rounded(x, den)
    OBVIOUS
<1>2. PICK q : q = Rounded(y, den)
    OBVIOUS
<1>3. p \in Nat /\ 2 * (den * p) <= 2 * x + den /\ 2 * x < 2 * (den * p) + den
    BY <1>1, RoundedIs
<1>4. q \in Nat /\ 2 * (den * q) <= 2 * y + den /\ 2 * y < 2 * (den * q) + den
    BY <1>2, RoundedIs
<1>5. den * (p + q) = den * p + den * q /\ den * (n + 2) = den * n + 2 * den /\ den * (p + q + 1) = den * p + den * q + den
    BY <1>3, <1>4
<1>6. den * (p + q) < den * (n + 2)
    BY <1>3, <1>4, <1>5
<1>7. den * n < den * (p + q + 1)
    BY <1>3, <1>4, <1>5
<1>8. p + q < n + 2 /\ n < p + q + 1
    BY <1>3, <1>4, <1>6, <1>7, Cancelled
<1> QED BY <1>1, <1>2, <1>3, <1>4, <1>8

-----------------------------------------------------------------------------
LEMMA DaysAre ==
    ASSUME NEW t \in Int
    PROVE  Days(t) \in Int /\ Days(t) <= Days(t + 1)
<1>1. PICK a : a = Days(t)
    OBVIOUS
<1>2. PICK b : b = Days(t + 1)
    OBVIOUS
<1>3. a \in Int /\ 2 * a <= t + 1 /\ t + 1 < 2 * a + 2
    BY <1>1, Division DEF Days
<1>4. b \in Int /\ 2 * b <= t + 2 /\ t + 2 < 2 * b + 2
    BY <1>2, Division DEF Days
<1> QED BY <1>1, <1>2, <1>3, <1>4

LEMMA CycleIs ==
    ASSUME NEW sub, sub.started \in Int, sub.expires \in Int, NEW now \in Int
    PROVE  /\ TotalDays(sub) \in Nat \ {0}
           /\ RemainingDays(sub, now) \in 0..TotalDays(sub)
           /\ RemainingDays(sub, now + 1) \in 0..RemainingDays(sub, now)
<1>1. PICK total : total = Days(sub.expires - sub.started)
    OBVIOUS
<1>2. PICK a : a = Days(now - sub.started)
    OBVIOUS
<1>3. PICK b : b = Days((now + 1) - sub.started)
    OBVIOUS
<1>4. total \in Int /\ a \in Int /\ b \in Int /\ a <= b
    <2>1. (now + 1) - sub.started = (now - sub.started) + 1 /\ now - sub.started \in Int
        OBVIOUS
    <2> QED BY <1>1, <1>2, <1>3, <2>1, DaysAre
<1>5. PICK T \in Nat \ {0} : T = TotalDays(sub)
    BY <1>1, <1>4 DEF TotalDays
<1>6. RemainingDays(sub, now) = (IF T - (IF a < 0 THEN 0 ELSE a) < 0 THEN 0 ELSE T - (IF a < 0 THEN 0 ELSE a))
    BY <1>2, <1>5 DEF RemainingDays
<1>7. RemainingDays(sub, now + 1) = (IF T - (IF b < 0 THEN 0 ELSE b) < 0 THEN 0 ELSE T - (IF b < 0 THEN 0 ELSE b))
    BY <1>3, <1>5 DEF RemainingDays
<1> QED BY <1>4, <1>5, <1>6, <1>7

-----------------------------------------------------------------------------
(* The credit. *)

LEMMA CreditIs ==
    ASSUME NEW sub, sub.paid \in Nat, sub.started \in Int, sub.expires \in Int, NEW now \in Int, NEW price \in Nat
    PROVE  LET T == TotalDays(sub)
               C == Credit(sub, price, now)
           IN  /\ T \in Nat \ {0} /\ 4 * T \in Nat \ {0} /\ C \in Nat
               /\ C <= (4 * T) * sub.paid
               /\ C <= T * price
               /\ ~ExceedsCap(sub, price, now) => C = 4 * (sub.paid * RemainingDays(sub, now))
               /\ Credit(sub, price, now + 1) \in 0..C
<1>1. PICK paid \in Nat : paid = sub.paid
    OBVIOUS
<1>2. PICK T \in Nat \ {0} : T = TotalDays(sub)
    BY CycleIs
<1>3. PICK R \in 0..T : R = RemainingDays(sub, now)
    BY <1>2, CycleIs
<1>4. PICK later \in 0..R : later = RemainingDays(sub, now + 1)
    BY <1>3, CycleIs
<1>5. R \in Nat /\ R <= T /\ later \in Nat /\ later <= R
    BY <1>3, <1>4
<1>6. paid * R \in Nat /\ paid * later \in Nat /\ paid * T \in Nat /\ T * price \in Nat
    BY <1>5
<1>7. paid * later <= paid * R /\ paid * R <= paid * T
    BY <1>5, Times
<1>8. Unused(sub, now) = 4 * (paid * R) /\ Unused(sub, now + 1) = 4 * (paid * later) /\ Quarter(sub, price) = T * price
    BY <1>1, <1>2, <1>3, <1>4, <1>5 DEF Unused, Quarter
<1>9. (4 * T) * paid = 4 * (paid * T)
    OBVIOUS
<1>10. PICK a \in Nat : a = 4 * (paid * R)
    BY <1>6
<1>11. PICK b \in Nat : b = 4 * (paid * later) /\ b <= a
    BY <1>6, <1>7, <1>10
<1>12. PICK q \in Nat : q = T * price
    BY <1>6
<1>13. a <= (4 * T) * paid
    BY <1>6, <1>7, <1>9, <1>10
<1>14. /\ Credit(sub, price, now) = IF a > q THEN q ELSE a
       /\ Credit(sub, price, now + 1) = IF b > q THEN q ELSE b
       /\ ExceedsCap(sub, price, now) <=> a > q
    BY <1>8, <1>10, <1>11, <1>12 DEF Credit, ExceedsCap
<1>15. PICK C \in Nat : C = (IF a > q THEN q ELSE a)
    OBVIOUS
<1>16. /\ 4 * T \in Nat \ {0} /\ C <= a /\ C <= q /\ (~(a > q) => C = a)
       /\ (IF b > q THEN q ELSE b) \in 0..C
    BY <1>11, <1>15
<1>17. C <= (4 * T) * paid
    BY <1>6, <1>13, <1>16
<1> QED BY <1>1, <1>2, <1>3, <1>10, <1>12, <1>14, <1>15, <1>16, <1>17

\* The credit in whole units.
LEMMA CreditRounded ==
    ASSUME NEW sub, sub.paid \in Nat, sub.started \in Int, sub.expires \in Int, NEW now \in Int, NEW price \in Nat
    PROVE  LET T == TotalDays(sub)
               c == Rounded(Credit(sub, price, now), 4 * T)
               used == sub.paid * RemainingDays(sub, now)
           IN  /\ c \in 0..sub.paid /\ 4 * c <= price + 2
               /\ ~ExceedsCap(sub, price, now) => 2 * used \in ((2 * c - 1) * T)..((2 * c + 1) * T)
               /\ Rounded(Credit(sub, price, now + 1), 4 * T) <= c
<1>1. PICK T \in Nat \ {0} : T = TotalDays(sub)
    BY CycleIs
<1>2. PICK C \in Nat : C = Credit(sub, price, now)
    BY CreditIs
<1>3. PICK den \in Nat \ {0} : den = 4 * T
    OBVIOUS
<1>4. PICK paid \in Nat : paid = sub.paid
    OBVIOUS
<1>5. C <= den * paid /\ C <= T * price
    BY <1>1, <1>2, <1>3, <1>4, CreditIs
<1>6. PICK c : c = Rounded(C, den)
    OBVIOUS
<1>7. c \in Nat /\ 2 * (den * c) <= 2 * C + den /\ 2 * C < 2 * (den * c) + den
    BY <1>6, RoundedIs
<1>8. c <= paid
    BY <1>5, <1>6, RoundedAtMost
<1>9. den * c = 4 * (T * c)
    BY <1>3, <1>7
<1>10. 4 * c <= price + 2
    <2>1. 4 * (T * c) <= T * price + 2 * T
        BY <1>3, <1>5, <1>7, <1>9
    <2>2. T * (4 * c) = 4 * (T * c) /\ T * (price + 3) = T * price + 3 * T
        BY <1>7
    <2>3. T * (4 * c) < T * (price + 3)
        BY <1>7, <2>1, <2>2
    <2>4. 4 * c < price + 3
        BY <1>7, <2>3, Cancelled
    <2> QED BY <1>7, <2>4
<1>11. ASSUME ~ExceedsCap(sub, price, now)
       PROVE  2 * (paid * RemainingDays(sub, now)) \in ((2 * c - 1) * T)..((2 * c + 1) * T)
    <2>1. RemainingDays(sub, now) \in Nat
        BY <1>1, CycleIs
    <2>2. PICK used \in Nat : used = paid * RemainingDays(sub, now)
        BY <2>1
    <2>3. C = 4 * used
        BY <1>2, <1>4, <1>11, <2>2, CreditIs
    <2>4. 2 * (T * c) <= 2 * used + T /\ 2 * used < 2 * (T * c) + T
        BY <1>3, <1>7, <1>9, <2>3
    <2>5. (2 * c - 1) * T = 2 * (T * c) - T /\ (2 * c + 1) * T = 2 * (T * c) + T /\ T * c \in Nat
        BY <1>7
    <2> QED BY <2>2, <2>4, <2>5
<1>12. Rounded(Credit(sub, price, now + 1), den) <= c
    <2>1. PICK less \in Nat : less = Credit(sub, price, now + 1) /\ less <= C
        BY <1>2, CreditIs
    <2> QED BY <1>6, <2>1, RoundedGrows
<1> QED BY <1>1, <1>2, <1>3, <1>4, <1>6, <1>7, <1>8, <1>10, <1>11, <1>12

\* What is charged at once, with the credit taken off.
LEMMA NetIs ==
    ASSUME NEW den \in Nat \ {0}, NEW C \in Nat, NEW price \in Nat, NEW discount \in Nat,
           NEW x, x = (price - discount) * den - C
    PROVE  LET net == Rounded(IF x < 0 THEN 0 ELSE x, den)
           IN  /\ net \in 0..price
               /\ net > 0 => net + Rounded(C, den) + discount \in price..(price + 1)
<1>1. x \in Int /\ (price - discount) * den = den * (price - discount) /\ den * (price - discount) = den * price - den * discount
      /\ den * price \in Nat /\ den * discount \in Nat
    OBVIOUS
<1>2. CASE x < 0
    BY <1>2, RoundedZero
<1>3. CASE ~(x < 0)
    <2>1. PICK y \in Nat : y = x
        BY <1>1, <1>3
    <2>2. y + C = den * (price - discount) /\ y <= den * price
        BY <1>1, <2>1
    <2>3. PICK net : net = Rounded(y, den)
        OBVIOUS
    <2>4. PICK c : c = Rounded(C, den)
        OBVIOUS
    <2>5. net \in Nat /\ c \in Nat /\ net <= price
        BY <2>2, <2>3, <2>4, RoundedIs, RoundedAtMost
    <2>6. PICK n \in Int : n = price - discount
        OBVIOUS
    <2>7. Rounded(y, den) + Rounded(C, den) \in n..(n + 1)
        BY <2>2, <2>6, RoundedSum
    <2> QED BY <1>3, <2>1, <2>3, <2>4, <2>5, <2>6, <2>7
<1> QED BY <1>2, <1>3

LastWeek(sub, now) == RemainingDays(sub, now) <= 7 \/ sub.plan = "FREE"

\* The options there are, with what they cost.
LEMMA OptionIs ==
    ASSUME NEW sub, NEW plan, plan.price \in Nat, NEW discount \in Nat, NEW now, RemainingDays(sub, now) \in Int,
           NEW o \in Offer(sub, plan, discount, now).options
    PROVE  LET T == TotalDays(sub)
               C == Credit(sub, plan.price, now)
               x == (plan.price - discount) * (4 * T) - C
               finish == IF plan.price - discount < 0 THEN 0 ELSE plan.price - discount
           IN  \/ /\ ~LastWeek(sub, now) /\ o.strategy = "IMMEDIATELY" /\ o.upgradable = ~ExceedsCap(sub, plan.price, now)
                  /\ o.credit = Rounded(C, 4 * T) /\ o.net = Rounded(IF x < 0 THEN 0 ELSE x, 4 * T)
               \/ /\ o.strategy = "FINISH_CYCLE" /\ o.credit = Rounded(0, 4 * T) /\ o.net = finish
               \/ /\ LastWeek(sub, now) /\ o.strategy = "IMMEDIATELY" /\ o.credit = Rounded(0, 4 * T) /\ o.net = plan.price
<1>1. PICK price \in Nat : price = plan.price
    OBVIOUS
<1>2. PICK den : den = 4 * TotalDays(sub)
    OBVIOUS
<1>3. PICK C : C = Credit(sub, plan.price, now)
    OBVIOUS
<1>4. PICK upgradable \in BOOLEAN : upgradable = ~ExceedsCap(sub, plan.price, now)
    BY DEF ExceedsCap
<1>5. PICK finish : finish = IF price - discount < 0 THEN 0 ELSE price - discount
    OBVIOUS
<1>6. PICK cut : cut = Rounded(IF (price - discount) * den - C < 0 THEN 0 ELSE (price - discount) * den - C, den)
    OBVIOUS
<1>7. PICK credit : credit = Rounded(C, den)
    OBVIOUS
<1>8. PICK zero : zero = Rounded(0, den)
    OBVIOUS
<1>9. PICK options : options =
        IF RemainingDays(sub, now) > 7 /\ sub.plan # "FREE"
        THEN {[strategy |-> "IMMEDIATELY", upgradable |-> TRUE /\ upgradable, credit |-> credit, net |-> cut],
              [strategy |-> "FINISH_CYCLE", upgradable |-> TRUE /\ upgradable, credit |-> zero, net |-> finish]}
        ELSE {[strategy |-> "IMMEDIATELY", upgradable |-> TRUE /\ upgradable, credit |-> zero, net |-> price],
              [strategy |-> "FINISH_CYCLE", upgradable |-> FALSE /\ upgradable, credit |-> zero, net |-> finish]}
    OBVIOUS
<1>10. Offer(sub, plan, discount, now) = IF plan.name \in {sub.plan, "FREE"} THEN NoOffer
                                         ELSE [upgradable |-> upgradable, options |-> options]
    BY <1>1, <1>2, <1>3, <1>4, <1>5, <1>6, <1>7, <1>8, <1>9, Zenon DEF Offer
<1>11. o \in options
    BY <1>10 DEF NoOffer
<1>12. CASE ~LastWeek(sub, now)
    <2>1. \/ o = [strategy |-> "IMMEDIATELY", upgradable |-> TRUE /\ upgradable, credit |-> credit, net |-> cut]
          \/ o = [strategy |-> "FINISH_CYCLE", upgradable |-> TRUE /\ upgradable, credit |-> zero, net |-> finish]
        BY <1>9, <1>11, <1>12 DEF LastWeek
    <2>2. \/ o.strategy = "IMMEDIATELY" /\ o.upgradable = upgradable /\ o.credit = credit /\ o.net = cut
          \/ o.strategy = "FINISH_CYCLE" /\ o.credit = zero /\ o.net = finish
        BY <2>1
    <2> QED BY <1>1, <1>2, <1>3, <1>4, <1>5, <1>6, <1>7, <1>8, <1>12, <2>2
<1>13. CASE LastWeek(sub, now)
    <2>1. \/ o = [strategy |-> "IMMEDIATELY", upgradable |-> TRUE /\ upgradable, credit |-> zero, net |-> price]
          \/ o = [strategy |-> "FINISH_CYCLE", upgradable |-> FALSE /\ upgradable, credit |-> zero, net |-> finish]
        BY <1>9, <1>11, <1>13 DEF LastWeek
    <2> QED BY <1>1, <1>2, <1>3, <1>4, <1>5, <1>6, <1>7, <1>8, <1>13, <2>1
<1> QED BY <1>12, <1>13

(***************************************************************************)
(* Of every option of getUpgradePlanOption: no one pays less than nothing  *)
(* or more than the price; net, credit and discount add up to the price,   *)
(* to a rupiah, unless the last week is charged in full; the credit is     *)
(* within what was paid and a quarter of the price, is the unused part if  *)
(* the plan can be had at once, and does not grow with time.               *)
(***************************************************************************)
THEOREM OffersAreFair ==
    ASSUME NEW sub, sub.paid \in Nat, sub.started \in Int, sub.expires \in Int, NEW plan, plan.price \in Nat,
           NEW discount \in Nat, NEW now \in Int, NEW o \in Offer(sub, plan, discount, now).options
    PROVE  /\ o.net \in 0..plan.price
           /\ o.credit \in 0..sub.paid /\ 4 * o.credit <= plan.price + 2
           /\ o.net > 0 /\ ~(LastWeek(sub, now) /\ o.strategy = "IMMEDIATELY") =>
                o.net + o.credit + discount \in plan.price..(plan.price + 1)
           /\ o.upgradable /\ o.strategy = "IMMEDIATELY" /\ ~LastWeek(sub, now) =>
                2 * sub.paid * RemainingDays(sub, now) \in
                    ((2 * o.credit - 1) * TotalDays(sub))..((2 * o.credit + 1) * TotalDays(sub))
           /\ \A l \in Offer(sub, plan, discount, now + 1).options :
                l.strategy = o.strategy => l.credit <= o.credit
<1>1. PICK T \in Nat \ {0} : T = TotalDays(sub)
    BY CycleIs
<1>2. PICK den \in Nat \ {0} : den = 4 * T
    OBVIOUS
<1>3. PICK price \in Nat : price = plan.price
    OBVIOUS
<1>4. PICK C \in Nat : C = Credit(sub, price, now)
    BY CreditIs
<1>5. PICK c : c = Rounded(C, den)
    OBVIOUS
<1>6. PICK d : d = Rounded(Credit(sub, price, now + 1), den)
    OBVIOUS
<1>7. PICK paid \in Nat : paid = sub.paid
    OBVIOUS
<1>8. PICK days \in Nat : days = RemainingDays(sub, now)
    BY CycleIs, <1>1
<1>9. /\ c \in 0..paid /\ 4 * c <= price + 2 /\ d <= c
      /\ ~ExceedsCap(sub, price, now) => 2 * (paid * days) \in ((2 * c - 1) * T)..((2 * c + 1) * T)
    BY <1>1, <1>2, <1>4, <1>5, <1>6, <1>7, <1>8, CreditRounded
<1>10. d \in Nat /\ Rounded(0, den) = 0
    <2>2. Credit(sub, price, now) \in Nat /\ Credit(sub, price, now + 1) \in 0..Credit(sub, price, now)
        BY CreditIs
    <2>1. Credit(sub, price, now + 1) \in Nat
        BY <2>2
    <2> QED BY <1>6, <2>1, RoundedIs, RoundedZero
<1>11. PICK x \in Int : x = (price - discount) * den - C
    OBVIOUS
<1>12. PICK net : net = Rounded(IF x < 0 THEN 0 ELSE x, den)
    OBVIOUS
<1>13. net \in 0..price /\ (net > 0 => net + c + discount \in price..(price + 1))
    BY <1>5, <1>11, <1>12, NetIs
<1>14. PICK finish \in Nat : finish = IF price - discount < 0 THEN 0 ELSE price - discount
    OBVIOUS
<1>15. RemainingDays(sub, now) \in Int /\ RemainingDays(sub, now + 1) \in Int /\ now + 1 \in Int
       /\ RemainingDays(sub, now + 1) <= days
    BY <1>1, <1>8, CycleIs
<1>16. \/ /\ ~LastWeek(sub, now) /\ o.strategy = "IMMEDIATELY" /\ o.upgradable = ~ExceedsCap(sub, price, now)
          /\ o.credit = c /\ o.net = net
       \/ o.strategy = "FINISH_CYCLE" /\ o.credit = 0 /\ o.net = finish
       \/ LastWeek(sub, now) /\ o.strategy = "IMMEDIATELY" /\ o.credit = 0 /\ o.net = price
    BY <1>1, <1>2, <1>3, <1>4, <1>5, <1>10, <1>11, <1>12, <1>14, <1>15, OptionIs
<1>17. ASSUME NEW l \in Offer(sub, plan, discount, now + 1).options
       PROVE  \/ ~LastWeek(sub, now + 1) /\ l.strategy = "IMMEDIATELY" /\ l.credit = d
              \/ l.strategy \in {"FINISH_CYCLE", "IMMEDIATELY"} /\ l.credit = 0
    <2>1. l \in Offer(sub, plan, discount, now + 1).options
        BY <1>17
    <2>2. PICK then \in Int : then = now + 1
        OBVIOUS
    <2>3. \/ ~LastWeek(sub, then) /\ l.strategy = "IMMEDIATELY" /\ l.credit = Rounded(Credit(sub, plan.price, then), 4 * TotalDays(sub))
          \/ l.strategy = "FINISH_CYCLE" /\ l.credit = Rounded(0, 4 * TotalDays(sub))
          \/ l.strategy = "IMMEDIATELY" /\ l.credit = Rounded(0, 4 * TotalDays(sub))
        <3>1. l \in Offer(sub, plan, discount, then).options
            BY <2>1, <2>2
        <3>2. RemainingDays(sub, then) \in Int
            BY <1>15, <2>2
        <3>3. PICK y : y = (plan.price - discount) * (4 * TotalDays(sub)) - Credit(sub, plan.price, then)
            OBVIOUS
        <3>4. PICK m : m = IF plan.price - discount < 0 THEN 0 ELSE plan.price - discount
            OBVIOUS
        <3>5. \/ /\ ~LastWeek(sub, then) /\ l.strategy = "IMMEDIATELY" /\ l.upgradable = ~ExceedsCap(sub, plan.price, then)
                 /\ l.credit = Rounded(Credit(sub, plan.price, then), 4 * TotalDays(sub)) /\ l.net = Rounded(IF y < 0 THEN 0 ELSE y, 4 * TotalDays(sub))
              \/ /\ l.strategy = "FINISH_CYCLE" /\ l.credit = Rounded(0, 4 * TotalDays(sub)) /\ l.net = m
              \/ /\ LastWeek(sub, then) /\ l.strategy = "IMMEDIATELY" /\ l.credit = Rounded(0, 4 * TotalDays(sub)) /\ l.net = plan.price
            BY <3>1, <3>2, <3>3, <3>4, OptionIs
        <3> QED BY <3>5
    <2> QED BY <1>1, <1>2, <1>3, <1>6, <1>10, <2>2, <2>3
<1>18. LastWeek(sub, now) => LastWeek(sub, now + 1)
    BY <1>8, <1>15 DEF LastWeek
<1>19. \A l \in Offer(sub, plan, discount, now + 1).options : l.strategy = o.strategy => l.credit <= o.credit
    <2> SUFFICES ASSUME NEW l \in Offer(sub, plan, discount, now + 1).options, l.strategy = o.strategy
                 PROVE  l.credit <= o.credit
        OBVIOUS
    <2>1. l.credit = 0 \/ (~LastWeek(sub, now) /\ l.strategy = "IMMEDIATELY" /\ l.credit = d)
        BY <1>17, <1>18
    <2>2. o.credit = c \/ (o.credit = 0 /\ (o.strategy = "FINISH_CYCLE" \/ LastWeek(sub, now)))
        BY <1>16
    <2> QED BY <1>9, <1>10, <2>1, <2>2
<1>20. 2 * paid * days = 2 * (paid * days)
    OBVIOUS
<1>21. CASE /\ ~LastWeek(sub, now) /\ o.strategy = "IMMEDIATELY" /\ o.upgradable = ~ExceedsCap(sub, price, now)
            /\ o.credit = c /\ o.net = net
    BY <1>1, <1>3, <1>7, <1>8, <1>9, <1>13, <1>19, <1>20, <1>21
<1>22. CASE o.strategy = "FINISH_CYCLE" /\ o.credit = 0 /\ o.net = finish
    <2>1. finish \in 0..price /\ (finish > 0 => finish + 0 + discount \in price..(price + 1)) /\ 0 \in 0..paid
        BY <1>14
    <2> QED BY <1>3, <1>7, <1>19, <1>22, <2>1
<1>23. CASE LastWeek(sub, now) /\ o.strategy = "IMMEDIATELY" /\ o.credit = 0 /\ o.net = price
    BY <1>3, <1>7, <1>19, <1>23
<1> QED BY <1>16, <1>21, <1>22, <1>23
==============================================================================
