------------------------------- MODULE Billing -------------------------------
(***************************************************************************)
(* How one user pays: the payment methods that Xendit reports and the user   *)
(* ranks, the billing addresses with their default, and the price of an      *)
(* upgrade.                                                                *)
(*                                                                         *)
(* A transaction of this code reads through the repository, outside itself,  *)
(* and its writes are seen by others when it commits; a statement that meets *)
(* a row another transaction has written waits for that one to end.  The     *)
(* shift of the ranks is a statement of its own.                             *)
(***************************************************************************)
EXTENDS Pricing, FiniteSets

CONSTANTS
    Method, Account, AccountOf, \* Xendit's payment methods and the account behind each
    Address,
    Request,
    Earlier,                    \* the ranks of the methods the user may have
    MaxRank,                    \* bound: ranks that clients give and shifts reach; one for each method at least
    MaxDeliveries,              \* bound: webhooks that are delivered
    Subscribed, Plans, Discounts, Moments, \* bound: what prices are asked for
    Mix                         \* bound: the operations that are in progress together

\* The routes that change something, and the price of an upgrade, by controller.
MethodRoutes == {"add", "sort"}
PublicRoutes == {"add"}
AddressRoutes == {"createAddress", "updateAddress"}
UpgradeRoutes == {"price"}
HookRoutes == {"webhook"}
Ops == MethodRoutes \cup PublicRoutes \cup AddressRoutes \cup UpgradeRoutes \cup HookRoutes

ASSUME BillingAssumption ==
    /\ IsFiniteSet(Method) /\ AccountOf \in [Method -> Account] /\ "none" \notin Address
    /\ MaxRank \in Nat \ {0} /\ Cardinality(Method) <= MaxRank /\ MaxDeliveries \in Nat
    /\ Mix \subseteq [Request -> Ops \cup {"none"}]
\* One method of each of some accounts, ranked 1 to n.
ASSUME EarlierAssumption == \A old \in Earlier :
    /\ DOMAIN old \subseteq Method
    /\ \A m, n \in DOMAIN old : AccountOf[m] = AccountOf[n] => m = n
    /\ {old[m] : m \in DOMAIN old} = 1..Cardinality(DOMAIN old)
\* Whole units of money, and any dates.
ASSUME PriceAssumption ==
    /\ \A sub \in Subscribed : sub.paid \in Nat /\ sub.started \in Int /\ sub.expires \in Int
    /\ \A plan \in Plans : plan.price \in Nat
    /\ Discounts \subseteq Nat /\ Moments \subseteq Int

VARIABLES
    method,    \* the payment_methods table: external id to row
    linked,    \* external: what Xendit knows of each method
    hooks,     \* webhooks not yet answered with success
    delivered, \* webhooks handed over so far
    address,   \* the billing_address table: is it made, is it the default
    quote,     \* the last price asked for
    req, mix,
    changes,   \* ghost: commits to the payment methods, and to the addresses
    excused    \* ghost: which of ranks, accounts, addresses may be spoilt

vars == <<method, linked, hooks, delivered, address, quote, req, mix, changes, excused>>

Row == [rank : 1..MaxRank, default : BOOLEAN, status : {"ACTIVE", "EXPIRED"}]
None == [rank |-> 0]
Kept == {m \in Method : method[m] # None}

Link == [status : {"ACTIVE", "EXPIRED"}, default : BOOLEAN]
NoLink == [status |-> "none"]
Hook == [m : Method, status : {"ACTIVE", "EXPIRED"}, default : BOOLEAN]
NoAddress == "none"
Made == {a \in Address : address[a] # NoAddress}
Defaults == {a \in Made : address[a] = "default"}

NoHook == [m |-> "none", status |-> "ACTIVE", default |-> FALSE]

RequestState ==
    [pc : {"start", "validated", "new", "shift", "identity", "insert", "rows",
           "clear", "clearing", "save", "done"},
     hook : Hook \cup {NoHook},
     n : 0..Cardinality(Method), kept : 0..Cardinality(Method), \* methods counted, and checked
     shifted : BOOLEAN,
     target : [Method -> 0..MaxRank],           \* ranks asked for; 0 is not named
     todo : SUBSET Method, writes : SUBSET Method, \* rows to save, and written
     a : Address \cup {NoAddress}, default : {"default", "other", "absent"},
     seen : SUBSET Address, locks : SUBSET Address, \* rows to clear, and cleared
     found : {"default", "other"},
     version : Nat]                             \* ghost: changes when it read

TypeOK ==
    /\ method \in [Method -> Row \cup {None}]
    /\ linked \in [Method -> Link \cup {NoLink}]
    /\ hooks \subseteq Hook /\ delivered \in 0..MaxDeliveries
    /\ address \in [Address -> {NoAddress, "default", "other"}]
    /\ req \in [Request -> RequestState] /\ mix \in Mix
    /\ \A m \in Kept : linked[m] # NoLink
    /\ \A q, r \in Request : q # r =>
        /\ req[q].writes \cap req[r].writes = {}
        /\ req[q].locks \cap req[r].locks = {}

NoTarget == [m \in Method |-> 0]
Idle == [pc |-> "start", hook |-> NoHook, n |-> 0, kept |-> 0, shifted |-> FALSE,
         target |-> NoTarget, todo |-> {}, writes |-> {}, a |-> NoAddress, default |-> "absent",
         seen |-> {}, locks |-> {}, found |-> "other", version |-> 0]

NoQuote == [asked |-> FALSE]
Old(rank) == [rank |-> rank, default |-> rank = 1, status |-> "ACTIVE"]

Init ==
    /\ \E old \in Earlier :
        /\ method = [m \in Method |-> IF m \in DOMAIN old THEN Old(old[m]) ELSE None]
        /\ linked = [m \in Method |-> IF m \in DOMAIN old
                THEN [status |-> "ACTIVE", default |-> old[m] = 1] ELSE NoLink]
    /\ hooks = {} /\ delivered = 0
    /\ \E a \in Address : address = [b \in Address |-> IF a = b THEN "default" ELSE NoAddress]
    /\ quote = NoQuote
    /\ req = [r \in Request |-> Idle]
    /\ mix \in Mix
    /\ changes = [methods |-> 0, addresses |-> 0]
    /\ excused = {}

-----------------------------------------------------------------------------
At(r, op, pc) == mix[r] = op /\ req[r].pc = pc
Set(r, q) == req' = [req EXCEPT ![r] = q]
\* A request is over; the same slot takes the next webhook.
Over(r) == [Idle EXCEPT !.pc = IF mix[r] = "webhook" THEN "start" ELSE "done"]
Stays == UNCHANGED mix
Methods == <<method, linked, hooks, delivered>>
Excuse(what, because) == excused' = IF because THEN excused \cup {what} ELSE excused

\* createPaymentMethod: the account must be new; then Xendit is asked for it.
Owned(account) == \E m \in Kept : AccountOf[m] = account
Validate(r, m) ==
    /\ At(r, "add", "start") /\ linked[m] = NoLink
    /\ Set(r, IF Owned(AccountOf[m]) THEN Over(r)
              ELSE [req[r] EXCEPT !.pc = "validated", !.hook = [NoHook EXCEPT !.m = m]])
    /\ UNCHANGED <<Methods, address, quote, changes, excused>> /\ Stays

\* Xendit links it, and reports it.
Create(r, default) ==
    LET m == req[r].hook.m IN
    /\ At(r, "add", "validated")
    /\ linked[m] = NoLink
    /\ linked' = [linked EXCEPT ![m] = [status |-> "ACTIVE", default |-> default]]
    /\ hooks' = hooks \cup {[m |-> m, status |-> "ACTIVE", default |-> default]}
    /\ Set(r, Over(r))
    /\ UNCHANGED <<method, delivered, address, quote, changes, excused>> /\ Stays

Expire(m) ==
    /\ linked[m] # NoLink /\ linked[m].status = "ACTIVE"
    /\ linked' = [linked EXCEPT ![m] = [@ EXCEPT !.status = "EXPIRED"]]
    /\ hooks' = hooks \cup {[m |-> m, status |-> "EXPIRED", default |-> linked[m].default]}
    /\ UNCHANGED <<method, delivered, address, quote, req, changes, excused>> /\ Stays

-----------------------------------------------------------------------------
\* createOrUpdatePaymentMethod.  A method that is known is merged; if that
\* changes it, setAccountIdentityHash throws, as its user was not loaded.
Deliver(r, h) ==
    /\ At(r, "webhook", "start")
    /\ delivered < MaxDeliveries /\ delivered' = delivered + 1
    /\ IF h.m \in Kept
       THEN /\ hooks' = IF method[h.m].status = h.status THEN hooks \ {h} ELSE hooks
            /\ UNCHANGED req
       ELSE /\ Set(r, [req[r] EXCEPT !.pc = "new", !.hook = h])
            /\ UNCHANGED hooks
    /\ UNCHANGED <<method, linked, address, quote, changes, excused>> /\ Stays

CountMethods(r) ==
    LET n == Cardinality(Kept) IN
    /\ At(r, "webhook", "new")
    /\ Set(r, [req[r] EXCEPT !.pc = IF req[r].hook.default /\ n >= 1 THEN "shift" ELSE "identity",
                             !.n = n, !.version = changes.methods])
    /\ UNCHANGED <<Methods, address, quote, changes, excused>> /\ Stays

\* One statement over the user's rows; it waits for those that are locked.
Shift(r) ==
    /\ At(r, "webhook", "shift")
    /\ \A q \in Request : req[q].writes = {}
    /\ \A m \in Kept : method[m].rank < MaxRank
    /\ method' = [m \in Method |-> IF m \in Kept THEN [method[m] EXCEPT !.rank = @ + 1] ELSE None]
    /\ changes' = [changes EXCEPT !.methods = @ + 1]
    /\ Set(r, [req[r] EXCEPT !.pc = "identity", !.shifted = TRUE,
                  !.version = IF @ = changes.methods THEN @ + 1 ELSE @])
    /\ UNCHANGED <<linked, hooks, delivered, address, quote, excused>> /\ Stays

CheckIdentityMutant(r) == TRUE
CheckIdentity(r) == ~Owned(AccountOf[req[r].hook.m])

Identify(r) ==
    /\ At(r, "webhook", "identity")
    /\ IF CheckIdentity(r)
       THEN /\ Set(r, [req[r] EXCEPT !.pc = "insert", !.kept = Cardinality(Kept)])
            /\ UNCHANGED excused
       ELSE Set(r, Over(r)) /\ Excuse("ranks", req[r].shifted)
    /\ UNCHANGED <<Methods, address, quote, changes>> /\ Stays

\* Bug: ranks are counted from 0.
RankOfFromZero(q) == IF q.shifted THEN 1 ELSE q.n
\* Bug: the rank that the shift made room for is not used.
RankOfMutant(q) == q.n + 1
RankOf(q) == IF q.shifted THEN 1 ELSE q.n + 1

\* The unique index on the external id, the customer and the account.
Insert(r) ==
    LET q == req[r]
        m == q.hook.m
    IN
    /\ At(r, "webhook", "insert")
    /\ Set(r, Over(r))
    /\ IF m \in Kept
       THEN Excuse("ranks", q.shifted) /\ UNCHANGED <<method, hooks, changes>>
       ELSE /\ method' = [method EXCEPT ![m] = [rank |-> RankOf(q), default |-> q.hook.default,
                                                status |-> q.hook.status]]
            /\ hooks' = hooks \ {q.hook}
            /\ changes' = [changes EXCEPT !.methods = @ + 1]
            /\ excused' = excused
                \cup {x \in {"ranks"} : q.version # changes.methods}
                \cup {x \in {"accounts"} : q.kept # Cardinality(Kept)}
    /\ UNCHANGED <<linked, delivered, address, quote>> /\ Stays

-----------------------------------------------------------------------------
Named(target) == {m \in Method : target[m] # 0}

Targets == {target \in [Method -> 0..MaxRank] : Named(target) # {}
    /\ \A m, n \in Named(target) : m # n => target[m] # target[n]}

\* sortPaymentMethods: rows that are the user's, ranks that differ.
Sort(r) ==
    /\ At(r, "sort", "start")
    /\ \E target \in Targets : Set(r,
            IF Named(target) \subseteq Kept
            THEN [req[r] EXCEPT !.pc = "rows", !.target = target, !.todo = Named(target),
                                !.version = changes.methods]
            ELSE Over(r))
    /\ UNCHANGED <<Methods, address, quote, changes, excused>> /\ Stays

Ranked(row, rank) == [row EXCEPT !.rank = rank, !.default = (rank = 1)]

\* TypeORM compares with the row as committed and writes what differs.
SortRow(r, m) ==
    LET q == req[r] IN
    /\ At(r, "sort", "rows") /\ m \in q.todo
    /\ \/ /\ method[m] = Ranked(method[m], q.target[m])
          /\ Set(r, [q EXCEPT !.todo = @ \ {m}])
       \/ /\ method[m] # Ranked(method[m], q.target[m])
          /\ \A p \in Request \ {r} : m \notin req[p].writes
          /\ Set(r, [q EXCEPT !.todo = @ \ {m}, !.writes = @ \cup {m}])
    /\ UNCHANGED <<Methods, address, quote, changes, excused>> /\ Stays

SortCommit(r) ==
    LET q == req[r] IN
    /\ At(r, "sort", "rows") /\ q.todo = {}
    /\ method' = [m \in Method |->
            IF m \in q.writes THEN Ranked(method[m], q.target[m]) ELSE method[m]]
    /\ changes' = [changes EXCEPT !.methods = @ + 1]
    /\ Excuse("ranks", \/ q.version # changes.methods
                       \/ {q.target[m] : m \in Kept} # 1..Cardinality(Kept))
    /\ Set(r, Over(r))
    /\ UNCHANGED <<linked, hooks, delivered, address, quote>> /\ Stays

-----------------------------------------------------------------------------
AfterDefaultMutant(default) == "save"
\* Only a request for the default clears the others first.
AfterDefault(default) == IF default = "default" THEN "clear" ELSE "save"

CreateAddress(r, a, default) ==
    /\ At(r, "createAddress", "start")
    /\ a \notin Made /\ \A q \in Request : req[q].a # a
    /\ Set(r, [req[r] EXCEPT !.pc = AfterDefault(default), !.a = a, !.default = default,
                             !.version = changes.addresses])
    /\ UNCHANGED <<Methods, address, quote, changes, excused>> /\ Stays

UpdateAddress(r, a, default) ==
    /\ At(r, "updateAddress", "start")
    /\ a \in Made
    /\ Set(r, [req[r] EXCEPT !.pc = AfterDefault(default), !.a = a, !.default = default,
                             !.found = address[a], !.version = changes.addresses])
    /\ UNCHANGED <<Methods, address, quote, changes, excused>> /\ Stays

\* update(..., {isDefault: false}): the rows there are, once nobody holds them.
Clear(r) ==
    /\ req[r].pc = "clear"
    /\ Set(r, [req[r] EXCEPT !.pc = "clearing", !.seen = Made])
    /\ UNCHANGED <<Methods, address, quote, changes, excused>> /\ Stays

Free(r, as) == \A q \in Request \ {r} : req[q].locks \cap as = {}

Cleared(r) ==
    /\ req[r].pc = "clearing" /\ Free(r, req[r].seen)
    /\ Set(r, [req[r] EXCEPT !.pc = "save", !.locks = req[r].seen])
    /\ UNCHANGED <<Methods, address, quote, changes, excused>> /\ Stays

\* An absent field stays as it was loaded.
Value(q) == IF q.default = "absent" THEN q.found ELSE q.default

SaveAddress(r) ==
    LET q == req[r] IN
    /\ req[r].pc = "save" /\ Free(r, {q.a})
    /\ address' = [a \in Address |-> CASE a = q.a -> Value(q)
                                       [] a # q.a /\ a \in q.locks -> "other"
                                       [] OTHER -> address[a]]
    /\ changes' = [changes EXCEPT !.addresses = @ + 1]
    /\ Excuse("addresses", q.version # changes.addresses)
    /\ Set(r, Over(r))
    /\ UNCHANGED <<Methods, quote>> /\ Stays

-----------------------------------------------------------------------------
\* getAllUpgradePlanOptions, for one plan.
Price(r) ==
    /\ At(r, "price", "start")
    /\ ~quote.asked
    /\ \E sub \in Subscribed, plan \in Plans, discount \in Discounts, now \in Moments :
        quote' = [asked |-> TRUE, sub |-> sub, plan |-> plan, discount |-> discount, now |-> now,
                  offer |-> Offer(sub, plan, discount, now)]
    /\ Set(r, Over(r))
    /\ UNCHANGED <<Methods, address, changes, excused>> /\ Stays

\* The process dies, the database is unreachable or breaks a deadlock.
Fail(r) ==
    /\ req[r].pc \notin {"start", "done"}
    /\ Set(r, Over(r))
    /\ Excuse("ranks", req[r].shifted)
    /\ UNCHANGED <<Methods, address, quote, changes>> /\ Stays

Next ==
    \/ \E r \in Request :
        \/ \E m \in Method : Validate(r, m) \/ SortRow(r, m)
        \/ \E default \in BOOLEAN : Create(r, default)
        \/ \E h \in hooks : Deliver(r, h)
        \/ CountMethods(r) \/ Shift(r) \/ Identify(r) \/ Insert(r)
        \/ Sort(r) \/ SortCommit(r)
        \/ \E a \in Address : \/ \E d \in {"default", "other"} : CreateAddress(r, a, d)
                              \/ \E d \in {"default", "other", "absent"} : UpdateAddress(r, a, d)
        \/ Clear(r) \/ Cleared(r) \/ SaveAddress(r)
        \/ Price(r) \/ Fail(r)
    \/ \E m \in Method : Expire(m)

Spec == Init /\ [][Next]_vars

-----------------------------------------------------------------------------
(***************************************************************************)
(* The ranks that an upgrade sends to Xendit are 1 to n, each once, unless   *)
(* two changes overlapped, a sort asked for other ranks, or the insert that  *)
(* the ranks were shifted for was refused or died (createOrUpdatePayment-    *)
(* Method, sortPaymentMethods).                                            *)
(***************************************************************************)
RanksInOrder ==
    "ranks" \notin excused /\ (\A r \in Request : ~req[r].shifted) =>
        {method[m].rank : m \in Kept} = 1..Cardinality(Kept)

(***************************************************************************)
(* Two methods of the user are never the same account, unless one was        *)
(* inserted after the other's check: no index forbids it                     *)
(* (findOneByAccountIdentityHash).                                         *)
(***************************************************************************)
OneMethodPerAccount == "accounts" \notin excused =>
    \A m, n \in Kept : AccountOf[m] = AccountOf[n] => m = n

(***************************************************************************)
(* The user has one default address at most, unless an address was saved     *)
(* between what a request read or cleared and its commit (create, update).   *)
(***************************************************************************)
OneDefaultAddress == "addresses" \notin excused => Cardinality(Defaults) <= 1

(***************************************************************************)
(* An offer is fair: no one pays less than nothing or more than the price;    *)
(* the parts add up to it, to a rupiah, unless the last week is charged in    *)
(* full; the credit is within what was paid and a quarter of the price, is    *)
(* not cut if the plan can be had at once, and does not grow with time        *)
(* (getUpgradePlanOption).                                                  *)
(***************************************************************************)
QuoteFair == quote.asked => \A o \in quote.offer.options :
    LET price == quote.plan.price
        sub == quote.sub
        later == Offer(sub, quote.plan, quote.discount, quote.now + 1)
        lastWeek == RemainingDays(sub, quote.now) <= 7 \/ sub.plan = "FREE"
        sum == o.net + o.credit + quote.discount
    IN
    /\ o.net \in 0..price
    /\ o.credit \in 0..sub.paid /\ 4 * o.credit <= price + 2
    /\ o.net > 0 /\ ~(lastWeek /\ o.strategy = "IMMEDIATELY") => sum \in price..(price + 1)
    /\ o.upgradable /\ o.strategy = "IMMEDIATELY" /\ ~lastWeek =>
        2 * sub.paid * RemainingDays(sub, quote.now) \in
            ((2 * o.credit - 1) * TotalDays(sub))..((2 * o.credit + 1) * TotalDays(sub))
    /\ \A l \in later.options : l.strategy = o.strategy => l.credit <= o.credit
=============================================================================
