---------------------------- MODULE BillingProofs ----------------------------
(***************************************************************************)
(* Proofs about payment methods, addresses and prices. A request decides   *)
(* from what it read and writes later; its version says whether anything   *)
(* was committed in between, and if not then what it read is still so: the *)
(* number of methods, the rows that a sort has looked at, the addresses    *)
(* that a save clears. If something was, its commit excuses the property,  *)
(* so that nothing needs to hold of it. The ranks are 1 to n while no one  *)
(* has shifted them; after a shift they are 2 to n + 1 until its insert,   *)
(* or the one that shifted is no longer up to date and will be excused     *)
(* when it ends.                                                           *)
(***************************************************************************)
EXTENDS Billing, PricingProofs, FiniteSetTheorems, TLAPS

Typed ==
    /\ method \in [Method -> Row \cup {None}]
    /\ linked \in [Method -> Link \cup {NoLink}]
    /\ hooks \subseteq Hook /\ delivered \in 0..MaxDeliveries
    /\ address \in [Address -> {NoAddress, "default", "other"}]
    /\ req \in [Request -> RequestState] /\ mix \in Mix
    /\ changes \in [methods : Nat, addresses : Nat]

Known == \A m \in Kept : linked[m] # NoLink
Reported == \A h \in hooks : linked[h.m] # NoLink
Disjoint == \A p, r \in Request : p # r =>
    /\ req[p].writes \cap req[r].writes = {}
    /\ req[p].locks \cap req[r].locks = {}

\* A method is at one step of the webhook's transaction.
HookFits(r) == LET q == req[r] IN
    /\ q.pc = "validated" => mix[r] = "add" /\ q.hook \in Hook
    /\ q.pc \in {"new", "shift", "identity", "insert"} =>
        mix[r] = "webhook" /\ q.hook \in Hook /\ linked[q.hook.m] # NoLink
    /\ q.pc \in {"shift", "identity", "insert"} =>
        /\ q.n <= Cardinality(Kept) /\ q.version <= changes.methods
        /\ q.version = changes.methods => q.n = Cardinality(Kept)
    /\ q.pc = "insert" =>
        /\ q.kept <= Cardinality(Kept)
        /\ q.kept = Cardinality(Kept) => ~Owned(AccountOf[q.hook.m])
    /\ q.shifted => q.pc \in {"identity", "insert"}

\* A rank it has looked at and not written is the one it asks for.
SortFits(r) == LET q == req[r] IN
    /\ q.pc # "rows" => q.writes = {}
    /\ q.pc = "rows" =>
        /\ mix[r] = "sort" /\ Named(q.target) \subseteq Kept /\ q.writes \subseteq Named(q.target)
        /\ q.todo \subseteq Named(q.target)
        /\ q.version <= changes.methods
        /\ q.version = changes.methods =>
            \A m \in Named(q.target) \ (q.todo \cup q.writes) : method[m].rank = q.target[m]

\* What a save clears are all addresses there are, and what it keeps is what is there.
AddressFits(r) == LET q == req[r] IN
    /\ q.pc # "save" => q.locks = {}
    /\ q.pc \in {"clear", "clearing", "save"} =>
        /\ mix[r] \in AddressRoutes /\ q.a \in Address /\ q.version <= changes.addresses
        /\ q.version = changes.addresses =>
            /\ q.pc = "clearing" => q.seen = Made
            /\ q.pc = "save" /\ q.default = "default" => q.locks = Made
            /\ q.default = "absent" => q.found = address[q.a]

RequestFits(r) == HookFits(r) /\ SortFits(r) /\ AddressFits(r)

\* The ranks, k further on.
RanksAt(k) == {method[m].rank : m \in Kept} = (1 + k)..(Cardinality(Kept) + k)
Stale(r) == req[r].version # changes.methods
Alone(r) == \A x \in Request \ {r} : ~req[x].shifted
RanksFit == "ranks" \notin excused =>
    \/ (\A r \in Request : ~req[r].shifted) /\ RanksAt(0)
    \/ \E r \in Request : req[r].shifted /\ Stale(r)
    \/ \E r \in Request : req[r].shifted /\ Alone(r) /\ RanksAt(1)

AccountsFit == "accounts" \notin excused =>
    \A m, n \in Kept : AccountOf[m] = AccountOf[n] => m = n
AddressesFit == "addresses" \notin excused => \A a, b \in Defaults : a = b

IInv ==
    /\ Typed /\ Known /\ Reported /\ Disjoint /\ RanksFit /\ AccountsFit /\ AddressesFit
    /\ \A r \in Request : RequestFits(r)

-----------------------------------------------------------------------------
(* Types. *)

LEMMA RowsAre == \A row \in Row : row # None /\ row.rank \in 1..MaxRank /\ row.default \in BOOLEAN
                                  /\ row.status \in {"ACTIVE", "EXPIRED"}
BY BillingAssumption DEF Row, None

LEMMA LinksAre == \A link \in Link : link # NoLink /\ link.status \in {"ACTIVE", "EXPIRED"} /\ link.default \in BOOLEAN
BY DEF Link, NoLink

LEMMA HooksAre == \A h \in Hook : h.m \in Method /\ h.status \in {"ACTIVE", "EXPIRED"} /\ h.default \in BOOLEAN
BY DEF Hook

LEMMA StatesAre == \A q \in RequestState :
    /\ q.hook \in Hook \cup {NoHook} /\ q.shifted \in BOOLEAN
    /\ q.n \in 0..Cardinality(Method) /\ q.kept \in 0..Cardinality(Method)
    /\ q.target \in [Method -> 0..MaxRank] /\ q.todo \subseteq Method /\ q.writes \subseteq Method
    /\ q.a \in Address \cup {NoAddress} /\ q.default \in {"default", "other", "absent"}
    /\ q.seen \subseteq Address /\ q.locks \subseteq Address /\ q.found \in {"default", "other"}
    /\ q.version \in Nat
BY DEF RequestState

LEMMA IdleIs ==
    /\ Idle \in RequestState /\ ~Idle.shifted /\ Idle.writes = {} /\ Idle.locks = {} /\ Idle.pc = "start"
<1>1. 0 \in 0..Cardinality(Method) /\ MaxRank \in Nat
    BY BillingAssumption, FS_CardinalityType
<1>2. NoTarget \in [Method -> 0..MaxRank]
    BY <1>1 DEF NoTarget
<1> QED BY <1>1, <1>2 DEF Idle, RequestState

LEMMA OverIs ==
    ASSUME NEW r
    PROVE  /\ Over(r) \in RequestState /\ ~Over(r).shifted /\ Over(r).writes = {} /\ Over(r).locks = {}
           /\ Over(r).pc \in {"start", "done"}
<1>1. \A pc \in {"start", "done"} :
        /\ [Idle EXCEPT !.pc = pc] \in RequestState /\ ~[Idle EXCEPT !.pc = pc].shifted
        /\ [Idle EXCEPT !.pc = pc].writes = {} /\ [Idle EXCEPT !.pc = pc].locks = {} /\ [Idle EXCEPT !.pc = pc].pc = pc
    BY IdleIs DEF RequestState
<1> QED BY <1>1 DEF Over

LEMMA KeptIs ==
    ASSUME Typed
    PROVE  /\ Kept \subseteq Method /\ IsFiniteSet(Kept) /\ Cardinality(Kept) \in Nat
           /\ Cardinality(Kept) <= Cardinality(Method) /\ Cardinality(Method) \in Nat
           /\ \A m \in Method : m \in Kept <=> method[m] \in Row
<1>1. Kept \subseteq Method
    BY DEF Kept
<1>2. \A m \in Method : m \in Kept <=> method[m] \in Row
    BY RowsAre DEF Kept, Typed
<1> QED BY <1>1, <1>2, BillingAssumption, FS_Subset, FS_CardinalityType

KeptFacts ==
    /\ Kept \subseteq Method /\ IsFiniteSet(Kept) /\ Cardinality(Kept) \in Nat
    /\ Cardinality(Kept) <= Cardinality(Method)
    /\ \A m \in Method : m \in Kept <=> method[m] \in Row
LEMMA KeptNow == Typed => KeptFacts
BY KeptIs DEF KeptFacts
LEMMA KeptThen == Typed' => KeptFacts'
BY KeptNow, PTL
LEMMA KeptNext ==
    ASSUME Typed'
    PROVE  /\ Kept' \subseteq Method /\ IsFiniteSet(Kept') /\ Cardinality(Kept') \in Nat
           /\ Cardinality(Kept') <= Cardinality(Method)
           /\ \A m \in Method : m \in Kept' <=> method'[m] \in Row
BY KeptThen DEF KeptFacts

LEMMA TypeIs == TypeOK <=>
    /\ method \in [Method -> Row \cup {None}]
    /\ linked \in [Method -> Link \cup {NoLink}]
    /\ hooks \subseteq Hook /\ delivered \in 0..MaxDeliveries
    /\ address \in [Address -> {NoAddress, "default", "other"}]
    /\ req \in [Request -> RequestState] /\ mix \in Mix
    /\ Known /\ Disjoint
BY DEF TypeOK, Known, Disjoint

-----------------------------------------------------------------------------
(* What a step leaves as it was. *)

Grow ==
    /\ mix' = mix /\ Kept \subseteq Kept' /\ \A m \in Method : linked[m] # NoLink => linked'[m] # NoLink
    /\ changes.methods <= changes'.methods /\ (changes'.methods = changes.methods => method' = method)
    /\ changes.addresses <= changes'.addresses /\ (changes'.addresses = changes.addresses => address' = address)

LEMMA OthersFit ==
    ASSUME IInv, Typed', Grow, NEW x \in Request, req'[x] = req[x]
    PROVE  RequestFits(x)'
<1>1. PICK q \in RequestState : q = req[x] /\ q = req'[x]
    BY DEF IInv, Typed
<1>2. q.version \in Nat /\ q.n \in Nat /\ q.kept \in Nat /\ (\A h \in Hook : h.m \in Method)
    BY HooksAre, StatesAre, BillingAssumption, FS_CardinalityType
<1>3. changes.methods \in Nat /\ changes'.methods \in Nat /\ changes.addresses \in Nat /\ changes'.addresses \in Nat
    BY DEF IInv, Typed
<1>4. /\ Cardinality(Kept) \in Nat /\ Cardinality(Kept') \in Nat /\ Cardinality(Kept) <= Cardinality(Kept')
      /\ Cardinality(Kept') = Cardinality(Kept) => Kept' = Kept
    BY KeptIs, KeptNext, FS_Subset DEF IInv, Grow
<1>5. HookFits(x)'
    <2>1. HookFits(x)
        BY DEF IInv, RequestFits
    <2>2. changes'.methods = changes.methods => Kept' = Kept
        BY DEF Grow, Kept
    <2>3. ASSUME Kept' = Kept PROVE \A c : Owned(c)' <=> Owned(c)
        BY <2>3 DEF Owned
    <2>4. q.pc \in {"shift", "identity", "insert"} =>
            /\ q.n <= Cardinality(Kept') /\ q.version <= changes'.methods
            /\ q.version = changes'.methods => q.n = Cardinality(Kept')
        BY <1>1, <1>2, <1>3, <1>4, <2>1, <2>2 DEF HookFits, Grow
    <2>5. q.pc = "insert" =>
            /\ q.kept <= Cardinality(Kept')
            /\ q.kept = Cardinality(Kept') => ~Owned(AccountOf[q.hook.m])'
        <3>1. PICK c : c = AccountOf[q.hook.m]
            OBVIOUS
        <3>2. q.pc = "insert" => q.kept <= Cardinality(Kept) /\ (q.kept = Cardinality(Kept) => ~Owned(c))
            BY <1>1, <2>1, <3>1 DEF HookFits
        <3>3. q.pc = "insert" => q.kept <= Cardinality(Kept') /\ (q.kept = Cardinality(Kept') => ~Owned(c)')
            BY <1>2, <1>4, <2>3, <3>2
        <3> QED BY <3>1, <3>3
    <2>6. q.pc \in {"new", "shift", "identity", "insert"} =>
            mix'[x] = "webhook" /\ q.hook \in Hook /\ linked'[q.hook.m] # NoLink
        BY <1>1, <1>2, <2>1 DEF HookFits, Grow
    <2>7. /\ q.pc = "validated" => mix'[x] = "add" /\ q.hook \in Hook
          /\ q.shifted => q.pc \in {"identity", "insert"}
        BY <1>1, <2>1 DEF HookFits, Grow
    <2> QED BY <1>1, <2>4, <2>5, <2>6, <2>7 DEF HookFits
<1>6. SortFits(x)'
    <2>1. SortFits(x)
        BY DEF IInv, RequestFits
    <2>2. q.pc = "rows" => q.version <= changes'.methods
        BY <1>1, <1>2, <1>3, <2>1 DEF SortFits, Grow
    <2>3. q.pc = "rows" /\ q.version = changes'.methods => q.version = changes.methods /\ method' = method
        BY <1>1, <1>2, <1>3, <2>1 DEF SortFits, Grow
    <2> QED BY <1>1, <2>1, <2>2, <2>3 DEF SortFits, Grow
<1>7. AddressFits(x)'
    <2>1. AddressFits(x)
        BY DEF IInv, RequestFits
    <2>2. q.pc \in {"clear", "clearing", "save"} => q.version <= changes'.addresses
        BY <1>1, <1>2, <1>3, <2>1 DEF AddressFits, Grow
    <2>3. q.pc \in {"clear", "clearing", "save"} /\ q.version = changes'.addresses =>
            q.version = changes.addresses /\ address' = address /\ Made' = Made
        BY <1>1, <1>2, <1>3, <2>1 DEF AddressFits, Grow, Made
    <2> QED BY <1>1, <2>1, <2>2, <2>3 DEF AddressFits, Grow
<1> QED BY <1>5, <1>6, <1>7 DEF RequestFits

\* A step of r that writes no method and no address.
LEMMA QuietFits ==
    ASSUME IInv, NEW r \in Request, NEW q \in RequestState, Set(r, q),
           UNCHANGED <<method, address, changes, mix>>, linked' \in [Method -> Link \cup {NoLink}],
           \A m \in Method : linked[m] # NoLink => linked'[m] # NoLink,
           hooks' \subseteq Hook, Reported', delivered' \in 0..MaxDeliveries, RequestFits(r)',
           \A x \in Request \ {r} : q.writes \cap req[x].writes = {} /\ q.locks \cap req[x].locks = {},
           excused \subseteq excused',
           \/ (q.shifted <=> req[r].shifted) /\ (q.shifted => q.version = req[r].version)
           \/ "ranks" \in excused'
    PROVE  IInv'
<1>1. Typed /\ req'[r] = q /\ \A x \in Request \ {r} : req'[x] = req[x]
    BY DEF Set, IInv, Typed
<1>2. Typed'
    BY DEF IInv, Typed, Set
<1>3. Kept' = Kept /\ Made' = Made /\ Defaults' = Defaults
    BY DEF Kept, Made, Defaults
<1>4. Grow
    BY <1>2, <1>3 DEF Grow, Typed
<1>5. \A x \in Request : RequestFits(x)'
    BY <1>1, <1>2, <1>4, OthersFit
<1>6. Disjoint'
    BY <1>1 DEF Disjoint, IInv
<1>7. RanksFit'
    <2> SUFFICES ASSUME "ranks" \notin excused' PROVE RanksFit'
        BY DEF RanksFit
    <2>1. \A x \in Request : (req'[x].shifted <=> req[x].shifted) /\ (req[x].shifted => (Stale(x)' <=> Stale(x)))
        BY <1>1 DEF Stale
    <2>2. RanksAt(0)' = RanksAt(0) /\ RanksAt(1)' = RanksAt(1)
        BY <1>3 DEF RanksAt
    <2>3. \A x \in Request : Alone(x)' <=> Alone(x)
        BY <2>1 DEF Alone
    <2> QED BY <2>1, <2>2, <2>3 DEF RanksFit, IInv
<1>8. Known' /\ AccountsFit' /\ AddressesFit'
    BY <1>1, <1>3, KeptIs DEF IInv, Known, AccountsFit, AddressesFit
<1> QED BY <1>2, <1>5, <1>6, <1>7, <1>8 DEF IInv

\* A request that is over fits.
LEMMA OverFits ==
    ASSUME NEW r \in Request, req'[r] = Over(r) PROVE RequestFits(r)'
BY OverIs DEF RequestFits, HookFits, SortFits, AddressFits

-----------------------------------------------------------------------------
(* Steps that write no method and no address. *)

\* The step's own request: it keeps what it has locked, or lets go of it.
LEMMA StillFits ==
    ASSUME IInv, NEW r \in Request, NEW q \in RequestState, Set(r, q),
           UNCHANGED <<method, linked, hooks, address, changes, mix>>, delivered' \in 0..MaxDeliveries,
           RequestFits(r)', q.writes = {} \/ q.writes = req[r].writes, q.locks = {} \/ q.locks = req[r].locks,
           excused \subseteq excused',
           \/ (q.shifted <=> req[r].shifted) /\ (q.shifted => q.version = req[r].version)
           \/ "ranks" \in excused'
    PROVE  IInv'
<1>1. \A x \in Request \ {r} : q.writes \cap req[x].writes = {} /\ q.locks \cap req[x].locks = {}
    BY DEF IInv, Disjoint
<1>2. Reported' /\ linked' \in [Method -> Link \cup {NoLink}] /\ hooks' \subseteq Hook
    BY DEF IInv, Reported, Typed
<1> QED BY <1>1, <1>2, QuietFits

LEMMA OverKeeps ==
    ASSUME IInv, NEW r \in Request, Set(r, Over(r)), Stays,
           UNCHANGED <<method, linked, hooks, address, changes>>, delivered' \in 0..MaxDeliveries,
           excused \subseteq excused', req[r].shifted => "ranks" \in excused'
    PROVE  IInv'
<1>1. PICK q \in RequestState : q = Over(r) /\ ~q.shifted /\ q.writes = {} /\ q.locks = {}
    BY OverIs
<1>2. req'[r] = Over(r) /\ Set(r, q)
    BY <1>1 DEF Set, IInv, Typed
<1>3. RequestFits(r)'
    BY <1>2, OverFits
<1> QED BY <1>1, <1>2, <1>3, StillFits DEF Stays

LEMMA FailKeeps == ASSUME IInv, NEW r \in Request, Fail(r) PROVE IInv'
<1>1. /\ Set(r, Over(r)) /\ Stays /\ UNCHANGED <<method, linked, hooks, delivered, address, changes>>
      /\ excused \subseteq excused' /\ (req[r].shifted => "ranks" \in excused')
    BY DEF Fail, Methods, Excuse
<1> QED BY <1>1, OverKeeps DEF IInv, Typed

LEMMA PriceKeeps == ASSUME IInv, NEW r \in Request, Price(r) PROVE IInv'
<1>1. /\ Set(r, Over(r)) /\ Stays /\ UNCHANGED <<method, linked, hooks, delivered, address, changes, excused>>
      /\ req[r].pc = "start"
    BY DEF Price, Methods, At
<1>2. ~req[r].shifted
    BY <1>1 DEF IInv, RequestFits, HookFits
<1> QED BY <1>1, <1>2, OverKeeps DEF IInv, Typed

\* At its start a request has nothing.
LEMMA NothingYet ==
    ASSUME IInv, NEW r \in Request, req[r].pc \in {"start", "new", "shift", "validated"}
    PROVE  ~req[r].shifted /\ req[r].writes = {} /\ req[r].locks = {}
BY DEF IInv, RequestFits, HookFits, SortFits, AddressFits

LEMMA ValidateKeeps == ASSUME IInv, NEW r \in Request, NEW m \in Method, Validate(r, m) PROVE IInv'
<1>1. /\ mix[r] = "add" /\ req[r].pc = "start" /\ Stays
      /\ UNCHANGED <<method, linked, hooks, delivered, address, changes, excused>>
    BY DEF Validate, At, Methods
<1>2. ~req[r].shifted /\ req[r].writes = {} /\ req[r].locks = {}
    BY <1>1, NothingYet
<1>3. CASE Owned(AccountOf[m])
    BY <1>1, <1>2, <1>3, OverKeeps DEF Validate, IInv, Typed
<1>4. CASE ~Owned(AccountOf[m])
    <2>1. PICK p \in RequestState : p = req[r]
        BY DEF IInv, Typed
    <2>2. PICK q : q = [p EXCEPT !.pc = "validated", !.hook = [NoHook EXCEPT !.m = m]]
        OBVIOUS
    <2>3. [NoHook EXCEPT !.m = m] \in Hook
        BY DEF NoHook, Hook
    <2>4. /\ q \in RequestState /\ q.pc = "validated" /\ q.hook \in Hook /\ q.shifted = p.shifted
          /\ q.writes = p.writes /\ q.locks = p.locks
        BY <2>2, <2>3 DEF RequestState
    <2>5. Set(r, q) /\ req'[r] = q
        BY <1>4, <2>1, <2>2 DEF Validate, Set, IInv, Typed
    <2>6. RequestFits(r)'
        BY <1>1, <1>2, <2>1, <2>4, <2>5 DEF RequestFits, HookFits, SortFits, AddressFits, Stays
    <2> QED BY <1>1, <1>2, <2>1, <2>4, <2>5, <2>6, StillFits DEF Stays, IInv, Typed
<1> QED BY <1>3, <1>4

LEMMA CreateKeeps == ASSUME IInv, NEW r \in Request, NEW default \in BOOLEAN, Create(r, default) PROVE IInv'
<1>1. /\ mix[r] = "add" /\ req[r].pc = "validated" /\ Stays /\ Set(r, Over(r))
      /\ UNCHANGED <<method, delivered, address, changes, excused>>
    BY DEF Create, At
<1>2. ~req[r].shifted
    BY <1>1, NothingYet
<1>3. PICK m \in Method : m = req[r].hook.m
    BY <1>1, HooksAre DEF IInv, RequestFits, HookFits
<1>4. PICK link \in Link : link = [status |-> "ACTIVE", default |-> default]
    BY DEF Link
<1>5. PICK h \in Hook : h = [m |-> m, status |-> "ACTIVE", default |-> default] /\ h.m = m
    <2>1. [m |-> m, status |-> "ACTIVE", default |-> default] \in Hook
        BY DEF Hook
    <2> QED BY <2>1
<1>6. linked' = [linked EXCEPT ![m] = link] /\ hooks' = hooks \cup {h}
    BY <1>3, <1>4, <1>5 DEF Create
<1>7. linked' \in [Method -> Link \cup {NoLink}] /\ hooks' \subseteq Hook
      /\ \A n \in Method : linked[n] # NoLink \/ n = m => linked'[n] # NoLink
    BY <1>6, LinksAre DEF IInv, Typed
<1>8. Reported'
    <2>1. \A g \in hooks : g.m \in Method
        BY HooksAre DEF IInv, Typed
    <2> QED BY <1>5, <1>6, <1>7, <2>1 DEF IInv, Reported
<1>9. PICK q \in RequestState : q = Over(r) /\ ~q.shifted /\ q.writes = {} /\ q.locks = {}
    BY OverIs
<1>10. Set(r, q) /\ RequestFits(r)'
    BY <1>1, <1>9, OverFits DEF Set, IInv, Typed
<1>11. delivered' \in 0..MaxDeliveries
    BY <1>1 DEF IInv, Typed
<1> QED BY <1>1, <1>2, <1>7, <1>8, <1>9, <1>10, <1>11, QuietFits DEF Stays

LEMMA ExpireKeeps == ASSUME IInv, NEW m \in Method, Expire(m) PROVE IInv'
<1>1. PICK old \in Link : old = linked[m]
    BY DEF Expire, IInv, Typed
<1>2. PICK link \in Link : link = [old EXCEPT !.status = "EXPIRED"]
    BY DEF Link
<1>3. PICK h \in Hook : h = [m |-> m, status |-> "EXPIRED", default |-> old.default] /\ h.m = m
    <2>1. [m |-> m, status |-> "EXPIRED", default |-> old.default] \in Hook
        BY LinksAre DEF Hook
    <2> QED BY <2>1
<1>4. linked' = [linked EXCEPT ![m] = link] /\ hooks' = hooks \cup {h}
      /\ UNCHANGED <<method, delivered, address, req, mix, changes, excused>>
    BY <1>1, <1>2, <1>3 DEF Expire, Stays
<1>5. linked' \in [Method -> Link \cup {NoLink}] /\ hooks' \subseteq Hook
      /\ \A n \in Method : linked[n] # NoLink \/ n = m => linked'[n] # NoLink
    BY <1>4, LinksAre DEF IInv, Typed
<1>6. Typed'
    BY <1>4, <1>5 DEF IInv, Typed
<1>7. Kept' = Kept /\ Made' = Made /\ Defaults' = Defaults
    BY <1>4 DEF Kept, Made, Defaults
<1>8. Grow
    BY <1>4, <1>5, <1>6, <1>7 DEF Grow, Typed
<1>9. \A x \in Request : RequestFits(x)'
    BY <1>4, <1>6, <1>8, OthersFit
<1>10. Reported'
    <2>1. \A g \in hooks : g.m \in Method
        BY HooksAre DEF IInv, Typed
    <2> QED BY <1>3, <1>4, <1>5, <2>1 DEF IInv, Reported
<1>11. Known'
    BY <1>5, <1>7, KeptIs DEF IInv, Known
<1>12. Disjoint' /\ RanksFit' /\ AccountsFit' /\ AddressesFit'
    BY <1>4, <1>7 DEF IInv, Disjoint, RanksFit, RanksAt, Alone, Stale, AccountsFit, AddressesFit
<1> QED BY <1>6, <1>9, <1>10, <1>11, <1>12 DEF IInv

LEMMA DeliverKeeps == ASSUME IInv, NEW r \in Request, NEW h \in hooks, Deliver(r, h) PROVE IInv'
<1>1. /\ mix[r] = "webhook" /\ req[r].pc = "start" /\ Stays /\ delivered < MaxDeliveries /\ delivered' = delivered + 1
      /\ UNCHANGED <<method, linked, address, changes, excused>>
    BY DEF Deliver, At
<1>2. delivered' \in 0..MaxDeliveries
    BY <1>1, BillingAssumption DEF IInv, Typed
<1>3. ~req[r].shifted /\ req[r].writes = {} /\ req[r].locks = {}
    BY <1>1, NothingYet
<1>4. PICK p \in RequestState : p = req[r]
    BY DEF IInv, Typed
<1>5. h \in Hook /\ linked[h.m] # NoLink
    BY DEF IInv, Typed, Reported
<1>6. hooks' \subseteq hooks
    BY DEF Deliver
<1>7. Reported' /\ hooks' \subseteq Hook /\ linked' \in [Method -> Link \cup {NoLink}]
    BY <1>1, <1>6 DEF IInv, Reported, Typed
<1>8. CASE h.m \in Kept
    <2>1. Set(r, p) /\ req' = req
        BY <1>4, <1>8 DEF Deliver, Set, IInv, Typed
    <2>2. RequestFits(r)
        BY DEF IInv
    <2>3. RequestFits(r)'
        <3>1. p.pc = "start" /\ ~p.shifted /\ p.writes = {} /\ p.locks = {} /\ req'[r] = p
            BY <1>1, <1>3, <1>4, <2>1
        <3> QED BY <3>1 DEF RequestFits, HookFits, SortFits, AddressFits
    <2> QED BY <1>1, <1>2, <1>3, <1>4, <1>7, <2>1, <2>3, QuietFits DEF Stays
<1>9. CASE h.m \notin Kept
    <2>1. PICK q : q = [p EXCEPT !.pc = "new", !.hook = h]
        OBVIOUS
    <2>2. /\ q \in RequestState /\ q.pc = "new" /\ q.hook = h /\ q.shifted = p.shifted
          /\ q.writes = p.writes /\ q.locks = p.locks
        BY <1>5, <2>1 DEF RequestState
    <2>3. Set(r, q) /\ req'[r] = q
        BY <1>4, <1>9, <2>1 DEF Deliver, Set, IInv, Typed
    <2>4. RequestFits(r)'
        BY <1>1, <1>3, <1>4, <1>5, <2>2, <2>3 DEF RequestFits, HookFits, SortFits, AddressFits, Stays
    <2> QED BY <1>1, <1>2, <1>3, <1>4, <1>7, <2>2, <2>3, <2>4, QuietFits DEF Stays
<1> QED BY <1>8, <1>9

LEMMA CountMethodsKeeps == ASSUME IInv, NEW r \in Request, CountMethods(r) PROVE IInv'
<1>1. /\ mix[r] = "webhook" /\ req[r].pc = "new" /\ Stays
      /\ UNCHANGED <<method, linked, hooks, delivered, address, changes, excused>>
    BY DEF CountMethods, At, Methods
<1>2. ~req[r].shifted /\ req[r].writes = {} /\ req[r].locks = {} /\ req[r].hook \in Hook /\ linked[req[r].hook.m] # NoLink
    BY <1>1, NothingYet DEF IInv, RequestFits, HookFits
<1>3. PICK p \in RequestState : p = req[r]
    BY DEF IInv, Typed
<1>4. PICK n \in Nat : n = Cardinality(Kept) /\ n \in 0..Cardinality(Method)
    BY KeptIs DEF IInv
<1>5. PICK v \in Nat : v = changes.methods
    BY DEF IInv, Typed
<1>6. PICK pc \in {"shift", "identity"} : pc = IF p.hook.default /\ n >= 1 THEN "shift" ELSE "identity"
    OBVIOUS
<1>7. PICK q : q = [p EXCEPT !.pc = pc, !.n = n, !.version = v]
    OBVIOUS
<1>8. /\ q \in RequestState /\ q.pc \in {"shift", "identity"} /\ q.hook = p.hook /\ q.shifted = p.shifted
      /\ q.writes = p.writes /\ q.locks = p.locks /\ q.n = n /\ q.version = v
    BY <1>4, <1>5, <1>6, <1>7 DEF RequestState
<1>9. Set(r, q) /\ req'[r] = q
    BY <1>3, <1>4, <1>5, <1>6, <1>7 DEF CountMethods, Set, IInv, Typed
<1>10. Cardinality(Kept') = n
    BY <1>1, <1>4 DEF Kept
<1>11. RequestFits(r)'
    <2>1. HookFits(r)'
        BY <1>1, <1>2, <1>3, <1>4, <1>5, <1>8, <1>9, <1>10 DEF HookFits, Stays
    <2> QED BY <1>1, <1>2, <1>3, <1>8, <1>9, <2>1 DEF RequestFits, SortFits, AddressFits
<1> QED BY <1>1, <1>2, <1>3, <1>8, <1>9, <1>11, StillFits DEF Stays, IInv, Typed

LEMMA IdentifyKeeps == ASSUME IInv, NEW r \in Request, Identify(r) PROVE IInv'
<1>1. /\ mix[r] = "webhook" /\ req[r].pc = "identity" /\ Stays
      /\ UNCHANGED <<method, linked, hooks, delivered, address, changes>>
    BY DEF Identify, At, Methods
<1>2. CASE ~CheckIdentity(r)
    <2>1. Set(r, Over(r)) /\ excused \subseteq excused' /\ (req[r].shifted => "ranks" \in excused')
        BY <1>2 DEF Identify, Excuse
    <2> QED BY <1>1, <2>1, OverKeeps DEF IInv, Typed
<1>3. CASE CheckIdentity(r)
    <2>1. PICK p \in RequestState : p = req[r]
        BY DEF IInv, Typed
    <2>2. PICK n \in Nat : n = Cardinality(Kept) /\ n \in 0..Cardinality(Method)
        BY KeptIs DEF IInv
    <2>3. PICK q : q = [p EXCEPT !.pc = "insert", !.kept = n]
        OBVIOUS
    <2>4. /\ q \in RequestState /\ q.pc = "insert" /\ q.hook = p.hook /\ q.shifted = p.shifted /\ q.kept = n
          /\ q.writes = p.writes /\ q.locks = p.locks /\ q.n = p.n /\ q.version = p.version
        BY <2>2, <2>3 DEF RequestState
    <2>5. Set(r, q) /\ req'[r] = q /\ excused' = excused
        BY <1>3, <2>1, <2>2, <2>3 DEF Identify, Set, IInv, Typed
    <2>6. Kept' = Kept
        BY <1>1 DEF Kept
    <2>7. HookFits(r) /\ SortFits(r) /\ AddressFits(r)
        BY DEF IInv, RequestFits
    <2>8. PICK c : c = AccountOf[p.hook.m]
        OBVIOUS
    <2>9. ~Owned(c) /\ (Owned(c)' <=> Owned(c))
        BY <1>3, <2>1, <2>6, <2>8 DEF CheckIdentity, Owned
    <2>10. HookFits(r)'
        BY <1>1, <2>1, <2>2, <2>4, <2>5, <2>6, <2>7, <2>8, <2>9 DEF HookFits, Stays
    <2>11. RequestFits(r)'
        BY <1>1, <2>1, <2>4, <2>5, <2>7, <2>10 DEF RequestFits, SortFits, AddressFits
    <2> QED BY <1>1, <2>1, <2>4, <2>5, <2>11, StillFits DEF Stays, IInv, Typed
<1> QED BY <1>2, <1>3

LEMMA SortKeeps == ASSUME IInv, NEW r \in Request, Sort(r) PROVE IInv'
<1>1. /\ mix[r] = "sort" /\ req[r].pc = "start" /\ Stays
      /\ UNCHANGED <<method, linked, hooks, delivered, address, changes, excused>>
    BY DEF Sort, At, Methods
<1>2. ~req[r].shifted /\ req[r].writes = {} /\ req[r].locks = {}
    BY <1>1, NothingYet
<1>3. PICK p \in RequestState : p = req[r]
    BY DEF IInv, Typed
<1>4. PICK v \in Nat : v = changes.methods
    BY DEF IInv, Typed
<1>5. PICK target \in Targets : Set(r,
            IF Named(target) \subseteq Kept
            THEN [p EXCEPT !.pc = "rows", !.target = target, !.todo = Named(target), !.version = v]
            ELSE Over(r))
    BY <1>3, <1>4 DEF Sort
<1>6. target \in [Method -> 0..MaxRank]
    BY DEF Targets
<1>7. CASE Named(target) \subseteq Kept
    <2>1. PICK q : q = [p EXCEPT !.pc = "rows", !.target = target, !.todo = Named(target), !.version = v]
        OBVIOUS
    <2>2. Named(target) \subseteq Method
        BY DEF Named
    <2>3. /\ q \in RequestState /\ q.pc = "rows" /\ q.shifted = p.shifted /\ q.writes = p.writes /\ q.locks = p.locks
          /\ q.target = target /\ q.todo = Named(target) /\ q.version = v
        BY <1>6, <2>1, <2>2 DEF RequestState
    <2>4. Set(r, q) /\ req'[r] = q
        BY <1>5, <1>7, <2>1 DEF Set, IInv, Typed
    <2>5. Kept' = Kept
        BY <1>1 DEF Kept
    <2>6. RequestFits(r)'
        BY <1>1, <1>2, <1>3, <1>4, <1>7, <2>3, <2>4, <2>5 DEF RequestFits, HookFits, SortFits, AddressFits, Stays
    <2> QED BY <1>1, <1>2, <1>3, <2>3, <2>4, <2>6, StillFits DEF Stays, IInv, Typed
<1>8. CASE ~(Named(target) \subseteq Kept)
    <2>1. Set(r, Over(r))
        BY <1>5, <1>8
    <2> QED BY <1>1, <1>2, <2>1, OverKeeps DEF IInv, Typed
<1> QED BY <1>7, <1>8

LEMMA RankedIs == ASSUME NEW row \in Row, NEW rank \in 1..MaxRank
                  PROVE Ranked(row, rank) \in Row /\ Ranked(row, rank).rank = rank
BY DEF Ranked, Row

LEMMA SortRowKeeps == ASSUME IInv, NEW r \in Request, NEW m \in Method, SortRow(r, m) PROVE IInv'
<1>1. /\ mix[r] = "sort" /\ req[r].pc = "rows" /\ Stays /\ m \in req[r].todo
      /\ UNCHANGED <<method, linked, hooks, delivered, address, changes, excused>>
    BY DEF SortRow, At, Methods
<1>2. PICK p \in RequestState : p = req[r]
    BY DEF IInv, Typed
<1>3. HookFits(r) /\ SortFits(r) /\ AddressFits(r)
    BY DEF IInv, RequestFits
<1>4. p.shifted = FALSE /\ p.locks = {} /\ p.todo \subseteq Method /\ p.writes \subseteq Named(p.target)
      /\ p.target \in [Method -> 0..MaxRank]
    BY <1>1, <1>2, <1>3, StatesAre DEF HookFits, AddressFits, SortFits
<1>5. CASE /\ method[m] = Ranked(method[m], p.target[m])
           /\ Set(r, [p EXCEPT !.todo = p.todo \ {m}])
    <2>1. PICK q : q = [p EXCEPT !.todo = p.todo \ {m}]
        OBVIOUS
    <2>2. /\ q \in RequestState /\ q.pc = p.pc /\ q.shifted = p.shifted /\ q.writes = p.writes /\ q.locks = p.locks
          /\ q.target = p.target /\ q.todo = p.todo \ {m} /\ q.version = p.version
        BY <2>1 DEF RequestState
    <2>3. Set(r, q) /\ req'[r] = q /\ Kept' = Kept
        BY <1>1, <1>5, <2>1 DEF Set, IInv, Typed, Kept
    <2>4. m \in Kept /\ m \in Named(p.target) => method[m].rank = p.target[m]
        <3>1. ASSUME m \in Kept, m \in Named(p.target) PROVE method[m].rank = p.target[m]
            <4>1. PICK row \in Row : row = method[m]
                BY <3>1, KeptIs DEF IInv
            <4>2. p.target[m] \in 1..MaxRank
                BY <1>4, <3>1, BillingAssumption DEF Named
            <4> QED BY <1>5, <4>1, <4>2, RankedIs
        <3> QED BY <3>1
    <2>5. SortFits(r)'
        BY <1>1, <1>2, <1>3, <2>2, <2>3, <2>4 DEF SortFits, Stays
    <2>6. RequestFits(r)'
        BY <1>1, <1>2, <1>4, <2>2, <2>3, <2>5 DEF RequestFits, HookFits, AddressFits
    <2> QED BY <1>1, <1>2, <2>2, <2>3, <2>6, StillFits DEF Stays, IInv, Typed
<1>6. CASE /\ \A x \in Request \ {r} : m \notin req[x].writes
           /\ Set(r, [p EXCEPT !.todo = p.todo \ {m}, !.writes = p.writes \cup {m}])
    <2>1. PICK q : q = [p EXCEPT !.todo = p.todo \ {m}, !.writes = p.writes \cup {m}]
        OBVIOUS
    <2>2. /\ q \in RequestState /\ q.pc = p.pc /\ q.shifted = p.shifted /\ q.writes = p.writes \cup {m} /\ q.locks = p.locks
          /\ q.target = p.target /\ q.todo = p.todo \ {m} /\ q.version = p.version
        BY <2>1 DEF RequestState
    <2>3. Set(r, q) /\ req'[r] = q /\ Kept' = Kept
        BY <1>1, <1>6, <2>1 DEF Set, IInv, Typed, Kept
    <2>4. m \in Named(p.target)
        BY <1>1, <1>2, <1>3 DEF SortFits
    <2>5. SortFits(r)'
        BY <1>1, <1>2, <1>3, <2>2, <2>3, <2>4 DEF SortFits, Stays
    <2>6. RequestFits(r)'
        BY <1>1, <1>2, <1>4, <2>2, <2>3, <2>5 DEF RequestFits, HookFits, AddressFits
    <2>7. \A x \in Request \ {r} : q.writes \cap req[x].writes = {} /\ q.locks \cap req[x].locks = {}
        BY <1>2, <1>4, <1>6, <2>2 DEF IInv, Disjoint
    <2>8. Reported' /\ linked' \in [Method -> Link \cup {NoLink}] /\ hooks' \subseteq Hook /\ delivered' \in 0..MaxDeliveries
        BY <1>1 DEF IInv, Reported, Typed
    <2> QED BY <1>1, <1>2, <2>2, <2>3, <2>6, <2>7, <2>8, QuietFits DEF Stays
<1> QED BY <1>2, <1>5, <1>6 DEF SortRow

-----------------------------------------------------------------------------
(* Addresses. *)

\* A request that has loaded what it is to save.
LEMMA LoadedAddress ==
    ASSUME IInv, NEW r \in Request, NEW p \in RequestState, p = req[r], NEW q \in RequestState, Set(r, q), p.pc = "start",
           mix[r] \in AddressRoutes, UNCHANGED <<method, linked, hooks, delivered, address, changes, mix, excused>>,
           NEW default, q.pc = AfterDefault(default), q.default = default, q.shifted = p.shifted,
           q.writes = p.writes, q.locks = p.locks, q.a \in Address, q.version = changes.addresses,
           q.default = "absent" => q.found = address[q.a]
    PROVE  IInv'
<1>1. ~p.shifted /\ p.writes = {} /\ p.locks = {}
    BY NothingYet
<1>2. req'[r] = q /\ q.pc \in {"clear", "save"} /\ (q.pc = "save" => q.default # "default")
    BY DEF Set, IInv, Typed, AfterDefault
<1>3. changes.addresses \in Nat
    BY DEF IInv, Typed
<1>4. AddressFits(r)'
    BY <1>1, <1>2, <1>3 DEF AddressFits
<1>5. RequestFits(r)'
    BY <1>1, <1>2, <1>4 DEF RequestFits, HookFits, SortFits
<1> QED BY <1>1, <1>2, <1>5, StillFits DEF IInv, Typed

LEMMA CreateAddressKeeps ==
    ASSUME IInv, NEW r \in Request, NEW a \in Address, NEW default \in {"default", "other"}, CreateAddress(r, a, default)
    PROVE  IInv'
<1>1. PICK p \in RequestState : p = req[r]
    BY DEF IInv, Typed
<1>2. PICK v \in Nat : v = changes.addresses
    BY DEF IInv, Typed
<1>3. PICK pc \in {"clear", "save"} : pc = AfterDefault(default)
    BY DEF AfterDefault
<1>4. PICK q : q = [p EXCEPT !.pc = pc, !.a = a, !.default = default, !.version = v]
    OBVIOUS
<1>5. /\ q \in RequestState /\ q.pc = pc /\ q.default = default /\ q.shifted = p.shifted /\ q.writes = p.writes
      /\ q.locks = p.locks /\ q.a = a /\ q.version = v
    BY <1>2, <1>3, <1>4 DEF RequestState
<1>6. Set(r, q)
    BY <1>1, <1>2, <1>3, <1>4 DEF CreateAddress
<1>7. /\ mix[r] \in AddressRoutes /\ p.pc = "start"
      /\ UNCHANGED <<method, linked, hooks, delivered, address, changes, mix, excused>>
    BY <1>1 DEF CreateAddress, At, AddressRoutes, Methods, Stays
<1> QED BY <1>1, <1>2, <1>3, <1>5, <1>6, <1>7, LoadedAddress

LEMMA UpdateAddressKeeps ==
    ASSUME IInv, NEW r \in Request, NEW a \in Address, NEW default \in {"default", "other", "absent"},
           UpdateAddress(r, a, default)
    PROVE  IInv'
<1>1. PICK p \in RequestState : p = req[r]
    BY DEF IInv, Typed
<1>2. PICK v \in Nat : v = changes.addresses
    BY DEF IInv, Typed
<1>3. PICK pc \in {"clear", "save"} : pc = AfterDefault(default)
    BY DEF AfterDefault
<1>4. PICK found \in {"default", "other"} : found = address[a]
    BY DEF UpdateAddress, Made, IInv, Typed, NoAddress
<1>5. PICK q : q = [p EXCEPT !.pc = pc, !.a = a, !.default = default, !.found = found, !.version = v]
    OBVIOUS
<1>6. /\ q \in RequestState /\ q.pc = pc /\ q.default = default /\ q.shifted = p.shifted /\ q.writes = p.writes
      /\ q.locks = p.locks /\ q.a = a /\ q.found = found /\ q.version = v
    BY <1>2, <1>3, <1>4, <1>5 DEF RequestState
<1>7. Set(r, q)
    BY <1>1, <1>2, <1>3, <1>4, <1>5 DEF UpdateAddress
<1>8. /\ mix[r] \in AddressRoutes /\ p.pc = "start"
      /\ UNCHANGED <<method, linked, hooks, delivered, address, changes, mix, excused>>
    BY <1>1 DEF UpdateAddress, At, AddressRoutes, Methods, Stays
<1> QED BY <1>1, <1>2, <1>3, <1>4, <1>6, <1>7, <1>8, LoadedAddress

LEMMA ClearKeeps == ASSUME IInv, NEW r \in Request, Clear(r) PROVE IInv'
<1>1. PICK p \in RequestState : p = req[r]
    BY DEF IInv, Typed
<1>2. HookFits(r) /\ SortFits(r) /\ AddressFits(r)
    BY DEF IInv, RequestFits
<1>3. PICK made \in SUBSET Address : made = Made
    BY DEF Made
<1>4. PICK q : q = [p EXCEPT !.pc = "clearing", !.seen = made]
    OBVIOUS
<1>5. /\ q \in RequestState /\ q.pc = "clearing" /\ q.seen = made /\ q.default = p.default /\ q.shifted = p.shifted
      /\ q.writes = p.writes /\ q.locks = p.locks /\ q.a = p.a /\ q.found = p.found /\ q.version = p.version
    BY <1>3, <1>4 DEF RequestState
<1>6. /\ Set(r, q) /\ req'[r] = q /\ p.pc = "clear" /\ Made' = Made
      /\ UNCHANGED <<method, linked, hooks, delivered, address, changes, mix, excused>>
    BY <1>1, <1>3, <1>4 DEF Clear, Methods, Stays, Set, IInv, Typed, Made
<1>7. ~p.shifted /\ p.writes = {} /\ p.locks = {}
    BY <1>1, <1>2, <1>6 DEF HookFits, SortFits, AddressFits
<1>8. AddressFits(r)'
    BY <1>1, <1>2, <1>3, <1>5, <1>6, <1>7 DEF AddressFits
<1>9. RequestFits(r)'
    BY <1>5, <1>6, <1>7, <1>8 DEF RequestFits, HookFits, SortFits
<1> QED BY <1>1, <1>5, <1>6, <1>7, <1>9, StillFits DEF IInv, Typed

LEMMA ClearedKeeps == ASSUME IInv, NEW r \in Request, Cleared(r) PROVE IInv'
<1>1. PICK p \in RequestState : p = req[r]
    BY DEF IInv, Typed
<1>2. HookFits(r) /\ SortFits(r) /\ AddressFits(r)
    BY DEF IInv, RequestFits
<1>3. PICK q : q = [p EXCEPT !.pc = "save", !.locks = p.seen]
    OBVIOUS
<1>4. /\ q \in RequestState /\ q.pc = "save" /\ q.default = p.default /\ q.shifted = p.shifted
      /\ q.writes = p.writes /\ q.locks = p.seen /\ q.a = p.a /\ q.found = p.found /\ q.version = p.version
    BY <1>3 DEF RequestState
<1>5. /\ Set(r, q) /\ req'[r] = q /\ p.pc = "clearing" /\ Made' = Made
      /\ UNCHANGED <<method, linked, hooks, delivered, address, changes, mix, excused>>
    BY <1>1, <1>3 DEF Cleared, Methods, Stays, Set, IInv, Typed, Made
<1>6. ~p.shifted /\ p.writes = {}
    BY <1>1, <1>2, <1>5 DEF HookFits, SortFits
<1>7. AddressFits(r)'
    BY <1>1, <1>2, <1>4, <1>5 DEF AddressFits
<1>8. RequestFits(r)'
    BY <1>4, <1>5, <1>6, <1>7 DEF RequestFits, HookFits, SortFits
<1>9. \A x \in Request \ {r} : q.writes \cap req[x].writes = {} /\ q.locks \cap req[x].locks = {}
    BY <1>1, <1>4, <1>6 DEF Cleared, Free
<1>10. Reported' /\ linked' \in [Method -> Link \cup {NoLink}] /\ hooks' \subseteq Hook /\ delivered' \in 0..MaxDeliveries
    BY <1>5 DEF IInv, Reported, Typed
<1> QED BY <1>1, <1>4, <1>5, <1>6, <1>8, <1>9, <1>10, QuietFits

LEMMA SaveAddressKeeps == ASSUME IInv, NEW r \in Request, SaveAddress(r) PROVE IInv'
<1>1. PICK q \in RequestState : q = req[r]
    BY DEF IInv, Typed
<1>2. HookFits(r) /\ AddressFits(r)
    BY DEF IInv, RequestFits
<1>3. /\ q.pc = "save" /\ UNCHANGED <<method, linked, hooks, delivered, mix>> /\ Set(r, Over(r))
      /\ excused' = IF q.version # changes.addresses THEN excused \cup {"addresses"} ELSE excused
    BY <1>1 DEF SaveAddress, Methods, Stays, Excuse
<1>4. PICK value \in {"default", "other"} : value = Value(q)
    BY StatesAre DEF Value
<1>5. /\ q.a \in Address /\ q.version \in Nat /\ changes \in [methods : Nat, addresses : Nat]
    BY <1>1, <1>2, <1>3, StatesAre DEF AddressFits, IInv, Typed
<1>6. ASSUME NEW a \in Address
      PROVE  address'[a] = IF a = q.a THEN value ELSE IF a \in q.locks THEN "other" ELSE address[a]
    BY <1>1, <1>4 DEF SaveAddress
<1>7. address' \in [Address -> {NoAddress, "default", "other"}]
    BY <1>1, <1>4, <1>6 DEF SaveAddress, IInv, Typed
<1>8. changes' = [changes EXCEPT !.addresses = changes.addresses + 1]
    BY DEF SaveAddress
<1>9. changes' \in [methods : Nat, addresses : Nat] /\ changes'.methods = changes.methods
      /\ changes'.addresses = changes.addresses + 1
    BY <1>5, <1>8
<1>10. req'[r] = Over(r) /\ \A x \in Request \ {r} : req'[x] = req[x]
    BY <1>3 DEF Set, IInv, Typed
<1>11. Over(r) \in RequestState /\ ~Over(r).shifted /\ Over(r).writes = {} /\ Over(r).locks = {}
    BY OverIs
<1>12. Typed' /\ Kept' = Kept
    BY <1>3, <1>7, <1>9, <1>11 DEF IInv, Typed, Set, Kept
<1>13. Grow
    BY <1>3, <1>5, <1>9, <1>12 DEF Grow
<1>14. \A x \in Request : RequestFits(x)'
    BY <1>10, <1>12, <1>13, OthersFit, OverFits
<1>15. Disjoint' /\ Known' /\ Reported'
    BY <1>3, <1>10, <1>11, <1>12 DEF IInv, Disjoint, Known, Reported
<1>16. RanksFit'
    <2>1. ~q.shifted
        BY <1>1, <1>2, <1>3 DEF HookFits
    <2>2. \A x \in Request : (req'[x].shifted <=> req[x].shifted) /\ (req[x].shifted => (Stale(x)' <=> Stale(x)))
        BY <1>1, <1>9, <1>10, <1>11, <2>1 DEF Stale
    <2>3. \A x \in Request : Alone(x)' <=> Alone(x)
        BY <2>2 DEF Alone
    <2>4. RanksAt(0)' = RanksAt(0) /\ RanksAt(1)' = RanksAt(1) /\ ("ranks" \in excused' <=> "ranks" \in excused)
        BY <1>3, <1>12 DEF RanksAt
    <2> QED BY <2>2, <2>3, <2>4 DEF RanksFit, IInv
<1>17. AccountsFit'
    BY <1>3, <1>12 DEF IInv, AccountsFit
<1>18. AddressesFit'
    <2> SUFFICES ASSUME "addresses" \notin excused', NEW a \in Defaults', NEW b \in Defaults' PROVE a = b
        BY DEF AddressesFit
    <2>1. q.version = changes.addresses /\ "addresses" \notin excused
        BY <1>3
    <2>2. a \in Address /\ b \in Address /\ address'[a] = "default" /\ address'[b] = "default"
        BY DEF Defaults, Made
    <2>3. CASE q.default = "default"
        <3>1. q.locks = Made
            BY <1>1, <1>2, <1>3, <2>1, <2>3 DEF AddressFits
        <3>2. \A c \in Address : c # q.a => address'[c] # "default"
            BY <1>6, <3>1 DEF Made, NoAddress
        <3> QED BY <2>2, <3>2
    <2>4. CASE q.default # "default"
        <3>1. value = "default" => address[q.a] = "default"
            BY <1>1, <1>2, <1>3, <1>4, <2>1, <2>4, StatesAre DEF AddressFits, Value
        <3>2. address[a] = "default" /\ address[b] = "default"
            BY <1>6, <2>2, <3>1
        <3> QED BY <2>1, <2>2, <3>2 DEF IInv, AddressesFit, Defaults, Made, NoAddress
    <2> QED BY <2>3, <2>4
<1> QED BY <1>12, <1>14, <1>15, <1>16, <1>17, <1>18 DEF IInv

-----------------------------------------------------------------------------
(* Commits to the methods. *)

LEMMA WrittenIs ==
    ASSUME IInv, changes' = [changes EXCEPT !.methods = @ + 1]
    PROVE  /\ changes' \in [methods : Nat, addresses : Nat] /\ changes.methods \in Nat
           /\ changes'.methods = changes.methods + 1 /\ changes'.addresses = changes.addresses
BY DEF IInv, Typed

LEMMA MethodFits ==
    ASSUME IInv, NEW r \in Request, NEW q \in RequestState, Set(r, q), q.writes = {}, q.locks = {},
           method' \in [Method -> Row \cup {None}], changes' = [changes EXCEPT !.methods = @ + 1],
           UNCHANGED <<linked, delivered, address, mix>>, hooks' \subseteq hooks, Kept \subseteq Kept',
           RequestFits(r)', Known', AccountsFit', RanksFit', "addresses" \in excused' <=> "addresses" \in excused
    PROVE  IInv'
<1>1. Typed'
    BY WrittenIs DEF IInv, Typed, Set
<1>2. Grow
    BY WrittenIs DEF Grow, IInv, Typed
<1>3. req'[r] = q /\ \A x \in Request \ {r} : req'[x] = req[x]
    BY DEF IInv, Typed, Set
<1>4. \A x \in Request : RequestFits(x)'
    BY <1>1, <1>2, <1>3, OthersFit
<1>5. Reported'
    BY DEF IInv, Reported
<1>6. Disjoint'
    BY <1>3 DEF IInv, Disjoint
<1>7. AddressesFit'
    BY DEF IInv, AddressesFit, Defaults, Made
<1> QED BY <1>1, <1>4, <1>5, <1>6, <1>7 DEF IInv

\* Who shifted before it is now late.
LEMMA StaleLater ==
    ASSUME IInv, changes' = [changes EXCEPT !.methods = @ + 1], NEW x \in Request, req[x].shifted, req'[x] = req[x]
    PROVE  req'[x].shifted /\ Stale(x)'
<1>1. req[x].version \in Nat /\ req[x].version <= changes.methods
    BY StatesAre DEF IInv, Typed, RequestFits, HookFits
<1> QED BY <1>1, WrittenIs DEF Stale

LEMMA ShiftKeeps == ASSUME IInv, NEW r \in Request, Shift(r) PROVE IInv'
<1>1. PICK p \in RequestState : p = req[r]
    BY DEF IInv, Typed
<1>2. HookFits(r) /\ p.pc = "shift" /\ mix[r] = "webhook" /\ p.version \in Nat /\ p.n \in Nat
    BY <1>1, StatesAre, FS_CardinalityType, BillingAssumption DEF IInv, RequestFits, Shift, At
<1>3. ~p.shifted /\ p.writes = {} /\ p.locks = {}
    BY <1>1, <1>2, NothingYet
<1>4. changes' = [changes EXCEPT !.methods = @ + 1]
      /\ UNCHANGED <<linked, hooks, delivered, address, mix, excused>>
    BY DEF Shift, Stays
<1>5. PICK v \in Nat : v = IF p.version = changes.methods THEN p.version + 1 ELSE p.version
    BY <1>2
<1>6. PICK q : q = [p EXCEPT !.pc = "identity", !.shifted = TRUE, !.version = v]
    OBVIOUS
<1>7. /\ q \in RequestState /\ q.pc = "identity" /\ q.shifted = TRUE /\ q.version = v /\ q.n = p.n /\ q.hook = p.hook
      /\ q.writes = {} /\ q.locks = {}
    BY <1>3, <1>5, <1>6 DEF RequestState
<1>8. Set(r, q)
    BY <1>1, <1>5, <1>6 DEF Shift
<1>9. req'[r] = q /\ \A x \in Request \ {r} : req'[x] = req[x]
    BY <1>8 DEF Set, IInv, Typed
<1>10. ASSUME NEW m \in Method
       PROVE  /\ m \in Kept => method'[m] \in Row /\ method'[m].rank = method[m].rank + 1
              /\ m \notin Kept => method'[m] = None
    <2>1. CASE m \in Kept
        <3>1. PICK row \in Row : row = method[m]
            BY <2>1, KeptIs DEF IInv
        <3>2. row.rank \in 1..MaxRank /\ row.rank < MaxRank /\ MaxRank \in Nat
            BY <2>1, <3>1, RowsAre, BillingAssumption DEF Shift
        <3>3. row.rank + 1 \in 1..MaxRank
            BY <3>2
        <3>4. [row EXCEPT !.rank = row.rank + 1] \in Row
            BY <3>3 DEF Row
        <3>5. [row EXCEPT !.rank = row.rank + 1].rank = row.rank + 1
            BY DEF Row
        <3>6. method'[m] = [row EXCEPT !.rank = row.rank + 1]
            BY <2>1, <3>1 DEF Shift
        <3> QED BY <2>1, <3>1, <3>4, <3>5, <3>6
    <2>2. CASE m \notin Kept
        BY <2>2 DEF Shift
    <2> QED BY <2>1, <2>2
<1>11. method' \in [Method -> Row \cup {None}]
    BY <1>10 DEF Shift
<1>12. Kept' = Kept
    <2>1. \A m \in Method : m \in Kept' <=> m \in Kept
        BY <1>10, RowsAre DEF Kept
    <2> QED BY <2>1 DEF Kept
<1>13. HookFits(r)'
    <2>1. /\ p.n <= Cardinality(Kept) /\ p.version <= changes.methods
          /\ p.version = changes.methods => p.n = Cardinality(Kept)
        BY <1>1, <1>2 DEF HookFits
    <2>2. v <= changes'.methods /\ (v = changes'.methods => p.version = changes.methods)
        BY <1>2, <1>4, <1>5, <2>1, WrittenIs
    <2> QED BY <1>1, <1>2, <1>4, <1>7, <1>9, <1>12, <2>1, <2>2 DEF HookFits
<1>14. RequestFits(r)'
    BY <1>7, <1>9, <1>13 DEF RequestFits, SortFits, AddressFits
<1>15. RanksFit'
    <2> SUFFICES ASSUME "ranks" \notin excused' PROVE RanksFit'
        BY DEF RanksFit
    <2>1. CASE \E x \in Request \ {r} : req[x].shifted
        <3>1. PICK x \in Request \ {r} : req[x].shifted
            BY <2>1
        <3>2. req'[x].shifted /\ Stale(x)'
            BY <1>4, <1>9, <3>1, StaleLater
        <3> QED BY <3>2 DEF RanksFit
    <2>2. CASE \A x \in Request \ {r} : ~req[x].shifted
        <3>1. RanksAt(0)
            BY <1>1, <1>3, <1>4, <2>2 DEF IInv, RanksFit
        <3>2. PICK n \in Nat : n = Cardinality(Kept)
            BY KeptIs DEF IInv
        <3>3. \A m \in Kept : method'[m].rank = method[m].rank + 1
            BY <1>10, KeptIs DEF IInv
        <3>4. {method'[m].rank : m \in Kept} = 2..(n + 1)
            <4>1. ASSUME NEW m \in Kept PROVE method'[m].rank \in 2..(n + 1)
                <5>1. method[m].rank \in 1..n
                    BY <3>1, <3>2 DEF RanksAt
                <5> QED BY <3>3, <5>1
            <4>2. ASSUME NEW k \in 2..(n + 1) PROVE \E m \in Kept : method'[m].rank = k
                <5>1. k - 1 \in 1..n
                    OBVIOUS
                <5>2. PICK m \in Kept : method[m].rank = k - 1
                    BY <3>1, <3>2, <5>1 DEF RanksAt
                <5> QED BY <3>3, <5>2
            <4> QED BY <4>1, <4>2
        <3>5. RanksAt(1)'
            BY <1>12, <3>2, <3>4 DEF RanksAt
        <3>6. Alone(r)' /\ req'[r].shifted
            BY <1>7, <1>9, <2>2 DEF Alone
        <3> QED BY <3>5, <3>6 DEF RanksFit
    <2> QED BY <2>1, <2>2
<1>16. AccountsFit' /\ Known'
    BY <1>4, <1>12 DEF IInv, AccountsFit, Known
<1> QED BY <1>4, <1>7, <1>8, <1>11, <1>12, <1>14, <1>15, <1>16, MethodFits

LEMMA InsertKeeps == ASSUME IInv, NEW r \in Request, Insert(r) PROVE IInv'
<1>1. PICK q \in RequestState : q = req[r]
    BY DEF IInv, Typed
<1>2. PICK m : m = q.hook.m
    OBVIOUS
<1>3. HookFits(r) /\ q.pc = "insert" /\ mix[r] = "webhook" /\ Set(r, Over(r))
      /\ UNCHANGED <<linked, delivered, address, mix>>
    BY <1>1 DEF IInv, RequestFits, Insert, At, Stays
<1>4. /\ m \in Method /\ q.hook \in Hook /\ linked[m] # NoLink /\ q.n \in Nat /\ q.kept \in Nat /\ q.version \in Nat
      /\ q.hook.default \in BOOLEAN /\ q.hook.status \in {"ACTIVE", "EXPIRED"}
      /\ q.shifted \in BOOLEAN
    BY <1>1, <1>2, <1>3, HooksAre, StatesAre, BillingAssumption, FS_CardinalityType DEF HookFits
<1>5. PICK n \in Nat : n = Cardinality(Kept)
    BY KeptIs DEF IInv
<1>6. CASE m \in Kept
    <2>1. /\ excused' = IF q.shifted THEN excused \cup {"ranks"} ELSE excused
          /\ UNCHANGED <<method, hooks, changes>>
        BY <1>1, <1>2, <1>6 DEF Insert, Excuse
    <2> QED BY <1>1, <1>3, <2>1, OverKeeps DEF IInv, Typed, Stays
<1>7. CASE m \notin Kept
    <2>1. /\ method' = [method EXCEPT ![m] = [rank |-> RankOf(q), default |-> q.hook.default,
                                              status |-> q.hook.status]]
          /\ hooks' \subseteq hooks
          /\ changes' = [changes EXCEPT !.methods = @ + 1]
          /\ excused' = excused
                \cup {x \in {"ranks"} : q.version # changes.methods}
                \cup {x \in {"accounts"} : q.kept # n}
        BY <1>1, <1>2, <1>5, <1>7 DEF Insert
    <2>2. Kept \cup {m} \subseteq Method /\ Cardinality(Kept \cup {m}) = n + 1 /\ n + 1 <= Cardinality(Method)
        <3>1. Cardinality(Kept \cup {m}) = n + 1 /\ Kept \cup {m} \subseteq Method
            BY <1>4, <1>5, <1>7, KeptIs, FS_AddElement DEF IInv
        <3> QED BY <3>1, BillingAssumption, FS_Subset
    <2>3. q.n <= n /\ (q.version = changes.methods => q.n = n)
          /\ (q.kept = n => ~Owned(AccountOf[m]))
        BY <1>1, <1>2, <1>3, <1>5 DEF HookFits
    <2>4. PICK rank \in 1..MaxRank : rank = IF q.shifted THEN 1 ELSE q.n + 1
        BY <1>4, <2>2, <2>3, BillingAssumption, FS_CardinalityType
    <2>5. PICK row \in Row : row = [rank |-> rank, default |-> q.hook.default, status |-> q.hook.status]
                             /\ row.rank = rank
        <3>1. [rank |-> rank, default |-> q.hook.default, status |-> q.hook.status] \in Row
            BY <1>4 DEF Row
        <3> QED BY <3>1
    <2>6. method' = [method EXCEPT ![m] = row]
        BY <2>1, <2>4, <2>5 DEF RankOf
    <2>7. /\ method' \in [Method -> Row \cup {None}] /\ method'[m] = row
          /\ \A k \in Method \ {m} : method'[k] = method[k]
        BY <1>4, <2>6 DEF IInv, Typed
    <2>8. Kept' = Kept \cup {m}
        <3>1. \A k \in Method : k \in Kept' <=> k \in Kept \/ k = m
            BY <2>7, RowsAre DEF Kept
        <3> QED BY <1>4, <3>1 DEF Kept
    <2>9. req'[r] = Over(r) /\ \A x \in Request \ {r} : req'[x] = req[x]
        BY <1>3 DEF Set, IInv, Typed
    <2>10. Over(r) \in RequestState /\ ~Over(r).shifted /\ Over(r).writes = {} /\ Over(r).locks = {} /\ RequestFits(r)'
        BY <2>9, OverIs, OverFits
    <2>11. Known'
        BY <1>3, <1>4, <2>8 DEF IInv, Known
    <2>12. AccountsFit'
        <3> SUFFICES ASSUME "accounts" \notin excused', NEW k \in Kept', NEW l \in Kept', AccountOf[k] = AccountOf[l]
                     PROVE  k = l
            BY DEF AccountsFit
        <3>1. q.kept = n /\ "accounts" \notin excused
            BY <2>1
        <3>2. \A j \in Kept : AccountOf[j] # AccountOf[m]
            BY <2>3, <3>1 DEF Owned
        <3> QED BY <2>8, <3>1, <3>2 DEF IInv, AccountsFit
    <2>13. RanksFit'
        <3> SUFFICES ASSUME "ranks" \notin excused' PROVE RanksFit'
            BY DEF RanksFit
        <3>1. q.version = changes.methods /\ "ranks" \notin excused /\ q.n = n
            BY <2>1, <2>3
        <3>2. CASE \E x \in Request \ {r} : req[x].shifted
            <4>1. PICK x \in Request \ {r} : req[x].shifted
                BY <3>2
            <4>2. req'[x].shifted /\ Stale(x)'
                BY <2>1, <2>9, <4>1, StaleLater
            <4> QED BY <4>2 DEF RanksFit
        <3>3. CASE \A x \in Request \ {r} : ~req[x].shifted
            <4>1. \A x \in Request : ~req'[x].shifted
                BY <2>9, <2>10, <3>3
            <4>2. \A k \in Kept : method'[k].rank = method[k].rank
                BY <1>7, <2>7, KeptIs DEF IInv
            <4>3. {method'[k].rank : k \in Kept'} = {method[k].rank : k \in Kept} \cup {rank}
                BY <2>5, <2>7, <2>8, <4>2
            <4>4. CASE q.shifted
                <5>1. RanksAt(1)
                    BY <1>1, <3>1, <3>3, <4>4 DEF IInv, RanksFit, Stale
                <5>2. {method'[k].rank : k \in Kept'} = 1..(n + 1)
                    <6>1. {method[k].rank : k \in Kept} = 2..(n + 1)
                        BY <1>5, <5>1 DEF RanksAt
                    <6>2. 1..(n + 1) = 2..(n + 1) \cup {1}
                        OBVIOUS
                    <6> QED BY <2>4, <4>3, <4>4, <6>1, <6>2
                <5>3. RanksAt(0)'
                    BY <2>2, <2>8, <5>2 DEF RanksAt
                <5> QED BY <4>1, <5>3 DEF RanksFit
            <4>5. CASE ~q.shifted
                <5>1. RanksAt(0)
                    BY <1>1, <3>1, <3>3, <4>5 DEF IInv, RanksFit
                <5>2. {method'[k].rank : k \in Kept'} = 1..(n + 1)
                    BY <1>5, <2>4, <3>1, <4>3, <4>5, <5>1 DEF RanksAt
                <5>3. RanksAt(0)'
                    BY <2>2, <2>8, <5>2 DEF RanksAt
                <5> QED BY <4>1, <5>3 DEF RanksFit
            <4> QED BY <4>4, <4>5
        <3> QED BY <3>2, <3>3
    <2>14. "addresses" \in excused' <=> "addresses" \in excused
        BY <2>1
    <2> QED BY <1>3, <2>1, <2>7, <2>8, <2>10, <2>11, <2>12, <2>13, <2>14, MethodFits
<1> QED BY <1>6, <1>7

LEMMA SortCommitKeeps == ASSUME IInv, NEW r \in Request, SortCommit(r) PROVE IInv'
<1>1. PICK q \in RequestState : q = req[r]
    BY DEF IInv, Typed
<1>2. PICK n \in Nat : n = Cardinality(Kept)
    BY KeptIs DEF IInv
<1>3. HookFits(r) /\ SortFits(r) /\ q.pc = "rows" /\ q.todo = {} /\ Set(r, Over(r))
      /\ changes' = [changes EXCEPT !.methods = @ + 1] /\ UNCHANGED <<linked, hooks, delivered, address, mix>>
    BY <1>1 DEF IInv, RequestFits, SortCommit, At, Stays
<1>4. /\ q.target \in [Method -> 0..MaxRank] /\ Named(q.target) \subseteq Kept /\ q.writes \subseteq Named(q.target)
      /\ q.version = changes.methods =>
            \A m \in Named(q.target) \ q.writes : method[m].rank = q.target[m]
      /\ ~q.shifted
    BY <1>1, <1>3, StatesAre DEF SortFits, HookFits
<1>5. excused' = IF \/ q.version # changes.methods
                    \/ {q.target[m] : m \in Kept} # 1..n
                 THEN excused \cup {"ranks"} ELSE excused
    BY <1>1, <1>2 DEF SortCommit, Excuse
<1>6. ASSUME NEW m \in Method
      PROVE  /\ m \in q.writes => method'[m] \in Row /\ method'[m].rank = q.target[m]
             /\ m \notin q.writes => method'[m] = method[m]
    <2>1. CASE m \in q.writes
        <3>1. PICK row \in Row : row = method[m]
            BY <1>4, <2>1, KeptIs DEF IInv
        <3>2. q.target[m] \in 1..MaxRank
            BY <1>4, <2>1, BillingAssumption DEF Named
        <3>3. method'[m] = Ranked(row, q.target[m])
            BY <1>1, <2>1, <3>1 DEF SortCommit
        <3> QED BY <2>1, <3>2, <3>3, RankedIs
    <2>2. CASE m \notin q.writes
        BY <1>1, <2>2 DEF SortCommit
    <2> QED BY <2>1, <2>2
<1>7. method' \in [Method -> Row \cup {None}]
    BY <1>6 DEF SortCommit, IInv, Typed
<1>8. Kept' = Kept
    <2>1. \A m \in Method : m \in Kept' <=> m \in Kept
        BY <1>4, <1>6, RowsAre DEF Kept
    <2> QED BY <2>1 DEF Kept
<1>9. req'[r] = Over(r) /\ \A x \in Request \ {r} : req'[x] = req[x]
    BY <1>3 DEF Set, IInv, Typed
<1>10. Over(r) \in RequestState /\ ~Over(r).shifted /\ Over(r).writes = {} /\ Over(r).locks = {} /\ RequestFits(r)'
    BY <1>9, OverIs, OverFits
<1>11. Known' /\ AccountsFit' /\ ("addresses" \in excused' <=> "addresses" \in excused)
    BY <1>3, <1>5, <1>8 DEF IInv, Known, AccountsFit
<1>12. RanksFit'
    <2> SUFFICES ASSUME "ranks" \notin excused' PROVE RanksFit'
        BY DEF RanksFit
    <2>1. q.version = changes.methods /\ {q.target[m] : m \in Kept} = 1..n
        BY <1>5
    <2>2. CASE \E x \in Request \ {r} : req[x].shifted
        <3>1. PICK x \in Request \ {r} : req[x].shifted
            BY <2>2
        <3>2. req'[x].shifted /\ Stale(x)'
            BY <1>3, <1>9, <3>1, StaleLater
        <3> QED BY <3>2 DEF RanksFit
    <2>3. CASE \A x \in Request \ {r} : ~req[x].shifted
        <3>1. ASSUME NEW m \in Kept PROVE method'[m].rank = q.target[m]
            <4>1. q.target[m] \in 1..n /\ m \in Method
                BY <2>1, KeptIs DEF IInv
            <4>2. m \in Named(q.target)
                BY <4>1 DEF Named
            <4> QED BY <1>4, <1>6, <2>1, <4>1, <4>2
        <3>2. {method'[m].rank : m \in Kept} = 1..n
            BY <2>1, <3>1
        <3>3. RanksAt(0)'
            BY <1>2, <1>8, <3>2 DEF RanksAt
        <3>4. \A x \in Request : ~req'[x].shifted
            BY <1>9, <1>10, <2>3
        <3> QED BY <3>3, <3>4 DEF RanksFit
    <2> QED BY <2>2, <2>3
<1> QED BY <1>3, <1>7, <1>8, <1>10, <1>11, <1>12, MethodFits

-----------------------------------------------------------------------------
LEMMA Initially == Init => IInv
<1> SUFFICES ASSUME Init PROVE IInv
    OBVIOUS
<1>1. PICK old \in Earlier :
        /\ method = [m \in Method |-> IF m \in DOMAIN old THEN Old(old[m]) ELSE None]
        /\ linked = [m \in Method |-> IF m \in DOMAIN old
                THEN [status |-> "ACTIVE", default |-> old[m] = 1] ELSE NoLink]
    BY DEF Init
<1>2. PICK n \in Nat : n = Cardinality(DOMAIN old) /\ n <= MaxRank /\ MaxRank \in Nat
    BY EarlierAssumption, BillingAssumption, FS_Subset, FS_CardinalityType
<1>3. ASSUME NEW m \in DOMAIN old PROVE Old(old[m]) \in Row /\ Old(old[m]).rank = old[m]
    <2>1. old[m] \in 1..n
        BY <1>2, EarlierAssumption
    <2>2. PICK k \in 1..MaxRank : k = old[m]
        BY <1>2, <2>1
    <2> QED BY <2>2 DEF Old, Row
<1>4. \A m \in Method : /\ m \in DOMAIN old => method[m] \in Row /\ method[m].rank = old[m]
                        /\ m \notin DOMAIN old => method[m] = None
    BY <1>1, <1>3
<1>5. DOMAIN old \subseteq Method /\ Kept = DOMAIN old
    BY <1>4, EarlierAssumption, RowsAre DEF Kept
<1>6. \A m \in Method : /\ m \in DOMAIN old => linked[m] \in Link
                        /\ m \notin DOMAIN old => linked[m] = NoLink
    BY <1>1 DEF Link
<1>7. Typed
    <2>1. method \in [Method -> Row \cup {None}] /\ linked \in [Method -> Link \cup {NoLink}]
        BY <1>1, <1>4, <1>6
    <2>2. address \in [Address -> {NoAddress, "default", "other"}] /\ req \in [Request -> RequestState]
        BY IdleIs DEF Init
    <2> QED BY <2>1, <2>2, BillingAssumption DEF Init, Typed
<1>8. Known /\ Reported
    BY <1>5, <1>6, LinksAre DEF Init, Known, Reported
<1>9. \A r \in Request : req[r] = Idle
    BY DEF Init
<1>10. Disjoint /\ \A r \in Request : RequestFits(r)
    BY <1>9, IdleIs DEF Disjoint, RequestFits, HookFits, SortFits, AddressFits
<1>11. RanksFit
    <2>1. {method[m].rank : m \in Kept} = 1..n
        <3>1. \A m \in Kept : method[m].rank = old[m]
            BY <1>4, <1>5
        <3>2. {old[m] : m \in Kept} = 1..n
            BY <1>2, <1>5, EarlierAssumption
        <3> QED BY <3>1, <3>2
    <2> QED BY <1>2, <1>5, <1>9, <2>1, IdleIs DEF RanksFit, RanksAt
<1>12. AccountsFit
    BY <1>5, EarlierAssumption DEF AccountsFit
<1>13. AddressesFit
    BY DEF Init, AddressesFit, Defaults, Made, NoAddress
<1> QED BY <1>7, <1>8, <1>10, <1>11, <1>12, <1>13 DEF IInv

LEMMA StutterKeeps == ASSUME IInv, UNCHANGED vars PROVE IInv'
<1>1. UNCHANGED <<method, linked, hooks, delivered, address, req, mix, changes, excused>>
    BY DEF vars
<1>2. Typed' /\ Kept' = Kept /\ Made' = Made /\ Defaults' = Defaults
    BY <1>1 DEF IInv, Typed, Kept, Made, Defaults
<1>3. Grow
    BY <1>1, <1>2 DEF Grow, Typed
<1>4. \A x \in Request : RequestFits(x)'
    BY <1>1, <1>2, <1>3, OthersFit
<1>5. Known' /\ Reported' /\ Disjoint' /\ RanksFit' /\ AccountsFit' /\ AddressesFit'
    BY <1>1, <1>2 DEF IInv, Known, Reported, Disjoint, RanksFit, RanksAt, Alone, Stale, AccountsFit, AddressesFit
<1> QED BY <1>2, <1>4, <1>5 DEF IInv

LEMMA Inductive == IInv /\ [Next]_vars => IInv'
<1> SUFFICES ASSUME IInv, [Next]_vars PROVE IInv'
    OBVIOUS
<1>1. ASSUME NEW r \in Request, NEW m \in Method, Validate(r, m) \/ SortRow(r, m) PROVE IInv'
    BY <1>1, ValidateKeeps, SortRowKeeps
<1>2. ASSUME NEW r \in Request, NEW default \in BOOLEAN, Create(r, default) PROVE IInv'
    BY <1>2, CreateKeeps
<1>3. ASSUME NEW r \in Request, NEW h \in hooks, Deliver(r, h) PROVE IInv'
    BY <1>3, DeliverKeeps
<1>4. ASSUME NEW r \in Request, CountMethods(r) \/ Shift(r) \/ Identify(r) \/ Insert(r) \/ Sort(r) \/ SortCommit(r)
      PROVE  IInv'
    BY <1>4, CountMethodsKeeps, ShiftKeeps, IdentifyKeeps, InsertKeeps, SortKeeps, SortCommitKeeps
<1>5. ASSUME NEW r \in Request, NEW a \in Address,
             \/ \E d \in {"default", "other"} : CreateAddress(r, a, d)
             \/ \E d \in {"default", "other", "absent"} : UpdateAddress(r, a, d)
      PROVE  IInv'
    BY <1>5, CreateAddressKeeps, UpdateAddressKeeps
<1>6. ASSUME NEW r \in Request, Clear(r) \/ Cleared(r) \/ SaveAddress(r) \/ Price(r) \/ Fail(r) PROVE IInv'
    BY <1>6, ClearKeeps, ClearedKeeps, SaveAddressKeeps, PriceKeeps, FailKeeps
<1>7. ASSUME NEW m \in Method, Expire(m) PROVE IInv'
    BY <1>7, ExpireKeeps
<1>8. ASSUME UNCHANGED vars PROVE IInv'
    BY <1>8, StutterKeeps
<1> QED BY <1>1, <1>2, <1>3, <1>4, <1>5, <1>6, <1>7, <1>8 DEF Next

(***************************************************************************)
(* Every reachable state has the facts above; TLC has checked them on the  *)
(* instance of the billing run, and the properties below follow from them. *)
(***************************************************************************)
THEOREM Invariance == Spec => []IInv
BY Initially, Inductive, PTL DEF Spec

(***************************************************************************)
(* The types, that a stored method is one that Xendit knows, and that no   *)
(* two requests hold the lock of one row.                                  *)
(***************************************************************************)
THEOREM TypeCorrect == Spec => []TypeOK
<1>1. IInv => TypeOK
    BY TypeIs DEF IInv, Typed
<1> QED BY <1>1, Invariance, PTL

(***************************************************************************)
(* For any number of methods, webhooks and requests, the ranks are 1 to n, *)
(* each once, unless changes overlapped, a sort asked for others, or a     *)
(* shift was left without its insert (createOrUpdatePaymentMethod,         *)
(* sortPaymentMethods).                                                    *)
(***************************************************************************)
THEOREM RanksKept == Spec => []RanksInOrder
<1>1. IInv => RanksInOrder
    <2> SUFFICES ASSUME IInv, "ranks" \notin excused, \A r \in Request : ~req[r].shifted
                 PROVE  {method[m].rank : m \in Kept} = 1..Cardinality(Kept)
        BY DEF RanksInOrder
    <2>1. RanksAt(0) /\ Cardinality(Kept) \in Nat
        BY KeptIs DEF IInv, RanksFit
    <2> QED BY <2>1 DEF RanksAt
<1> QED BY <1>1, Invariance, PTL

(***************************************************************************)
(* Two stored methods are one account only if one was inserted after the   *)
(* other's check (findOneByAccountIdentityHash).                           *)
(***************************************************************************)
THEOREM AccountsDiffer == Spec => []OneMethodPerAccount
<1>1. IInv => OneMethodPerAccount
    BY DEF IInv, AccountsFit, OneMethodPerAccount
<1> QED BY <1>1, Invariance, PTL

(***************************************************************************)
(* There is one default address at most, unless an address was saved       *)
(* between what a request read or cleared and its commit (create, update). *)
(***************************************************************************)
THEOREM DefaultIsOne == Spec => []OneDefaultAddress
<1>1. IInv => OneDefaultAddress
    <2> SUFFICES ASSUME IInv, "addresses" \notin excused PROVE Cardinality(Defaults) <= 1
        BY DEF OneDefaultAddress
    <2>1. \A a, b \in Defaults : a = b
        BY DEF IInv, AddressesFit
    <2>2. CASE Defaults = {}
        BY <2>2, FS_EmptySet
    <2>3. CASE Defaults # {}
        <3>1. PICK a \in Defaults : TRUE
            BY <2>3
        <3>2. Defaults = {a}
            BY <2>1
        <3>3. Cardinality({a}) = 1
            BY FS_Singleton
        <3> QED BY <3>2, <3>3
    <2> QED BY <2>2, <2>3
<1> QED BY <1>1, Invariance, PTL

-----------------------------------------------------------------------------
(* Prices. *)

QuoteKept == quote.asked =>
    \E sub \in Subscribed, plan \in Plans, discount \in Discounts, now \in Moments :
        quote = [asked |-> TRUE, sub |-> sub, plan |-> plan, discount |-> discount, now |-> now,
                 offer |-> Offer(sub, plan, discount, now)]

LEMMA QuoteInductive == QuoteKept /\ [Next]_vars => QuoteKept'
<1> SUFFICES ASSUME QuoteKept, [Next]_vars PROVE QuoteKept'
    OBVIOUS
<1>1. ASSUME NEW r \in Request, Price(r) PROVE QuoteKept'
    BY <1>1 DEF Price, QuoteKept
<1>2. ASSUME UNCHANGED quote PROVE QuoteKept'
    BY <1>2 DEF QuoteKept
<1>3. ASSUME NEW r \in Request, NEW m \in Method, Validate(r, m) \/ SortRow(r, m) PROVE UNCHANGED quote
    BY <1>3 DEF Validate, SortRow
<1>4. ASSUME NEW r \in Request, NEW default \in BOOLEAN, Create(r, default) PROVE UNCHANGED quote
    BY <1>4 DEF Create
<1>5. ASSUME NEW r \in Request, NEW h \in hooks, Deliver(r, h) PROVE UNCHANGED quote
    BY <1>5 DEF Deliver
<1>6. ASSUME NEW r \in Request, CountMethods(r) \/ Shift(r) \/ Identify(r) \/ Insert(r) \/ Sort(r) \/ SortCommit(r)
      PROVE  UNCHANGED quote
    BY <1>6 DEF CountMethods, Shift, Identify, Insert, Sort, SortCommit
<1>7. ASSUME NEW r \in Request, NEW a \in Address, NEW d, CreateAddress(r, a, d) \/ UpdateAddress(r, a, d)
      PROVE  UNCHANGED quote
    BY <1>7 DEF CreateAddress, UpdateAddress
<1>8. ASSUME NEW r \in Request, Clear(r) \/ Cleared(r) \/ SaveAddress(r) \/ Fail(r) PROVE UNCHANGED quote
    BY <1>8 DEF Clear, Cleared, SaveAddress, Fail
<1>9. ASSUME NEW m \in Method, Expire(m) PROVE UNCHANGED quote
    BY <1>9 DEF Expire
<1>10. ASSUME UNCHANGED vars PROVE UNCHANGED quote
    BY <1>10 DEF vars
<1> QED BY <1>1, <1>2, <1>3, <1>4, <1>5, <1>6, <1>7, <1>8, <1>9, <1>10 DEF Next

(***************************************************************************)
(* Every offer that is made is fair, for any subscriptions, plans,         *)
(* discounts and moments (getUpgradePlanOption).                           *)
(***************************************************************************)
THEOREM QuotesAreFair == Spec => []QuoteFair
<1>1. Init => QuoteKept
    BY DEF Init, NoQuote, QuoteKept
<1>2. QuoteKept => QuoteFair
    <2> SUFFICES ASSUME QuoteKept, quote.asked, NEW o \in quote.offer.options
                 PROVE  /\ o.net \in 0..quote.plan.price
                        /\ o.credit \in 0..quote.sub.paid /\ 4 * o.credit <= quote.plan.price + 2
                        /\ o.net > 0 /\ ~(LastWeek(quote.sub, quote.now) /\ o.strategy = "IMMEDIATELY") =>
                             o.net + o.credit + quote.discount \in quote.plan.price..(quote.plan.price + 1)
                        /\ o.upgradable /\ o.strategy = "IMMEDIATELY" /\ ~LastWeek(quote.sub, quote.now) =>
                             2 * quote.sub.paid * RemainingDays(quote.sub, quote.now) \in
                                 ((2 * o.credit - 1) * TotalDays(quote.sub))..((2 * o.credit + 1) * TotalDays(quote.sub))
                        /\ \A l \in Offer(quote.sub, quote.plan, quote.discount, quote.now + 1).options :
                             l.strategy = o.strategy => l.credit <= o.credit
        BY DEF QuoteFair, LastWeek
    <2>1. PICK sub \in Subscribed, plan \in Plans, discount \in Discounts, now \in Moments :
            quote = [asked |-> TRUE, sub |-> sub, plan |-> plan, discount |-> discount, now |-> now,
                     offer |-> Offer(sub, plan, discount, now)]
        BY DEF QuoteKept
    <2>2. /\ quote.sub = sub /\ quote.plan = plan /\ quote.discount = discount /\ quote.now = now
          /\ o \in Offer(sub, plan, discount, now).options
        BY <2>1
    <2>3. sub.paid \in Nat /\ sub.started \in Int /\ sub.expires \in Int /\ plan.price \in Nat
          /\ discount \in Nat /\ now \in Int
        BY PriceAssumption
    <2> QED BY <2>2, <2>3, OffersAreFair
<1> QED BY <1>1, <1>2, QuoteInductive, PTL DEF Spec
=============================================================================
