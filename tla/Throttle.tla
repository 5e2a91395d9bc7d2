------------------------------- MODULE Throttle -------------------------------
(***************************************************************************)
(* POST /urls under the plan throttle: ThrottlePlanGuard resolves the        *)
(* user's plan and charges a point in Redis or looks whether one is left,    *)
(* the handler creates the URL, and ThrottleInterceptor charges plans with   *)
(* chargeOnSuccess afterwards and records the usage.                         *)
(*                                                                         *)
(* Granularity.  Each database read, each Redis command and each commit is a *)
(* step, and other requests of the user run in between.  The endpoint's cost *)
(* is 1 point (urls.controller.ts:74 overrides the plan's).                  *)
(***************************************************************************)
EXTENDS Integers, FiniteSets

CONSTANTS
    User, Plan, Free,
    Limit,           \* plans.limit
    ChargeOnSuccess, \* plans.chargeOnSuccess
    Request,         \* the requests that can be in progress at once
    MaxPoints, MaxUrls, MaxWindows, \* bounds of exploration
    MaxFaults        \* bound: requests that die, or meet an error of Redis or the database

ASSUME ThrottleAssumption ==
    /\ Free \in Plan
    /\ Limit \in [Plan -> Nat \ {0}]
    /\ ChargeOnSuccess \in [Plan -> BOOLEAN]
    /\ IsFiniteSet(Request)
    /\ MaxPoints \in Nat /\ MaxUrls \in Nat /\ MaxWindows \in Nat /\ MaxFaults \in Nat

VARIABLES
    subs,    \* the plans of the user's subscription rows, whatever their status
    active,  \* the plan of users.activeSubscription
    points,  \* Redis: the points consumed under the key of the user, 0 without a key
    window,  \* which window of that key this is: it ends when the key expires
    usage,   \* plan_usages.used, or NoUsage without a row
    history, \* plan_usage_history: the sum of used
    req,     \* the requests in progress
    made,    \* ghost: URLs of the requests let in during the current window
    owed,    \* ghost: URLs made under plans charged on success
    faults

vars == <<subs, active, points, window, usage, history, req, made, owed, faults>>
plans == <<subs, active>>
record == <<usage, history>>

NoUsage == [row |-> FALSE, used |-> 0]
Usage == [row : BOOLEAN, used : Nat]

Idle == "done"
Busy == {"resolve", "prepay", "check", "handle", "charge", "record", "save"}

RequestState ==
    [pc : Busy \cup {Idle}, user : User, plan : Plan,
     window : Nat,   \* the window in which it was let in
     seen : Usage,   \* the usage row its transaction read
     url : BOOLEAN,  \* it created a URL
     answer : {"none", "ok", "refused", "failed"}]

Fresh(u, pc) ==
    [pc |-> pc, user |-> u, plan |-> Free, window |-> 0, seen |-> NoUsage,
     url |-> FALSE, answer |-> "none"]

TypeOK ==
    /\ subs \in [User -> SUBSET Plan]
    /\ active \in [User -> Plan]
    /\ points \in [User -> Nat]
    /\ window \in [User -> Nat]
    /\ usage \in [User -> Usage]
    /\ history \in [User -> Nat]
    /\ req \in [Request -> RequestState]
    /\ made \in [User -> Nat]
    /\ owed \in [User -> Nat]
    /\ faults \in Nat

Init ==
    /\ subs = [u \in User |-> {Free}]
    /\ active = [u \in User |-> Free]
    /\ points = [u \in User |-> 0]
    /\ window = [u \in User |-> 0]
    /\ usage = [u \in User |-> NoUsage]
    /\ history = [u \in User |-> 0]
    /\ req \in [Request -> {Fresh(u, Idle) : u \in User}]
    /\ made = [u \in User |-> 0]
    /\ owed = [u \in User |-> 0]
    /\ faults = 0

-----------------------------------------------------------------------------
(* The request. *)

Goto(r, pc) == req' = [req EXCEPT ![r] = [req[r] EXCEPT !.pc = pc]]
Answer(r, answer) == req' = [req EXCEPT ![r] = [req[r] EXCEPT !.pc = Idle, !.answer = answer]]
LetIn(r) ==
    req' = [req EXCEPT ![r] = [req[r] EXCEPT !.pc = "handle", !.window = window[req[r].user]]]

\* RateLimiterRedis.consume: one Lua script, which counts a refused attempt too.
Count(u) == points' = [points EXCEPT ![u] = points[u] + 1]
\* Bug: the comparison with the limit is off by one.
GrantedMutant(r) == points[req[r].user] <= Limit[req[r].plan]
Granted(r) == points[req[r].user] < Limit[req[r].plan]

\* The JWT guard has authenticated u.
Arrive(r, u) ==
    /\ req[r].pc = Idle
    /\ points[u] < MaxPoints /\ owed[u] < MaxUrls
    /\ req' = [req EXCEPT ![r] = Fresh(u, "resolve")]
    /\ UNCHANGED <<plans, points, window, record, made, owed, faults>>

\* findOneByUserId asks for a subscription of the user, in no order and of any status.
Resolve(r, plan) ==
    /\ req[r].pc = "resolve"
    /\ plan \in subs[req[r].user]
    /\ LET pc == IF ChargeOnSuccess[plan] THEN "check" ELSE "prepay"
       IN  req' = [req EXCEPT ![r] = [req[r] EXCEPT !.pc = pc, !.plan = plan]]
    /\ UNCHANGED <<plans, points, window, record, made, owed, faults>>

\* Charged before the handler, which a refusal keeps from running.
Prepay(r) ==
    /\ req[r].pc = "prepay"
    /\ Count(req[r].user)
    /\ IF Granted(r) THEN LetIn(r) ELSE Answer(r, "refused")
    /\ UNCHANGED <<plans, window, record, made, owed, faults>>

\* Bug: the guard forgets to look.
CheckMutant(r) ==
    /\ req[r].pc = "check"
    /\ LetIn(r)
    /\ UNCHANGED <<plans, points, window, record, made, owed, faults>>

\* Charged after the handler: the guard only looks.
Check(r) ==
    /\ req[r].pc = "check"
    /\ IF Granted(r) THEN LetIn(r) ELSE Answer(r, "refused")
    /\ UNCHANGED <<plans, points, window, record, made, owed, faults>>

\* The handler commits the URL; the interceptor charges it next if the plan says so.
HandleOk(r) ==
    LET u == req[r].user
        onSuccess == ChargeOnSuccess[req[r].plan]
    IN  /\ req[r].pc = "handle"
        /\ LET pc == IF onSuccess THEN "charge" ELSE Idle
               answer == IF onSuccess THEN "none" ELSE "ok"
           IN  req' = [req EXCEPT ![r] = [req[r] EXCEPT !.pc = pc, !.url = TRUE, !.answer = answer]]
        /\ made' = [made EXCEPT ![u] = IF req[r].window = window[u] THEN made[u] + 1 ELSE made[u]]
        /\ owed' = [owed EXCEPT ![u] = IF onSuccess THEN owed[u] + 1 ELSE owed[u]]
        /\ UNCHANGED <<plans, points, window, record, faults>>

\* Bug: the charge and its record follow a failed handler, too.
HandleRefusesMutant(r) ==
    /\ req[r].pc = "handle"
    /\ IF ChargeOnSuccess[req[r].plan] THEN Goto(r, "charge") ELSE Answer(r, "failed")
    /\ UNCHANGED <<plans, points, window, record, made, owed, faults>>

\* Bug: a failed handler gives a point back, also on a plan that is charged on success.
HandleRefusesRefunds(r) ==
    /\ req[r].pc = "handle"
    /\ points' = [points EXCEPT ![req[r].user] = @ - 1]
    /\ Answer(r, "failed")
    /\ UNCHANGED <<plans, window, record, made, owed, faults>>

\* The body or the alias is refused: the transaction rolls back and the interceptor does not charge.
HandleRefuses(r) ==
    /\ req[r].pc = "handle"
    /\ Answer(r, "failed")
    /\ UNCHANGED <<plans, points, window, record, made, owed, faults>>

Charge(r) ==
    /\ req[r].pc = "charge"
    /\ Count(req[r].user)
    /\ IF Granted(r) THEN Goto(r, "record") ELSE Answer(r, "refused")
    /\ UNCHANGED <<plans, window, record, made, owed, faults>>

\* recordUsage reads the usage row, without a lock ...
RecordRead(r) ==
    /\ req[r].pc = "record"
    /\ req' = [req EXCEPT ![r] = [req[r] EXCEPT !.pc = "save", !.seen = usage[req[r].user]]]
    /\ UNCHANGED <<plans, points, window, record, made, owed, faults>>

\* Bug: the merge takes the recorded usage for the new one.
RecordSaveMutant(r) ==
    LET u == req[r].user
    IN  /\ req[r].pc = "save"
        /\ Answer(r, "ok")
        /\ usage' = [usage EXCEPT ![u] = [row |-> TRUE, used |-> 1]]
        /\ history' = [history EXCEPT ![u] = history[u] + 1]
        /\ UNCHANGED <<plans, points, window, made, owed, faults>>

\* ... and commits the row and its history; a second first row breaks the unique (user, scope).
RecordSave(r) ==
    LET u == req[r].user
        duplicate == ~req[r].seen.row /\ usage[u].row
    IN  /\ req[r].pc = "save"
        /\ IF duplicate
           THEN Answer(r, "failed") /\ UNCHANGED record
           ELSE /\ Answer(r, "ok")
                /\ usage' = [usage EXCEPT ![u] = [row |-> TRUE, used |-> req[r].seen.used + 1]]
                /\ history' = [history EXCEPT ![u] = history[u] + 1]
        /\ UNCHANGED <<plans, points, window, made, owed, faults>>

\* The process dies, or Redis or the database fails: a consume may have been counted or not.
Fail(r) ==
    /\ req[r].pc # Idle
    /\ faults < MaxFaults
    /\ faults' = faults + 1
    /\ Answer(r, "failed")
    /\ \/ UNCHANGED points
       \/ req[r].pc \in {"prepay", "charge"} /\ Count(req[r].user)
    /\ UNCHANGED <<plans, window, record, made, owed>>

-----------------------------------------------------------------------------
(* Around it: the module Subscriptions, reduced to the plans, and the key's expiry. *)

\* An upgrade request stores a PENDING row of the new plan; rows are never deleted.
Subscribe(u, plan) ==
    /\ plan \notin subs[u]
    /\ subs' = [subs EXCEPT ![u] = subs[u] \cup {plan}]
    /\ UNCHANGED <<active, points, window, record, req, made, owed, faults>>

\* A webhook activates a subscription, or puts the user back on Free.
Switch(u, plan) ==
    /\ plan \in subs[u]
    /\ active' = [active EXCEPT ![u] = plan]
    /\ UNCHANGED <<subs, points, window, record, req, made, owed, faults>>

\* The first consume of a window sets the key's expiry, from the plan it was charged under.
WindowEnds(u) ==
    /\ points[u] > 0
    /\ window[u] < MaxWindows
    /\ points' = [points EXCEPT ![u] = 0]
    /\ window' = [window EXCEPT ![u] = window[u] + 1]
    /\ made' = [made EXCEPT ![u] = 0]
    /\ UNCHANGED <<plans, record, req, owed, faults>>

Step(r) ==
    \/ \E u \in User : Arrive(r, u)
    \/ \E plan \in Plan : Resolve(r, plan)
    \/ Prepay(r) \/ Check(r) \/ HandleOk(r) \/ HandleRefuses(r)
    \/ Charge(r) \/ RecordRead(r) \/ RecordSave(r) \/ Fail(r)

Environment(u) ==
    \/ \E plan \in Plan : Subscribe(u, plan) \/ Switch(u, plan)
    \/ WindowEnds(u)

Next == (\E r \in Request : Step(r)) \/ (\E u \in User : Environment(u))

Spec == Init /\ [][Next]_vars

-----------------------------------------------------------------------------
(* Properties. *)

\* A window's URLs stay below the largest limit among the user's plans, plus the requests that
\* can be in progress at once, plus the charges that failures lost: what the look in the guard
\* and the charge in the interceptor, several steps later, still guarantee together.
OverrunBounded ==
    \A u \in User :
        \E plan \in subs[u] : made[u] < Limit[plan] + Cardinality(Request) + faults

OnlyPrepaid(u) == \A plan \in subs[u] : ~ChargeOnSuccess[plan]

\* While no plan of the user is charged on success the limit is never overrun, whatever the
\* interleaving, the failures and the windows: a point is taken before the handler runs.
PrepaidWithinLimit ==
    \A u \in User : OnlyPrepaid(u) => \E plan \in subs[u] : made[u] <= Limit[plan]

\* Concurrent recordings lose counts, but what is recorded was made: no usage beyond the history,
\* no history beyond the URLs that are charged on success.
RecordedIsOwed ==
    \A u \in User : usage[u].used <= history[u] /\ history[u] <= owed[u]

\* With one request at a time: once it is answered, the usage row, the history and the URLs agree,
\* but for what failures between the handler and the record lost.
SettledIsRecorded ==
    (\A r \in Request : req[r].pc = Idle) =>
        \A u \in User : /\ usage[u].used = history[u]
                        /\ history[u] <= owed[u] /\ owed[u] <= history[u] + faults

\* With one request at a time: a request answered 429 has made no URL.
RefusedMadeNothing ==
    \A r \in Request : req[r].answer = "refused" => ~req[r].url

\* throttle-plan.guard.ts:39 resolves a "plan-based policy (user-specific or default)" and
\* throttle-policy.resolver.ts:40 names it activePlan: the plan that the user is on.
PolicyIsOfActivePlan ==
    [][\A r \in Request :
          req[r].pc = "resolve" /\ req'[r].pc \in {"check", "prepay"}
              => req'[r].plan = active[req[r].user]]_vars

-----------------------------------------------------------------------------
(* The inductive invariant behind the first three. *)

\* The requests of u let in during the current window and still at work on their URL ...
Making(u, onSuccess) ==
    {r \in Request : /\ req[r].pc = "handle"
                     /\ req[r].user = u
                     /\ req[r].window = window[u]
                     /\ ChargeOnSuccess[req[r].plan] = onSuccess}

\* ... or about to be charged for it; and those of any window whose record is still to come.
Unpaid(u) ==
    {r \in Request : req[r].pc = "charge" /\ req[r].user = u /\ req[r].window = window[u]}
Unrecorded(u) ==
    {r \in Request : req[r].pc \in {"charge", "record", "save"} /\ req[r].user = u}

\* A request works under a plan of its user, in a window that has begun, charged as the plan says.
Consistent(r) ==
    /\ req[r].plan \in subs[req[r].user]
    /\ req[r].window <= window[req[r].user]
    /\ req[r].pc = "prepay" => ~ChargeOnSuccess[req[r].plan]
    /\ req[r].pc \in {"check", "charge", "record", "save"} => ChargeOnSuccess[req[r].plan]
    /\ req[r].seen.used <= history[req[r].user]

\* Every URL of the window is paid for, about to be, or lost to a failure.
Paid(u) ==
    made[u] + Cardinality(Making(u, FALSE)) <= points[u] + Cardinality(Unpaid(u)) + faults

Bounded(u) ==
    \E plan \in subs[u] :
        made[u] + Cardinality(Making(u, FALSE)) + Cardinality(Making(u, TRUE))
            < Limit[plan] + Cardinality(Request) + faults

PrepaidBounded(u) ==
    OnlyPrepaid(u) =>
        /\ made[u] + Cardinality(Making(u, FALSE)) <= points[u]
        /\ \E plan \in subs[u] : made[u] + Cardinality(Making(u, FALSE)) <= Limit[plan]

Recorded(u) ==
    /\ usage[u].used <= history[u]
    /\ history[u] + Cardinality(Unrecorded(u)) <= owed[u]

IInv ==
    /\ TypeOK
    /\ \A u \in User : Free \in subs[u]
    /\ \A r \in Request : Consistent(r)
    /\ \A u \in User : Paid(u) /\ Bounded(u) /\ PrepaidBounded(u) /\ Recorded(u)

=============================================================================
