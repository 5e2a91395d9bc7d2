---------------------------- MODULE Subscriptions ----------------------------
(***************************************************************************)
(* The life of a user's plan: registration gives a Free subscription, an    *)
(* upgrade request creates a PENDING paid one and a recurring plan at       *)
(* Xendit, the webhooks of that plan activate and deactivate it, and a user *)
(* whose active subscription ends falls back to a new Free one.             *)
(*                                                                         *)
(* Granularity.  A database read is a step; a transaction commits in one    *)
(* step; a call to Xendit is a step of its own, because its effect stays    *)
(* when the transaction around it rolls back.  TypeORM's save compares the  *)
(* loaded entity with the row and writes every column that differs, so what *)
(* a handler commits is the whole row it loaded, merged with its changes.   *)
(***************************************************************************)
EXTENDS Naturals, FiniteSets

CONSTANTS
    User,        \* the accounts
    Paid,        \* pool of ids of paid subscriptions; also their externalId at Xendit
    FreeSub,     \* pool of ids of Free subscriptions (these have no externalId)
    Plan,        \* the paid plans: STARTER, PRO, ENTERPRISE
    Free,        \* the Free plan
    NoSub, NoUser,
    Request,     \* HTTP requests and webhook deliveries that can be in progress at once
    GoogleUsers, \* local users who will sign in with Google for the first time
    MaxFaults,   \* bound: how often a request in progress fails or its process dies
    Redelivery,  \* a webhook may be delivered again while it is being handled
    InOrder      \* the webhooks of one plan are delivered in the order they were sent

ASSUME SubscriptionsAssumption ==
    /\ Paid \cap FreeSub = {}
    /\ NoSub \notin Paid \cup FreeSub
    /\ NoUser \notin User
    /\ Free \notin Plan
    /\ GoogleUsers \subseteq User
    /\ MaxFaults \in Nat /\ Redelivery \in BOOLEAN /\ InOrder \in BOOLEAN

VARIABLES
    row,       \* the subscriptions table
    active,    \* users.activeSubscription
    google,    \* the users with a Google account
    remote,    \* Xendit: the state of each recurring plan
    confirmed, \* Xendit: the plans whose payment method was ever linked
    hooks,     \* Xendit: the webhooks sent and not yet answered with 200
    req,       \* the requests in progress, with what each has read
    faults     \* how many of them failed so far

vars == <<row, active, google, remote, confirmed, hooks, req, faults>>
xendit == <<remote, confirmed, hooks>>

Sub == Paid \cup FreeSub
Failure == {"none", "LINKING_URL_EXPIRED", "PAYMENT_FAILED"}
EndReason == {"none", "CANCELLED_BY_USER", "CANCELLED_BY_ADMIN",
              "EXPIRED_PAYMENT_FAILED", "EXPIRED_LINK", "UPGRADED"}

Row == [status : {"absent", "PENDING", "ACTIVE", "INACTIVE"},
        user : User \cup {NoUser}, plan : Plan \cup {Free},
        payment : {"none", "PENDING", "PAID"}, endReason : EndReason]

NoRow == [status |-> "absent", user |-> NoUser, plan |-> Free,
          payment |-> "none", endReason |-> "none"]

\* A Free subscription as initializeSubscriptionPeriod leaves it.
FreeRow(u) == [NoRow EXCEPT !.status = "ACTIVE", !.user = u]

\* Mutant: the insert leaves status to the column's default.
PendingRowMutant(u, p) == [FreeRow(u) EXCEPT !.plan = p, !.payment = "PENDING"]

\* The subscription an upgrade request inserts.
PendingRow(u, p) == [status |-> "PENDING", user |-> u, plan |-> p,
                     payment |-> "PENDING", endReason |-> "none"]

Webhook == [event : {"activated", "inactivated"}, sub : Paid, failure : Failure]
Activated(s) == [event |-> "activated", sub |-> s, failure |-> "none"]
Inactivated(s, f) == [event |-> "inactivated", sub |-> s, failure |-> f]

(***************************************************************************)
(* A request in progress.  sub is the subscription it is about, snap the    *)
(* row it loaded (once it holds the row lock: the row it will commit) and   *)
(* prev the user's active subscription it loaded, later the fallback.       *)
(***************************************************************************)
Phase == {"idle", "upgrade", "upgradeCommit", "deactivate", "deactivateCommit",
          "activated", "activatedSave", "activatedCommit",
          "inactivated", "inactivatedCommit", "acknowledge"}

RequestState == [pc : Phase, sub : Sub \cup {NoSub}, snap : Row,
                 prev : Sub \cup {NoSub}, hook : Webhook \cup {NoSub}]

Idle == [pc |-> "idle", sub |-> NoSub, snap |-> NoRow,
         prev |-> NoSub, hook |-> NoSub]

Acknowledging(m) == [Idle EXCEPT !.pc = "acknowledge", !.hook = m]

TypeOK ==
    /\ row \in [Sub -> Row]
    /\ active \in [User -> Sub \cup {NoSub}]
    /\ google \subseteq User
    /\ remote \in [Paid -> {"none", "pending", "active", "inactive"}]
    /\ confirmed \subseteq Paid
    /\ hooks \subseteq Webhook
    /\ req \in [Request -> RequestState]
    /\ faults \in 0..MaxFaults

Init ==
    /\ row = [s \in Sub |-> NoRow]
    /\ active = [u \in User |-> NoSub]
    /\ google = {}
    /\ remote = [s \in Paid |-> "none"]
    /\ confirmed = {}
    /\ hooks = {}
    /\ req = [r \in Request |-> Idle]
    /\ faults = 0

\* The row of s was written by a transaction that has not ended.
Locked(s) == \E r \in Request :
    req[r].pc \in {"activatedCommit", "inactivatedCommit"} /\ req[r].sub = s

Unused(s) == row[s].status = "absent"

\* POST /recurring/plans; the customer links a payment method later.
XenditCreate(s) == remote' = [remote EXCEPT ![s] = "pending"]

\* POST /recurring/plans/:id/deactivate; deactivating an inactive plan again changes nothing.
XenditDeactivate(s) ==
    /\ remote' = [remote EXCEPT ![s] = "inactive"]
    /\ hooks' = IF remote[s] \in {"pending", "active"}
                THEN hooks \cup {Inactivated(s, "none")} ELSE hooks
    /\ UNCHANGED confirmed

-----------------------------------------------------------------------------
(* Registration and Google sign-in *)

Register(u) ==
    /\ active[u] = NoSub
    /\ \E f \in FreeSub :
        /\ Unused(f)
        /\ row' = [row EXCEPT ![f] = FreeRow(u)]
        /\ active' = [active EXCEPT ![u] = f]
    /\ UNCHANGED <<google, remote, confirmed, hooks, req, faults>>

\* The first Google sign-in with the e-mail of an existing user.
LinkGoogle(u) ==
    /\ u \in GoogleUsers \ google
    /\ active[u] # NoSub
    /\ google' = google \cup {u}
    /\ \E f \in FreeSub :
        /\ Unused(f)
        /\ row' = [row EXCEPT ![f] = FreeRow(u)]
        /\ active' = [active EXCEPT ![u] = f]
    /\ UNCHANGED <<remote, confirmed, hooks, req, faults>>

-----------------------------------------------------------------------------
(* Upgrade request *)

Pending(u) == {s \in Paid : row[s].status = "PENDING" /\ row[s].user = u}

\* Mutant: no look for a pending upgrade.
UpgradableMutant(u, s, p) ==
    row[s].user = u /\ row[s].status = "ACTIVE" /\ row[s].plan # p

Upgradable(u, s, p) ==
    /\ row[s].user = u
    /\ row[s].status = "ACTIVE"
    /\ row[s].plan # p
    /\ Pending(u) = {}

\* The bound on upgrades: an id of the pool that is free to be assigned.
Available(n) == remote[n] = "none" /\ \A r \in Request : req[r].sub # n

UpgradeValidate(r, u, s, p) ==
    /\ req[r].pc = "idle"
    /\ Upgradable(u, s, p)
    /\ \E n \in Paid :
        /\ Available(n)
        /\ req' = [req EXCEPT ![r] = [Idle EXCEPT
                        !.pc = "upgrade", !.sub = n, !.snap = PendingRow(u, p)]]
    /\ UNCHANGED <<row, active, google, remote, confirmed, hooks, faults>>

\* The insert is uncommitted while Xendit creates the plan.
UpgradeRemote(r) ==
    /\ req[r].pc = "upgrade"
    /\ XenditCreate(req[r].sub)
    /\ req' = [req EXCEPT ![r].pc = "upgradeCommit"]
    /\ UNCHANGED <<row, active, google, confirmed, hooks, faults>>

\* Mutant: the subscription is committed before Xendit is called.
UpgradeCommitEarly(r) ==
    /\ req[r].pc \in {"upgrade", "upgradeCommit"}
    /\ row' = [row EXCEPT ![req[r].sub] = req[r].snap]
    /\ req' = [req EXCEPT ![r] = Idle]
    /\ UNCHANGED <<active, google, remote, confirmed, hooks, faults>>

\* Mutant: the user is moved to the plan without waiting for the webhook.
UpgradeCommitGrants(r) ==
    /\ req[r].pc = "upgradeCommit"
    /\ row' = [row EXCEPT ![req[r].sub] = req[r].snap]
    /\ active' = [active EXCEPT ![req[r].snap.user] = req[r].sub]
    /\ req' = [req EXCEPT ![r] = Idle]
    /\ UNCHANGED <<google, remote, confirmed, hooks, faults>>

UpgradeCommit(r) ==
    /\ req[r].pc = "upgradeCommit"
    /\ row' = [row EXCEPT ![req[r].sub] = req[r].snap]
    /\ req' = [req EXCEPT ![r] = Idle]
    /\ UNCHANGED <<active, google, remote, confirmed, hooks, faults>>

-----------------------------------------------------------------------------
(* Deactivation by the user *)

DeactivateValidate(r, s) ==
    /\ req[r].pc = "idle"
    /\ s \in Paid
    /\ row[s].status \in {"PENDING", "ACTIVE"}
    /\ req' = [req EXCEPT ![r] = [Idle EXCEPT !.pc = "deactivate", !.sub = s, !.snap = row[s]]]
    /\ UNCHANGED <<row, active, google, remote, confirmed, hooks, faults>>

DeactivateRemote(r) ==
    /\ req[r].pc = "deactivate"
    /\ XenditDeactivate(req[r].sub)
    /\ req' = [req EXCEPT ![r].pc = "deactivateCommit"]
    /\ UNCHANGED <<row, active, google, faults>>

DeactivateCommit(r) ==
    /\ req[r].pc = "deactivateCommit"
    /\ ~Locked(req[r].sub)
    /\ row' = [row EXCEPT ![req[r].sub] = [req[r].snap EXCEPT
                    !.status = "INACTIVE", !.endReason = "CANCELLED_BY_USER"]]
    /\ req' = [req EXCEPT ![r] = Idle]
    /\ UNCHANGED <<active, google, remote, confirmed, hooks, faults>>

-----------------------------------------------------------------------------
(* Webhook delivery, and the handler of recurring.plan.activated *)

\* A webhook about a subscription that is not committed is answered 404 and stays in hooks.
Deliverable(m) ==
    /\ m \in hooks
    /\ ~Unused(m.sub)
    /\ Redelivery \/ \A r \in Request : req[r].hook # m
    /\ InOrder /\ m.event = "inactivated" => Activated(m.sub) \notin hooks

\* Mutant: 200 is answered before the webhook is handled.
ActivatedLoadAcks(r, m) ==
    /\ req[r].pc = "idle"
    /\ Deliverable(m) /\ m.event = "activated"
    /\ req' = [req EXCEPT ![r] = [Idle EXCEPT
                    !.pc = "activated", !.hook = m, !.sub = m.sub, !.snap = row[m.sub]]]
    /\ hooks' = hooks \ {m}
    /\ UNCHANGED <<row, active, google, remote, confirmed, faults>>

ActivatedLoad(r, m) ==
    /\ req[r].pc = "idle"
    /\ Deliverable(m) /\ m.event = "activated"
    /\ req' = [req EXCEPT ![r] = [Idle EXCEPT
                    !.pc = "activated", !.hook = m, !.sub = m.sub, !.snap = row[m.sub]]]
    /\ UNCHANGED <<row, active, google, remote, confirmed, hooks, faults>>

ActivatedLoadUser(r) ==
    /\ req[r].pc = "activated"
    /\ req' = [req EXCEPT ![r] = [@ EXCEPT
                    !.pc = "activatedSave", !.prev = active[req[r].snap.user]]]
    /\ UNCHANGED <<row, active, google, remote, confirmed, hooks, faults>>

\* Mutant: the previous paid plan goes on at Xendit.
ActivatedSaveMutant(r) ==
    /\ req[r].pc = "activatedSave"
    /\ ~Locked(req[r].sub)
    /\ req' = [req EXCEPT ![r] = [req[r] EXCEPT
                    !.pc = "activatedCommit",
                    !.snap = [req[r].snap EXCEPT !.status = "ACTIVE", !.payment = "PAID"]]]
    /\ UNCHANGED <<row, active, google, remote, confirmed, hooks, faults>>

\* Writes the subscription and deactivates the previous paid plan at Xendit.
ActivatedSave(r) ==
    /\ req[r].pc = "activatedSave"
    /\ ~Locked(req[r].sub)
    /\ req' = [req EXCEPT ![r] = [req[r] EXCEPT
                    !.pc = "activatedCommit",
                    !.snap = [req[r].snap EXCEPT !.status = "ACTIVE", !.payment = "PAID"]]]
    /\ \/ /\ req[r].prev \in Paid
          /\ XenditDeactivate(req[r].prev)
       \/ /\ req[r].prev \in FreeSub
          /\ UNCHANGED xendit
    /\ UNCHANGED <<row, active, google, faults>>

\* Mutant: the previous Free subscription is left ACTIVE.
EndPreviousFreeMutant(rows, prev) == rows

\* A previous paid row keeps its status until its own webhook arrives; a Free one, whose
\* other columns nothing changes, ends here.
EndPreviousFree(rows, prev) ==
    IF prev \in FreeSub
    THEN [rows EXCEPT ![prev] = [@ EXCEPT !.status = "INACTIVE", !.endReason = "UPGRADED"]]
    ELSE rows

\* Mutant: the user row is not saved.
ActivatedCommitMutant(r) ==
    /\ req[r].pc = "activatedCommit"
    /\ row' = EndPreviousFree([row EXCEPT ![req[r].sub] = req[r].snap], req[r].prev)
    /\ req' = [req EXCEPT ![r] = Acknowledging(req[r].hook)]
    /\ UNCHANGED <<active, google, remote, confirmed, hooks, faults>>

ActivatedCommit(r) ==
    /\ req[r].pc = "activatedCommit"
    /\ row' = EndPreviousFree([row EXCEPT ![req[r].sub] = req[r].snap], req[r].prev)
    /\ active' = [active EXCEPT ![req[r].snap.user] = req[r].sub]
    /\ req' = [req EXCEPT ![r] = Acknowledging(req[r].hook)]
    /\ UNCHANGED <<google, remote, confirmed, hooks, faults>>

\* History and mail are written after the commit, then 200 is sent; a Fail before that
\* makes Xendit send the webhook again.
Acknowledge(r) ==
    /\ req[r].pc = "acknowledge"
    /\ hooks' = hooks \ {req[r].hook}
    /\ req' = [req EXCEPT ![r] = Idle]
    /\ UNCHANGED <<row, active, google, remote, confirmed, faults>>

-----------------------------------------------------------------------------
(* The handler of recurring.plan.inactivated *)

InactivatedLoad(r, m) ==
    /\ req[r].pc = "idle"
    /\ Deliverable(m) /\ m.event = "inactivated"
    /\ req' = [req EXCEPT ![r] = [Idle EXCEPT
                    !.pc = "inactivated", !.hook = m, !.sub = m.sub, !.snap = row[m.sub],
                    !.prev = active[row[m.sub].user]]]
    /\ UNCHANGED <<row, active, google, remote, confirmed, hooks, faults>>

\* Mutant: the failure code is stored as the end reason.
InactiveOnPendingMutant(snap, failure) == failure

\* A payment failure is recorded only if transactionStatus is FAILED or RETRYING, which
\* no code ever stores: the column is null, PENDING or PAID.
InactiveOnPending(snap, failure) ==
    CASE failure = "LINKING_URL_EXPIRED" -> "EXPIRED_LINK"
      [] failure = "none" -> "CANCELLED_BY_ADMIN"
      [] OTHER -> IF snap.payment \in {"FAILED", "RETRYING"}
                  THEN "EXPIRED_PAYMENT_FAILED" ELSE "none"

\* paid: the row of the current cycle is SUCCEEDED.  COMPLETED needs endedAt, which no code sets.
InactiveOnActive(s, paid) ==
    IF ~paid THEN "EXPIRED_PAYMENT_FAILED"
    ELSE IF active[row[s].user] # s THEN "UPGRADED" ELSE "CANCELLED_BY_ADMIN"

\* Mutant: a reason that is already there is not kept.
InactiveReasonMutant(snap, m, paid) ==
    IF snap.status = "PENDING" THEN InactiveOnPending(snap, m.failure)
    ELSE InactiveOnActive(m.sub, paid)

InactiveReason(snap, m, paid) ==
    CASE snap.endReason # "none" -> snap.endReason
      [] snap.endReason = "none" /\ snap.status = "PENDING" -> InactiveOnPending(snap, m.failure)
      [] snap.endReason = "none" /\ snap.status = "ACTIVE" -> InactiveOnActive(m.sub, paid)
      [] OTHER -> "none"

\* Writes the subscription; the fallback Free subscription is saved on another
\* connection, so it is committed whatever becomes of the transaction.
InactivatedSaveWith(r, paid, f) ==
    LET fallback == req[r].prev = req[r].sub
        reason == InactiveReason(req[r].snap, req[r].hook, paid)
    IN  /\ fallback => Unused(f)
        /\ row' = IF fallback THEN [row EXCEPT ![f] = FreeRow(req[r].snap.user)] ELSE row
        /\ req' = [req EXCEPT ![r] = [req[r] EXCEPT
                        !.pc = "inactivatedCommit",
                        !.snap = [req[r].snap EXCEPT !.status = "INACTIVE", !.endReason = reason],
                        !.prev = IF fallback THEN f ELSE NoSub]]

InactivatedSave(r) ==
    /\ req[r].pc = "inactivated"
    /\ ~Locked(req[r].sub)
    /\ \E paid \in BOOLEAN, f \in FreeSub : InactivatedSaveWith(r, paid, f)
    /\ UNCHANGED <<active, google, remote, confirmed, hooks, faults>>

\* handleInactiveOnActive throws while the row of the current cycle has not been written.
InactivatedWithoutCycle(r) ==
    /\ req[r].pc = "inactivated"
    /\ req[r].snap.status = "ACTIVE" /\ req[r].snap.endReason = "none"
    /\ req' = [req EXCEPT ![r] = Idle]
    /\ UNCHANGED <<row, active, google, remote, confirmed, hooks, faults>>

\* Mutant: the user stays on the subscription that ended.
InactivatedCommitMutant(r) ==
    /\ req[r].pc = "inactivatedCommit"
    /\ row' = [row EXCEPT ![req[r].sub] = req[r].snap]
    /\ req' = [req EXCEPT ![r] = Acknowledging(req[r].hook)]
    /\ UNCHANGED <<active, google, remote, confirmed, hooks, faults>>

InactivatedCommit(r) ==
    /\ req[r].pc = "inactivatedCommit"
    /\ row' = [row EXCEPT ![req[r].sub] = req[r].snap]
    /\ active' = IF req[r].prev = NoSub THEN active
                 ELSE [active EXCEPT ![req[r].snap.user] = req[r].prev]
    /\ req' = [req EXCEPT ![r] = Acknowledging(req[r].hook)]
    /\ UNCHANGED <<google, remote, confirmed, hooks, faults>>

\* A request fails at a call or the process dies; what was committed stays.
Fail(r) ==
    /\ faults < MaxFaults
    /\ req[r].pc # "idle"
    /\ faults' = faults + 1
    /\ req' = [req EXCEPT ![r] = Idle]
    /\ UNCHANGED <<row, active, google, remote, confirmed, hooks>>

-----------------------------------------------------------------------------
(* Xendit *)

\* The user opens the link and links a payment method.
XenditActivate(s) ==
    /\ remote[s] = "pending"
    /\ remote' = [remote EXCEPT ![s] = "active"]
    /\ confirmed' = confirmed \cup {s}
    /\ hooks' = hooks \cup {Activated(s)}
    /\ UNCHANGED <<row, active, google, req, faults>>

\* The link expires, or the immediate first payment fails.
XenditExpire(s) ==
    /\ remote[s] = "pending"
    /\ remote' = [remote EXCEPT ![s] = "inactive"]
    /\ \E f \in Failure \ {"none"} : hooks' = hooks \cup {Inactivated(s, f)}
    /\ UNCHANGED <<row, active, google, confirmed, req, faults>>

\* The recurrences are used up, a cycle fails for good, or an administrator stops the plan.
XenditEnd(s) ==
    /\ remote[s] = "active"
    /\ remote' = [remote EXCEPT ![s] = "inactive"]
    /\ hooks' = hooks \cup {Inactivated(s, "none")}
    /\ UNCHANGED <<row, active, google, confirmed, req, faults>>

-----------------------------------------------------------------------------
(* Specification *)

Handler(r) ==
    \/ UpgradeRemote(r) \/ UpgradeCommit(r)
    \/ DeactivateRemote(r) \/ DeactivateCommit(r)
    \/ ActivatedLoadUser(r) \/ ActivatedSave(r) \/ ActivatedCommit(r)
    \/ InactivatedSave(r) \/ InactivatedCommit(r)
    \/ Acknowledge(r)

Deliver(r) == \E m \in hooks : ActivatedLoad(r, m) \/ InactivatedLoad(r, m)

Next ==
    \/ \E u \in User : Register(u) \/ LinkGoogle(u)
    \/ \E r \in Request, u \in User, s \in Sub, p \in Plan : UpgradeValidate(r, u, s, p)
    \/ \E r \in Request, s \in Sub : DeactivateValidate(r, s)
    \/ \E r \in Request : Handler(r) \/ Deliver(r) \/ InactivatedWithoutCycle(r) \/ Fail(r)
    \/ \E s \in Paid : XenditActivate(s) \/ XenditExpire(s) \/ XenditEnd(s)

Spec == Init /\ [][Next]_vars

\* Requests run to their end and Xendit keeps sending a webhook until it is answered 200,
\* those of the cycles included, so that the lookup of the current cycle cannot fail for
\* ever; nothing obliges users to act or Xendit to change a plan.
Fairness ==
    \A r \in Request :
        WF_vars(Handler(r)) /\ SF_vars(Deliver(r)) /\ SF_vars(InactivatedSave(r))

FairSpec == Spec /\ Fairness

-----------------------------------------------------------------------------
(* Properties *)

\* A user who is on the Free plan has a live Free subscription: handleRecurringActivated
\* ends a Free row only in the transaction that moves its user away from it, and no
\* interleaving of stale handlers, failures or repeated webhooks leads back to an ended one.
FreeIsLive == \A u \in User : active[u] \in FreeSub => row[active[u]].status = "ACTIVE"

\* Paid access needs a payment method linked at Xendit: no subscription is ACTIVE, or a
\* user's active one, unless Xendit has activated that subscription's plan.
PaidIsConfirmed ==
    \A s \in Paid :
        (row[s].status = "ACTIVE" \/ \E u \in User : active[u] = s) => s \in confirmed

\* upgradeSubscriptionPlan commits a PENDING subscription only once its plan exists at
\* Xendit, and users hold only subscriptions of their own that are past PENDING.
HeldIsOwned ==
    /\ \A u \in User : active[u] # NoSub =>
            row[active[u]].user = u /\ row[active[u]].status \in {"ACTIVE", "INACTIVE"}
    /\ \A s \in Paid : row[s].status # "absent" => remote[s] # "none"

\* The component implements Entitlement.
Abstract == INSTANCE Entitlement WITH
    holds <- active,
    buyer <- [s \in Paid |-> row[s].user],
    issued <- {f \in FreeSub : ~Unused(f)}

ImplementsEntitlement == Abstract!Spec

\* Nothing is in progress and every webhook that can be handled was answered.
Settled ==
    /\ \A r \in Request : req[r].pc = "idle"
    /\ \A m \in hooks : Unused(m.sub)

\* Once settled, Xendit bills a user exactly for the plan the user is on: a recurring plan
\* is active there just when its subscription is ACTIVE and the user's active one.
BillingFollowsPlan ==
    Settled => \A s \in Paid : ~Unused(s) =>
        (remote[s] = "active" <=> row[s].status = "ACTIVE" /\ active[row[s].user] = s)

\* The ACTIVE Free rows that their user is not on.
Stray == {f \in FreeSub : row[f].status = "ACTIVE" /\ active[row[f].user] # f}

\* Once settled, getUserActiveSubscription, which takes any ACTIVE row of the user, can only
\* find the user's active subscription or the Free row of a fallback that failed: each failure
\* leaves one at most, however often its webhook is delivered again.
OneActiveSubscription ==
    Settled =>
        /\ \A s \in Paid : row[s].status = "ACTIVE" => active[row[s].user] = s
        /\ Cardinality(Stray) <= faults

\* upgradeSubscriptionPlan admits one upgrade at a time.
OneUpgradeAtATime == \A u \in User : \A s, t \in Pending(u) : s = t

\* Why a subscription ended is decided once: no later webhook rewrites it.
EndReasonIsFinal ==
    [][\A s \in Sub : row[s].endReason # "none" => row'[s].endReason = row[s].endReason]_row

Ended(u) == active[u] # NoSub /\ row[active[u]].status = "INACTIVE"

\* A user whose active subscription was deactivated is not left on it: the plan's
\* inactivated webhook brings the Free fallback.
EndedIsReplaced == \A u \in User : Ended(u) ~> ~Ended(u)

\* An upgrade whose plan Xendit has activated does not stay PENDING.
ConfirmedIsGranted ==
    \A s \in Paid : (row[s].status = "PENDING" /\ s \in confirmed) ~> row[s].status # "PENDING"

(* The inductive invariant behind FreeIsLive, PaidIsConfirmed and HeldIsOwned *)

Upgrading == {"upgrade", "upgradeCommit"}
Activating == {"activated", "activatedSave", "activatedCommit"}
Handling == {"deactivate", "deactivateCommit", "inactivated", "inactivatedCommit"} \cup Activating

\* A row that exists belongs to a registered user; a missing one is blank.
RowsAreOwned ==
    \A s \in Sub : \/ row[s] = NoRow
                  \/ /\ row[s].status # "absent"
                     /\ row[s].user \in User
                     /\ active[row[s].user] # NoSub

HooksAreTrue == \A m \in hooks : m.event = "activated" => m.sub \in confirmed

\* An upgrade in progress has reserved an id and nobody else writes that row.
UpgradesAreReserved ==
    \A r \in Request : req[r].pc \in Upgrading =>
        /\ req[r].sub \in Paid
        /\ row[req[r].sub] = NoRow
        /\ req[r].snap.status = "PENDING"
        /\ req[r].snap.user \in User
        /\ active[req[r].snap.user] # NoSub
        /\ remote[req[r].sub] = "none" <=> req[r].pc = "upgrade"
        /\ \A q \in Request \ {r} : req[q].sub # req[r].sub

\* A handler works on a row that exists, with the owner it loaded.
HandledRowsExist ==
    \A r \in Request : req[r].pc \in Handling =>
        /\ req[r].sub \in Paid
        /\ row[req[r].sub] # NoRow
        /\ req[r].snap.user = row[req[r].sub].user
        /\ req[r].pc \in Activating => req[r].sub \in confirmed

\* A previous or fallback subscription that a request remembers exists.
PreviousExists == \A r \in Request : req[r].prev # NoSub => row[req[r].prev] # NoRow

\* The previous subscription an activation will end belongs to the same user.
PreviousIsOwned ==
    \A r \in Request : req[r].pc \in {"activatedSave", "activatedCommit"} =>
        /\ req[r].prev \in Sub
        /\ row[req[r].prev].user = req[r].snap.user
        /\ req[r].pc = "activatedCommit" => req[r].snap.status = "ACTIVE"

\* A fallback that is committed but not yet held is live and known to its request alone.
FallbackIsReserved ==
    \A r \in Request : req[r].pc = "inactivatedCommit" =>
        /\ req[r].snap.status = "INACTIVE"
        /\ req[r].prev # NoSub =>
            /\ req[r].prev \in FreeSub
            /\ row[req[r].prev].status = "ACTIVE"
            /\ row[req[r].prev].user = req[r].snap.user
            /\ \A u \in User : active[u] # req[r].prev
            /\ \A q \in Request \ {r} : req[q].prev # req[r].prev

IInv ==
    /\ TypeOK
    /\ RowsAreOwned
    /\ HooksAreTrue
    /\ UpgradesAreReserved
    /\ HandledRowsExist
    /\ PreviousExists
    /\ PreviousIsOwned
    /\ FallbackIsReserved
    /\ FreeIsLive
    /\ PaidIsConfirmed
    /\ HeldIsOwned

-----------------------------------------------------------------------------
(* Two claims of the source's comments that its code does not meet *)

\* "Deactivated previous recurring plan by existing external id": activating a subscription
\* deactivates the plan of the subscription before it, not the plan being activated.
OwnPlanSurvivesActivation ==
    [][\A r \in Request :
        req[r].pc = "activatedSave" /\ req'[r].pc = "activatedCommit"
            => remote'[req[r].sub] = remote[req[r].sub]]_vars

\* "Create subscription history for upgrade failed with failure code (expired or initial
\* attempt)": an upgrade that Xendit ends is recorded as ended for that reason.
FailedUpgradeIsRecorded ==
    \A s \in Paid : row[s].status = "INACTIVE" => row[s].endReason # "none"
=============================================================================
