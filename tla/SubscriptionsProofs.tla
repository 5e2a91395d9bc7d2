------------------------- MODULE SubscriptionsProofs -------------------------
(***************************************************************************)
(* Theorems about Subscriptions, for any number of users, subscriptions,    *)
(* requests and failures, and for every choice of Redelivery and InOrder.   *)
(*                                                                         *)
(* IInv is inductive: a lemma for each action shows that the action keeps   *)
(* it, conjunct by conjunct (the conjuncts whose variables an action leaves *)
(* alone share a step).  The theorems about Spec follow from it, and so     *)
(* does the refinement, which needs IInv to know what a handler loaded.     *)
(*                                                                         *)
(* OneUpgrade is kept by one request at a time, since only the commit of an *)
(* upgrade makes a row PENDING.                                            *)
(*                                                                         *)
(* SInv(r, S) is the invariant of one request at a time, with webhooks in   *)
(* order and no Google sign-in: what a handler loaded is there when it      *)
(* writes, so that a row says what Xendit says, or there is a webhook to    *)
(* come.  S holds the Free rows of the fallbacks that failed after they     *)
(* were inserted; Alone(r) is that some S no larger than the number of      *)
(* failures does, since only a failure adds to it, and one row.             *)
(***************************************************************************)
EXTENDS Subscriptions, FiniteSetTheorems, TLAPS

Status == {"absent", "PENDING", "ACTIVE", "INACTIVE"}

\* The ways in which a handler changes a row keep it a row.
LEMMA RowUpdate ==
    ASSUME NEW x \in Row
    PROVE  /\ \A st \in Status, p \in {"none", "PENDING", "PAID"} :
                    [x EXCEPT !.status = st, !.payment = p] \in Row
           /\ \A st \in Status, e \in EndReason :
                    [x EXCEPT !.status = st, !.endReason = e] \in Row
  BY DEF Row, Status

\* The rows that the code inserts are rows.
LEMMA RowValues ==
    /\ NoRow \in Row
    /\ \A u \in User : FreeRow(u) \in Row
    /\ \A u \in User, p \in Plan : PendingRow(u, p) \in Row
  BY DEF Row, NoRow, FreeRow, PendingRow, EndReason

\* The states in which a request starts and ends.
LEMMA RequestValues ==
    /\ Idle \in RequestState
    /\ \A m \in Webhook \cup {NoSub} : Acknowledging(m) \in RequestState
  BY RowValues DEF Idle, RequestState, Acknowledging, Phase

-----------------------------------------------------------------------------
(* Registration and Google sign-in *)

\* The Free row it takes was absent, so no request remembers it.
LEMMA RegisterStep ==
    ASSUME IInv, NEW u \in User, Register(u)
    PROVE  IInv'
  <1>1. TypeOK'
    BY RowValues DEF IInv, TypeOK, Register, Sub
  <1>2. HooksAreTrue'
    BY DEF IInv, HooksAreTrue, Register
  <1>3. RowsAreOwned'
    BY SubscriptionsAssumption DEF IInv, RowsAreOwned, TypeOK, Register, FreeRow
  <1>4. UpgradesAreReserved'
    BY SubscriptionsAssumption DEF IInv, UpgradesAreReserved, Register
  <1>5. HandledRowsExist'
    BY SubscriptionsAssumption DEF IInv, HandledRowsExist, Register
  <1>6. PreviousExists'
    BY DEF IInv, PreviousExists, TypeOK, RowsAreOwned, Register, Unused
  <1>7. PreviousIsOwned'
    BY SubscriptionsAssumption DEF IInv, PreviousIsOwned, RowsAreOwned, PreviousExists,
       Register, Unused
  <1>8. FallbackIsReserved'
    BY DEF IInv, FallbackIsReserved, Register, Unused
  <1>9. FreeIsLive'
    BY DEF IInv, FreeIsLive, TypeOK, Register, FreeRow, Sub
  <1>10. PaidIsConfirmed'
    BY SubscriptionsAssumption DEF IInv, PaidIsConfirmed, Register
  <1>11. HeldIsOwned'
    BY SubscriptionsAssumption DEF IInv, HeldIsOwned, TypeOK, Register, FreeRow, Unused, Sub
  <1> QED
    BY <1>1, <1>2, <1>3, <1>4, <1>5, <1>6, <1>7, <1>8, <1>9, <1>10, <1>11 DEF IInv

\* Like registration; the subscription the user leaves keeps its row.
LEMMA LinkGoogleStep ==
    ASSUME IInv, NEW u \in User, LinkGoogle(u)
    PROVE  IInv'
  <1>1. TypeOK'
    BY RowValues, SubscriptionsAssumption DEF IInv, TypeOK, LinkGoogle, Sub
  <1>2. HooksAreTrue'
    BY DEF IInv, HooksAreTrue, LinkGoogle
  <1>3. RowsAreOwned'
    BY SubscriptionsAssumption DEF IInv, RowsAreOwned, LinkGoogle, FreeRow
  <1>4. UpgradesAreReserved'
    BY SubscriptionsAssumption DEF IInv, UpgradesAreReserved, LinkGoogle
  <1>5. HandledRowsExist'
    BY SubscriptionsAssumption DEF IInv, HandledRowsExist, LinkGoogle
  <1>6. PreviousExists'
    BY DEF IInv, PreviousExists, TypeOK, RowsAreOwned, LinkGoogle, Unused
  <1>7. PreviousIsOwned'
    BY SubscriptionsAssumption DEF IInv, PreviousIsOwned, RowsAreOwned, PreviousExists,
       LinkGoogle, Unused
  <1>8. FallbackIsReserved'
    BY DEF IInv, FallbackIsReserved, LinkGoogle, Unused
  <1>9. FreeIsLive'
    BY DEF IInv, FreeIsLive, TypeOK, LinkGoogle, FreeRow, Sub
  <1>10. PaidIsConfirmed'
    BY SubscriptionsAssumption DEF IInv, PaidIsConfirmed, LinkGoogle
  <1>11. HeldIsOwned'
    BY SubscriptionsAssumption DEF IInv, HeldIsOwned, TypeOK, LinkGoogle, FreeRow, Unused,
       Sub
  <1> QED
    BY <1>1, <1>2, <1>3, <1>4, <1>5, <1>6, <1>7, <1>8, <1>9, <1>10, <1>11 DEF IInv

-----------------------------------------------------------------------------
(* The upgrade request *)

\* The id it reserves is unknown at Xendit, hence to the table as well.
LEMMA UpgradeValidateStep ==
    ASSUME IInv, NEW r \in Request, NEW u \in User, NEW s \in Sub, NEW p \in Plan,
       UpgradeValidate(r, u, s, p)
    PROVE  IInv'
  <1>1. TypeOK'
    <2>1. PICK n \in Paid : req' = [req EXCEPT ![r] = [Idle EXCEPT
                  !.pc = "upgrade", !.sub = n, !.snap = PendingRow(u, p)]]
      BY DEF UpgradeValidate
    <2>2. PendingRow(u, p) \in Row
      BY RowValues
    <2>3. [Idle EXCEPT !.pc = "upgrade", !.sub = n, !.snap = PendingRow(u, p)] \in RequestState
      BY <2>2, RequestValues DEF RequestState, Phase, Sub
    <2> QED
      BY <2>1, <2>3 DEF IInv, TypeOK, UpgradeValidate
  <1>2. /\ RowsAreOwned' /\ HooksAreTrue' /\ PreviousIsOwned'
        /\ FreeIsLive' /\ PaidIsConfirmed' /\ HeldIsOwned'
    BY DEF IInv, RowsAreOwned, HooksAreTrue, PreviousIsOwned, FreeIsLive, PaidIsConfirmed,
       HeldIsOwned, UpgradeValidate
  <1>3. UpgradesAreReserved'
    BY DEF IInv, UpgradesAreReserved, RowsAreOwned, HeldIsOwned, UpgradeValidate,
       Upgradable, Available, PendingRow, Sub
  <1>4. HandledRowsExist'
    BY DEF IInv, HandledRowsExist, UpgradeValidate, Activating, Handling
  <1>5. PreviousExists'
    BY DEF IInv, PreviousExists, UpgradeValidate, Idle
  <1>6. FallbackIsReserved'
    BY DEF IInv, FallbackIsReserved, UpgradeValidate, Idle
  <1> QED
    BY <1>1, <1>2, <1>3, <1>4, <1>5, <1>6 DEF IInv

\* The reserved id becomes known at Xendit; the row is still absent.
LEMMA UpgradeRemoteStep ==
    ASSUME IInv, NEW r \in Request, UpgradeRemote(r)
    PROVE  IInv'
  <1>1. TypeOK'
    BY DEF IInv, TypeOK, UpgradeRemote, XenditCreate, UpgradesAreReserved, Upgrading, RequestState, Phase
  <1>2. /\ RowsAreOwned' /\ HooksAreTrue' /\ PreviousExists'
        /\ PreviousIsOwned' /\ FallbackIsReserved' /\ FreeIsLive'
        /\ PaidIsConfirmed' /\ HeldIsOwned'
    BY DEF IInv, RowsAreOwned, HooksAreTrue, PreviousExists, PreviousIsOwned,
       FallbackIsReserved, FreeIsLive, PaidIsConfirmed, HeldIsOwned, UpgradeRemote, XenditCreate
  <1>3. UpgradesAreReserved'
    BY DEF IInv, UpgradesAreReserved, TypeOK, UpgradeRemote, XenditCreate, Upgrading
  <1>4. HandledRowsExist'
    BY DEF IInv, HandledRowsExist, UpgradeRemote, XenditCreate, Activating, Handling
  <1> QED
    BY <1>1, <1>2, <1>3, <1>4 DEF IInv

\* The row it inserts is PENDING and its plan exists at Xendit.
LEMMA UpgradeCommitStep ==
    ASSUME IInv, NEW r \in Request, UpgradeCommit(r)
    PROVE  IInv'
  <1>1. TypeOK'
    BY RequestValues DEF IInv, TypeOK, UpgradeCommit, RequestState
  <1>2. HooksAreTrue'
    BY DEF IInv, HooksAreTrue, UpgradeCommit
  <1>3. RowsAreOwned'
    BY DEF IInv, RowsAreOwned, UpgradesAreReserved, UpgradeCommit, Upgrading
  <1>4. UpgradesAreReserved'
    BY SubscriptionsAssumption DEF IInv, UpgradesAreReserved, TypeOK, UpgradeCommit, Idle,
       Upgrading
  <1>5. HandledRowsExist'
    BY DEF IInv, HandledRowsExist, UpgradesAreReserved, UpgradeCommit, Idle, Upgrading,
       Activating, Handling
  <1>6. PreviousExists'
    BY DEF IInv, PreviousExists, UpgradesAreReserved, UpgradeCommit, Idle, Upgrading
  <1>7. PreviousIsOwned'
    BY SubscriptionsAssumption DEF IInv, PreviousIsOwned, UpgradesAreReserved,
       PreviousExists, UpgradeCommit, Idle, Upgrading
  <1>8. FallbackIsReserved'
    BY SubscriptionsAssumption DEF IInv, FallbackIsReserved, UpgradesAreReserved,
       UpgradeCommit, Idle, Upgrading
  <1>9. FreeIsLive'
    BY SubscriptionsAssumption DEF IInv, FreeIsLive, UpgradesAreReserved, UpgradeCommit,
       Upgrading
  <1>10. PaidIsConfirmed'
    BY DEF IInv, PaidIsConfirmed, UpgradesAreReserved, UpgradeCommit, Upgrading
  <1>11. HeldIsOwned'
    BY DEF IInv, HeldIsOwned, UpgradesAreReserved, UpgradeCommit, NoRow, Upgrading
  <1> QED
    BY <1>1, <1>2, <1>3, <1>4, <1>5, <1>6, <1>7, <1>8, <1>9, <1>10, <1>11 DEF IInv

-----------------------------------------------------------------------------
(* The deactivation request *)

\* It loads a row that exists, with its owner.
LEMMA DeactivateValidateStep ==
    ASSUME IInv, NEW r \in Request, NEW s \in Sub, DeactivateValidate(r, s)
    PROVE  IInv'
  <1>1. TypeOK'
    BY RequestValues DEF IInv, TypeOK, DeactivateValidate, Sub, RequestState, Phase
  <1>2. /\ RowsAreOwned' /\ HooksAreTrue' /\ PreviousIsOwned'
        /\ FreeIsLive' /\ PaidIsConfirmed' /\ HeldIsOwned'
    BY DEF IInv, RowsAreOwned, HooksAreTrue, PreviousIsOwned, FreeIsLive, PaidIsConfirmed,
       HeldIsOwned, DeactivateValidate
  <1>3. UpgradesAreReserved'
    BY DEF IInv, UpgradesAreReserved, DeactivateValidate, NoRow, Upgrading
  <1>4. HandledRowsExist'
    BY DEF IInv, HandledRowsExist, DeactivateValidate, NoRow, Activating
  <1>5. PreviousExists'
    BY DEF IInv, PreviousExists, DeactivateValidate, Idle
  <1>6. FallbackIsReserved'
    BY DEF IInv, FallbackIsReserved, DeactivateValidate, Idle
  <1> QED
    BY <1>1, <1>2, <1>3, <1>4, <1>5, <1>6 DEF IInv

\* Only Xendit changes: inactivated webhooks promise nothing.
LEMMA DeactivateRemoteStep ==
    ASSUME IInv, NEW r \in Request, DeactivateRemote(r)
    PROVE  IInv'
  <1>1. TypeOK'
    BY DEF IInv, TypeOK, DeactivateRemote, XenditDeactivate, Inactivated, HandledRowsExist,
       Handling, RequestState, Phase, Webhook, Failure
  <1>2. /\ RowsAreOwned' /\ PreviousExists' /\ PreviousIsOwned'
        /\ FallbackIsReserved' /\ FreeIsLive'
    BY DEF IInv, RowsAreOwned, PreviousExists, PreviousIsOwned, FallbackIsReserved,
       FreeIsLive, DeactivateRemote
  <1>3. HooksAreTrue'
    BY DEF IInv, HooksAreTrue, DeactivateRemote, XenditDeactivate, Inactivated
  <1>4. UpgradesAreReserved'
    BY DEF IInv, UpgradesAreReserved, DeactivateRemote, XenditDeactivate, Upgrading
  <1>5. HandledRowsExist'
    BY DEF IInv, HandledRowsExist, DeactivateRemote, XenditDeactivate, Activating, Handling
  <1>6. PaidIsConfirmed'
    BY DEF IInv, PaidIsConfirmed, DeactivateRemote, XenditDeactivate
  <1>7. HeldIsOwned'
    BY DEF IInv, HeldIsOwned, DeactivateRemote, XenditDeactivate
  <1> QED
    BY <1>1, <1>2, <1>3, <1>4, <1>5, <1>6, <1>7 DEF IInv

\* The stale row it writes still names the right owner and is past PENDING.
LEMMA DeactivateCommitStep ==
    ASSUME IInv, NEW r \in Request, DeactivateCommit(r)
    PROVE  IInv'
  <1>1. TypeOK'
    BY RequestValues, RowUpdate DEF IInv, TypeOK, DeactivateCommit, RequestState, Status, EndReason
  <1>2. HooksAreTrue' /\ PaidIsConfirmed'
    BY DEF IInv, HooksAreTrue, PaidIsConfirmed, DeactivateCommit
  <1>3. RowsAreOwned'
    BY DEF IInv, RowsAreOwned, HandledRowsExist, DeactivateCommit, Handling
  <1>4. UpgradesAreReserved'
    BY SubscriptionsAssumption DEF IInv, UpgradesAreReserved, DeactivateCommit, Idle,
       Upgrading
  <1>5. HandledRowsExist'
    <2> DEFINE ended == [req[r].snap EXCEPT !.status = "INACTIVE", !.endReason =
       "CANCELLED_BY_USER"]
    <2>1. /\ req[r].pc \in Handling /\ req[r].sub \in Paid
          /\ req[r].snap \in Row /\ req[r].snap.user = row[req[r].sub].user
      BY DEF IInv, TypeOK, RequestState, HandledRowsExist, DeactivateCommit, Handling
    <2>2. ended # NoRow /\ ended.user = row[req[r].sub].user
      BY <2>1 DEF Row, NoRow
    <2>3. \A x \in Sub : row'[x].user = row[x].user /\ (row[x] # NoRow => row'[x] # NoRow)
      BY <2>1, <2>2 DEF IInv, TypeOK, DeactivateCommit
    <2>4. \A q \in Request : req'[q].pc \in Handling => req'[q] = req[q]
      BY DEF IInv, TypeOK, DeactivateCommit, Idle, Handling, Activating
    <2> QED
      BY <2>3, <2>4 DEF IInv, HandledRowsExist, DeactivateCommit, Sub, Handling
  <1>6. PreviousExists'
    <2> DEFINE ended == [req[r].snap EXCEPT !.status = "INACTIVE", !.endReason =
       "CANCELLED_BY_USER"]
    <2>1. req[r].sub \in Paid /\ req[r].snap \in Row
      BY DEF IInv, TypeOK, RequestState, HandledRowsExist, DeactivateCommit, Handling
    <2>2. ended # NoRow
      BY <2>1 DEF Row, NoRow
    <2>3. \A x \in Sub : row[x] # NoRow => row'[x] # NoRow
      BY <2>1, <2>2 DEF IInv, TypeOK, DeactivateCommit
    <2>4. \A q \in Request : req'[q].prev = NoSub \/ (req'[q] = req[q] /\ req[q].prev \in Sub
       \cup {NoSub})
      BY DEF IInv, TypeOK, DeactivateCommit, Idle, RequestState
    <2> QED
      BY <2>3, <2>4 DEF IInv, PreviousExists
  <1>7. PreviousIsOwned'
    BY DEF IInv, PreviousIsOwned, HandledRowsExist, DeactivateCommit, Idle, Handling
  <1>8. FallbackIsReserved'
    BY SubscriptionsAssumption DEF IInv, FallbackIsReserved, HandledRowsExist,
       DeactivateCommit, Idle, Handling
  <1>9. FreeIsLive'
    BY SubscriptionsAssumption DEF IInv, FreeIsLive, HandledRowsExist, DeactivateCommit,
       Handling
  <1>10. HeldIsOwned'
    BY DEF IInv, HeldIsOwned, TypeOK, RowsAreOwned, HandledRowsExist, DeactivateCommit,
       Handling
  <1> QED
    BY <1>1, <1>2, <1>3, <1>4, <1>5, <1>6, <1>7, <1>8, <1>9, <1>10 DEF IInv

-----------------------------------------------------------------------------
(* The handler of recurring.plan.activated *)

\* An activated webhook is about a plan that Xendit confirmed.
LEMMA ActivatedLoadStep ==
    ASSUME IInv, NEW r \in Request, NEW m \in hooks, ActivatedLoad(r, m)
    PROVE  IInv'
  <1>1. TypeOK'
    BY RequestValues DEF IInv, TypeOK, ActivatedLoad, Sub, RequestState, Phase, Deliverable, Webhook
  <1>2. /\ RowsAreOwned' /\ HooksAreTrue' /\ PreviousIsOwned'
        /\ FreeIsLive' /\ PaidIsConfirmed' /\ HeldIsOwned'
    BY DEF IInv, RowsAreOwned, HooksAreTrue, PreviousIsOwned, FreeIsLive, PaidIsConfirmed,
       HeldIsOwned, ActivatedLoad
  <1>3. UpgradesAreReserved'
    BY DEF IInv, UpgradesAreReserved, ActivatedLoad, Deliverable, Unused, NoRow, Upgrading
  <1>4. HandledRowsExist'
    BY DEF IInv, HandledRowsExist, TypeOK, HooksAreTrue, ActivatedLoad, Deliverable, Unused,
       NoRow
  <1>5. PreviousExists'
    BY DEF IInv, PreviousExists, ActivatedLoad, Idle
  <1>6. FallbackIsReserved'
    BY DEF IInv, FallbackIsReserved, ActivatedLoad, Idle
  <1> QED
    BY <1>1, <1>2, <1>3, <1>4, <1>5, <1>6 DEF IInv

\* What the user holds at this moment is the user's own.
LEMMA ActivatedLoadUserStep ==
    ASSUME IInv, NEW r \in Request, ActivatedLoadUser(r)
    PROVE  IInv'
  <1>1. TypeOK'
    <2>1. req[r].snap.user \in User
      BY DEF IInv, TypeOK, HandledRowsExist, Handling, Activating, RowsAreOwned, Sub,
         ActivatedLoadUser
    <2>2. active[req[r].snap.user] \in Sub \cup {NoSub}
      BY <2>1 DEF IInv, TypeOK
    <2> QED
      BY <2>2 DEF IInv, TypeOK, ActivatedLoadUser, RequestState, Phase
  <1>2. /\ RowsAreOwned' /\ HooksAreTrue' /\ FreeIsLive'
        /\ PaidIsConfirmed' /\ HeldIsOwned'
    BY DEF IInv, RowsAreOwned, HooksAreTrue, FreeIsLive, PaidIsConfirmed, HeldIsOwned,
       ActivatedLoadUser
  <1>3. UpgradesAreReserved'
    BY DEF IInv, UpgradesAreReserved, ActivatedLoadUser, Upgrading
  <1>4. HandledRowsExist'
    BY DEF IInv, HandledRowsExist, ActivatedLoadUser, Activating, Handling
  <1>5. PreviousExists'
    BY DEF IInv, PreviousExists, RowsAreOwned, HandledRowsExist, HeldIsOwned,
       ActivatedLoadUser, Sub, NoRow, Activating, Handling
  <1>6. PreviousIsOwned'
    BY DEF IInv, PreviousIsOwned, TypeOK, RowsAreOwned, HandledRowsExist, HeldIsOwned,
       ActivatedLoadUser, Sub, Activating, Handling
  <1>7. FallbackIsReserved'
    BY DEF IInv, FallbackIsReserved, RowsAreOwned, HandledRowsExist, ActivatedLoadUser, Sub,
       Activating, Handling
  <1> QED
    BY <1>1, <1>2, <1>3, <1>4, <1>5, <1>6, <1>7 DEF IInv

\* The row is written on this request's connection only, until it commits.
LEMMA ActivatedSaveStep ==
    ASSUME IInv, NEW r \in Request, ActivatedSave(r)
    PROVE  IInv'
  <1>1. TypeOK'
    <2>1. req[r] \in RequestState /\ req[r].snap \in Row
      BY DEF IInv, TypeOK, RequestState
    <2> DEFINE saved == [req[r].snap EXCEPT !.status = "ACTIVE", !.payment = "PAID"]
    <2>2. saved \in Row
      BY <2>1, RowUpdate DEF Status
    <2>3. [req[r] EXCEPT !.pc = "activatedCommit", !.snap = saved] \in RequestState
      BY <2>1, <2>2 DEF RequestState, Phase
    <2>4. req' = [req EXCEPT ![r] = [req[r] EXCEPT !.pc = "activatedCommit", !.snap = saved]]
      BY <2>1 DEF IInv, TypeOK, ActivatedSave, RequestState
    <2>5. req' \in [Request -> RequestState]
      BY <2>3, <2>4 DEF IInv, TypeOK
    <2>6. remote' \in [Paid -> {"none", "pending", "active", "inactive"}] /\ hooks' \subseteq
       Webhook
      BY DEF IInv, TypeOK, ActivatedSave, XenditDeactivate, xendit, Inactivated, Webhook, Failure
    <2> QED
      BY <2>5, <2>6 DEF IInv, TypeOK, ActivatedSave, XenditDeactivate, xendit
  <1>2. /\ RowsAreOwned' /\ PreviousExists' /\ PreviousIsOwned'
        /\ FallbackIsReserved' /\ FreeIsLive'
    BY DEF IInv, RowsAreOwned, PreviousExists, PreviousIsOwned, FallbackIsReserved,
       FreeIsLive, ActivatedSave
  <1>3. HooksAreTrue'
    BY DEF IInv, HooksAreTrue, ActivatedSave, XenditDeactivate, Inactivated, xendit
  <1>4. UpgradesAreReserved'
    BY SubscriptionsAssumption DEF IInv, UpgradesAreReserved, TypeOK, PreviousExists,
       ActivatedSave, XenditDeactivate, xendit, Upgrading
  <1>5. HandledRowsExist'
    BY DEF IInv, HandledRowsExist, ActivatedSave, XenditDeactivate, xendit, Activating,
       Handling
  <1>6. PaidIsConfirmed'
    BY DEF IInv, PaidIsConfirmed, ActivatedSave, XenditDeactivate, xendit
  <1>7. HeldIsOwned'
    BY DEF IInv, HeldIsOwned, TypeOK, ActivatedSave, XenditDeactivate, xendit
  <1> QED
    BY <1>1, <1>2, <1>3, <1>4, <1>5, <1>6, <1>7 DEF IInv

\* The users, owners and statuses after an activation, and its request.
ActivatedCommitEffect(r) ==
    /\ \A x \in Sub : row'[x].user = row[x].user
    /\ \A x \in Sub : row[x] # NoRow => row'[x] # NoRow
    /\ row'[req[r].sub].status = "ACTIVE"
    /\ \A x \in Sub : x # req[r].sub =>
            \/ row'[x].status = row[x].status
            \/ x = req[r].prev /\ row'[x].status = "INACTIVE"
    /\ \A q \in Request : q # r => req'[q] = req[q]
    /\ req'[r].pc = "acknowledge" /\ req'[r].prev = NoSub
    /\ req[r].sub \in Paid /\ req[r].prev \in Sub /\ row[req[r].sub] # NoRow
    /\ req[r].snap.user = row[req[r].sub].user

\* ActivatedCommitEffect is what the commit of an activation does.
LEMMA ActivatedCommitHasEffect ==
    ASSUME IInv, NEW r \in Request, ActivatedCommit(r)
    PROVE  ActivatedCommitEffect(r)
  <1> DEFINE rows == [row EXCEPT ![req[r].sub] = req[r].snap]
             prev == req[r].prev
             ended == [rows[prev] EXCEPT !.status = "INACTIVE", !.endReason = "UPGRADED"]
  <1>1. /\ req[r].sub \in Paid /\ prev \in Sub /\ row[req[r].sub] # NoRow
        /\ req[r].snap \in Row /\ req[r].snap.user = row[req[r].sub].user
        /\ req[r].snap.status = "ACTIVE"
    BY DEF IInv, TypeOK, RequestState, HandledRowsExist, PreviousIsOwned, ActivatedCommit,
       Handling, Activating
  <1>2. /\ \A x \in Sub : rows[x] \in Row /\ rows[x].user = row[x].user
        /\ \A x \in Sub : x # req[r].sub => rows[x] = row[x]
        /\ rows[req[r].sub].status = "ACTIVE"
        /\ rows \in [Sub -> Row]
    BY <1>1 DEF IInv, TypeOK, Sub
  <1>3. ended.status = "INACTIVE" /\ ended.user = row[prev].user
    BY <1>1, <1>2 DEF Row
  <1>4. /\ prev \in FreeSub => row' = [rows EXCEPT ![prev] = ended]
        /\ prev \notin FreeSub => row' = rows
    BY DEF ActivatedCommit, EndPreviousFree
  <1>5. prev \in FreeSub => prev # req[r].sub
    BY <1>1, SubscriptionsAssumption
  <1> HIDE DEF rows, ended, prev
  <1>6. /\ row'[req[r].sub].status = "ACTIVE"
        /\ \A x \in Sub : x # req[r].sub =>
                \/ row'[x].status = row[x].status
                \/ x = prev /\ row'[x].status = "INACTIVE"
    BY <1>1, <1>2, <1>3, <1>4, <1>5 DEF Sub
  <1>7. \A x \in Sub : row'[x].user = row[x].user
    BY <1>1, <1>2, <1>3, <1>4
  <1>8. \A x \in Sub : row[x] # NoRow => row'[x] # NoRow
    <2>1. \A x \in Sub : row[x] # NoRow => row'[x].status # "absent"
      BY <1>6 DEF IInv, RowsAreOwned
    <2> QED
      BY <2>1 DEF NoRow
  <1>9. /\ \A q \in Request : q # r => req'[q] = req[q]
        /\ req'[r].pc = "acknowledge" /\ req'[r].prev = NoSub
    BY DEF IInv, TypeOK, ActivatedCommit, Acknowledging, Idle
  <1> QED
    BY <1>1, <1>6, <1>7, <1>8, <1>9 DEF ActivatedCommitEffect, prev

\* The Free row that ends is the user's own; one that is reserved as a fallback is
\* not it, and a user who holds it moves away in this step.
LEMMA ActivatedCommitStep ==
    ASSUME IInv, NEW r \in Request, ActivatedCommit(r)
    PROVE  IInv'
  <1>1. TypeOK'
    <2>1. /\ req[r] \in RequestState /\ req[r].snap \in Row
          /\ req[r].sub \in Paid
          /\ req[r].hook \in Webhook \cup {NoSub}
      BY DEF IInv, TypeOK, RequestState, HandledRowsExist, Handling, Activating, ActivatedCommit
    <2> DEFINE rows == [row EXCEPT ![req[r].sub] = req[r].snap]
    <2>2. rows \in [Sub -> Row]
      BY <2>1 DEF IInv, TypeOK
    <2>3. row' \in [Sub -> Row]
      <3>1. CASE req[r].prev \in FreeSub
        <4>1. rows[req[r].prev] \in Row
          BY <2>2, <3>1 DEF Sub
        <4>2. [rows[req[r].prev] EXCEPT !.status = "INACTIVE", !.endReason = "UPGRADED"] \in Row
          BY <4>1, RowUpdate DEF Status, EndReason
        <4>3. row' = [rows EXCEPT ![req[r].prev] =
                          [rows[req[r].prev] EXCEPT !.status = "INACTIVE", !.endReason =
                             "UPGRADED"]]
          BY <3>1, <4>1, <2>2 DEF ActivatedCommit, EndPreviousFree, Row, Sub
        <4> QED
          BY <2>2, <4>2, <4>3
      <3>2. CASE req[r].prev \notin FreeSub
        BY <2>2, <3>2 DEF ActivatedCommit, EndPreviousFree
      <3> QED
        BY <3>1, <3>2
    <2>4. active' \in [User -> Sub \cup {NoSub}]
      BY <2>1 DEF IInv, TypeOK, ActivatedCommit, Sub
    <2>5. req' \in [Request -> RequestState]
      BY <2>1, RequestValues DEF IInv, TypeOK, ActivatedCommit
    <2> QED
      BY <2>3, <2>4, <2>5 DEF IInv, TypeOK, ActivatedCommit
  <1>2. HooksAreTrue'
    BY DEF IInv, HooksAreTrue, ActivatedCommit
  <1>3. RowsAreOwned'
    BY SubscriptionsAssumption DEF IInv, RowsAreOwned, TypeOK, HandledRowsExist,
       PreviousExists, PreviousIsOwned, ActivatedCommit, EndPreviousFree, Activating,
       Handling
  <1>4. UpgradesAreReserved'
    BY SubscriptionsAssumption DEF IInv, UpgradesAreReserved, TypeOK, HandledRowsExist,
       ActivatedCommit, EndPreviousFree, Acknowledging, Sub, Idle, Upgrading, Activating,
       Handling
  <1>5. HandledRowsExist'
    BY SubscriptionsAssumption DEF IInv, HandledRowsExist, TypeOK, RowsAreOwned,
       ActivatedCommit, EndPreviousFree, Acknowledging, Sub, NoRow, Activating, Handling
  <1>6. PreviousExists'
    <2>0. ActivatedCommitEffect(r)
      BY ActivatedCommitHasEffect
    <2>1. \A q \in Request : req'[q].prev # NoSub => req'[q] = req[q] /\ req[q].prev \in Sub
      BY <2>0 DEF IInv, TypeOK, RequestState, ActivatedCommitEffect
    <2> QED
      BY <2>1, <2>0 DEF IInv, PreviousExists, ActivatedCommitEffect
  <1>7. PreviousIsOwned'
    <2>0. ActivatedCommitEffect(r)
      BY ActivatedCommitHasEffect
    <2>1. \A q \in Request : req'[q].pc \in {"activatedSave", "activatedCommit"} => req'[q] = req[q]
      BY <2>0 DEF ActivatedCommitEffect
    <2> QED
      BY <2>1, <2>0 DEF IInv, PreviousIsOwned, ActivatedCommitEffect
  <1>8. FallbackIsReserved'
    BY SubscriptionsAssumption DEF IInv, FallbackIsReserved, TypeOK, HandledRowsExist,
       ActivatedCommit, EndPreviousFree, Acknowledging, Sub, Idle, Phase, EndReason,
       Upgrading, Activating, Handling
  <1>9. FreeIsLive'
    BY SubscriptionsAssumption DEF IInv, FreeIsLive, TypeOK, HandledRowsExist,
       PreviousIsOwned, HeldIsOwned, ActivatedCommit, EndPreviousFree, Activating, Handling
  <1>10. PaidIsConfirmed'
    BY DEF IInv, PaidIsConfirmed, TypeOK, HandledRowsExist, ActivatedCommit,
       EndPreviousFree, Sub, Activating, Handling
  <1>11. HeldIsOwned'
    <2>0. ActivatedCommitEffect(r)
      BY ActivatedCommitHasEffect
    <2>1. \A u \in User : active'[u] # NoSub =>
              row'[active'[u]].user = u /\ row'[active'[u]].status \in {"ACTIVE", "INACTIVE"}
      <3> SUFFICES ASSUME NEW u \in User, active'[u] # NoSub
                   PROVE  row'[active'[u]].user = u /\ row'[active'[u]].status \in {"ACTIVE",
                      "INACTIVE"}
        OBVIOUS
      <3>1. CASE u = req[r].snap.user
        <4>1. active'[u] = req[r].sub
          BY <3>1 DEF IInv, TypeOK, ActivatedCommit
        <4> QED
          BY <3>1, <4>1, <2>0 DEF Sub, ActivatedCommitEffect
      <3>2. CASE u # req[r].snap.user
        <4>1. active'[u] = active[u] /\ active[u] \in Sub
          BY <3>2 DEF IInv, TypeOK, ActivatedCommit
        <4> QED
          BY <4>1, <2>0 DEF IInv, HeldIsOwned, ActivatedCommitEffect
      <3> QED
        BY <3>1, <3>2
    <2>2. \A s \in Paid : row'[s].status # "absent" => remote[s] # "none"
      <3>1. \A s \in Paid : s # req[r].sub => (row'[s].status # "absent" => row[s].status #
         "absent")
        BY <2>0, SubscriptionsAssumption DEF Sub, ActivatedCommitEffect, IInv, PreviousExists,
           RowsAreOwned
      <3>2. row[req[r].sub].status # "absent"
        BY <2>0 DEF ActivatedCommitEffect, IInv, RowsAreOwned, Sub
      <3> QED
        BY <2>0, <3>1, <3>2 DEF ActivatedCommitEffect, IInv, HeldIsOwned
    <2> QED
      BY <2>1, <2>2 DEF HeldIsOwned, ActivatedCommit
  <1> QED
    BY <1>1, <1>2, <1>3, <1>4, <1>5, <1>6, <1>7, <1>8, <1>9, <1>10, <1>11 DEF IInv

\* A webhook is forgotten.
LEMMA AcknowledgeStep ==
    ASSUME IInv, NEW r \in Request, Acknowledge(r)
    PROVE  IInv'
  <1>1. TypeOK'
    BY RequestValues DEF IInv, TypeOK, Acknowledge
  <1>2. /\ RowsAreOwned' /\ HooksAreTrue' /\ FreeIsLive'
        /\ PaidIsConfirmed' /\ HeldIsOwned'
    BY DEF IInv, RowsAreOwned, HooksAreTrue, FreeIsLive, PaidIsConfirmed, HeldIsOwned,
       Acknowledge
  <1>3. UpgradesAreReserved'
    BY SubscriptionsAssumption DEF IInv, UpgradesAreReserved, Acknowledge, Idle, Upgrading
  <1>4. HandledRowsExist'
    BY DEF IInv, HandledRowsExist, Acknowledge, Idle, Activating, Handling
  <1>5. PreviousExists'
    BY DEF IInv, PreviousExists, Acknowledge, Idle
  <1>6. PreviousIsOwned'
    BY DEF IInv, PreviousIsOwned, Acknowledge, Idle
  <1>7. FallbackIsReserved'
    BY DEF IInv, FallbackIsReserved, Acknowledge, Idle
  <1> QED
    BY <1>1, <1>2, <1>3, <1>4, <1>5, <1>6, <1>7 DEF IInv

-----------------------------------------------------------------------------
(* The handler of recurring.plan.inactivated *)

\* It remembers the subscription the owner holds at this moment.
LEMMA InactivatedLoadStep ==
    ASSUME IInv, NEW r \in Request, NEW m \in hooks, InactivatedLoad(r, m)
    PROVE  IInv'
  <1>1. TypeOK'
    <2>1. m.sub \in Paid /\ row[m.sub] # NoRow /\ m \in Webhook
      BY DEF IInv, TypeOK, InactivatedLoad, Deliverable, Webhook, Unused, NoRow
    <2>2. row[m.sub] \in Row /\ active[row[m.sub].user] \in Sub \cup {NoSub}
      BY <2>1 DEF IInv, TypeOK, RowsAreOwned, Sub
    <2>3. [Idle EXCEPT !.pc = "inactivated", !.hook = m, !.sub = m.sub, !.snap = row[m.sub],
                       !.prev = active[row[m.sub].user]] \in RequestState
      BY <2>1, <2>2, RequestValues DEF RequestState, Phase, Sub
    <2> QED
      BY <2>3 DEF IInv, TypeOK, InactivatedLoad
  <1>2. /\ RowsAreOwned' /\ HooksAreTrue' /\ PreviousIsOwned'
        /\ FreeIsLive' /\ PaidIsConfirmed' /\ HeldIsOwned'
    BY DEF IInv, RowsAreOwned, HooksAreTrue, PreviousIsOwned, FreeIsLive, PaidIsConfirmed,
       HeldIsOwned, InactivatedLoad
  <1>3. UpgradesAreReserved'
    BY DEF IInv, UpgradesAreReserved, InactivatedLoad, Deliverable, Unused, NoRow, Upgrading
  <1>4. HandledRowsExist'
    BY DEF IInv, HandledRowsExist, TypeOK, InactivatedLoad, Deliverable, Unused, NoRow,
       Webhook, Activating
  <1>5. PreviousExists'
    BY DEF IInv, PreviousExists, TypeOK, RowsAreOwned, HeldIsOwned, InactivatedLoad,
       Deliverable, Unused, Sub, NoRow, Webhook
  <1>6. FallbackIsReserved'
    BY DEF IInv, FallbackIsReserved, TypeOK, RowsAreOwned, InactivatedLoad, Deliverable,
       Unused, Sub, NoRow, Webhook
  <1> QED
    BY <1>1, <1>2, <1>3, <1>4, <1>5, <1>6 DEF IInv

\* The fallback was absent, so that no user holds it and no other request remembers it.
LEMMA InactivatedSaveStep ==
    ASSUME IInv, NEW r \in Request, InactivatedSave(r)
    PROVE  IInv'
  <1>1. TypeOK'
    <2>1. PICK paid \in BOOLEAN, f \in FreeSub : InactivatedSaveWith(r, paid, f)
      BY DEF InactivatedSave
    <2>2. /\ req[r] \in RequestState /\ req[r].snap \in Row
          /\ req[r].hook \in Webhook \cup {NoSub}
          /\ req[r].snap.user \in User
      BY DEF IInv, TypeOK, RequestState, InactivatedSave, HandledRowsExist, Handling,
         RowsAreOwned, Sub
    <2> DEFINE reason == InactiveReason(req[r].snap, req[r].hook, paid)
               ended == [req[r].snap EXCEPT !.status = "INACTIVE", !.endReason = reason]
               prev == IF req[r].prev = req[r].sub THEN f ELSE NoSub
    <2>3. reason \in EndReason
      BY <2>2 DEF InactiveReason, InactiveOnPending, InactiveOnActive, EndReason, Row, Webhook
    <2>4. ended \in Row
      BY <2>2, <2>3, RowUpdate DEF Status
    <2>5. [req[r] EXCEPT !.pc = "inactivatedCommit", !.snap = ended, !.prev = prev] \in RequestState
      BY <2>2, <2>4 DEF RequestState, Phase, Sub
    <2>6. req' = [req EXCEPT ![r] =
                    [req[r] EXCEPT !.pc = "inactivatedCommit", !.snap = ended, !.prev = prev]]
      BY <2>1, <2>2 DEF InactivatedSaveWith, IInv, TypeOK, RequestState
    <2>7. req' \in [Request -> RequestState]
      BY <2>5, <2>6 DEF IInv, TypeOK
    <2>8. row' \in [Sub -> Row]
      BY <2>1, <2>2, RowValues DEF InactivatedSaveWith, IInv, TypeOK, Sub
    <2> QED
      BY <2>7, <2>8 DEF IInv, TypeOK, InactivatedSave
  <1>2. HooksAreTrue'
    BY DEF IInv, HooksAreTrue, InactivatedSave
  <1>3. RowsAreOwned'
    BY DEF IInv, RowsAreOwned, HandledRowsExist, InactivatedSave, InactivatedSaveWith,
       FreeRow, Sub, Handling
  <1>4. UpgradesAreReserved'
    BY SubscriptionsAssumption DEF IInv, UpgradesAreReserved, InactivatedSave,
       InactivatedSaveWith, Upgrading
  <1>5. HandledRowsExist'
    BY SubscriptionsAssumption DEF IInv, HandledRowsExist, InactivatedSave,
       InactivatedSaveWith, Activating, Handling
  <1>6. PreviousExists'
    <2>1. PICK paid \in BOOLEAN, f \in FreeSub : InactivatedSaveWith(r, paid, f)
      BY DEF InactivatedSave
    <2>2. \A x \in Sub : row[x] # NoRow => row'[x] # NoRow
      BY <2>1 DEF InactivatedSaveWith, FreeRow, NoRow, IInv, TypeOK
    <2>3. req'[r].prev # NoSub => req'[r].prev = f /\ row'[f] # NoRow
      BY <2>1 DEF InactivatedSaveWith, FreeRow, NoRow, IInv, TypeOK, RequestState, Sub
    <2>4. \A q \in Request : q # r => req'[q] = req[q] /\ req[q].prev \in Sub \cup {NoSub}
      BY <2>1 DEF InactivatedSaveWith, IInv, TypeOK, RequestState
    <2> QED
      BY <2>2, <2>3, <2>4 DEF IInv, PreviousExists
  <1>7. PreviousIsOwned'
    BY SubscriptionsAssumption DEF IInv, PreviousIsOwned, RowsAreOwned, PreviousExists,
       InactivatedSave, InactivatedSaveWith, Unused
  <1>8. FallbackIsReserved'
    BY DEF IInv, FallbackIsReserved, TypeOK, RowsAreOwned, PreviousExists, FreeIsLive,
       InactivatedSave, InactivatedSaveWith, FreeRow, Unused, Sub
  <1>9. FreeIsLive'
    BY DEF IInv, FreeIsLive, InactivatedSave, InactivatedSaveWith, FreeRow
  <1>10. PaidIsConfirmed'
    BY SubscriptionsAssumption DEF IInv, PaidIsConfirmed, InactivatedSave,
       InactivatedSaveWith
  <1>11. HeldIsOwned'
    BY SubscriptionsAssumption DEF IInv, HeldIsOwned, InactivatedSave, InactivatedSaveWith,
       Unused
  <1> QED
    BY <1>1, <1>2, <1>3, <1>4, <1>5, <1>6, <1>7, <1>8, <1>9, <1>10, <1>11 DEF IInv

\* The request forgets what it loaded.
LEMMA InactivatedWithoutCycleStep ==
    ASSUME IInv, NEW r \in Request, InactivatedWithoutCycle(r)
    PROVE  IInv'
  <1>1. TypeOK'
    BY RequestValues DEF IInv, TypeOK, InactivatedWithoutCycle
  <1>2. /\ RowsAreOwned' /\ HooksAreTrue' /\ FreeIsLive'
        /\ PaidIsConfirmed' /\ HeldIsOwned'
    BY DEF IInv, RowsAreOwned, HooksAreTrue, FreeIsLive, PaidIsConfirmed, HeldIsOwned,
       InactivatedWithoutCycle
  <1>3. UpgradesAreReserved'
    BY SubscriptionsAssumption DEF IInv, UpgradesAreReserved, InactivatedWithoutCycle, Idle,
       Upgrading
  <1>4. HandledRowsExist'
    BY DEF IInv, HandledRowsExist, InactivatedWithoutCycle, Idle, Activating, Handling
  <1>5. PreviousExists'
    BY DEF IInv, PreviousExists, InactivatedWithoutCycle, Idle
  <1>6. PreviousIsOwned'
    BY DEF IInv, PreviousIsOwned, InactivatedWithoutCycle, Idle
  <1>7. FallbackIsReserved'
    BY DEF IInv, FallbackIsReserved, InactivatedWithoutCycle, Idle
  <1> QED
    BY <1>1, <1>2, <1>3, <1>4, <1>5, <1>6, <1>7 DEF IInv

\* The fallback the user moves to is live and the user's own.
LEMMA InactivatedCommitStep ==
    ASSUME IInv, NEW r \in Request, InactivatedCommit(r)
    PROVE  IInv'
  <1>1. TypeOK'
    <2>1. /\ req[r].snap \in Row /\ req[r].sub \in Paid
          /\ req[r].prev \in Sub \cup {NoSub}
          /\ req[r].hook \in Webhook \cup {NoSub}
      BY DEF IInv, TypeOK, RequestState, HandledRowsExist, Handling, InactivatedCommit
    <2>2. row' \in [Sub -> Row]
      BY <2>1 DEF IInv, TypeOK, InactivatedCommit, Sub
    <2>3. active' \in [User -> Sub \cup {NoSub}]
      BY <2>1 DEF IInv, TypeOK, InactivatedCommit
    <2>4. req' \in [Request -> RequestState]
      BY <2>1, RequestValues DEF IInv, TypeOK, InactivatedCommit
    <2> QED
      BY <2>2, <2>3, <2>4 DEF IInv, TypeOK, InactivatedCommit
  <1>2. HooksAreTrue'
    BY DEF IInv, HooksAreTrue, InactivatedCommit
  <1>3. RowsAreOwned'
    BY DEF IInv, RowsAreOwned, HandledRowsExist, FallbackIsReserved, InactivatedCommit,
       Handling
  <1>4. UpgradesAreReserved'
    BY SubscriptionsAssumption DEF IInv, UpgradesAreReserved, InactivatedCommit,
       Acknowledging, Idle, Upgrading
  <1>5. HandledRowsExist'
    BY SubscriptionsAssumption DEF IInv, HandledRowsExist, TypeOK, RowsAreOwned,
       InactivatedCommit, Acknowledging, NoRow, Activating, Handling
  <1>6. PreviousExists'
    BY DEF IInv, PreviousExists, FallbackIsReserved, InactivatedCommit, Acknowledging,
       NoRow, Idle
  <1>7. PreviousIsOwned'
    BY DEF IInv, PreviousIsOwned, HandledRowsExist, InactivatedCommit, Acknowledging,
       Handling
  <1>8. FallbackIsReserved'
    BY SubscriptionsAssumption DEF IInv, FallbackIsReserved, TypeOK, HandledRowsExist,
       InactivatedCommit, Acknowledging, Idle, Handling
  <1>9. FreeIsLive'
    BY SubscriptionsAssumption DEF IInv, FreeIsLive, HandledRowsExist, FallbackIsReserved,
       InactivatedCommit, Handling
  <1>10. PaidIsConfirmed'
    BY DEF IInv, PaidIsConfirmed, FallbackIsReserved, InactivatedCommit
  <1>11. HeldIsOwned'
    BY DEF IInv, HeldIsOwned, TypeOK, RowsAreOwned, HandledRowsExist, FallbackIsReserved,
       InactivatedCommit, Handling
  <1> QED
    BY <1>1, <1>2, <1>3, <1>4, <1>5, <1>6, <1>7, <1>8, <1>9, <1>10, <1>11 DEF IInv

-----------------------------------------------------------------------------
(* Failures, and Xendit *)

\* The request forgets what it loaded; what was committed stays.
LEMMA FailStep ==
    ASSUME IInv, NEW r \in Request, Fail(r)
    PROVE  IInv'
  <1>1. TypeOK'
    BY RequestValues, SubscriptionsAssumption DEF IInv, TypeOK, Fail
  <1>2. /\ RowsAreOwned' /\ HooksAreTrue' /\ FreeIsLive'
        /\ PaidIsConfirmed' /\ HeldIsOwned'
    BY DEF IInv, RowsAreOwned, HooksAreTrue, FreeIsLive, PaidIsConfirmed, HeldIsOwned, Fail
  <1>3. UpgradesAreReserved'
    BY SubscriptionsAssumption DEF IInv, UpgradesAreReserved, Fail, Idle, Upgrading
  <1>4. HandledRowsExist'
    BY DEF IInv, HandledRowsExist, Fail, Idle, Activating, Handling
  <1>5. PreviousExists'
    BY DEF IInv, PreviousExists, Fail, Idle
  <1>6. PreviousIsOwned'
    BY DEF IInv, PreviousIsOwned, Fail, Idle
  <1>7. FallbackIsReserved'
    BY DEF IInv, FallbackIsReserved, Fail, Idle
  <1> QED
    BY <1>1, <1>2, <1>3, <1>4, <1>5, <1>6, <1>7 DEF IInv

\* Xendit confirms a plan and says so.
LEMMA XenditActivateStep ==
    ASSUME IInv, NEW s \in Paid, XenditActivate(s)
    PROVE  IInv'
  <1>1. TypeOK'
    BY DEF IInv, TypeOK, XenditActivate, Activated, Webhook, Failure
  <1>2. /\ RowsAreOwned' /\ UpgradesAreReserved' /\ HandledRowsExist'
        /\ PreviousExists' /\ PreviousIsOwned' /\ FallbackIsReserved'
        /\ FreeIsLive' /\ PaidIsConfirmed' /\ HeldIsOwned'
    BY DEF IInv, RowsAreOwned, UpgradesAreReserved, HandledRowsExist, PreviousExists,
       PreviousIsOwned, FallbackIsReserved, FreeIsLive, PaidIsConfirmed, HeldIsOwned,
       XenditActivate
  <1>3. HooksAreTrue'
    BY DEF IInv, HooksAreTrue, XenditActivate, Activated
  <1> QED
    BY <1>1, <1>2, <1>3 DEF IInv

\* Xendit ends a plan that nobody confirmed.
LEMMA XenditExpireStep ==
    ASSUME IInv, NEW s \in Paid, XenditExpire(s)
    PROVE  IInv'
  <1>1. TypeOK'
    BY DEF IInv, TypeOK, XenditExpire, Inactivated, Webhook, Failure
  <1>2. /\ RowsAreOwned' /\ UpgradesAreReserved' /\ HandledRowsExist'
        /\ PreviousExists' /\ PreviousIsOwned' /\ FallbackIsReserved'
        /\ FreeIsLive' /\ PaidIsConfirmed' /\ HeldIsOwned'
    BY DEF IInv, RowsAreOwned, UpgradesAreReserved, HandledRowsExist, PreviousExists,
       PreviousIsOwned, FallbackIsReserved, FreeIsLive, PaidIsConfirmed, HeldIsOwned,
       XenditExpire
  <1>3. HooksAreTrue'
    BY DEF IInv, HooksAreTrue, XenditExpire, Inactivated
  <1> QED
    BY <1>1, <1>2, <1>3 DEF IInv

\* Xendit ends a plan.
LEMMA XenditEndStep ==
    ASSUME IInv, NEW s \in Paid, XenditEnd(s)
    PROVE  IInv'
  <1>1. TypeOK'
    BY DEF IInv, TypeOK, XenditEnd, Inactivated, Webhook, Failure
  <1>2. /\ RowsAreOwned' /\ UpgradesAreReserved' /\ HandledRowsExist'
        /\ PreviousExists' /\ PreviousIsOwned' /\ FallbackIsReserved'
        /\ FreeIsLive' /\ PaidIsConfirmed' /\ HeldIsOwned'
    BY DEF IInv, RowsAreOwned, UpgradesAreReserved, HandledRowsExist, PreviousExists,
       PreviousIsOwned, FallbackIsReserved, FreeIsLive, PaidIsConfirmed, HeldIsOwned,
       XenditEnd
  <1>3. HooksAreTrue'
    BY DEF IInv, HooksAreTrue, XenditEnd, Inactivated
  <1> QED
    BY <1>1, <1>2, <1>3 DEF IInv
-----------------------------------------------------------------------------
(* The inductive invariant, and what follows from it *)

\* The empty tables satisfy the invariant.
LEMMA InitInv == Init => IInv
  <1> SUFFICES ASSUME Init PROVE IInv
    OBVIOUS
  <1>1. TypeOK
    BY RowValues, RequestValues, SubscriptionsAssumption DEF Init, TypeOK
  <1>2. RowsAreOwned /\ HooksAreTrue /\ FreeIsLive
    BY SubscriptionsAssumption DEF Init, RowsAreOwned, HooksAreTrue, FreeIsLive
  <1>3. /\ UpgradesAreReserved /\ HandledRowsExist
        /\ PreviousExists /\ PreviousIsOwned /\ FallbackIsReserved
    BY DEF Init, UpgradesAreReserved, HandledRowsExist, PreviousExists, PreviousIsOwned,
       FallbackIsReserved, Idle, Upgrading, Handling, Activating
  <1>4. PaidIsConfirmed /\ HeldIsOwned
    BY SubscriptionsAssumption DEF Init, PaidIsConfirmed, HeldIsOwned, NoRow, Sub
  <1> QED
    BY <1>1, <1>2, <1>3, <1>4 DEF IInv

\* A stuttering step keeps it.
LEMMA StutterInv == IInv /\ UNCHANGED vars => IInv'
  BY DEF vars, IInv, TypeOK, RowsAreOwned, HooksAreTrue, UpgradesAreReserved,
     HandledRowsExist, PreviousExists, PreviousIsOwned, FallbackIsReserved, FreeIsLive,
     PaidIsConfirmed, HeldIsOwned

\* Every step keeps it.
LEMMA NextInv == IInv /\ [Next]_vars => IInv'
  <1> SUFFICES ASSUME IInv, Next PROVE IInv'
    BY StutterInv
  <1>1. ASSUME NEW u \in User, Register(u) \/ LinkGoogle(u) PROVE IInv'
    BY <1>1, RegisterStep, LinkGoogleStep
  <1>2. ASSUME NEW r \in Request, NEW u \in User, NEW s \in Sub, NEW p \in Plan,
               UpgradeValidate(r, u, s, p)
        PROVE  IInv'
    BY <1>2, UpgradeValidateStep
  <1>3. ASSUME NEW r \in Request, NEW s \in Sub, DeactivateValidate(r, s) PROVE IInv'
    BY <1>3, DeactivateValidateStep
  <1>4. ASSUME NEW r \in Request, Handler(r) PROVE IInv'
    BY <1>4, UpgradeRemoteStep, UpgradeCommitStep, DeactivateRemoteStep,
       DeactivateCommitStep, ActivatedLoadUserStep, ActivatedSaveStep, ActivatedCommitStep,
       InactivatedSaveStep, InactivatedCommitStep, AcknowledgeStep DEF Handler
  <1>5. ASSUME NEW r \in Request, Deliver(r) PROVE IInv'
    BY <1>5, ActivatedLoadStep, InactivatedLoadStep DEF Deliver
  <1>6. ASSUME NEW r \in Request, InactivatedWithoutCycle(r) \/ Fail(r) PROVE IInv'
    BY <1>6, InactivatedWithoutCycleStep, FailStep
  <1>7. ASSUME NEW s \in Paid, XenditActivate(s) \/ XenditExpire(s) \/ XenditEnd(s) PROVE IInv'
    BY <1>7, XenditActivateStep, XenditExpireStep, XenditEndStep
  <1> QED
    BY <1>1, <1>2, <1>3, <1>4, <1>5, <1>6, <1>7 DEF Next

\* In every reachable state requests hold only what they loaded, reserved or created.
THEOREM Inductive == Spec => []IInv
  BY InitInv, NextInv, PTL DEF Spec

\* Every variable keeps its type, so that handlers never store anything but the statuses,
\* end reasons and references of the schema.
THEOREM TypeCorrect == Spec => []TypeOK
  <1>1. IInv => TypeOK
    BY DEF IInv
  <1> QED
    BY <1>1, Inductive, PTL

\* A user who is on the Free plan has a live Free subscription, whatever
\* handleRecurringActivated and handleRecurringInactivated read before they wrote.
THEOREM FreePlanIsLive == Spec => []FreeIsLive
  <1>1. IInv => FreeIsLive
    BY DEF IInv
  <1> QED
    BY <1>1, Inductive, PTL

\* No subscription becomes ACTIVE, or a user's active one, before Xendit has activated
\* that subscription's own plan.
THEOREM PaidAccessIsConfirmed == Spec => []PaidIsConfirmed
  <1>1. IInv => PaidIsConfirmed
    BY DEF IInv
  <1> QED
    BY <1>1, Inductive, PTL

\* Users hold only their own subscriptions, past PENDING, and a committed paid
\* subscription always has its plan at Xendit.
THEOREM HeldSubscriptionIsOwned == Spec => []HeldIsOwned
  <1>1. IInv => HeldIsOwned
    BY DEF IInv
  <1> QED
    BY <1>1, Inductive, PTL

-----------------------------------------------------------------------------
(* One request at a time *)

OneUpgrade(q) ==
    /\ OneUpgradeAtATime
    /\ q.pc \in Upgrading => Pending(q.snap.user) = {}

\* What a request is, and what its update leaves.
LEMMA RequestIs ==
    ASSUME IInv, NEW r \in Request
    PROVE  /\ req[r] \in RequestState /\ req[r].pc \in Phase /\ req[r].sub \in Sub \cup {NoSub}
           /\ req[r].snap \in Row /\ req[r].prev \in Sub \cup {NoSub}
           /\ req[r].hook \in Webhook \cup {NoSub}
           /\ \A x : [req EXCEPT ![r] = x][r] = x
  BY DEF IInv, TypeOK, RequestState

\* Only the commit of an upgrade makes a row PENDING, however many requests there are: what
\* the webhooks' handlers and the deactivation write is past it.
LEMMA OnlyUpgradesArePending ==
    ASSUME IInv, Next, \A r \in Request : ~UpgradeCommit(r), NEW s \in Paid, row'[s].status = "PENDING"
    PROVE  row[s] = row'[s]
  <1>1. ASSUME NEW u \in User, Register(u) \/ LinkGoogle(u) PROVE row[s] = row'[s]
    BY <1>1, SubscriptionsAssumption DEF Register, LinkGoogle, IInv, TypeOK, Sub
  <1>2. ASSUME NEW r \in Request, DeactivateCommit(r) PROVE row[s] = row'[s]
    <2>1. [req[r].snap EXCEPT !.status = "INACTIVE", !.endReason = "CANCELLED_BY_USER"].status = "INACTIVE"
      BY DEF IInv, TypeOK, RequestState, Row
    <2> QED
      BY <1>2, <2>1 DEF DeactivateCommit, IInv, TypeOK, Sub
  <1>3. ASSUME NEW r \in Request, ActivatedCommit(r) PROVE row[s] = row'[s]
    <2>1. req[r].snap.status = "ACTIVE"
      BY <1>3 DEF ActivatedCommit, IInv, PreviousIsOwned
    <2> QED
      BY <1>3, <2>1, SubscriptionsAssumption DEF ActivatedCommit, EndPreviousFree, IInv, TypeOK, Sub
  <1>4. ASSUME NEW r \in Request, InactivatedSave(r) PROVE row[s] = row'[s]
    BY <1>4, SubscriptionsAssumption DEF InactivatedSave, InactivatedSaveWith, IInv, TypeOK, Sub
  <1>5. ASSUME NEW r \in Request, InactivatedCommit(r) PROVE row[s] = row'[s]
    BY <1>5 DEF InactivatedCommit, IInv, TypeOK, FallbackIsReserved, Sub
  <1>6. ASSUME NEW r \in Request,
               UpgradeRemote(r) \/ DeactivateRemote(r) \/ ActivatedLoadUser(r) \/ ActivatedSave(r)
               \/ Acknowledge(r) \/ Deliver(r) \/ InactivatedWithoutCycle(r) \/ Fail(r)
        PROVE  row[s] = row'[s]
    BY <1>6 DEF UpgradeRemote, XenditCreate, DeactivateRemote, ActivatedLoadUser, ActivatedSave, Acknowledge,
       Deliver, ActivatedLoad, InactivatedLoad, InactivatedWithoutCycle, Fail
  <1>7. ASSUME NEW r \in Request, NEW u \in User, NEW t \in Sub, NEW p \in Plan,
               UpgradeValidate(r, u, t, p)
        PROVE  row[s] = row'[s]
    BY <1>7 DEF UpgradeValidate
  <1>8. ASSUME NEW r \in Request, NEW t \in Sub, DeactivateValidate(r, t) PROVE row[s] = row'[s]
    BY <1>8 DEF DeactivateValidate
  <1>9. ASSUME NEW t \in Paid, XenditActivate(t) \/ XenditExpire(t) \/ XenditEnd(t)
        PROVE  row[s] = row'[s]
    BY <1>9 DEF XenditActivate, XenditExpire, XenditEnd
  <1> QED
    BY <1>1, <1>2, <1>3, <1>4, <1>5, <1>6, <1>7, <1>8, <1>9 DEF Next, Handler

\* A request that is upgrading has just validated, or was upgrading before.
LEMMA WhoUpgrades ==
    ASSUME IInv, Next, NEW r, Request = {r}, req'[r].pc \in Upgrading
    PROVE  \/ req[r].pc \in Upgrading /\ req'[r].snap = req[r].snap
           \/ Pending(req'[r].snap.user) = {} /\ UNCHANGED row
  <1>1. ASSUME NEW u \in User, NEW s \in Sub, NEW p \in Plan, UpgradeValidate(r, u, s, p)
        PROVE  Pending(req'[r].snap.user) = {} /\ UNCHANGED row
    <2>1. PICK n \in Paid : req'[r] = [Idle EXCEPT !.pc = "upgrade", !.sub = n, !.snap = PendingRow(u, p)]
      BY <1>1, RequestIs DEF UpgradeValidate
    <2>2. req'[r].snap.user = u
      BY <2>1 DEF Idle, PendingRow
    <2> QED
      BY <1>1, <2>2 DEF UpgradeValidate, Upgradable
  <1>2. CASE UpgradeRemote(r)
    BY <1>2, RequestIs DEF UpgradeRemote, XenditCreate, RequestState, Upgrading, IInv, TypeOK
  <1>3. CASE UNCHANGED req
    BY <1>3
  <1>4. CASE UpgradeCommit(r) \/ DeactivateCommit(r) \/ Acknowledge(r) \/ InactivatedWithoutCycle(r) \/ Fail(r)
    BY <1>4, RequestIs DEF UpgradeCommit, DeactivateCommit, Acknowledge, InactivatedWithoutCycle, Fail,
       Idle, Upgrading
  <1>5. CASE ActivatedCommit(r) \/ InactivatedCommit(r)
    <2>1. req'[r] = Acknowledging(req[r].hook)
      BY <1>5, RequestIs DEF ActivatedCommit, InactivatedCommit
    <2> QED
      BY <2>1 DEF Acknowledging, Idle, Upgrading
  <1>6. CASE DeactivateRemote(r) \/ ActivatedLoadUser(r)
    <2>1. PICK n : \/ req'[r] = [req[r] EXCEPT !.pc = "deactivateCommit"]
                   \/ req'[r] = [req[r] EXCEPT !.pc = "activatedSave", !.prev = n]
      BY <1>6, RequestIs DEF DeactivateRemote, ActivatedLoadUser, IInv, TypeOK
    <2> QED
      BY <2>1, RequestIs DEF RequestState, Upgrading
  <1>7. CASE ActivatedSave(r)
    <2>1. PICK n : req'[r] = [req[r] EXCEPT !.pc = "activatedCommit", !.snap = n]
      BY <1>7, RequestIs DEF ActivatedSave
    <2> QED
      BY <2>1, RequestIs DEF RequestState, Upgrading
  <1>8. CASE InactivatedSave(r)
    BY <1>8, RequestIs DEF InactivatedSave, InactivatedSaveWith, RequestState, Upgrading, IInv, TypeOK
  <1>9. CASE Deliver(r)
    <2>1. PICK m \in hooks : ActivatedLoad(r, m) \/ InactivatedLoad(r, m)
      BY <1>9 DEF Deliver
    <2>2. CASE ActivatedLoad(r, m)
      <3>1. req'[r] = [Idle EXCEPT !.pc = "activated", !.hook = m, !.sub = m.sub, !.snap = row[m.sub]]
        BY <2>2, RequestIs DEF ActivatedLoad
      <3> QED
        BY <3>1 DEF Idle, Upgrading
    <2>3. CASE InactivatedLoad(r, m)
      <3>1. req'[r] = [Idle EXCEPT !.pc = "inactivated", !.hook = m, !.sub = m.sub,
                                   !.snap = row[m.sub], !.prev = active[row[m.sub].user]]
        BY <2>3, RequestIs DEF InactivatedLoad
      <3> QED
        BY <3>1 DEF Idle, Upgrading
    <2> QED
      BY <2>1, <2>2, <2>3
  <1>10. ASSUME NEW s \in Sub, DeactivateValidate(r, s) PROVE req'[r].pc \notin Upgrading
    BY <1>10, RequestIs DEF DeactivateValidate, Idle, Upgrading
  <1>11. ASSUME NEW u \in User, Register(u) \/ LinkGoogle(u) PROVE UNCHANGED req
    BY <1>11 DEF Register, LinkGoogle
  <1>12. ASSUME NEW s \in Paid, XenditActivate(s) \/ XenditExpire(s) \/ XenditEnd(s) PROVE UNCHANGED req
    BY <1>12 DEF XenditActivate, XenditExpire, XenditEnd
  <1> QED
    BY <1>1, <1>2, <1>3, <1>4, <1>5, <1>6, <1>8, <1>9, <1>10, <1>11, <1>12, <1>7 DEF Next, Handler

\* A user has one PENDING upgrade at most (upgradeSubscriptionPlan), in whatever order webhooks
\* come, with Google sign-in and failures, if only no two requests overlap.
THEOREM UpgradesOneByOne ==
    ASSUME NEW r, Request = {r}
    PROVE  Spec => []OneUpgradeAtATime
  <1>1. Init => OneUpgrade(req[r])
    BY DEF Init, OneUpgrade, OneUpgradeAtATime, Pending, NoRow, Idle, Upgrading, Sub
  <1>2. IInv /\ OneUpgrade(req[r]) /\ [Next]_vars => OneUpgrade(req[r])'
    <2> SUFFICES ASSUME IInv, OneUpgrade(req[r]), [Next]_vars PROVE OneUpgrade(req[r])'
      OBVIOUS
    <2>1. CASE UpgradeCommit(r)
      <3>1. req'[r] = Idle
        BY <2>1, RequestIs DEF UpgradeCommit
      <3>2. PICK t \in Paid, n \in Row : t = req[r].sub /\ n = req[r].snap
        BY <2>1, RequestIs DEF IInv, UpgradesAreReserved, Upgrading, UpgradeCommit
      <3>3. /\ row[t] = NoRow /\ n.status = "PENDING" /\ Pending(n.user) = {}
            /\ row'[t] = n /\ \A s \in Sub : s # t => row'[s] = row[s]
        BY <2>1, <3>2 DEF IInv, TypeOK, UpgradesAreReserved, Upgrading, UpgradeCommit, OneUpgrade, Sub
      <3>4. \A u \in User : Pending(u)' = IF u = n.user THEN Pending(u) \cup {t} ELSE Pending(u)
        BY <3>2, <3>3 DEF Pending, NoRow, Sub
      <3> QED
        BY <3>1, <3>3, <3>4 DEF OneUpgrade, OneUpgradeAtATime, Idle, Upgrading
    <2>2. CASE Next /\ ~UpgradeCommit(r)
      <3>1. \A u : Pending(u)' \subseteq Pending(u)
        BY <2>2, OnlyUpgradesArePending DEF Pending
      <3>2. (req[r].pc \in Upgrading => Pending(req[r].snap.user) = {})'
        BY <2>2, <3>1, WhoUpgrades DEF OneUpgrade, Pending
      <3> QED
        BY <3>1, <3>2 DEF OneUpgrade, OneUpgradeAtATime
    <2>3. CASE UNCHANGED vars
      BY <2>3 DEF vars, OneUpgrade, OneUpgradeAtATime, Pending
    <2> QED
      BY <2>1, <2>2, <2>3
  <1>3. OneUpgrade(req[r]) => OneUpgradeAtATime
    BY DEF OneUpgrade
  <1> QED
    BY <1>1, <1>2, <1>3, Inductive, PTL DEF Spec

-----------------------------------------------------------------------------
(* One request at a time, webhooks in order, no Google sign-in *)

InactivatedHook(s) == \E m \in hooks : m.event = "inactivated" /\ m.sub = s
Holds(s) == row[s].status = "ACTIVE" /\ active[row[s].user] = s
Over(s) == remote[s] = "inactive" /\ Activated(s) \notin hooks

\* What Xendit says of a plan is what its row says, or there is a webhook to come.
RemoteFits(s) ==
    /\ s \in confirmed => remote[s] \in {"active", "inactive"}
    /\ remote[s] = "active" => Activated(s) \in hooks \/ Holds(s)
    /\ remote[s] = "inactive" =>
        InactivatedHook(s) \/ (row[s].status = "INACTIVE" /\ Activated(s) \notin hooks)
    /\ InactivatedHook(s) => remote[s] = "inactive"

\* A reason that is not the user's own is the last word on a plan that is over.
ReasonFits(s) == row[s].endReason \notin {"none", "CANCELLED_BY_USER"} =>
    row[s].status = "INACTIVE" /\ Over(s)

\* What the only request has loaded is still there.
Loaded(q) ==
    /\ q.pc \in Upgrading => q.snap.endReason = "none"
    /\ q.pc \in {"deactivate", "deactivateCommit"} =>
        row[q.sub].endReason \in {"none", "CANCELLED_BY_USER"}
    /\ q.pc = "deactivateCommit" => remote[q.sub] = "inactive"
    /\ q.pc \in Activating =>
        /\ q.hook = Activated(q.sub) /\ q.hook \in hooks
        /\ q.snap.endReason = row[q.sub].endReason
    /\ q.pc \in {"activatedSave", "activatedCommit"} => q.prev = active[q.snap.user]
    /\ q.pc = "activatedCommit" /\ q.prev \in Paid => remote[q.prev] = "inactive"
    /\ q.pc \in {"inactivated", "inactivatedCommit"} =>
        q.hook \in Webhook /\ q.hook.event = "inactivated" /\ q.hook.sub = q.sub /\ Over(q.sub)
    /\ q.pc = "inactivated" => q.snap = row[q.sub] /\ q.prev = active[q.snap.user]
    /\ q.pc = "inactivatedCommit" =>
        /\ row[q.sub].endReason # "none" => q.snap.endReason = row[q.sub].endReason
        /\ q.prev # NoSub => active[q.snap.user] = q.sub
    /\ q.pc = "acknowledge" =>
        /\ q.hook \in Webhook
        /\ \/ q.hook = Activated(q.hook.sub) /\ Holds(q.hook.sub)
           \/ q.hook.event = "inactivated" /\ row[q.hook.sub].status = "INACTIVE" /\ Over(q.hook.sub)

\* A Free row that nobody is on ended, unless it is a fallback that failed (S).
FreeFits(q, f, S) == row[f].status = "ACTIVE" =>
    /\ row[f].endReason = "none"
    /\ f \in S \/ Holds(f) \/ (q.pc = "inactivatedCommit" /\ q.prev = f)

HooksFit == \A m \in hooks : m.event = "activated" => m = Activated(m.sub)

SInv(r, S) ==
    /\ HooksFit
    /\ \A s \in Paid : RemoteFits(s) /\ ReasonFits(s)
    /\ Loaded(req[r])
    /\ \A f \in FreeSub : FreeFits(req[r], f, S)

\* The two webhooks, and their fields.
LEMMA HookIs ==
    ASSUME NEW s \in Paid, NEW f \in Failure
    PROVE  /\ Activated(s) \in Webhook /\ Inactivated(s, f) \in Webhook
           /\ Activated(s).event = "activated" /\ Activated(s).sub = s
           /\ Inactivated(s, f).event = "inactivated" /\ Inactivated(s, f).sub = s
  BY DEF Activated, Inactivated, Webhook, Failure

\* A step that only reads.
LEMMA Reads ==
    ASSUME NEW r, NEW S, Request = {r}, SInv(r, S),
           UNCHANGED <<row, active, remote, confirmed, hooks>>,
           Loaded(req[r])', req[r].pc # "inactivatedCommit"
    PROVE  SInv(r, S)'
  <1>1. HooksFit' /\ \A s \in Paid : RemoteFits(s)' /\ ReasonFits(s)'
    BY DEF SInv, HooksFit, RemoteFits, ReasonFits, InactivatedHook, Holds, Over
  <1>2. \A f \in FreeSub : FreeFits(req[r], f, S)'
    BY DEF SInv, FreeFits, Holds
  <1> QED
    BY <1>1, <1>2 DEF SInv

\* The handlers' first steps: what they load is there.
LEMMA UpgradeValidateAlone ==
    ASSUME IInv, NEW r, NEW S, Request = {r}, SInv(r, S), NEW u \in User, NEW s \in Sub, NEW p \in Plan,
           UpgradeValidate(r, u, s, p)
    PROVE  SInv(r, S)'
  <1>1. PICK n \in Paid : req'[r] = [Idle EXCEPT !.pc = "upgrade", !.sub = n, !.snap = PendingRow(u, p)]
    BY RequestIs DEF UpgradeValidate
  <1>2. req'[r].pc = "upgrade" /\ req'[r].snap = PendingRow(u, p)
    BY <1>1 DEF Idle
  <1>3. Loaded(req[r])'
    BY <1>2 DEF Loaded, Activating, PendingRow
  <1> QED
    BY <1>3, Reads DEF UpgradeValidate

LEMMA DeactivateValidateAlone ==
    ASSUME IInv, NEW r, NEW S, Request = {r}, SInv(r, S), NEW s \in Sub, DeactivateValidate(r, s)
    PROVE  SInv(r, S)'
  <1>1. req'[r] = [Idle EXCEPT !.pc = "deactivate", !.sub = s, !.snap = row[s]]
    BY RequestIs DEF DeactivateValidate
  <1>2. req'[r].pc = "deactivate" /\ req'[r].sub = s /\ s \in Paid
    BY <1>1 DEF Idle, DeactivateValidate
  <1>3. row[s].endReason \in {"none", "CANCELLED_BY_USER"} /\ row' = row
    BY <1>2 DEF SInv, ReasonFits, DeactivateValidate
  <1>4. Loaded(req[r])'
    BY <1>2, <1>3 DEF Loaded, Activating, Upgrading
  <1> QED
    BY <1>2, <1>4, Reads DEF DeactivateValidate, Upgrading

LEMMA ActivatedLoadAlone ==
    ASSUME IInv, NEW r, NEW S, Request = {r}, SInv(r, S), NEW m \in hooks, ActivatedLoad(r, m)
    PROVE  SInv(r, S)'
  <1>1. req'[r] = [Idle EXCEPT !.pc = "activated", !.hook = m, !.sub = m.sub, !.snap = row[m.sub]]
    BY RequestIs DEF ActivatedLoad
  <1>2. /\ req'[r].pc = "activated" /\ req'[r].sub = m.sub /\ req'[r].hook = m
        /\ req'[r].snap = row[m.sub]
    BY <1>1 DEF Idle
  <1>3. m = Activated(m.sub)
    BY DEF SInv, HooksFit, ActivatedLoad
  <1>4. Loaded(req[r])'
    BY <1>2, <1>3 DEF Loaded, Activating, Upgrading, ActivatedLoad
  <1> QED
    BY <1>2, <1>4, Reads DEF ActivatedLoad, Upgrading

LEMMA ActivatedLoadUserAlone ==
    ASSUME IInv, NEW r, NEW S, Request = {r}, SInv(r, S), ActivatedLoadUser(r)
    PROVE  SInv(r, S)'
  <1>1. req'[r] = [req[r] EXCEPT !.pc = "activatedSave", !.prev = active[req[r].snap.user]]
    BY RequestIs DEF ActivatedLoadUser, IInv, TypeOK
  <1>2. /\ req'[r].pc = "activatedSave" /\ req'[r].sub = req[r].sub /\ req'[r].hook = req[r].hook
        /\ req'[r].snap = req[r].snap /\ req'[r].prev = active[req[r].snap.user]
    BY <1>1, RequestIs DEF RequestState
  <1>3. Loaded(req[r])'
    BY <1>2 DEF SInv, Loaded, Activating, Upgrading, ActivatedLoadUser
  <1> QED
    BY <1>2, <1>3, Reads DEF ActivatedLoadUser, Upgrading

LEMMA InactivatedLoadAlone ==
    ASSUME IInv, NEW r, NEW S, Request = {r}, InOrder, SInv(r, S), NEW m \in hooks, InactivatedLoad(r, m)
    PROVE  SInv(r, S)'
  <1>1. req'[r] = [Idle EXCEPT !.pc = "inactivated", !.hook = m, !.sub = m.sub, !.snap = row[m.sub],
                               !.prev = active[row[m.sub].user]]
    BY RequestIs DEF InactivatedLoad
  <1>2. /\ req'[r].pc = "inactivated" /\ req'[r].sub = m.sub /\ req'[r].hook = m
        /\ req'[r].snap = row[m.sub] /\ req'[r].prev = active[row[m.sub].user]
    BY <1>1 DEF Idle
  <1>3. m \in Webhook /\ m.sub \in Paid /\ m.event = "inactivated"
    BY DEF IInv, TypeOK, Webhook, InactivatedLoad
  <1>4. Over(m.sub)
    BY <1>3 DEF SInv, RemoteFits, InactivatedHook, InactivatedLoad, Deliverable, Over
  <1>5. Over(m.sub)'
    BY <1>4 DEF InactivatedLoad, Over
  <1>6. Loaded(req[r])'
    BY <1>2, <1>3, <1>5 DEF Loaded, Activating, Upgrading, InactivatedLoad
  <1> QED
    BY <1>2, <1>6, Reads DEF InactivatedLoad, Upgrading

\* A request that stops: its fallback, if it has made one, is left.
LEMMA InactivatedWithoutCycleAlone ==
    ASSUME IInv, NEW r, NEW S, Request = {r}, SInv(r, S), InactivatedWithoutCycle(r)
    PROVE  SInv(r, S)'
  <1>1. req'[r] = Idle
    BY RequestIs DEF InactivatedWithoutCycle
  <1>2. Loaded(req[r])'
    BY <1>1 DEF Loaded, Activating, Upgrading, Idle
  <1> QED
    BY <1>2, Reads DEF InactivatedWithoutCycle

LEMMA FailAlone ==
    ASSUME IInv, NEW r, NEW S, NEW T, Request = {r}, SInv(r, S), Fail(r),
           S \subseteq T, req[r].prev \in FreeSub => req[r].prev \in T
    PROVE  SInv(r, T)'
  <1>1. req'[r] = Idle /\ UNCHANGED <<row, active, remote, confirmed, hooks>>
    BY RequestIs DEF Fail
  <1>2. Loaded(req[r])'
    BY <1>1 DEF Loaded, Activating, Upgrading, Idle
  <1>3. HooksFit' /\ \A s \in Paid : RemoteFits(s)' /\ ReasonFits(s)'
    BY <1>1 DEF SInv, HooksFit, RemoteFits, ReasonFits, InactivatedHook, Holds, Over
  <1>4. \A f \in FreeSub : FreeFits(req[r], f, T)'
    BY <1>1 DEF SInv, FreeFits, Holds
  <1> QED
    BY <1>2, <1>3, <1>4 DEF SInv

\* The steps that write, here or at Xendit.
LEMMA UpgradeRemoteAlone ==
    ASSUME IInv, NEW r, NEW S, Request = {r}, SInv(r, S), UpgradeRemote(r)
    PROVE  SInv(r, S)'
  <1>1. req'[r] = [req[r] EXCEPT !.pc = "upgradeCommit"]
    BY RequestIs DEF UpgradeRemote, XenditCreate, IInv, TypeOK
  <1>2. req'[r].pc = "upgradeCommit" /\ req'[r].snap = req[r].snap
    BY <1>1, RequestIs DEF RequestState
  <1>3. /\ req[r].sub \in Paid /\ row[req[r].sub] = NoRow /\ remote[req[r].sub] = "none"
        /\ \A s \in Paid : s # req[r].sub => remote'[s] = remote[s]
        /\ remote'[req[r].sub] = "pending"
    BY DEF IInv, TypeOK, UpgradesAreReserved, Upgrading, UpgradeRemote, XenditCreate
  <1>4. ASSUME NEW s \in Paid PROVE RemoteFits(s)' /\ ReasonFits(s)'
    BY <1>3 DEF SInv, RemoteFits, ReasonFits, InactivatedHook, Holds, Over, UpgradeRemote, XenditCreate, NoRow
  <1>5. HooksFit' /\ Loaded(req[r])'
    BY <1>2 DEF SInv, HooksFit, Loaded, UpgradeRemote, XenditCreate, Activating, Upgrading
  <1>6. \A f \in FreeSub : FreeFits(req[r], f, S)'
    BY DEF SInv, FreeFits, Holds, UpgradeRemote, XenditCreate
  <1> QED
    BY <1>4, <1>5, <1>6 DEF SInv

LEMMA UpgradeCommitAlone ==
    ASSUME IInv, NEW r, NEW S, Request = {r}, SInv(r, S), UpgradeCommit(r)
    PROVE  SInv(r, S)'
  <1>1. req'[r] = Idle /\ UNCHANGED <<active, remote, hooks, confirmed, faults>>
    BY RequestIs DEF UpgradeCommit
  <1>2. PICK t \in Paid : t = req[r].sub
    BY DEF IInv, UpgradesAreReserved, Upgrading, UpgradeCommit
  <1>3. PICK n : n = req[r].snap
    OBVIOUS
  <1>4. /\ row[t] = NoRow /\ n.status = "PENDING" /\ n.endReason = "none"
        /\ row'[t] = n /\ \A s \in Sub : s # t => row'[s] = row[s]
    BY <1>2, <1>3 DEF IInv, TypeOK, UpgradesAreReserved, Upgrading, UpgradeCommit, SInv, Loaded, Sub
  <1>5. ASSUME NEW s \in Paid PROVE RemoteFits(s)' /\ ReasonFits(s)'
    BY <1>1, <1>4 DEF SInv, RemoteFits, ReasonFits, InactivatedHook, Holds, Over, NoRow, Sub
  <1>6. HooksFit' /\ Loaded(req[r])'
    BY <1>1 DEF SInv, HooksFit, Loaded, Idle, Activating, Upgrading
  <1>7. \A f \in FreeSub : FreeFits(req[r], f, S)'
    BY <1>1, <1>4, SubscriptionsAssumption DEF SInv, FreeFits, Holds, Sub, UpgradeCommit
  <1> QED
    BY <1>5, <1>6, <1>7 DEF SInv

\* A plan that is stopped at Xendit.
LEMMA StoppedFits ==
    ASSUME IInv, NEW r, NEW S, SInv(r, S), NEW t \in Paid, remote[t] # "none", XenditDeactivate(t), UNCHANGED <<row, active>>
    PROVE  /\ HooksFit' /\ \A s \in Paid : RemoteFits(s)' /\ ReasonFits(s)'
           /\ remote'[t] = "inactive" /\ \A s \in Paid : remote[s] = "inactive" => remote'[s] = "inactive"
           /\ hooks \subseteq hooks' /\ \A s \in Paid : Over(s) => Over(s)'
  <1>1. /\ remote'[t] = "inactive" /\ \A s \in Paid : s # t => remote'[s] = remote[s]
        /\ remote[t] \in {"pending", "active", "inactive"} /\ confirmed' = confirmed
        /\ \/ hooks' = hooks \cup {Inactivated(t, "none")}
           \/ remote[t] = "inactive" /\ hooks' = hooks
    BY DEF IInv, TypeOK, XenditDeactivate
  <1>2. "none" \in Failure
    BY DEF Failure
  <1>3. \A s \in Paid : Activated(s) \in hooks' <=> Activated(s) \in hooks
    BY <1>1, <1>2, HookIs
  <1>4. HooksFit'
    BY <1>1, <1>2, HookIs DEF SInv, HooksFit
  <1>5. ASSUME NEW s \in Paid PROVE RemoteFits(s)' /\ ReasonFits(s)'
    <2>1. InactivatedHook(s)' <=> InactivatedHook(s) \/ (s = t /\ remote[t] # "inactive")
                                  \/ (s = t /\ hooks' # hooks)
      BY <1>1, <1>2, HookIs DEF InactivatedHook
    <2> QED
      BY <1>1, <1>3, <2>1 DEF SInv, RemoteFits, ReasonFits, Holds, Over
  <1> QED
    BY <1>1, <1>3, <1>4, <1>5 DEF Over

LEMMA DeactivateRemoteAlone ==
    ASSUME IInv, NEW r, NEW S, Request = {r}, SInv(r, S), DeactivateRemote(r)
    PROVE  SInv(r, S)'
  <1>1. req'[r] = [req[r] EXCEPT !.pc = "deactivateCommit"]
    BY RequestIs DEF DeactivateRemote, IInv, TypeOK
  <1>2. req'[r].pc = "deactivateCommit" /\ req'[r].sub = req[r].sub
    BY <1>1, RequestIs DEF RequestState
  <1>3. /\ req[r].sub \in Paid /\ remote[req[r].sub] # "none"
    BY DEF IInv, HandledRowsExist, RowsAreOwned, HeldIsOwned, Handling, DeactivateRemote, Sub
  <1>4. HooksFit' /\ (\A s \in Paid : RemoteFits(s)' /\ ReasonFits(s)') /\ remote'[req[r].sub] = "inactive"
    BY <1>3, StoppedFits DEF DeactivateRemote
  <1>5. Loaded(req[r])'
    BY <1>2, <1>4 DEF SInv, Loaded, DeactivateRemote, Activating, Upgrading
  <1>6. \A f \in FreeSub : FreeFits(req[r], f, S)'
    BY DEF SInv, FreeFits, Holds, DeactivateRemote
  <1> QED
    BY <1>4, <1>5, <1>6 DEF SInv

LEMMA DeactivateCommitAlone ==
    ASSUME IInv, NEW r, NEW S, Request = {r}, SInv(r, S), DeactivateCommit(r)
    PROVE  SInv(r, S)'
  <1>1. req'[r] = Idle /\ UNCHANGED <<active, remote, hooks, confirmed, faults>>
    BY RequestIs DEF DeactivateCommit
  <1>2. PICK t \in Paid : t = req[r].sub
    BY DEF IInv, HandledRowsExist, Handling, DeactivateCommit
  <1>3. /\ row'[t].status = "INACTIVE" /\ row'[t].endReason = "CANCELLED_BY_USER"
        /\ \A s \in Sub : s # t => row'[s] = row[s]
    BY <1>2, RequestIs DEF IInv, TypeOK, DeactivateCommit, Row, Sub
  <1>4. remote[t] = "inactive"
    BY <1>2 DEF SInv, Loaded, DeactivateCommit
  <1>5. ASSUME NEW s \in Paid PROVE RemoteFits(s)' /\ ReasonFits(s)'
    BY <1>1, <1>3, <1>4 DEF SInv, RemoteFits, ReasonFits, InactivatedHook, Holds, Over, Sub
  <1>6. HooksFit' /\ Loaded(req[r])'
    BY <1>1 DEF SInv, HooksFit, Loaded, Idle, Activating, Upgrading
  <1>7. \A f \in FreeSub : FreeFits(req[r], f, S)'
    BY <1>1, <1>3, SubscriptionsAssumption DEF SInv, FreeFits, Holds, Sub, DeactivateCommit
  <1> QED
    BY <1>5, <1>6, <1>7 DEF SInv

LEMMA ActivatedSaveAlone ==
    ASSUME IInv, NEW r, NEW S, Request = {r}, SInv(r, S), ActivatedSave(r)
    PROVE  SInv(r, S)'
  <1>7. PICK n : n = [req[r].snap EXCEPT !.status = "ACTIVE", !.payment = "PAID"]
    OBVIOUS
  <1>8. n.user = req[r].snap.user /\ n.endReason = req[r].snap.endReason
    BY <1>7, RequestIs DEF Row
  <1>1. req'[r] = [req[r] EXCEPT !.pc = "activatedCommit", !.snap = n]
    BY <1>7, RequestIs DEF ActivatedSave
  <1>2. /\ req'[r].pc = "activatedCommit" /\ req'[r].sub = req[r].sub /\ req'[r].hook = req[r].hook
        /\ req'[r].snap.user = req[r].snap.user /\ req'[r].snap.endReason = req[r].snap.endReason
        /\ req'[r].prev = req[r].prev
    BY <1>1, <1>8, RequestIs DEF RequestState
  <1>3. UNCHANGED <<row, active, faults>> /\ req[r].pc = "activatedSave"
    BY DEF ActivatedSave
  <1>4. /\ HooksFit' /\ \A s \in Paid : RemoteFits(s)' /\ ReasonFits(s)'
        /\ hooks \subseteq hooks' /\ (req[r].prev \in Paid => remote'[req[r].prev] = "inactive")
    <2>1. CASE req[r].prev \in Paid /\ XenditDeactivate(req[r].prev)
      <3>1. req[r].prev = active[req[r].snap.user] /\ req[r].snap.user \in User /\ req[r].prev # NoSub
        BY <1>3, <2>1, SubscriptionsAssumption DEF SInv, Loaded, IInv, HandledRowsExist, Handling, Activating,
           RowsAreOwned, Sub
      <3>2. remote[req[r].prev] # "none"
        BY <2>1, <3>1 DEF IInv, HeldIsOwned
      <3> QED
        BY <1>3, <2>1, <3>2, StoppedFits
    <2>2. CASE req[r].prev \in FreeSub /\ UNCHANGED xendit
      <3>1. req[r].prev \notin Paid
        BY <2>2, SubscriptionsAssumption
      <3> QED
        BY <1>3, <2>2, <3>1 DEF SInv, HooksFit, RemoteFits, ReasonFits, InactivatedHook, Holds, Over, xendit
    <2> QED
      BY <2>1, <2>2 DEF ActivatedSave
  <1>5. Loaded(req[r])'
    BY <1>2, <1>3, <1>4 DEF SInv, Loaded, Activating, Upgrading
  <1>6. \A f \in FreeSub : FreeFits(req[r], f, S)'
    BY <1>3 DEF SInv, FreeFits, Holds
  <1> QED
    BY <1>4, <1>5, <1>6 DEF SInv

\* The activated row is held in the same step; the plan its user was on is stopped or ended.
LEMMA ActivatedCommitAlone ==
    ASSUME IInv, NEW r, NEW S, Request = {r}, SInv(r, S), ActivatedCommit(r)
    PROVE  SInv(r, S)'
  <1>1. PICK t \in Paid : t = req[r].sub
    BY DEF IInv, HandledRowsExist, Handling, Activating, ActivatedCommit
  <1>2. PICK n \in Row : n = req[r].snap
    BY RequestIs
  <1>3. PICK p \in Sub : p = req[r].prev
    BY DEF IInv, PreviousIsOwned, ActivatedCommit
  <1>4. req'[r] = Acknowledging(req[r].hook) /\ UNCHANGED <<remote, hooks, confirmed, faults>>
    BY RequestIs DEF ActivatedCommit
  <1>5. req'[r].pc = "acknowledge" /\ req'[r].hook = req[r].hook
    BY <1>4 DEF Acknowledging, Idle
  <1>6. /\ n.status = "ACTIVE" /\ n.user \in User /\ p = active[n.user] /\ (p \in Paid => remote[p] = "inactive")
        /\ req[r].hook = Activated(t) /\ Activated(t) \in hooks /\ n.endReason = row[t].endReason
        /\ n.user = row[t].user
    BY <1>1, <1>2, <1>3 DEF IInv, PreviousIsOwned, HandledRowsExist, RowsAreOwned, Handling, Activating, SInv, Loaded,
       ActivatedCommit, Sub
  <1>7. /\ row'[t] = n
        /\ \A s \in Sub : s # t /\ (s = p => s \in Paid) => row'[s] = row[s]
        /\ p \in FreeSub => row'[p].status = "INACTIVE"
        /\ active' = [active EXCEPT ![n.user] = t]
    <2>1. PICK rows \in [Sub -> Row] : rows = [row EXCEPT ![t] = n]
      BY <1>1, <1>2 DEF IInv, TypeOK
    <2>2. PICK ended : ended = [rows[p] EXCEPT !.status = "INACTIVE", !.endReason = "UPGRADED"]
      OBVIOUS
    <2>3. row' = IF p \in FreeSub THEN [rows EXCEPT ![p] = ended] ELSE rows
      BY <1>1, <1>2, <1>3, <2>1, <2>2 DEF ActivatedCommit, EndPreviousFree
    <2>4. rows[t] = n /\ \A s \in Sub : s # t => rows[s] = row[s]
      BY <2>1 DEF IInv, TypeOK, Sub
    <2>5. ended.status = "INACTIVE" /\ (p \in FreeSub => p # t)
      BY <2>1, <2>2, SubscriptionsAssumption DEF Row
    <2>6. active' = [active EXCEPT ![n.user] = t]
      BY <1>1, <1>2 DEF ActivatedCommit
    <2>7. CASE p \in FreeSub
      BY <2>1, <2>3, <2>4, <2>5, <2>6, <2>7, SubscriptionsAssumption DEF Sub
    <2>8. CASE p \notin FreeSub
      BY <2>3, <2>4, <2>6, <2>8
    <2> QED
      BY <2>7, <2>8
  <1>8. active \in [User -> Sub \cup {NoSub}] /\ \A s \in Sub : row[s] = NoRow \/ row[s].user \in User
    BY DEF IInv, TypeOK, RowsAreOwned
  <1>9. Holds(t)'
    BY <1>6, <1>7, <1>8 DEF Holds
  <1>10. ASSUME NEW s \in Sub, s # t, s # p, Holds(s) PROVE Holds(s)'
    BY <1>6, <1>7, <1>8, <1>10 DEF Holds, NoRow
  <1>11. ASSUME NEW s \in Paid PROVE RemoteFits(s)' /\ ReasonFits(s)'
    <2>1. CASE s = t
      BY <1>4, <1>6, <1>7, <1>9, <2>1 DEF SInv, RemoteFits, ReasonFits, InactivatedHook, Over
    <2>2. CASE s # t
      <3>1. row'[s] = row[s] /\ (s # p \/ remote[s] = "inactive")
        BY <1>6, <1>7, <2>2 DEF Sub
      <3> QED
        BY <1>4, <1>10, <2>2, <3>1 DEF SInv, RemoteFits, ReasonFits, InactivatedHook, Over, Sub
    <2> QED
      BY <2>1, <2>2
  <1>12. HooksFit' /\ Loaded(req[r])'
    <2>1. Activated(t) \in Webhook /\ Activated(t).sub = t
      BY <1>6, HookIs DEF IInv, TypeOK, Failure
    <2> QED
      BY <1>4, <1>5, <1>6, <1>9, <2>1 DEF SInv, HooksFit, Loaded, Activating, Upgrading
  <1>13. ASSUME NEW f \in FreeSub PROVE FreeFits(req[r], f, S)'
    <2>1. CASE f = p
      BY <1>7, <2>1 DEF FreeFits
    <2>2. CASE f # p
      <3>1. f # t /\ f \in Sub /\ row'[f] = row[f]
        BY <1>7, <2>2, SubscriptionsAssumption DEF Sub
      <3> QED
        BY <1>4, <1>10, <2>2, <3>1 DEF SInv, FreeFits, ActivatedCommit
    <2> QED
      BY <2>1, <2>2
  <1> QED
    BY <1>11, <1>12, <1>13 DEF SInv

\* A webhook goes once the row says what it said.
LEMMA AcknowledgeAlone ==
    ASSUME IInv, NEW r, NEW S, Request = {r}, SInv(r, S), Acknowledge(r)
    PROVE  SInv(r, S)'
  <1>1. req'[r] = Idle /\ UNCHANGED <<row, active, remote, confirmed, faults>>
    BY RequestIs DEF Acknowledge
  <1>2. PICK m \in Webhook : m = req[r].hook
    BY DEF SInv, Loaded, Acknowledge
  <1>3. /\ hooks' = hooks \ {m} /\ m.sub \in Paid
        /\ \/ m = Activated(m.sub) /\ Holds(m.sub) /\ m.event = "activated"
           \/ m.event = "inactivated" /\ row[m.sub].status = "INACTIVE" /\ Over(m.sub)
    BY <1>2 DEF SInv, Loaded, Acknowledge, Webhook, Activated
  <1>4. ASSUME NEW s \in Paid PROVE RemoteFits(s)' /\ ReasonFits(s)'
    <2>1. CASE m.event = "activated"
      <3>1. Activated(s) \in hooks' <=> Activated(s) \in hooks /\ s # m.sub
        BY <1>3, <2>1 DEF Activated
      <3>2. InactivatedHook(s)' <=> InactivatedHook(s)
        BY <1>3, <2>1 DEF InactivatedHook
      <3>3. Holds(s)' <=> Holds(s)
        BY <1>1 DEF Holds
      <3> QED
        BY <1>1, <1>3, <2>1, <3>1, <3>2, <3>3 DEF SInv, RemoteFits, ReasonFits, Over
    <2>2. CASE m.event = "inactivated"
      <3>1. Activated(s) \in hooks' <=> Activated(s) \in hooks
        BY <1>3, <2>2 DEF Activated
      <3>2. (InactivatedHook(s)' => InactivatedHook(s)) /\ (InactivatedHook(s) => InactivatedHook(s)' \/ s = m.sub)
        BY <1>3, <2>2 DEF InactivatedHook
      <3>3. Holds(s)' <=> Holds(s)
        BY <1>1 DEF Holds
      <3> QED
        BY <1>1, <1>3, <2>2, <3>1, <3>2, <3>3 DEF SInv, RemoteFits, ReasonFits, Over
    <2> QED
      BY <1>3, <2>1, <2>2
  <1>5. HooksFit' /\ Loaded(req[r])'
    BY <1>1, <1>3 DEF SInv, HooksFit, Loaded, Idle, Activating, Upgrading
  <1>6. \A f \in FreeSub : FreeFits(req[r], f, S)'
    BY <1>1 DEF SInv, FreeFits, Holds, Acknowledge
  <1> QED
    BY <1>4, <1>5, <1>6 DEF SInv

\* A reason that is there is kept, and the fallback is the request's own.
LEMMA InactivatedSaveAlone ==
    ASSUME IInv, NEW r, NEW S, Request = {r}, SInv(r, S), InactivatedSave(r)
    PROVE  SInv(r, S)'
  <1>1. PICK paid \in BOOLEAN, f \in FreeSub : InactivatedSaveWith(r, paid, f)
    BY DEF InactivatedSave
  <1>2. PICK reason : reason = InactiveReason(req[r].snap, req[r].hook, paid)
    OBVIOUS
  <1>3. PICK n : n = [req[r].snap EXCEPT !.status = "INACTIVE", !.endReason = reason]
    OBVIOUS
  <1>4. PICK fallback \in BOOLEAN : fallback <=> req[r].prev = req[r].sub
    OBVIOUS
  <1>5. req'[r] = [req[r] EXCEPT !.pc = "inactivatedCommit", !.snap = n, !.prev = IF fallback THEN f ELSE NoSub]
    BY <1>1, <1>2, <1>3, <1>4, RequestIs DEF InactivatedSaveWith
  <1>6. n.user = req[r].snap.user /\ n.endReason = reason
    BY <1>3, RequestIs DEF Row
  <1>7. /\ req'[r].pc = "inactivatedCommit" /\ req'[r].snap = n /\ req'[r].sub = req[r].sub
        /\ req'[r].hook = req[r].hook
        /\ fallback => req'[r].prev = f
        /\ ~fallback => req'[r].prev = NoSub
    BY <1>5, RequestIs DEF RequestState
  <1>8. /\ fallback => Unused(f) /\ row' = [row EXCEPT ![f] = FreeRow(req[r].snap.user)]
        /\ ~fallback => row' = row
        /\ UNCHANGED <<active, remote, confirmed, hooks, faults>> /\ req[r].pc = "inactivated"
    BY <1>1, <1>4 DEF InactivatedSave, InactivatedSaveWith
  <1>9. PICK t \in Paid : t = req[r].sub
    BY <1>8 DEF IInv, HandledRowsExist, Handling
  <1>10. /\ \A s \in Paid : row'[s] = row[s]
         /\ \A g \in FreeSub : g # f \/ ~fallback => row'[g] = row[g]
         /\ fallback => row'[f] = FreeRow(req[r].snap.user)
    BY <1>8, SubscriptionsAssumption DEF IInv, TypeOK, Sub
  <1>11. \A s \in Paid : RemoteFits(s)' /\ ReasonFits(s)'
    BY <1>8, <1>10 DEF SInv, RemoteFits, ReasonFits, InactivatedHook, Holds, Over
  <1>12. HooksFit' /\ Loaded(req[r])'
    <2>1. /\ req[r].snap = row[t] /\ req[r].prev = active[req[r].snap.user]
          /\ req[r].hook \in Webhook /\ req[r].hook.event = "inactivated" /\ req[r].hook.sub = t /\ Over(t)
      BY <1>8, <1>9 DEF SInv, Loaded
    <2>2. row[t].endReason # "none" => n.endReason = row[t].endReason
      BY <1>2, <1>6, <2>1 DEF InactiveReason
    <2>3. fallback => active[n.user] = t
      BY <1>4, <1>6, <1>9, <2>1
    <2> QED
      BY <1>6, <1>7, <1>8, <1>9, <1>10, <2>1, <2>2, <2>3 DEF SInv, HooksFit, Loaded, Over, Activating, Upgrading
  <1>13. ASSUME NEW g \in FreeSub PROVE FreeFits(req[r], g, S)'
    <2>1. CASE g = f /\ fallback
      BY <1>7, <1>10, <2>1 DEF FreeFits, FreeRow, NoRow
    <2>2. CASE ~(g = f /\ fallback)
      BY <1>8, <1>10, <2>2 DEF SInv, FreeFits, Holds
    <2> QED
      BY <2>1, <2>2
  <1> QED
    BY <1>11, <1>12, <1>13 DEF SInv

\* Only who was on the plan that ends moves to the fallback.
LEMMA InactivatedCommitAlone ==
    ASSUME IInv, NEW r, NEW S, Request = {r}, SInv(r, S), InactivatedCommit(r)
    PROVE  SInv(r, S)'
  <1>1. PICK t \in Paid : t = req[r].sub
    BY DEF IInv, HandledRowsExist, Handling, InactivatedCommit
  <1>2. PICK n \in Row : n = req[r].snap
    BY RequestIs
  <1>3. PICK p \in Sub \cup {NoSub} : p = req[r].prev
    BY RequestIs
  <1>4. req'[r] = Acknowledging(req[r].hook) /\ UNCHANGED <<remote, hooks, confirmed, faults>>
        /\ req[r].pc = "inactivatedCommit"
    BY RequestIs DEF InactivatedCommit
  <1>5. req'[r].pc = "acknowledge" /\ req'[r].hook = req[r].hook
    BY <1>4 DEF Acknowledging, Idle
  <1>6. /\ n.status = "INACTIVE" /\ n.user \in User /\ n.user = row[t].user
        /\ req[r].hook \in Webhook /\ req[r].hook.event = "inactivated" /\ req[r].hook.sub = t /\ Over(t)
        /\ p # NoSub => p \in FreeSub /\ row[p].status = "ACTIVE" /\ row[p].user = n.user /\ active[n.user] = t
    BY <1>1, <1>2, <1>3, <1>4 DEF IInv, FallbackIsReserved, HandledRowsExist, RowsAreOwned, Handling, SInv, Loaded, Sub
  <1>7. /\ row'[t] = n /\ \A s \in Sub : s # t => row'[s] = row[s]
        /\ p = NoSub => active' = active
        /\ p # NoSub => active' = [active EXCEPT ![n.user] = p]
    BY <1>1, <1>2, <1>3 DEF IInv, TypeOK, InactivatedCommit, Sub
  <1>8. active \in [User -> Sub \cup {NoSub}]
    BY DEF IInv, TypeOK
  <1>9. ASSUME NEW s \in Sub, s # t, Holds(s) PROVE Holds(s)'
    BY <1>6, <1>7, <1>8, <1>9 DEF Holds, IInv, RowsAreOwned, NoRow
  <1>10. ASSUME NEW s \in Paid PROVE RemoteFits(s)' /\ ReasonFits(s)'
    <2>1. CASE s = t
      BY <1>4, <1>6, <1>7, <2>1 DEF SInv, RemoteFits, ReasonFits, InactivatedHook, Over
    <2>2. CASE s # t
      BY <1>4, <1>7, <1>9, <2>2 DEF SInv, RemoteFits, ReasonFits, InactivatedHook, Over, Sub
    <2> QED
      BY <2>1, <2>2
  <1>11. HooksFit' /\ Loaded(req[r])'
    BY <1>4, <1>5, <1>6, <1>7 DEF SInv, HooksFit, Loaded, Over, Activating, Upgrading
  <1>12. ASSUME NEW f \in FreeSub PROVE FreeFits(req[r], f, S)'
    <2>1. f # t /\ f \in Sub /\ row'[f] = row[f] /\ f # NoSub
      BY <1>7, SubscriptionsAssumption DEF Sub
    <2>2. f = p => Holds(f) \/ Holds(f)'
      BY <1>6, <1>7, <1>8, <2>1 DEF Holds
    <2> QED
      BY <1>3, <1>4, <1>9, <2>1, <2>2 DEF SInv, FreeFits
  <1> QED
    BY <1>10, <1>11, <1>12 DEF SInv

\* What goes on around it.
LEMMA RegisterAlone ==
    ASSUME IInv, NEW r, NEW S, Request = {r}, SInv(r, S), NEW u \in User, Register(u)
    PROVE  SInv(r, S)'
  <1>1. PICK f \in FreeSub : /\ Unused(f) /\ row' = [row EXCEPT ![f] = FreeRow(u)]
                             /\ active' = [active EXCEPT ![u] = f]
    BY DEF Register
  <1>2. active[u] = NoSub /\ UNCHANGED <<remote, confirmed, hooks, req, faults>>
    BY DEF Register
  <1>3. /\ \A s \in Sub : s # f => row'[s] = row[s]
        /\ row'[f] = FreeRow(u) /\ active'[u] = f /\ \A v \in User : v # u => active'[v] = active[v]
        /\ f \notin Paid
    BY <1>1, SubscriptionsAssumption DEF IInv, TypeOK, Sub
  <1>4. \A s \in Sub : row[s] # NoRow => row[s].user \in User /\ row[s].user # u
    BY <1>2 DEF IInv, RowsAreOwned
  <1>5. ASSUME NEW s \in Sub PROVE (Holds(s) => Holds(s)') /\ (Holds(s)' => Holds(s) \/ s = f)
    <2>1. CASE s = f
      BY <1>1, <2>1 DEF Holds, Unused
    <2>2. CASE s # f
      <3>1. row[s].status = "ACTIVE" => row[s].user \in User /\ row[s].user # u
        BY <1>4 DEF NoRow
      <3> QED
        BY <1>3, <2>2, <3>1 DEF Holds
    <2> QED
      BY <2>1, <2>2
  <1>6. \A s \in Paid : RemoteFits(s)' /\ ReasonFits(s)'
    BY <1>2, <1>3, <1>5 DEF SInv, RemoteFits, ReasonFits, InactivatedHook, Over, Sub
  <1>7. HooksFit' /\ Loaded(req[r])'
    <2>1. PICK q \in RequestState : q = req[r]
      BY RequestIs
    <2>2. q.pc \in Handling => q.sub \in Paid /\ q.snap.user \in User /\ q.snap.user # u
      BY <1>4, <2>1 DEF IInv, HandledRowsExist, Sub
    <2>3. q.pc = "acknowledge" => q.hook.sub \in Paid
      BY <2>1 DEF SInv, Loaded, Webhook
    <2>4. HooksFit'
      BY <1>2 DEF SInv, HooksFit
    <2>5. Loaded(q)
      BY <2>1 DEF SInv
    <2>6. Loaded(q)'
      BY <1>2, <1>3, <1>5, <2>2, <2>3, <2>5 DEF Loaded, Over, Sub, Handling, Activating
    <2> QED
      BY <1>2, <2>1, <2>4, <2>6
  <1>8. ASSUME NEW g \in FreeSub PROVE FreeFits(req[r], g, S)'
    <2>1. CASE g = f
      BY <1>3, <2>1 DEF FreeFits, Holds, FreeRow, NoRow
    <2>2. CASE g # f
      BY <1>2, <1>3, <1>5, <2>2 DEF SInv, FreeFits, Sub
    <2> QED
      BY <2>1, <2>2
  <1> QED
    BY <1>6, <1>7, <1>8 DEF SInv

LEMMA XenditActivateAlone ==
    ASSUME IInv, NEW r, NEW S, Request = {r}, SInv(r, S), NEW t \in Paid, XenditActivate(t)
    PROVE  SInv(r, S)'
  <1>1. /\ remote[t] = "pending" /\ remote'[t] = "active" /\ \A s \in Paid : s # t => remote'[s] = remote[s]
        /\ confirmed' = confirmed \cup {t} /\ hooks' = hooks \cup {Activated(t)}
        /\ UNCHANGED <<row, active, req, faults>>
    BY DEF IInv, TypeOK, XenditActivate
  <1>2. Activated(t) \in hooks' /\ Activated(t).event = "activated" /\ Activated(t).sub = t
        /\ \A s \in Paid : s # t => Activated(s) # Activated(t)
    BY <1>1 DEF Activated
  <1>3. ASSUME NEW s \in Paid PROVE (Over(s) => Over(s)') /\ (InactivatedHook(s)' <=> InactivatedHook(s))
    BY <1>1, <1>2 DEF Over, InactivatedHook
  <1>4. \A s \in Paid : Holds(s)' <=> Holds(s)
    BY <1>1 DEF Holds
  <1>5. ASSUME NEW s \in Paid PROVE RemoteFits(s)' /\ ReasonFits(s)'
    BY <1>1, <1>2, <1>3, <1>4 DEF SInv, RemoteFits, ReasonFits, Over
  <1>6. HooksFit'
    BY <1>1, <1>2 DEF SInv, HooksFit
  <1>7. Loaded(req[r])'
    <2>1. PICK q \in RequestState : q = req[r]
      BY RequestIs
    <2>2. q.pc \in Handling => q.sub \in Paid
      BY <2>1 DEF IInv, HandledRowsExist
    <2>3. q.pc = "acknowledge" => q.hook.sub \in Paid
      BY <2>1 DEF SInv, Loaded, Webhook
    <2>4. Loaded(q)
      BY <2>1 DEF SInv
    <2>5. Loaded(q)'
      BY <1>1, <1>3, <1>4, <2>2, <2>3, <2>4 DEF Loaded, Handling, Activating
    <2> QED
      BY <1>1, <2>1, <2>5
  <1>8. \A f \in FreeSub : FreeFits(req[r], f, S)'
    BY <1>1 DEF SInv, FreeFits, Holds
  <1> QED
    BY <1>5, <1>6, <1>7, <1>8 DEF SInv

LEMMA XenditEndAlone ==
    ASSUME IInv, NEW r, NEW S, Request = {r}, SInv(r, S), NEW t \in Paid, XenditExpire(t) \/ XenditEnd(t)
    PROVE  SInv(r, S)'
  <1>1. PICK f \in Failure : hooks' = hooks \cup {Inactivated(t, f)}
    BY DEF XenditExpire, XenditEnd, Failure
  <1>2. /\ remote[t] \in {"pending", "active"} /\ remote'[t] = "inactive"
        /\ \A s \in Paid : s # t => remote'[s] = remote[s]
        /\ UNCHANGED <<row, active, confirmed, req, faults>>
    BY DEF IInv, TypeOK, XenditExpire, XenditEnd
  <1>3. /\ Inactivated(t, f).event = "inactivated" /\ Inactivated(t, f).sub = t
        /\ \A s \in Paid : Activated(s) # Inactivated(t, f)
    BY DEF Inactivated, Activated
  <1>4. ASSUME NEW s \in Paid
        PROVE  /\ (Activated(s) \in hooks' <=> Activated(s) \in hooks) /\ (Over(s) => Over(s)')
               /\ InactivatedHook(s)' <=> InactivatedHook(s) \/ s = t
    BY <1>1, <1>2, <1>3 DEF Over, InactivatedHook
  <1>5. \A s \in Paid : Holds(s)' <=> Holds(s)
    BY <1>2 DEF Holds
  <1>6. ASSUME NEW s \in Paid PROVE RemoteFits(s)' /\ ReasonFits(s)'
    BY <1>2, <1>4, <1>5 DEF SInv, RemoteFits, ReasonFits
  <1>7. HooksFit'
    BY <1>1, <1>3 DEF SInv, HooksFit
  <1>8. Loaded(req[r])'
    <2>1. PICK q \in RequestState : q = req[r]
      BY RequestIs
    <2>2. q.pc \in Handling => q.sub \in Paid
      BY <2>1 DEF IInv, HandledRowsExist
    <2>3. q.pc = "acknowledge" => q.hook.sub \in Paid
      BY <2>1 DEF SInv, Loaded, Webhook
    <2>4. Loaded(q)
      BY <2>1 DEF SInv
    <2>5. Loaded(q)'
      BY <1>1, <1>2, <1>4, <1>5, <2>2, <2>3, <2>4 DEF Loaded, Handling, Activating
    <2> QED
      BY <1>2, <2>1, <2>5
  <1>9. \A g \in FreeSub : FreeFits(req[r], g, S)'
    BY <1>2 DEF SInv, FreeFits, Holds
  <1> QED
    BY <1>6, <1>7, <1>8, <1>9 DEF SInv

LEMMA StutterAlone == ASSUME NEW r, NEW S, SInv(r, S), UNCHANGED vars PROVE SInv(r, S)'
  <1>1. HooksFit' /\ Loaded(req[r])' /\ \A s \in Paid : RemoteFits(s)' /\ ReasonFits(s)'
    BY DEF vars, SInv, HooksFit, Loaded, RemoteFits, ReasonFits, InactivatedHook, Holds, Over
  <1>2. \A f \in FreeSub : FreeFits(req[r], f, S)'
    BY DEF vars, SInv, FreeFits, Holds
  <1> QED
    BY <1>1, <1>2 DEF SInv

\* A step that is no failure leaves no fallback behind.
LEMMA StepAlone ==
    ASSUME NEW r, NEW S, Request = {r}, GoogleUsers = {}, InOrder, IInv, SInv(r, S), Next, ~Fail(r)
    PROVE  SInv(r, S)' /\ faults' = faults
  <1>1. ASSUME NEW u \in User, Register(u) \/ LinkGoogle(u) PROVE SInv(r, S)' /\ faults' = faults
    BY <1>1, RegisterAlone DEF LinkGoogle, Register
  <1>2. ASSUME NEW u \in User, NEW s \in Sub, NEW p \in Plan, UpgradeValidate(r, u, s, p)
        PROVE  SInv(r, S)' /\ faults' = faults
    BY <1>2, UpgradeValidateAlone DEF UpgradeValidate
  <1>3. ASSUME NEW s \in Sub, DeactivateValidate(r, s) PROVE SInv(r, S)' /\ faults' = faults
    BY <1>3, DeactivateValidateAlone DEF DeactivateValidate
  <1>4. ASSUME Handler(r) PROVE SInv(r, S)' /\ faults' = faults
    <2>1. SInv(r, S)'
      BY <1>4, UpgradeRemoteAlone, UpgradeCommitAlone, DeactivateRemoteAlone, DeactivateCommitAlone,
         ActivatedLoadUserAlone, ActivatedSaveAlone, ActivatedCommitAlone, InactivatedSaveAlone,
         InactivatedCommitAlone, AcknowledgeAlone DEF Handler
    <2>2. faults' = faults
      BY <1>4 DEF Handler, UpgradeRemote, XenditCreate, UpgradeCommit, DeactivateRemote, DeactivateCommit, ActivatedLoadUser,
         ActivatedSave, ActivatedCommit, InactivatedSave, InactivatedCommit, Acknowledge
    <2> QED
      BY <2>1, <2>2
  <1>5. ASSUME Deliver(r) PROVE SInv(r, S)' /\ faults' = faults
    BY <1>5, ActivatedLoadAlone, InactivatedLoadAlone DEF Deliver, ActivatedLoad, InactivatedLoad
  <1>6. ASSUME InactivatedWithoutCycle(r) PROVE SInv(r, S)' /\ faults' = faults
    BY <1>6, InactivatedWithoutCycleAlone DEF InactivatedWithoutCycle
  <1>7. ASSUME NEW s \in Paid, XenditActivate(s) \/ XenditExpire(s) \/ XenditEnd(s)
        PROVE  SInv(r, S)' /\ faults' = faults
    BY <1>7, XenditActivateAlone, XenditEndAlone DEF XenditActivate, XenditExpire, XenditEnd
  <1> QED
    BY <1>1, <1>2, <1>3, <1>4, <1>5, <1>6, <1>7 DEF Next

\* The fallbacks that failed are no more than the failures.
Alone(r) == \E S \in SUBSET FreeSub : IsFiniteSet(S) /\ Cardinality(S) <= faults /\ SInv(r, S)

LEMMA InitAlone == ASSUME NEW r, Request = {r} PROVE Init => Alone(r)
  <1> SUFFICES ASSUME Init PROVE Alone(r)
    OBVIOUS
  <1>1. req[r] = Idle /\ \A s \in Sub : row[s] = NoRow
    BY DEF Init
  <1>2. HooksFit /\ Loaded(req[r]) /\ \A s \in Paid : RemoteFits(s) /\ ReasonFits(s)
    BY <1>1 DEF Init, HooksFit, Loaded, Idle, RemoteFits, ReasonFits, InactivatedHook, NoRow, Sub, Upgrading,
       Activating
  <1>3. \A f \in FreeSub : FreeFits(req[r], f, {})
    BY <1>1 DEF FreeFits, NoRow, Idle, Upgrading, Sub
  <1>4. SInv(r, {}) /\ IsFiniteSet({}) /\ Cardinality({}) <= faults
    BY <1>2, <1>3, FS_EmptySet DEF SInv, Init
  <1> QED
    BY <1>4 DEF Alone

LEMMA NextAlone ==
    ASSUME NEW r, Request = {r}, GoogleUsers = {}, InOrder
    PROVE  IInv /\ Alone(r) /\ [Next]_vars => Alone(r)'
  <1> SUFFICES ASSUME IInv, [Next]_vars,
                      NEW S \in SUBSET FreeSub, IsFiniteSet(S), Cardinality(S) <= faults, SInv(r, S)
               PROVE  Alone(r)'
    BY DEF Alone
  <1>1. CASE UNCHANGED vars
    <2>1. SInv(r, S)' /\ faults' = faults
      BY <1>1, StutterAlone DEF vars
    <2> QED
      BY <2>1 DEF Alone
  <1>2. CASE Next /\ ~Fail(r)
    <2>1. SInv(r, S)' /\ faults' = faults
      BY <1>2, StepAlone
    <2> QED
      BY <2>1 DEF Alone
  <1>3. CASE Fail(r)
    <2>1. PICK p : p = req[r].prev
      OBVIOUS
    <2>2. PICK T : T = IF p \in FreeSub THEN S \cup {p} ELSE S
      OBVIOUS
    <2>3. SInv(r, T)'
      BY <1>3, <2>1, <2>2, FailAlone
    <2>4. IsFiniteSet(T) /\ Cardinality(T) <= Cardinality(S) + 1 /\ T \in SUBSET FreeSub
      <3>1. Cardinality(S) \in Nat
        BY FS_CardinalityType
      <3>2. /\ IsFiniteSet(S \cup {p})
            /\ Cardinality(S \cup {p}) = IF p \in S THEN Cardinality(S) ELSE Cardinality(S) + 1
        BY FS_AddElement
      <3> QED
        BY <2>2, <3>1, <3>2
    <2>5. faults' = faults + 1 /\ faults \in Nat
      BY <1>3, SubscriptionsAssumption DEF Fail, IInv, TypeOK
    <2>6. Cardinality(S) \in Nat /\ Cardinality(T) \in Nat
      BY <2>4, FS_CardinalityType
    <2>7. Cardinality(T) <= faults'
      BY <2>4, <2>5, <2>6
    <2> QED
      BY <2>3, <2>4, <2>7 DEF Alone
  <1> QED
    BY <1>1, <1>2, <1>3

\* What the only request has read is still there when it writes.
THEOREM Serial ==
    ASSUME NEW r, Request = {r}, GoogleUsers = {}, InOrder
    PROVE  Spec => []Alone(r)
  <1>1. Init => Alone(r)
    BY InitAlone
  <1>2. IInv /\ Alone(r) /\ [Next]_vars => Alone(r)'
    BY NextAlone
  <1> QED
    BY <1>1, <1>2, Inductive, PTL DEF Spec

\* Once settled, Xendit bills a user exactly for the plan the user is on: each webhook is
\* handled from the row that the one before it left (handleRecurringActivated,
\* handleRecurringInactivated, deactivateSubscriptionPlan).
THEOREM BillingIsOfPlan ==
    ASSUME NEW r, Request = {r}, GoogleUsers = {}, InOrder
    PROVE  Spec => []BillingFollowsPlan
  <1>1. IInv /\ Alone(r) => BillingFollowsPlan
    <2> SUFFICES ASSUME IInv, NEW S, SInv(r, S), Settled, NEW s \in Paid, ~Unused(s)
                 PROVE  remote[s] = "active" <=> Holds(s)
      BY DEF BillingFollowsPlan, Holds, Alone
    <2>1. Activated(s) \notin hooks /\ ~InactivatedHook(s)
      BY DEF Settled, InactivatedHook, Activated
    <2> QED
      BY <2>1 DEF SInv, RemoteFits, Holds, IInv, PaidIsConfirmed
  <1>2. Spec => []Alone(r)
    BY Serial
  <1> QED
    BY <1>1, <1>2, Inductive, PTL

\* Once settled, the only ACTIVE rows that getUserActiveSubscription can find are the user's
\* active subscription and the Free rows of failed fallbacks, one for a failure at most.
THEOREM OneActive ==
    ASSUME NEW r, Request = {r}, GoogleUsers = {}, InOrder
    PROVE  Spec => []OneActiveSubscription
  <1>1. IInv /\ Alone(r) => OneActiveSubscription
    <2> SUFFICES ASSUME IInv, Settled,
                        NEW S \in SUBSET FreeSub, IsFiniteSet(S), Cardinality(S) <= faults, SInv(r, S)
                 PROVE  /\ \A s \in Paid : row[s].status = "ACTIVE" => active[row[s].user] = s
                        /\ Cardinality(Stray) <= faults
      BY DEF OneActiveSubscription, Alone
    <2>1. ASSUME NEW s \in Paid, row[s].status = "ACTIVE" PROVE active[row[s].user] = s
      <3>1. Activated(s) \notin hooks /\ ~InactivatedHook(s)
        BY <2>1 DEF Settled, InactivatedHook, Activated, Unused
      <3> QED
        BY <2>1, <3>1 DEF SInv, RemoteFits, Holds, IInv, PaidIsConfirmed
    <2>2. Stray \subseteq S
      BY DEF SInv, FreeFits, Holds, Settled, Stray
    <2>3. Cardinality(Stray) <= Cardinality(S) /\ IsFiniteSet(Stray)
      BY <2>2, FS_Subset
    <2>4. Cardinality(Stray) \in Nat /\ Cardinality(S) \in Nat /\ faults \in Nat
      BY <2>3, FS_CardinalityType, SubscriptionsAssumption DEF IInv, TypeOK
    <2> QED
      BY <2>1, <2>3, <2>4
  <1>2. Spec => []Alone(r)
    BY Serial
  <1> QED
    BY <1>1, <1>2, Inductive, PTL

\* No later webhook rewrites why a subscription ended (handleRecurringInactivated): after an
\* inactivation nothing is handled for the plan, and a cancellation by the user stays.
THEOREM EndReasonKept ==
    ASSUME NEW r, Request = {r}, GoogleUsers = {}, InOrder
    PROVE  Spec => EndReasonIsFinal
  <1> DEFINE Final == \A s \in Sub : row[s].endReason # "none" => row'[s].endReason = row[s].endReason
  <1>1. IInv /\ Alone(r) /\ [Next]_vars => [Final]_row
    <2> SUFFICES ASSUME IInv, NEW S, SInv(r, S), Next, NEW s \in Sub, row[s].endReason # "none", row' # row
                 PROVE  row'[s].endReason = row[s].endReason
      BY DEF vars, Alone
    <2>1. row[s] # NoRow /\ ~Unused(s)
      BY DEF IInv, RowsAreOwned, NoRow, Unused
    <2>2. ASSUME NEW u \in User, Register(u) \/ LinkGoogle(u) PROVE row'[s].endReason = row[s].endReason
      BY <2>1, <2>2 DEF Register, LinkGoogle, Sub, IInv, TypeOK
    <2>3. CASE UpgradeCommit(r)
      BY <2>1, <2>3 DEF UpgradeCommit, IInv, TypeOK, UpgradesAreReserved, Upgrading
    <2>4. CASE DeactivateCommit(r)
      <3>1. [req[r].snap EXCEPT !.status = "INACTIVE", !.endReason = "CANCELLED_BY_USER"].endReason = "CANCELLED_BY_USER"
        BY RequestIs DEF Row
      <3> QED
        BY <2>4, <3>1 DEF DeactivateCommit, IInv, TypeOK, SInv, Loaded
    <2>5. CASE ActivatedCommit(r)
      <3>1. req[r].snap.endReason = row[req[r].sub].endReason /\ req[r].prev = active[req[r].snap.user]
        BY <2>5 DEF ActivatedCommit, SInv, Loaded, Activating
      <3>2. req[r].prev \in FreeSub => row[req[r].prev].endReason = "none"
        BY <2>5, <3>1 DEF SInv, FreeFits, IInv, FreeIsLive, HandledRowsExist, RowsAreOwned, Handling, Activating,
           ActivatedCommit, Sub
      <3>3. PICK rows : rows = [row EXCEPT ![req[r].sub] = req[r].snap]
        OBVIOUS
      <3>4. rows[s].endReason = row[s].endReason
        BY <3>1, <3>3 DEF IInv, TypeOK
      <3>5. s = req[r].prev => s \notin FreeSub
        BY <3>2
      <3>6. row' = EndPreviousFree(rows, req[r].prev)
        BY <2>5, <3>3 DEF ActivatedCommit
      <3>7. row'[s] = rows[s]
        BY <3>3, <3>5, <3>6 DEF EndPreviousFree, IInv, TypeOK
      <3> QED
        BY <3>4, <3>7
    <2>6. CASE InactivatedSave(r)
      BY <2>1, <2>6 DEF InactivatedSave, InactivatedSaveWith, IInv, TypeOK
    <2>7. CASE InactivatedCommit(r)
      BY <2>7 DEF InactivatedCommit, SInv, Loaded, IInv, TypeOK
    <2>8. \/ \E u \in User : Register(u) \/ LinkGoogle(u)
          \/ UpgradeCommit(r) \/ DeactivateCommit(r) \/ ActivatedCommit(r) \/ InactivatedSave(r)
          \/ InactivatedCommit(r)
      <3>1. ASSUME NEW u \in User, NEW t \in Sub, NEW p \in Plan, UpgradeValidate(r, u, t, p) \/ DeactivateValidate(r, t)
            PROVE  row' = row
        BY <3>1 DEF UpgradeValidate, DeactivateValidate
      <3>2. ASSUME Deliver(r) \/ InactivatedWithoutCycle(r) \/ Fail(r) PROVE row' = row
        BY <3>2 DEF Deliver, ActivatedLoad, InactivatedLoad, InactivatedWithoutCycle, Fail
      <3>3. ASSUME UpgradeRemote(r) \/ DeactivateRemote(r) \/ ActivatedLoadUser(r) \/ ActivatedSave(r) \/ Acknowledge(r)
            PROVE  row' = row
        BY <3>3 DEF UpgradeRemote, XenditCreate, DeactivateRemote, ActivatedLoadUser, ActivatedSave, Acknowledge
      <3>4. ASSUME NEW t \in Paid, XenditActivate(t) \/ XenditExpire(t) \/ XenditEnd(t) PROVE row' = row
        BY <3>4 DEF XenditActivate, XenditExpire, XenditEnd
      <3>5. ASSUME NEW t \in Sub, DeactivateValidate(r, t) PROVE row' = row
        BY <3>5 DEF DeactivateValidate
      <3> QED
        BY <3>1, <3>2, <3>3, <3>4, <3>5 DEF Next, Handler
    <2> QED
      BY <2>2, <2>3, <2>4, <2>5, <2>6, <2>7, <2>8
  <1>2. Spec => []Alone(r)
    BY Serial
  <1> QED
    BY <1>1, <1>2, Inductive, PTL DEF Spec, EndReasonIsFinal

-----------------------------------------------------------------------------
(* Subscriptions implements Entitlement *)

USE DEF Abstract!vars

\* The initial states map to the initial state of Entitlement.
LEMMA InitRefines == Init => Abstract!Init
  <1> SUFFICES ASSUME Init PROVE Abstract!Init
    OBVIOUS
  <1>1. \A s \in Sub : row[s].status = "absent" /\ row[s].user = NoUser
    BY DEF Init, NoRow
  <1> QED
    BY <1>1 DEF Init, Abstract!Init, Unused, Sub

\* What the abstract state is made of.
Issued == {f \in FreeSub : ~Unused(f)}
Buyer == [s \in Paid |-> row[s].user]

\* A step that leaves alone who owns what is not visible.
LEMMA Invisible ==
    ASSUME UNCHANGED <<active, confirmed>>, Buyer' = Buyer, Issued' = Issued
    PROVE  UNCHANGED Abstract!vars
  BY DEF Buyer, Issued

\* A step that changes no row, no user and no confirmation is not visible.
LEMMA SameRowsInvisible ==
    ASSUME UNCHANGED <<row, active, confirmed>>
    PROVE  UNCHANGED Abstract!vars
  BY DEF Unused

\* A new Free subscription is issued.
LEMMA FreeRowIssues ==
    ASSUME TypeOK, NEW u \in User, NEW f \in FreeSub, Unused(f),
           row' = [row EXCEPT ![f] = FreeRow(u)]
    PROVE  f \notin Issued /\ Issued' = Issued \cup {f} /\ Buyer' = Buyer
  <1>1. \A g \in Sub : g # f => row'[g] = row[g]
    BY DEF TypeOK
  <1>2. row'[f].status = "ACTIVE"
    BY DEF TypeOK, FreeRow, Sub, NoRow
  <1>3. \A s \in Paid : s # f /\ s \in Sub
    BY SubscriptionsAssumption DEF Sub
  <1>4. Buyer' = Buyer
    BY <1>1, <1>3 DEF Buyer
  <1>5. \A g \in FreeSub : g \in Sub
    BY DEF Sub
  <1>6. Issued' = Issued \cup {f}
    BY <1>1, <1>2, <1>5 DEF Issued, Unused
  <1> QED
    BY <1>4, <1>6 DEF Issued

\* Writing a row of a paid subscription issues nothing.
LEMMA PaidRowIssuesNothing ==
    ASSUME TypeOK, NEW s \in Paid, NEW x, row' = [row EXCEPT ![s] = x]
    PROVE  /\ Issued' = Issued
           /\ Buyer' = [Buyer EXCEPT ![s] = x.user]
  <1>1. \A f \in FreeSub : f # s /\ f \in Sub
    BY SubscriptionsAssumption DEF Sub
  <1>2. Issued' = Issued
    BY <1>1 DEF TypeOK, Issued, Unused
  <1>3. \A t \in Paid : row'[t].user = IF t = s THEN x.user ELSE row[t].user
    BY DEF TypeOK, Sub
  <1> QED
    BY <1>2, <1>3 DEF Buyer

\* Registration and the first Google sign-in issue a Free subscription to its user.
LEMMA IssueToRefines ==
    ASSUME IInv, NEW u \in User, Register(u) \/ LinkGoogle(u)
    PROVE  Abstract!Next
  <1>1. PICK f \in FreeSub : /\ Unused(f)
                             /\ row' = [row EXCEPT ![f] = FreeRow(u)]
                             /\ active' = [active EXCEPT ![u] = f]
    BY DEF Register, LinkGoogle
  <1>2. f \notin Issued /\ Issued' = Issued \cup {f} /\ Buyer' = Buyer
    BY <1>1, FreeRowIssues DEF IInv
  <1>3. confirmed' = confirmed
    BY DEF Register, LinkGoogle
  <1>4. Abstract!IssueTo(u, f)
    BY <1>1, <1>2, <1>3 DEF Abstract!IssueTo, Issued, Buyer
  <1> QED
    BY <1>4 DEF Abstract!Next

\* The commit of an upgrade request is an order.
LEMMA OrderRefines ==
    ASSUME IInv, NEW r \in Request, UpgradeCommit(r)
    PROVE  Abstract!Next
  <1>1. PICK u \in User, s \in Paid :
            /\ u = req[r].snap.user /\ s = req[r].sub /\ row[s] = NoRow
            /\ row' = [row EXCEPT ![s] = req[r].snap]
            /\ UNCHANGED <<active, confirmed>>
    BY DEF IInv, UpgradesAreReserved, Upgrading, UpgradeCommit
  <1>2. Issued' = Issued /\ Buyer' = [Buyer EXCEPT ![s] = u]
    BY <1>1, PaidRowIssuesNothing DEF IInv
  <1>3. Buyer[s] = NoUser
    BY <1>1 DEF Buyer, NoRow
  <1>4. Abstract!Order(u, s)
    BY <1>1, <1>2, <1>3 DEF Abstract!Order, Issued, Buyer
  <1> QED
    BY <1>4 DEF Abstract!Next

\* A deactivation changes neither who ordered a subscription nor who holds it.
LEMMA DeactivateRefines ==
    ASSUME IInv, NEW r \in Request, DeactivateCommit(r)
    PROVE  UNCHANGED Abstract!vars
  <1> DEFINE s == req[r].sub
             x == [req[r].snap EXCEPT !.status = "INACTIVE", !.endReason = "CANCELLED_BY_USER"]
  <1>1. /\ s \in Paid /\ req[r].snap \in Row /\ req[r].snap.user = row[s].user
        /\ row' = [row EXCEPT ![s] = x]
        /\ UNCHANGED <<active, confirmed>>
    BY DEF IInv, TypeOK, RequestState, HandledRowsExist, Handling, DeactivateCommit
  <1>2. x.user = row[s].user
    BY <1>1 DEF Row
  <1> HIDE DEF x
  <1>3. Issued' = Issued /\ Buyer' = [Buyer EXCEPT ![s] = row[s].user]
    BY <1>1, <1>2, PaidRowIssuesNothing DEF IInv
  <1>4. Buyer' = Buyer
    BY <1>1, <1>3 DEF Buyer
  <1> QED
    BY <1>1, <1>3, <1>4, Invisible

\* The commit of an activation grants a confirmed subscription to the user who ordered it.
LEMMA GrantRefines ==
    ASSUME IInv, NEW r \in Request, ActivatedCommit(r)
    PROVE  Abstract!Next
  <1> DEFINE s == req[r].sub
             u == row[s].user
  <1>0. ActivatedCommitEffect(r)
    BY ActivatedCommitHasEffect
  <1>1. /\ s \in Paid /\ s \in confirmed /\ u \in User /\ active[u] # NoSub
        /\ req[r].snap.user = u
        /\ active' = [active EXCEPT ![u] = s]
        /\ UNCHANGED confirmed
    BY <1>0 DEF ActivatedCommitEffect, IInv, RowsAreOwned, HandledRowsExist, Activating,
       Handling, ActivatedCommit, Sub
  <1>2. Buyer' = Buyer
    BY <1>0 DEF Buyer, ActivatedCommitEffect, Sub
  <1>3. \A f \in FreeSub : row'[f].status = "absent" <=> row[f].status = "absent"
    <2>1. \A f \in FreeSub : f \in Sub /\ f # s
      BY <1>1, SubscriptionsAssumption DEF Sub
    <2>2. row[req[r].prev].status # "absent"
      BY <1>0, SubscriptionsAssumption DEF ActivatedCommitEffect, IInv, PreviousExists,
         RowsAreOwned, Sub
    <2> QED
      BY <1>0, <2>1, <2>2 DEF ActivatedCommitEffect
  <1>4. Issued' = Issued
    BY <1>3 DEF Issued, Unused
  <1>5. Buyer[s] = u /\ u # NoUser
    BY <1>1, SubscriptionsAssumption DEF Buyer
  <1>6. Abstract!Grant(s)
    BY <1>1, <1>2, <1>4, <1>5 DEF Abstract!Grant, Issued, Buyer
  <1> QED
    BY <1>1, <1>6 DEF Abstract!Next

\* The fallback is issued before its user holds it, or there is none.
LEMMA IssueRefines ==
    ASSUME IInv, NEW r \in Request, InactivatedSave(r)
    PROVE  Abstract!Next \/ UNCHANGED Abstract!vars
  <1>1. PICK paid \in BOOLEAN, f \in FreeSub : InactivatedSaveWith(r, paid, f)
    BY DEF InactivatedSave
  <1>2. UNCHANGED <<active, confirmed>> /\ req[r].snap.user \in User
    BY DEF InactivatedSave, IInv, HandledRowsExist, Handling, RowsAreOwned, Sub
  <1>3. CASE req[r].prev = req[r].sub
    <2>1. Unused(f) /\ row' = [row EXCEPT ![f] = FreeRow(req[r].snap.user)]
      BY <1>1, <1>3 DEF InactivatedSaveWith
    <2>2. f \notin Issued /\ Issued' = Issued \cup {f} /\ Buyer' = Buyer
      BY <1>2, <2>1, FreeRowIssues DEF IInv
    <2>3. Abstract!Issue(f)
      BY <1>2, <2>2 DEF Abstract!Issue, Issued, Buyer
    <2> QED
      BY <2>3 DEF Abstract!Next
  <1>4. CASE req[r].prev # req[r].sub
    <2>1. UNCHANGED row
      BY <1>1, <1>4 DEF InactivatedSaveWith
    <2> QED
      BY <1>2, <2>1, SameRowsInvisible
  <1> QED
    BY <1>3, <1>4

\* The commit of a deactivation moves the user to the fallback, if there is one.
LEMMA FallbackRefines ==
    ASSUME IInv, NEW r \in Request, InactivatedCommit(r)
    PROVE  Abstract!Next \/ UNCHANGED Abstract!vars
  <1> DEFINE s == req[r].sub
             u == req[r].snap.user
             f == req[r].prev
  <1>1. /\ s \in Paid /\ u = row[s].user /\ u \in User
        /\ row' = [row EXCEPT ![s] = req[r].snap]
        /\ UNCHANGED confirmed
    BY DEF IInv, HandledRowsExist, Handling, RowsAreOwned, InactivatedCommit, Sub
  <1>2. Issued' = Issued /\ Buyer' = [Buyer EXCEPT ![s] = u]
    BY <1>1, PaidRowIssuesNothing DEF IInv
  <1>3. Buyer' = Buyer
    BY <1>1, <1>2 DEF Buyer
  <1>4. CASE f = NoSub
    <2>1. UNCHANGED active
      BY <1>4 DEF InactivatedCommit
    <2> QED
      BY <1>1, <1>2, <1>3, <2>1, Invisible
  <1>5. CASE f # NoSub
    <2>1. /\ f \in Issued /\ f \in FreeSub
          /\ \A v \in User : active[v] # f
          /\ active' = [active EXCEPT ![u] = f]
      BY <1>5 DEF IInv, FallbackIsReserved, InactivatedCommit, Issued, Unused
    <2>2. Abstract!Fallback(u, f)
      BY <1>1, <1>2, <1>3, <2>1 DEF Abstract!Fallback, Issued, Buyer
    <2> QED
      BY <1>1, <2>1, <2>2 DEF Abstract!Next
  <1> QED
    BY <1>4, <1>5

\* Xendit's activation of a plan is the confirmation.
LEMMA ConfirmRefines ==
    ASSUME NEW s \in Paid, XenditActivate(s)
    PROVE  Abstract!Next
  <1>1. Abstract!Confirm(s)
    BY DEF XenditActivate, Abstract!Confirm, Unused
  <1> QED
    BY <1>1 DEF Abstract!Next

\* Every step maps to a step of Entitlement or to a stutter.
LEMMA NextRefines == IInv /\ [Next]_vars => [Abstract!Next]_(Abstract!vars)
  <1> SUFFICES ASSUME IInv, [Next]_vars PROVE Abstract!Next \/ UNCHANGED Abstract!vars
    OBVIOUS
  <1>1. ASSUME NEW u \in User, Register(u) \/ LinkGoogle(u)
        PROVE  Abstract!Next
    BY <1>1, IssueToRefines
  <1>2. ASSUME NEW r \in Request, NEW u \in User, NEW s \in Sub, NEW p \in Plan,
               UpgradeValidate(r, u, s, p)
        PROVE  UNCHANGED Abstract!vars
    BY <1>2, SameRowsInvisible DEF UpgradeValidate
  <1>3. ASSUME NEW r \in Request, NEW s \in Sub, DeactivateValidate(r, s)
        PROVE  UNCHANGED Abstract!vars
    BY <1>3, SameRowsInvisible DEF DeactivateValidate
  <1>4. ASSUME NEW r \in Request, Handler(r)
        PROVE  Abstract!Next \/ UNCHANGED Abstract!vars
    <2>1. CASE UpgradeRemote(r) \/ DeactivateRemote(r) \/ ActivatedLoadUser(r)
               \/ ActivatedSave(r) \/ Acknowledge(r)
      <3>1. UNCHANGED <<row, active, confirmed>>
        BY <2>1 DEF UpgradeRemote, XenditCreate, DeactivateRemote, ActivatedLoadUser, ActivatedSave,
           Acknowledge, XenditDeactivate, xendit
      <3> QED
        BY <3>1, SameRowsInvisible
    <2> QED
      BY <1>4, <2>1, OrderRefines, DeactivateRefines, GrantRefines, IssueRefines,
         FallbackRefines DEF Handler
  <1>5. ASSUME NEW r \in Request, Deliver(r) \/ InactivatedWithoutCycle(r) \/ Fail(r)
        PROVE  UNCHANGED Abstract!vars
    <2>1. UNCHANGED <<row, active, confirmed>>
      BY <1>5 DEF Deliver, ActivatedLoad, InactivatedLoad, InactivatedWithoutCycle, Fail
    <2> QED
      BY <2>1, SameRowsInvisible
  <1>6. ASSUME NEW s \in Paid, XenditActivate(s) \/ XenditExpire(s) \/ XenditEnd(s)
        PROVE  Abstract!Next \/ UNCHANGED Abstract!vars
    <2>1. CASE XenditExpire(s) \/ XenditEnd(s)
      <3>1. UNCHANGED <<row, active, confirmed>>
        BY <2>1 DEF XenditExpire, XenditEnd
      <3> QED
        BY <3>1, SameRowsInvisible
    <2> QED
      BY <1>6, <2>1, ConfirmRefines
  <1>7. ASSUME UNCHANGED vars
        PROVE  UNCHANGED Abstract!vars
    BY <1>7, SameRowsInvisible DEF vars
  <1> QED
    BY <1>1, <1>2, <1>3, <1>4, <1>5, <1>6, <1>7 DEF Next

\* The component keeps the promise of Entitlement: a user moves to a paid subscription only
\* after its own confirmation and only if the user ordered it, and otherwise to a Free one
\* that nobody held.
THEOREM Refinement == Spec => ImplementsEntitlement
  <1> SUFFICES Spec => Abstract!Spec
    BY DEF ImplementsEntitlement
  <1> QED
    BY Inductive, InitRefines, NextRefines, PTL DEF Spec, Abstract!Spec

=============================================================================
