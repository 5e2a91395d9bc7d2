------------------------------- MODULE Cycles -------------------------------
(***************************************************************************)
(* The billing cycles of one subscription: Xendit charges cycle after cycle *)
(* and reports each with recurring.cycle webhooks, whose handlers keep the  *)
(* cycle's row, the transaction of its charge, the history of renewals and  *)
(* the subscription's currentCycle and nextBillingDate.                     *)
(*                                                                         *)
(* A handler runs two database transactions, one for the row and one for    *)
(* the transaction record.  In each, the read and the commit are a step of  *)
(* their own: neither takes a lock.  Webhooks stay at Xendit until they are *)
(* answered with 200, and are delivered again while they stay.              *)
(***************************************************************************)
EXTENDS Naturals, FiniteSets

CONSTANTS
    Cycle,        \* the cycles that are billed: 1 is the IMMEDIATE charge, later ones are SCHEDULED
    Request,      \* webhook deliveries that can be in progress at once
    MethodKnown   \* the payment method's row exists before the first charge

ASSUME CyclesAssumption ==
    /\ Cycle \subseteq Nat \ {0}
    /\ MethodKnown \in BOOLEAN

VARIABLES
    charge,  \* Xendit: the state of each cycle
    plan,    \* Xendit: the recurring plan, active or ended
    hooks,   \* Xendit: the webhooks sent and not yet answered with 200
    ordered, \* Xendit delivers the webhooks of one cycle one after the other
    cycle,   \* the subscription_cycles table
    book,    \* the transactions table: the status of each cycle's entry
    renewed, \* subscription_histories: the RENEWED rows of each cycle
    sub,     \* the columns of the subscription that these handlers touch
    req      \* the deliveries in progress, with what each has read

vars == <<charge, plan, hooks, ordered, cycle, book, renewed, sub, req>>
xendit == <<charge, plan, ordered>>
stored == <<cycle, book, renewed, sub>>

Entry == {"none", "PAID", "FAILED"}
Status == {"SCHEDULED", "RETRYING", "SUCCEEDED", "FAILED", "CANCELLED"}

Type(c) == IF c = 1 THEN "IMMEDIATE" ELSE "SCHEDULED"

\* A webhook carries the state of its cycle when it was sent.
Message == [event : {"created", "retrying", "succeeded", "failed"}, cycle : Cycle]
PlanMessage == [event : {"activated", "inactivated"}]
Msg(e, c) == [event |-> e, cycle |-> c]
PlanMsg(e) == [event |-> e]

StatusOf(m) == CASE m.event = "created" -> "SCHEDULED"
                 [] m.event = "retrying" -> "RETRYING"
                 [] m.event = "succeeded" -> "SUCCEEDED"
                 [] m.event = "failed" -> "FAILED"

(***************************************************************************)
(* Whether the webhook leads to a payment request: that of the attempt that *)
(* succeeded or whose link was paid, or of the first that failed.  The      *)
(* search matches nothing for created and retrying.                         *)
(***************************************************************************)
Resolves(m) == m.event \in {"succeeded", "failed"}

(***************************************************************************)
(* A row.  A cycle ends in one payment request: ref tells whether the row   *)
(* holds its referenceId, seen whether its id is in actionIds.              *)
(***************************************************************************)
Row == [status : Status \cup {"absent"}, ref : BOOLEAN, seen : BOOLEAN]
NoRow == [status |-> "absent", ref |-> FALSE, seen |-> FALSE]

Sub == [status : {"PENDING", "ACTIVE", "INACTIVE"}, current : Cycle \cup {1}, next : Cycle \cup {0}]

RequestState ==
    [pc : {"idle", "readCycle", "writeCycle", "readBook", "writeBook", "history",
           "acknowledge", "planWrite"},
     hook : Message \cup PlanMessage \cup {PlanMsg("none")},
     row : Row,        \* the cycle it loaded; after writeCycle, the entity it keeps
     loaded : BOOLEAN, \* the entity carries its payment method
     sub : Sub]        \* the subscription a plan webhook loaded

NewSub == [status |-> "PENDING", current |-> 1, next |-> 0]
Idle == [pc |-> "idle", hook |-> PlanMsg("none"), row |-> NoRow, loaded |-> FALSE, sub |-> NewSub]
Acknowledging(m) == [Idle EXCEPT !.pc = "acknowledge", !.hook = m]

TypeOK ==
    /\ charge \in [Cycle -> {"none", "scheduled", "retrying", "succeeded", "failed", "cancelled"}]
    /\ plan \in {"active", "ended"}
    /\ hooks \subseteq Message \cup PlanMessage
    /\ ordered \in BOOLEAN
    /\ cycle \in [Cycle -> Row]
    /\ book \in [Cycle -> Entry]
    /\ renewed \in [Cycle -> [SUCCEEDED : 0..2, FAILED : 0..2]]
    /\ sub \in Sub
    /\ req \in [Request -> RequestState]

Init ==
    /\ charge = [c \in Cycle |-> "none"]
    /\ plan = "active"
    /\ hooks = {PlanMsg("activated")}
    /\ ordered \in BOOLEAN
    /\ cycle = [c \in Cycle |-> NoRow]
    /\ book = [c \in Cycle |-> "none"]
    /\ renewed = [c \in Cycle |-> [SUCCEEDED |-> 0, FAILED |-> 0]]
    /\ sub = NewSub
    /\ req = [r \in Request |-> Idle]

-----------------------------------------------------------------------------
(* Xendit and the customer *)

\* The next cycle is scheduled once the one before is settled (failed_cycle_action: RESUME).
Schedule(c) ==
    /\ plan = "active" /\ charge[c] = "none"
    /\ c - 1 \in Cycle => charge[c - 1] \in {"succeeded", "failed"}
    /\ charge' = [charge EXCEPT ![c] = "scheduled"]
    /\ hooks' = hooks \cup {Msg("created", c)}
    /\ UNCHANGED <<plan, ordered, stored, req>>

\* The first attempt fails; a retry follows, and a payment link is offered.
Retry(c) ==
    /\ plan = "active" /\ charge[c] = "scheduled"
    /\ charge' = [charge EXCEPT ![c] = "retrying"]
    /\ hooks' = hooks \cup {Msg("retrying", c)}
    /\ UNCHANGED <<plan, ordered, stored, req>>

\* An attempt succeeds, or the customer pays through the link of the failed one.
Succeed(c) ==
    /\ plan = "active"
    /\ charge[c] \in {"scheduled", "retrying"}
    /\ charge' = [charge EXCEPT ![c] = "succeeded"]
    /\ hooks' = hooks \cup {Msg("succeeded", c)}
    /\ UNCHANGED <<plan, ordered, stored, req>>

\* The last attempt fails.
GiveUp(c) ==
    /\ plan = "active" /\ charge[c] = "retrying"
    /\ charge' = [charge EXCEPT ![c] = "failed"]
    /\ hooks' = hooks \cup {Msg("failed", c)}
    /\ UNCHANGED <<plan, ordered, stored, req>>

\* The plan is deactivated: a cycle that is not settled is cancelled without a webhook.
EndPlan ==
    /\ plan = "active"
    /\ plan' = "ended"
    /\ charge' = [c \in Cycle |-> IF charge[c] \in {"scheduled", "retrying"}
                                  THEN "cancelled" ELSE charge[c]]
    /\ hooks' = hooks \cup {PlanMsg("inactivated")}
    /\ UNCHANGED <<ordered, stored, req>>

-----------------------------------------------------------------------------
(* Deliveries *)

Goto(r, p) == req' = [req EXCEPT ![r] = [@ EXCEPT !.pc = p]]
Answer(r) == req' = [req EXCEPT ![r] = Idle]

Rank(m) == CASE m.event = "created" -> 1 [] m.event = "retrying" -> 2 [] OTHER -> 3

\* With ordered delivery a webhook waits for the earlier ones of its cycle, and for itself.
\* Two deliveries of one plan webhook at once are the subject of Subscriptions.
Deliverable(m) ==
    /\ ordered \/ m \in PlanMessage => \A r \in Request : req[r].hook # m
    /\ ordered /\ m \in Message => \A n \in hooks \cap Message : n.cycle = m.cycle => Rank(n) >= Rank(m)

\* getSubscriptionByExternalId: the webhook's subscription exists.
Deliver(r, m) ==
    /\ req[r].pc = "idle"
    /\ m \in hooks /\ Deliverable(m)
    /\ req' = [req EXCEPT ![r] =
                 [Idle EXCEPT !.pc = IF m \in Message THEN "readCycle" ELSE "planWrite",
                              !.hook = m, !.sub = IF m \in Message THEN NewSub ELSE sub]]
    /\ UNCHANGED <<xendit, hooks, stored>>

(***************************************************************************)
(* createOrUpdateSubscriptionCycle, its reads: the row, without the payment *)
(* method relation, and the payment request of an attempt not yet in        *)
(* actionIds.  The entity then carries the method only if this delivery     *)
(* looked it up and found its row.                                          *)
(***************************************************************************)
\* Mutant: the relation is loaded with the row.
ReadCycleMutant(r) == LET m == req[r].hook row == cycle[m.cycle] IN
    /\ req[r].pc = "readCycle"
    /\ \E known \in {TRUE, MethodKnown} :
        req' = [req EXCEPT ![r] = [@ EXCEPT !.pc = "writeCycle", !.row = row,
                  !.loaded = row.ref \/ (Resolves(m) /\ ~row.seen /\ known)]]
    /\ UNCHANGED <<xendit, hooks, stored>>

ReadCycle(r) == LET m == req[r].hook row == cycle[m.cycle] IN
    /\ req[r].pc = "readCycle"
    /\ \E known \in {TRUE, MethodKnown} :
        req' = [req EXCEPT ![r] = [@ EXCEPT !.pc = "writeCycle", !.row = row,
                  !.loaded = Resolves(m) /\ ~row.seen /\ known]]
    /\ UNCHANGED <<xendit, hooks, stored>>

(***************************************************************************)
(* How a handler goes on with the cycle it stored: created and retrying are *)
(* done; succeeded and failed go on to the transaction, which is refused    *)
(* with 400 when the entity lacks its payment method or its reference.      *)
(***************************************************************************)
Continue(r, row) == LET q == req[r] IN
    req' = [req EXCEPT ![r] =
        IF q.hook.event \in {"created", "retrying"} THEN Acknowledging(q.hook)
        ELSE IF q.loaded /\ row.ref THEN [q EXCEPT !.pc = "readBook", !.row = row]
        ELSE Idle]

\* Mutant: the row is inserted although another delivery did so since the read.
InsertCycleMutant(r) == LET q == req[r] m == q.hook c == m.cycle IN
    /\ q.pc = "writeCycle" /\ q.row.status = "absent"
    /\ LET new == [status |-> StatusOf(m), ref |-> Resolves(m), seen |-> Resolves(m)]
       IN /\ cycle' = [cycle EXCEPT ![c] = new]
          /\ Continue(r, new)
    /\ sub' = IF Type(c) = "SCHEDULED" THEN [sub EXCEPT !.next = c] ELSE sub
    /\ UNCHANGED <<xendit, hooks, book, renewed>>

\* The first webhook of a cycle that arrives inserts its row.
InsertCycle(r) == LET q == req[r] m == q.hook c == m.cycle IN
    /\ q.pc = "writeCycle" /\ q.row.status = "absent"
    /\ cycle[c].status = "absent"
    /\ LET new == [status |-> StatusOf(m), ref |-> Resolves(m), seen |-> Resolves(m)]
       IN /\ cycle' = [cycle EXCEPT ![c] = new]
          /\ Continue(r, new)
    /\ sub' = IF Type(c) = "SCHEDULED" THEN [sub EXCEPT !.next = c] ELSE sub
    /\ UNCHANGED <<xendit, hooks, book, renewed>>

\* The unique index on externalId refuses a second insert; nothing is committed.
InsertRefused(r) ==
    /\ req[r].pc = "writeCycle" /\ req[r].row.status = "absent"
    /\ cycle[req[r].hook.cycle].status # "absent"
    /\ Answer(r)
    /\ UNCHANGED <<xendit, hooks, stored>>

\* Mutant: currentCycle moves with every webhook.
AdvanceMutant(m) == [sub EXCEPT !.current = m.cycle]

\* Which column of the subscription an update of a cycle writes.
Advance(m) == IF m.event = "succeeded" THEN [sub EXCEPT !.current = m.cycle]
                                       ELSE [sub EXCEPT !.next = m.cycle]

\* Mutant: one database transaction for row and entry, so that a refused entry undoes the row.
UpdateCycleMutant(r) == LET q == req[r] m == q.hook c == m.cycle IN
    /\ q.pc = "writeCycle" /\ q.row.status # "absent"
    /\ LET merged == [q.row EXCEPT !.status = StatusOf(m), !.seen = @ \/ Resolves(m)]
       IN /\ cycle' = IF Resolves(m) /\ ~(q.loaded /\ q.row.ref) THEN cycle
                      ELSE [cycle EXCEPT ![c] = merged]
          /\ Continue(r, merged)
    /\ sub' = Advance(m)
    /\ UNCHANGED <<xendit, hooks, book, renewed>>

(***************************************************************************)
(* A later webhook updates the row it read: the status whatever it was, and *)
(* actionIds as read plus the new one.  referenceId is not among the merged *)
(* columns, so it stays what the insert made it.                            *)
(***************************************************************************)
UpdateCycle(r) == LET q == req[r] m == q.hook c == m.cycle IN
    /\ q.pc = "writeCycle" /\ q.row.status # "absent"
    /\ LET merged == [q.row EXCEPT !.status = StatusOf(m), !.seen = @ \/ Resolves(m)]
       IN /\ cycle' = [cycle EXCEPT ![c] = merged]
          /\ Continue(r, merged)
    /\ sub' = Advance(m)
    /\ UNCHANGED <<xendit, hooks, book, renewed>>

\* createOrGetTransactionBySubscriptionCycle returns a transaction of that reference as it is.
ReadBook(r) == LET q == req[r] IN
    /\ q.pc = "readBook"
    /\ Goto(r, IF book[q.hook.cycle] # "none" THEN "history" ELSE "writeBook")
    /\ UNCHANGED <<xendit, hooks, stored>>

\* Mutant: whatever has no failure in progress counts as paid.
EntryStatusMutant(s) == IF s = "RETRYING" THEN "FAILED" ELSE "PAID"

\* resolveStatusByPaymentRequestStatus
EntryStatus(s) == IF s = "SUCCEEDED" THEN "PAID" ELSE "FAILED"

\* The insert; the unique indexes on referenceId and on the cycle refuse a second one.
WriteBook(r) == LET q == req[r] c == q.hook.cycle IN
    /\ q.pc = "writeBook"
    /\ IF book[c] = "none"
       THEN /\ book' = [book EXCEPT ![c] = EntryStatus(q.row.status)]
            /\ Goto(r, "history")
       ELSE UNCHANGED book /\ Answer(r)
    /\ UNCHANGED <<xendit, hooks, cycle, renewed, sub>>

\* A renewal is recorded for SCHEDULED cycles only, a failure for every cycle.
History(r) == LET q == req[r] m == q.hook c == m.cycle count == renewed[c] IN
    /\ q.pc = "history"
    /\ renewed' = IF m.event = "failed" \/ Type(c) = "SCHEDULED"
                  THEN [renewed EXCEPT ![c] = [count EXCEPT ![StatusOf(m)] = @ + 1]] ELSE renewed
    /\ req' = [req EXCEPT ![r] = Acknowledging(req[r].hook)]
    /\ UNCHANGED <<xendit, hooks, cycle, book, sub>>

\* The mail is queued and the webhook is answered with 200.
Acknowledge(r) ==
    /\ req[r].pc = "acknowledge"
    /\ hooks' = hooks \ {req[r].hook}
    /\ Answer(r)
    /\ UNCHANGED <<xendit, stored>>

-----------------------------------------------------------------------------
(* The plan's own webhooks save the whole subscription row they loaded, the  *)
(* columns of the cycles included.                                           *)

ActivatedSave(r) ==
    /\ req[r].pc = "planWrite" /\ req[r].hook = PlanMsg("activated")
    /\ sub' = [req[r].sub EXCEPT !.status = "ACTIVE"]
    /\ req' = [req EXCEPT ![r] = Acknowledging(req[r].hook)]
    /\ UNCHANGED <<xendit, hooks, cycle, book, renewed>>

\* The row of cycle n; that of a cycle before those of the model may be there or not.
Found(n) == n \in Cycle => cycle[n].status # "absent"
Missing(n) == n \in Cycle => cycle[n].status = "absent"

\* An ACTIVE subscription ends only if the row of its current cycle is found.
InactivatedSave(r) == LET q == req[r] IN
    /\ q.pc = "planWrite" /\ q.hook = PlanMsg("inactivated")
    /\ q.sub.status = "ACTIVE" => Found(q.sub.current)
    /\ sub' = [q.sub EXCEPT !.status = "INACTIVE"]
    /\ cycle' = [c \in Cycle |-> IF cycle[c].status = "SCHEDULED"
                                 THEN [cycle[c] EXCEPT !.status = "CANCELLED"] ELSE cycle[c]]
    /\ req' = [req EXCEPT ![r] = Acknowledging(req[r].hook)]
    /\ UNCHANGED <<xendit, hooks, book, renewed>>

\* Otherwise 404, and Xendit delivers again.
InactivatedWithoutCycle(r) == LET q == req[r] IN
    /\ q.pc = "planWrite" /\ q.hook = PlanMsg("inactivated")
    /\ q.sub.status = "ACTIVE" /\ Missing(q.sub.current)
    /\ Answer(r)
    /\ UNCHANGED <<xendit, hooks, stored>>

\* The process dies, or the database or Xendit is unreachable; what was committed stays.  A
\* delivery that fails before it commits has done nothing, as if it had not started.
Fail(r) ==
    /\ req[r].pc \in {"readBook", "writeBook", "history", "acknowledge"}
    /\ req[r].hook \in Message
    /\ Answer(r)
    /\ UNCHANGED <<xendit, hooks, stored>>

-----------------------------------------------------------------------------
Handle(r) ==
    \/ ReadCycle(r) \/ InsertCycle(r) \/ InsertRefused(r) \/ UpdateCycle(r)
    \/ ReadBook(r) \/ WriteBook(r) \/ History(r) \/ Acknowledge(r)
    \/ ActivatedSave(r) \/ InactivatedSave(r) \/ InactivatedWithoutCycle(r)

Next ==
    \/ \E c \in Cycle : Schedule(c) \/ Retry(c) \/ GiveUp(c) \/ Succeed(c)
    \/ EndPlan
    \/ \E r \in Request : Handle(r) \/ Fail(r) \/ \E m \in hooks : Deliver(r, m)

\* The server finishes what it started, and Xendit delivers what is not answered.
Fairness ==
    /\ \A r \in Request : WF_vars(Handle(r))
    /\ \A m \in Message : SF_vars(\E r \in Request : Deliver(r, m))

Spec == Init /\ [][Next]_vars

FairSpec == Spec /\ Fairness

-----------------------------------------------------------------------------
(***************************************************************************)
(* What is stored was reported: a cycle's row says SUCCEEDED or FAILED only *)
(* if Xendit settled that cycle so, whichever of its webhooks were late,    *)
(* repeated or handled at once, and currentCycle is 1 or a cycle that       *)
(* Xendit charged, also after a plan webhook wrote an older value back      *)
(* (createOrUpdateSubscriptionCycle, handleRecurringActivated).             *)
(***************************************************************************)
StoredWasReported ==
    /\ \A c \in Cycle :
        /\ cycle[c].status = "SUCCEEDED" => charge[c] = "succeeded"
        /\ cycle[c].status = "FAILED" => charge[c] = "failed"
        /\ cycle[c].status = "CANCELLED" => plan = "ended"
    /\ sub.current # 1 => charge[sub.current] = "succeeded"

(***************************************************************************)
(* A renewal is announced at most once, and only if its transaction is      *)
(* booked, although history and mail follow the two commits and Xendit      *)
(* repeats what fails in between (handleRecurringCycleSucceeded).           *)
(***************************************************************************)
RenewedOnce == \A c \in Cycle :
    /\ renewed[c].SUCCEEDED + renewed[c].FAILED <= 1
    /\ renewed[c].SUCCEEDED = 1 => book[c] = "PAID"

\* Failures stop at some time.
FailuresEnd == <>[][\A r \in Request : ~Fail(r)]_vars

(***************************************************************************)
(* If Xendit delivers each cycle's webhooks in order and failures stop,     *)
(* every settled cycle is in the end stored as settled and stays so: the    *)
(* transaction that cannot be made and the repeated deliveries do not lose  *)
(* it (createOrUpdateSubscriptionCycle commits before the transaction).     *)
(***************************************************************************)
SettledIsStored == ordered /\ FailuresEnd => <>[](\A c \in Cycle :
    /\ charge[c] = "succeeded" => cycle[c].status = "SUCCEEDED"
    /\ charge[c] = "failed" => cycle[c].status = "FAILED")

Settlement(e) == CASE e = "none" -> "none" [] e = "PAID" -> "succeeded" [] e = "FAILED" -> "failed"

(***************************************************************************)
(* The transactions form a ledger: one entry at most for a cycle, made      *)
(* after Xendit settled it, saying how, and never changed                   *)
(* (createOrGetTransactionBySubscriptionCycle).                             *)
(***************************************************************************)
TheLedger == INSTANCE Ledger WITH
    outcome <- [c \in Cycle |-> IF charge[c] \in {"succeeded", "failed"} THEN charge[c] ELSE "open"],
    book <- [c \in Cycle |-> Settlement(book[c])]

ImplementsLedger == TheLedger!Spec

(***************************************************************************)
(* recurring.cycle.succeeded is to create "new transaction" and history     *)
(* (comment in handleRecurringCycle): in the end every paid cycle whose     *)
(* webhooks arrive in order has its transaction.                            *)
(***************************************************************************)
PaidIsBooked == ordered /\ FailuresEnd => <>[](\A c \in Cycle :
    charge[c] = "succeeded" => book[c] = "PAID")
=============================================================================
