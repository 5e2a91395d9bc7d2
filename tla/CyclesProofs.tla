----------------------------- MODULE CyclesProofs -----------------------------
(***************************************************************************)
(* Proofs about Cycles, for any number of cycles, deliveries and failures    *)
(* and in any order of webhooks.  Two facts carry the argument.  A webhook   *)
(* says how Xendit settled its cycle, which is final, so what it leaves in   *)
(* the rows stays true.  And only the delivery that inserts a cycle's row    *)
(* goes on to the transaction: a row that holds its reference holds the      *)
(* action id too, so a later delivery does not load the payment method.      *)
(***************************************************************************)
EXTENDS Cycles, TLAPS

\* What a webhook says of its cycle, or of the plan, is so.
Reported(m) ==
    /\ m \in Message => /\ m.event = "succeeded" => charge[m.cycle] = "succeeded"
                        /\ m.event = "failed" => charge[m.cycle] = "failed"
    /\ m = PlanMsg("inactivated") => plan = "ended"

\* The cycle is stored by q, which is on its way to the transaction and the history.
Booking(q) == q.pc \in {"readBook", "writeBook", "history"}

NotRenewed(c) == renewed[c].SUCCEEDED = 0 /\ renewed[c].FAILED = 0

\* What q has read is true, and what it is about to write will be.
InProgress(q) ==
    /\ Reported(q.hook)
    /\ q.sub.current # 1 => charge[q.sub.current] = "succeeded"
    /\ q.pc \in {"readCycle", "writeCycle"} => q.hook \in Message
    /\ q.pc = "writeCycle" => (q.row.ref => q.row.seen) /\ (q.loaded => ~q.row.seen)
    /\ Booking(q) => /\ q.hook \in Message /\ Resolves(q.hook)
                     /\ q.row.status = StatusOf(q.hook)
                     /\ cycle[q.hook.cycle].status # "absent"
                     /\ NotRenewed(q.hook.cycle)
                     /\ book[q.hook.cycle] = IF q.pc = "history" THEN EntryStatus(StatusOf(q.hook))
                                                                 ELSE "none"

\* The rows of cycle c.
Sound(c) ==
    /\ cycle[c].status = "SUCCEEDED" => charge[c] = "succeeded"
    /\ cycle[c].status = "FAILED" => charge[c] = "failed"
    /\ cycle[c].status = "CANCELLED" => plan = "ended"
    /\ cycle[c].ref => cycle[c].seen
    /\ cycle[c].status = "absent" => book[c] = "none" /\ NotRenewed(c)
    /\ renewed[c].SUCCEEDED + renewed[c].FAILED <= 1
    /\ renewed[c].SUCCEEDED = 1 => book[c] = "PAID"

\* Two deliveries never book one cycle.
Alone == \A r, x \in Request :
    Booking(req[r]) /\ Booking(req[x]) /\ req[r].hook.cycle = req[x].hook.cycle => r = x

IInv ==
    /\ TypeOK
    /\ \A m \in hooks : Reported(m)
    /\ \A r \in Request : InProgress(req[r])
    /\ \A c \in Cycle : Sound(c)
    /\ sub.current # 1 => charge[sub.current] = "succeeded"
    /\ Alone

LEMMA Initially == Init => IInv
<1> SUFFICES ASSUME Init PROVE IInv
    OBVIOUS
<1>1. NewSub \in Sub /\ NoRow \in Row
    BY DEF NewSub, Sub, NoRow, Row, Status
<1>2. Idle \in RequestState /\ Idle.pc = "idle" /\ Idle.hook = PlanMsg("none") /\ Idle.sub.current = 1
    BY <1>1 DEF Idle, RequestState, NewSub
<1>3. TypeOK
    BY <1>1, <1>2 DEF Init, TypeOK, PlanMessage, PlanMsg, Entry
<1>4. PlanMsg("none").event = "none" /\ PlanMsg("activated").event = "activated"
      /\ PlanMsg("inactivated").event = "inactivated"
    BY DEF PlanMsg
<1>5. \A m \in hooks : Reported(m)
    BY <1>4 DEF Init, Reported, PlanMsg
<1>6. \A r \in Request : InProgress(req[r]) /\ ~Booking(req[r])
    BY <1>2, <1>4 DEF Init, InProgress, Reported, Booking
<1>7. \A c \in Cycle : Sound(c)
    BY DEF Init, Sound, NotRenewed, NoRow
<1> QED BY <1>3, <1>5, <1>6, <1>7 DEF IInv, Alone, Init, NewSub

-----------------------------------------------------------------------------
(* Steps of Xendit: the requests and the rows stay, and a settled cycle is final. *)

Final ==
    /\ \A c \in Cycle : charge[c] \in {"succeeded", "failed"} => charge'[c] = charge[c]
    /\ plan = "ended" => plan' = "ended"

LEMMA ReportedStays ==
    ASSUME NEW m, Reported(m), Final PROVE Reported(m)'
BY DEF Reported, Final, Message

\* What requests have read.
LEMMA Fields ==
    ASSUME NEW q \in RequestState
    PROVE  /\ q.hook \in Message \cup PlanMessage \cup {PlanMsg("none")}
           /\ q.row \in Row /\ q.sub \in Sub /\ q.loaded \in BOOLEAN
           /\ q.sub.current \in Cycle \cup {1}
BY DEF RequestState, Sub

LEMMA XenditKeeps ==
    ASSUME IInv, Final, UNCHANGED <<stored, req>>,
           charge' \in [Cycle -> {"none", "scheduled", "retrying", "succeeded", "failed", "cancelled"}],
           plan' \in {"active", "ended"}, ordered' = ordered,
           hooks' \subseteq Message \cup PlanMessage,
           \A m \in hooks' \ hooks : Reported(m)'
    PROVE  IInv'
<1>1. TypeOK'
    BY DEF IInv, TypeOK, stored
<1>2. \A m \in hooks' : Reported(m)'
    BY ReportedStays DEF IInv
<1>3. \A r \in Request : InProgress(req[r])'
    <2> SUFFICES ASSUME NEW r \in Request PROVE InProgress(req[r])'
        OBVIOUS
    <2>1. InProgress(req[r]) /\ req[r] \in RequestState /\ req'[r] = req[r]
        BY DEF IInv, TypeOK
    <2>2. Reported(req[r].hook)'
        <3>1. Reported(req[r].hook)
            BY <2>1 DEF InProgress
        <3>2. req'[r].hook = req[r].hook
            BY <2>1
        <3> QED BY <3>1, <3>2, ReportedStays DEF Reported
    <2>3. req'[r].sub.current # 1 => charge'[req'[r].sub.current] = "succeeded"
        BY <2>1, Fields DEF InProgress, Final
    <2> QED BY <2>1, <2>2, <2>3 DEF InProgress, Booking, NotRenewed, stored
<1>4. \A c \in Cycle : Sound(c)'
    BY DEF IInv, Sound, NotRenewed, stored, Final
<1>5. sub'.current # 1 => charge'[sub'.current] = "succeeded"
    <2>1. sub.current \in Cycle \cup {1}
        BY DEF IInv, TypeOK, Sub
    <2> QED BY <2>1 DEF IInv, stored, Final
<1>6. Alone'
    BY DEF IInv, Alone, Booking
<1> QED BY <1>1, <1>2, <1>3, <1>4, <1>5, <1>6 DEF IInv

LEMMA XenditStep ==
    ASSUME IInv, NEW c \in Cycle, Schedule(c) \/ Retry(c) \/ GiveUp(c) \/ Succeed(c)
    PROVE  IInv' /\ Final
<1> USE DEF Msg
<1>1. charge \in [Cycle -> {"none", "scheduled", "retrying", "succeeded", "failed", "cancelled"}]
      /\ hooks \subseteq Message \cup PlanMessage /\ plan \in {"active", "ended"}
    BY DEF IInv, TypeOK
<1>2. UNCHANGED <<plan, ordered, stored, req>>
    BY DEF Schedule, Retry, GiveUp, Succeed
<1>3. Final
    BY <1>1, <1>2 DEF Schedule, Retry, GiveUp, Succeed, Final
<1>4. charge' \in [Cycle -> {"none", "scheduled", "retrying", "succeeded", "failed", "cancelled"}]
    BY <1>1 DEF Schedule, Retry, GiveUp, Succeed
<1>5. hooks' \subseteq Message \cup PlanMessage
    BY <1>1 DEF Schedule, Retry, GiveUp, Succeed, Message
<1>6. \A m \in hooks' \ hooks : Reported(m)'
    <2>1. CASE Schedule(c) \/ Retry(c)
        BY <2>1 DEF Schedule, Retry, Reported, PlanMsg
    <2>2. CASE GiveUp(c)
        BY <2>2, <1>1 DEF GiveUp, Reported, PlanMsg
    <2>3. CASE Succeed(c)
        BY <2>3, <1>1 DEF Succeed, Reported, PlanMsg
    <2> QED BY <2>1, <2>2, <2>3
<1> QED BY <1>1, <1>2, <1>3, <1>4, <1>5, <1>6, XenditKeeps

LEMMA EndPlanStep ==
    ASSUME IInv, EndPlan PROVE IInv' /\ Final
<1>1. charge \in [Cycle -> {"none", "scheduled", "retrying", "succeeded", "failed", "cancelled"}]
      /\ hooks \subseteq Message \cup PlanMessage
    BY DEF IInv, TypeOK
<1>2. Final
    BY <1>1 DEF EndPlan, Final
<1>3. charge' \in [Cycle -> {"none", "scheduled", "retrying", "succeeded", "failed", "cancelled"}]
    BY <1>1 DEF EndPlan
<1>4. hooks' \subseteq Message \cup PlanMessage
    BY <1>1 DEF EndPlan, PlanMessage, PlanMsg
<1>5. \A m \in hooks' \ hooks : Reported(m)'
    BY DEF EndPlan, Reported, PlanMsg
<1> QED BY <1>2, <1>3, <1>4, <1>5, XenditKeeps DEF EndPlan

-----------------------------------------------------------------------------
(* Steps of one delivery: Xendit's side stays, and the other deliveries find  *)
(* what they rely on.                                                       *)

LEMMA DeliveryKeeps ==
    ASSUME IInv, NEW r \in Request, NEW q \in RequestState, req' = [req EXCEPT ![r] = q],
           UNCHANGED xendit, hooks' \subseteq hooks,
           cycle' \in [Cycle -> Row], book' \in [Cycle -> Entry], sub' \in Sub,
           renewed' \in [Cycle -> [SUCCEEDED : 0..2, FAILED : 0..2]],
           InProgress(q)', \A c \in Cycle : Sound(c)',
           sub'.current # 1 => charge[sub'.current] = "succeeded",
           \A c \in Cycle : cycle[c].status # "absent" => cycle'[c].status # "absent",
           \A x \in Request \ {r} : Booking(req[x]) =>
               /\ book'[req[x].hook.cycle] = book[req[x].hook.cycle]
               /\ renewed'[req[x].hook.cycle] = renewed[req[x].hook.cycle]
               /\ Booking(q) => q.hook.cycle # req[x].hook.cycle
    PROVE  IInv'
<1>1. req \in [Request -> RequestState] /\ charge' = charge /\ plan' = plan /\ ordered' = ordered
    BY DEF IInv, TypeOK, xendit
<1>2. req' \in [Request -> RequestState] /\ req'[r] = q
      /\ \A x \in Request \ {r} : req'[x] = req[x]
    BY <1>1
<1>3. TypeOK'
    BY <1>1, <1>2 DEF IInv, TypeOK
<1>4. \A m \in hooks' : Reported(m)'
    BY <1>1 DEF IInv, Reported
<1>5. \A x \in Request : InProgress(req[x])'
    <2> SUFFICES ASSUME NEW x \in Request \ {r} PROVE InProgress(req[x])'
        BY <1>2 DEF InProgress, Reported, Booking, NotRenewed
    <2>1. InProgress(req[x]) /\ req'[x] = req[x]
        BY <1>2 DEF IInv
    <2>2. Booking(req[x]) => cycle'[req[x].hook.cycle].status # "absent"
        BY <2>1 DEF InProgress, Message
    <2> QED BY <1>1, <2>1, <2>2 DEF InProgress, Reported, Booking, NotRenewed
<1>6. Alone'
    BY <1>2 DEF IInv, Alone, Booking
<1> QED BY <1>1, <1>3, <1>4, <1>5, <1>6 DEF IInv

\* A delivery that ends or goes back to Xendit holds nothing.
LEMMA Ends ==
    /\ Idle \in RequestState /\ ~Booking(Idle) /\ InProgress(Idle)'
    /\ \A m \in Message \cup PlanMessage :
           /\ Acknowledging(m) \in RequestState /\ ~Booking(Acknowledging(m))
           /\ Acknowledging(m).hook = m /\ Acknowledging(m).sub.current = 1
           /\ Acknowledging(m).pc = "acknowledge"
<1>1. NewSub \in Sub /\ NoRow \in Row /\ NewSub.current = 1
    BY DEF NewSub, Sub, NoRow, Row, Status
<1>2. Idle \in RequestState /\ Idle.pc = "idle" /\ Idle.hook = PlanMsg("none") /\ Idle.sub = NewSub
      /\ Idle.row = NoRow /\ Idle.loaded = FALSE
    BY <1>1 DEF Idle, RequestState
<1>3. InProgress(Idle)' /\ ~Booking(Idle)
    BY <1>1, <1>2 DEF InProgress, Reported, Booking, PlanMsg
<1>4. ASSUME NEW m \in Message \cup PlanMessage
      PROVE  /\ Acknowledging(m) \in RequestState /\ ~Booking(Acknowledging(m))
             /\ Acknowledging(m).hook = m /\ Acknowledging(m).sub.current = 1
             /\ Acknowledging(m).pc = "acknowledge"
    BY <1>1, <1>2 DEF Acknowledging, RequestState, Booking
<1> QED BY <1>2, <1>3, <1>4

\* Steps that leave the rows alone.
LEMMA MoveKeeps ==
    ASSUME IInv, NEW r \in Request, NEW q \in RequestState, req' = [req EXCEPT ![r] = q],
           UNCHANGED <<xendit, stored>>, hooks' \subseteq hooks, InProgress(q)',
           Booking(q) => Booking(req[r]) /\ q.hook = req[r].hook
    PROVE  IInv'
<1>1. \A c \in Cycle : Sound(c)'
    BY DEF IInv, Sound, NotRenewed, stored, xendit
<1>2. /\ cycle' \in [Cycle -> Row] /\ book' \in [Cycle -> Entry] /\ sub' \in Sub
      /\ renewed' \in [Cycle -> [SUCCEEDED : 0..2, FAILED : 0..2]]
    BY DEF IInv, TypeOK, stored
<1>3. \A x \in Request \ {r} : Booking(req[x]) /\ Booking(q) => q.hook.cycle # req[x].hook.cycle
    BY DEF IInv, Alone
<1>4. sub'.current # 1 => charge[sub'.current] = "succeeded"
    BY DEF IInv, stored
<1>5. cycle' = cycle /\ book' = book /\ renewed' = renewed /\ UNCHANGED xendit
    BY DEF stored
<1> QED BY <1>1, <1>2, <1>3, <1>4, <1>5, DeliveryKeeps

-----------------------------------------------------------------------------
(* One lemma for each action of a delivery. *)

LEMMA DeliverStep ==
    ASSUME IInv, NEW r \in Request, NEW m \in hooks, Deliver(r, m) PROVE IInv'
<1>0. PICK s \in Sub : s = sub
    BY DEF IInv, TypeOK
<1> DEFINE q == [Idle EXCEPT !.pc = IF m \in Message THEN "readCycle" ELSE "planWrite",
                             !.hook = m, !.sub = IF m \in Message THEN NewSub ELSE s]
<1>1. m \in Message \cup PlanMessage /\ NewSub \in Sub /\ NewSub.current = 1
    BY DEF IInv, TypeOK, NewSub, Sub
<1>2. Idle \in RequestState
    BY Ends
<1>3. q \in RequestState /\ q.hook = m /\ q.pc = (IF m \in Message THEN "readCycle" ELSE "planWrite")
      /\ q.sub = IF m \in Message THEN NewSub ELSE s
    BY <1>1, <1>2 DEF RequestState
<1>4. charge' = charge /\ plan' = plan /\ Reported(m)
    BY DEF Deliver, xendit, IInv
<1>5. InProgress(q)' /\ ~Booking(q)
    <2> HIDE DEF q
    <2> QED BY <1>0, <1>1, <1>3, <1>4 DEF InProgress, Reported, Booking, IInv
<1>6. req' = [req EXCEPT ![r] = q] /\ UNCHANGED <<xendit, hooks, stored>>
    BY <1>0 DEF Deliver
<1> HIDE DEF q
<1> QED BY <1>3, <1>5, <1>6, MoveKeeps

LEMMA ReadCycleStep ==
    ASSUME IInv, NEW r \in Request, ReadCycle(r) PROVE IInv'
<1>0. PICK p \in RequestState : p = req[r]
    BY DEF IInv, TypeOK
<1> DEFINE m == p.hook
<1>2. InProgress(p) /\ m \in Message /\ m.cycle \in Cycle
    BY <1>0 DEF IInv, InProgress, ReadCycle, Message
<1>3. PICK row \in Row : row = cycle[m.cycle] /\ (row.ref => row.seen)
    BY <1>2 DEF IInv, TypeOK, Sound
<1>1. PICK known \in {TRUE, MethodKnown} :
        req' = [req EXCEPT ![r] = [p EXCEPT !.pc = "writeCycle", !.row = row,
                  !.loaded = Resolves(m) /\ ~row.seen /\ known]]
    BY <1>0, <1>3 DEF ReadCycle, IInv, TypeOK
<1> DEFINE q == [p EXCEPT !.pc = "writeCycle", !.row = row,
                  !.loaded = Resolves(m) /\ ~row.seen /\ known]
<1>4. known \in BOOLEAN
    BY CyclesAssumption
<1>5. q \in RequestState /\ q.hook = m /\ q.sub = p.sub /\ q.pc = "writeCycle"
      /\ q.row = row /\ q.loaded = (Resolves(m) /\ ~row.seen /\ known)
    BY <1>4 DEF RequestState, Resolves
<1>6. UNCHANGED <<xendit, hooks, stored>> /\ charge' = charge /\ plan' = plan
    BY DEF ReadCycle, xendit
<1>7. InProgress(q)' /\ ~Booking(q)
    <2> HIDE DEF q
    <2> QED BY <1>2, <1>3, <1>5, <1>6 DEF InProgress, Reported, Booking
<1>8. req' = [req EXCEPT ![r] = q]
    BY <1>1
<1> HIDE DEF q
<1> QED BY <1>5, <1>6, <1>7, <1>8, MoveKeeps

LEMMA EndStep ==
    ASSUME IInv, NEW r \in Request, Answer(r), UNCHANGED <<xendit, stored>>, hooks' \subseteq hooks
    PROVE  IInv'
BY Ends, MoveKeeps DEF Answer

LEMMA InsertCycleStep ==
    ASSUME IInv, NEW r \in Request, InsertCycle(r) PROVE IInv'
<1>0. PICK p \in RequestState : p = req[r]
    BY DEF IInv, TypeOK
<1> DEFINE m == p.hook
           c == m.cycle
           new == [status |-> StatusOf(m), ref |-> Resolves(m), seen |-> Resolves(m)]
           q == IF m.event \in {"created", "retrying"} THEN Acknowledging(m)
                ELSE IF p.loaded /\ new.ref THEN [p EXCEPT !.pc = "readBook", !.row = new]
                ELSE Idle
<1>1. InProgress(p) /\ m \in Message /\ c \in Cycle
      /\ m.event \in {"created", "retrying", "succeeded", "failed"}
    BY <1>0 DEF IInv, InProgress, InsertCycle, Message
<1>2. new \in Row /\ new.status = StatusOf(m) /\ new.ref = new.seen /\ new.ref = Resolves(m)
      /\ new.status \in Status \ {"CANCELLED"}
    BY <1>1 DEF Row, StatusOf, Resolves, Status
<1>3. cycle' = [cycle EXCEPT ![c] = new] /\ cycle[c].status = "absent" /\ cycle \in [Cycle -> Row]
    BY <1>0 DEF InsertCycle, IInv, TypeOK
<1>4. req' = [req EXCEPT ![r] = q]
    BY <1>0 DEF InsertCycle, Continue
<1>5. sub' \in Sub /\ sub'.current = sub.current
    <2>1. sub \in Sub
        BY DEF IInv, TypeOK
    <2> QED BY <2>1, <1>0, <1>1 DEF InsertCycle, Sub
<1>6. UNCHANGED <<xendit, hooks, book, renewed>> /\ charge' = charge /\ plan' = plan
    BY DEF InsertCycle, xendit
<1>7. book[c] = "none" /\ NotRenewed(c) /\ \A x \in Request : ~(Booking(req[x]) /\ req[x].hook.cycle = c)
    BY <1>1, <1>3 DEF IInv, Sound, InProgress
<1>8. q \in RequestState
    BY <1>1, <1>2, Ends DEF RequestState
<1>9. InProgress(q)' /\ (Booking(q) => q.hook.cycle = c)
    <2>1. CASE m.event \in {"created", "retrying"}
        BY <2>1, <1>1, <1>6, Ends DEF InProgress, Reported
    <2>2. CASE ~(m.event \in {"created", "retrying"}) /\ ~(p.loaded /\ new.ref)
        BY <2>2, Ends
    <2>3. CASE ~(m.event \in {"created", "retrying"}) /\ p.loaded /\ new.ref
        <3>1. q = [p EXCEPT !.pc = "readBook", !.row = new]
            BY <2>3
        <3>2. q.pc = "readBook" /\ q.row = new /\ q.hook = m /\ q.sub = p.sub
            BY <3>1, <1>1 DEF RequestState
        <3>3. cycle'[c] = new /\ new.status # "absent" /\ NotRenewed(c)'
            BY <1>1, <1>2, <1>3, <1>6, <1>7 DEF NotRenewed, Status
        <3> HIDE DEF q, new, m, c
        <3>4. InProgress(q)'
            BY <3>2, <3>3, <2>3, <1>1, <1>2, <1>6, <1>7 DEF InProgress, Reported, Booking, c, m
        <3> QED BY <3>2, <3>4 DEF c
    <2> QED BY <2>1, <2>2, <2>3
<1>10. \A d \in Cycle : Sound(d)'
    <2> SUFFICES ASSUME NEW d \in Cycle PROVE Sound(d)'
        OBVIOUS
    <2>1. CASE d # c
        <3>1. cycle'[d] = cycle[d]
            BY <2>1, <1>3
        <3> QED BY <3>1, <1>6 DEF IInv, Sound, NotRenewed
    <2>2. CASE d = c
        <3>1. cycle'[d] = new /\ Reported(m)
            BY <2>2, <1>1, <1>3 DEF InProgress
        <3>2. /\ new.status = "SUCCEEDED" => charge[c] = "succeeded"
              /\ new.status = "FAILED" => charge[c] = "failed"
            BY <3>1, <1>1, <1>2 DEF Reported, StatusOf
        <3> QED BY <2>2, <3>1, <3>2, <1>2, <1>6, <1>7 DEF IInv, Sound, NotRenewed, Status
    <2> QED BY <2>1, <2>2
<1>11. \A d \in Cycle : cycle[d].status # "absent" => cycle'[d].status # "absent"
    BY <1>3
<1>12. /\ cycle' \in [Cycle -> Row] /\ book' \in [Cycle -> Entry]
       /\ renewed' \in [Cycle -> [SUCCEEDED : 0..2, FAILED : 0..2]]
    BY <1>2, <1>3, <1>6 DEF IInv, TypeOK
<1>13. sub'.current # 1 => charge[sub'.current] = "succeeded"
    BY <1>5 DEF IInv
<1>14. \A x \in Request \ {r} : Booking(req[x]) => /\ Booking(q) => q.hook.cycle # req[x].hook.cycle
    BY <1>7, <1>9
<1> HIDE DEF q
<1> QED BY <1>4, <1>5, <1>6, <1>8, <1>9, <1>10, <1>11, <1>12, <1>13, <1>14, DeliveryKeeps

LEMMA UpdateCycleStep ==
    ASSUME IInv, NEW r \in Request, UpdateCycle(r) PROVE IInv'
<1>0. PICK p \in RequestState : p = req[r]
    BY DEF IInv, TypeOK
<1> DEFINE m == p.hook
           c == m.cycle
           merged == [p.row EXCEPT !.status = StatusOf(m), !.seen = @ \/ Resolves(m)]
           q == IF m.event \in {"created", "retrying"} THEN Acknowledging(m) ELSE Idle
<1>1. InProgress(p) /\ p.pc = "writeCycle" /\ m \in Message /\ c \in Cycle
      /\ m.event \in {"created", "retrying", "succeeded", "failed"}
    BY <1>0 DEF IInv, InProgress, UpdateCycle, Message
<1>2. p.row \in Row /\ (p.row.ref => p.row.seen) /\ ~(p.loaded /\ p.row.ref)
    BY <1>1, Fields DEF InProgress
<1>3. /\ merged \in Row /\ merged.status = StatusOf(m) /\ merged.ref = p.row.ref
      /\ merged.ref => merged.seen
      /\ merged.status \in Status \ {"CANCELLED"} /\ merged.status # "absent"
    BY <1>1, <1>2 DEF Row, StatusOf, Resolves, Status
<1>4. cycle' = [cycle EXCEPT ![c] = merged] /\ cycle \in [Cycle -> Row]
    BY <1>0 DEF UpdateCycle, IInv, TypeOK
<1>5. req' = [req EXCEPT ![r] = q]
    BY <1>0, <1>2, <1>3 DEF UpdateCycle, Continue
<1>6. UNCHANGED <<xendit, hooks, book, renewed>> /\ charge' = charge /\ plan' = plan
    BY DEF UpdateCycle, xendit
<1>7. sub' \in Sub /\ (sub'.current # 1 => charge[sub'.current] = "succeeded")
    <2>1. sub \in Sub /\ sub' = Advance(m)
        BY <1>0 DEF IInv, TypeOK, UpdateCycle
    <2>2. CASE m.event = "succeeded"
        <3>1. sub' \in Sub /\ sub'.current = c
            BY <2>1, <2>2, <1>1 DEF Advance, Sub
        <3> QED BY <2>2, <3>1, <1>1 DEF InProgress, Reported
    <2>3. CASE m.event # "succeeded"
        <3>1. sub' \in Sub /\ sub'.current = sub.current
            BY <2>1, <2>3, <1>1 DEF Advance, Sub
        <3> QED BY <3>1 DEF IInv
    <2> QED BY <2>2, <2>3
<1>8. q \in RequestState /\ ~Booking(q) /\ InProgress(q)'
    BY <1>1, <1>6, Ends DEF InProgress, Reported
<1>9. \A d \in Cycle : Sound(d)'
    <2> SUFFICES ASSUME NEW d \in Cycle PROVE Sound(d)'
        OBVIOUS
    <2>1. CASE d # c
        <3>1. cycle'[d] = cycle[d]
            BY <2>1, <1>4
        <3> QED BY <3>1, <1>6 DEF IInv, Sound, NotRenewed
    <2>2. CASE d = c
        <3>1. cycle'[d] = merged /\ Reported(m)
            BY <2>2, <1>1, <1>4 DEF InProgress
        <3>2. /\ merged.status = "SUCCEEDED" => charge[c] = "succeeded"
              /\ merged.status = "FAILED" => charge[c] = "failed"
            BY <3>1, <1>1, <1>3 DEF Reported, StatusOf
        <3> QED BY <2>2, <3>1, <3>2, <1>3, <1>6 DEF IInv, Sound, NotRenewed
    <2> QED BY <2>1, <2>2
<1>10. \A d \in Cycle : cycle[d].status # "absent" => cycle'[d].status # "absent"
    BY <1>3, <1>4
<1>11. /\ cycle' \in [Cycle -> Row] /\ book' \in [Cycle -> Entry]
       /\ renewed' \in [Cycle -> [SUCCEEDED : 0..2, FAILED : 0..2]]
    BY <1>3, <1>4, <1>6 DEF IInv, TypeOK
<1> HIDE DEF q
<1> QED BY <1>5, <1>6, <1>7, <1>8, <1>9, <1>10, <1>11, DeliveryKeeps

LEMMA ReadBookStep ==
    ASSUME IInv, NEW r \in Request, ReadBook(r) PROVE IInv'
<1>1. PICK p \in RequestState : p = req[r]
    BY DEF IInv, TypeOK
<1> DEFINE q == [p EXCEPT !.pc = "writeBook"]
<1>2. InProgress(p) /\ p.pc = "readBook" /\ book[p.hook.cycle] = "none" /\ Booking(p)
    BY <1>1 DEF IInv, InProgress, ReadBook, Booking
<1>3. req' = [req EXCEPT ![r] = q] /\ UNCHANGED <<xendit, hooks, stored>>
    BY <1>1, <1>2 DEF ReadBook, Goto
<1>4. /\ q \in RequestState /\ q.pc = "writeBook"
      /\ q.hook = p.hook /\ q.sub = p.sub /\ q.row = p.row
    BY DEF RequestState
<1> HIDE DEF q
<1>5. InProgress(q)'
    BY <1>2, <1>3, <1>4 DEF InProgress, Reported, Booking, NotRenewed, xendit, stored
<1> QED BY <1>1, <1>2, <1>3, <1>4, <1>5, MoveKeeps

LEMMA WriteBookStep ==
    ASSUME IInv, NEW r \in Request, WriteBook(r)
    PROVE  /\ IInv'
           /\ \E c \in Cycle : /\ book[c] = "none"
                               /\ \/ charge[c] = "succeeded" /\ book' = [book EXCEPT ![c] = "PAID"]
                                  \/ charge[c] = "failed" /\ book' = [book EXCEPT ![c] = "FAILED"]
<1>0. PICK p \in RequestState : p = req[r]
    BY DEF IInv, TypeOK
<1> DEFINE m == p.hook
           c == m.cycle
           e == EntryStatus(StatusOf(m))
           q == [p EXCEPT !.pc = "history"]
<1>1. InProgress(p) /\ p.pc = "writeBook" /\ Booking(p) /\ m \in Message /\ c \in Cycle
      /\ m.event \in {"succeeded", "failed"}
    BY <1>0 DEF IInv, InProgress, Booking, WriteBook, Message, Resolves
<1>2. book[c] = "none" /\ NotRenewed(c) /\ cycle[c].status # "absent" /\ p.row.status = StatusOf(m)
    BY <1>1 DEF InProgress
<1>3. /\ book' = [book EXCEPT ![c] = e] /\ req' = [req EXCEPT ![r] = q]
      /\ UNCHANGED <<xendit, hooks, cycle, renewed, sub>> /\ charge' = charge /\ plan' = plan
    BY <1>0, <1>2 DEF WriteBook, Goto, xendit
<1>4. \/ e = "PAID" /\ charge[c] = "succeeded"
      \/ e = "FAILED" /\ charge[c] = "failed"
    BY <1>1 DEF InProgress, Reported, EntryStatus, StatusOf
<1>5. book \in [Cycle -> Entry]
    BY DEF IInv, TypeOK
<1>6. book' \in [Cycle -> Entry] /\ book'[c] = e
    BY <1>1, <1>3, <1>4, <1>5 DEF Entry
<1>7. q \in RequestState /\ q.pc = "history" /\ q.hook = m /\ q.sub = p.sub /\ q.row = p.row
    BY DEF RequestState
<1>8. \A d \in Cycle : Sound(d)'
    <2>1. \A d \in Cycle : d # c => book'[d] = book[d]
        BY <1>3, <1>5
    <2> QED BY <2>1, <1>2, <1>3, <1>6 DEF IInv, Sound, NotRenewed
<1>9. \A x \in Request \ {r} : Booking(req[x]) =>
          req[x].hook.cycle \in Cycle /\ req[x].hook.cycle # c
    <2> SUFFICES ASSUME NEW x \in Request \ {r}, Booking(req[x])
                 PROVE  req[x].hook.cycle \in Cycle /\ req[x].hook.cycle # c
        OBVIOUS
    <2>1. req[x].hook \in Message
        BY DEF IInv, InProgress
    <2> QED BY <2>1, <1>0, <1>1 DEF IInv, Alone, Message
<1>10. \A x \in Request \ {r} : Booking(req[x]) => book'[req[x].hook.cycle] = book[req[x].hook.cycle]
    BY <1>3, <1>5, <1>9
<1>11. /\ cycle' \in [Cycle -> Row] /\ sub' \in Sub
       /\ renewed' \in [Cycle -> [SUCCEEDED : 0..2, FAILED : 0..2]]
    BY <1>3 DEF IInv, TypeOK
<1>12. sub'.current # 1 => charge[sub'.current] = "succeeded"
    BY <1>3 DEF IInv
<1>13. InProgress(q)'
    <2> HIDE DEF q
    <2> QED BY <1>1, <1>2, <1>3, <1>6, <1>7 DEF InProgress, Reported, Booking, NotRenewed
<1>14. IInv'
    <2>1. \A x \in Request \ {r} : Booking(req[x]) =>
               /\ book'[req[x].hook.cycle] = book[req[x].hook.cycle]
               /\ renewed'[req[x].hook.cycle] = renewed[req[x].hook.cycle]
               /\ Booking(q) => q.hook.cycle # req[x].hook.cycle
        BY <1>3, <1>7, <1>9, <1>10
    <2> HIDE DEF q
    <2> QED BY <1>3, <1>6, <1>7, <1>8, <1>11, <1>12, <1>13, <2>1, DeliveryKeeps
<1> QED BY <1>1, <1>2, <1>3, <1>4, <1>14

LEMMA HistoryStep ==
    ASSUME IInv, NEW r \in Request, History(r) PROVE IInv'
<1>0. PICK p \in RequestState : p = req[r]
    BY DEF IInv, TypeOK
<1> DEFINE m == p.hook
           c == m.cycle
           s == StatusOf(m)
           q == Acknowledging(m)
<1>1. InProgress(p) /\ p.pc = "history" /\ Booking(p) /\ m \in Message /\ c \in Cycle
      /\ m.event \in {"succeeded", "failed"}
    BY <1>0 DEF IInv, InProgress, Booking, History, Message, Resolves
<1>2. book[c] = EntryStatus(s) /\ NotRenewed(c) /\ cycle[c].status # "absent"
    BY <1>1 DEF InProgress
<1>3. /\ req' = [req EXCEPT ![r] = q]
      /\ UNCHANGED <<xendit, hooks, cycle, book, sub>> /\ charge' = charge /\ plan' = plan
    BY <1>0 DEF History, xendit
<1>4. renewed \in [Cycle -> [SUCCEEDED : 0..2, FAILED : 0..2]]
    BY DEF IInv, TypeOK
<1>5. PICK n : n = renewed[c]
    OBVIOUS
<1>6. n = [SUCCEEDED |-> 0, FAILED |-> 0]
    <2>1. n \in [SUCCEEDED : 0..2, FAILED : 0..2] /\ n.SUCCEEDED = 0 /\ n.FAILED = 0
        BY <1>1, <1>2, <1>4, <1>5 DEF NotRenewed
    <2> QED BY <2>1
<1> DEFINE k == IF m.event = "failed" THEN [SUCCEEDED |-> 0, FAILED |-> 1]
                                      ELSE [SUCCEEDED |-> 1, FAILED |-> 0]
<1>7. renewed' = renewed \/ renewed' = [renewed EXCEPT ![c] = k]
    <2>1. renewed' = renewed \/ renewed' = [renewed EXCEPT ![c] = [n EXCEPT ![s] = n[s] + 1]]
        BY <1>0, <1>1, <1>4, <1>5 DEF History
    <2>2. [n EXCEPT ![s] = n[s] + 1] = k
        BY <1>1, <1>6 DEF StatusOf
    <2> QED BY <2>1, <2>2
<1>8. \A d \in Cycle : Sound(d)'
    <2> SUFFICES ASSUME NEW d \in Cycle PROVE Sound(d)'
        OBVIOUS
    <2>1. CASE renewed'[d] = renewed[d]
        BY <2>1, <1>3 DEF IInv, Sound, NotRenewed
    <2>2. CASE renewed'[d] # renewed[d]
        <3>1. d = c /\ renewed'[c] = k
            BY <2>2, <1>1, <1>4, <1>7
        <3>2. k.SUCCEEDED + k.FAILED = 1 /\ (k.SUCCEEDED = 1 => s = "SUCCEEDED")
            BY <1>1 DEF StatusOf
        <3>3. k.SUCCEEDED = 1 => book[c] = "PAID"
            BY <3>2, <1>2 DEF EntryStatus
        <3> HIDE DEF k
        <3> QED BY <3>1, <3>2, <3>3, <1>2, <1>3 DEF IInv, Sound, NotRenewed
    <2> QED BY <2>1, <2>2
<1>9. \A x \in Request \ {r} : Booking(req[x]) =>
          req[x].hook.cycle \in Cycle /\ req[x].hook.cycle # c
    <2> SUFFICES ASSUME NEW x \in Request \ {r}, Booking(req[x])
                 PROVE  req[x].hook.cycle \in Cycle /\ req[x].hook.cycle # c
        OBVIOUS
    <2>1. req[x].hook \in Message
        BY DEF IInv, InProgress
    <2> QED BY <2>1, <1>0, <1>1 DEF IInv, Alone, Message
<1>10. \A x \in Request \ {r} : Booking(req[x]) => renewed'[req[x].hook.cycle] = renewed[req[x].hook.cycle]
    BY <1>4, <1>7, <1>9
<1>11. renewed' \in [Cycle -> [SUCCEEDED : 0..2, FAILED : 0..2]]
    <2>1. k \in [SUCCEEDED : 0..2, FAILED : 0..2]
        OBVIOUS
    <2> HIDE DEF k
    <2> QED BY <2>1, <1>4, <1>7
<1>12. cycle' \in [Cycle -> Row] /\ sub' \in Sub /\ book' \in [Cycle -> Entry]
       /\ (sub'.current # 1 => charge[sub'.current] = "succeeded")
    BY <1>3 DEF IInv, TypeOK
<1>13. q \in RequestState /\ ~Booking(q) /\ InProgress(q)'
    BY <1>1, <1>3, Ends DEF InProgress, Reported
<1> HIDE DEF q, k
<1> QED BY <1>3, <1>8, <1>10, <1>11, <1>12, <1>13, DeliveryKeeps

\* The plan's webhooks.
LEMMA ActivatedStep ==
    ASSUME IInv, NEW r \in Request, ActivatedSave(r) PROVE IInv'
<1>0. PICK p \in RequestState : p = req[r]
    BY DEF IInv, TypeOK
<1> DEFINE q == Acknowledging(p.hook)
<1>1. InProgress(p) /\ p.hook = PlanMsg("activated") /\ p.hook \in PlanMessage
    BY <1>0 DEF IInv, ActivatedSave, PlanMessage, PlanMsg
<1>2. /\ req' = [req EXCEPT ![r] = q] /\ sub' = [p.sub EXCEPT !.status = "ACTIVE"]
      /\ UNCHANGED <<xendit, hooks, cycle, book, renewed>> /\ charge' = charge /\ plan' = plan
    BY <1>0 DEF ActivatedSave, xendit
<1>3. sub' \in Sub /\ (sub'.current # 1 => charge[sub'.current] = "succeeded")
    BY <1>1, <1>2, Fields DEF Sub, InProgress
<1>4. q \in RequestState /\ ~Booking(q) /\ InProgress(q)'
    BY <1>1, <1>2, Ends DEF InProgress, Reported
<1>5. \A d \in Cycle : Sound(d)'
    BY <1>2 DEF IInv, Sound, NotRenewed
<1>6. /\ cycle' \in [Cycle -> Row] /\ book' \in [Cycle -> Entry]
      /\ renewed' \in [Cycle -> [SUCCEEDED : 0..2, FAILED : 0..2]]
    BY <1>2 DEF IInv, TypeOK
<1> HIDE DEF q
<1> QED BY <1>2, <1>3, <1>4, <1>5, <1>6, DeliveryKeeps

LEMMA InactivatedStep ==
    ASSUME IInv, NEW r \in Request, InactivatedSave(r) PROVE IInv'
<1>0. PICK p \in RequestState : p = req[r]
    BY DEF IInv, TypeOK
<1> DEFINE q == Acknowledging(p.hook)
<1>1. InProgress(p) /\ p.hook = PlanMsg("inactivated") /\ p.hook \in PlanMessage /\ plan = "ended"
    BY <1>0 DEF IInv, InProgress, Reported, InactivatedSave, PlanMessage, PlanMsg
<1>2. /\ req' = [req EXCEPT ![r] = q] /\ sub' = [p.sub EXCEPT !.status = "INACTIVE"]
      /\ UNCHANGED <<xendit, hooks, book, renewed>> /\ charge' = charge /\ plan' = plan
    BY <1>0 DEF InactivatedSave, xendit
<1>3. sub' \in Sub /\ (sub'.current # 1 => charge[sub'.current] = "succeeded")
    BY <1>1, <1>2, Fields DEF Sub, InProgress
<1>4. q \in RequestState /\ ~Booking(q) /\ InProgress(q)'
    BY <1>1, <1>2, Ends DEF InProgress, Reported
<1>5. cycle \in [Cycle -> Row]
    BY DEF IInv, TypeOK
<1>6. cycle' \in [Cycle -> Row] /\ \A d \in Cycle :
          \/ cycle'[d] = cycle[d]
          \/ /\ cycle[d].status = "SCHEDULED" /\ cycle'[d].status = "CANCELLED"
             /\ cycle'[d].ref = cycle[d].ref /\ cycle'[d].seen = cycle[d].seen
    BY <1>5 DEF InactivatedSave, Row, Status
<1>7. \A d \in Cycle : Sound(d)'
    BY <1>1, <1>2, <1>6 DEF IInv, Sound, NotRenewed
<1>8. /\ book' \in [Cycle -> Entry]
      /\ renewed' \in [Cycle -> [SUCCEEDED : 0..2, FAILED : 0..2]]
    BY <1>2 DEF IInv, TypeOK
<1> HIDE DEF q
<1> QED BY <1>2, <1>3, <1>4, <1>6, <1>7, <1>8, DeliveryKeeps

\* Whatever ends a delivery without a write.
LEMMA AnswerStep ==
    ASSUME IInv, NEW r \in Request,
           InsertRefused(r) \/ Acknowledge(r) \/ InactivatedWithoutCycle(r) \/ Fail(r)
    PROVE  IInv'
<1>1. Answer(r) /\ UNCHANGED <<xendit, stored>> /\ hooks' \subseteq hooks
    BY DEF InsertRefused, Acknowledge, InactivatedWithoutCycle, Fail
<1> QED BY <1>1, EndStep

-----------------------------------------------------------------------------
LEMMA Inductive == IInv /\ [Next]_vars => IInv'
<1> SUFFICES ASSUME IInv, [Next]_vars PROVE IInv'
    OBVIOUS
<1>1. CASE UNCHANGED vars
    BY <1>1 DEF vars, IInv, TypeOK, Reported, InProgress, Booking, Sound, NotRenewed, Alone
<1>2. CASE \E c \in Cycle : Schedule(c) \/ Retry(c) \/ GiveUp(c) \/ Succeed(c)
    BY <1>2, XenditStep
<1>3. CASE EndPlan
    BY <1>3, EndPlanStep
<1>4. ASSUME NEW r \in Request, Handle(r) PROVE IInv'
    BY <1>4, ReadCycleStep, InsertCycleStep, UpdateCycleStep, ReadBookStep, WriteBookStep,
       HistoryStep, ActivatedStep, InactivatedStep, AnswerStep DEF Handle
<1>5. ASSUME NEW r \in Request, Fail(r) PROVE IInv'
    BY <1>5, AnswerStep
<1>6. ASSUME NEW r \in Request, NEW m \in hooks, Deliver(r, m) PROVE IInv'
    BY <1>6, DeliverStep
<1> QED BY <1>1, <1>2, <1>3, <1>4, <1>5, <1>6 DEF Next

THEOREM Invariance == Spec => []IInv
BY Initially, Inductive, PTL DEF Spec

(***************************************************************************)
(* The types hold for any number of cycles and deliveries; that a renewal    *)
(* is counted at most twice is part of them, and not by their shape          *)
(* (handleRecurringCycleSucceeded).                                        *)
(***************************************************************************)
THEOREM TypeCorrect == Spec => []TypeOK
<1>1. IInv => TypeOK
    BY DEF IInv
<1> QED BY <1>1, Invariance, PTL

(***************************************************************************)
(* No order, repetition or overlap of webhooks makes a row say that a cycle  *)
(* was settled as Xendit did not settle it, nor moves currentCycle to one    *)
(* that was not paid (createOrUpdateSubscriptionCycle).                      *)
(***************************************************************************)
THEOREM StoredIsTrue == Spec => []StoredWasReported
<1>1. IInv => StoredWasReported
    BY DEF IInv, Sound, StoredWasReported
<1> QED BY <1>1, Invariance, PTL

(***************************************************************************)
(* However often and however much at once the webhooks of a cycle are        *)
(* delivered, its renewal is recorded once and with its transaction          *)
(* (handleRecurringCycleSucceeded).                                        *)
(***************************************************************************)
THEOREM RenewalOnce == Spec => []RenewedOnce
<1>1. IInv => RenewedOnce
    BY DEF IInv, Sound, RenewedOnce
<1> QED BY <1>1, Invariance, PTL

-----------------------------------------------------------------------------
(* What the ledger of Ledger is made of. *)

Outcome == [c \in Cycle |-> IF charge[c] \in {"succeeded", "failed"} THEN charge[c] ELSE "open"]
Booked == [c \in Cycle |-> Settlement(book[c])]

\* Only these three change what the ledger shows.
LEMMA XenditSettles ==
    ASSUME IInv, NEW c \in Cycle, Schedule(c) \/ Retry(c) \/ GiveUp(c) \/ Succeed(c)
    PROVE  \/ UNCHANGED <<Outcome, Booked>>
           \/ TheLedger!Settle(c)
<1>1. charge \in [Cycle -> {"none", "scheduled", "retrying", "succeeded", "failed", "cancelled"}]
      /\ book' = book
    BY DEF IInv, TypeOK, Schedule, Retry, GiveUp, Succeed, stored
<1>2. CASE Schedule(c) \/ Retry(c)
    BY <1>1, <1>2 DEF Schedule, Retry, Outcome, Booked
<1>3. CASE GiveUp(c) \/ Succeed(c)
    <2>1. Outcome[c] = "open"
        BY <1>3 DEF GiveUp, Succeed, Outcome
    <2>2. PICK o \in {"succeeded", "failed"} : charge' = [charge EXCEPT ![c] = o]
        BY <1>3 DEF GiveUp, Succeed
    <2>3. Outcome' = [Outcome EXCEPT ![c] = o]
        BY <1>1, <2>2 DEF Outcome
    <2>4. Booked' = Booked
        BY <1>1 DEF Booked
    <2> QED BY <2>1, <2>2, <2>3, <2>4 DEF TheLedger!Settle, TheLedger!Settled, Outcome, Booked
<1> QED BY <1>2, <1>3

LEMMA DeliveryEnters ==
    ASSUME IInv, NEW r \in Request, WriteBook(r)
    PROVE  \E c \in Cycle : TheLedger!Enter(c)
<1>1. PICK c \in Cycle :
          /\ book[c] = "none"
          /\ \/ charge[c] = "succeeded" /\ book' = [book EXCEPT ![c] = "PAID"]
             \/ charge[c] = "failed" /\ book' = [book EXCEPT ![c] = "FAILED"]
    BY WriteBookStep
<1>2. book \in [Cycle -> Entry] /\ charge' = charge
    BY DEF IInv, TypeOK, WriteBook, xendit
<1>3. Booked[c] = "none" /\ Outcome[c] \in {"succeeded", "failed"}
    BY <1>1 DEF Booked, Outcome, Settlement
<1>4. Booked' = [Booked EXCEPT ![c] = Outcome[c]]
    <2>1. Settlement("PAID") = "succeeded" /\ Settlement("FAILED") = "failed"
        BY DEF Settlement
    <2>2. \A d \in Cycle : Settlement(book'[d]) = IF d = c THEN Outcome[c] ELSE Settlement(book[d])
        BY <1>1, <1>2, <2>1 DEF Outcome
    <2> QED BY <2>2 DEF Booked
<1>5. Outcome' = Outcome
    BY <1>2 DEF Outcome
<1> QED BY <1>3, <1>4, <1>5 DEF TheLedger!Enter, TheLedger!Settled, Outcome, Booked

LEMMA StepMaps == IInv /\ [Next]_vars => [TheLedger!Next]_(TheLedger!vars)
<1> SUFFICES ASSUME IInv, [Next]_vars
             PROVE  TheLedger!Next \/ UNCHANGED <<Outcome, Booked>>
    BY DEF TheLedger!vars, Outcome, Booked
<1>1. ASSUME charge' = charge, book' = book PROVE UNCHANGED <<Outcome, Booked>>
    BY <1>1 DEF Outcome, Booked
<1>2. CASE UNCHANGED vars
    BY <1>1, <1>2 DEF vars
<1>3. CASE \E c \in Cycle : Schedule(c) \/ Retry(c) \/ GiveUp(c) \/ Succeed(c)
    BY <1>3, XenditSettles DEF TheLedger!Next
<1>4. CASE EndPlan
    <2>1. charge \in [Cycle -> {"none", "scheduled", "retrying", "succeeded", "failed", "cancelled"}]
        BY DEF IInv, TypeOK
    <2> QED BY <1>4, <2>1 DEF EndPlan, stored, Outcome, Booked
<1>5. ASSUME NEW r \in Request, Handle(r) PROVE TheLedger!Next \/ UNCHANGED <<Outcome, Booked>>
    <2>1. CASE WriteBook(r)
        BY <2>1, DeliveryEnters DEF TheLedger!Next
    <2>2. CASE Handle(r) /\ ~WriteBook(r)
        <3>1. CASE ReadCycle(r) \/ InsertRefused(r) \/ ReadBook(r) \/ Acknowledge(r)
            BY <3>1, <1>1 DEF ReadCycle, InsertRefused, ReadBook, Acknowledge, xendit, stored
        <3>2. CASE InsertCycle(r)
            BY <3>2, <1>1 DEF InsertCycle, xendit
        <3>3. CASE UpdateCycle(r)
            BY <3>3, <1>1 DEF UpdateCycle, xendit
        <3>4. CASE History(r)
            BY <3>4, <1>1 DEF History, xendit
        <3>5. CASE ActivatedSave(r) \/ InactivatedSave(r) \/ InactivatedWithoutCycle(r)
            BY <3>5, <1>1 DEF ActivatedSave, InactivatedSave, InactivatedWithoutCycle, xendit, stored
        <3> QED BY <2>2, <3>1, <3>2, <3>3, <3>4, <3>5 DEF Handle
    <2> QED BY <1>5, <2>1, <2>2
<1>6. ASSUME NEW r \in Request, Fail(r) \/ \E m \in hooks : Deliver(r, m)
      PROVE  UNCHANGED <<Outcome, Booked>>
    BY <1>6, <1>1 DEF Fail, Deliver, xendit, stored
<1> QED BY <1>2, <1>3, <1>4, <1>5, <1>6 DEF Next

(***************************************************************************)
(* The transactions of any number of cycles form a ledger: one entry at most *)
(* for a cycle, made after its settlement, saying how, and final             *)
(* (createOrGetTransactionBySubscriptionCycle).                            *)
(***************************************************************************)
THEOREM Refinement == Spec => ImplementsLedger
<1>1. Init => TheLedger!Init
    BY DEF Init, TheLedger!Init, Settlement
<1> SUFFICES Spec => TheLedger!Spec
    BY DEF ImplementsLedger
<1> QED BY <1>1, Initially, Inductive, StepMaps, PTL DEF Spec, TheLedger!Spec
===============================================================================
