---------------------------- MODULE ThrottleProofs ----------------------------
(***************************************************************************)
(* Proofs about Throttle, for any number of users, plans and requests.  The  *)
(* argument counts: a step of a request r changes the sets of IInv only by   *)
(* r itself, so their cardinalities are those of the other requests, the     *)
(* same before and after, plus one where r belongs (Others).                 *)
(***************************************************************************)
EXTENDS Throttle, FiniteSetTheorems, TLAPS

One(b) == IF b THEN 1 ELSE 0

\* A set counts its members other than r, and r.
LEMMA Apart ==
    ASSUME NEW S, IsFiniteSet(S), NEW r
    PROVE  /\ Cardinality(S \ {r}) \in Nat
           /\ Cardinality(S) = Cardinality(S \ {r}) + One(r \in S)
<1>1. Cardinality(S) \in Nat /\ IsFiniteSet(S \ {r}) /\ Cardinality(S \ {r}) \in Nat
    BY FS_CardinalityType, FS_RemoveElement
<1>2. CASE r \in S
    BY <1>1, <1>2, FS_RemoveElement DEF One
<1>3. CASE r \notin S
    BY <1>1, <1>3, FS_RemoveElement DEF One
<1> QED BY <1>2, <1>3

\* Disjoint sets of requests other than r leave room for r.
LEMMA Room ==
    ASSUME NEW S, NEW T, NEW r \in Request,
           S \subseteq Request \ {r}, T \subseteq Request \ {r}, S \cap T = {}
    PROVE  /\ IsFiniteSet(S) /\ IsFiniteSet(T)
           /\ Cardinality(S) + Cardinality(T) + 1 <= Cardinality(Request)
<1>1. IsFiniteSet(Request \ {r}) /\ Cardinality(Request) \in Nat
      /\ Cardinality(Request \ {r}) = Cardinality(Request) - 1
    BY ThrottleAssumption, FS_RemoveElement, FS_CardinalityType
<1>2. IsFiniteSet(S) /\ IsFiniteSet(T) /\ IsFiniteSet(S \cup T)
    BY <1>1, FS_Subset, S \cup T \subseteq Request \ {r}
<1>3. Cardinality(S \cup T) = Cardinality(S) + Cardinality(T)
    <2>1. Cardinality(S \cap T) = 0
        BY FS_EmptySet
    <2>2. Cardinality(S \cup T) = Cardinality(S) + Cardinality(T) - Cardinality(S \cap T)
        BY <1>2, FS_Union
    <2>3. Cardinality(S) \in Nat /\ Cardinality(T) \in Nat
        BY <1>2, FS_CardinalityType
    <2> QED BY <2>1, <2>2, <2>3
<1>4. Cardinality(S \cup T) <= Cardinality(Request \ {r})
    BY <1>1, FS_Subset, S \cup T \subseteq Request \ {r}
<1> QED BY <1>1, <1>2, <1>3, <1>4, FS_CardinalityType

\* Whether r is counted in each set.
IsMaking(r, u, onSuccess) ==
    /\ req[r].pc = "handle" /\ req[r].user = u /\ req[r].window = window[u]
    /\ ChargeOnSuccess[req[r].plan] = onSuccess
IsUnpaid(r, u) == req[r].pc = "charge" /\ req[r].user = u /\ req[r].window = window[u]
IsUnrecorded(r, u) == req[r].pc \in {"charge", "record", "save"} /\ req[r].user = u

\* The four cardinalities of u, when the other requests account for m, p, c and q.
Counts(r, u, m, p, c, q) ==
    /\ Cardinality(Making(u, FALSE)) = m + One(IsMaking(r, u, FALSE))
    /\ Cardinality(Making(u, TRUE)) = p + One(IsMaking(r, u, TRUE))
    /\ Cardinality(Unpaid(u)) = c + One(IsUnpaid(r, u))
    /\ Cardinality(Unrecorded(u)) = q + One(IsUnrecorded(r, u))

\* A step that changes no request but r, and no window of u, keeps what the others account for.
LEMMA Others ==
    ASSUME NEW r \in Request, NEW u \in User,
           \A x \in Request : x # r => req'[x] = req[x],
           window'[u] = window[u]
    PROVE  \E m, p, c, q \in Nat :
               /\ p + c + 1 <= Cardinality(Request)
               /\ Counts(r, u, m, p, c, q)
               /\ Counts(r, u, m, p, c, q)'
<1> DEFINE M == Making(u, FALSE) \ {r}
           P == Making(u, TRUE) \ {r}
           C == Unpaid(u) \ {r}
           Q == Unrecorded(u) \ {r}
<1>1. M' = M /\ P' = P /\ C' = C /\ Q' = Q
    <2>1. \A b \in BOOLEAN : Making(u, b)' \ {r} = Making(u, b) \ {r}
        BY DEF Making
    <2>2. Unpaid(u)' \ {r} = Unpaid(u) \ {r}
        BY DEF Unpaid
    <2>3. Unrecorded(u)' \ {r} = Unrecorded(u) \ {r}
        BY DEF Unrecorded
    <2> QED BY <2>1, <2>2, <2>3
<1>2. /\ IsFiniteSet(Making(u, FALSE)) /\ IsFiniteSet(Making(u, TRUE))
      /\ IsFiniteSet(Unpaid(u)) /\ IsFiniteSet(Unrecorded(u))
      /\ IsFiniteSet(Making(u, FALSE)') /\ IsFiniteSet(Making(u, TRUE)')
      /\ IsFiniteSet(Unpaid(u)') /\ IsFiniteSet(Unrecorded(u)')
    <2>1. /\ Making(u, FALSE) \subseteq Request /\ Making(u, TRUE) \subseteq Request
          /\ Unpaid(u) \subseteq Request /\ Unrecorded(u) \subseteq Request
          /\ Making(u, FALSE)' \subseteq Request /\ Making(u, TRUE)' \subseteq Request
          /\ Unpaid(u)' \subseteq Request /\ Unrecorded(u)' \subseteq Request
        BY DEF Making, Unpaid, Unrecorded
    <2> QED BY <2>1, FS_Subset, ThrottleAssumption
<1>3. /\ \A b \in BOOLEAN : r \in Making(u, b) <=> IsMaking(r, u, b)
      /\ r \in Unpaid(u) <=> IsUnpaid(r, u)
      /\ r \in Unrecorded(u) <=> IsUnrecorded(r, u)
      /\ \A b \in BOOLEAN : r \in Making(u, b)' <=> IsMaking(r, u, b)'
      /\ r \in Unpaid(u)' <=> IsUnpaid(r, u)'
      /\ r \in Unrecorded(u)' <=> IsUnrecorded(r, u)'
    BY DEF Making, Unpaid, Unrecorded, IsMaking, IsUnpaid, IsUnrecorded
<1>4. /\ Cardinality(M) \in Nat /\ Cardinality(P) \in Nat
      /\ Cardinality(C) \in Nat /\ Cardinality(Q) \in Nat
    BY <1>2, Apart
<1>5. Cardinality(P) + Cardinality(C) + 1 <= Cardinality(Request)
    <2>1. P \subseteq Request \ {r} /\ C \subseteq Request \ {r} /\ P \cap C = {}
        BY DEF Making, Unpaid
    <2> QED BY <2>1, Room
<1>6. PICK m \in Nat, p \in Nat, c \in Nat, q \in Nat :
          m = Cardinality(M) /\ p = Cardinality(P) /\ c = Cardinality(C) /\ q = Cardinality(Q)
    BY <1>4
<1>7. Counts(r, u, m, p, c, q)
    BY <1>2, <1>3, <1>6, Apart DEF Counts, One
<1>8. Counts(r, u, m, p, c, q)'
    <2>1. Cardinality(Making(u, FALSE)') = Cardinality(M') + One(r \in Making(u, FALSE)')
        BY <1>2, Apart
    <2>2. Cardinality(Making(u, TRUE)') = Cardinality(P') + One(r \in Making(u, TRUE)')
        BY <1>2, Apart
    <2>3. Cardinality(Unpaid(u)') = Cardinality(C') + One(r \in Unpaid(u)')
        BY <1>2, Apart
    <2>4. Cardinality(Unrecorded(u)') = Cardinality(Q') + One(r \in Unrecorded(u)')
        BY <1>2, Apart
    <2> QED BY <1>1, <1>3, <1>6, <2>1, <2>2, <2>3, <2>4 DEF Counts, One
<1> QED BY <1>5, <1>6, <1>7, <1>8

-----------------------------------------------------------------------------
(* Types. *)

Phase == Busy \cup {Idle}

LEMMA UsageValues == NoUsage \in Usage /\ \A n \in Nat : [row |-> TRUE, used |-> n] \in Usage
BY DEF NoUsage, Usage

\* What Arrive makes of a request is a request.
LEMMA FreshRequest ==
    ASSUME NEW u \in User, NEW pc \in Phase
    PROVE  Fresh(u, pc) \in RequestState
BY UsageValues, ThrottleAssumption DEF Fresh, RequestState, Phase

\* The ways in which a step changes a request keep it a request.
LEMMA RequestUpdate ==
    ASSUME NEW x \in RequestState, NEW pc \in Phase
    PROVE  /\ [x EXCEPT !.pc = pc] \in RequestState
           /\ \A a \in {"none", "ok", "refused", "failed"} :
                  /\ [x EXCEPT !.pc = pc, !.answer = a] \in RequestState
                  /\ [x EXCEPT !.pc = pc, !.url = TRUE, !.answer = a] \in RequestState
           /\ \A w \in Nat : [x EXCEPT !.pc = pc, !.window = w] \in RequestState
           /\ \A plan \in Plan : [x EXCEPT !.pc = pc, !.plan = plan] \in RequestState
           /\ \A s \in Usage : [x EXCEPT !.pc = pc, !.seen = s] \in RequestState
BY DEF RequestState, Phase

\* The fields of a request.
LEMMA RequestFields ==
    ASSUME NEW x \in RequestState
    PROVE  /\ x.pc \in Phase /\ x.user \in User /\ x.plan \in Plan /\ x.window \in Nat
           /\ x.seen \in Usage /\ x.seen.used \in Nat
BY DEF RequestState, Phase, Usage

LEMMA Phases == Idle \in Phase /\ Busy \subseteq Phase /\ "resolve" \in Busy /\ "prepay" \in Busy
                /\ "check" \in Busy /\ "handle" \in Busy /\ "charge" \in Busy
                /\ "record" \in Busy /\ "save" \in Busy
BY DEF Phase, Busy

LEMMA TypeInit == Init => TypeOK
<1> SUFFICES ASSUME Init PROVE TypeOK
    OBVIOUS
<1>1. req \in [Request -> RequestState]
    BY FreshRequest, Phases DEF Init
<1> QED BY <1>1, UsageValues, ThrottleAssumption DEF Init, TypeOK

Answers == {"none", "ok", "refused", "failed"}

\* What the actions do to a request and to the points, typed once.
LEMMA EffectTypes ==
    ASSUME TypeOK, NEW r \in Request
    PROVE  /\ req[r] \in RequestState /\ req[r].user \in User /\ req[r].plan \in Plan
           /\ \A a \in Answers : Answer(r, a) => req' \in [Request -> RequestState]
           /\ \A pc \in Phase : Goto(r, pc) => req' \in [Request -> RequestState]
           /\ LetIn(r) => req' \in [Request -> RequestState]
           /\ \A u \in User : Count(u) => points' \in [User -> Nat]
<1>1. req[r] \in RequestState /\ req[r].user \in User /\ req[r].plan \in Plan
    BY RequestFields DEF TypeOK
<1>2. \A x \in RequestState : [req EXCEPT ![r] = x] \in [Request -> RequestState]
    BY DEF TypeOK
<1>3. \A a \in Answers : Answer(r, a) => req' \in [Request -> RequestState]
    BY <1>1, <1>2, RequestUpdate, Phases DEF Answer, Answers
<1>4. \A pc \in Phase : Goto(r, pc) => req' \in [Request -> RequestState]
    BY <1>1, <1>2, RequestUpdate DEF Goto
<1>5. LetIn(r) => req' \in [Request -> RequestState]
    <2>1. window[req[r].user] \in Nat
        BY <1>1 DEF TypeOK
    <2> QED BY <1>1, <1>2, <2>1, RequestUpdate, Phases DEF LetIn
<1>6. \A u \in User : Count(u) => points' \in [User -> Nat]
    BY DEF TypeOK, Count
<1> QED BY <1>1, <1>3, <1>4, <1>5, <1>6

LEMMA TypeOfRequest ==
    ASSUME TypeOK, NEW r \in Request, Step(r)
    PROVE  TypeOK'
<1> USE EffectTypes, Phases DEF Answers
<1>1. ASSUME NEW u \in User, Arrive(r, u) PROVE TypeOK'
    <2>1. req' \in [Request -> RequestState]
        BY <1>1, FreshRequest DEF Arrive, TypeOK
    <2> QED BY <1>1, <2>1 DEF Arrive, TypeOK, plans, record
<1>2. ASSUME NEW plan \in Plan, Resolve(r, plan) PROVE TypeOK'
    <2>1. req' \in [Request -> RequestState]
        BY <1>2, RequestUpdate DEF Resolve, TypeOK
    <2> QED BY <1>2, <2>1 DEF Resolve, TypeOK, plans, record
<1>3. CASE Prepay(r)
    <2>1. req' \in [Request -> RequestState] /\ points' \in [User -> Nat]
        BY <1>3 DEF Prepay
    <2> QED BY <1>3, <2>1 DEF Prepay, TypeOK, plans, record
<1>4. CASE Check(r)
    <2>1. req' \in [Request -> RequestState]
        BY <1>4 DEF Check
    <2> QED BY <1>4, <2>1 DEF Check, TypeOK, plans, record
<1>5. CASE HandleOk(r)
    <2>1. req' \in [Request -> RequestState]
        BY <1>5, RequestUpdate DEF HandleOk, TypeOK
    <2>2. made' \in [User -> Nat] /\ owed' \in [User -> Nat]
        BY <1>5 DEF HandleOk, TypeOK
    <2> QED BY <1>5, <2>1, <2>2 DEF HandleOk, TypeOK, plans, record
<1>6. CASE HandleRefuses(r)
    <2>1. req' \in [Request -> RequestState]
        BY <1>6 DEF HandleRefuses
    <2> QED BY <1>6, <2>1 DEF HandleRefuses, TypeOK, plans, record
<1>7. CASE Charge(r)
    <2>1. req' \in [Request -> RequestState] /\ points' \in [User -> Nat]
        BY <1>7 DEF Charge
    <2> QED BY <1>7, <2>1 DEF Charge, TypeOK, plans, record
<1>8. CASE RecordRead(r)
    <2>1. usage[req[r].user] \in Usage
        BY DEF TypeOK
    <2>2. req' \in [Request -> RequestState]
        BY <1>8, <2>1, RequestUpdate DEF RecordRead, TypeOK
    <2> QED BY <1>8, <2>2 DEF RecordRead, TypeOK, plans, record
<1>9. CASE RecordSave(r)
    <2>1. req' \in [Request -> RequestState]
        BY <1>9 DEF RecordSave
    <2>2. usage' \in [User -> Usage] /\ history' \in [User -> Nat]
        BY <1>9, RequestFields, UsageValues DEF RecordSave, TypeOK, record
    <2> QED BY <1>9, <2>1, <2>2 DEF RecordSave, TypeOK, plans
<1>10. CASE Fail(r)
    <2>1. req' \in [Request -> RequestState] /\ points' \in [User -> Nat]
        BY <1>10 DEF Fail, TypeOK
    <2> QED BY <1>10, <2>1 DEF Fail, TypeOK, plans, record
<1> QED BY <1>1, <1>2, <1>3, <1>4, <1>5, <1>6, <1>7, <1>8, <1>9, <1>10 DEF Step

LEMMA TypeOfEnvironment ==
    ASSUME TypeOK, NEW u \in User, Environment(u)
    PROVE  TypeOK'
<1> USE ThrottleAssumption DEF TypeOK, plans, record
<1>1. ASSUME NEW plan \in Plan, Subscribe(u, plan) PROVE TypeOK'
    BY <1>1 DEF Subscribe
<1>2. ASSUME NEW plan \in Plan, Switch(u, plan) PROVE TypeOK'
    BY <1>2 DEF Switch
<1>3. CASE WindowEnds(u)
    BY <1>3 DEF WindowEnds
<1> QED BY <1>1, <1>2, <1>3 DEF Environment

LEMMA TypeStep == TypeOK /\ [Next]_vars => TypeOK'
<1> SUFFICES ASSUME TypeOK, [Next]_vars PROVE TypeOK'
    OBVIOUS
<1>1. CASE UNCHANGED vars
    BY <1>1 DEF vars, plans, record, TypeOK
<1> QED BY <1>1, TypeOfRequest, TypeOfEnvironment DEF Next

-----------------------------------------------------------------------------
(* The requests stay consistent with their users. *)

Held == \A u \in User : Free \in subs[u]
AllConsistent == \A r \in Request : Consistent(r)

\* A step of r leaves the other requests, the plans and the windows alone, and shrinks no history.
LEMMA StepFrame ==
    ASSUME TypeOK, NEW r \in Request, Step(r)
    PROVE  /\ \A x \in Request : x # r => req'[x] = req[x]
           /\ UNCHANGED <<subs, active, window>>
           /\ \A u \in User : history[u] <= history'[u]
<1>1. ASSUME NEW u \in User, Arrive(r, u)
      PROVE  (\A x \in Request : x # r => req'[x] = req[x]) /\ UNCHANGED <<plans, window, record>>
    BY <1>1 DEF Arrive, TypeOK
<1>2. ASSUME NEW plan \in Plan, Resolve(r, plan)
      PROVE  (\A x \in Request : x # r => req'[x] = req[x]) /\ UNCHANGED <<plans, window, record>>
    BY <1>2 DEF Resolve, TypeOK
<1>3. CASE Prepay(r) \/ Check(r) \/ HandleOk(r) \/ HandleRefuses(r) \/ Charge(r) \/ RecordRead(r)
           \/ Fail(r)
    <2>1. \A x \in Request : x # r => req'[x] = req[x]
        BY <1>3 DEF Prepay, Check, HandleOk, HandleRefuses, Charge, RecordRead, Fail, LetIn,
           Answer, Goto, TypeOK
    <2> QED BY <1>3, <2>1 DEF Prepay, Check, HandleOk, HandleRefuses, Charge, RecordRead, Fail,
           plans, record, TypeOK
<1>4. CASE RecordSave(r)
    BY <1>4 DEF RecordSave, Answer, TypeOK, plans, record
<1> QED BY <1>1, <1>2, <1>3, <1>4 DEF Step, plans, record, TypeOK

\* What a step may leave in r itself.
LEMMA StepKeepsConsistent ==
    ASSUME TypeOK, Held, \A u \in User : Recorded(u), NEW r \in Request, Consistent(r), Step(r)
    PROVE  Consistent(r)'
<1>0. /\ req[r].user \in User /\ req[r].plan \in Plan /\ req[r].seen.used \in Nat
      /\ window[req[r].user] \in Nat /\ usage[req[r].user].used \in Nat
      /\ history[req[r].user] \in Nat
    BY RequestFields DEF TypeOK, Usage
<1> USE <1>0 DEF Consistent, Idle, plans, record
<1>1. ASSUME NEW u \in User, Arrive(r, u) PROVE Consistent(r)'
    BY <1>1 DEF Arrive, Fresh, NoUsage, Held, TypeOK
<1>2. ASSUME NEW plan \in Plan, Resolve(r, plan) PROVE Consistent(r)'
    BY <1>2, ThrottleAssumption DEF Resolve, TypeOK
<1>3. CASE Prepay(r)
    <2>1. UNCHANGED <<subs, window, history>> /\ (LetIn(r) \/ Answer(r, "refused"))
        BY <1>3 DEF Prepay
    <2>2. CASE LetIn(r)
        BY <2>1, <2>2 DEF LetIn, TypeOK
    <2>3. CASE Answer(r, "refused")
        BY <2>1, <2>3 DEF Answer, TypeOK
    <2> QED BY <2>1, <2>2, <2>3
<1>4. CASE Check(r)
    <2>1. UNCHANGED <<subs, window, history>> /\ (LetIn(r) \/ Answer(r, "refused"))
        BY <1>4 DEF Check
    <2>2. CASE LetIn(r)
        BY <2>1, <2>2 DEF LetIn, TypeOK
    <2>3. CASE Answer(r, "refused")
        BY <2>1, <2>3 DEF Answer, TypeOK
    <2> QED BY <2>1, <2>2, <2>3
<1>5. CASE HandleOk(r)
    BY <1>5 DEF HandleOk, TypeOK
<1>6. CASE HandleRefuses(r)
    BY <1>6 DEF HandleRefuses, Answer, TypeOK
<1>7. CASE Charge(r)
    <2>1. UNCHANGED <<subs, window, history>> /\ (Goto(r, "record") \/ Answer(r, "refused"))
        BY <1>7 DEF Charge
    <2>2. CASE Goto(r, "record")
        BY <1>7, <2>1, <2>2 DEF Charge, Goto, TypeOK
    <2>3. CASE Answer(r, "refused")
        BY <2>1, <2>3 DEF Answer, TypeOK
    <2> QED BY <2>1, <2>2, <2>3
<1>8. CASE RecordRead(r)
    BY <1>8 DEF RecordRead, Recorded, TypeOK
<1>9. CASE RecordSave(r)
    <2>1. UNCHANGED <<subs, window>> /\ (Answer(r, "ok") \/ Answer(r, "failed"))
        BY <1>9 DEF RecordSave
    <2>2. \/ history' = history
          \/ history' = [history EXCEPT ![req[r].user] = history[req[r].user] + 1]
        BY <1>9 DEF RecordSave
    <2>3. req[r].seen.used <= history'[req[r].user]
        BY <2>2 DEF TypeOK
    <2>4. PICK a \in Answers : Answer(r, a)
        BY <2>1 DEF Answers
    <2>5. /\ req'[r].pc = "done" /\ req'[r].user = req[r].user /\ req'[r].plan = req[r].plan
          /\ req'[r].window = req[r].window /\ req'[r].seen = req[r].seen
        BY <2>4 DEF Answer, TypeOK
    <2> QED BY <2>1, <2>3, <2>5
<1>10. CASE Fail(r)
    BY <1>10 DEF Fail, Answer, TypeOK
<1> QED BY <1>1, <1>2, <1>3, <1>4, <1>5, <1>6, <1>7, <1>8, <1>9, <1>10 DEF Step

LEMMA ConsistentStep ==
    ASSUME IInv, [Next]_vars
    PROVE  Held' /\ AllConsistent'
<1>0. TypeOK /\ Held /\ AllConsistent /\ (\A u \in User : Recorded(u))
    BY DEF IInv, Held, AllConsistent
<1>f. \A x \in Request : req[x].user \in User /\ req[x].seen.used \in Nat /\ req[x].window \in Nat
    BY <1>0, RequestFields DEF TypeOK
<1>1. CASE UNCHANGED vars
    BY <1>0, <1>1 DEF vars, plans, record, Held, AllConsistent, Consistent
<1>2. ASSUME NEW r \in Request, Step(r) PROVE Held' /\ AllConsistent'
    <2>1. Consistent(r)'
        BY <1>0, <1>2, StepKeepsConsistent DEF AllConsistent
    <2>2. /\ \A x \in Request : x # r => req'[x] = req[x]
          /\ subs' = subs /\ window' = window
          /\ \A u \in User : history[u] <= history'[u]
        BY <1>0, <1>2, StepFrame
    <2>3. ASSUME NEW x \in Request, x # r PROVE Consistent(x)'
        <3>1. history \in [User -> Nat] /\ history' \in [User -> Nat]
            BY <1>0, <1>2, TypeOfRequest DEF TypeOK
        <3> QED BY <1>0, <1>f, <2>2, <2>3, <3>1 DEF AllConsistent, Consistent
    <2> QED BY <1>0, <2>1, <2>2, <2>3 DEF Held, AllConsistent
<1>3. ASSUME NEW u \in User, Environment(u) PROVE Held' /\ AllConsistent'
    <2>1. ASSUME NEW plan \in Plan, Subscribe(u, plan) PROVE Held' /\ AllConsistent'
        BY <1>0, <1>f, <2>1 DEF Subscribe, TypeOK, record, Held, AllConsistent, Consistent
    <2>2. ASSUME NEW plan \in Plan, Switch(u, plan) PROVE Held' /\ AllConsistent'
        BY <1>0, <2>2 DEF Switch, TypeOK, record, Held, AllConsistent, Consistent
    <2>3. CASE WindowEnds(u)
        BY <1>0, <1>f, <2>3 DEF WindowEnds, TypeOK, plans, record, Held, AllConsistent, Consistent
    <2> QED BY <1>3, <2>1, <2>2, <2>3 DEF Environment
<1> QED BY <1>1, <1>2, <1>3 DEF Next

-----------------------------------------------------------------------------
(* The counts of one user v, against a step of one request r. *)

Balance(u) == Paid(u) /\ Bounded(u) /\ PrepaidBounded(u) /\ Recorded(u)

\* What the other requests of v account for, before and after the step: m, p, c and q.
\* Here is the invariant in these numbers, b being the plan whose limit bounds the window.
Numbers(r, v, m, p, c, q, b) ==
    /\ made[v] + (m + One(IsMaking(r, v, FALSE))) <= points[v] + (c + One(IsUnpaid(r, v))) + faults
    /\ made[v] + (m + One(IsMaking(r, v, FALSE))) + (p + One(IsMaking(r, v, TRUE)))
           < Limit[b] + Cardinality(Request) + faults
    /\ OnlyPrepaid(v) =>
           /\ made[v] + (m + One(IsMaking(r, v, FALSE))) <= points[v]
           /\ \E plan \in subs[v] : made[v] + (m + One(IsMaking(r, v, FALSE))) <= Limit[plan]
    /\ usage[v].used <= history[v]
    /\ history[v] + (q + One(IsUnrecorded(r, v))) <= owed[v]

LEMMA BalanceIsNumbers ==
    ASSUME NEW r, NEW v, NEW m, NEW p, NEW c, NEW q, Counts(r, v, m, p, c, q)
    PROVE  Balance(v) <=> \E b \in subs[v] : Numbers(r, v, m, p, c, q, b)
BY DEF Counts, Balance, Paid, Bounded, PrepaidBounded, Recorded, Numbers

LEMMA OneOrder ==
    ASSUME NEW x, NEW y
    PROVE  One(x) \in {0, 1} /\ ((x => y) => One(x) <= One(y))
BY DEF One

LEMMA NumberTypes ==
    ASSUME TypeOK, NEW v \in User
    PROVE  /\ made[v] \in Nat /\ points[v] \in Nat /\ owed[v] \in Nat /\ history[v] \in Nat
           /\ usage[v].used \in Nat /\ faults \in Nat /\ Cardinality(Request) \in Nat
           /\ subs[v] \subseteq Plan /\ \A plan \in Plan : Limit[plan] \in Nat
BY ThrottleAssumption, FS_CardinalityType DEF TypeOK, Usage

\* A step in which v makes no URL, nobody is let in for v, and a charge that is settled has cost a
\* point or a failure.
Silent(r, v) ==
    /\ made'[v] = made[v] /\ owed'[v] = owed[v]
    /\ usage'[v] = usage[v] /\ history'[v] = history[v]
    /\ points'[v] >= points[v] /\ faults' >= faults
    /\ IsMaking(r, v, FALSE)' => IsMaking(r, v, FALSE)
    /\ IsMaking(r, v, TRUE)' => IsMaking(r, v, TRUE)
    /\ IsUnrecorded(r, v)' => IsUnrecorded(r, v)
    /\ IsUnpaid(r, v) => IsUnpaid(r, v)' \/ points'[v] = points[v] + 1 \/ faults' = faults + 1

\* Such a step keeps the numbers.
LEMMA Quiet ==
    ASSUME TypeOK, TypeOK', NEW r \in Request, NEW v \in User,
           NEW m \in Nat, NEW p \in Nat, NEW c \in Nat, NEW q \in Nat, NEW b \in Plan,
           Numbers(r, v, m, p, c, q, b), subs' = subs, Silent(r, v)
    PROVE  Numbers(r, v, m, p, c, q, b)'
<1> USE DEF Silent
<1> DEFINE i == One(IsMaking(r, v, FALSE))
           j == One(IsMaking(r, v, TRUE))
           k == One(IsUnpaid(r, v))
           l == One(IsUnrecorded(r, v))
<1>1. /\ i \in {0, 1} /\ i' \in {0, 1} /\ j \in {0, 1} /\ j' \in {0, 1}
      /\ k \in {0, 1} /\ k' \in {0, 1} /\ l \in {0, 1} /\ l' \in {0, 1}
      /\ i' <= i /\ j' <= j /\ l' <= l
      /\ k <= k' \/ points'[v] = points[v] + 1 \/ faults' = faults + 1
    <2>1. i \in {0, 1} /\ i' \in {0, 1} /\ i' <= i
        BY OneOrder
    <2>2. j \in {0, 1} /\ j' \in {0, 1} /\ j' <= j
        BY OneOrder
    <2>3. l \in {0, 1} /\ l' \in {0, 1} /\ l' <= l
        BY OneOrder
    <2>4. k \in {0, 1} /\ k' \in {0, 1}
          /\ (k <= k' \/ points'[v] = points[v] + 1 \/ faults' = faults + 1)
        BY OneOrder
    <2> QED BY <2>1, <2>2, <2>3, <2>4
<1>2. /\ made[v] \in Nat /\ points[v] \in Nat /\ owed[v] \in Nat /\ history[v] \in Nat
      /\ points'[v] \in Nat /\ faults \in Nat /\ faults' \in Nat /\ Cardinality(Request) \in Nat
      /\ Limit[b] \in Nat
    BY NumberTypes DEF TypeOK
<1>3. /\ made[v] + (m + i) <= points[v] + (c + k) + faults
      /\ made[v] + (m + i) + (p + j) < Limit[b] + Cardinality(Request) + faults
      /\ OnlyPrepaid(v) => /\ made[v] + (m + i) <= points[v]
                           /\ \E plan \in subs[v] : made[v] + (m + i) <= Limit[plan]
      /\ usage[v].used <= history[v]
      /\ history[v] + (q + l) <= owed[v]
    BY DEF Numbers
<1> HIDE DEF i, j, k, l
<1>4. made[v] + (m + i') <= points'[v] + (c + k') + faults'
    BY <1>1, <1>2, <1>3
<1>5. made[v] + (m + i') + (p + j') < Limit[b] + Cardinality(Request) + faults'
    BY <1>1, <1>2, <1>3
<1>6. ASSUME OnlyPrepaid(v)
      PROVE  /\ made[v] + (m + i') <= points'[v]
             /\ \E plan \in subs[v] : made[v] + (m + i') <= Limit[plan]
    <2>1. made[v] + (m + i') <= made[v] + (m + i) /\ made[v] + (m + i) \in Nat
          /\ made[v] + (m + i') \in Nat
        BY <1>1, <1>2
    <2>2. PICK plan \in subs[v] : made[v] + (m + i) <= Limit[plan]
        BY <1>3, <1>6
    <2>3. Limit[plan] \in Nat
        BY NumberTypes
    <2>4. made[v] + (m + i') <= Limit[plan]
        BY <2>1, <2>2, <2>3
    <2>5. made[v] + (m + i') <= points'[v]
        BY <1>2, <1>3, <1>6, <2>1
    <2> QED BY <2>4, <2>5
<1>7. history[v] + (q + l') <= owed[v]
    BY <1>1, <1>2, <1>3
<1>8. OnlyPrepaid(v)' <=> OnlyPrepaid(v)
    BY DEF OnlyPrepaid
<1> QED BY <1>3, <1>4, <1>5, <1>6, <1>7, <1>8 DEF Numbers, i, j, k, l

\* Letting r in: its plan's limit bounds the window from now on, for the other requests that the
\* guard has let in, p, and those still to be charged, c, leave room for r.
LEMMA LettingIn ==
    ASSUME TypeOK, TypeOK', NEW r \in Request, NEW v \in User, Consistent(r),
           NEW m \in Nat, NEW p \in Nat, NEW c \in Nat, NEW q \in Nat, NEW b \in Plan,
           p + c + 1 <= Cardinality(Request), Numbers(r, v, m, p, c, q, b),
           req[r].user = v, Granted(r), LetIn(r),
           UNCHANGED <<subs, window, made, owed, usage, history, faults>>,
           \/ req[r].pc = "prepay" /\ points'[v] = points[v] + 1
           \/ req[r].pc = "check" /\ points'[v] = points[v],
           NEW plan, plan = req[r].plan
    PROVE  Numbers(r, v, m, p, c, q, plan)'
<1>1. /\ made[v] \in Nat /\ points[v] \in Nat /\ owed[v] \in Nat /\ history[v] \in Nat
      /\ points'[v] \in Nat /\ faults \in Nat /\ Cardinality(Request) \in Nat
    BY NumberTypes DEF TypeOK
<1>2. plan \in subs[v] /\ plan \in Plan /\ Limit[plan] \in Nat /\ points[v] < Limit[plan]
    BY NumberTypes DEF Consistent, Granted
<1>3. /\ req'[r].pc = "handle" /\ req'[r].user = v /\ req'[r].window = window[v]
      /\ req'[r].plan = plan /\ window' = window
    BY DEF LetIn, TypeOK, RequestState
<1>4. /\ ~IsMaking(r, v, FALSE) /\ ~IsMaking(r, v, TRUE)
      /\ ~IsUnpaid(r, v) /\ ~IsUnrecorded(r, v)
    BY DEF IsMaking, IsUnpaid, IsUnrecorded
<1>5. ~IsUnpaid(r, v)' /\ ~IsUnrecorded(r, v)'
    BY <1>3 DEF IsUnpaid, IsUnrecorded
<1>6. OnlyPrepaid(v)' <=> OnlyPrepaid(v)
    BY DEF OnlyPrepaid
<1>7. /\ made[v] + m <= points[v] + c + faults
      /\ OnlyPrepaid(v) => made[v] + m <= points[v]
      /\ usage[v].used <= history[v]
      /\ history[v] + q <= owed[v]
    BY <1>1, <1>4 DEF Numbers, One
<1>8. CASE req[r].pc = "prepay" /\ points'[v] = points[v] + 1
    <2>1. IsMaking(r, v, FALSE)' /\ ~IsMaking(r, v, TRUE)'
        BY <1>3, <1>8 DEF IsMaking, Consistent
    <2>2. made[v] + (m + 1) <= points'[v] + (c + 0) + faults
        BY <1>1, <1>7, <1>8
    <2>3. made[v] + (m + 1) + (p + 0) < Limit[plan] + Cardinality(Request) + faults
        BY <1>1, <1>2, <1>7
    <2>4. OnlyPrepaid(v) => made[v] + (m + 1) <= points'[v] /\ made[v] + (m + 1) <= Limit[plan]
        BY <1>1, <1>2, <1>7, <1>8
    <2>5. history[v] + (q + 0) <= owed[v]
        BY <1>1, <1>7
    <2> QED BY <1>2, <1>3, <1>5, <1>6, <1>7, <2>1, <2>2, <2>3, <2>4, <2>5 DEF Numbers, One
<1>9. CASE req[r].pc = "check" /\ points'[v] = points[v]
    <2>1. ~IsMaking(r, v, FALSE)' /\ IsMaking(r, v, TRUE)' /\ ~OnlyPrepaid(v)
        BY <1>2, <1>3, <1>9 DEF IsMaking, Consistent, OnlyPrepaid
    <2>2. made[v] + (m + 0) <= points'[v] + (c + 0) + faults
        BY <1>1, <1>7, <1>9
    <2>3. made[v] + (m + 0) + (p + 1) < Limit[plan] + Cardinality(Request) + faults
        BY <1>1, <1>2, <1>7
    <2>4. history[v] + (q + 0) <= owed[v]
        BY <1>1, <1>7
    <2> QED BY <1>2, <1>3, <1>5, <1>6, <1>7, <2>1, <2>2, <2>3, <2>4 DEF Numbers, One
<1> QED BY <1>8, <1>9

\* The handler commits the URL of r.
LEMMA MakingUrl ==
    ASSUME TypeOK, TypeOK', NEW r \in Request, NEW v \in User,
           NEW m \in Nat, NEW p \in Nat, NEW c \in Nat, NEW q \in Nat, NEW b \in Plan,
           Numbers(r, v, m, p, c, q, b), req[r].user = v, Consistent(r), HandleOk(r)
    PROVE  Numbers(r, v, m, p, c, q, b)'
<1> DEFINE plan == req[r].plan
           current == req[r].window = window[v]
<1>1. /\ made[v] \in Nat /\ points[v] \in Nat /\ owed[v] \in Nat /\ history[v] \in Nat
      /\ faults \in Nat /\ Cardinality(Request) \in Nat /\ Limit[b] \in Nat
    BY NumberTypes
<1>2. /\ UNCHANGED <<subs, points, window, usage, history, faults>>
      /\ req[r].pc = "handle" /\ ChargeOnSuccess[plan] \in BOOLEAN
    BY RequestFields, ThrottleAssumption DEF HandleOk, plans, record, TypeOK
<1>3. /\ req'[r].user = v /\ req'[r].window = req[r].window /\ req'[r].plan = plan
      /\ req'[r].pc = IF ChargeOnSuccess[plan] THEN "charge" ELSE "done"
    BY DEF HandleOk, TypeOK, RequestState, Idle
<1>4. /\ made'[v] = IF current THEN made[v] + 1 ELSE made[v]
      /\ owed'[v] = IF ChargeOnSuccess[plan] THEN owed[v] + 1 ELSE owed[v]
    BY DEF HandleOk, TypeOK
<1>5. /\ One(IsMaking(r, v, FALSE)) = IF current /\ ~ChargeOnSuccess[plan] THEN 1 ELSE 0
      /\ One(IsMaking(r, v, TRUE)) = IF current /\ ChargeOnSuccess[plan] THEN 1 ELSE 0
      /\ One(IsUnpaid(r, v)) = 0 /\ One(IsUnrecorded(r, v)) = 0
    BY <1>2 DEF One, IsMaking, IsUnpaid, IsUnrecorded
<1>6. /\ One(IsMaking(r, v, FALSE)') = 0 /\ One(IsMaking(r, v, TRUE)') = 0
      /\ One(IsUnpaid(r, v)') = IF current /\ ChargeOnSuccess[plan] THEN 1 ELSE 0
      /\ One(IsUnrecorded(r, v)') = IF ChargeOnSuccess[plan] THEN 1 ELSE 0
    BY <1>2, <1>3 DEF One, IsMaking, IsUnpaid, IsUnrecorded
<1>7. OnlyPrepaid(v)' <=> OnlyPrepaid(v)
    BY <1>2 DEF OnlyPrepaid
<1> DEFINE i == One(IsMaking(r, v, FALSE))
           j == One(IsMaking(r, v, TRUE))
           k == One(IsUnpaid(r, v))
           l == One(IsUnrecorded(r, v))
<1>8. /\ made[v] + (m + i) <= points[v] + (c + k) + faults
      /\ made[v] + (m + i) + (p + j) < Limit[b] + Cardinality(Request) + faults
      /\ OnlyPrepaid(v) => /\ made[v] + (m + i) <= points[v]
                           /\ \E x \in subs[v] : made[v] + (m + i) <= Limit[x]
      /\ usage[v].used <= history[v]
      /\ history[v] + (q + l) <= owed[v]
    BY DEF Numbers
<1>9. /\ i \in {0, 1} /\ j \in {0, 1} /\ k = 0 /\ l = 0
      /\ i' = 0 /\ j' = 0 /\ k' \in {0, 1} /\ l' \in {0, 1}
      /\ made'[v] = made[v] + i + j /\ k' = j /\ owed'[v] = owed[v] + l'
      /\ OnlyPrepaid(v) => j = 0
    <2>1. OnlyPrepaid(v) => ~ChargeOnSuccess[plan]
        BY DEF OnlyPrepaid, Consistent
    <2>2. /\ i = IF current /\ ~ChargeOnSuccess[plan] THEN 1 ELSE 0
          /\ j = IF current /\ ChargeOnSuccess[plan] THEN 1 ELSE 0
          /\ k' = IF current /\ ChargeOnSuccess[plan] THEN 1 ELSE 0
          /\ l' = IF ChargeOnSuccess[plan] THEN 1 ELSE 0
          /\ k = 0 /\ l = 0 /\ i' = 0 /\ j' = 0
        BY <1>5, <1>6
    <2> HIDE DEF i, j, k, l, current
    <2>3. i \in {0, 1} /\ j \in {0, 1} /\ k' \in {0, 1} /\ l' \in {0, 1}
        BY <2>2
    <2>4. k' = j /\ (OnlyPrepaid(v) => j = 0)
        BY <2>1, <2>2
    <2>5. made'[v] = made[v] + i + j
        BY <1>1, <1>4, <2>2 DEF current
    <2>6. owed'[v] = owed[v] + l'
        BY <1>1, <1>4, <2>2
    <2> QED BY <2>2, <2>3, <2>4, <2>5, <2>6
<1> HIDE DEF i, j, k, l
<1>10. /\ made'[v] + (m + i') <= points'[v] + (c + k') + faults'
       /\ made'[v] + (m + i') + (p + j') < Limit[b] + Cardinality(Request) + faults'
       /\ history'[v] + (q + l') <= owed'[v]
    BY <1>1, <1>2, <1>8, <1>9
<1>11. ASSUME OnlyPrepaid(v)
       PROVE  made'[v] + (m + i') = made[v] + (m + i)
    BY <1>1, <1>9, <1>11
<1> QED BY <1>2, <1>7, <1>8, <1>10, <1>11 DEF Numbers, i, j, k, l

\* recordUsage commits the usage of r.
LEMMA Recording ==
    ASSUME TypeOK, NEW r \in Request, NEW v \in User, Consistent(r),
           NEW m \in Nat, NEW p \in Nat, NEW c \in Nat, NEW q \in Nat, NEW b \in Plan,
           Numbers(r, v, m, p, c, q, b), req[r].user = v, RecordSave(r),
           req[r].seen.row \/ ~usage[v].row
    PROVE  Numbers(r, v, m, p, c, q, b)'
<1>1. /\ UNCHANGED <<subs, points, window, made, owed, faults>> /\ req[r].pc = "save"
      /\ usage' = [usage EXCEPT ![v] = [row |-> TRUE, used |-> req[r].seen.used + 1]]
      /\ history' = [history EXCEPT ![v] = history[v] + 1]
      /\ Answer(r, "ok")
    BY DEF RecordSave, plans
<1>2. usage'[v].used = req[r].seen.used + 1 /\ history'[v] = history[v] + 1
    BY <1>1 DEF TypeOK
<1>3. req'[r].pc = "done"
    BY <1>1 DEF Answer, Idle, TypeOK, RequestState
<1>4. /\ ~IsMaking(r, v, FALSE) /\ ~IsMaking(r, v, TRUE) /\ ~IsUnpaid(r, v) /\ IsUnrecorded(r, v)
      /\ ~IsMaking(r, v, FALSE)' /\ ~IsMaking(r, v, TRUE)'
      /\ ~IsUnpaid(r, v)' /\ ~IsUnrecorded(r, v)'
    BY <1>1, <1>3 DEF IsMaking, IsUnpaid, IsUnrecorded
<1>5. OnlyPrepaid(v)' <=> OnlyPrepaid(v)
    BY <1>1 DEF OnlyPrepaid
<1>6. usage'[v].used <= history'[v]
    BY <1>2, RequestFields, NumberTypes DEF Consistent, TypeOK
<1>7. history'[v] + (q + 0) <= owed[v]
    BY <1>2, <1>4, NumberTypes DEF Numbers, One
<1> QED BY <1>1, <1>4, <1>5, <1>6, <1>7 DEF Numbers, One

\* Every step of r is silent for v, but for letting r in, making its URL and recording it.
LEMMA StepsOf ==
    ASSUME TypeOK, NEW r \in Request, NEW v \in User, Step(r)
    PROVE  \/ Silent(r, v)
           \/ /\ req[r].user = v /\ LetIn(r) /\ Granted(r)
              /\ UNCHANGED <<subs, window, made, owed, usage, history, faults>>
              /\ \/ req[r].pc = "prepay" /\ points'[v] = points[v] + 1
                 \/ req[r].pc = "check" /\ points'[v] = points[v]
           \/ req[r].user = v /\ HandleOk(r)
           \/ req[r].user = v /\ RecordSave(r) /\ (req[r].seen.row \/ ~usage[v].row)
<1>0. /\ points \in [User -> Nat] /\ faults \in Nat /\ req[r] \in RequestState
      /\ req[r].user \in User
    BY RequestFields DEF TypeOK
<1>f. \A u \in User : Count(u) => points'[v] = IF u = v THEN points[v] + 1 ELSE points[v]
    BY <1>0 DEF Count
<1>g. \A a \in Answers : Answer(r, a) => req'[r].pc = "done" /\ req'[r].user = req[r].user
    BY <1>0 DEF Answer, Idle, TypeOK, RequestState
<1> USE <1>0 DEF Idle, plans, record
<1>1. ASSUME NEW u \in User, Arrive(r, u) PROVE Silent(r, v)
    <2>1. req[r].pc = "done" /\ req'[r].pc = "resolve"
        BY <1>1 DEF Arrive, Fresh, TypeOK
    <2> QED BY <1>1, <2>1 DEF Arrive, Silent, IsMaking, IsUnpaid, IsUnrecorded
<1>2. ASSUME NEW plan \in Plan, Resolve(r, plan) PROVE Silent(r, v)
    <2>1. req[r].pc = "resolve" /\ req'[r].pc \in {"prepay", "check"}
        BY <1>2 DEF Resolve, TypeOK, RequestState
    <2> QED BY <1>2, <2>1 DEF Resolve, Silent, IsMaking, IsUnpaid, IsUnrecorded
<1> USE DEF IsMaking, IsUnpaid, IsUnrecorded
<1>3. ASSUME Prepay(r), ~(req[r].user = v /\ Granted(r)) PROVE Silent(r, v)
    <2>1. /\ req[r].pc = "prepay" /\ Count(req[r].user) /\ (LetIn(r) \/ Answer(r, "refused"))
          /\ UNCHANGED <<window, usage, history, made, owed, faults>>
        BY <1>3 DEF Prepay
    <2>2. points'[v] >= points[v]
        BY <1>f, <2>1
    <2>3. CASE req[r].user # v
        <3>1. req'[r].user # v
            BY <2>1, <2>3, <1>g DEF LetIn, Answers, TypeOK, RequestState
        <3> QED BY <2>1, <2>2, <2>3, <3>1 DEF Silent
    <2>4. CASE ~Granted(r)
        <3>1. req'[r].pc = "done"
            BY <1>3, <1>g, <2>4 DEF Prepay, Answers
        <3> QED BY <2>1, <2>2, <3>1 DEF Silent
    <2> QED BY <1>3, <2>3, <2>4
<1>4. ASSUME Prepay(r), req[r].user = v, Granted(r)
      PROVE  /\ LetIn(r) /\ UNCHANGED <<subs, window, made, owed, usage, history, faults>>
             /\ req[r].pc = "prepay" /\ points'[v] = points[v] + 1
    BY <1>4, <1>f DEF Prepay
<1>5. ASSUME Check(r), ~(req[r].user = v /\ Granted(r)) PROVE Silent(r, v)
    <2>1. /\ req[r].pc = "check" /\ (LetIn(r) \/ Answer(r, "refused"))
          /\ UNCHANGED <<points, window, usage, history, made, owed, faults>>
        BY <1>5 DEF Check
    <2>2. CASE req[r].user # v
        <3>1. req'[r].user # v
            BY <2>1, <2>2, <1>g DEF LetIn, Answers, TypeOK, RequestState
        <3> QED BY <2>1, <2>2, <3>1 DEF Silent
    <2>3. CASE ~Granted(r)
        <3>1. req'[r].pc = "done"
            BY <1>5, <1>g, <2>3 DEF Check, Answers
        <3> QED BY <2>1, <3>1 DEF Silent
    <2> QED BY <1>5, <2>2, <2>3
<1>6. ASSUME Check(r), req[r].user = v, Granted(r)
      PROVE  /\ LetIn(r) /\ UNCHANGED <<subs, window, made, owed, usage, history, faults>>
             /\ req[r].pc = "check" /\ points'[v] = points[v]
    BY <1>6 DEF Check
<1>7. ASSUME HandleOk(r), req[r].user # v PROVE Silent(r, v)
    <2>1. req'[r].user # v /\ made'[v] = made[v] /\ owed'[v] = owed[v]
        BY <1>7 DEF HandleOk, TypeOK, RequestState
    <2> QED BY <1>7, <2>1 DEF HandleOk, Silent
<1>8. CASE HandleRefuses(r)
    <2>1. req[r].pc = "handle" /\ req'[r].pc = "done"
        BY <1>8, <1>g DEF HandleRefuses, Answers
    <2> QED BY <1>8, <2>1 DEF HandleRefuses, Silent
<1>9. CASE Charge(r)
    <2>1. /\ req[r].pc = "charge" /\ Count(req[r].user)
          /\ UNCHANGED <<window, usage, history, made, owed, faults>>
        BY <1>9 DEF Charge
    <2>2. req'[r].pc \in {"record", "done"} /\ req'[r].user = req[r].user
        BY <1>9, <1>g DEF Charge, Goto, Answers, TypeOK, RequestState
    <2>3. points'[v] >= points[v] /\ (req[r].user = v => points'[v] = points[v] + 1)
        BY <1>f, <2>1
    <2> QED BY <2>1, <2>2, <2>3 DEF Silent
<1>10. CASE RecordRead(r)
    <2>1. req[r].pc = "record" /\ req'[r].pc = "save" /\ req'[r].user = req[r].user
        BY <1>10 DEF RecordRead, TypeOK, RequestState
    <2> QED BY <1>10, <2>1 DEF RecordRead, Silent
<1>11. ASSUME RecordSave(r), ~(req[r].user = v /\ (req[r].seen.row \/ ~usage[v].row))
       PROVE  Silent(r, v)
    <2>1. /\ req[r].pc = "save" /\ (Answer(r, "ok") \/ Answer(r, "failed"))
          /\ UNCHANGED <<points, window, made, owed, faults>>
        BY <1>11 DEF RecordSave
    <2>2. req'[r].pc = "done" /\ req'[r].user = req[r].user
        BY <1>g, <2>1 DEF Answers
    <2>3. usage'[v] = usage[v] /\ history'[v] = history[v]
        BY <1>11 DEF RecordSave, TypeOK
    <2> QED BY <2>1, <2>2, <2>3 DEF Silent
<1>12. CASE Fail(r)
    <2>1. /\ req'[r].pc = "done" /\ faults' = faults + 1
          /\ UNCHANGED <<window, usage, history, made, owed>>
        BY <1>12, <1>g DEF Fail, Answers
    <2>2. points'[v] >= points[v]
        BY <1>12, <1>f DEF Fail
    <2> QED BY <2>1, <2>2 DEF Silent
<1>13. subs' = subs
    BY StepFrame
<1> QED BY <1>1, <1>2, <1>3, <1>4, <1>5, <1>6, <1>7, <1>8, <1>9, <1>10, <1>11, <1>12, <1>13 DEF Step

LEMMA StepKeepsNumbers ==
    ASSUME TypeOK, TypeOK', NEW r \in Request, NEW v \in User, Consistent(r), Step(r),
           NEW m \in Nat, NEW p \in Nat, NEW c \in Nat, NEW q \in Nat, NEW b \in subs[v],
           p + c + 1 <= Cardinality(Request), Numbers(r, v, m, p, c, q, b)
    PROVE  \E b1 \in subs'[v] : Numbers(r, v, m, p, c, q, b1)'
<1>1. b \in Plan /\ subs' = subs /\ req[r].plan \in subs[req[r].user]
    BY NumberTypes, StepFrame DEF Consistent
<1>2. CASE Silent(r, v)
    BY <1>1, <1>2, Quiet
<1>3. ASSUME req[r].user = v, LetIn(r), Granted(r),
             UNCHANGED <<subs, window, made, owed, usage, history, faults>>,
             \/ req[r].pc = "prepay" /\ points'[v] = points[v] + 1
             \/ req[r].pc = "check" /\ points'[v] = points[v]
      PROVE  \E b1 \in subs'[v] : Numbers(r, v, m, p, c, q, b1)'
    <2>1. PICK b1 \in subs[v] : b1 = req[r].plan
        BY <1>1, <1>3
    <2>2. req'[r].plan = b1
        BY <1>3, <2>1 DEF LetIn, TypeOK, RequestState
    <2>3. Numbers(r, v, m, p, c, q, b1)'
        BY <1>1, <1>3, <2>1, <2>2, LettingIn
    <2> QED BY <1>1, <2>3
<1>4. ASSUME req[r].user = v, HandleOk(r) PROVE Numbers(r, v, m, p, c, q, b)'
    BY <1>1, <1>4, MakingUrl
<1>5. ASSUME req[r].user = v, RecordSave(r), req[r].seen.row \/ ~usage[v].row
      PROVE  Numbers(r, v, m, p, c, q, b)'
    BY <1>1, <1>5, Recording
<1> QED BY <1>1, <1>2, <1>3, <1>4, <1>5, StepsOf

LEMMA StepKeepsBalance ==
    ASSUME IInv, NEW r \in Request, NEW v \in User, Step(r)
    PROVE  Balance(v)'
<1>1. TypeOK /\ TypeOK' /\ Consistent(r) /\ Balance(v)
    BY TypeOfRequest DEF IInv, Balance
<1>2. (\A x \in Request : x # r => req'[x] = req[x]) /\ window'[v] = window[v]
    BY <1>1, StepFrame
<1>3. PICK m \in Nat, p \in Nat, c \in Nat, q \in Nat :
          /\ p + c + 1 <= Cardinality(Request)
          /\ Counts(r, v, m, p, c, q)
          /\ Counts(r, v, m, p, c, q)'
    BY <1>2, Others
<1>4. PICK b \in subs[v] : Numbers(r, v, m, p, c, q, b)
    BY <1>1, <1>3, BalanceIsNumbers
<1>5. \E b1 \in subs'[v] : Numbers(r, v, m, p, c, q, b1)'
    BY <1>1, <1>3, <1>4, StepKeepsNumbers
<1>6. Counts(r, v, m, p, c, q)' =>
          (Balance(v)' <=> \E b1 \in subs'[v] : Numbers(r, v, m, p, c, q, b1)')
    BY DEF Counts, Balance, Paid, Bounded, PrepaidBounded, Recorded, Numbers
<1> QED BY <1>3, <1>5, <1>6

\* A new window starts with no URL, and none of its requests; a subscription only widens the choice.
LEMMA EnvironmentKeepsBalance ==
    ASSUME IInv, NEW u \in User, NEW v \in User, Environment(u)
    PROVE  Balance(v)'
<1>1. TypeOK /\ Balance(v) /\ \A r \in Request : Consistent(r)
    BY DEF IInv, Balance
<1>2. ASSUME NEW plan \in Plan, Subscribe(u, plan) \/ Switch(u, plan) PROVE Balance(v)'
    <2>1. /\ subs[v] \subseteq subs'[v]
          /\ UNCHANGED <<points, window, usage, history, req, made, owed, faults>>
        BY <1>1, <1>2 DEF Subscribe, Switch, TypeOK, record
    <2>2. OnlyPrepaid(v)' => OnlyPrepaid(v)
        BY <2>1 DEF OnlyPrepaid
    <2>3. /\ \A b \in BOOLEAN : Making(v, b)' = Making(v, b)
          /\ Unpaid(v)' = Unpaid(v) /\ Unrecorded(v)' = Unrecorded(v)
        BY <2>1 DEF Making, Unpaid, Unrecorded
    <2> QED BY <1>1, <2>1, <2>2, <2>3 DEF Balance, Paid, Bounded, PrepaidBounded, Recorded
<1>3. CASE WindowEnds(u) /\ u # v
    <2>1. /\ window'[v] = window[v] /\ points'[v] = points[v] /\ made'[v] = made[v]
          /\ UNCHANGED <<subs, usage, history, req, owed, faults>>
        BY <1>1, <1>3 DEF WindowEnds, TypeOK, plans, record
    <2>2. /\ \A b \in BOOLEAN : Making(v, b)' = Making(v, b)
          /\ Unpaid(v)' = Unpaid(v) /\ Unrecorded(v)' = Unrecorded(v)
        BY <2>1 DEF Making, Unpaid, Unrecorded
    <2>3. OnlyPrepaid(v)' <=> OnlyPrepaid(v)
        BY <2>1 DEF OnlyPrepaid
    <2> QED BY <1>1, <2>1, <2>2, <2>3 DEF Balance, Paid, Bounded, PrepaidBounded, Recorded
<1>4. CASE WindowEnds(v)
    <2>1. /\ window'[v] = window[v] + 1 /\ points'[v] = 0 /\ made'[v] = 0
          /\ UNCHANGED <<subs, usage, history, req, owed, faults>>
        BY <1>1, <1>4 DEF WindowEnds, TypeOK, plans, record
    <2>2. \A r \in Request : req[r].user = v => req[r].window # window'[v]
        BY <1>1, <2>1, RequestFields DEF Consistent, TypeOK
    <2>3. /\ Making(v, FALSE)' = {} /\ Making(v, TRUE)' = {} /\ Unpaid(v)' = {}
          /\ Unrecorded(v)' = Unrecorded(v)
        BY <2>1, <2>2 DEF Making, Unpaid, Unrecorded
    <2>4. PICK b \in subs[v] : TRUE
        BY DEF IInv
    <2>5. 0 < Limit[b] /\ Limit[b] \in Nat /\ Cardinality(Request) \in Nat /\ faults \in Nat
        BY <1>1, <2>4, NumberTypes, ThrottleAssumption DEF TypeOK
    <2>6. Cardinality({}) = 0
        BY FS_EmptySet
    <2>7. /\ Cardinality(Making(v, FALSE)') = 0 /\ Cardinality(Making(v, TRUE)') = 0
          /\ Cardinality(Unpaid(v)') = 0
        BY <2>3, <2>6
    <2>8. Paid(v)'
        <3>1. 0 + 0 <= 0 + 0 + faults
            BY <2>5
        <3> QED BY <2>1, <2>7, <3>1 DEF Paid
    <2>9. Bounded(v)'
        <3>1. 0 + 0 + 0 < Limit[b] + Cardinality(Request) + faults
            BY <2>5
        <3> QED BY <2>1, <2>4, <2>7, <3>1 DEF Bounded
    <2>10. PrepaidBounded(v)'
        <3>1. 0 + 0 <= 0 /\ 0 + 0 <= Limit[b]
            BY <2>5
        <3> QED BY <2>1, <2>4, <2>7, <3>1 DEF PrepaidBounded
    <2>11. Recorded(v)'
        BY <1>1, <2>1, <2>3 DEF Balance, Recorded
    <2> QED BY <2>8, <2>9, <2>10, <2>11 DEF Balance
<1> QED BY <1>2, <1>3, <1>4 DEF Environment

-----------------------------------------------------------------------------
(* The theorems. *)

LEMMA InitHolds == Init => IInv
<1> SUFFICES ASSUME Init PROVE IInv
    OBVIOUS
<1>1. TypeOK
    BY TypeInit
<1>2. \A r \in Request : \E u \in User : req[r] = Fresh(u, "done")
    BY DEF Init, Idle
<1>3. \A r \in Request : Consistent(r)
    BY <1>2 DEF Init, Consistent, Fresh, NoUsage
<1>4. ASSUME NEW v \in User PROVE Balance(v)
    <2>1. /\ Making(v, FALSE) = {} /\ Making(v, TRUE) = {} /\ Unpaid(v) = {} /\ Unrecorded(v) = {}
        <3>1. ASSUME NEW r \in Request PROVE req[r].pc = "done"
            <4>1. PICK u \in User : req[r] = Fresh(u, "done")
                BY <1>2
            <4> QED BY <4>1 DEF Fresh
        <3> QED BY <3>1 DEF Making, Unpaid, Unrecorded
    <2>2. Cardinality({}) = 0
        BY FS_EmptySet
    <2>3. 0 < Limit[Free] /\ Limit[Free] \in Nat /\ Cardinality(Request) \in Nat
        BY ThrottleAssumption, FS_CardinalityType
    <2>4. /\ Cardinality(Making(v, FALSE)) = 0 /\ Cardinality(Making(v, TRUE)) = 0
          /\ Cardinality(Unpaid(v)) = 0 /\ Cardinality(Unrecorded(v)) = 0
        BY <2>1, <2>2
    <2>5. /\ made[v] = 0 /\ points[v] = 0 /\ usage[v].used = 0 /\ history[v] = 0 /\ owed[v] = 0
          /\ faults = 0 /\ Free \in subs[v]
        BY DEF Init, NoUsage
    <2>6. 0 + 0 + 0 < Limit[Free] + Cardinality(Request) + 0
        BY <2>3
    <2>7. Bounded(v)
        BY <2>4, <2>5, <2>6 DEF Bounded
    <2>8. PrepaidBounded(v)
        <3>1. 0 + 0 <= 0 /\ 0 + 0 <= Limit[Free]
            BY <2>3
        <3> QED BY <2>4, <2>5, <3>1 DEF PrepaidBounded
    <2>9. Paid(v)
        <3>1. 0 + 0 <= 0 + 0 + 0
            OBVIOUS
        <3> QED BY <2>4, <2>5, <3>1 DEF Paid
    <2>10. Recorded(v)
        <3>1. 0 <= 0 /\ 0 + 0 <= 0
            OBVIOUS
        <3> QED BY <2>4, <2>5, <3>1 DEF Recorded
    <2> QED BY <2>7, <2>8, <2>9, <2>10 DEF Balance
<1> QED BY <1>1, <1>3, <1>4 DEF Init, IInv, Balance

LEMMA StepHolds == IInv /\ [Next]_vars => IInv'
<1> SUFFICES ASSUME IInv, [Next]_vars PROVE IInv'
    OBVIOUS
<1>1. TypeOK' /\ Held' /\ AllConsistent'
    BY TypeStep, ConsistentStep DEF IInv
<1>2. ASSUME NEW v \in User PROVE Balance(v)'
    <2>1. CASE UNCHANGED vars
        <3>1. /\ \A b \in BOOLEAN : Making(v, b)' = Making(v, b)
              /\ Unpaid(v)' = Unpaid(v) /\ Unrecorded(v)' = Unrecorded(v)
            BY <2>1 DEF vars, plans, record, Making, Unpaid, Unrecorded
        <3>2. Balance(v)
            BY DEF IInv, Balance
        <3> QED BY <2>1, <3>1, <3>2 DEF vars, plans, record, Balance, Paid, Bounded,
                PrepaidBounded, OnlyPrepaid, Recorded
    <2> QED BY <2>1, StepKeepsBalance, EnvironmentKeepsBalance DEF Next
<1> QED BY <1>1, <1>2 DEF IInv, Held, AllConsistent, Balance

\* IInv is inductive: every other theorem follows from it.
THEOREM ThrottleInductive == Spec => []IInv
BY InitHolds, StepHolds, PTL DEF Spec

\* The URLs of a window stay below the largest limit, plus the requests in progress, plus the
\* failures (throttle-plan.guard.ts:75 and throttle.interceptor.ts:53, two steps of one request).
THEOREM Overrun == Spec => []OverrunBounded
<1>1. IInv => OverrunBounded
    <2> SUFFICES ASSUME IInv, NEW u \in User
                 PROVE  \E plan \in subs[u] : made[u] < Limit[plan] + Cardinality(Request) + faults
        BY DEF OverrunBounded
    <2>1. PICK plan \in subs[u] :
              made[u] + Cardinality(Making(u, FALSE)) + Cardinality(Making(u, TRUE))
                  < Limit[plan] + Cardinality(Request) + faults
        BY DEF IInv, Bounded
    <2>2. Making(u, FALSE) \subseteq Request /\ Making(u, TRUE) \subseteq Request
        BY DEF Making
    <2>3. Cardinality(Making(u, FALSE)) \in Nat /\ Cardinality(Making(u, TRUE)) \in Nat
        BY <2>2, ThrottleAssumption, FS_Subset, FS_CardinalityType
    <2>4. /\ made[u] \in Nat /\ Limit[plan] \in Nat /\ faults \in Nat
          /\ Cardinality(Request) \in Nat
        BY <2>1, NumberTypes DEF IInv
    <2>5. made[u] < Limit[plan] + Cardinality(Request) + faults
        <3> DEFINE x == Cardinality(Making(u, FALSE))
                   y == Cardinality(Making(u, TRUE))
        <3>1. /\ x \in Nat /\ y \in Nat
              /\ made[u] + x + y < Limit[plan] + Cardinality(Request) + faults
            BY <2>1, <2>3
        <3> HIDE DEF x, y
        <3> QED BY <2>4, <3>1
    <2> QED BY <2>5
<1> QED BY <1>1, ThrottleInductive, PTL

\* While every plan of the user is charged first, its limit is never overrun
\* (throttle-plan.guard.ts:53), whatever fails.
THEOREM PrepaidLimit == Spec => []PrepaidWithinLimit
<1>1. IInv => PrepaidWithinLimit
    <2> SUFFICES ASSUME IInv, NEW u \in User, OnlyPrepaid(u)
                 PROVE  \E plan \in subs[u] : made[u] <= Limit[plan]
        BY DEF PrepaidWithinLimit
    <2>1. PICK plan \in subs[u] : made[u] + Cardinality(Making(u, FALSE)) <= Limit[plan]
        BY DEF IInv, PrepaidBounded
    <2>2. Making(u, FALSE) \subseteq Request
        BY DEF Making
    <2>3. Cardinality(Making(u, FALSE)) \in Nat
        BY <2>2, ThrottleAssumption, FS_Subset, FS_CardinalityType
    <2>4. made[u] \in Nat /\ Limit[plan] \in Nat
        BY <2>1, NumberTypes DEF IInv
    <2>5. made[u] <= Limit[plan]
        <3> DEFINE x == Cardinality(Making(u, FALSE))
        <3>1. x \in Nat /\ made[u] + x <= Limit[plan]
            BY <2>1, <2>3
        <3> HIDE DEF x
        <3> QED BY <2>4, <3>1
    <2> QED BY <2>5
<1> QED BY <1>1, ThrottleInductive, PTL

\* Nothing is recorded that was not made (throttle.service.ts:198), though updates may be lost.
THEOREM UsageIsOwed == Spec => []RecordedIsOwed
<1>1. IInv => RecordedIsOwed
    <2> SUFFICES ASSUME IInv, NEW u \in User
                 PROVE  usage[u].used <= history[u] /\ history[u] <= owed[u]
        BY DEF RecordedIsOwed
    <2>1. usage[u].used <= history[u] /\ history[u] + Cardinality(Unrecorded(u)) <= owed[u]
        BY DEF IInv, Recorded
    <2>2. Unrecorded(u) \subseteq Request
        BY DEF Unrecorded
    <2>3. Cardinality(Unrecorded(u)) \in Nat
        BY <2>2, ThrottleAssumption, FS_Subset, FS_CardinalityType
    <2> QED BY <2>1, <2>3, NumberTypes DEF IInv
<1> QED BY <1>1, ThrottleInductive, PTL

-----------------------------------------------------------------------------
(* One request at a time. *)

\* The only request: what it holds is still so, since no one else writes.
AloneFits(r) == LET q == req[r] IN
    /\ q.pc # Idle => q.answer = "none"
    /\ q.pc \in {"resolve", "prepay", "check", "handle"} \/ q.answer = "refused" => ~q.url
    /\ q.pc = "prepay" => ~ChargeOnSuccess[q.plan]
    /\ q.pc = "charge" \/ (q.pc = "handle" /\ ChargeOnSuccess[q.plan]) => Granted(r)
    /\ q.pc = "save" => q.seen = usage[q.user]

\* What it has not recorded yet is owed, and nothing else but what failures lost.
Agree(r, u) ==
    /\ usage[u].used = history[u]
    /\ owed[u] <= history[u] + faults + One(IsUnrecorded(r, u))

SInv(r) == TypeOK /\ AloneFits(r) /\ \A u \in User : Agree(r, u)

LEMMA AloneInit == ASSUME NEW r, Request = {r} PROVE Init => SInv(r)
<1> SUFFICES ASSUME Init PROVE SInv(r)
    OBVIOUS
<1>1. PICK u \in User : req[r] = Fresh(u, "done")
    BY DEF Init, Idle
<1>2. AloneFits(r)
    BY <1>1 DEF AloneFits, Fresh, Idle
<1>3. ASSUME NEW v \in User PROVE Agree(r, v)
    <2>1. usage[v].used = 0 /\ history[v] = 0 /\ owed[v] = 0 /\ faults = 0
        BY DEF Init, NoUsage
    <2>2. One(IsUnrecorded(r, v)) \in {0, 1}
        BY OneOrder
    <2> QED BY <2>1, <2>2 DEF Agree
<1> QED BY <1>2, <1>3, TypeInit DEF SInv

\* A step that records nothing and owes nothing, but what a failure loses.
LEMMA Unowed ==
    ASSUME TypeOK, TypeOK', NEW r \in Request, NEW v \in User, Agree(r, v),
           UNCHANGED <<usage, history, owed>>, faults' >= faults,
           IsUnrecorded(r, v) => IsUnrecorded(r, v)' \/ faults' = faults + 1
    PROVE  Agree(r, v)'
<1>1. PICK k : k = One(IsUnrecorded(r, v))
    OBVIOUS
<1>2. PICK l : l = One(IsUnrecorded(r, v))'
    OBVIOUS
<1>3. k \in {0, 1} /\ l \in {0, 1} /\ (k <= l \/ faults' = faults + 1)
    BY <1>1, <1>2, OneOrder
<1>4. history[v] \in Nat /\ owed[v] \in Nat /\ faults \in Nat /\ faults' \in Nat
    BY DEF TypeOK
<1> QED BY <1>1, <1>2, <1>3, <1>4 DEF Agree

\* What r is after its step.
LEMMA AloneStep ==
    ASSUME NEW r, Request = {r}, SInv(r), TypeOK', Step(r)
    PROVE  AloneFits(r)'
<1>0. r \in Request /\ req[r] \in RequestState /\ req[r].user \in User /\ req[r].plan \in Plan
      /\ usage[req[r].user] \in Usage /\ req \in [Request -> RequestState]
    BY RequestFields DEF SInv, TypeOK
<1>f. \A x : [req EXCEPT ![r] = x][r] = x
    BY <1>0
<1> USE DEF SInv
<1>1. ASSUME NEW u \in User, Arrive(r, u) PROVE AloneFits(r)'
    <2>1. req'[r] = Fresh(u, "resolve")
        BY <1>0, <1>1, <1>f DEF Arrive
    <2> QED BY <2>1 DEF AloneFits, Fresh, Idle
<1>2. ASSUME NEW plan \in Plan, Resolve(r, plan) PROVE AloneFits(r)'
    <2>1. PICK pc \in {"check", "prepay"} :
            /\ req'[r] = [req[r] EXCEPT !.pc = pc, !.plan = plan]
            /\ pc = "prepay" => ~ChargeOnSuccess[plan]
        BY <1>0, <1>2, <1>f DEF Resolve
    <2>2. /\ req'[r].pc = pc /\ req'[r].plan = plan /\ req'[r].url = req[r].url
          /\ req'[r].answer = req[r].answer
        BY <1>0, <2>1 DEF RequestState
    <2> QED BY <1>2, <2>1, <2>2 DEF AloneFits, Resolve, Idle
<1>3. ASSUME NEW answer \in Answers, Answer(r, answer), answer = "refused" => ~req[r].url PROVE AloneFits(r)'
    <2>1. req'[r] = [req[r] EXCEPT !.pc = "done", !.answer = answer]
        BY <1>0, <1>3, <1>f DEF Answer, Idle
    <2>2. req'[r].pc = "done" /\ req'[r].answer = answer /\ req'[r].url = req[r].url
        BY <1>0, <2>1 DEF RequestState
    <2> QED BY <1>3, <2>2 DEF AloneFits, Idle
<1>4. ASSUME LetIn(r), ChargeOnSuccess[req[r].plan] => Granted(r) /\ points' = points,
             req[r].pc \in {"prepay", "check"}
      PROVE  AloneFits(r)'
    <2>1. req'[r] = [req[r] EXCEPT !.pc = "handle", !.window = window[req[r].user]]
        BY <1>0, <1>4, <1>f DEF LetIn
    <2>2. /\ req'[r].pc = "handle" /\ req'[r].answer = req[r].answer /\ req'[r].url = req[r].url
          /\ req'[r].plan = req[r].plan /\ req'[r].user = req[r].user
        BY <1>0, <2>1 DEF RequestState
    <2> QED BY <1>4, <2>2 DEF AloneFits, Idle, Granted
<1>5. CASE Prepay(r)
    BY <1>3, <1>4, <1>5 DEF Prepay, AloneFits, Answers
<1>6. CASE Check(r)
    BY <1>3, <1>4, <1>6 DEF Check, AloneFits, Answers
<1>7. CASE HandleOk(r)
    <2>0. PICK pc, answer : /\ pc = IF ChargeOnSuccess[req[r].plan] THEN "charge" ELSE Idle
                            /\ answer = IF ChargeOnSuccess[req[r].plan] THEN "none" ELSE "ok"
        OBVIOUS
    <2>1. req'[r] = [req[r] EXCEPT !.pc = pc, !.url = TRUE, !.answer = answer]
        BY <1>7, <1>f, <2>0 DEF HandleOk
    <2>2. /\ req'[r].pc = pc /\ req'[r].answer = answer
          /\ req'[r].plan = req[r].plan /\ req'[r].user = req[r].user
        BY <1>0, <2>1 DEF RequestState
    <2>3. req[r].pc = "handle" /\ points' = points
        BY <1>7 DEF HandleOk
    <2> QED BY <2>0, <2>2, <2>3 DEF AloneFits, Idle, Granted
<1>8. CASE HandleRefuses(r)
    BY <1>3, <1>8 DEF HandleRefuses, Answers
<1>9. CASE Charge(r)
    <2>1. Goto(r, "record") /\ req[r].pc = "charge"
        BY <1>9 DEF Charge, AloneFits
    <2>2. req'[r] = [req[r] EXCEPT !.pc = "record"]
        BY <1>0, <2>1, <1>f DEF Goto
    <2>3. req'[r].pc = "record" /\ req'[r].answer = req[r].answer
        BY <1>0, <2>2 DEF RequestState
    <2> QED BY <2>1, <2>3 DEF AloneFits, Idle
<1>10. CASE RecordRead(r)
    <2>1. req'[r] = [req[r] EXCEPT !.pc = "save", !.seen = usage[req[r].user]]
          /\ req[r].pc = "record" /\ usage' = usage
        BY <1>0, <1>10, <1>f DEF RecordRead, record
    <2>2. req'[r].pc = "save" /\ req'[r].answer = req[r].answer /\ req'[r].user = req[r].user
          /\ req'[r].seen = usage[req[r].user]
        BY <1>0, <2>1 DEF RequestState
    <2> QED BY <2>1, <2>2 DEF AloneFits, Idle
<1>11. CASE RecordSave(r)
    BY <1>3, <1>11 DEF RecordSave, Answers
<1>12. CASE Fail(r)
    BY <1>3, <1>12 DEF Fail, Answers
<1> QED BY <1>1, <1>2, <1>5, <1>6, <1>7, <1>8, <1>9, <1>10, <1>11, <1>12 DEF Step

\* What is recorded and owed after its step.
LEMMA AgreeStep ==
    ASSUME NEW r, Request = {r}, SInv(r), TypeOK', Step(r), NEW v \in User
    PROVE  Agree(r, v)'
<1>0. /\ r \in Request /\ req[r] \in RequestState /\ req[r].user \in User
      /\ usage[req[r].user] \in Usage /\ req \in [Request -> RequestState]
      /\ Agree(r, v) /\ TypeOK /\ AloneFits(r)
      /\ history[v] \in Nat /\ owed[v] \in Nat /\ faults \in Nat
      /\ usage \in [User -> Usage] /\ history \in [User -> Nat] /\ owed \in [User -> Nat]
    BY RequestFields DEF SInv, TypeOK
<1>f. \A x : [req EXCEPT ![r] = x][r] = x
    BY <1>0
<1>1. ASSUME \/ \E u \in User : Arrive(r, u)
             \/ \E plan \in Plan : Resolve(r, plan)
             \/ Prepay(r) \/ Check(r) \/ HandleRefuses(r)
      PROVE  Agree(r, v)'
    <2>1. ~IsUnrecorded(r, v) /\ UNCHANGED <<usage, history, owed, faults>>
        <3>1. ASSUME NEW u \in User, Arrive(r, u) PROVE ~IsUnrecorded(r, v) /\ UNCHANGED <<record, owed, faults>>
            BY <3>1 DEF Arrive, IsUnrecorded, Idle
        <3>2. ASSUME NEW plan \in Plan, Resolve(r, plan)
              PROVE  ~IsUnrecorded(r, v) /\ UNCHANGED <<record, owed, faults>>
            BY <3>2 DEF Resolve, IsUnrecorded
        <3>3. ASSUME Prepay(r) \/ Check(r) \/ HandleRefuses(r)
              PROVE  ~IsUnrecorded(r, v) /\ UNCHANGED <<record, owed, faults>>
            BY <3>3 DEF Prepay, Check, HandleRefuses, IsUnrecorded
        <3> QED BY <1>1, <3>1, <3>2, <3>3 DEF record
    <2> QED BY <1>0, <2>1, Unowed DEF TypeOK
<1>2. CASE HandleOk(r)
    <2>1. PICK onSuccess : onSuccess = ChargeOnSuccess[req[r].plan]
        OBVIOUS
    <2>2. PICK pc, answer : /\ pc = IF onSuccess THEN "charge" ELSE Idle
                            /\ answer = IF onSuccess THEN "none" ELSE "ok"
        OBVIOUS
    <2>7. req'[r] = [req[r] EXCEPT !.pc = pc, !.url = TRUE, !.answer = answer]
        BY <1>2, <1>f, <2>1, <2>2 DEF HandleOk
    <2>3. req'[r].pc = pc /\ req'[r].user = req[r].user /\ req[r].pc = "handle"
        BY <1>0, <1>2, <2>7 DEF RequestState, HandleOk
    <2>4. UNCHANGED <<usage, history, faults>>
          /\ owed' = [owed EXCEPT ![req[r].user] = IF onSuccess THEN owed[req[r].user] + 1 ELSE owed[req[r].user]]
        BY <1>2, <2>1 DEF HandleOk, record
    <2>5. CASE onSuccess /\ v = req[r].user
        <3>1. IsUnrecorded(r, v)' /\ ~IsUnrecorded(r, v)
            BY <2>2, <2>3, <2>5 DEF IsUnrecorded
        <3>2. owed'[v] = owed[v] + 1
            BY <1>0, <2>4, <2>5
        <3>3. One(IsUnrecorded(r, v)) = 0 /\ One(IsUnrecorded(r, v))' = 1
            BY <3>1 DEF One
        <3> QED BY <1>0, <2>4, <3>2, <3>3 DEF Agree
    <2>6. CASE ~(onSuccess /\ v = req[r].user)
        <3>1. ~IsUnrecorded(r, v) /\ ~IsUnrecorded(r, v)'
            BY <2>2, <2>3, <2>6 DEF IsUnrecorded, Idle
        <3>2. owed'[v] = owed[v]
            BY <1>0, <2>4, <2>6
        <3>3. One(IsUnrecorded(r, v)) = 0 /\ One(IsUnrecorded(r, v))' = 0
            BY <3>1 DEF One
        <3> QED BY <1>0, <2>4, <3>2, <3>3 DEF Agree
    <2> QED BY <2>5, <2>6
<1>3. CASE Charge(r)
    <2>1. Goto(r, "record") /\ UNCHANGED <<usage, history, owed, faults>>
        BY <1>0, <1>3 DEF Charge, AloneFits, record
    <2>2. req'[r] = [req[r] EXCEPT !.pc = "record"]
        BY <1>f, <2>1 DEF Goto
    <2>3. req'[r].pc = "record" /\ req'[r].user = req[r].user
        BY <1>0, <2>2 DEF RequestState
    <2>4. IsUnrecorded(r, v) => IsUnrecorded(r, v)'
        BY <2>3 DEF IsUnrecorded
    <2> QED BY <1>0, <2>1, <2>4, Unowed DEF TypeOK
<1>4. CASE RecordRead(r)
    <2>1. req'[r] = [req[r] EXCEPT !.pc = "save", !.seen = usage[req[r].user]]
          /\ UNCHANGED <<usage, history, owed, faults>>
        BY <1>4, <1>f DEF RecordRead, record
    <2>2. req'[r].pc = "save" /\ req'[r].user = req[r].user
        BY <1>0, <2>1 DEF RequestState
    <2>3. IsUnrecorded(r, v) => IsUnrecorded(r, v)'
        BY <2>2 DEF IsUnrecorded
    <2> QED BY <1>0, <2>1, <2>3, Unowed DEF TypeOK
<1>5. CASE RecordSave(r)
    <2>1. PICK u \in User : u = req[r].user
        BY <1>0
    <2>2. /\ req[r].pc = "save" /\ req[r].seen = usage[u] /\ Answer(r, "ok")
          /\ usage' = [usage EXCEPT ![u] = [row |-> TRUE, used |-> req[r].seen.used + 1]]
          /\ history' = [history EXCEPT ![u] = history[u] + 1]
          /\ UNCHANGED <<owed, faults>>
        BY <1>0, <1>5, <2>1 DEF RecordSave, AloneFits
    <2>3. req'[r] = [req[r] EXCEPT !.pc = "done", !.answer = "ok"]
        BY <1>f, <2>2 DEF Answer, Idle
    <2>4. req'[r].pc = "done"
        BY <1>0, <2>3 DEF RequestState
    <2>5. ~IsUnrecorded(r, v)' /\ (IsUnrecorded(r, v) <=> u = v)
        BY <2>1, <2>2, <2>4 DEF IsUnrecorded
    <2>6. CASE u = v
        <3>1. One(IsUnrecorded(r, v)) = 1 /\ One(IsUnrecorded(r, v))' = 0
            BY <2>5, <2>6 DEF One
        <3>2. usage'[v].used = usage[v].used + 1 /\ history'[v] = history[v] + 1
            BY <1>0, <2>2, <2>6
        <3> QED BY <1>0, <2>2, <3>1, <3>2 DEF Agree
    <2>7. CASE u # v
        <3>1. One(IsUnrecorded(r, v)) = 0 /\ One(IsUnrecorded(r, v))' = 0
            BY <2>5, <2>7 DEF One
        <3>2. usage'[v] = usage[v] /\ history'[v] = history[v]
            BY <1>0, <2>2, <2>7
        <3> QED BY <1>0, <2>2, <3>1, <3>2 DEF Agree
    <2> QED BY <2>6, <2>7
<1>6. CASE Fail(r)
    <2>1. faults' = faults + 1 /\ UNCHANGED <<usage, history, owed>>
        BY <1>6 DEF Fail, record
    <2> QED BY <1>0, <2>1, Unowed DEF TypeOK
<1> QED BY <1>1, <1>2, <1>3, <1>4, <1>5, <1>6 DEF Step

\* Whatever happens around it.
LEMMA AloneEnvironment ==
    ASSUME NEW r, Request = {r}, SInv(r), TypeOK', NEW u \in User, Environment(u)
    PROVE  SInv(r)'
<1>1. req' = req /\ UNCHANGED <<record, owed, faults>>
    BY DEF Environment, Subscribe, Switch, WindowEnds
<1>2. Granted(r) => Granted(r)'
    <2>1. \/ points' = points
          \/ points' = [points EXCEPT ![u] = 0]
        BY DEF Environment, Subscribe, Switch, WindowEnds
    <2>2. req[r].user \in User /\ Limit[req[r].plan] \in Nat \ {0} /\ points \in [User -> Nat]
        BY RequestFields, ThrottleAssumption DEF SInv, TypeOK
    <2> QED BY <1>1, <2>1, <2>2 DEF Granted
<1>3. AloneFits(r)'
    BY <1>1, <1>2 DEF SInv, AloneFits, record
<1>4. \A v \in User : Agree(r, v)'
    BY <1>1 DEF SInv, Agree, IsUnrecorded, record
<1> QED BY <1>3, <1>4 DEF SInv

LEMMA AloneInductive == ASSUME NEW r, Request = {r} PROVE SInv(r) /\ [Next]_vars => SInv(r)'
<1> SUFFICES ASSUME SInv(r), [Next]_vars PROVE SInv(r)'
    OBVIOUS
<1>1. TypeOK'
    BY TypeStep DEF SInv
<1>2. CASE UNCHANGED vars
    <2>1. AloneFits(r)'
        BY <1>2 DEF SInv, AloneFits, Granted, vars, record
    <2>2. \A v \in User : Agree(r, v)'
        BY <1>2 DEF SInv, Agree, IsUnrecorded, vars, record
    <2> QED BY <1>1, <2>1, <2>2 DEF SInv
<1>3. CASE Step(r)
    BY <1>1, <1>3, AloneStep, AgreeStep DEF SInv
<1>4. ASSUME NEW u \in User, Environment(u) PROVE SInv(r)'
    BY <1>1, <1>4, AloneEnvironment
<1> QED BY <1>2, <1>3, <1>4 DEF Next

LEMMA Alone == ASSUME NEW r, Request = {r} PROVE Spec => []SInv(r)
BY AloneInit, AloneInductive, PTL DEF Spec

\* With one request at a time, usage, history and URLs agree once it is answered, but for what
\* failures lost (throttle.interceptor.ts, throttle.service.ts recordUsage).
THEOREM Settled == ASSUME NEW r, Request = {r} PROVE Spec => []SettledIsRecorded
<1>1. SInv(r) /\ IInv => SettledIsRecorded
    <2> SUFFICES ASSUME SInv(r), IInv, req[r].pc = Idle, NEW u \in User
                 PROVE  usage[u].used = history[u] /\ history[u] <= owed[u] /\ owed[u] <= history[u] + faults
        BY DEF SettledIsRecorded
    <2>1. One(IsUnrecorded(r, u)) = 0
        BY DEF IsUnrecorded, One, Idle
    <2>2. history[u] + Cardinality(Unrecorded(u)) <= owed[u] /\ Unrecorded(u) = {}
        BY DEF IInv, Recorded, Unrecorded, Idle
    <2>3. Cardinality({}) = 0 /\ history[u] \in Nat /\ faults \in Nat /\ owed[u] \in Nat
        BY FS_EmptySet DEF SInv, TypeOK
    <2> QED BY <2>1, <2>2, <2>3 DEF SInv, Agree
<1> QED BY <1>1, Alone, ThrottleInductive, PTL

\* With one request at a time, a request that is answered 429 has made no URL: the charge after
\* the handler finds the point that the guard has seen (throttle-plan.guard.ts, throttle.interceptor.ts).
THEOREM RefusedFirst == ASSUME NEW r, Request = {r} PROVE Spec => []RefusedMadeNothing
<1>1. SInv(r) => RefusedMadeNothing
    BY DEF SInv, AloneFits, RefusedMadeNothing
<1> QED BY <1>1, Alone, PTL

\* The types of Throttle.
THEOREM TypeCorrect == Spec => []TypeOK
<1>1. IInv => TypeOK
    BY DEF IInv
<1> QED BY <1>1, ThrottleInductive, PTL
=============================================================================
