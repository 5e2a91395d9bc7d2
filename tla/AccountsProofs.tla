---------------------------- MODULE AccountsProofs ----------------------------
(***************************************************************************)
(* Proofs about Accounts, for any number of sessions, requests, tokens and *)
(* changes, and any number of failures. Four facts carry the argument. A   *)
(* session's row as a request loaded it is never newer than the row        *)
(* itself, and no two requests sign the first pair of a session, so an old *)
(* row written back can match no pair that was spent meanwhile unless it   *)
(* is revoked; the registration and each refresh that will write such a    *)
(* row back either hold it revoked or are excused. A copy of the account   *)
(* that will be saved is like the row, or the commit that made them differ *)
(* is excused. A profile or a verification that is cached, or about to be, *)
(* and is stale will be dropped by an update that has committed and not    *)
(* yet invalidated. And one reset at a time is past its check of the link, *)
(* until it marks it.                                                      *)
(***************************************************************************)
EXTENDS Accounts, TLAPS

\* Where a request goes on about the session whose token it carries, or about another of the user's.
Protected == {"entry", "blacklisted", "load", "fill", "me", "storeMe", "view", "storeView",
              "blacklist", "loadSession", "revoke", "revokeAll", "dropEntry", "validate", "expire",
              "reload", "refresh", "oldPassword", "change", "loadProfile", "saveProfile", "resend"}
Refreshing == {"validate", "expire", "reload", "refresh"}

\* Its tokens were signed, its sessions are rows, and what it loaded of them is not newer than they are.
InProgress(q) ==
    /\ q.pc # "idle" => account.pw # 0
    /\ q.pc \in Protected => /\ q.s \in Session /\ q.t \in Session
                             /\ <<q.s, q.n>> \in held /\ session[q.t].made
    /\ q.pc \in {"entry", "blacklisted", "load", "fill"} => q.op \in Authorized
    /\ q.pc = "me" => q.op = "me"
    /\ q.pc \in {"loadProfile", "saveProfile"} => q.op = "update"
    /\ q.pc \in Refreshing => q.t = q.s
    /\ q.pc \in {"revoke", "expire", "refresh"} => q.row.made /\ q.row.hash <= signed[q.t]
    /\ q.pc \in {"refresh", "tokens"} /\ q.t \in ended \ excused.sessions => q.row.revoked
    /\ q.pc \in SavesAccount => q.account.pw # 0
    /\ q.pc = "tokens" => /\ q.t \in Session /\ session[q.t].made /\ signed[q.t] = 0
                          /\ q.row.made /\ q.row.hash = 0

Excused == [sessions : SUBSET Session, account : BOOLEAN, info : BOOLEAN, link : BOOLEAN]
GhostsOK ==
    /\ intended \in Account /\ ended \subseteq Session /\ spent \subseteq held /\ resets \in 0..2
    /\ excused \in Excused

\* The pairs that clients hold are of rows, and the ones a row's hash may still become are newer.
Signed ==
    /\ \A h \in held : session[h[1]].made /\ h[2] <= signed[h[1]]
    /\ \A s \in Session : IF session[s].made THEN account.pw # 0 ELSE signed[s] = 0
    /\ \A s \in ended : session[s].made
    /\ \A r, x \in Request : At(r, "tokens") /\ At(x, "tokens") => r = x

\* Copies of the account that will be saved are like the row.
CopiesKept == ~excused.account => 
    /\ account = intended
    /\ \A r \in Request : req[r].pc \in SavesAccount => req[r].account = account

\* A stale copy of the user's info that will be stored, or used.
Stale(q) ==
    /\ q.pc \in StoresInfo \/ (q.op = "me" /\ q.pc = "me")
    /\ q.info.cached /\ ~Current(q.info)
Dropping(q, pcs) == q.op = "update" /\ q.pc \in pcs
StaleIsDropped == ~excused.info =>
    /\ (\E s \in Session : entry[s].cached /\ ~Current(entry[s])) \/ (\E r \in Request : Stale(req[r]))
        => \E r \in Request : Dropping(req[r], {"dropAll"})
    /\ me.cached /\ ~Current(me) => \E r \in Request : Dropping(req[r], {"dropAll", "dropMe"})

Resetting(q) == q.pc \in {"loadReset", "reset", "spend"}
OneReset == ~excused.link =>
    /\ resets = 0 \/ (resets = 1 /\ (spentLink \/ \E r \in Request : At(r, "spend")))
    /\ \A r, x \in Request : Resetting(req[r]) /\ Resetting(req[x]) => r = x
    /\ spentLink => \A r \in Request : ~Resetting(req[r])

Sessions ==
    /\ Signed /\ RevokedStays /\ SpentIsRefused
    /\ \A r \in Request : InProgress(req[r])

IInv == TypeOK /\ GhostsOK /\ Sessions /\ CopiesKept /\ StaleIsDropped /\ OneReset

-----------------------------------------------------------------------------
LEMMA Fields ==
    ASSUME NEW q \in RequestState
    PROVE  /\ q.pc \in Pc /\ q.op \in Authorized \cup Public \cup {"none"}
           /\ q.s \in Session \cup {NoSession} /\ q.t \in Session \cup {NoSession}
           /\ q.n \in 0..MaxToken
           /\ q.info \in Info /\ q.row \in Row /\ q.account \in Account
BY DEF RequestState

LEMMA Blank ==
    /\ None \in Info /\ ~None.cached
    /\ NoRow \in Row /\ ~NoRow.made /\ NoRow.hash = 0 /\ ~NoRow.revoked
    /\ Idle.account \in Account /\ Idle.account = NoAccount
    /\ Idle \in RequestState /\ Idle.pc = "idle" /\ Idle.op = "none" /\ Idle.info = None
<1>1. None \in Info /\ ~None.cached
    BY AccountsAssumption DEF None, Info
<1>2. NoRow \in Row /\ ~NoRow.made /\ NoRow.hash = 0 /\ ~NoRow.revoked
    BY AccountsAssumption DEF NoRow, Row
<1>3. Idle.account \in Account /\ Idle.account = NoAccount
    BY AccountsAssumption DEF Idle, Account, NoAccount
<1>4. 0 \in 0..MaxToken /\ "idle" \in Pc
    BY AccountsAssumption DEF Pc
<1>5. Idle \in RequestState
    BY <1>1, <1>2, <1>3, <1>4 DEF Idle, RequestState
<1> QED BY <1>1, <1>2, <1>3, <1>5 DEF Idle

LEMMA IdleIsQuiet ==
    InProgress(Idle) /\ ~Stale(Idle) /\ ~Resetting(Idle) /\ Idle.pc # "tokens" /\ Idle.pc \notin SavesAccount
BY Blank DEF InProgress, Protected, Refreshing, SavesAccount, Stale, StoresInfo, Resetting

LEMMA GotoIs ==
    ASSUME TypeOK, NEW r \in Request, NEW pc, Goto(r, pc)
    PROVE  req' = [req EXCEPT ![r] = [req[r] EXCEPT !.pc = pc]]
BY DEF TypeOK, Goto, RequestState

LEMMA ThenIs ==
    ASSUME TypeOK, NEW r \in Request, NEW pc, Then(r, pc)
    PROVE  req' = [req EXCEPT ![r] = [req[r] EXCEPT !.pc = pc, !.info = None, !.row = NoRow,
                                                   !.account = Idle.account]]
BY DEF TypeOK, Then, RequestState

LEMMA ThenFits ==
    ASSUME NEW p \in RequestState, NEW pc \in Pc
    PROVE  LET q == [p EXCEPT !.pc = pc, !.info = None, !.row = NoRow, !.account = Idle.account] IN
           /\ q \in RequestState /\ q.pc = pc /\ q.op = p.op /\ q.s = p.s /\ q.n = p.n /\ q.t = p.t
           /\ ~q.info.cached
BY Blank DEF RequestState

LEMMA Initially == Init => IInv
<1> SUFFICES ASSUME Init PROVE IInv
    OBVIOUS
<1>1. TypeOK
    <2>1. account \in Account /\ profile \in 0..MaxProfile /\ signed \in [Session -> 0..MaxToken]
        BY Blank, AccountsAssumption DEF Init
    <2>2. session \in [Session -> Row] /\ entry \in [Session -> Info] /\ me \in Info
          /\ req \in [Request -> RequestState]
        BY Blank DEF Init
    <2>3. \A s \in Session : session[s].hash <= signed[s] /\ ~entry[s].cached
        BY Blank DEF Init
    <2> QED BY <2>1, <2>2, <2>3 DEF Init, TypeOK
<1>2. GhostsOK
    BY Blank DEF Init, GhostsOK, Excused
<1>3. Sessions
    BY Blank, IdleIsQuiet DEF Init, Sessions, Signed, RevokedStays, SpentIsRefused, At
<1>4. CopiesKept /\ StaleIsDropped /\ OneReset
    BY Blank, IdleIsQuiet DEF Init, CopiesKept, StaleIsDropped, OneReset
<1> QED BY <1>1, <1>2, <1>3, <1>4 DEF IInv

-----------------------------------------------------------------------------
(* What a step of request r, which leaves it as q, has to show of each part. *)

\* Rows are made, and tokens handed out and signed, for good.
Grows ==
    /\ account.pw # 0 => account'.pw # 0
    /\ held \subseteq held'
    /\ \A s \in Session : session[s].made => session'[s].made /\ signed[s] <= signed'[s]

LEMMA InProgressStays ==
    ASSUME NEW q \in RequestState, InProgress(q), Grows, TypeOK, TypeOK',
           q.pc \in {"refresh", "tokens"} /\ q.t \in ended' \ excused'.sessions => q.row.revoked,
           q.pc = "tokens" => signed'[q.t] = 0
    PROVE  InProgress(q)'
<1>1. q.row.hash \in Nat /\ \A s \in Session : signed[s] \in Nat /\ signed'[s] \in Nat
    BY Fields, AccountsAssumption DEF Row, TypeOK
<1>2. q.pc \in Protected => q.t \in Session /\ session[q.t].made
    BY DEF InProgress
<1>3. q.pc \in {"revoke", "expire", "refresh"} => q.row.made /\ q.row.hash <= signed'[q.t]
    BY <1>1, <1>2 DEF InProgress, Grows, Protected
<1> QED BY <1>2, <1>3 DEF InProgress, Grows

\* The part of the requests: r is q, and every other is where it was.
LEMMA RequestsStay ==
    ASSUME IInv, TypeOK', NEW r \in Request, NEW q \in RequestState, req' = [req EXCEPT ![r] = q],
           Grows, InProgress(q)',
           \A x \in Request \ {r} :
               /\ req[x].pc \in {"refresh", "tokens"} /\ req[x].t \in ended' \ excused'.sessions
                    => req[x].row.revoked
               /\ At(x, "tokens") => signed'[req[x].t] = 0
    PROVE  \A x \in Request : InProgress(req[x])'
<1> SUFFICES ASSUME NEW x \in Request PROVE InProgress(req[x])'
    OBVIOUS
<1>1. req \in [Request -> RequestState]
    BY DEF IInv, TypeOK
<1>2. CASE x = r
    <2>1. req'[x] = q
        BY <1>1, <1>2
    <2> QED BY <2>1 DEF InProgress
<1>3. CASE x # r
    <2>0. PICK p \in RequestState : p = req[x]
        BY <1>1
    <2>1. req'[x] = p
        BY <1>1, <1>3, <2>0
    <2>2. InProgress(p) /\ TypeOK
        BY <2>0 DEF IInv, Sessions
    <2>3. InProgress(p)'
        BY <1>3, <2>0, <2>2, InProgressStays DEF At
    <2> QED BY <2>1, <2>3 DEF InProgress
<1> QED BY <1>2, <1>3

LEMMA SessionsFrame ==
    ASSUME IInv, NEW r \in Request, NEW q \in RequestState, req' = [req EXCEPT ![r] = q], TypeOK',
           UNCHANGED <<session, signed, held, spent, ended>>, excused'.sessions = excused.sessions,
           Grows, InProgress(q), q.pc # "tokens"
    PROVE  Sessions'
<1>1. req \in [Request -> RequestState]
    BY DEF IInv, TypeOK
<1>2. \A x \in Request : InProgress(req[x])'
    <2>1. InProgress(q)'
        BY InProgressStays DEF IInv, InProgress
    <2>2. ASSUME NEW x \in Request
          PROVE  /\ req[x].pc \in {"refresh", "tokens"} /\ req[x].t \in ended' \ excused'.sessions
                      => req[x].row.revoked
                 /\ At(x, "tokens") => signed'[req[x].t] = 0
        BY DEF IInv, Sessions, InProgress, At
    <2> QED BY <2>1, <2>2, RequestsStay
<1>3. Signed'
    <2>1. \A x \in Request : At(x, "tokens")' => At(x, "tokens")
        BY <1>1 DEF At
    <2> QED BY <2>1 DEF IInv, Sessions, Signed, At, Grows
<1> QED BY <1>2, <1>3 DEF IInv, Sessions, RevokedStays, SpentIsRefused

\* The copies of the account: this step saves none.
LEMMA CopiesFrame ==
    ASSUME IInv, NEW r \in Request, NEW q \in RequestState, req' = [req EXCEPT ![r] = q],
           UNCHANGED <<account, intended>>, excused'.account = excused.account,
           ~excused.account /\ q.pc \in SavesAccount => q.account = account
    PROVE  CopiesKept'
BY DEF IInv, TypeOK, CopiesKept

\* What is stored about the user may be stale only if an update has still to drop all of it.
Fresh(i) == i.cached /\ ~Current(i) => \E x \in Request : Dropping(req[x], {"dropAll"})

\* The user's info: no row changes, nothing is dropped, and what is stored or carried is fresh.
LEMMA InfoFrame ==
    ASSUME IInv, NEW r \in Request, NEW q \in RequestState, req' = [req EXCEPT ![r] = q],
           UNCHANGED <<account, profile>>, excused'.info = excused.info,
           ~Dropping(req[r], {"dropAll", "dropMe"}),
           ~excused.info => /\ \A s \in Session : entry'[s] = entry[s] \/ Fresh(entry'[s])
                            /\ me' = me \/ Fresh(me')
                            /\ Stale(q) => Fresh(q.info)
    PROVE  StaleIsDropped'
<1> SUFFICES ASSUME ~excused.info PROVE StaleIsDropped'
    BY DEF StaleIsDropped
<1>1. req \in [Request -> RequestState] /\ StaleIsDropped
    BY DEF IInv, TypeOK
<1>2. ASSUME NEW x \in Request, NEW pcs \in {{"dropAll"}, {"dropAll", "dropMe"}}, Dropping(req[x], pcs)
      PROVE  x # r /\ Dropping(req'[x], pcs)
    BY <1>1, <1>2 DEF Dropping
<1>3. \A i : Current(i)' = Current(i)
    BY DEF Current
<1>4. ASSUME NEW s \in Session, entry'[s].cached, ~Current(entry'[s])
      PROVE  \E x \in Request : Dropping(req'[x], {"dropAll"})
    BY <1>1, <1>2, <1>4 DEF StaleIsDropped, Fresh
<1>5. ASSUME NEW x \in Request, Stale(req[x])'
      PROVE  \E y \in Request : Dropping(req'[y], {"dropAll"})
    <2>1. CASE x = r
        <3>1. Stale(q) /\ Fresh(q.info)
            BY <1>1, <1>3, <1>5, <2>1 DEF Stale
        <3> QED BY <3>1, <1>2 DEF Fresh, Stale
    <2>2. CASE x # r
        <3>1. Stale(req[x])
            BY <1>1, <1>3, <1>5, <2>2 DEF Stale
        <3> QED BY <3>1, <1>1, <1>2 DEF StaleIsDropped
    <2> QED BY <2>1, <2>2
<1>6. ASSUME me'.cached, ~Current(me') PROVE \E x \in Request : Dropping(req'[x], {"dropAll", "dropMe"})
    <2>1. \A x \in Request : Dropping(req[x], {"dropAll"}) => Dropping(req[x], {"dropAll", "dropMe"})
        BY DEF Dropping
    <2> QED BY <1>1, <1>2, <1>6, <2>1 DEF StaleIsDropped, Fresh
<1> QED BY <1>3, <1>4, <1>5, <1>6 DEF StaleIsDropped, Dropping

\* The reset link: this step checks, uses or marks none.
LEMMA LinkFrame ==
    ASSUME IInv, NEW r \in Request, NEW q \in RequestState, req' = [req EXCEPT ![r] = q],
           UNCHANGED <<spentLink, resets>>, excused'.link = excused.link,
           Resetting(q) => Resetting(req[r]), ~At(r, "spend")
    PROVE  OneReset'
<1>1. req \in [Request -> RequestState] /\ OneReset
    BY DEF IInv, TypeOK
<1>2. \A x \in Request : Resetting(req'[x]) => Resetting(req[x])
    BY <1>1
<1>3. \A x \in Request : At(x, "spend") => At(x, "spend")'
    BY <1>1 DEF At
<1> QED BY <1>1, <1>2, <1>3 DEF OneReset, Resetting

\* A step that only moves r.
LEMMA Quiet ==
    ASSUME IInv, NEW r \in Request, NEW q \in RequestState, req' = [req EXCEPT ![r] = q], Only(r),
           InProgress(q), q.pc # "tokens",
           ~excused.account /\ q.pc \in SavesAccount => q.account = account,
           ~Dropping(req[r], {"dropAll", "dropMe"}), Stale(q) => Fresh(q.info) \/ excused.info,
           Resetting(q) => Resetting(req[r]), ~At(r, "spend")
    PROVE  IInv'
<1> USE DEF Only, rows, tokens, caches, outside, ghosts
<1>1. TypeOK' /\ GhostsOK'
    BY DEF IInv, TypeOK, GhostsOK
<1>2. Sessions'
    <2>1. \A s \in Session : signed[s] \in Nat
        BY AccountsAssumption DEF IInv, TypeOK
    <2>2. Grows
        BY <2>1 DEF Grows
    <2> QED BY <1>1, <2>2, SessionsFrame
<1>3. CopiesKept'
    BY CopiesFrame
<1>4. StaleIsDropped'
    BY InfoFrame
<1>5. OneReset'
    BY LinkFrame
<1> QED BY <1>1, <1>2, <1>3, <1>4, <1>5 DEF IInv

LEMMA Answered ==
    ASSUME IInv, NEW r \in Request, Answer(r), Only(r),
           ~Dropping(req[r], {"dropAll", "dropMe"}), ~At(r, "spend")
    PROVE  IInv'
BY Blank, IdleIsQuiet, Quiet DEF Answer

\* A request, as a constant, with what is known of it.
LEMMA Reading ==
    ASSUME IInv, NEW r \in Request
    PROVE  /\ req[r] \in RequestState /\ InProgress(req[r]) /\ TypeOK
           /\ Stale(req[r]) => Fresh(req[r].info) \/ excused.info
           /\ ~excused.account /\ req[r].pc \in SavesAccount => req[r].account = account
BY DEF IInv, TypeOK, Sessions, StaleIsDropped, Fresh, CopiesKept, Stale

-----------------------------------------------------------------------------
(* The steps that only move their request. *)

LEMMA VisitKeeps == ASSUME IInv, NEW r \in Request, NEW op \in Public, Visit(r, op) PROVE IInv'
<1>1. op \in {"login", "forgot", "reset", "verify"} /\ Only(r) /\ At(r, "idle") /\ account.pw # 0
    BY DEF Visit, Public, AuthRoutes
<1> DEFINE q == [Idle EXCEPT !.pc = First(op), !.op = op]
<1>2. First(op) \in {"credentials", "link", "dropMe"} /\ op \in Public
    BY <1>1 DEF First, Public, AuthRoutes
<1>3. First(op) \in Pc
    BY <1>2 DEF Pc
<1>4. /\ q \in RequestState
      /\ q.pc \in {"credentials", "link", "dropMe"} /\ q.info = None /\ q.op # "me"
    BY <1>1, <1>2, <1>3, Blank DEF RequestState
<1>5. req' = [req EXCEPT ![r] = q]
    BY DEF Visit
<1> HIDE DEF q
<1>6. InProgress(q) /\ ~Stale(q) /\ ~Resetting(q) /\ q.pc \notin SavesAccount \cup {"tokens"}
    BY <1>1, <1>4 DEF InProgress, Protected, Refreshing, SavesAccount, Stale, StoresInfo, Resetting
<1> QED BY <1>1, <1>4, <1>5, <1>6, Quiet DEF At, Dropping

LEMMA ArriveKeeps ==
    ASSUME IInv, NEW r \in Request, NEW op \in Authorized \cup {"refresh"}, NEW h \in held,
           NEW t \in Session, Arrive(r, op, h, t)
    PROVE  IInv'
<1>1. Only(r) /\ At(r, "idle") /\ session[t].made /\ (op = "refresh" => t = h[1])
    BY DEF Arrive
<1>2. h \in Session \X (1..MaxToken) /\ h = <<h[1], h[2]>> /\ h[2] \in 0..MaxToken /\ account.pw # 0
    BY AccountsAssumption DEF IInv, TypeOK, Sessions, Signed
<1> DEFINE q == [Idle EXCEPT !.pc = First(op), !.op = op, !.s = h[1], !.n = h[2], !.t = t]
<1>3. /\ First(op) \in {"entry", "validate"} /\ (op = "refresh" <=> First(op) = "validate")
      /\ First(op) \in Pc /\ op \in Authorized \cup Public
    BY DEF First, Authorized, UserRoutes, SessionRoutes, AccountRoutes, Public, AuthRoutes, Pc
<1>4. /\ q \in RequestState /\ q.pc = First(op) /\ q.op = op /\ q.s = h[1] /\ q.n = h[2] /\ q.t = t
      /\ q.info = None
    BY <1>2, <1>3, Blank DEF RequestState
<1>5. req' = [req EXCEPT ![r] = q]
    BY DEF Arrive
<1> HIDE DEF q
<1>6. InProgress(q) /\ ~Stale(q) /\ ~Resetting(q) /\ q.pc \notin SavesAccount \cup {"tokens"}
    BY <1>1, <1>2, <1>3, <1>4, Blank
    DEF InProgress, Protected, Refreshing, SavesAccount, Stale, StoresInfo, Resetting
<1> QED BY <1>1, <1>4, <1>5, <1>6, Quiet DEF At, Dropping

\* Where JwtStrategy lets an authorized request go on.
LEMMA Authenticated ==
    ASSUME NEW op \in Authorized
    PROVE  /\ AfterAuth(op) \in {"blacklist", "loadSession", "oldPassword", "loadProfile", "me", "view",
                                 "revokeAll", "resend"}
           /\ AfterAuth(op) \in Pc
           /\ AfterAuth(op) = "me" <=> op = "me"
           /\ AfterAuth(op) = "loadProfile" => op = "update"
<1>1. op \in {"me", "update", "view", "revoke", "revokeAll", "logout", "change", "resend"}
    BY DEF Authorized, UserRoutes, SessionRoutes, AccountRoutes
<1> QED BY <1>1 DEF AfterAuth, Pc

\* It carries on no more than it was authenticated with.
LEMMA AcceptedIs ==
    ASSUME IInv, NEW p \in RequestState, InProgress(p), p.pc \in {"entry", "fill"}, NEW info \in Info
    PROVE  LET q == Accepted(p, info) IN
           /\ q \in RequestState /\ InProgress(q) /\ ~Resetting(q)
           /\ q.pc \notin SavesAccount \cup {"tokens"}
           /\ Stale(q) => q.info = info
<1> DEFINE q == Accepted(p, info)
<1>1. p.op \in Authorized /\ p.pc \in Protected
    BY DEF InProgress, Protected
<1>2. /\ q.pc = AfterAuth(p.op) /\ q.op = p.op /\ q.s = p.s /\ q.n = p.n /\ q.t = p.t
      /\ q.info = (IF p.op = "me" THEN info ELSE None) /\ q \in RequestState
    BY <1>1, Authenticated, Blank DEF Accepted, RequestState
<1> HIDE DEF q
<1>3. InProgress(q) /\ ~Resetting(q) /\ q.pc \notin SavesAccount \cup {"tokens"}
    BY <1>1, <1>2, Authenticated DEF InProgress, Protected, Refreshing, SavesAccount, Resetting
<1>4. Stale(q) => q.info = info
    BY <1>1, <1>2, Authenticated, Blank DEF Stale, StoresInfo
<1> QED BY <1>2, <1>3, <1>4 DEF q

LEMMA CachedSessionKeeps == ASSUME IInv, NEW r \in Request, CachedSession(r) PROVE IInv'
<1>0. PICK p \in RequestState : p = req[r]
    BY Reading
<1>1. InProgress(p) /\ p.pc = "entry" /\ p.pc \in Protected /\ Only(r) /\ p.s \in Session
    BY <1>0, Reading DEF CachedSession, At, InProgress, Protected
<1>2. CASE entry[p.s].cached
    <2> DEFINE q == Accepted(p, entry[p.s])
    <2>0. PICK i \in Info : i = entry[p.s]
        BY <1>1 DEF IInv, TypeOK
    <2>1. req' = [req EXCEPT ![r] = q]
        BY <1>0, <1>2 DEF CachedSession
    <2>2. /\ q \in RequestState /\ InProgress(q) /\ ~Resetting(q)
          /\ q.pc \notin SavesAccount \cup {"tokens"}
          /\ Stale(q) => q.info = entry[p.s]
        BY <1>1, <2>0, AcceptedIs
    <2> HIDE DEF q
    <2>3. Stale(q) => Fresh(q.info) \/ excused.info
        BY <1>1, <2>2 DEF IInv, StaleIsDropped, Fresh
    <2> QED BY <1>0, <1>1, <2>1, <2>2, <2>3, Quiet DEF At, Dropping
<1>3. CASE ~entry[p.s].cached
    <2> DEFINE q == [p EXCEPT !.pc = "blacklisted"]
    <2>1. req' = [req EXCEPT ![r] = q]
        BY <1>0, <1>3 DEF CachedSession
    <2>2. q \in RequestState
        BY DEF RequestState, Pc
    <2>3. InProgress(q) /\ ~Resetting(q) /\ q.pc \notin SavesAccount \cup {"tokens"} /\ ~Stale(q)
        BY <1>1 DEF InProgress, Protected, Refreshing, SavesAccount, Resetting, Stale, StoresInfo, RequestState
    <2> HIDE DEF q
    <2> QED BY <1>0, <1>1, <2>1, <2>2, <2>3, Quiet DEF At, Dropping
<1> QED BY <1>2, <1>3

LEMMA CheckBlacklistKeeps == ASSUME IInv, NEW r \in Request, CheckBlacklist(r) PROVE IInv'
<1>0. PICK p \in RequestState : p = req[r]
    BY Reading
<1>1. InProgress(p) /\ p.pc = "blacklisted" /\ Only(r)
    BY <1>0, Reading DEF CheckBlacklist, At
<1>2. CASE Answer(r)
    BY <1>0, <1>1, <1>2, Answered DEF At, Dropping
<1>3. CASE Goto(r, "load")
    <2> DEFINE q == [p EXCEPT !.pc = "load"]
    <2>1. req' = [req EXCEPT ![r] = q] /\ q \in RequestState
        BY <1>0, <1>3, GotoIs, Reading DEF RequestState, Pc
    <2>2. InProgress(q) /\ ~Resetting(q) /\ q.pc \notin SavesAccount \cup {"tokens"} /\ ~Stale(q)
        BY <1>1 DEF InProgress, Protected, Refreshing, SavesAccount, Resetting, Stale, StoresInfo, RequestState
    <2> HIDE DEF q
    <2> QED BY <1>0, <1>1, <2>1, <2>2, Quiet DEF At, Dropping
<1> QED BY <1>2, <1>3 DEF CheckBlacklist

\* A read of the user's rows is what they say now.
LEMMA NowIs == ASSUME TypeOK PROVE Now \in Info /\ Now.cached /\ Fresh(Now)
BY DEF TypeOK, Now, Current, Info, Account, Fresh

LEMMA LoadSessionKeeps == ASSUME IInv, NEW r \in Request, LoadSession(r) PROVE IInv'
<1>0. PICK p \in RequestState : p = req[r]
    BY Reading
<1>1. InProgress(p) /\ p.pc = "load" /\ Only(r)
    BY <1>0, Reading DEF LoadSession, At
<1>2. PICK i \in Info : i = Now
    BY Reading, NowIs
<1> DEFINE q == [p EXCEPT !.pc = "fill", !.info = i]
<1>3. req' = [req EXCEPT ![r] = q]
    BY <1>0, <1>2 DEF LoadSession
<1>4. q \in RequestState /\ q.info = i
    BY <1>2 DEF RequestState, Pc
<1>5. InProgress(q) /\ ~Resetting(q) /\ q.pc \notin SavesAccount \cup {"tokens"}
    BY <1>1 DEF InProgress, Protected, Refreshing, SavesAccount, Resetting, RequestState
<1>6. Fresh(q.info)
    BY <1>2, <1>4, NowIs, Reading
<1> HIDE DEF q
<1> QED BY <1>0, <1>1, <1>3, <1>4, <1>5, <1>6, Quiet DEF At, Dropping

LEMMA MeKeeps == ASSUME IInv, NEW r \in Request, Me(r) PROVE IInv'
<1>0. PICK p \in RequestState : p = req[r]
    BY Reading
<1>1. InProgress(p) /\ p.pc = "me" /\ Only(r) /\ p.op = "me" /\ (Stale(p) => Fresh(p.info) \/ excused.info)
    BY <1>0, Reading DEF Me, At, InProgress
<1>2. CASE Answer(r)
    BY <1>0, <1>1, <1>2, Answered DEF At, Dropping
<1>3. CASE Goto(r, "storeMe")
    <2> DEFINE q == [p EXCEPT !.pc = "storeMe"]
    <2>1. req' = [req EXCEPT ![r] = q] /\ q \in RequestState /\ q.info = p.info
        BY <1>0, <1>3, GotoIs, Reading DEF RequestState, Pc
    <2>2. InProgress(q) /\ ~Resetting(q) /\ q.pc \notin SavesAccount \cup {"tokens"}
        BY <1>1 DEF InProgress, Protected, Refreshing, SavesAccount, Resetting, RequestState
    <2> HIDE DEF q
    <2>3. Stale(q) => Stale(p)
        BY <1>1, <2>1 DEF Stale
    <2> QED BY <1>0, <1>1, <2>1, <2>2, <2>3, Quiet DEF At, Dropping
<1> QED BY <1>2, <1>3 DEF Me

LEMMA ViewKeeps == ASSUME IInv, NEW r \in Request, View(r) PROVE IInv'
<1>0. PICK p \in RequestState : p = req[r]
    BY Reading
<1>1. InProgress(p) /\ p.pc = "view" /\ Only(r)
    BY <1>0, Reading DEF View, At
<1>2. CASE Answer(r)
    BY <1>0, <1>1, <1>2, Answered DEF At, Dropping
<1>3. CASE ~Answer(r)
    <2>0. PICK i \in Info : i = Now
        BY Reading, NowIs
    <2> DEFINE q == [p EXCEPT !.pc = "storeView", !.info = i]
    <2>1. req' = [req EXCEPT ![r] = q]
        BY <1>0, <1>3, <2>0 DEF View
    <2>2. q \in RequestState /\ q.info = i
        BY <2>0 DEF RequestState, Pc
    <2>3. InProgress(q) /\ ~Resetting(q) /\ q.pc \notin SavesAccount \cup {"tokens"}
        BY <1>1 DEF InProgress, Protected, Refreshing, SavesAccount, Resetting, RequestState
    <2>4. Fresh(q.info)
        BY <2>0, <2>2, NowIs, Reading
    <2> HIDE DEF q
    <2> QED BY <1>0, <1>1, <2>1, <2>2, <2>3, <2>4, Quiet DEF At, Dropping
<1> QED BY <1>2, <1>3

\* A session's row, as loaded.
LEMMA RowIs ==
    ASSUME IInv, NEW t \in Session
    PROVE  session[t] \in Row /\ session[t].hash <= signed[t]
           /\ (t \in ended \ excused.sessions => session[t].revoked)
BY DEF IInv, TypeOK, Sessions, RevokedStays

LEMMA LoadToRevokeKeeps == ASSUME IInv, NEW r \in Request, LoadToRevoke(r) PROVE IInv'
<1>0. PICK p \in RequestState : p = req[r]
    BY Reading
<1>1. InProgress(p) /\ p.pc = "loadSession" /\ Only(r) /\ p.t \in Session /\ session[p.t].made
    BY <1>0, Reading DEF LoadToRevoke, At, InProgress, Protected
<1>2. PICK row \in Row : row = session[p.t]
    BY <1>1, RowIs
<1> DEFINE q == [p EXCEPT !.pc = "revoke", !.row = row]
<1>3. req' = [req EXCEPT ![r] = q]
    BY <1>0, <1>2 DEF LoadToRevoke
<1>4. q \in RequestState /\ row.made /\ row.hash <= signed[p.t]
    BY <1>1, <1>2, RowIs DEF RequestState, Pc
<1>5. InProgress(q) /\ ~Resetting(q) /\ q.pc \notin SavesAccount \cup {"tokens"} /\ ~Stale(q)
    BY <1>1, <1>4 DEF InProgress, Protected, Refreshing, SavesAccount, Resetting, Stale, StoresInfo, RequestState
<1> HIDE DEF q
<1> QED BY <1>0, <1>1, <1>3, <1>4, <1>5, Quiet DEF At, Dropping

LEMMA ValidateKeeps == ASSUME IInv, NEW r \in Request, Validate(r) PROVE IInv'
<1>0. PICK p \in RequestState : p = req[r]
    BY Reading
<1>1. InProgress(p) /\ p.pc = "validate" /\ Only(r) /\ p.t \in Session /\ session[p.t].made
    BY <1>0, Reading DEF Validate, At, InProgress, Protected
<1>2. PICK row \in Row : row = session[p.t]
    BY <1>1, RowIs
<1>3. CASE Answer(r)
    BY <1>0, <1>1, <1>3, Answered DEF At, Dropping
<1>4. CASE Goto(r, "reload")
    <2> DEFINE q == [p EXCEPT !.pc = "reload"]
    <2>1. req' = [req EXCEPT ![r] = q] /\ q \in RequestState
        BY <1>0, <1>4, GotoIs, Reading DEF RequestState, Pc
    <2>2. InProgress(q) /\ ~Resetting(q) /\ q.pc \notin SavesAccount \cup {"tokens"} /\ ~Stale(q)
        BY <1>1 DEF InProgress, Protected, Refreshing, SavesAccount, Resetting, Stale, StoresInfo, RequestState
    <2> HIDE DEF q
    <2> QED BY <1>0, <1>1, <2>1, <2>2, Quiet DEF At, Dropping
<1>5. CASE req' = [req EXCEPT ![r] = [p EXCEPT !.pc = "expire", !.row = row]]
    <2> DEFINE q == [p EXCEPT !.pc = "expire", !.row = row]
    <2>1. q \in RequestState /\ row.made /\ row.hash <= signed[p.t]
        BY <1>1, <1>2, RowIs DEF RequestState, Pc
    <2>2. InProgress(q) /\ ~Resetting(q) /\ q.pc \notin SavesAccount \cup {"tokens"} /\ ~Stale(q)
        BY <1>1, <2>1 DEF InProgress, Protected, Refreshing, SavesAccount, Resetting, Stale, StoresInfo, RequestState
    <2>3. req' = [req EXCEPT ![r] = q]
        BY <1>5
    <2> HIDE DEF q
    <2> QED BY <1>0, <1>1, <2>1, <2>2, <2>3, Quiet DEF At, Dropping
<1> QED BY <1>0, <1>2, <1>3, <1>4, <1>5 DEF Validate

LEMMA ReloadKeeps == ASSUME IInv, NEW r \in Request, Reload(r) PROVE IInv'
<1>0. PICK p \in RequestState : p = req[r]
    BY Reading
<1>1. InProgress(p) /\ p.pc = "reload" /\ Only(r) /\ p.t \in Session /\ session[p.t].made
    BY <1>0, Reading DEF Reload, At, InProgress, Protected
<1>2. PICK row \in Row : row = session[p.t]
    BY <1>1, RowIs
<1> DEFINE q == [p EXCEPT !.pc = "refresh", !.row = row]
<1>3. req' = [req EXCEPT ![r] = q]
    BY <1>0, <1>2 DEF Reload
<1>4. q \in RequestState /\ row.made /\ row.hash <= signed[p.t]
      /\ (p.t \in ended \ excused.sessions => row.revoked)
    BY <1>1, <1>2, RowIs DEF RequestState, Pc
<1>5. InProgress(q) /\ ~Resetting(q) /\ q.pc \notin SavesAccount \cup {"tokens"} /\ ~Stale(q)
    BY <1>1, <1>4 DEF InProgress, Protected, Refreshing, SavesAccount, Resetting, Stale, StoresInfo, RequestState
<1> HIDE DEF q
<1> QED BY <1>0, <1>1, <1>3, <1>4, <1>5, Quiet DEF At, Dropping

\* A step that loads the account to go on with it.
LEMMA CopyKeeps ==
    ASSUME IInv, NEW r \in Request, Only(r),
           NEW pc \in {"loadAccount", "login", "change", "reset", "verify"},
           req[r].pc \in {"credentials", "loadAccount", "oldPassword", "loadReset", "loadVerify"},
           pc = "change" => At(r, "oldPassword"), pc = "reset" => At(r, "loadReset"),
           req' = [req EXCEPT ![r] = [req[r] EXCEPT !.pc = pc, !.account = account]]
    PROVE  IInv'
<1>0. PICK p \in RequestState : p = req[r]
    BY Reading
<1>1. PICK row \in Account : row = account
    BY DEF IInv, TypeOK
<1>2. InProgress(p) /\ p.pc \in {"credentials", "loadAccount", "oldPassword", "loadReset", "loadVerify"}
      /\ row.pw # 0
    BY <1>0, <1>1, Reading DEF InProgress
<1> DEFINE q == [p EXCEPT !.pc = pc, !.account = row]
<1>3. req' = [req EXCEPT ![r] = q]
    BY <1>0, <1>1
<1>4. q \in RequestState /\ q.account = row /\ q.pc = pc
    BY DEF RequestState, Pc
<1>5. pc = "change" => p.pc = "oldPassword"
    BY <1>0 DEF At
<1>6. InProgress(q) /\ q.pc # "tokens" /\ ~Stale(q)
    BY <1>2, <1>5 DEF InProgress, Protected, Refreshing, SavesAccount, Stale, StoresInfo, RequestState
<1>7. Resetting(q) => Resetting(req[r])
    BY <1>4 DEF Resetting, At
<1> HIDE DEF q
<1> QED BY <1>0, <1>1, <1>2, <1>3, <1>4, <1>6, <1>7, Quiet DEF At, Dropping

LEMMA CredentialsKeep ==
    ASSUME IInv, NEW r \in Request, CheckCredentials(r) \/ OldPassword(r) PROVE IInv'
<1>1. Only(r) /\ (At(r, "credentials") \/ At(r, "oldPassword"))
    BY DEF CheckCredentials, OldPassword
<1>2. CASE Answer(r)
    BY <1>1, <1>2, Answered DEF At, Dropping
<1>3. CASE ~Answer(r)
    BY <1>1, <1>3, CopyKeeps DEF CheckCredentials, OldPassword, Credentials, At
<1> QED BY <1>2, <1>3

LEMMA LoadAccountKeeps ==
    ASSUME IInv, NEW r \in Request, LoadAccount(r) \/ LoadReset(r) \/ LoadVerify(r) PROVE IInv'
<1>1. Only(r) /\ (At(r, "loadAccount") \/ At(r, "loadReset") \/ At(r, "loadVerify"))
    BY DEF LoadAccount, LoadReset, LoadVerify
<1>2. CASE Answer(r)
    BY <1>1, <1>2, Answered DEF At, Dropping
<1>3. CASE ~Answer(r)
    BY <1>1, <1>3, CopyKeeps DEF LoadAccount, LoadReset, LoadVerify, At
<1> QED BY <1>2, <1>3

LEMMA LoadProfileKeeps == ASSUME IInv, NEW r \in Request, LoadProfile(r) PROVE IInv'
<1>0. PICK p \in RequestState : p = req[r]
    BY Reading
<1>1. InProgress(p) /\ p.pc = "loadProfile" /\ Only(r)
    BY <1>0, Reading DEF LoadProfile, At
<1>2. CASE Answer(r)
    BY <1>0, <1>1, <1>2, Answered DEF At, Dropping
<1>3. CASE Goto(r, "saveProfile")
    <2> DEFINE q == [p EXCEPT !.pc = "saveProfile"]
    <2>1. req' = [req EXCEPT ![r] = q] /\ q \in RequestState
        BY <1>0, <1>3, GotoIs, Reading DEF RequestState, Pc
    <2>2. InProgress(q) /\ ~Resetting(q) /\ q.pc \notin SavesAccount \cup {"tokens"} /\ ~Stale(q)
        BY <1>1 DEF InProgress, Protected, Refreshing, SavesAccount, Resetting, Stale, StoresInfo, RequestState
    <2> HIDE DEF q
    <2> QED BY <1>0, <1>1, <2>1, <2>2, Quiet DEF At, Dropping
<1> QED BY <1>2, <1>3 DEF LoadProfile

-----------------------------------------------------------------------------
(* The steps that only touch the caches, the blacklist or the mail. *)

\* What a step on the side of the rows leaves alone.
Aside == UNCHANGED <<rows, intended, ended, spent, resets, excused, spentLink>>

LEMMA AsideKeeps ==
    ASSUME IInv, NEW r \in Request, NEW q \in RequestState, req' = [req EXCEPT ![r] = q], Aside,
           TypeOK', UNCHANGED held, InProgress(q), q.pc \notin SavesAccount \cup {"tokens"},
           ~Dropping(req[r], {"dropAll", "dropMe"}), ~At(r, "spend"), ~Resetting(q),
           ~excused.info => /\ \A s \in Session : entry'[s] = entry[s] \/ Fresh(entry'[s])
                            /\ me' = me \/ Fresh(me')
                            /\ Stale(q) => Fresh(q.info)
    PROVE  IInv'
<1> USE DEF Aside, rows
<1>1. GhostsOK'
    BY DEF IInv, GhostsOK
<1>2. Sessions'
    <2>1. \A s \in Session : signed[s] \in Nat
        BY AccountsAssumption DEF IInv, TypeOK
    <2>2. Grows
        BY <2>1 DEF Grows
    <2> QED BY <2>2, SessionsFrame
<1>3. CopiesKept'
    BY CopiesFrame
<1>4. StaleIsDropped'
    BY InfoFrame
<1>5. OneReset'
    BY LinkFrame
<1> QED BY <1>1, <1>2, <1>3, <1>4, <1>5 DEF IInv

LEMMA FillSessionKeeps == ASSUME IInv, NEW r \in Request, FillSession(r) PROVE IInv'
<1>0. PICK p \in RequestState : p = req[r]
    BY Reading
<1>1. /\ InProgress(p) /\ p.pc = "fill" /\ Aside /\ UNCHANGED <<held, me>> /\ p.s \in Session
      /\ <<p.s, p.n>> \in held /\ (Stale(p) => Fresh(p.info) \/ excused.info)
    BY <1>0, Reading DEF FillSession, At, InProgress, Protected, Aside, outside, ghosts, tokens, rows
<1>2. session[p.s].made /\ p.info \in Info
    BY <1>1, Fields DEF IInv, Sessions, Signed
<1> DEFINE q == Accepted(p, p.info)
<1>3. req' = [req EXCEPT ![r] = q] /\ entry' = [entry EXCEPT ![p.s] = p.info]
    BY <1>0 DEF FillSession
<1>4. /\ q \in RequestState /\ InProgress(q) /\ ~Resetting(q)
      /\ q.pc \notin SavesAccount \cup {"tokens"}
      /\ Stale(q) => q.info = p.info
    BY <1>1, <1>2, AcceptedIs
<1> HIDE DEF q
<1>5. TypeOK'
    <2>1. UNCHANGED <<rows, tokens, held, mail, mix, me>>
        BY DEF FillSession, outside
    <2>2. entry' \in [Session -> Info] /\ \A s \in Session : entry'[s].cached => session[s].made
        BY <1>2, <1>3 DEF IInv, TypeOK
    <2> QED BY <1>1, <1>3, <1>4, <2>1, <2>2 DEF IInv, TypeOK, rows, tokens
<1>6. Fresh(p.info) \/ excused.info
    BY <1>1 DEF Stale, StoresInfo, Fresh
<1>7. \A s \in Session : entry'[s] = entry[s] \/ entry'[s] = p.info
    BY <1>3 DEF IInv, TypeOK
<1> QED BY <1>0, <1>1, <1>3, <1>4, <1>5, <1>6, <1>7, AsideKeeps DEF At, Dropping

LEMMA StoreMeKeeps == ASSUME IInv, NEW r \in Request, StoreMe(r) PROVE IInv'
<1>0. PICK p \in RequestState : p = req[r]
    BY Reading
<1>1. /\ p.pc = "storeMe" /\ Aside /\ UNCHANGED <<held, entry>> /\ me' = p.info /\ p.info \in Info
      /\ (Stale(p) => Fresh(p.info) \/ excused.info)
    BY <1>0, Reading, Fields DEF StoreMe, At, Aside, outside, ghosts, tokens, rows
<1>2. req' = [req EXCEPT ![r] = Idle]
    BY DEF StoreMe, Answer
<1>3. TypeOK'
    <2>1. UNCHANGED <<rows, tokens, held, mail, mix, entry>>
        BY DEF StoreMe, outside
    <2> QED BY <1>1, <1>2, <2>1, Blank DEF IInv, TypeOK, rows, tokens
<1>4. Fresh(p.info) \/ excused.info
    BY <1>1 DEF Stale, StoresInfo, Fresh
<1> QED BY <1>0, <1>1, <1>2, <1>3, <1>4, AsideKeeps, Blank, IdleIsQuiet DEF At, Dropping

LEMMA StoreViewKeeps == ASSUME IInv, NEW r \in Request, StoreView(r) PROVE IInv'
<1>0. PICK p \in RequestState : p = req[r]
    BY Reading
<1>1. /\ InProgress(p) /\ p.pc = "storeView" /\ Aside /\ UNCHANGED <<held, me>> /\ p.info \in Info
      /\ (Stale(p) => Fresh(p.info) \/ excused.info)
    BY <1>0, Reading, Fields DEF StoreView, At, Aside, outside, ghosts, tokens, rows
<1>2. req' = [req EXCEPT ![r] = Idle] /\ entry' = [entry EXCEPT ![p.t] = p.info]
    BY <1>0 DEF StoreView, Answer
<1>3. TypeOK'
    <2>1. UNCHANGED <<rows, tokens, held, mail, mix, me>>
        BY DEF StoreView, outside
    <2>2. p.t \in Session /\ session[p.t].made
        BY <1>1 DEF InProgress, Protected
    <2>3. entry' \in [Session -> Info] /\ \A s \in Session : entry'[s].cached => session[s].made
        BY <1>1, <1>2, <2>2 DEF IInv, TypeOK
    <2> QED BY <1>1, <1>2, <2>1, <2>3, Blank DEF IInv, TypeOK, rows, tokens
<1>4. Fresh(p.info) \/ excused.info
    BY <1>1 DEF Stale, StoresInfo, Fresh
<1>5. \A s \in Session : entry'[s] = entry[s] \/ entry'[s] = p.info
    BY <1>2 DEF IInv, TypeOK
<1> QED BY <1>0, <1>1, <1>2, <1>3, <1>4, <1>5, AsideKeeps, Blank, IdleIsQuiet DEF At, Dropping

LEMMA DropEntryKeeps == ASSUME IInv, NEW r \in Request, DropEntry(r) PROVE IInv'
<1>1. At(r, "dropEntry") /\ Aside /\ UNCHANGED <<held, me>>
    BY DEF DropEntry, Aside, outside, ghosts, tokens, rows
<1>2. req' = [req EXCEPT ![r] = Idle] /\ \A s \in Session : entry'[s] = entry[s] \/ entry'[s] = None
    BY DEF DropEntry, Answer, IInv, TypeOK
<1>3. TypeOK'
    <2>1. UNCHANGED <<rows, tokens, held, mail, mix, me>>
        BY DEF DropEntry, outside
    <2>2. entry' \in [Session -> Info] /\ \A s \in Session : entry'[s].cached => session[s].made
        BY <1>2, Blank DEF IInv, TypeOK, DropEntry
    <2> QED BY <1>1, <1>2, <2>1, <2>2, Blank DEF IInv, TypeOK, rows, tokens
<1>4. Fresh(None)
    BY Blank DEF Fresh
<1> QED BY <1>1, <1>2, <1>3, <1>4, AsideKeeps, Blank, IdleIsQuiet DEF At, Dropping

LEMMA BlacklistKeeps == ASSUME IInv, NEW r \in Request, Blacklist(r) PROVE IInv'
<1>0. PICK p \in RequestState : p = req[r]
    BY Reading
<1>1. /\ InProgress(p) /\ p.pc = "blacklist" /\ Aside /\ UNCHANGED <<held, me, entry>>
      /\ <<p.s, p.n>> \in held
    BY <1>0, Reading DEF Blacklist, At, Aside, outside, ghosts, tokens, rows, caches, InProgress, Protected
<1> DEFINE q == [p EXCEPT !.pc = "loadSession"]
<1>2. req' = [req EXCEPT ![r] = q] /\ q \in RequestState
    BY <1>0, GotoIs, Reading DEF Blacklist, RequestState, Pc
<1>3. InProgress(q) /\ ~Resetting(q) /\ q.pc \notin SavesAccount \cup {"tokens"} /\ ~Stale(q)
    BY <1>1 DEF InProgress, Protected, Refreshing, SavesAccount, Resetting, Stale, StoresInfo, RequestState
<1> HIDE DEF q
<1>4. TypeOK'
    <2>1. UNCHANGED <<rows, spentLink, caches, held, mail, mix>> /\ black' = black \cup {<<p.s, p.n>>}
        BY <1>0 DEF Blacklist, outside
    <2> QED BY <1>1, <1>2, <2>1 DEF IInv, TypeOK, rows, caches
<1> QED BY <1>0, <1>1, <1>2, <1>3, <1>4, AsideKeeps DEF At, Dropping

LEMMA MailKeeps == ASSUME IInv, NEW r \in Request, Forgot(r) \/ Resend(r) PROVE IInv'
<1>1. /\ At(r, "link") \/ At(r, "resend")
      /\ Aside /\ UNCHANGED <<held, me, entry>> /\ req' = [req EXCEPT ![r] = Idle]
    BY DEF Forgot, Resend, Answer, Aside, ghosts, tokens, rows, caches
<1>2. TypeOK'
    <2>1. UNCHANGED <<rows, tokens, caches, held, mix>> /\ mail' \subseteq mail \cup {"reset", "verify"}
        BY DEF Forgot, Resend
    <2> QED BY <1>1, <2>1, Blank DEF IInv, TypeOK, rows, tokens, caches
<1> QED BY <1>1, <1>2, AsideKeeps, Blank, IdleIsQuiet DEF At, Dropping

\* Steps of no request.
LEMMA EnvironmentKeeps ==
    ASSUME IInv, Evict \/ \E l \in mail : LinkExpires(l) PROVE IInv'
<1>1. UNCHANGED <<rows, tokens, held, mix, req, ghosts>> /\ mail' \subseteq mail
    BY DEF Evict, LinkExpires, outside
<1>2. /\ entry' \in [Session -> Info] /\ (me' = me \/ me' = None)
      /\ \A s \in Session : entry'[s] = entry[s] \/ entry'[s] = None
    BY Blank DEF Evict, LinkExpires, caches, IInv, TypeOK
<1>3. TypeOK'
    <2>1. \A s \in Session : entry'[s].cached => session[s].made
        BY <1>2, Blank DEF IInv, TypeOK
    <2>2. me' \in Info
        BY <1>2, Blank DEF IInv, TypeOK
    <2> QED BY <1>1, <1>2, <2>1, <2>2 DEF IInv, TypeOK, rows, tokens
<1>4. GhostsOK' /\ Sessions' /\ CopiesKept' /\ OneReset'
    BY <1>1 DEF IInv, GhostsOK, Sessions, Signed, RevokedStays, SpentIsRefused, InProgress, CopiesKept,
                OneReset, Resetting, At, rows, tokens, ghosts
<1>5. StaleIsDropped'
    <2>1. \A i : Current(i)' = Current(i) /\ req' = req /\ excused' = excused
        BY <1>1 DEF Current, rows, ghosts
    <2> QED BY <1>2, <2>1, Blank DEF IInv, StaleIsDropped, Stale, Dropping
<1> QED BY <1>3, <1>4, <1>5 DEF IInv

-----------------------------------------------------------------------------
(* Invalidation. *)

LEMMA MissedIs ==
    ASSUME IInv, NEW r \in Request, Missed(r)
    PROVE  /\ excused' \in Excused
           /\ excused'.sessions = excused.sessions /\ excused'.account = excused.account
           /\ excused'.link = excused.link
           /\ ~excused'.info => ~excused.info /\ ~(req[r].op = "update" /\ CarriesInfo(r))
<1>1. excused \in Excused
    BY DEF IInv, GhostsOK
<1>2. (excused.info \/ (req[r].op = "update" /\ CarriesInfo(r))) \in BOOLEAN
    OBVIOUS
<1>3. excused' = [excused EXCEPT !.info = excused.info \/ (req[r].op = "update" /\ CarriesInfo(r))]
    BY DEF Missed
<1> QED BY <1>1, <1>2, <1>3 DEF Excused

\* A step of r that drops what is cached, and leaves the rows alone.
LEMMA DropKeeps ==
    ASSUME IInv, NEW r \in Request, NEW q \in RequestState, req' = [req EXCEPT ![r] = q],
           UNCHANGED <<rows, tokens, outside, intended, ended, spent, resets>>,
           Missed(r), entry' = [s \in Session |-> None] \/ UNCHANGED entry, me' = None \/ UNCHANGED me,
           InProgress(q), q.pc \notin SavesAccount \cup {"tokens"}, ~At(r, "spend"), ~Resetting(q),
           StaleIsDropped'
    PROVE  IInv'
<1> USE DEF rows, tokens, outside
<1>1. excused' \in Excused /\ excused'.sessions = excused.sessions
      /\ excused'.account = excused.account /\ excused'.link = excused.link
    BY MissedIs
<1>2. TypeOK'
    <2>1. entry' \in [Session -> Info] /\ \A s \in Session : entry'[s].cached => session[s].made
        BY Blank DEF IInv, TypeOK
    <2>2. me' \in Info
        BY Blank DEF IInv, TypeOK
    <2> QED BY <2>1, <2>2 DEF IInv, TypeOK
<1>3. GhostsOK'
    BY <1>1 DEF IInv, GhostsOK
<1>4. Sessions'
    <2>1. \A s \in Session : signed[s] \in Nat
        BY AccountsAssumption DEF IInv, TypeOK
    <2>2. Grows
        BY <2>1 DEF Grows
    <2> QED BY <1>1, <1>2, <2>2, SessionsFrame
<1>5. CopiesKept'
    BY <1>1, CopiesFrame
<1>6. OneReset'
    BY <1>1, LinkFrame
<1> QED BY <1>2, <1>3, <1>4, <1>5, <1>6 DEF IInv

LEMMA DropAllKeeps == ASSUME IInv, NEW r \in Request, DropAll(r) PROVE IInv'
<1>0. PICK p \in RequestState : p = req[r]
    BY Reading
<1>1. /\ p.pc = "dropAll" /\ account.pw # 0 /\ entry' = [s \in Session |-> None] /\ Missed(r)
      /\ UNCHANGED <<rows, tokens, outside, intended, ended, spent, resets, me>>
    BY <1>0, Reading DEF DropAll, At, InProgress
<1> DEFINE q == IF p.op = "update" THEN [p EXCEPT !.pc = "dropMe"]
                ELSE IF p.op = "verify" THEN [p EXCEPT !.pc = "loadVerify"] ELSE Idle
<1>2. req' = [req EXCEPT ![r] = q]
    BY <1>0, GotoIs, Reading DEF DropAll, Answer
<1>3. q \in RequestState
    BY Blank DEF RequestState, Pc
<1>4. /\ q.pc \in {"idle", "dropMe", "loadVerify"} /\ (q.op = "me" => q.pc = "idle")
      /\ (p.op = "update" => q.op = "update" /\ q.pc = "dropMe")
    BY Blank DEF RequestState
<1> HIDE DEF q
<1>5. /\ InProgress(q) /\ q.pc \notin SavesAccount \cup {"tokens"} /\ ~Resetting(q)
      /\ q.pc \notin StoresInfo /\ q.pc # "me"
    BY <1>1, <1>4 DEF InProgress, Protected, Refreshing, SavesAccount, Resetting, StoresInfo
<1>6. StaleIsDropped'
    <2> SUFFICES ASSUME ~excused'.info PROVE StaleIsDropped'
        BY DEF StaleIsDropped
    <2>1. ~excused.info /\ ~(p.op = "update" /\ CarriesInfo(r)) /\ StaleIsDropped
        BY <1>0, <1>1, MissedIs DEF IInv
    <2>2. \A i : Current(i)' = Current(i) /\ req \in [Request -> RequestState] /\ ~None.cached
        BY <1>1, Blank DEF Current, rows, IInv, TypeOK
    <2>3. ASSUME NEW x \in Request, Stale(req[x])' PROVE x # r /\ Stale(req[x])
        BY <1>2, <1>5, <2>2, <2>3 DEF Stale
    <2>4. ASSUME NEW x \in Request, x # r, Stale(req[x]), p.op = "update" PROVE FALSE
        BY <2>1, <2>4 DEF Stale, CarriesInfo
    <2>5. CASE p.op = "update"
        <3>1. Dropping(req'[r], {"dropAll", "dropMe"})
            BY <1>2, <1>4, <2>2, <2>5 DEF Dropping
        <3>2. \A x \in Request : ~Stale(req[x])'
            BY <2>3, <2>4, <2>5
        <3> QED BY <1>1, <2>2, <3>1, <3>2 DEF StaleIsDropped, Dropping
    <2>6. CASE p.op # "update"
        <3>1. ASSUME NEW x \in Request, NEW pcs, Dropping(req[x], pcs) PROVE Dropping(req'[x], pcs)
            BY <1>0, <1>2, <2>2, <2>6, <3>1 DEF Dropping
        <3>2. (\E x \in Request : Dropping(req[x], {"dropAll"})) => \E x \in Request : Dropping(req'[x], {"dropAll"})
            BY <3>1
        <3>3. me.cached /\ ~Current(me) => \E x \in Request : Dropping(req'[x], {"dropAll", "dropMe"})
            BY <2>1, <3>1 DEF StaleIsDropped
        <3> QED BY <1>1, <2>1, <2>2, <2>3, <3>2, <3>3 DEF StaleIsDropped, Dropping
    <2> QED BY <2>5, <2>6
<1> QED BY <1>0, <1>1, <1>2, <1>3, <1>5, <1>6, DropKeeps DEF At

LEMMA DropMeKeeps == ASSUME IInv, NEW r \in Request, DropMe(r) PROVE IInv'
<1>0. PICK p \in RequestState : p = req[r]
    BY Reading
<1>1. /\ p.pc = "dropMe" /\ account.pw # 0 /\ me' = None /\ Missed(r)
      /\ UNCHANGED <<rows, tokens, outside, intended, ended, spent, resets, entry>>
    BY <1>0, Reading DEF DropMe, At, InProgress
<1> DEFINE q == IF p.op \in {"reset", "verify"} THEN [p EXCEPT !.pc = "dropAll"] ELSE Idle
<1>2. req' = [req EXCEPT ![r] = q]
    BY <1>0, GotoIs, Reading DEF DropMe, Answer
<1>3. q \in RequestState
    BY Blank DEF RequestState, Pc
<1>4. q.pc \in {"idle", "dropAll"}
    BY Blank DEF RequestState
<1> HIDE DEF q
<1>5. /\ InProgress(q) /\ q.pc \notin SavesAccount \cup {"tokens"} /\ ~Resetting(q)
      /\ q.pc \notin StoresInfo /\ q.pc # "me"
    BY <1>1, <1>4 DEF InProgress, Protected, Refreshing, SavesAccount, Resetting, StoresInfo
<1>6. StaleIsDropped'
    <2> SUFFICES ASSUME ~excused'.info PROVE StaleIsDropped'
        BY DEF StaleIsDropped
    <2>1. ~excused.info /\ StaleIsDropped
        BY <1>1, MissedIs DEF IInv
    <2>2. \A i : Current(i)' = Current(i) /\ req \in [Request -> RequestState] /\ ~None.cached
        BY <1>1, Blank DEF Current, rows, IInv, TypeOK
    <2>3. ASSUME NEW x \in Request, Stale(req[x])' PROVE Stale(req[x])
        BY <1>2, <1>5, <2>2, <2>3 DEF Stale
    <2>4. ASSUME NEW x \in Request, Dropping(req[x], {"dropAll"}) PROVE Dropping(req'[x], {"dropAll"})
        BY <1>0, <1>1, <1>2, <2>2, <2>4 DEF Dropping
    <2> QED BY <1>1, <2>1, <2>2, <2>3, <2>4 DEF StaleIsDropped, Dropping
<1> QED BY <1>0, <1>1, <1>2, <1>3, <1>5, <1>6, DropKeeps DEF At

LEMMA SaveProfileKeeps == ASSUME IInv, NEW r \in Request, SaveProfile(r) PROVE IInv'
<1>0. PICK p \in RequestState : p = req[r]
    BY Reading
<1>1. /\ p.pc = "saveProfile" /\ InProgress(p) /\ profile < MaxProfile /\ profile' = profile + 1
      /\ UNCHANGED <<account, session, signed, tokens, caches, outside, ghosts>>
    BY <1>0, Reading DEF SaveProfile, At
<1> DEFINE q == [p EXCEPT !.pc = "dropAll"]
<1>2. req' = [req EXCEPT ![r] = q]
    BY <1>0, GotoIs, Reading DEF SaveProfile
<1>3. q \in RequestState /\ q.op = "update" /\ q.pc = "dropAll"
    BY <1>1 DEF RequestState, Pc, InProgress
<1>4. InProgress(q)
    BY <1>1 DEF InProgress, Protected, Refreshing, SavesAccount, RequestState
<1> HIDE DEF q
<1> USE DEF tokens, caches, outside, ghosts
<1>5. TypeOK'
    <2>1. profile' \in 0..MaxProfile
        BY <1>1, AccountsAssumption DEF IInv, TypeOK
    <2> QED BY <1>1, <1>2, <1>3, <2>1 DEF IInv, TypeOK
<1>6. GhostsOK'
    BY <1>1 DEF IInv, GhostsOK
<1>7. Sessions'
    <2>1. \A s \in Session : signed[s] \in Nat
        BY AccountsAssumption DEF IInv, TypeOK
    <2>2. Grows
        BY <1>1, <2>1 DEF Grows
    <2> QED BY <1>1, <1>2, <1>3, <1>4, <1>5, <2>2, SessionsFrame
<1>8. CopiesKept'
    BY <1>1, <1>2, <1>3, CopiesFrame DEF SavesAccount
<1>9. StaleIsDropped'
    <2>1. Dropping(req'[r], {"dropAll"}) /\ Dropping(req'[r], {"dropAll", "dropMe"})
        BY <1>2, <1>3 DEF Dropping, IInv, TypeOK
    <2> QED BY <2>1 DEF StaleIsDropped, Dropping
<1>10. OneReset'
    BY <1>0, <1>1, <1>2, <1>3, LinkFrame DEF Resetting, At
<1> QED BY <1>5, <1>6, <1>7, <1>8, <1>9, <1>10 DEF IInv

-----------------------------------------------------------------------------
(* Saves of the account. *)

LEMMA SaveIs ==
    ASSUME IInv, NEW r \in Request, NEW copy, NEW wanted, Save(r, copy, wanted)
    PROVE  /\ excused' \in Excused
           /\ excused'.sessions = excused.sessions /\ excused'.link = excused.link
           /\ ~excused'.account => ~excused.account /\ ~Holding(r, SavesAccount)
           /\ ~excused'.info => ~excused.info /\ (copy.verified = account.verified \/ ~Carried(r))
<1>1. excused \in Excused
    BY DEF IInv, GhostsOK
<1> DEFINE a == excused.account \/ Holding(r, SavesAccount)
           i == excused.info \/ (copy.verified # account.verified /\ Carried(r))
<1>2. a \in BOOLEAN /\ i \in BOOLEAN
    OBVIOUS
<1>3. excused' = [excused EXCEPT !.account = a, !.info = i]
    BY DEF Save
<1>4. ~a => ~excused.account /\ ~Holding(r, SavesAccount)
    OBVIOUS
<1>5. ~i => ~excused.info /\ (copy.verified = account.verified \/ ~Carried(r))
    OBVIOUS
<1> HIDE DEF a, i
<1> QED BY <1>1, <1>2, <1>3, <1>4, <1>5 DEF Excused

\* The two parts that a save may disturb.
LEMMA SaveKeeps ==
    ASSUME IInv, NEW r \in Request, NEW q \in RequestState, req' = [req EXCEPT ![r] = q],
           NEW copy, NEW wanted, Save(r, copy, wanted), req[r].pc \in SavesAccount,
           ~excused.account => copy = wanted,
           UNCHANGED <<profile, entry, me>>, q.pc \notin SavesAccount, ~q.info.cached
    PROVE  CopiesKept' /\ StaleIsDropped'
<1>1. req \in [Request -> RequestState] /\ CopiesKept /\ StaleIsDropped
    BY DEF IInv, TypeOK
<1>2. CopiesKept'
    <2> SUFFICES ASSUME ~excused'.account PROVE CopiesKept'
        BY DEF CopiesKept
    <2>1. ~excused.account /\ ~Holding(r, SavesAccount)
        BY SaveIs
    <2>2. account' = intended'
        BY <2>1 DEF Save
    <2>3. \A x \in Request : req'[x].pc \notin SavesAccount
        BY <1>1, <2>1 DEF Holding
    <2> QED BY <2>2, <2>3 DEF CopiesKept
<1>3. StaleIsDropped'
    <2> SUFFICES ASSUME ~excused'.info PROVE StaleIsDropped'
        BY DEF StaleIsDropped
    <2>1. ~excused.info /\ (copy.verified = account.verified \/ ~Carried(r))
        BY SaveIs
    <2>2. CASE copy.verified = account.verified
        <3>1. \A i : Current(i)' = Current(i)
            BY <2>2 DEF Current, Save
        <3>2. ASSUME NEW x \in Request, NEW pcs \in {{"dropAll"}, {"dropAll", "dropMe"}}, Dropping(req[x], pcs)
              PROVE  Dropping(req'[x], pcs)
            BY <1>1, <3>2 DEF Dropping, SavesAccount
        <3>3. ASSUME NEW x \in Request, Stale(req[x])' PROVE Stale(req[x])
            BY <1>1, <3>1, <3>3 DEF Stale
        <3>4. (\E x \in Request : Dropping(req[x], {"dropAll"})) => \E x \in Request : Dropping(req'[x], {"dropAll"})
            BY <3>2
        <3>5. me.cached /\ ~Current(me) => \E x \in Request : Dropping(req'[x], {"dropAll", "dropMe"})
            BY <1>1, <2>1, <3>2 DEF StaleIsDropped
        <3> QED BY <1>1, <2>1, <3>1, <3>3, <3>4, <3>5 DEF StaleIsDropped, Dropping
    <2>3. CASE ~Carried(r)
        <3>1. ~me.cached /\ \A s \in Session : ~entry[s].cached
            BY <2>3 DEF Carried
        <3>2. \A x \in Request : ~req'[x].info.cached
            BY <1>1, <2>3 DEF Carried
        <3> QED BY <3>1, <3>2 DEF StaleIsDropped, Stale
    <2> QED BY <2>1, <2>2, <2>3
<1> QED BY <1>2, <1>3

\* The copy that r saves, and what r goes on with.
LEMMA CopyIs ==
    ASSUME IInv, NEW r \in Request, req[r].pc \in SavesAccount
    PROVE  /\ req[r].account \in Account /\ req[r].account.pw # 0
           /\ ~excused.account => req[r].account = account /\ account = intended
BY Reading, Fields DEF InProgress, IInv, CopiesKept

\* A step that saves the account, but no session.
LEMMA SaveOnlyKeeps ==
    ASSUME IInv, NEW r \in Request, NEW q \in RequestState, req' = [req EXCEPT ![r] = q],
           NEW copy \in Account, NEW wanted \in Account, Save(r, copy, wanted), copy.pw # 0,
           req[r].pc \in SavesAccount, ~excused.account => copy = wanted,
           UNCHANGED <<profile, session, signed, tokens, caches, outside, ended, spent>>,
           resets' \in 0..2, InProgress(q), q.pc \notin SavesAccount \cup {"tokens"}, ~q.info.cached,
           OneReset'
    PROVE  IInv'
<1> USE DEF tokens, caches, outside
<1>1. account' = copy /\ intended' = wanted
    BY DEF Save
<1>2. TypeOK'
    BY <1>1 DEF IInv, TypeOK
<1>3. excused' \in Excused /\ excused'.sessions = excused.sessions
    BY SaveIs
<1>4. GhostsOK'
    BY <1>1, <1>3 DEF IInv, GhostsOK
<1>5. Sessions'
    <2>1. \A s \in Session : signed[s] \in Nat
        BY AccountsAssumption DEF IInv, TypeOK
    <2>2. Grows
        BY <1>1, <2>1 DEF Grows
    <2> QED BY <1>2, <1>3, <2>2, SessionsFrame
<1>6. CopiesKept' /\ StaleIsDropped'
    BY SaveKeeps
<1> QED BY <1>2, <1>4, <1>5, <1>6 DEF IInv

\* A password typed, in the account as it is and as it would be.
LEMMA PasswordIs ==
    ASSUME NEW a \in Account, NEW pw \in 1..MaxPassword
    PROVE  [a EXCEPT !.pw = pw] \in Account /\ [a EXCEPT !.pw = pw].pw # 0
BY AccountsAssumption DEF Account

LEMMA ChangeKeeps == ASSUME IInv, NEW r \in Request, NEW pw \in 1..MaxPassword, Change(r, pw) PROVE IInv'
<1>0. PICK p \in RequestState : p = req[r]
    BY Reading
<1>1. InProgress(p) /\ p.pc = "change" /\ p.account \in Account
    BY <1>0, Reading, Fields DEF Change, At
<1> DEFINE q == [p EXCEPT !.pc = "dropEntry", !.info = None, !.row = NoRow, !.account = Idle.account]
<1>2. req' = [req EXCEPT ![r] = q]
    BY <1>0, ThenIs, Reading DEF Change
<1>3. q \in RequestState /\ ~q.info.cached
    BY Blank DEF RequestState, Pc
<1>4. InProgress(q) /\ q.pc \notin SavesAccount \cup {"tokens"} /\ ~Resetting(q)
    BY <1>1 DEF InProgress, Protected, Refreshing, SavesAccount, Resetting, RequestState
<1> HIDE DEF q
<1>5. PICK copy \in Account : copy = [p.account EXCEPT !.pw = pw] /\ copy.pw # 0
    BY <1>1, PasswordIs
<1>6. PICK wanted \in Account : wanted = [intended EXCEPT !.pw = pw]
    BY PasswordIs DEF IInv, GhostsOK
<1>7. /\ Save(r, copy, wanted)
      /\ UNCHANGED <<profile, session, signed, tokens, caches, outside, ended, spent, resets>>
    BY <1>0, <1>5, <1>6 DEF Change
<1>8. req[r].pc \in SavesAccount /\ (~excused.account => copy = wanted)
    BY <1>0, <1>1, <1>5, <1>6, CopyIs DEF SavesAccount
<1>9. OneReset'
    <2>1. UNCHANGED <<spentLink, resets>> /\ excused'.link = excused.link
        BY <1>7, SaveIs DEF tokens
    <2> QED BY <1>0, <1>1, <1>2, <1>3, <1>4, <2>1, LinkFrame DEF At
<1>10. resets' \in 0..2
    BY <1>7 DEF IInv, GhostsOK
<1> QED BY <1>2, <1>3, <1>4, <1>7, <1>8, <1>9, <1>10, <1>5, SaveOnlyKeeps

LEMMA ResetKeeps == ASSUME IInv, NEW r \in Request, NEW pw \in 1..MaxPassword, Reset(r, pw) PROVE IInv'
<1>0. PICK p \in RequestState : p = req[r]
    BY Reading
<1>1. InProgress(p) /\ p.pc = "reset" /\ p.account \in Account
    BY <1>0, Reading, Fields DEF Reset, At
<1> DEFINE q == [p EXCEPT !.pc = "spend", !.info = None, !.row = NoRow, !.account = Idle.account]
<1>2. req' = [req EXCEPT ![r] = q]
    BY <1>0, ThenIs, Reading DEF Reset
<1>3. q \in RequestState /\ ~q.info.cached /\ q.pc = "spend"
    BY Blank DEF RequestState, Pc
<1>4. InProgress(q) /\ q.pc \notin SavesAccount \cup {"tokens"}
    BY <1>1 DEF InProgress, Protected, Refreshing, SavesAccount, RequestState
<1> HIDE DEF q
<1>5. PICK copy \in Account : copy = [p.account EXCEPT !.pw = pw] /\ copy.pw # 0
    BY <1>1, PasswordIs
<1>6. PICK wanted \in Account : wanted = [intended EXCEPT !.pw = pw]
    BY PasswordIs DEF IInv, GhostsOK
<1>7. /\ Save(r, copy, wanted) /\ resets' = IF resets < 2 THEN resets + 1 ELSE resets
      /\ UNCHANGED <<profile, session, signed, tokens, caches, outside, ended, spent>>
    BY <1>0, <1>5, <1>6 DEF Reset
<1>8. req[r].pc \in SavesAccount /\ (~excused.account => copy = wanted)
    BY <1>0, <1>1, <1>5, <1>6, CopyIs DEF SavesAccount
<1>9. OneReset'
    <2> SUFFICES ASSUME ~excused'.link PROVE OneReset'
        BY DEF OneReset
    <2>1. ~excused.link /\ OneReset /\ req \in [Request -> RequestState] /\ spentLink' = spentLink
        BY <1>7, SaveIs DEF tokens, IInv, TypeOK
    <2>2. Resetting(req[r]) /\ ~At(r, "spend")
        BY <1>0, <1>1 DEF Resetting, At
    <2>3. ~spentLink /\ \A x \in Request : Resetting(req[x]) => x = r
        BY <2>1, <2>2 DEF OneReset
    <2>4. resets = 0
        BY <2>1, <2>2, <2>3 DEF OneReset, Resetting, At
    <2>5. \A x \in Request : Resetting(req'[x]) => x = r
        BY <1>2, <2>1, <2>3
    <2>6. At(r, "spend")' /\ resets' = 1
        BY <1>2, <1>3, <1>7, <2>1, <2>4 DEF At
    <2> QED BY <2>1, <2>3, <2>5, <2>6 DEF OneReset, Resetting
<1>10. resets' \in 0..2
    BY <1>7 DEF IInv, GhostsOK
<1> QED BY <1>2, <1>3, <1>4, <1>7, <1>8, <1>9, <1>10, <1>5, SaveOnlyKeeps

LEMMA VerifyKeeps == ASSUME IInv, NEW r \in Request, Verify(r) PROVE IInv'
<1>0. PICK p \in RequestState : p = req[r]
    BY Reading
<1>1. InProgress(p) /\ p.pc = "verify" /\ p.account \in Account /\ p.account.pw # 0
    BY <1>0, Reading, Fields DEF Verify, At, InProgress, SavesAccount
<1>2. req' = [req EXCEPT ![r] = Idle]
    BY DEF Verify, Answer
<1>3. PICK copy \in Account : copy = [p.account EXCEPT !.verified = TRUE] /\ copy.pw # 0
    <2>1. [p.account EXCEPT !.verified = TRUE] \in Account
        BY <1>1 DEF Account
    <2>2. [p.account EXCEPT !.verified = TRUE].pw = p.account.pw
        BY <1>1 DEF Account
    <2> QED BY <1>1, <2>1, <2>2
<1>4. PICK wanted \in Account : wanted = [intended EXCEPT !.verified = TRUE]
    BY DEF IInv, GhostsOK, Account
<1>5. /\ Save(r, copy, wanted)
      /\ UNCHANGED <<profile, session, signed, tokens, caches, outside, ended, spent, resets>>
    BY <1>0, <1>3, <1>4 DEF Verify
<1>6. req[r].pc \in SavesAccount /\ (~excused.account => copy = wanted)
    BY <1>0, <1>1, <1>3, <1>4, CopyIs DEF SavesAccount
<1>7. OneReset'
    <2>1. UNCHANGED <<spentLink, resets>> /\ excused'.link = excused.link
        BY <1>5, SaveIs DEF tokens
    <2> QED BY <1>0, <1>1, <1>2, <2>1, LinkFrame, Blank, IdleIsQuiet DEF At
<1>8. resets' \in 0..2
    BY <1>5 DEF IInv, GhostsOK
<1> QED BY <1>2, <1>3, <1>5, <1>6, <1>7, <1>8, SaveOnlyKeeps, Blank, IdleIsQuiet

-----------------------------------------------------------------------------
(* The reset link. *)

LEMMA CheckLinkKeeps == ASSUME IInv, NEW r \in Request, CheckLink(r) PROVE IInv'
<1>0. PICK p \in RequestState : p = req[r]
    BY Reading
<1>1. p.pc = "link" /\ InProgress(p)
    BY <1>0, Reading DEF CheckLink, At
<1>2. CASE spentLink
    <2>1. Only(r) /\ Answer(r)
        BY <1>2 DEF CheckLink, Only, ghosts
    <2> QED BY <1>0, <1>1, <2>1, Answered DEF At, Dropping
<1>3. CASE ~spentLink
    <2> DEFINE q == [p EXCEPT !.pc = "loadReset"]
               l == excused.link \/ Holding(r, {"loadReset", "reset", "spend"})
    <2>1. req' = [req EXCEPT ![r] = q]
        BY <1>0, <1>3, GotoIs, Reading DEF CheckLink
    <2>2. q \in RequestState
        BY DEF RequestState, Pc
    <2>3. InProgress(q) /\ q.pc \notin SavesAccount \cup {"tokens"} /\ ~Stale(q)
        BY <1>1 DEF InProgress, Protected, Refreshing, SavesAccount, Stale, StoresInfo, RequestState
    <2> HIDE DEF q
    <2>4. /\ excused' \in Excused /\ excused'.sessions = excused.sessions
          /\ excused'.account = excused.account /\ excused'.info = excused.info
          /\ ~excused'.link => ~excused.link /\ ~Holding(r, {"loadReset", "reset", "spend"})
        <3>1. excused' = [excused EXCEPT !.link = l] /\ excused \in Excused
            BY <1>3 DEF CheckLink, IInv, GhostsOK
        <3>2. l \in BOOLEAN /\ (~l => ~excused.link /\ ~Holding(r, {"loadReset", "reset", "spend"}))
            OBVIOUS
        <3> HIDE DEF l
        <3> QED BY <3>1, <3>2 DEF Excused
    <2>5. UNCHANGED <<account, profile, session, signed, tokens, caches, outside,
                      intended, ended, spent, resets>>
        BY DEF CheckLink, rows
    <2> USE DEF tokens, caches, outside
    <2>6. TypeOK'
        BY <2>1, <2>2, <2>5 DEF IInv, TypeOK
    <2>7. GhostsOK'
        BY <2>4, <2>5 DEF IInv, GhostsOK
    <2>8. Sessions'
        <3>1. \A s \in Session : signed[s] \in Nat
            BY AccountsAssumption DEF IInv, TypeOK
        <3>2. Grows
            BY <2>5, <3>1 DEF Grows
        <3> QED BY <2>1, <2>2, <2>3, <2>4, <2>5, <2>6, <3>2, SessionsFrame
    <2>9. CopiesKept'
        BY <2>1, <2>2, <2>3, <2>4, <2>5, CopiesFrame
    <2>10. StaleIsDropped'
        BY <1>0, <1>1, <2>1, <2>2, <2>3, <2>4, <2>5, InfoFrame DEF Dropping
    <2>11. OneReset'
        <3> SUFFICES ASSUME ~excused'.link PROVE OneReset'
            BY DEF OneReset
        <3>1. OneReset /\ ~excused.link /\ req \in [Request -> RequestState]
            BY <2>4 DEF IInv, TypeOK
        <3>2. \A x \in Request : Resetting(req[x]) => x = r
            BY <2>4 DEF Holding, Resetting
        <3>3. ~\E x \in Request : At(x, "spend")
            BY <1>0, <1>1, <3>2 DEF Resetting, At
        <3>4. resets = 0
            BY <1>3, <3>1, <3>3 DEF OneReset
        <3>5. \A x \in Request : Resetting(req'[x]) => x = r
            BY <2>1, <3>1, <3>2
        <3> QED BY <1>3, <2>5, <3>4, <3>5 DEF OneReset, Resetting
    <2> QED BY <2>6, <2>7, <2>8, <2>9, <2>10, <2>11 DEF IInv
<1> QED BY <1>2, <1>3

LEMMA SpendLinkKeeps == ASSUME IInv, NEW r \in Request, SpendLink(r) PROVE IInv'
<1>0. PICK p \in RequestState : p = req[r]
    BY Reading
<1>1. /\ p.pc = "spend" /\ InProgress(p) /\ spentLink' = TRUE
      /\ UNCHANGED <<rows, black, caches, outside, ghosts>>
    BY <1>0, Reading DEF SpendLink, At
<1> DEFINE q == [p EXCEPT !.pc = "dropMe"]
<1>2. req' = [req EXCEPT ![r] = q]
    BY <1>0, GotoIs, Reading DEF SpendLink
<1>3. q \in RequestState
    BY DEF RequestState, Pc
<1>4. InProgress(q) /\ q.pc \notin SavesAccount \cup {"tokens"} /\ ~Stale(q) /\ ~Resetting(q)
    BY <1>1 DEF InProgress, Protected, Refreshing, SavesAccount, Stale, StoresInfo, Resetting, RequestState
<1> HIDE DEF q
<1> USE DEF rows, caches, outside, ghosts
<1>5. TypeOK'
    BY <1>1, <1>2, <1>3 DEF IInv, TypeOK
<1>6. GhostsOK'
    BY <1>1 DEF IInv, GhostsOK
<1>7. Sessions'
    <2>1. \A s \in Session : signed[s] \in Nat
        BY AccountsAssumption DEF IInv, TypeOK
    <2>2. Grows
        BY <1>1, <2>1 DEF Grows
    <2> QED BY <1>1, <1>2, <1>3, <1>4, <1>5, <2>2, SessionsFrame
<1>8. CopiesKept'
    BY <1>1, <1>2, <1>3, <1>4, CopiesFrame
<1>9. StaleIsDropped'
    BY <1>0, <1>1, <1>2, <1>3, <1>4, InfoFrame DEF Dropping
<1>10. OneReset'
    <2> SUFFICES ASSUME ~excused.link PROVE OneReset'
        BY <1>1 DEF OneReset
    <2>1. OneReset /\ req \in [Request -> RequestState]
        BY DEF IInv, TypeOK
    <2>2. \A x \in Request : Resetting(req[x]) => x = r
        BY <1>0, <1>1, <2>1 DEF OneReset, Resetting
    <2>3. \A x \in Request : ~Resetting(req'[x])
        BY <1>2, <1>4, <2>1, <2>2
    <2> QED BY <1>1, <2>1, <2>3 DEF OneReset, Resetting
<1> QED BY <1>5, <1>6, <1>7, <1>8, <1>9, <1>10 DEF IInv

LEMMA FailKeeps == ASSUME IInv, NEW r \in Request, Fail(r) PROVE IInv'
<1>0. PICK p \in RequestState : p = req[r]
    BY Reading
<1>1. /\ p.pc \in {"dropEntry", "dropAll", "dropMe", "loadSession", "spend"}
      /\ UNCHANGED <<rows, tokens, caches, outside, intended, ended, spent, resets>>
      /\ req' = [req EXCEPT ![r] = Idle]
    BY <1>0 DEF Fail, At, Answer
<1> DEFINE i == excused.info \/ (req[r].op = "update" /\ req[r].pc \in {"dropAll", "dropMe"})
           l == excused.link \/ At(r, "spend")
<1>2. excused' = [excused EXCEPT !.info = i, !.link = l] /\ excused \in Excused
    BY DEF Fail, IInv, GhostsOK
<1>3. i \in BOOLEAN /\ l \in BOOLEAN
    OBVIOUS
<1>4. ~i => ~excused.info /\ ~Dropping(req[r], {"dropAll", "dropMe"})
    BY DEF Dropping
<1>5. ~l => ~excused.link /\ ~At(r, "spend")
    OBVIOUS
<1> HIDE DEF i, l
<1>6. /\ excused' \in Excused /\ excused'.sessions = excused.sessions
      /\ excused'.account = excused.account
      /\ ~excused'.info => excused'.info = excused.info /\ ~Dropping(req[r], {"dropAll", "dropMe"})
      /\ ~excused'.link => excused'.link = excused.link /\ ~At(r, "spend")
    BY <1>2, <1>3, <1>4, <1>5 DEF Excused
<1> USE DEF rows, tokens, caches, outside
<1>7. TypeOK'
    BY <1>1, Blank DEF IInv, TypeOK
<1>8. GhostsOK'
    BY <1>1, <1>6 DEF IInv, GhostsOK
<1>9. Sessions'
    <2>1. \A s \in Session : signed[s] \in Nat
        BY AccountsAssumption DEF IInv, TypeOK
    <2>2. Grows
        BY <1>1, <2>1 DEF Grows
    <2> QED BY <1>1, <1>6, <1>7, <2>2, SessionsFrame, Blank, IdleIsQuiet
<1>10. CopiesKept'
    BY <1>1, <1>6, CopiesFrame, Blank, IdleIsQuiet
<1>11. StaleIsDropped'
    <2>1. CASE excused'.info
        BY <2>1 DEF StaleIsDropped
    <2>2. CASE ~excused'.info
        BY <1>1, <1>6, <2>2, InfoFrame, Blank, IdleIsQuiet
    <2> QED BY <2>1, <2>2
<1>12. OneReset'
    <2>1. CASE excused'.link
        BY <2>1 DEF OneReset
    <2>2. CASE ~excused'.link
        BY <1>1, <1>6, <2>2, LinkFrame, Blank, IdleIsQuiet
    <2> QED BY <2>1, <2>2
<1> QED BY <1>7, <1>8, <1>9, <1>10, <1>11, <1>12 DEF IInv

-----------------------------------------------------------------------------
(* Writes of the sessions' rows. *)

\* A step of r, which leaves it as q, writes the row of t, as row, of which n pairs are signed then.
Writes(r, q, t, row, n) ==
    /\ req' = [req EXCEPT ![r] = q]
    /\ session' = [session EXCEPT ![t] = row] /\ signed' = [signed EXCEPT ![t] = n]
    /\ row.made /\ (session[t].made => signed[t] <= n) /\ account'.pw # 0
    /\ held \subseteq held' /\ held' \subseteq held \cup {<<t, n>>}
    /\ \A h \in spent' : IF h[1] = t THEN row.hash = h[2] => row.revoked ELSE h \in spent
    /\ \A s \in ended' : s = t \/ s \in ended
    /\ \A s \in ended' \ excused'.sessions : IF s = t THEN row.revoked ELSE s \in ended \ excused.sessions
    /\ \A x \in Request \ {r} :
        /\ req[x].pc \in {"refresh", "tokens"} /\ req[x].t \in ended' \ excused'.sessions => req[x].row.revoked
        /\ At(x, "tokens") => (req[x].t = t => n = 0) /\ q.pc # "tokens"

LEMMA WriteKeeps ==
    ASSUME IInv, TypeOK', NEW r \in Request, NEW q \in RequestState, NEW t \in Session, NEW row \in Row,
           NEW n \in 0..MaxToken, Writes(r, q, t, row, n), InProgress(q)'
    PROVE  Sessions'
<1> USE DEF Writes
<1>1. /\ req \in [Request -> RequestState] /\ session \in [Session -> Row]
      /\ signed \in [Session -> 0..MaxToken] /\ held \subseteq Session \X (1..MaxToken)
    BY DEF IInv, TypeOK
<1>2. /\ \A s \in Session : signed[s] \in Nat
      /\ n \in Nat
    BY <1>1, AccountsAssumption
<1>3. /\ session'[t] = row /\ signed'[t] = n
      /\ \A s \in Session \ {t} : session'[s] = session[s] /\ signed'[s] = signed[s]
    BY <1>1
<1>4. Grows
    BY <1>2, <1>3 DEF Grows
<1>5. \A x \in Request : InProgress(req[x])'
    <2>1. \A x \in Request \ {r} : At(x, "tokens") => signed'[req[x].t] = 0
        BY <1>3 DEF IInv, Sessions, InProgress, At
    <2> QED BY <1>4, <2>1, RequestsStay DEF Writes
<1>6. Signed'
    <2>1. ASSUME NEW h \in held' PROVE session'[h[1]].made /\ h[2] <= signed'[h[1]]
        <3>1. CASE h = <<t, n>>
            BY <3>1, <1>2, <1>3
        <3>2. CASE h \in held
            <4>1. h[1] \in Session /\ h[2] \in Nat /\ session[h[1]].made /\ h[2] <= signed[h[1]]
                BY <1>1, <3>2, AccountsAssumption DEF IInv, Sessions, Signed
            <4> QED BY <1>2, <1>3, <4>1
        <3> QED BY <3>1, <3>2
    <2>2. \A s \in ended' : session'[s].made
        BY <1>3 DEF IInv, GhostsOK, Sessions, Signed
    <2>3. ASSUME NEW x \in Request, NEW y \in Request, At(x, "tokens")', At(y, "tokens")' PROVE x = y
        BY <1>1, <2>3 DEF IInv, Sessions, Signed, At
    <2>4. \A s \in Session : IF session'[s].made THEN account'.pw # 0 ELSE signed'[s] = 0
        BY <1>3 DEF IInv, Sessions, Signed
    <2> QED BY <2>1, <2>2, <2>3, <2>4 DEF Signed
<1>7. RevokedStays'
    <2>1. \A s \in ended' \ excused'.sessions : session'[s].revoked
        BY <1>3 DEF IInv, GhostsOK, Sessions, RevokedStays
    <2> QED BY <2>1 DEF RevokedStays
<1>8. SpentIsRefused'
    <2>1. ASSUME NEW h \in spent', session'[h[1]].hash = h[2] PROVE session'[h[1]].revoked
        <3>1. CASE h[1] = t
            BY <1>3, <2>1, <3>1
        <3>2. CASE h[1] # t
            <4>1. h \in spent /\ h[1] \in Session
                BY <1>1, <3>2 DEF IInv, GhostsOK
            <4> QED BY <1>3, <2>1, <3>2, <4>1 DEF IInv, Sessions, SpentIsRefused
        <3> QED BY <3>1, <3>2
    <2> QED BY <2>1 DEF SpentIsRefused
<1> QED BY <1>5, <1>6, <1>7, <1>8 DEF Sessions

\* The other parts, when r writes nothing but sessions.
LEMMA WriteOnly ==
    ASSUME IInv, NEW r \in Request, NEW q \in RequestState, req' = [req EXCEPT ![r] = q],
           UNCHANGED <<account, profile, tokens, caches, intended, resets>>,
           excused'.account = excused.account, excused'.info = excused.info,
           excused'.link = excused.link, q.pc \notin SavesAccount, ~Stale(q), ~Resetting(q),
           ~Dropping(req[r], {"dropAll", "dropMe"}), ~At(r, "spend")
    PROVE  CopiesKept' /\ StaleIsDropped' /\ OneReset'
<1> USE DEF tokens, caches
<1> QED BY CopiesFrame, InfoFrame, LinkFrame

LEMMA RevokedIs ==
    ASSUME IInv, NEW r \in Request, NEW T \in SUBSET Session, Revoked(r, T)
    PROVE  /\ ended' = ended \cup T /\ excused' \in Excused
           /\ excused'.account = excused.account /\ excused'.info = excused.info
           /\ excused'.link = excused.link
           /\ \A s \in ended' \ excused'.sessions : s \in T \/ s \in ended \ excused.sessions
           /\ \A x \in Request \ {r} : req[x].pc \in {"refresh", "tokens"} /\ req[x].t \in ended' \ excused'.sessions
                 => req[x].t \in ended \ excused.sessions
<1> DEFINE S == {t \in T : \E x \in Request \ {r} : req[x].pc \in {"refresh", "tokens"} /\ req[x].t = t}
<1>1. excused' = [excused EXCEPT !.sessions = excused.sessions \cup S] /\ excused \in Excused
    BY DEF Revoked, IInv, GhostsOK
<1>2. S \in SUBSET Session
    OBVIOUS
<1>3. \A x \in Request \ {r} : req[x].pc \in {"refresh", "tokens"} /\ req[x].t \in T => req[x].t \in S
    BY DEF At
<1> HIDE DEF S
<1>4. /\ excused' \in Excused /\ excused'.sessions = excused.sessions \cup S
      /\ excused'.account = excused.account /\ excused'.info = excused.info
      /\ excused'.link = excused.link
    BY <1>1, <1>2 DEF Excused
<1>5. ended' = ended \cup T
    BY DEF Revoked
<1> QED BY <1>3, <1>4, <1>5

\* What others rely on while no revocation is committed.
LEMMA OthersRely ==
    ASSUME IInv
    PROVE  \A x \in Request :
               req[x].pc \in {"refresh", "tokens"} /\ req[x].t \in ended \ excused.sessions => req[x].row.revoked
BY DEF IInv, Sessions, InProgress, At

LEMMA RegisterTokensKeeps == ASSUME IInv, NEW r \in Request, RegisterTokens(r) PROVE IInv'
<1>0. PICK p \in RequestState : p = req[r]
    BY Reading
<1>1. /\ p.pc = "tokens" /\ p.t \in Session /\ session[p.t].made /\ signed[p.t] = 0 /\ account.pw # 0
      /\ p.row.made /\ (p.t \in ended \ excused.sessions => p.row.revoked)
    BY <1>0, Reading DEF RegisterTokens, At, InProgress
<1>2. PICK old \in Row : old = p.row
    BY Fields
<1> DEFINE row == [old EXCEPT !.hash = 1]
<1>3. 1 \in 0..MaxToken /\ 1 \in 1..MaxToken
    BY AccountsAssumption
<1>4. row \in Row /\ row.made /\ row.hash = 1 /\ row.revoked = old.revoked
    BY <1>1, <1>2, <1>3 DEF Row
<1> HIDE DEF row
<1>5. /\ session' = [session EXCEPT ![p.t] = row] /\ signed' = [signed EXCEPT ![p.t] = 1]
      /\ held' = held \cup {<<p.t, 1>>} /\ req' = [req EXCEPT ![r] = Idle]
      /\ UNCHANGED <<account, profile, tokens, caches, mail, mix, ghosts>>
    BY <1>0, <1>2 DEF RegisterTokens, Answer, row
<1> USE DEF tokens, caches, ghosts
<1>6. TypeOK'
    <2>1. session' \in [Session -> Row] /\ signed' \in [Session -> 0..MaxToken]
          /\ req' \in [Request -> RequestState]
        BY <1>3, <1>4, <1>5, Blank DEF IInv, TypeOK
    <2>2. held' \subseteq Session \X (1..MaxToken) /\ black' \subseteq held'
        BY <1>1, <1>3, <1>5 DEF IInv, TypeOK
    <2>3. \A s \in Session : session'[s].hash <= signed'[s] /\ (entry'[s].cached => session'[s].made)
        BY <1>4, <1>5 DEF IInv, TypeOK
    <2> QED BY <1>5, <2>1, <2>2, <2>3 DEF IInv, TypeOK
<1>7. GhostsOK'
    BY <1>5 DEF IInv, GhostsOK
<1>8. Sessions'
    <2>1. ASSUME NEW h \in spent' PROVE IF h[1] = p.t THEN row.hash = h[2] => row.revoked ELSE h \in spent
        <3>1. h \in spent /\ h[2] \in 1..MaxToken /\ h[2] <= signed[h[1]]
            BY <1>5 DEF IInv, GhostsOK, TypeOK, Sessions, Signed
        <3> QED BY <1>1, <3>1, AccountsAssumption
    <2>2. \A s \in ended' \ excused'.sessions : IF s = p.t THEN row.revoked ELSE s \in ended \ excused.sessions
        BY <1>2, <1>4, <1>5, <1>1 DEF IInv, Sessions, RevokedStays
    <2>3. \A x \in Request \ {r} : ~At(x, "tokens")
        BY <1>0, <1>1 DEF IInv, Sessions, Signed, At
    <2>4. InProgress(Idle)'
        BY Blank DEF InProgress, Protected, Refreshing, SavesAccount
    <2>5. \A x \in Request \ {r} :
              /\ req[x].pc \in {"refresh", "tokens"} /\ req[x].t \in ended' \ excused'.sessions => req[x].row.revoked
              /\ At(x, "tokens") => (req[x].t = p.t => 1 = 0) /\ Idle.pc # "tokens"
        BY <1>5, <2>3, OthersRely
    <2>6. /\ account'.pw # 0 /\ held \subseteq held' /\ held' \subseteq held \cup {<<p.t, 1>>}
          /\ \A s \in ended' : s = p.t \/ s \in ended
        BY <1>1, <1>5
    <2>7. Writes(r, Idle, p.t, row, 1)
        BY <1>1, <1>4, <1>5, <2>1, <2>2, <2>5, <2>6 DEF Writes
    <2> QED BY <1>1, <1>3, <1>4, <1>6, <2>4, <2>7, WriteKeeps, Blank
<1>9. CopiesKept' /\ StaleIsDropped' /\ OneReset'
    BY <1>0, <1>1, <1>5, WriteOnly, Blank, IdleIsQuiet DEF At, Dropping
<1> QED BY <1>6, <1>7, <1>8, <1>9 DEF IInv

LEMMA RevokeKeeps == ASSUME IInv, NEW r \in Request, Revoke(r) PROVE IInv'
<1>0. PICK p \in RequestState : p = req[r]
    BY Reading
<1>1. /\ p.pc = "revoke" /\ InProgress(p) /\ p.t \in Session /\ session[p.t].made /\ account.pw # 0
      /\ p.row \in Row /\ p.row.made /\ p.row.hash <= signed[p.t]
    BY <1>0, Reading, Fields DEF Revoke, At, InProgress, Protected
<1>2. PICK old \in Row : old = session[p.t]
    BY <1>1, RowIs
<1> DEFINE row == [p.row EXCEPT !.revoked = TRUE, !.expired = old.expired]
           q == [p EXCEPT !.pc = "dropEntry", !.info = None, !.row = NoRow, !.account = Idle.account]
<1>3. row \in Row /\ row.made /\ row.hash = p.row.hash /\ row.revoked
    BY <1>1, <1>2 DEF Row
<1>4. req' = [req EXCEPT ![r] = q]
    BY <1>0, ThenIs, Reading DEF Revoke
<1>5. q \in RequestState /\ q.pc = "dropEntry" /\ q.s = p.s /\ q.n = p.n /\ q.t = p.t
    <2>1. "dropEntry" \in Pc
        BY DEF Pc
    <2> QED BY <2>1, ThenFits
<1>6. session' = [session EXCEPT ![p.t] = row] /\ Revoked(r, {p.t})
      /\ UNCHANGED <<account, profile, signed, tokens, caches, outside, intended, spent, resets>>
    BY <1>0, <1>2 DEF Revoke
<1> HIDE DEF row, q
<1> USE DEF tokens, caches, outside
<1>7. /\ ended' = ended \cup {p.t} /\ excused' \in Excused
      /\ excused'.account = excused.account /\ excused'.info = excused.info
      /\ excused'.link = excused.link
      /\ \A s \in ended' \ excused'.sessions : s = p.t \/ s \in ended \ excused.sessions
      /\ \A x \in Request \ {r} : req[x].pc \in {"refresh", "tokens"} /\ req[x].t \in ended' \ excused'.sessions
            => req[x].t \in ended \ excused.sessions
    BY <1>1, <1>6, RevokedIs
<1>8. TypeOK'
    <2>1. session' \in [Session -> Row] /\ req' \in [Request -> RequestState]
        BY <1>3, <1>4, <1>5, <1>6 DEF IInv, TypeOK
    <2>2. \A s \in Session : session'[s].hash <= signed'[s] /\ (entry'[s].cached => session'[s].made)
        BY <1>1, <1>3, <1>6 DEF IInv, TypeOK
    <2> QED BY <1>6, <2>1, <2>2 DEF IInv, TypeOK
<1>9. GhostsOK'
    BY <1>1, <1>6, <1>7 DEF IInv, GhostsOK
<1>10. Sessions'
    <2>1. PICK n \in 0..MaxToken : n = signed[p.t]
        BY <1>1 DEF IInv, TypeOK
    <2>2. signed' = [signed EXCEPT ![p.t] = n] /\ n <= n
        BY <1>6, <2>1, AccountsAssumption DEF IInv, TypeOK
    <2>3. \A x \in Request \ {r} : At(x, "tokens") /\ req[x].t = p.t => signed[p.t] = 0
        BY DEF IInv, Sessions, InProgress, At
    <2>4. InProgress(q)'
        BY <1>1, <1>3, <1>5, <1>6 DEF InProgress, Protected, Refreshing, SavesAccount, IInv, TypeOK
    <2>5. \A x \in Request \ {r} :
              /\ req[x].pc \in {"refresh", "tokens"} /\ req[x].t \in ended' \ excused'.sessions => req[x].row.revoked
              /\ At(x, "tokens") => (req[x].t = p.t => n = 0) /\ q.pc # "tokens"
        BY <1>5, <1>7, <2>1, <2>3, OthersRely
    <2>6. \A h \in spent' : IF h[1] = p.t THEN row.hash = h[2] => row.revoked ELSE h \in spent
        BY <1>3, <1>6
    <2>7. \A s \in ended' \ excused'.sessions :
              IF s = p.t THEN row.revoked ELSE s \in ended \ excused.sessions
        BY <1>3, <1>7
    <2>8. /\ account'.pw # 0 /\ held \subseteq held' /\ held' \subseteq held \cup {<<p.t, n>>}
          /\ \A s \in ended' : s = p.t \/ s \in ended
        BY <1>1, <1>6, <1>7
    <2>9. Writes(r, q, p.t, row, n)
        BY <1>3, <1>4, <1>6, <2>1, <2>2, <2>5, <2>6, <2>7, <2>8 DEF Writes
    <2> QED BY <1>1, <1>3, <1>5, <1>8, <2>4, <2>9, WriteKeeps
<1>11. CopiesKept' /\ StaleIsDropped' /\ OneReset'
    <2>1. q.pc \notin SavesAccount /\ ~Stale(q) /\ ~Resetting(q)
        BY <1>5 DEF SavesAccount, Stale, StoresInfo, Resetting
    <2> QED BY <1>0, <1>1, <1>4, <1>5, <1>6, <1>7, <2>1, WriteOnly DEF At, Dropping
<1> QED BY <1>8, <1>9, <1>10, <1>11 DEF IInv

LEMMA ExpireKeeps == ASSUME IInv, NEW r \in Request, Expire(r) PROVE IInv'
<1>0. PICK p \in RequestState : p = req[r]
    BY Reading
<1>1. /\ p.pc = "expire" /\ p.t \in Session /\ session[p.t].made /\ account.pw # 0
      /\ p.row \in Row /\ p.row.made /\ p.row.hash <= signed[p.t]
    BY <1>0, Reading, Fields DEF Expire, At, InProgress, Protected
<1> DEFINE row == [p.row EXCEPT !.revoked = TRUE]
<1>2. row \in Row /\ row.made /\ row.hash = p.row.hash /\ row.revoked
    BY <1>1 DEF Row
<1>3. /\ session' = [session EXCEPT ![p.t] = row] /\ Revoked(r, {p.t}) /\ req' = [req EXCEPT ![r] = Idle]
      /\ UNCHANGED <<account, profile, signed, tokens, caches, outside, intended, spent, resets>>
    BY <1>0 DEF Expire, Answer
<1> HIDE DEF row
<1> USE DEF tokens, caches, outside
<1>4. /\ ended' = ended \cup {p.t} /\ excused' \in Excused
      /\ excused'.account = excused.account /\ excused'.info = excused.info
      /\ excused'.link = excused.link
      /\ \A s \in ended' \ excused'.sessions : s = p.t \/ s \in ended \ excused.sessions
      /\ \A x \in Request \ {r} : req[x].pc \in {"refresh", "tokens"} /\ req[x].t \in ended' \ excused'.sessions
            => req[x].t \in ended \ excused.sessions
    BY <1>1, <1>3, RevokedIs
<1>5. TypeOK'
    <2>1. session' \in [Session -> Row] /\ req' \in [Request -> RequestState]
        BY <1>2, <1>3, Blank DEF IInv, TypeOK
    <2>2. \A s \in Session : session'[s].hash <= signed'[s] /\ (entry'[s].cached => session'[s].made)
        BY <1>1, <1>2, <1>3 DEF IInv, TypeOK
    <2> QED BY <1>3, <2>1, <2>2 DEF IInv, TypeOK
<1>6. GhostsOK'
    BY <1>1, <1>3, <1>4 DEF IInv, GhostsOK
<1>7. Sessions'
    <2>1. PICK n \in 0..MaxToken : n = signed[p.t]
        BY <1>1 DEF IInv, TypeOK
    <2>2. signed' = [signed EXCEPT ![p.t] = n] /\ n <= n
        BY <1>3, <2>1, AccountsAssumption DEF IInv, TypeOK
    <2>3. \A x \in Request \ {r} :
              /\ req[x].pc \in {"refresh", "tokens"} /\ req[x].t \in ended' \ excused'.sessions => req[x].row.revoked
              /\ At(x, "tokens") => (req[x].t = p.t => n = 0) /\ Idle.pc # "tokens"
        <3>1. \A x \in Request \ {r} : At(x, "tokens") /\ req[x].t = p.t => signed[p.t] = 0
            BY DEF IInv, Sessions, InProgress, At
        <3> QED BY <1>4, <2>1, <3>1, OthersRely, Blank
    <2>4. \A h \in spent' : IF h[1] = p.t THEN row.hash = h[2] => row.revoked ELSE h \in spent
        BY <1>2, <1>3
    <2>5. \A s \in ended' \ excused'.sessions :
              IF s = p.t THEN row.revoked ELSE s \in ended \ excused.sessions
        BY <1>2, <1>4
    <2>6. /\ account'.pw # 0 /\ held \subseteq held' /\ held' \subseteq held \cup {<<p.t, n>>}
          /\ \A s \in ended' : s = p.t \/ s \in ended
        BY <1>1, <1>3, <1>4
    <2>7. Writes(r, Idle, p.t, row, n)
        BY <1>2, <1>3, <2>1, <2>2, <2>3, <2>4, <2>5, <2>6 DEF Writes
    <2>8. InProgress(Idle)'
        BY Blank DEF InProgress, Protected, Refreshing, SavesAccount
    <2> QED BY <1>1, <1>2, <1>5, <2>7, <2>8, WriteKeeps, Blank
<1>8. CopiesKept' /\ StaleIsDropped' /\ OneReset'
    BY <1>0, <1>1, <1>3, <1>4, WriteOnly, Blank, IdleIsQuiet DEF At, Dropping
<1> QED BY <1>5, <1>6, <1>7, <1>8 DEF IInv

LEMMA RefreshKeeps == ASSUME IInv, NEW r \in Request, Refresh(r) PROVE IInv'
<1>0. PICK p \in RequestState : p = req[r]
    BY Reading
<1>1. /\ p.pc = "refresh" /\ p.t \in Session /\ session[p.t].made /\ account.pw # 0 /\ p.t = p.s
      /\ <<p.s, p.n>> \in held /\ p.row \in Row /\ p.row.made
      /\ (p.t \in ended \ excused.sessions => p.row.revoked)
    BY <1>0, Reading, Fields DEF Refresh, At, InProgress, Protected, Refreshing
<1>2. PICK old \in Row : old = session[p.t]
    BY <1>1, RowIs
<1>3. PICK k \in 0..MaxToken : k = signed[p.t]
    BY <1>1 DEF IInv, TypeOK
<1> DEFINE n == k + 1
           row == [p.row EXCEPT !.hash = n, !.expired = old.expired]
<1>4. n \in 0..MaxToken /\ n \in 1..MaxToken /\ k <= n /\ p.n <= k
    <2>1. k + 1 <= MaxToken
        BY <1>0, <1>3 DEF Refresh
    <2>2. p.n <= k
        BY <1>1, <1>3 DEF IInv, Sessions, Signed
    <2> QED BY <2>1, <2>2, AccountsAssumption
<1>5. row \in Row /\ row.made /\ row.hash = n /\ row.revoked = p.row.revoked
    BY <1>1, <1>2, <1>4 DEF Row
<1>6. /\ session' = [session EXCEPT ![p.t] = row] /\ signed' = [signed EXCEPT ![p.t] = n]
      /\ held' = held \cup {<<p.t, n>>} /\ spent' = spent \cup {<<p.t, p.n>>}
      /\ req' = [req EXCEPT ![r] = Idle]
      /\ UNCHANGED <<account, profile, tokens, caches, mail, mix, intended, ended, resets, excused>>
    BY <1>0, <1>2, <1>3 DEF Refresh, Answer
<1>7. \A h \in held : h[1] = p.t => h[2] # n
    BY <1>3, AccountsAssumption DEF IInv, Sessions, Signed, TypeOK
<1> HIDE DEF row, n
<1> USE DEF tokens, caches
<1>8. TypeOK'
    <2>1. session' \in [Session -> Row] /\ signed' \in [Session -> 0..MaxToken]
          /\ req' \in [Request -> RequestState]
        BY <1>4, <1>5, <1>6, Blank DEF IInv, TypeOK
    <2>2. held' \subseteq Session \X (1..MaxToken) /\ black' \subseteq held'
        BY <1>1, <1>4, <1>6 DEF IInv, TypeOK
    <2>3. \A s \in Session : session'[s].hash <= signed'[s] /\ (entry'[s].cached => session'[s].made)
        BY <1>4, <1>5, <1>6 DEF IInv, TypeOK
    <2> QED BY <1>6, <2>1, <2>2, <2>3 DEF IInv, TypeOK
<1>9. GhostsOK'
    BY <1>1, <1>6 DEF IInv, GhostsOK
<1>10. Sessions'
    <2>1. \A h \in spent' : IF h[1] = p.t THEN row.hash = h[2] => row.revoked ELSE h \in spent
        BY <1>1, <1>5, <1>6, <1>7 DEF IInv, GhostsOK
    <2>2. \A s \in ended' \ excused'.sessions : IF s = p.t THEN row.revoked ELSE s \in ended \ excused.sessions
        BY <1>1, <1>5, <1>6
    <2>3. \A x \in Request \ {r} : At(x, "tokens") => req[x].t # p.t
        <3>1. \A x \in Request : At(x, "tokens") => signed[req[x].t] = 0
            BY DEF IInv, Sessions, InProgress, At
        <3>2. k # 0
            BY <1>1, <1>4, AccountsAssumption DEF IInv, TypeOK
        <3> QED BY <1>3, <3>1, <3>2
    <2>4. \A x \in Request \ {r} :
              /\ req[x].pc \in {"refresh", "tokens"} /\ req[x].t \in ended' \ excused'.sessions => req[x].row.revoked
              /\ At(x, "tokens") => (req[x].t = p.t => n = 0) /\ Idle.pc # "tokens"
        BY <1>6, <2>3, OthersRely, Blank
    <2>5. /\ account'.pw # 0 /\ held \subseteq held' /\ held' \subseteq held \cup {<<p.t, n>>}
          /\ \A s \in ended' : s = p.t \/ s \in ended
        BY <1>1, <1>6
    <2>6. Writes(r, Idle, p.t, row, n)
        BY <1>3, <1>4, <1>5, <1>6, <2>1, <2>2, <2>4, <2>5 DEF Writes
    <2>7. InProgress(Idle)'
        BY Blank DEF InProgress, Protected, Refreshing, SavesAccount
    <2> QED BY <1>1, <1>4, <1>5, <1>8, <2>6, <2>7, WriteKeeps, Blank
<1>11. CopiesKept' /\ StaleIsDropped' /\ OneReset'
    BY <1>0, <1>1, <1>6, WriteOnly, Blank, IdleIsQuiet DEF At, Dropping
<1> QED BY <1>8, <1>9, <1>10, <1>11 DEF IInv

LEMMA RegisterKeeps == ASSUME IInv, NEW r \in Request, NEW t \in Session, Register(r, t) PROVE IInv'
<1>1. account.pw = 0 /\ req \in [Request -> RequestState]
    BY DEF Register, IInv, TypeOK
<1>2. \A x \in Request : req[x].pc = "idle"
    BY <1>1 DEF IInv, Sessions, InProgress
<1>3. \A s \in Session : ~session[s].made /\ signed[s] = 0
    BY <1>1 DEF IInv, Sessions, Signed
<1>4. PICK old \in Row : old = session[t]
    BY RowIs
<1> DEFINE row == [old EXCEPT !.made = TRUE]
           made == [NoRow EXCEPT !.made = TRUE]
           q == [Idle EXCEPT !.pc = "tokens", !.op = "register", !.t = t, !.row = made]
<1>5. row \in Row /\ row.made /\ row.hash = old.hash
    BY DEF Row
<1>6. /\ q \in RequestState /\ q.pc = "tokens" /\ q.t = t
      /\ q.info = None /\ q.op = "register" /\ q.row.made /\ q.row.hash = 0
    <2>1. "tokens" \in Pc /\ "register" \in Public
        BY DEF Pc, Public, AuthRoutes
    <2>2. made \in Row /\ made.made /\ made.hash = 0
        BY Blank DEF Row
    <2> HIDE DEF made
    <2> QED BY <2>1, <2>2, Blank DEF RequestState
<1>7. /\ account' = [account EXCEPT !.pw = 1] /\ intended' = account' /\ mail' = mail \cup {"verify"}
      /\ session' = [session EXCEPT ![t] = row] /\ req' = [req EXCEPT ![r] = q]
      /\ UNCHANGED <<profile, signed, tokens, caches, held, mix, ended, spent, resets, excused>>
    BY <1>4 DEF Register, IInv, TypeOK
<1>8. account' \in Account /\ account'.pw = 1 /\ account'.verified = account.verified
    BY <1>7, AccountsAssumption DEF Account, IInv, TypeOK
<1> HIDE DEF row, q, made
<1> USE DEF tokens, caches
<1>9. TypeOK'
    <2>1. session' \in [Session -> Row] /\ req' \in [Request -> RequestState]
        BY <1>5, <1>6, <1>7 DEF IInv, TypeOK
    <2>2. \A s \in Session : session'[s].hash <= signed'[s] /\ (entry'[s].cached => session'[s].made)
        BY <1>4, <1>5, <1>7 DEF IInv, TypeOK
    <2> QED BY <1>7, <1>8, <2>1, <2>2 DEF IInv, TypeOK
<1>10. GhostsOK'
    BY <1>7, <1>8 DEF IInv, GhostsOK
<1>11. Sessions'
    <2>1. \A h \in spent' : FALSE
        BY <1>3, <1>7 DEF IInv, GhostsOK, TypeOK, Sessions, Signed
    <2>2. \A s \in ended' : FALSE
        BY <1>3, <1>7 DEF IInv, GhostsOK, Sessions, Signed
    <2>3. Writes(r, q, t, row, 0)
        <3>1. signed' = [signed EXCEPT ![t] = 0]
            BY <1>3, <1>7 DEF IInv, TypeOK
        <3>2. \A x \in Request : req[x].pc \notin {"refresh", "tokens"} /\ ~At(x, "tokens")
            BY <1>2 DEF At
        <3>3. ~session[t].made /\ account'.pw # 0 /\ held \subseteq held'
              /\ held' \subseteq held \cup {<<t, 0>>}
            BY <1>3, <1>7, <1>8
        <3> QED BY <1>5, <1>7, <2>1, <2>2, <3>1, <3>2, <3>3 DEF Writes
    <2>4. InProgress(q)'
        BY <1>3, <1>5, <1>6, <1>7, <1>8, <2>2
        DEF InProgress, Protected, Refreshing, SavesAccount, IInv, TypeOK
    <2>5. 0 \in 0..MaxToken
        BY AccountsAssumption
    <2> QED BY <1>5, <1>6, <1>9, <2>3, <2>4, <2>5, WriteKeeps
<1>12. \A x \in Request : req'[x].pc \in {"idle", "tokens"}
    BY <1>1, <1>2, <1>6, <1>7
<1>13. CopiesKept'
    BY <1>7, <1>12 DEF CopiesKept, SavesAccount
<1>14. StaleIsDropped'
    <2>1. \A i : Current(i)' = Current(i)
        BY <1>7, <1>8 DEF Current
    <2>2. \A x \in Request : ~Dropping(req[x], {"dropAll", "dropMe"})
        BY <1>2 DEF Dropping
    <2>3. \A x \in Request : ~Stale(req[x])'
        BY <1>12 DEF Stale, StoresInfo
    <2>4. \A s \in Session : ~entry'[s].cached
        BY <1>3, <1>7 DEF IInv, TypeOK
    <2> QED BY <1>7, <2>1, <2>2, <2>3, <2>4 DEF IInv, StaleIsDropped
<1>15. OneReset'
    <2>1. ~Resetting(q) /\ ~At(r, "spend")
        BY <1>2, <1>6 DEF Resetting, At
    <2> QED BY <1>6, <1>7, <2>1, LinkFrame
<1> QED BY <1>9, <1>10, <1>11, <1>13, <1>14, <1>15 DEF IInv

LEMMA LoginKeeps == ASSUME IInv, NEW r \in Request, NEW t \in Session, Login(r, t) PROVE IInv'
<1>0. PICK p \in RequestState : p = req[r]
    BY Reading
<1>1. p.pc = "login" /\ req[r].pc \in SavesAccount /\ ~session[t].made
    BY <1>0 DEF Login, At, SavesAccount
<1>2. PICK copy, wanted \in Account :
          /\ copy = [p.account EXCEPT !.login = t] /\ wanted = [intended EXCEPT !.login = t]
          /\ copy.pw # 0 /\ (~excused.account => copy = wanted)
    <2>1. p.account \in Account /\ p.account.pw # 0 /\ (~excused.account => p.account = intended)
        BY <1>0, <1>1, CopyIs
    <2>2. intended \in Account
        BY DEF IInv, GhostsOK
    <2>3. /\ [p.account EXCEPT !.login = t] \in Account /\ [intended EXCEPT !.login = t] \in Account
          /\ [p.account EXCEPT !.login = t].pw # 0
        BY <2>1, <2>2 DEF Account
    <2> QED BY <2>1, <2>3
<1> DEFINE row == [NoRow EXCEPT !.made = TRUE, !.hash = 1]
           q == [p EXCEPT !.pc = "dropMe", !.info = None, !.row = NoRow, !.account = Idle.account]
<1>3. 1 \in 0..MaxToken /\ 1 \in 1..MaxToken
    BY AccountsAssumption
<1>4. row \in Row /\ row.made /\ row.hash = 1
    BY <1>3, Blank DEF Row
<1>5. req' = [req EXCEPT ![r] = q]
    BY <1>0, ThenIs, Reading DEF Login
<1>6. q \in RequestState /\ q.pc = "dropMe" /\ ~q.info.cached
    <2>1. "dropMe" \in Pc
        BY DEF Pc
    <2> QED BY <2>1, ThenFits
<1>7. /\ Save(r, copy, wanted) /\ account' = copy /\ intended' = wanted
      /\ session' = [session EXCEPT ![t] = row] /\ signed' = [signed EXCEPT ![t] = 1]
      /\ held' = held \cup {<<t, 1>>}
      /\ UNCHANGED <<profile, tokens, caches, mail, mix, ended, spent, resets>>
    BY <1>0, <1>2 DEF Login, Save
<1> HIDE DEF row, q
<1> USE DEF tokens, caches
<1>8. excused' \in Excused /\ excused'.sessions = excused.sessions /\ excused'.link = excused.link
    BY <1>7, SaveIs
<1>9. TypeOK'
    <2>1. session' \in [Session -> Row] /\ signed' \in [Session -> 0..MaxToken]
          /\ req' \in [Request -> RequestState]
        BY <1>3, <1>4, <1>5, <1>6, <1>7 DEF IInv, TypeOK
    <2>2. held' \subseteq Session \X (1..MaxToken) /\ black' \subseteq held'
        BY <1>3, <1>7 DEF IInv, TypeOK
    <2>3. \A s \in Session : session'[s].hash <= signed'[s] /\ (entry'[s].cached => session'[s].made)
        BY <1>4, <1>7 DEF IInv, TypeOK
    <2> QED BY <1>2, <1>7, <2>1, <2>2, <2>3 DEF IInv, TypeOK
<1>10. GhostsOK'
    BY <1>7, <1>8 DEF IInv, GhostsOK
<1>11. Sessions'
    <2>1. \A h \in spent' : h \in spent /\ h[1] # t
        BY <1>1, <1>7 DEF IInv, GhostsOK, Sessions, Signed
    <2>2. t \notin ended
        BY <1>1 DEF IInv, Sessions, Signed
    <2>3. \A x \in Request \ {r} :
              /\ req[x].pc \in {"refresh", "tokens"} /\ req[x].t \in ended' \ excused'.sessions => req[x].row.revoked
              /\ At(x, "tokens") => (req[x].t = t => 1 = 0) /\ q.pc # "tokens"
        <3>1. \A x \in Request : At(x, "tokens") => session[req[x].t].made
            BY DEF IInv, Sessions, InProgress, At
        <3> QED BY <1>1, <1>6, <1>7, <1>8, <3>1, OthersRely
    <2>4. Writes(r, q, t, row, 1)
        BY <1>1, <1>2, <1>4, <1>5, <1>7, <1>8, <2>1, <2>2, <2>3 DEF Writes
    <2>5. InProgress(q)'
        BY <1>2, <1>6, <1>7 DEF InProgress, Protected, Refreshing, SavesAccount
    <2> QED BY <1>3, <1>4, <1>6, <1>9, <2>4, <2>5, WriteKeeps
<1>12. CopiesKept' /\ StaleIsDropped'
    BY <1>1, <1>2, <1>5, <1>6, <1>7, SaveKeeps DEF SavesAccount
<1>13. OneReset'
    <2>1. ~Resetting(q) /\ ~At(r, "spend")
        BY <1>0, <1>1, <1>6 DEF Resetting, At
    <2> QED BY <1>5, <1>6, <1>7, <1>8, <2>1, LinkFrame
<1> QED BY <1>9, <1>10, <1>11, <1>12, <1>13 DEF IInv

LEMMA RevokeAllKeeps == ASSUME IInv, NEW r \in Request, NEW k \in BOOLEAN, RevokeAll(r, k) PROVE IInv'
<1>0. PICK p \in RequestState : p = req[r]
    BY Reading
<1>1. p.pc = "revokeAll" /\ account.pw # 0
    BY <1>0, Reading DEF RevokeAll, At, InProgress
<1> DEFINE q == [p EXCEPT !.pc = "dropAll"]
<1>2. req' = [req EXCEPT ![r] = q]
    BY <1>0, GotoIs, Reading DEF RevokeAll
<1>3. q \in RequestState /\ q.pc = "dropAll"
    BY DEF RequestState, Pc
<1> HIDE DEF q
<1>4. PICK T \in SUBSET Session :
        /\ \A s \in T : session[s].made
        /\ session' = [s \in Session |-> IF s \in T THEN [session[s] EXCEPT !.revoked = TRUE] ELSE session[s]]
        /\ Revoked(r, T)
    BY DEF RevokeAll
<1>5. UNCHANGED <<account, profile, signed, tokens, caches, outside, intended, spent, resets>>
    BY DEF RevokeAll
<1> USE DEF tokens, caches, outside
<1>6. /\ ended' = ended \cup T /\ excused' \in Excused
      /\ excused'.account = excused.account /\ excused'.info = excused.info
      /\ excused'.link = excused.link
      /\ \A s \in ended' \ excused'.sessions : s \in T \/ s \in ended \ excused.sessions
      /\ \A x \in Request \ {r} : req[x].pc \in {"refresh", "tokens"} /\ req[x].t \in ended' \ excused'.sessions
            => req[x].t \in ended \ excused.sessions
    BY <1>4, RevokedIs
<1>7. ASSUME NEW s \in Session
      PROVE  /\ session'[s] \in Row /\ session'[s].made = session[s].made
             /\ session'[s].hash = session[s].hash
             /\ (session[s].revoked \/ s \in T => session'[s].revoked)
    <2>1. PICK row \in Row : row = session[s]
        BY RowIs
    <2>2. [row EXCEPT !.revoked = TRUE] \in Row
        BY DEF Row
    <2>3. /\ [row EXCEPT !.revoked = TRUE].made = row.made /\ [row EXCEPT !.revoked = TRUE].hash = row.hash
          /\ [row EXCEPT !.revoked = TRUE].revoked
        BY DEF Row
    <2>4. session'[s] = IF s \in T THEN [row EXCEPT !.revoked = TRUE] ELSE row
        BY <1>4, <2>1
    <2> QED BY <2>1, <2>2, <2>3, <2>4
<1>8. session' = [s \in Session |-> session'[s]]
    BY <1>4
<1>9. TypeOK'
    <2>1. session' \in [Session -> Row]
        BY <1>7, <1>8
    <2>2. \A s \in Session : session'[s].hash <= signed'[s] /\ (entry'[s].cached => session'[s].made)
        BY <1>5, <1>7 DEF IInv, TypeOK
    <2> QED BY <1>2, <1>3, <1>5, <2>1, <2>2 DEF IInv, TypeOK
<1>10. GhostsOK'
    BY <1>5, <1>6 DEF IInv, GhostsOK
<1>11. Sessions'
    <2>1. \A s \in Session : signed[s] \in Nat
        BY AccountsAssumption DEF IInv, TypeOK
    <2>2. Grows
        BY <1>1, <1>5, <1>7, <2>1 DEF Grows
    <2>3. \A x \in Request : InProgress(req[x])'
        <3>1. InProgress(q)'
            BY <1>1, <1>3, <1>5 DEF InProgress, Protected, Refreshing, SavesAccount
        <3>2. \A x \in Request \ {r} :
                /\ req[x].pc \in {"refresh", "tokens"} /\ req[x].t \in ended' \ excused'.sessions
                    => req[x].row.revoked
                /\ At(x, "tokens") => signed'[req[x].t] = 0
            BY <1>5, <1>6, OthersRely DEF IInv, Sessions, InProgress, At
        <3> QED BY <1>2, <1>3, <1>9, <2>2, <3>1, <3>2, RequestsStay
    <2>4. Signed'
        <3>1. \A s \in ended' : s \in Session /\ session'[s].made
            BY <1>4, <1>6, <1>7 DEF IInv, GhostsOK, Sessions, Signed
        <3>2. \A h \in held' : session'[h[1]].made /\ h[2] <= signed'[h[1]]
            BY <1>5, <1>7 DEF IInv, TypeOK, Sessions, Signed
        <3>3. \A x \in Request : At(x, "tokens")' => At(x, "tokens")
            BY <1>2, <1>3 DEF At, IInv, TypeOK
        <3>4. \A s \in Session : IF session'[s].made THEN account'.pw # 0 ELSE signed'[s] = 0
            BY <1>5, <1>7 DEF IInv, Sessions, Signed
        <3> QED BY <3>1, <3>2, <3>3, <3>4 DEF Signed, IInv, Sessions
    <2>5. RevokedStays'
        BY <1>6, <1>7 DEF IInv, GhostsOK, Sessions, RevokedStays
    <2>6. SpentIsRefused'
        BY <1>5, <1>7 DEF IInv, GhostsOK, TypeOK, Sessions, SpentIsRefused
    <2> QED BY <2>3, <2>4, <2>5, <2>6 DEF Sessions
<1>12. CopiesKept' /\ StaleIsDropped' /\ OneReset'
    <2>1. q.pc \notin SavesAccount /\ ~Stale(q) /\ ~Resetting(q)
        BY <1>3 DEF SavesAccount, Stale, StoresInfo, Resetting
    <2> QED BY <1>0, <1>1, <1>2, <1>3, <1>5, <1>6, <2>1, WriteOnly DEF At, Dropping
<1> QED BY <1>9, <1>10, <1>11, <1>12 DEF IInv

LEMMA TimePassesKeeps == ASSUME IInv, NEW t \in Session, TimePasses(t) PROVE IInv'
<1>1. UNCHANGED <<account, profile, signed, tokens, caches, outside, req, ghosts>>
    BY DEF TimePasses
<1> USE DEF tokens, caches, outside, ghosts
<1>2. ASSUME NEW s \in Session
      PROVE  /\ session'[s] \in Row /\ session'[s].made = session[s].made
             /\ session'[s].hash = session[s].hash /\ session'[s].revoked = session[s].revoked
    <2>1. PICK row \in Row : row = session[s]
        BY RowIs
    <2>2. session'[s] = row \/ session'[s] = [row EXCEPT !.expired = TRUE]
        BY <2>1 DEF TimePasses, IInv, TypeOK
    <2> QED BY <2>1, <2>2 DEF Row
<1>3. TypeOK'
    <2>1. session' \in [Session -> Row]
        BY <1>2 DEF TimePasses, IInv, TypeOK
    <2>2. \A s \in Session : session'[s].hash <= signed'[s] /\ (entry'[s].cached => session'[s].made)
        BY <1>1, <1>2 DEF IInv, TypeOK
    <2> QED BY <1>1, <2>1, <2>2 DEF IInv, TypeOK
<1>4. Sessions'
    <2>1. Signed'
        BY <1>1, <1>2 DEF IInv, TypeOK, GhostsOK, Sessions, Signed, At
    <2>2. RevokedStays' /\ SpentIsRefused'
        BY <1>1, <1>2 DEF IInv, TypeOK, GhostsOK, Sessions, RevokedStays, SpentIsRefused
    <2>3. \A x \in Request : InProgress(req[x])'
        <3> SUFFICES ASSUME NEW x \in Request PROVE InProgress(req[x])'
            OBVIOUS
        <3>0. PICK p \in RequestState : p = req[x]
            BY Reading
        <3>1. InProgress(p) /\ req'[x] = p
            BY <1>1, <3>0, Reading
        <3>2. InProgress(p)'
            BY <1>1, <1>2, <3>1 DEF InProgress, Protected
        <3> QED BY <3>1, <3>2 DEF InProgress
    <2> QED BY <2>1, <2>2, <2>3 DEF Sessions
<1>5. GhostsOK' /\ CopiesKept' /\ StaleIsDropped' /\ OneReset'
    <2>1. \A i : Current(i)' = Current(i)
        BY <1>1 DEF Current
    <2> QED BY <1>1, <2>1 DEF IInv, GhostsOK, CopiesKept, StaleIsDropped, Stale, Dropping, OneReset, Resetting, At
<1> QED BY <1>3, <1>4, <1>5 DEF IInv

-----------------------------------------------------------------------------
LEMMA StepKeeps == ASSUME IInv, NEW r \in Request, Step(r) PROVE IInv'
<1>1. CASE RegisterTokens(r)
    BY <1>1, RegisterTokensKeeps
<1>2. CASE CachedSession(r) \/ CheckBlacklist(r) \/ LoadSession(r) \/ FillSession(r)
    BY <1>2, CachedSessionKeeps, CheckBlacklistKeeps, LoadSessionKeeps, FillSessionKeeps
<1>3. CASE Me(r) \/ StoreMe(r) \/ View(r) \/ StoreView(r)
    BY <1>3, MeKeeps, StoreMeKeeps, ViewKeeps, StoreViewKeeps
<1>4. CASE Blacklist(r) \/ LoadToRevoke(r) \/ Revoke(r) \/ \E k \in BOOLEAN : RevokeAll(r, k)
    BY <1>4, BlacklistKeeps, LoadToRevokeKeeps, RevokeKeeps, RevokeAllKeeps
<1>5. CASE DropEntry(r) \/ DropAll(r) \/ DropMe(r)
    BY <1>5, DropEntryKeeps, DropAllKeeps, DropMeKeeps
<1>6. CASE Validate(r) \/ Expire(r) \/ Reload(r) \/ Refresh(r)
    BY <1>6, ValidateKeeps, ExpireKeeps, ReloadKeeps, RefreshKeeps
<1>7. CASE CheckCredentials(r) \/ LoadAccount(r) \/ \E s \in Session : Login(r, s)
    BY <1>7, CredentialsKeep, LoadAccountKeeps, LoginKeeps
<1>8. CASE OldPassword(r) \/ \E pw \in 1..MaxPassword : Change(r, pw) \/ Reset(r, pw)
    BY <1>8, CredentialsKeep, ChangeKeeps, ResetKeeps
<1>9. CASE Forgot(r) \/ CheckLink(r) \/ LoadReset(r) \/ SpendLink(r)
    BY <1>9, MailKeeps, CheckLinkKeeps, LoadAccountKeeps, SpendLinkKeeps
<1>10. CASE LoadVerify(r) \/ Verify(r) \/ Resend(r) \/ LoadProfile(r) \/ SaveProfile(r)
    BY <1>10, LoadAccountKeeps, VerifyKeeps, MailKeeps, LoadProfileKeeps, SaveProfileKeeps
<1> QED BY <1>1, <1>2, <1>3, <1>4, <1>5, <1>6, <1>7, <1>8, <1>9, <1>10 DEF Step

LEMMA StutterKeeps == ASSUME IInv, UNCHANGED vars PROVE IInv'
<1>1. \A i : Current(i)' = Current(i)
    BY DEF Current, vars
<1> QED BY <1>1 DEF IInv, vars, TypeOK, GhostsOK, Sessions, Signed, RevokedStays, SpentIsRefused, InProgress,
                CopiesKept, StaleIsDropped, Stale, Dropping, OneReset, Resetting, At

LEMMA Inductive == IInv /\ [Next]_vars => IInv'
<1> SUFFICES ASSUME IInv, [Next]_vars PROVE IInv'
    OBVIOUS
<1>1. ASSUME NEW r \in Request, NEW s \in Session, Register(r, s) PROVE IInv'
    BY <1>1, RegisterKeeps
<1>2. ASSUME NEW r \in Request, NEW op \in Public, Visit(r, op) PROVE IInv'
    BY <1>2, VisitKeeps
<1>3. ASSUME NEW r \in Request, NEW op \in Authorized \cup {"refresh"}, NEW h \in held, NEW t \in Session,
             Arrive(r, op, h, t)
      PROVE  IInv'
    BY <1>3, ArriveKeeps
<1>4. ASSUME NEW r \in Request, Step(r) \/ Fail(r) PROVE IInv'
    BY <1>4, StepKeeps, FailKeeps
<1>5. ASSUME Evict \/ \E l \in mail : LinkExpires(l) PROVE IInv'
    BY <1>5, EnvironmentKeeps
<1>6. ASSUME NEW s \in Session, TimePasses(s) PROVE IInv'
    BY <1>6, TimePassesKeeps
<1>7. CASE UNCHANGED vars
    BY <1>7, StutterKeeps
<1> QED BY <1>1, <1>2, <1>3, <1>4, <1>5, <1>6, <1>7 DEF Next

(***************************************************************************)
(* Every reachable state has the facts above; TLC has checked them on the  *)
(* instance of the accounts run, and each property below follows from      *)
(* them.                                                                   *)
(***************************************************************************)
THEOREM Invariance == Spec => []IInv
BY Initially, Inductive, PTL DEF Spec

(***************************************************************************)
(* The types of rows, tokens, cache entries and requests hold in every     *)
(* behaviour; that a row's hash is one of the pairs signed for its session *)
(* is part of them (registerTokens, refresh).                              *)
(***************************************************************************)
THEOREM TypeCorrect == Spec => []TypeOK
<1>1. IInv => TypeOK
    BY DEF IInv
<1> QED BY <1>1, Invariance, PTL

(***************************************************************************)
(* For any number of sessions and overlapping requests, a session whose    *)
(* revocation committed stays revoked, unless a refresh that had loaded    *)
(* its row before, or the registration that had made it, wrote it back     *)
(* (refresh, register, revokeSessionById, revokeAll,                       *)
(* validateSessionTokens).                                                 *)
(***************************************************************************)
THEOREM RevocationStays == Spec => []RevokedStays
<1>1. IInv => RevokedStays
    BY DEF IInv, Sessions
<1> QED BY <1>1, Invariance, PTL

(***************************************************************************)
(* No interleaving of refreshes, revocations and logins makes a refresh    *)
(* token that was exchanged match the hash of a usable session again       *)
(* (refresh, validateSessionTokens).                                       *)
(***************************************************************************)
THEOREM RefreshedOnce == Spec => []SpentIsRefused
<1>1. IInv => SpentIsRefused
    BY DEF IInv, Sessions
<1> QED BY <1>1, Invariance, PTL

(***************************************************************************)
(* No password change, reset, verification or login is undone by a save of *)
(* the whole row, unless the request that saves held its copy of the row   *)
(* across that commit (changePassword, resetPassword, verify,              *)
(* signInLocalAccount).                                                    *)
(***************************************************************************)
THEOREM ChangesOfAccountKept == Spec => []AccountKept
<1>1. IInv => AccountKept
    BY DEF IInv, CopiesKept, AccountKept
<1> QED BY <1>1, Invariance, PTL

(***************************************************************************)
(* Once the update that made them stale has invalidated, the profile and   *)
(* the verification in every session's entry and in the user's own are the *)
(* rows', unless they were read before a commit and stored after it, or    *)
(* the invalidation died (update, JwtStrategy.validate, getMe); the last   *)
(* login shown with them is not promised.                                  *)
(***************************************************************************)
THEOREM CachedIsCurrent == Spec => []CacheCurrent
<1>1. ASSUME IInv, ~excused.info, ~InvalidationPending
      PROVE  /\ me.cached => Current(me)
             /\ \A s \in Session : entry[s].cached => Current(entry[s])
    <2>1. \A r \in Request : ~Dropping(req[r], {"dropAll"}) /\ ~Dropping(req[r], {"dropAll", "dropMe"})
        BY <1>1 DEF InvalidationPending, Dropping
    <2> QED BY <1>1, <2>1 DEF IInv, StaleIsDropped
<1>2. IInv => CacheCurrent
    BY <1>1 DEF CacheCurrent
<1> QED BY <1>2, Invariance, PTL

(***************************************************************************)
(* One reset link sets one password, unless it was checked twice before    *)
(* the first use marked it, or that use died before it could               *)
(* (resetPassword).                                                        *)
(***************************************************************************)
THEOREM LinkUsedOnce == Spec => []ResetOnce
<1>1. IInv => ResetOnce
    BY DEF IInv, OneReset, ResetOnce
<1> QED BY <1>1, Invariance, PTL
=============================================================================
