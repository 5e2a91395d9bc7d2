------------------------------ MODULE Accounts ------------------------------
(***************************************************************************)
(* One user's local account: the account's password and verification, the   *)
(* sessions with their refresh tokens, and the three caches in front of      *)
(* them: SESSION, which JwtStrategy trusts instead of the session's row,     *)
(* USER, which answers GET /user/me, and TOKENS, the blacklist.              *)
(*                                                                         *)
(* Each read, each Redis command and each commit is a step.  A save writes   *)
(* the whole row as it was loaded (TypeORM's save of a merged entity), and   *)
(* the invalidation that a controller's decorator asks for follows the       *)
(* answer.                                                                 *)
(***************************************************************************)
EXTENDS Naturals, FiniteSets

CONSTANTS
    Session, Request,
    NoSession,  \* a request that is about none
    MaxToken,   \* bound: token pairs signed for a session
    MaxPassword, MaxProfile, \* bounds: different passwords, and versions of the user's row
    Mix         \* bound: the sets of operations that clients use together

ASSUME AccountsAssumption ==
    /\ NoSession \notin Session
    /\ MaxToken \in Nat \ {0} /\ MaxPassword \in Nat \ {0} /\ MaxProfile \in Nat

VARIABLES
    account,  \* the accounts row: password (0 before registration), isVerified, lastLoginAt
    profile,  \* the users row, as a version
    session,  \* the sessions table
    signed,   \* token pairs signed for each session: pair n is the n-th
    held,     \* the pairs that clients were given
    black,    \* TOKENS: access tokens on the blacklist
    spentLink,\* TOKENS: the reset link is on the blacklist
    entry,    \* SESSION: the user info under each session's key
    me,       \* USER: the user info under the user's key
    mail,     \* links mailed and not expired
    req,      \* the requests in progress, with what each has read
    mix,      \* which operations this behaviour uses
    intended, \* ghost: the account if every save wrote only its own columns
    ended,    \* ghost: sessions whose revocation was committed
    spent,    \* ghost: refresh tokens exchanged by a committed refresh
    resets,   \* ghost: passwords set through the reset link
    excused   \* ghost: what requests that overlapped, or died, may have left behind

vars == <<account, profile, session, signed, held, black, spentLink, entry, me, mail, req, mix,
          intended, ended, spent, resets, excused>>
rows == <<account, profile, session, signed>>
tokens == <<black, spentLink>>
caches == <<entry, me>>
outside == <<held, mail, mix>>
ghosts == <<intended, ended, spent, resets, excused>>

\* What GET /user/me shows and a cached session carries (UserMapper).
None == [profile |-> 0, verified |-> FALSE, login |-> NoSession, cached |-> FALSE]
Info == [profile : 0..MaxProfile, verified : BOOLEAN, login : Session \cup {NoSession}, cached : BOOLEAN]
Now == [profile |-> profile, verified |-> account.verified, login |-> account.login, cached |-> TRUE]
\* The profile and the verification shown are those of the rows; the last login may be an earlier one.
Current(info) == info.profile = profile /\ info.verified = account.verified

\* login is the session that the last login made: each login makes one, and stamps lastLoginAt.
Account == [pw : 0..MaxPassword, verified : BOOLEAN, login : Session \cup {NoSession}]
NoAccount == [pw |-> 0, verified |-> FALSE, login |-> NoSession]
\* hash is the pair whose refresh token's hash is stored; 0 before the first is.
Row == [made : BOOLEAN, hash : 0..MaxToken, expired : BOOLEAN, revoked : BOOLEAN]
NoRow == [made |-> FALSE, hash |-> 0, expired |-> FALSE, revoked |-> FALSE]

\* The routes, by controller, but for those that only list rows or upload an image.
UserRoutes == {"me", "update"}
SessionRoutes == {"view", "revoke", "revokeAll"}
AccountRoutes == {"logout", "change", "resend"}
AuthRoutes == {"register", "login", "refresh", "forgot", "reset", "verify"}
Authorized == UserRoutes \cup SessionRoutes \cup AccountRoutes
Public == AuthRoutes

Pc == {"idle", "entry", "blacklisted", "load", "fill", "me", "storeMe", "view", "storeView",
       "blacklist", "loadSession", "revoke", "revokeAll", "dropEntry", "dropAll", "dropMe",
       "validate", "expire", "reload", "refresh", "tokens", "credentials", "loadAccount", "login",
       "oldPassword", "change", "loadProfile", "saveProfile", "resend",
       "link", "loadReset", "reset", "spend", "loadVerify", "verify"}

RequestState ==
    [pc : Pc, op : Authorized \cup Public \cup {"none"},
     s : Session \cup {NoSession}, n : 0..MaxToken, \* the pair whose token it carries
     t : Session \cup {NoSession},                  \* the session it is about
     info : Info, row : Row, account : Account]

TypeOK ==
    /\ account \in Account /\ profile \in 0..MaxProfile
    /\ session \in [Session -> Row] /\ signed \in [Session -> 0..MaxToken]
    /\ held \subseteq Session \X (1..MaxToken) /\ black \subseteq held
    /\ spentLink \in BOOLEAN
    /\ entry \in [Session -> Info] /\ me \in Info
    /\ mail \subseteq {"verify", "reset"}
    /\ req \in [Request -> RequestState]
    /\ mix \in Mix
    /\ \A s \in Session : session[s].hash <= signed[s] /\ (entry[s].cached => session[s].made)

Idle == [pc |-> "idle", op |-> "none", s |-> NoSession, n |-> 0, t |-> NoSession, info |-> None,
 row |-> NoRow, account |-> NoAccount]

Init ==
    /\ account = NoAccount
    /\ profile = 0
    /\ session = [s \in Session |-> NoRow]
    /\ signed = [s \in Session |-> 0]
    /\ held = {} /\ black = {} /\ spentLink = FALSE
    /\ entry = [s \in Session |-> None] /\ me = None
    /\ mail = {}
    /\ req = [r \in Request |-> Idle]
    /\ mix \in Mix
    /\ intended = account
    /\ ended = {} /\ spent = {} /\ resets = 0
    /\ excused = [sessions |-> {}, account |-> FALSE, info |-> FALSE, link |-> FALSE]

-----------------------------------------------------------------------------
At(r, pc) == req[r].pc = pc
AfterAuth(op) == CASE op = "logout" -> "blacklist" [] op = "revoke" -> "loadSession"
                   [] op = "change" -> "oldPassword" [] op = "update" -> "loadProfile"
                   [] OTHER -> op
Goto(r, pc) == req' = [req EXCEPT ![r].pc = pc]
\* What it had read is of no more use.
Then(r, pc) == req' = [req EXCEPT ![r] = [@ EXCEPT !.pc = pc, !.info = None, !.row = NoRow,
                                                   !.account = Idle.account]]
\* JwtStrategy has accepted it; only GET /user/me uses the info it returns.
Accepted(q, info) == [q EXCEPT !.pc = AfterAuth(q.op), !.info = IF q.op = "me" THEN info ELSE None]
Answer(r) == req' = [req EXCEPT ![r] = Idle]
\* A step that only moves the request.
Only(r) == UNCHANGED <<rows, tokens, caches, outside, ghosts>>

\* Requests other than r that hold a copy, loaded before, which they will save or store.
Holding(r, pcs) == \E q \in Request \ {r} : req[q].pc \in pcs
SavesAccount == {"login", "change", "reset", "verify"}
StoresInfo == {"fill", "storeMe", "storeView"}
\* What they carry on to a store of their own: the info a request was authenticated with.
CarriesInfo(r) == \E q \in Request \ {r} :
    /\ req[q].pc \in StoresInfo \/ (req[q].op = "me" /\ req[q].pc = "me")
    /\ ~Current(req[q].info)

\* The user's info is cached, or about to be.
Carried(r) ==
    \/ me.cached \/ \E s \in Session : entry[s].cached
    \/ \E q \in Request \ {r} : req[q].info.cached

\* Ghost: an invalidation after a change misses what another request still carries.
Missed(r) == excused' = [excused EXCEPT !.info = @ \/ (req[r].op = "update" /\ CarriesInfo(r))]

(***************************************************************************)
(* Sign-up and arrival                                                      *)
(***************************************************************************)
\* register: user, account and first session in one transaction; the tokens come later, and the
\* session is kept in memory until then.
Register(r, s) ==
    /\ At(r, "idle") /\ account.pw = 0
    /\ account' = [account EXCEPT !.pw = 1]
    /\ intended' = account'
    /\ session' = [session EXCEPT ![s].made = TRUE]
    /\ mail' = mail \cup {"verify"}
    /\ req' = [req EXCEPT ![r] = [Idle EXCEPT !.pc = "tokens", !.op = "register", !.t = s,
                                          !.row = [NoRow EXCEPT !.made = TRUE]]]
    /\ UNCHANGED <<profile, signed, tokens, caches, held, mix, ended, spent, resets, excused>>

\* Mutant: the hash is stored of a pair that is signed only later.
RegisterTokensMutant(r) == LET s == req[r].t IN
    /\ At(r, "tokens")
    /\ session' = [session EXCEPT ![s] = [req[r].row EXCEPT !.hash = 1]]
    /\ held' = held \cup {<<s, 1>>}
    /\ Answer(r)
    /\ UNCHANGED <<account, profile, signed, tokens, caches, mail, mix, ghosts>>

\* signTokens and updateSession: the session as it was made, with its first hash.
RegisterTokens(r) == LET s == req[r].t IN
    /\ At(r, "tokens")
    /\ signed' = [signed EXCEPT ![s] = 1]
    /\ session' = [session EXCEPT ![s] = [req[r].row EXCEPT !.hash = 1]]
    /\ held' = held \cup {<<s, 1>>}
    /\ Answer(r)
    /\ UNCHANGED <<account, profile, tokens, caches, mail, mix, ghosts>>

First(op) == CASE op = "refresh" -> "validate"
               [] op = "login" -> "credentials"
               [] op \in {"reset", "forgot"} -> "link"
               [] op = "verify" -> "dropMe"
               [] OTHER -> "entry"

\* A request that needs no token (login, forgot, reset, verify).
Visit(r, op) ==
    /\ At(r, "idle") /\ account.pw # 0
    /\ op \in mix \cap (Public \ {"register", "refresh"})
    /\ op \in {"reset", "verify"} => op \in mail
    /\ req' = [req EXCEPT ![r] = [Idle EXCEPT !.pc = First(op), !.op = op]]
    /\ Only(r)

\* A request with the access token of a pair or, for refresh, with its refresh token.
Arrive(r, op, h, t) ==
    /\ At(r, "idle")
    /\ op \in mix \cap (Authorized \cup {"refresh"})
    /\ h \in held /\ session[t].made
    /\ op \in {"view", "revoke"} \/ t = h[1]
    /\ req' = [req EXCEPT ![r] =
                 [Idle EXCEPT !.pc = First(op), !.op = op, !.s = h[1], !.n = h[2], !.t = t]]
    /\ Only(r)

(***************************************************************************)
(* JwtStrategy                                                              *)
(***************************************************************************)
\* validate: a cached session is accepted as it is.
CachedSession(r) == LET q == req[r] IN
    /\ At(r, "entry")
    /\ req' = [req EXCEPT ![r] = IF entry[q.s].cached
                 THEN Accepted(q, entry[q.s])
                 ELSE [q EXCEPT !.pc = "blacklisted"]]
    /\ Only(r)

CheckBlacklist(r) == LET q == req[r] IN
    /\ At(r, "blacklisted")
    /\ IF <<q.s, q.n>> \in black THEN Answer(r) ELSE Goto(r, "load")
    /\ Only(r)

\* validateCurrentSession: the row must exist; whether it is revoked is asked on refresh only.
LoadSession(r) ==
    /\ At(r, "load")
    /\ req' = [req EXCEPT ![r] = [req[r] EXCEPT !.pc = "fill", !.info = Now]]
    /\ Only(r)

FillSession(r) == LET q == req[r] IN
    /\ At(r, "fill")
    /\ entry' = [entry EXCEPT ![q.s] = q.info]
    /\ req' = [req EXCEPT ![r] = Accepted(q, q.info)]
    /\ UNCHANGED <<rows, tokens, me, outside, ghosts>>

(***************************************************************************)
(* GET /user/me and GET /sessions/:id behind CacheInterceptor, which stores  *)
(* what the handler answered on a miss.                                      *)
(***************************************************************************)
Me(r) ==
    /\ At(r, "me")
    /\ IF me.cached THEN Answer(r) ELSE Goto(r, "storeMe")
    /\ Only(r)

StoreMe(r) ==
    /\ At(r, "storeMe")
    /\ me' = req[r].info
    /\ Answer(r)
    /\ UNCHANGED <<rows, tokens, entry, outside, ghosts>>

\* The lookup and, on a miss, the handler's read.
View(r) == LET q == req[r] IN
    /\ At(r, "view")
    /\ IF entry[q.t].cached THEN Answer(r)
       ELSE req' = [req EXCEPT ![r] = [q EXCEPT !.pc = "storeView", !.info = Now]]
    /\ Only(r)

\* The key is the one that JwtStrategy uses.
StoreView(r) ==
    /\ At(r, "storeView")
    /\ entry' = [entry EXCEPT ![req[r].t] = req[r].info]
    /\ Answer(r)
    /\ UNCHANGED <<rows, tokens, me, outside, ghosts>>

(***************************************************************************)
(* Revocation                                                               *)
(***************************************************************************)
\* revokeCurrentSession
Blacklist(r) ==
    /\ At(r, "blacklist")
    /\ black' = black \cup {<<req[r].s, req[r].n>>}
    /\ Goto(r, "loadSession")
    /\ UNCHANGED <<rows, spentLink, caches, outside, ghosts>>

\* revokeSessionById: load, then save the row as loaded, revoked.
LoadToRevoke(r) ==
    /\ At(r, "loadSession")
    /\ req' = [req EXCEPT ![r] = [req[r] EXCEPT !.pc = "revoke", !.row = session[req[r].t]]]
    /\ Only(r)

\* Ghost: T's revocation is committed; a refresh that loaded its row before, or the registration
\* that made it, may write it back.
Revoked(r, T) ==
    /\ ended' = ended \cup T
    /\ excused' = [excused EXCEPT !.sessions = @ \cup
         {t \in T : \E q \in Request \ {r} : req[q].pc \in {"refresh", "tokens"} /\ req[q].t = t}]

Revoke(r) == LET q == req[r] IN
    /\ At(r, "revoke")
    /\ session' = [session EXCEPT ![q.t] = [q.row EXCEPT !.revoked = TRUE, !.expired = session[q.t].expired]]
    /\ Revoked(r, {q.t})
    /\ Then(r, "dropEntry")
    /\ UNCHANGED <<account, profile, signed, tokens, caches, outside, intended, spent, resets>>

\* revokeAll: one UPDATE of the user's rows, the current one kept or not.
RevokeAll(r, keepCurrent) ==
    LET T == {s \in Session : session[s].made /\ ~(keepCurrent /\ s = req[r].s)} IN
    /\ At(r, "revokeAll")
    /\ session' = [s \in Session |-> IF s \in T THEN [session[s] EXCEPT !.revoked = TRUE] ELSE session[s]]
    /\ Revoked(r, T)
    /\ Goto(r, "dropAll")
    /\ UNCHANGED <<account, profile, signed, tokens, caches, outside, intended, spent, resets>>

(***************************************************************************)
(* Invalidation: of one session's entry, of every entry of the user, of the  *)
(* USER entry.  A reset and a profile change need the last two, in an order  *)
(* of their own; verify does them before it changes anything.                *)
(***************************************************************************)
DropEntry(r) ==
    /\ At(r, "dropEntry")
    /\ entry' = [entry EXCEPT ![req[r].t] = None]
    /\ Answer(r)
    /\ UNCHANGED <<rows, tokens, me, outside, ghosts>>

\* Mutant: the pattern names the current session instead of all of the user's.
DropAllMutant(r) == LET op == req[r].op IN
    /\ At(r, "dropAll")
    /\ entry' = [entry EXCEPT ![req[r].s] = None]
    /\ IF op = "update" THEN Goto(r, "dropMe")
       ELSE IF op = "verify" THEN Goto(r, "loadVerify") ELSE Answer(r)
    /\ Missed(r)
    /\ UNCHANGED <<rows, tokens, me, outside, intended, ended, spent, resets>>

DropAll(r) == LET op == req[r].op IN
    /\ At(r, "dropAll")
    /\ entry' = [s \in Session |-> None]
    /\ IF op = "update" THEN Goto(r, "dropMe")
       ELSE IF op = "verify" THEN Goto(r, "loadVerify") ELSE Answer(r)
    /\ Missed(r)
    /\ UNCHANGED <<rows, tokens, me, outside, intended, ended, spent, resets>>

DropMe(r) == LET op == req[r].op IN
    /\ At(r, "dropMe")
    /\ me' = None
    /\ IF op \in {"reset", "verify"} THEN Goto(r, "dropAll") ELSE Answer(r)
    /\ Missed(r)
    /\ UNCHANGED <<rows, tokens, entry, outside, intended, ended, spent, resets>>

(***************************************************************************)
(* Refresh: the guard loads the session and validates the token, the        *)
(* handler loads it again and saves the new hash.                           *)
(***************************************************************************)
\* validateSessionTokens
Validate(r) == LET q == req[r] row == session[q.t] IN
    /\ At(r, "validate")
    /\ IF row.revoked \/ row.hash = 0 THEN Answer(r)
       ELSE IF row.expired THEN req' = [req EXCEPT ![r] = [q EXCEPT !.pc = "expire", !.row = row]]
       ELSE IF row.hash # q.n THEN Answer(r)
       ELSE Goto(r, "reload")
    /\ Only(r)

Expire(r) == LET q == req[r] IN
    /\ At(r, "expire")
    /\ session' = [session EXCEPT ![q.t] = [q.row EXCEPT !.revoked = TRUE]]
    /\ Revoked(r, {q.t})
    /\ Answer(r)
    /\ UNCHANGED <<account, profile, signed, tokens, caches, outside, intended, spent, resets>>

\* Mutant: the handler goes on with the row that the guard has validated.
ReloadMutant(r) ==
    /\ At(r, "reload")
    /\ req' = [req EXCEPT ![r] = [req[r] EXCEPT !.pc = "refresh",
                                               !.row = [session[req[r].t] EXCEPT !.revoked = FALSE]]]
    /\ Only(r)

\* The guard's row is dropped and the session loaded again, not validated again.
Reload(r) ==
    /\ At(r, "reload")
    /\ req' = [req EXCEPT ![r] = [req[r] EXCEPT !.pc = "refresh", !.row = session[req[r].t]]]
    /\ Only(r)

\* Mutant: the new pair is signed, but its hash is stored by nobody.
RefreshMutant(r) == LET q == req[r] n == signed[q.t] + 1 IN
    /\ At(r, "refresh") /\ n <= MaxToken
    /\ signed' = [signed EXCEPT ![q.t] = n]
    /\ held' = held \cup {<<q.t, n>>}
    /\ spent' = spent \cup {<<q.t, q.n>>}
    /\ Answer(r)
    /\ UNCHANGED <<account, profile, session, tokens, caches, mail, mix, intended, ended, resets, excused>>

\* signTokens and updateSession: the row as loaded, with the new hash.
Refresh(r) == LET q == req[r] n == signed[q.t] + 1 IN
    /\ At(r, "refresh") /\ n <= MaxToken
    /\ signed' = [signed EXCEPT ![q.t] = n]
    /\ session' = [session EXCEPT ![q.t] = [q.row EXCEPT !.hash = n, !.expired = session[q.t].expired]]
    /\ held' = held \cup {<<q.t, n>>}
    /\ spent' = spent \cup {<<q.t, q.n>>}
    /\ Answer(r)
    /\ UNCHANGED <<account, profile, tokens, caches, mail, mix, intended, ended, resets, excused>>

(***************************************************************************)
(* Login: the credentials are checked on one load of the account, and the   *)
(* session is created with another, which the transaction saves.            *)
(***************************************************************************)
\* A step that loads the account, or refuses the password typed.
Credentials(r, pc) ==
    \/ req' = [req EXCEPT ![r] = [req[r] EXCEPT !.pc = pc, !.account = account]]
    \/ Answer(r)

CheckCredentials(r) == At(r, "credentials") /\ Credentials(r, "loadAccount") /\ Only(r)

\* Mutant: the account of the credentials check is kept.
LoadAccountMutant(r) == At(r, "loadAccount") /\ Goto(r, "login") /\ Only(r)

LoadAccount(r) ==
    /\ At(r, "loadAccount")
    /\ req' = [req EXCEPT ![r] = [req[r] EXCEPT !.pc = "login", !.account = account]]
    /\ Only(r)

\* Ghost: the account is saved with these columns changed.
Save(r, copy, wanted) ==
    /\ account' = copy
    /\ intended' = wanted
    /\ excused' = [excused EXCEPT !.account = @ \/ Holding(r, SavesAccount),
                     !.info = @ \/ (copy.verified # account.verified /\ Carried(r))]

\* createSessionWithTokens
Login(r, s) ==
    /\ At(r, "login") /\ ~session[s].made
    /\ Save(r, [req[r].account EXCEPT !.login = s], [intended EXCEPT !.login = s])
    /\ session' = [session EXCEPT ![s] = [NoRow EXCEPT !.made = TRUE, !.hash = 1]]
    /\ signed' = [signed EXCEPT ![s] = 1]
    /\ held' = held \cup {<<s, 1>>}
    /\ Then(r, "dropMe")
    /\ UNCHANGED <<profile, tokens, caches, mail, mix, ended, spent, resets>>

(***************************************************************************)
(* Passwords                                                                *)
(***************************************************************************)
OldPassword(r) == At(r, "oldPassword") /\ Credentials(r, "change") /\ Only(r)

\* changePassword
Change(r, pw) ==
    /\ At(r, "change")
    /\ Save(r, [req[r].account EXCEPT !.pw = pw], [intended EXCEPT !.pw = pw])
    /\ Then(r, "dropEntry")
    /\ UNCHANGED <<profile, session, signed, tokens, caches, outside, ended, spent, resets>>

\* forgotPassword: a link is mailed (the model follows one link; it stays valid until it expires).
Forgot(r) ==
    /\ At(r, "link") /\ req[r].op = "forgot"
    /\ mail' = IF spentLink THEN mail ELSE mail \cup {"reset"}
    /\ Answer(r)
    /\ UNCHANGED <<rows, tokens, caches, held, mix, ghosts>>

\* Mutant: whether the link was used is not asked.
CheckLinkMutant(r) ==
    /\ At(r, "link") /\ req[r].op = "reset"
    /\ Goto(r, "loadReset")
    /\ UNCHANGED <<rows, tokens, caches, outside, ghosts>>

\* resetPassword: the blacklist, the accounts of the address, the blacklist again.
CheckLink(r) ==
    /\ At(r, "link") /\ req[r].op = "reset"
    /\ IF spentLink THEN Answer(r) /\ UNCHANGED excused
       ELSE /\ Goto(r, "loadReset")
            /\ excused' = [excused EXCEPT !.link = @ \/ Holding(r, {"loadReset", "reset", "spend"})]
    /\ UNCHANGED <<rows, tokens, caches, outside, intended, ended, spent, resets>>

LoadReset(r) ==
    /\ At(r, "loadReset")
    /\ req' = [req EXCEPT ![r] = [req[r] EXCEPT !.pc = "reset", !.account = account]]
    /\ Only(r)

Reset(r, pw) ==
    /\ At(r, "reset")
    /\ Save(r, [req[r].account EXCEPT !.pw = pw], [intended EXCEPT !.pw = pw])
    /\ resets' = IF resets < 2 THEN resets + 1 ELSE resets
    /\ Then(r, "spend")
    /\ UNCHANGED <<profile, session, signed, tokens, caches, outside, ended, spent>>

SpendLink(r) ==
    /\ At(r, "spend")
    /\ spentLink' = TRUE
    /\ Goto(r, "dropMe")
    /\ UNCHANGED <<rows, black, caches, outside, ghosts>>

(***************************************************************************)
(* Verification and profile                                                 *)
(***************************************************************************)
\* verifyLocalAccountByProviderEmail: 409 if it is verified already.
LoadVerify(r) ==
    /\ At(r, "loadVerify")
    /\ IF account.verified THEN Answer(r)
       ELSE req' = [req EXCEPT ![r] = [req[r] EXCEPT !.pc = "verify", !.account = account]]
    /\ Only(r)

Verify(r) ==
    /\ At(r, "verify")
    /\ Save(r, [req[r].account EXCEPT !.verified = TRUE], [intended EXCEPT !.verified = TRUE])
    /\ Answer(r)
    /\ UNCHANGED <<profile, session, signed, tokens, caches, outside, ended, spent, resets>>

\* resend: 409 if it is verified already.
Resend(r) ==
    /\ At(r, "resend")
    /\ mail' = IF account.verified THEN mail ELSE mail \cup {"verify"}
    /\ Answer(r)
    /\ UNCHANGED <<rows, tokens, caches, held, mix, ghosts>>

\* update: the user is loaded, and refused if the name or address is another's.
LoadProfile(r) ==
    /\ At(r, "loadProfile")
    /\ Goto(r, "saveProfile") \/ Answer(r)
    /\ Only(r)

SaveProfile(r) ==
    /\ At(r, "saveProfile") /\ profile < MaxProfile
    /\ profile' = profile + 1
    /\ Goto(r, "dropAll")
    /\ UNCHANGED <<account, session, signed, tokens, caches, outside, ghosts>>

-----------------------------------------------------------------------------
\* A cache entry expires, or Redis evicts it.
Evict ==
    /\ \/ me' = None /\ UNCHANGED entry
       \/ \E s \in Session : entry' = [entry EXCEPT ![s] = None] /\ UNCHANGED me
    /\ UNCHANGED <<rows, tokens, outside, req, ghosts>>

\* A refresh token's expiresAt passes; a refresh does not move it.
TimePasses(s) ==
    /\ session[s].hash # 0 /\ ~session[s].expired
    /\ session' = [session EXCEPT ![s].expired = TRUE]
    /\ UNCHANGED <<account, profile, signed, tokens, caches, outside, req, ghosts>>

\* A link expires.
LinkExpires(l) ==
    /\ l \in mail
    /\ mail' = mail \ {l}
    /\ UNCHANGED <<rows, tokens, caches, held, mix, req, ghosts>>

\* The process dies, or Redis or the database is unreachable, before an invalidation or a mark.
Fail(r) ==
    /\ req[r].pc \in {"dropEntry", "dropAll", "dropMe", "loadSession", "spend"}
    /\ excused' = [excused EXCEPT
         !.info = @ \/ (req[r].op = "update" /\ req[r].pc \in {"dropAll", "dropMe"}),
         !.link = @ \/ At(r, "spend")]
    /\ Answer(r)
    /\ UNCHANGED <<rows, tokens, caches, outside, intended, ended, spent, resets>>

Step(r) ==
    \/ RegisterTokens(r)
    \/ CachedSession(r) \/ CheckBlacklist(r) \/ LoadSession(r) \/ FillSession(r)
    \/ Me(r) \/ StoreMe(r) \/ View(r) \/ StoreView(r)
    \/ Blacklist(r) \/ LoadToRevoke(r) \/ Revoke(r) \/ (\E k \in BOOLEAN : RevokeAll(r, k))
    \/ DropEntry(r) \/ DropAll(r) \/ DropMe(r)
    \/ Validate(r) \/ Expire(r) \/ Reload(r) \/ Refresh(r)
    \/ CheckCredentials(r) \/ LoadAccount(r) \/ (\E s \in Session : Login(r, s))
    \/ OldPassword(r) \/ (\E pw \in 1..MaxPassword : Change(r, pw) \/ Reset(r, pw))
    \/ Forgot(r) \/ CheckLink(r) \/ LoadReset(r) \/ SpendLink(r)
    \/ LoadVerify(r) \/ Verify(r) \/ Resend(r) \/ LoadProfile(r) \/ SaveProfile(r)

Next ==
    \/ \E r \in Request :
        \/ \E s \in Session : Register(r, s)
        \/ \E op \in Public : Visit(r, op)
        \/ \E op \in Authorized \cup {"refresh"}, h \in held, t \in Session : Arrive(r, op, h, t)
        \/ Step(r) \/ Fail(r)
    \/ Evict
    \/ \E s \in Session : TimePasses(s)
    \/ \E l \in mail : LinkExpires(l)

Spec == Init /\ [][Next]_vars

-----------------------------------------------------------------------------
(***************************************************************************)
(* A revoked session stays revoked, unless a refresh had loaded its row, or  *)
(* the registration had made it, before the revocation was committed and     *)
(* saved it after (refresh, register, revokeSessionById, revokeAll,          *)
(* validateSessionTokens).                                                 *)
(***************************************************************************)
RevokedStays == \A s \in ended \ excused.sessions : session[s].revoked

(***************************************************************************)
(* A refresh token is exchanged once: after a refresh committed, its token  *)
(* matches the stored hash of no usable session again, whatever rows         *)
(* revocations and other refreshes wrote back meanwhile.                     *)
(***************************************************************************)
SpentIsRefused == \A h \in spent : session[h[1]].hash = h[2] => session[h[1]].revoked

(***************************************************************************)
(* Password, verification and last login are what the last change, reset,    *)
(* verification or login made them, unless another request held a copy of the row     *)
(* across that commit: a login loads the account again before it saves it,   *)
(* so the check of its credentials does not count (signInLocalAccount).      *)
(***************************************************************************)
AccountKept == ~excused.account => account = intended

\* The caches will be invalidated.
InvalidationPending == \E r \in Request :
    req[r].op = "update" /\ req[r].pc \in {"dropAll", "dropMe"}

(***************************************************************************)
(* The profile and the verification cached about the user are what the rows  *)
(* say, unless they are about to be invalidated, or were read before a       *)
(* commit and stored after it (for verify, stored after its invalidation,    *)
(* which comes first), or the invalidation was lost with its process         *)
(* (updateUser, verify, JwtStrategy.validate, getMe).  The last login that   *)
(* is cached with them is not promised: login drops USER and leaves the      *)
(* SESSION entries, so they, and a USER entry filled from one, keep an        *)
(* earlier date.                                                           *)
(***************************************************************************)
CacheCurrent == ~excused.info /\ ~InvalidationPending =>
    /\ me.cached => Current(me)
    /\ \A s \in Session : entry[s].cached => Current(entry[s])

(***************************************************************************)
(* A reset link sets one password: a second use succeeds only if it was      *)
(* checked while the first was still at work, or the first died before it    *)
(* could mark the link.                                                      *)
(***************************************************************************)
ResetOnce == ~excused.link => resets <= 1
=============================================================================
