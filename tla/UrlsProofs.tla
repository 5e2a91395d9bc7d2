----------------------------- MODULE UrlsProofs -----------------------------
(***************************************************************************)
(* Proofs about Urls, for any number of requests, slugs and channels, and  *)
(* any number of failures and edits. The invariant needs the code with     *)
(* which each URL was committed, which no variable keeps once the URL is   *)
(* deleted: it says that some assignment of codes to URLs fits whatever    *)
(* rows, copies of rows, jobs and records there are. A number is given its *)
(* code by the commit that creates it, and the row has it until an edit    *)
(* gives another: nothing is said of the codes of such rows, which are the *)
(* recoded ones. An alias that was checked is the code of no other URL     *)
(* that existed then, also of those that a save inserts again. A record,   *)
(* which knows its job, is of the slug and the address of that job, and    *)
(* two records of one job are of one URL, where the unique index tells     *)
(* their hashes apart.                                                     *)
(***************************************************************************)
EXTENDS Urls, FiniteSetTheorems, TLAPS

\* The parts of TypeOK.
Typed ==
    /\ url \in [Url -> Row \cup {NoRow}]
    /\ channel \subseteq Channel
    /\ records \subseteq Record /\ visits \subseteq Hash
    /\ metadata \in BOOLEAN /\ served \subseteq Slug
    /\ req \in [Request -> RequestState] /\ job \in [Request -> JobState]
NamesDiffer == \A u, v \in Exists : u # v =>
    /\ url[u].code # url[v].code
    /\ url[u].alias \in Slug => url[u].alias # url[v].alias
HashesDiffer == \A a, b \in records : a.url = b.url /\ a.hash = b.hash => a = b
RecordsOfRows == \A a \in records : a.url \in Exists
ChannelsExist == \A u \in Exists : url[u].channels \subseteq channel
RowsOK == Typed /\ NamesDiffer /\ HashesDiffer /\ RecordsOfRows /\ ChannelsExist
Marked == tagged \subseteq Url \X Channel /\ recoded \subseteq Url /\ recounted \subseteq Url

GhostsOK == version \in [Url -> Nat] /\ failures \in Nat

\* A request that creates a row, and one that saves what it has loaded.
Creating(r) == mix[r] = "create" /\ req[r].pc \in {"alias", "lookup", "insert", "commit"}
Editing(r) == mix[r] = "update" /\ req[r].pc \in {"alias", "save"}

\* The code with which each URL was committed, or NoSlug while it has not been.
Coding == [Url -> Slug \cup {NoSlug}]

\* None of the URLs seen has the alias as its code.
Checked(code, alias, seen) == \A v \in seen : code[v] \notin {alias, NoSlug}

\* The URL was committed, and no edit has given it another code than the row's.
Coded(code, u, row, edited) == code[u] # NoSlug /\ (u \notin edited => row.code = code[u])

RowsFit(code) == \A u \in Exists :
    /\ Coded(code, u, url[u], recoded)
    /\ Checked(code, url[u].alias, url[u].seen \ recoded)

\* What a request holds is of a URL that was committed, unless it creates one.
RequestFits(code, r) == LET q == req[r] IN
    /\ mix[r] = "create" /\ q.pc # "done" => code[r + 1] = NoSlug
    /\ Creating(r) => q.row \in Row /\ Checked(code, q.row.alias, q.row.seen \ recoded)
    /\ Editing(r) =>
        /\ q.u \in Url /\ q.row \in Row /\ q.edit \in Edit
        /\ Coded(code, q.u, q.row, recoded)
        /\ q.pc = "alias" => "alias" \in q.edit.sets
        /\ q.pc = "save" => Checked(code, Merged(q.row, q.edit).alias, q.row.seen \ recoded)
    /\ At(r, "attach", "add") => q.u \in Url
    /\ q.pc \notin {"commit", "done"} => job[r].pc = "none"

Holding == {"identity", "cache", "record", "count"}
JobFits(code, r) == LET j == job[r] IN
    /\ j.queue = "analytic" /\ j.pc # "none" => j.slug \in Slug
    /\ j.queue = "analytic" /\ j.pc \in Holding => j.row # NoRow /\ j.row.code = j.slug
    /\ j.queue = "metadata" => j.u = r + 1 /\ (j.pc = "save" => j.row # NoRow)
    /\ j.row # NoRow =>
        /\ Coded(code, j.u, j.row, recoded)
        /\ Checked(code, j.row.alias, j.row.seen \ recoded)
    /\ j.unique => j.type = "CLICK"
    /\ j.pc # "failed" => j.tries < MaxAttempts

\* A row that is about to be committed clashes with nothing that is or will be committed.
CommitFits(r) == At(r, "create", "commit") =>
    /\ ~Clash(r + 1, req[r].row) /\ ~Blocked(r, req[r].row)
    /\ req[r].row.channels \subseteq channel

\* A record is of the slug and the address of its job, and until an attempt has died its job has no other.
Recorded == {"count", "finish", "completed"}
Alive(r) == job[r].tries = 0 \/ failures = 0
RecordFits(code, a) == LET j == job[a.job] IN
    /\ a.hash = IF a.unique THEN Identity(j.slug) ELSE VisitHash(j.slug, j.ip)
    /\ a.url \notin recoded => code[a.url] = j.slug
    /\ j.queue = "analytic" /\ j.pc # "none"
    /\ Alive(a.job) => j.pc \in Recorded /\ \A b \in records : b.job = a.job => a = b

Fits(code) ==
    /\ RowsFit(code)
    /\ \A r \in Request : RequestFits(code, r) /\ JobFits(code, r) /\ CommitFits(r)
    /\ \A a \in records : RecordFits(code, a)

RowsInv == RowsOK /\ GhostsOK /\ \E code \in Coding : Fits(code)
IInv == RowsInv /\ Marked

-----------------------------------------------------------------------------
LEMMA TypeIs == RowsOK /\ Marked <=> TypeOK
<1>1. Typed => (RecordsOfRows <=> \A a \in records : url[a.url] # NoRow)
    BY DEF Typed, RecordsOfRows, Exists, Record
<1> QED BY <1>1 DEF TypeOK, RowsOK, Typed, NamesDiffer, HashesDiffer, ChannelsExist, Marked

LEMMA Numbers ==
    /\ \A r \in Request : r + 1 \in Url /\ r + 1 # 1
    /\ \A r, x \in Request : r + 1 = x + 1 => r = x
BY UrlsAssumption DEF Url

LEMMA RowIs == \A row \in Row :
    /\ row.code \in Slug /\ row.alias \in Slug \cup {NoSlug} /\ row.channels \subseteq Channel
    /\ row.seen \subseteq Url /\ row.clicks \in Nat /\ row.uniques \in Nat /\ row.impressions \in Nat
    /\ row # NoRow
BY UrlsAssumption DEF Row, NoRow

LEMMA ExistsIs == ASSUME Typed PROVE \A u \in Url : u \in Exists <=> url[u] \in Row
BY RowIs DEF Exists, Typed

LEMMA IdleIs == Idle \in RequestState /\ \A pc \in {"start", "done"} : [Idle EXCEPT !.pc = pc] \in RequestState
BY DEF Idle, RequestState

LEMMA JobIs ==
    ASSUME NEW r \in Request, NEW queue \in {"analytic", "metadata"}, NEW slug \in Slug \cup {NoSlug},
           NEW type \in {"CLICK", "IMPRESSION"}, NEW u \in Url
    PROVE  /\ Job(r, queue, slug, type, u) \in JobState
           /\ [Job(r, queue, slug, type, u) EXCEPT !.pc = "none"] \in JobState
<1>1. Address[r] \in Ip /\ 0 \in 0..MaxAttempts
    BY UrlsAssumption
<1> QED BY <1>1 DEF Job, JobState

LEMMA FinishedIs ==
    ASSUME NEW j \in JobState, NEW pc \in {"waiting", "completed", "failed"}
    PROVE  /\ Finished(j, pc) \in JobState
           /\ Finished(j, pc).pc = pc /\ Finished(j, pc).queue = j.queue /\ Finished(j, pc).tries = j.tries
           /\ Finished(j, pc).slug = j.slug /\ Finished(j, pc).ip = j.ip /\ Finished(j, pc).u = j.u
           /\ Finished(j, pc).type = j.type
           /\ Finished(j, pc).row = NoRow /\ ~Finished(j, pc).unique
BY DEF Finished, JobState

-----------------------------------------------------------------------------
(* What a step leaves to the others. *)

\* A step of r, which leaves it as q and its job as j.
Moves(r, q, j) ==
    /\ req' = [req EXCEPT ![r] = q] /\ job' = [job EXCEPT ![r] = j]
    /\ mix' = mix /\ recoded \subseteq recoded'

\* What is to be shown of a step that leaves r as q and j.
LEMMA OthersFit ==
    ASSUME NEW code, NEW r \in Request, NEW q, NEW j, RowsOK, Moves(r, q, j),
           NEW x \in Request \ {r}, RequestFits(code, x), JobFits(code, x)
    PROVE  RequestFits(code, x)' /\ JobFits(code, x)'
<1>1. req'[x] = req[x] /\ job'[x] = job[x] /\ mix' = mix /\ recoded \subseteq recoded'
    BY DEF Moves, RowsOK, Typed
<1> QED BY <1>1 DEF RequestFits, JobFits, Creating, Editing, At, Checked, Coded

\* The tables stay as they are.
LEMMA RowsStill == ASSUME NEW code, UNCHANGED <<url, recoded>>, RowsFit(code) PROVE RowsFit(code)'
BY DEF RowsFit, Exists

LEMMA TablesStill ==
    ASSUME RowsOK, UNCHANGED <<url, channel, records>>, Typed'
    PROVE  RowsOK'
<1>1. Exists' = Exists
    BY DEF Exists
<1> QED BY <1>1 DEF NamesDiffer, HashesDiffer, RecordsOfRows, ChannelsExist, RowsOK, Typed, Exists

\* Rows about to be committed, in a step that does not make r's one of them.
LEMMA CommitsStill ==
    ASSUME NEW r \in Request, NEW q, NEW j, RowsOK, Moves(r, q, j), UNCHANGED <<url, channel>>,
           q = req[r] \/ (mix[r] = "create" => q.pc # "commit"),
           NEW x \in Request, CommitFits(x)
    PROVE  CommitFits(x)'
<1>1. \A y \in Request : At(y, "create", "commit")' => At(y, "create", "commit") /\ req'[y] = req[y]
    BY DEF At, Moves, RowsOK, Typed
<1>2. Blocked(x, req[x].row)' /\ At(x, "create", "commit")' => Blocked(x, req[x].row)
    BY <1>1 DEF Blocked
<1>3. Clash(x + 1, req[x].row)' /\ At(x, "create", "commit")' => Clash(x + 1, req[x].row)
    BY <1>1 DEF Clash, Exists
<1> QED BY <1>1, <1>2, <1>3 DEF CommitFits

\* The records that stay, of which r has none or goes on with its job as j.
LEMMA RecordsStill ==
    ASSUME NEW code, NEW r \in Request, NEW q, NEW j, RowsOK, GhostsOK, GhostsOK', Moves(r, q, j),
           records' \subseteq records, failures' = 0 => failures = 0,
           \A a \in records : RecordFits(code, a),
           \/ \A a \in records : a.job # r
           \/ /\ j.slug = job[r].slug /\ j.ip = job[r].ip /\ j.queue = job[r].queue /\ j.pc # "none"
              /\ j.tries = 0 \/ failures' = 0 => Alive(r) /\ (job[r].pc \in Recorded => j.pc \in Recorded),
           NEW a \in records'
    PROVE  RecordFits(code, a)'
<1>1. a \in records /\ RecordFits(code, a) /\ a.job \in Request /\ recoded \subseteq recoded'
    BY DEF RowsOK, Typed, Record, Moves
<1>2. CASE a.job # r
    <2>1. job'[a.job] = job[a.job]
        BY <1>1, <1>2 DEF Moves, RowsOK, Typed
    <2> QED BY <1>1, <2>1 DEF RecordFits, Alive
<1>3. CASE a.job = r
    <2>1. job'[a.job] = j
        BY <1>1, <1>3 DEF Moves, RowsOK, Typed
    <2>2. Alive(a.job)' => Alive(a.job) /\ j.pc \in Recorded
        BY <2>1, <1>1, <1>3 DEF Alive, RecordFits
    <2> QED BY <1>1, <1>3, <2>1, <2>2 DEF RecordFits
<1> QED BY <1>2, <1>3

LEMMA FitIs ==
    ASSUME NEW code \in Coding, RowsOK', GhostsOK', RowsFit(code)',
           \A r \in Request : RequestFits(code, r)' /\ JobFits(code, r)' /\ CommitFits(r)',
           \A a \in records' : RecordFits(code, a)'
    PROVE  RowsInv'
BY DEF RowsInv, Fits

\* A step of none of them.
LEMMA FitsStill ==
    ASSUME NEW code, Fits(code), UNCHANGED <<url, channel, records, req, job, mix, recoded, failures>>
    PROVE  Fits(code)'
<1>1. RowsFit(code)'
    BY RowsStill DEF Fits
<1>2. ASSUME NEW r \in Request PROVE RequestFits(code, r)' /\ JobFits(code, r)'
    <2>1. RequestFits(code, r)'
        BY DEF Fits, RequestFits, At, Creating, Editing
    <2>2. JobFits(code, r)'
        BY DEF Fits, JobFits
    <2> QED BY <2>1, <2>2
<1>3. ASSUME NEW r \in Request PROVE CommitFits(r)'
    BY DEF Fits, CommitFits, At, Exists, Clash, Blocked
<1>4. ASSUME NEW a \in records' PROVE RecordFits(code, a)'
    BY DEF Fits, RecordFits, Alive
<1> QED BY <1>1, <1>2, <1>3, <1>4 DEF Fits

\* A step that writes no table.
Quiet(r, q, j) ==
    /\ Moves(r, q, j)
    /\ q \in RequestState /\ j \in JobState
    /\ UNCHANGED <<url, channel, records, version, recoded>>
    /\ visits' \subseteq Hash /\ metadata' \in BOOLEAN /\ served' \subseteq Slug
    /\ failures' \in Nat /\ failures' >= failures

LEMMA QuietTypes ==
    ASSUME RowsOK, GhostsOK, NEW r \in Request, NEW q, NEW j, Quiet(r, q, j)
    PROVE  RowsOK' /\ GhostsOK'
<1>1. Typed'
    BY DEF Quiet, Moves, RowsOK, Typed
<1> QED BY <1>1, TablesStill DEF Quiet, GhostsOK

LEMMA QuietKeeps ==
    ASSUME RowsOK, GhostsOK, NEW code \in Coding, Fits(code),
           NEW r \in Request, NEW q, NEW j, Quiet(r, q, j),
           q = req[r] \/ (mix[r] = "create" => q.pc # "commit"),
           \/ \A a \in records : a.job # r
           \/ /\ j.slug = job[r].slug /\ j.ip = job[r].ip /\ j.queue = job[r].queue /\ j.pc # "none"
              /\ j.tries = 0 \/ failures' = 0 => Alive(r) /\ (job[r].pc \in Recorded => j.pc \in Recorded),
           RequestFits(code, r)', JobFits(code, r)'
    PROVE  RowsInv'
<1>1. RowsOK' /\ GhostsOK'
    BY QuietTypes
<1>2. Moves(r, q, j) /\ UNCHANGED <<url, channel, records, recoded>> /\ failures \in Nat /\ (failures' = 0 => failures = 0)
    BY DEF Quiet, GhostsOK
<1>3. RowsFit(code)'
    BY <1>2, RowsStill DEF Fits
<1>4. \A x \in Request : RequestFits(code, x)' /\ JobFits(code, x)'
    BY <1>2, OthersFit DEF Fits
<1>5. \A x \in Request : CommitFits(x)'
    BY <1>2, CommitsStill DEF Fits
<1>6. \A a \in records' : RecordFits(code, a)'
    BY <1>1, <1>2, RecordsStill DEF Fits
<1> QED BY <1>1, <1>3, <1>4, <1>5, <1>6, FitIs

\* A step of a request alone.
LEMMA RequestKeeps ==
    ASSUME RowsOK, GhostsOK, NEW code \in Coding, Fits(code),
           NEW r \in Request, NEW q \in RequestState, req' = [req EXCEPT ![r] = q],
           UNCHANGED <<url, channel, records, visits, metadata, served, job, mix, recoded, version>>,
           failures' \in Nat, failures' >= failures,
           mix[r] = "create" => q.pc # "commit", RequestFits(code, r)'
    PROVE  RowsInv'
<1>1. Quiet(r, q, job[r])
    BY DEF Quiet, Moves, RowsOK, Typed
<1>2. JobFits(code, r)'
    BY DEF Fits, JobFits
<1>3. \/ \A a \in records : a.job # r
      \/ /\ job[r].slug = job[r].slug /\ job[r].ip = job[r].ip /\ job[r].queue = job[r].queue /\ job[r].pc # "none"
         /\ job[r].tries = 0 \/ failures' = 0 => Alive(r) /\ (job[r].pc \in Recorded => job[r].pc \in Recorded)
    BY DEF Fits, RecordFits, Alive, GhostsOK
<1> QED BY <1>1, <1>2, <1>3, QuietKeeps

\* A step of a job alone.
LEMMA JobKeeps ==
    ASSUME RowsOK, GhostsOK, NEW code \in Coding, Fits(code),
           NEW r \in Request, NEW j \in JobState, job' = [job EXCEPT ![r] = j],
           UNCHANGED <<url, channel, records, served, req, mix, recoded, version>>,
           visits' \subseteq Hash, metadata' \in BOOLEAN, failures' \in Nat, failures' >= failures,
           job[r].pc # "none", j.pc # "none",
           j.slug = job[r].slug, j.ip = job[r].ip, j.queue = job[r].queue,
           j.tries = 0 \/ failures' = 0 => Alive(r) /\ (job[r].pc \in Recorded => j.pc \in Recorded),
           JobFits(code, r)'
    PROVE  RowsInv'
<1>1. Quiet(r, req[r], j)
    BY DEF Quiet, Moves, RowsOK, Typed
<1>2. RequestFits(code, r)'
    BY DEF Fits, RequestFits, RowsOK, Typed, Creating, Editing, At
<1> QED BY <1>1, <1>2, QuietKeeps

\* A request is over.
LEMMA DoneFits ==
    ASSUME RowsOK, NEW code, NEW r \in Request, Done(r)
    PROVE  RequestFits(code, r)' /\ [Idle EXCEPT !.pc = "done"] \in RequestState
<1>1. req'[r].pc = "done"
    BY DEF Done, RowsOK, Typed, Idle
<1> QED BY <1>1, IdleIs DEF RequestFits, Creating, Editing, At

LEMMA DoneKeeps ==
    ASSUME RowsInv, NEW r \in Request, Done(r),
           UNCHANGED <<url, channel, records, visits, metadata, served, job, mix, recoded, version>>,
           failures' \in Nat, failures' >= failures
    PROVE  RowsInv'
<1>1. RowsOK /\ GhostsOK
    BY DEF RowsInv
<1>2. PICK code \in Coding : Fits(code)
    BY DEF RowsInv
<1>3. RequestFits(code, r)' /\ [Idle EXCEPT !.pc = "done"] \in RequestState
    BY <1>1, DoneFits
<1>4. req' = [req EXCEPT ![r] = [Idle EXCEPT !.pc = "done"]] /\ [Idle EXCEPT !.pc = "done"].pc = "done"
    BY DEF Done, Idle
<1> QED BY <1>1, <1>2, <1>3, <1>4, RequestKeeps

-----------------------------------------------------------------------------
(* Requests that write nothing. *)

LEMMA CreateCodeKeeps ==
    ASSUME RowsInv, NEW r \in Request, NEW s \in Slug, NEW alias \in Alias \cup {NoSlug}, CreateCode(r, s, alias)
    PROVE  RowsInv'
<1>1. RowsOK /\ GhostsOK
    BY DEF RowsInv
<1>2. PICK code \in Coding : Fits(code)
    BY DEF RowsInv
<1> DEFINE row == [code |-> s, alias |-> alias, archived |-> FALSE, private |-> FALSE,
                     splash |-> FALSE, protected |-> FALSE, limit |-> 0, meta |-> FALSE,
                     channels |-> {}, clicks |-> 0, uniques |-> 0, impressions |-> 0, seen |-> {}]
<1>3. row \in Row /\ row.seen = {}
    BY UrlsAssumption DEF Row
<1>4. PICK p \in RequestState : p = req[r]
    BY <1>1 DEF RowsOK, Typed
<1> DEFINE q == [p EXCEPT !.pc = IF alias = NoSlug THEN "lookup" ELSE "alias", !.u = r + 1, !.row = row]
<1>5. req' = [req EXCEPT ![r] = q] /\ mix[r] = "create" /\ p.pc = "start"
    BY <1>4 DEF CreateCode, At
<1> HIDE DEF row
<1>6. q \in RequestState /\ q.pc \in {"lookup", "alias"} /\ q.row = row
    BY <1>3, Numbers DEF RequestState
<1> HIDE DEF q
<1>7. UNCHANGED <<url, channel, records, visits, metadata, served, job, mix, recoded, version, failures>>
    BY DEF CreateCode, Tables, Caches, ghosts, overridden
<1>8. RequestFits(code, r) /\ req'[r] = q
    BY <1>1, <1>2, <1>5 DEF Fits, RowsOK, Typed
<1>9. RequestFits(code, r)'
    BY <1>3, <1>4, <1>5, <1>6, <1>7, <1>8 DEF RequestFits, Creating, Editing, At, Checked
<1>10. failures' \in Nat /\ failures' >= failures
    BY <1>1, <1>7 DEF GhostsOK
<1> QED BY <1>1, <1>2, <1>5, <1>6, <1>7, <1>9, <1>10, RequestKeeps

LEMMA CreateAliasKeeps == ASSUME RowsInv, NEW r \in Request, CreateAlias(r) PROVE RowsInv'
<1>1. RowsOK /\ GhostsOK
    BY DEF RowsInv
<1>2. PICK code \in Coding : Fits(code)
    BY DEF RowsInv
<1>3. UNCHANGED <<url, channel, records, visits, metadata, served, job, mix, recoded, version, failures>>
    BY DEF CreateAlias, Tables, Caches, ghosts, overridden
<1>4. failures' \in Nat /\ failures' >= failures
    BY <1>1, <1>3 DEF GhostsOK
<1>5. CASE Done(r)
    BY <1>3, <1>4, <1>5, DoneKeeps
<1>6. CASE ~Done(r)
    <2>1. PICK p \in RequestState : p = req[r]
        BY <1>1 DEF RowsOK, Typed
    <2>2. RequestFits(code, r) /\ RowsFit(code) /\ Creating(r)
        BY <1>2 DEF Fits, CreateAlias, At, Creating
    <2>3. PICK row \in Row : row = p.row
        BY <2>1, <2>2 DEF RequestFits
    <2> DEFINE new == [row EXCEPT !.seen = Exists]
               q == [p EXCEPT !.pc = "lookup", !.row = new]
    <2>4. req' = [req EXCEPT ![r] = q] /\ mix[r] = "create" /\ p.pc = "alias" /\ ~AliasTaken(row.alias)
        BY <1>6, <2>1, <2>3 DEF CreateAlias, At, GoOn
    <2>5. new \in Row /\ new.alias = row.alias /\ new.seen = Exists
        BY DEF Row, Exists
    <2>6. Checked(code, row.alias, Exists \ recoded)
        <3>1. ASSUME NEW v \in Exists \ recoded PROVE code[v] # row.alias /\ code[v] \in Slug
            BY <3>1, <1>1, <2>2, <2>4, ExistsIs, RowIs DEF RowsOK, AliasTaken, Codes, RowsFit, Coded, Exists
        <3> QED BY <3>1, UrlsAssumption DEF Checked
    <2> HIDE DEF new
    <2>7. q \in RequestState /\ q.pc = "lookup" /\ q.row = new
        BY <2>5 DEF RequestState
    <2> HIDE DEF q
    <2>8. req'[r] = q
        BY <1>1, <2>4 DEF RowsOK, Typed
    <2>9. RequestFits(code, r)'
        BY <1>3, <2>1, <2>2, <2>4, <2>5, <2>6, <2>7, <2>8 DEF RequestFits, Creating, Editing, At
    <2> QED BY <1>1, <1>2, <1>3, <1>4, <2>4, <2>7, <2>9, RequestKeeps
<1> QED BY <1>5, <1>6

LEMMA CreateLookupKeeps ==
    ASSUME RowsInv, NEW r \in Request, NEW cs \in {{}, Channel}, CreateLookup(r, cs) PROVE RowsInv'
<1>1. RowsOK /\ GhostsOK
    BY DEF RowsInv
<1>2. PICK code \in Coding : Fits(code)
    BY DEF RowsInv
<1>3. UNCHANGED <<url, channel, records, visits, metadata, served, job, mix, recoded, version, failures>>
    BY DEF CreateLookup, Tables, Caches, ghosts, overridden
<1>4. failures' \in Nat /\ failures' >= failures
    BY <1>1, <1>3 DEF GhostsOK
<1>5. PICK p \in RequestState : p = req[r]
    BY <1>1 DEF RowsOK, Typed
<1>6. RequestFits(code, r) /\ Creating(r)
    BY <1>2 DEF Fits, CreateLookup, At, Creating
<1>7. PICK row \in Row : row = p.row
    BY <1>5, <1>6 DEF RequestFits
<1> DEFINE new == [row EXCEPT !.meta = metadata, !.channels = cs \cap channel]
           q == [p EXCEPT !.pc = "insert", !.row = new]
<1>8. req' = [req EXCEPT ![r] = q] /\ mix[r] = "create" /\ p.pc = "lookup"
    BY <1>5, <1>7 DEF CreateLookup, At, GoOn
<1>9. new \in Row /\ new.alias = row.alias /\ new.seen = row.seen
    BY <1>1 DEF Row, RowsOK, Typed
<1> HIDE DEF new
<1>10. q \in RequestState /\ q.pc = "insert" /\ q.row = new
    BY <1>9 DEF RequestState
<1> HIDE DEF q
<1>11. req'[r] = q
    BY <1>1, <1>8 DEF RowsOK, Typed
<1>12. RequestFits(code, r)'
    BY <1>3, <1>5, <1>6, <1>7, <1>8, <1>9, <1>10, <1>11 DEF RequestFits, Creating, Editing, At
<1> QED BY <1>1, <1>2, <1>3, <1>4, <1>8, <1>10, <1>12, RequestKeeps

LEMMA EditedIs ==
    ASSUME NEW row \in Row, NEW edit \in Edit
    PROVE  /\ Edited(row, edit) \in Row /\ Edited(row, edit).seen = row.seen
           /\ Edited(row, edit).alias = IF "alias" \in edit.sets THEN edit.to.alias ELSE row.alias
           /\ "code" \notin edit.sets => Edited(row, edit).code = row.code
           /\ Edited(row, edit).clicks = row.clicks /\ Edited(row, edit).uniques = row.uniques
           /\ Edited(row, edit).impressions = row.impressions
<1>1. edit.to \in Row
    BY DEF Edit
<1>2. PICK c \in Slug : c = IF "code" \in edit.sets THEN edit.to.code ELSE row.code
    BY <1>1, RowIs
<1>3. PICK a \in Slug \cup {NoSlug} : a = IF "alias" \in edit.sets THEN edit.to.alias ELSE row.alias
    BY <1>1, RowIs
<1> DEFINE Given(field) == IF field \in edit.sets THEN edit.to[field] ELSE row[field]
<1>4. /\ Given("archived") \in BOOLEAN /\ Given("private") \in BOOLEAN /\ Given("splash") \in BOOLEAN
      /\ Given("protected") \in BOOLEAN /\ Given("limit") \in 0..1 /\ Given("meta") \in BOOLEAN
    BY <1>1 DEF Row
<1>5. Edited(row, edit) = [row EXCEPT !.code = c, !.alias = a, !.archived = Given("archived"),
        !.private = Given("private"), !.splash = Given("splash"), !.protected = Given("protected"),
        !.limit = Given("limit"), !.meta = Given("meta")]
    BY <1>2, <1>3 DEF Edited
<1> HIDE DEF Given
<1>6. PICK next : next = Edited(row, edit)
    OBVIOUS
<1>7. next \in Row /\ next.seen = row.seen /\ next.alias = a /\ next.code = c
    BY <1>4, <1>5, <1>6 DEF Row
<1>8. next.clicks = row.clicks /\ next.uniques = row.uniques /\ next.impressions = row.impressions
    BY <1>4, <1>5, <1>6 DEF Row
<1> QED BY <1>2, <1>3, <1>6, <1>7, <1>8

LEMMA MergedIs ==
    ASSUME NEW row \in Row, NEW edit \in Edit
    PROVE  /\ Merged(row, edit) \in Row /\ Merged(row, edit).seen = row.seen
           /\ Merged(row, edit).alias = IF "alias" \in edit.sets THEN edit.to.alias ELSE row.alias
           /\ "code" \notin edit.sets => Merged(row, edit).code = row.code
<1>1. PICK mid \in Row : mid = Edited(row, edit)
    BY EditedIs
<1>2. PICK n \in Nat : n = IF "uniques" \in edit.sets THEN edit.to.uniques ELSE mid.uniques
    BY RowIs DEF Edit
<1>3. Merged(row, edit) = [mid EXCEPT !.uniques = n]
    BY <1>1, <1>2 DEF Merged
<1>4. /\ [mid EXCEPT !.uniques = n] \in Row /\ [mid EXCEPT !.uniques = n].seen = mid.seen
      /\ [mid EXCEPT !.uniques = n].alias = mid.alias /\ [mid EXCEPT !.uniques = n].code = mid.code
    BY DEF Row
<1> QED BY <1>1, <1>3, <1>4, EditedIs

LEMMA UpdateLoadKeeps ==
    ASSUME RowsInv, NEW r \in Request, NEW u \in Url, NEW edit \in Edits, UpdateLoad(r, u, edit)
    PROVE  RowsInv'
<1>1. RowsOK /\ GhostsOK
    BY DEF RowsInv
<1>2. PICK code \in Coding : Fits(code)
    BY DEF RowsInv
<1>3. UNCHANGED <<url, channel, records, visits, metadata, served, job, mix, recoded, version, failures>>
    BY DEF UpdateLoad, Tables, Caches, ghosts, overridden
<1>4. failures' \in Nat /\ failures' >= failures
    BY <1>1, <1>3 DEF GhostsOK
<1>5. CASE Done(r)
    BY <1>3, <1>4, <1>5, DoneKeeps
<1>6. CASE ~Done(r)
    <2>1. PICK p \in RequestState : p = req[r]
        BY <1>1 DEF RowsOK, Typed
    <2>2. RequestFits(code, r) /\ RowsFit(code)
        BY <1>2 DEF Fits
    <2>3. u \in Exists /\ mix[r] = "update" /\ p.pc = "start"
        BY <1>6, <2>1 DEF UpdateLoad, At
    <2>4. PICK row \in Row : row = url[u]
        BY <1>1, <2>3, ExistsIs DEF RowsOK
    <2>5. PICK n \in Nat : n = version[u]
        BY <1>1 DEF GhostsOK
    <2> DEFINE asks == "alias" \in edit.sets /\ edit.to.alias # NoSlug
               q == [p EXCEPT !.pc = IF asks THEN "alias" ELSE "save",
                              !.u = u, !.row = row, !.edit = edit, !.version = n]
    <2>6. req' = [req EXCEPT ![r] = q]
        BY <1>6, <2>1, <2>4, <2>5 DEF UpdateLoad
    <2>12. edit \in Edit
        BY EditsAssumption
    <2>7. q \in RequestState /\ q.u = u /\ q.row = row /\ q.edit = edit /\ q.pc = IF asks THEN "alias" ELSE "save"
        BY <2>12 DEF RequestState
    <2> HIDE DEF q
    <2>8. req'[r] = q
        BY <1>1, <2>6 DEF RowsOK, Typed
    <2>9. ~asks => Merged(row, edit).alias \in {row.alias, NoSlug}
        BY MergedIs, <2>12
    <2>10. Coded(code, u, row, recoded) /\ Checked(code, row.alias, row.seen \ recoded)
        BY <2>2, <2>3, <2>4 DEF RowsFit
    <2>13. ~asks => Checked(code, Merged(row, edit).alias, row.seen \ recoded)
        BY <2>9, <2>10 DEF Checked
    <2>11. RequestFits(code, r)'
        BY <1>3, <2>1, <2>2, <2>3, <2>7, <2>8, <2>10, <2>12, <2>13 DEF RequestFits, Creating, Editing, At
    <2> QED BY <1>1, <1>2, <1>3, <1>4, <2>3, <2>6, <2>7, <2>11, RequestKeeps
<1> QED BY <1>5, <1>6

LEMMA UpdateAliasKeeps == ASSUME RowsInv, NEW r \in Request, UpdateAlias(r) PROVE RowsInv'
<1>1. RowsOK /\ GhostsOK
    BY DEF RowsInv
<1>2. PICK code \in Coding : Fits(code)
    BY DEF RowsInv
<1>3. UNCHANGED <<url, channel, records, visits, metadata, served, job, mix, recoded, version, failures>>
    BY DEF UpdateAlias, Tables, Caches, ghosts, overridden
<1>4. failures' \in Nat /\ failures' >= failures
    BY <1>1, <1>3 DEF GhostsOK
<1>5. CASE Done(r)
    BY <1>3, <1>4, <1>5, DoneKeeps
<1>6. CASE ~Done(r)
    <2>1. PICK p \in RequestState : p = req[r]
        BY <1>1 DEF RowsOK, Typed
    <2>2. RequestFits(code, r) /\ RowsFit(code) /\ Editing(r)
        BY <1>2 DEF Fits, UpdateAlias, At, Editing
    <2>3. PICK row \in Row : row = p.row
        BY <2>1, <2>2 DEF RequestFits
    <2>11. PICK edit \in Edit : edit = p.edit
        BY <2>1, <2>2 DEF RequestFits
    <2> DEFINE new == [row EXCEPT !.seen = Exists]
               q == [p EXCEPT !.pc = "save", !.row = new]
    <2>4. req' = [req EXCEPT ![r] = q] /\ mix[r] = "update" /\ p.pc = "alias" /\ ~AliasTaken(p.edit.to.alias)
        BY <1>6, <2>1, <2>3 DEF UpdateAlias, At, GoOn
    <2>5. new \in Row /\ new.code = row.code /\ new.seen = Exists
        BY DEF Row, Exists
    <2>6. Checked(code, edit.to.alias, Exists \ recoded)
        <3>1. ASSUME NEW v \in Exists \ recoded PROVE code[v] # edit.to.alias /\ code[v] \in Slug
            BY <3>1, <1>1, <2>2, <2>4, <2>11, ExistsIs, RowIs DEF RowsOK, AliasTaken, Codes, RowsFit, Coded, Exists
        <3> QED BY <3>1, UrlsAssumption DEF Checked
    <2>7. Merged(new, edit).alias = edit.to.alias
        BY <2>1, <2>2, <2>4, <2>5, <2>11, MergedIs DEF RequestFits
    <2> HIDE DEF new
    <2>8. q \in RequestState /\ q.pc = "save" /\ q.row = new /\ q.u = p.u /\ q.edit = edit
        BY <2>11, <2>5 DEF RequestState
    <2> HIDE DEF q
    <2>9. req'[r] = q
        BY <1>1, <2>4 DEF RowsOK, Typed
    <2>10. RequestFits(code, r)'
        BY <1>3, <2>1, <2>2, <2>3, <2>4, <2>5, <2>6, <2>7, <2>8, <2>9, <2>11 DEF RequestFits, Creating, Editing, At, Coded
    <2> QED BY <1>1, <1>2, <1>3, <1>4, <2>4, <2>8, <2>10, RequestKeeps
<1> QED BY <1>5, <1>6

LEMMA AttachKeeps ==
    ASSUME RowsInv, NEW r \in Request, NEW c \in Channel, NEW u \in Url, Attach(r, c, u) PROVE RowsInv'
<1>1. RowsOK /\ GhostsOK
    BY DEF RowsInv
<1>2. PICK code \in Coding : Fits(code)
    BY DEF RowsInv
<1>3. UNCHANGED <<url, channel, records, visits, metadata, served, job, mix, recoded, version, failures>>
    BY DEF Attach, Tables, Caches, ghosts, overridden
<1>4. failures' \in Nat /\ failures' >= failures
    BY <1>1, <1>3 DEF GhostsOK
<1>5. CASE Done(r)
    BY <1>3, <1>4, <1>5, DoneKeeps
<1>6. CASE ~Done(r)
    <2>1. PICK p \in RequestState : p = req[r]
        BY <1>1 DEF RowsOK, Typed
    <2> DEFINE q == [p EXCEPT !.pc = "add", !.u = u]
    <2>2. req' = [req EXCEPT ![r] = q] /\ mix[r] = "attach" /\ p.pc = "start"
        BY <1>6, <2>1 DEF Attach, At
    <2>3. q \in RequestState /\ q.pc = "add" /\ q.u = u
        BY DEF RequestState
    <2> HIDE DEF q
    <2>4. RequestFits(code, r) /\ req'[r] = q
        BY <1>1, <1>2, <2>2 DEF Fits, RowsOK, Typed
    <2>5. RequestFits(code, r)'
        BY <1>3, <2>1, <2>2, <2>3, <2>4 DEF RequestFits, Creating, Editing, At
    <2> QED BY <1>1, <1>2, <1>3, <1>4, <2>2, <2>3, <2>5, RequestKeeps
<1> QED BY <1>5, <1>6

LEMMA RequestFailsKeeps == ASSUME RowsInv, NEW r \in Request, RequestFails(r) PROVE RowsInv'
<1>1. GhostsOK
    BY DEF RowsInv
<1>2. UNCHANGED <<url, channel, records, visits, metadata, served, job, mix, recoded, version>> /\ Done(r)
    BY DEF RequestFails, Tables, Caches, ghosts, overridden
<1>3. failures' \in Nat /\ failures' >= failures
    BY <1>1 DEF RequestFails, GhostsOK
<1> QED BY <1>2, <1>3, DoneKeeps

LEMMA DayEndsKeeps == ASSUME RowsInv, DayEnds PROVE RowsInv'
<1>1. RowsOK /\ GhostsOK
    BY DEF RowsInv
<1>2. PICK code \in Coding : Fits(code)
    BY DEF RowsInv
<1>3. UNCHANGED <<url, channel, records, metadata, served, req, job, mix, recoded, version, failures>> /\ visits' = {}
    BY DEF DayEnds, Tables, ghosts, overridden
<1>4. RowsOK' /\ GhostsOK'
    <2>1. Typed'
        BY <1>1, <1>3 DEF RowsOK, Typed
    <2> QED BY <1>1, <1>3, <2>1, TablesStill DEF GhostsOK
<1>5. Fits(code)'
    BY <1>2, <1>3, FitsStill
<1> QED BY <1>4, <1>5 DEF RowsInv

-----------------------------------------------------------------------------
(* Jobs that write no table. *)

\* A job that is over, or back in its queue.
LEMMA FinishedFits ==
    ASSUME RowsOK, NEW code, NEW r \in Request, Fits(code), job[r].pc \notin {"none", "failed"},
           NEW j \in JobState, NEW pc \in {"waiting", "completed", "failed"}, NEW n \in Nat,
           j = [Finished(job[r], pc) EXCEPT !.tries = n], pc # "failed" => n < MaxAttempts,
           job' = [job EXCEPT ![r] = j]
    PROVE  JobFits(code, r)'
<1>1. job[r] \in JobState /\ JobFits(code, r) /\ job'[r] = j
    BY DEF Fits, RowsOK, Typed
<1>2. j.pc = pc /\ j.tries = n /\ j.queue = job[r].queue /\ j.slug = job[r].slug /\ j.row = NoRow /\ ~j.unique
      /\ j.u = job[r].u
    BY <1>1, FinishedIs DEF JobState
<1>3. j.pc # "failed" => j.tries < MaxAttempts
    BY <1>2
<1> QED BY <1>1, <1>2, <1>3 DEF JobFits, Holding

LEMMA AttemptFails ==
    ASSUME RowsOK, NEW code, NEW r \in Request, Fits(code), AttemptFailed(r), job[r].pc \notin {"none", "failed"}
    PROVE  \E j \in JobState :
            /\ job' = [job EXCEPT ![r] = j] /\ j.pc \in {"waiting", "failed"} /\ j.tries = job[r].tries + 1
            /\ j.slug = job[r].slug /\ j.ip = job[r].ip /\ j.queue = job[r].queue /\ j.row = NoRow
            /\ JobFits(code, r)'
<1>1. PICK i \in JobState : i = job[r]
    BY DEF RowsOK, Typed
<1>2. i.tries < MaxAttempts /\ i.tries \in Nat
    BY <1>1, JobFits(code, r) DEF Fits, JobFits, JobState
<1>3. PICK pc : pc = IF i.tries + 1 = MaxAttempts THEN "failed" ELSE "waiting"
    OBVIOUS
<1>4. pc \in {"waiting", "failed"} /\ (pc # "failed" => i.tries + 1 < MaxAttempts)
    BY <1>2, <1>3, UrlsAssumption
<1>5. PICK f \in JobState : f = Finished(i, pc)
    BY <1>4, FinishedIs
<1>6. f.pc = pc /\ f.slug = i.slug /\ f.ip = i.ip /\ f.queue = i.queue /\ f.row = NoRow
    BY <1>4, <1>5, FinishedIs
<1> DEFINE j == [f EXCEPT !.tries = i.tries + 1]
<1>7. job' = [job EXCEPT ![r] = j]
    BY <1>1, <1>3, <1>5 DEF AttemptFailed
<1>8. /\ j \in JobState /\ j.pc = f.pc /\ j.slug = f.slug /\ j.ip = f.ip /\ j.queue = f.queue /\ j.row = f.row
      /\ j.tries = i.tries + 1
    <2>1. i.tries + 1 \in 0..MaxAttempts
        BY <1>2, UrlsAssumption
    <2> QED BY <2>1 DEF JobState
<1>9. j = [Finished(job[r], pc) EXCEPT !.tries = i.tries + 1]
    BY <1>1, <1>5
<1> HIDE DEF j
<1>10. JobFits(code, r)'
    BY <1>1, <1>2, <1>4, <1>7, <1>8, <1>9, FinishedFits, i.tries + 1 \in Nat
<1> QED BY <1>1, <1>4, <1>6, <1>7, <1>8, <1>10

LEMMA AttemptFailedKeeps ==
    ASSUME RowsInv, NEW r \in Request, AttemptFailed(r), job[r].pc \notin {"none", "failed"} \cup Recorded,
           UNCHANGED <<url, channel, records, visits, metadata, served, req, mix, recoded, version, failures>>
    PROVE  RowsInv'
<1>1. RowsOK /\ GhostsOK
    BY DEF RowsInv
<1>2. PICK code \in Coding : Fits(code)
    BY DEF RowsInv
<1>3. PICK j \in JobState :
            /\ job' = [job EXCEPT ![r] = j] /\ j.pc \in {"waiting", "failed"} /\ j.tries = job[r].tries + 1
            /\ j.slug = job[r].slug /\ j.ip = job[r].ip /\ j.queue = job[r].queue /\ j.row = NoRow
            /\ JobFits(code, r)'
    BY <1>1, <1>2, AttemptFails
<1>4. job[r].tries \in Nat
    BY <1>1 DEF RowsOK, Typed, JobState
<1>5. j.tries = 0 \/ failures' = 0 => Alive(r) /\ (job[r].pc \in Recorded => j.pc \in Recorded)
    BY <1>3, <1>4 DEF Alive
<1>6. failures' \in Nat /\ failures' >= failures /\ visits' \subseteq Hash /\ metadata' \in BOOLEAN
    BY <1>1 DEF GhostsOK, RowsOK, Typed
<1> QED BY <1>1, <1>2, <1>3, <1>5, <1>6, JobKeeps

LEMMA WorkerFailsKeeps == ASSUME RowsInv, NEW r \in Request, WorkerFails(r) PROVE RowsInv'
<1>1. RowsOK /\ GhostsOK
    BY DEF RowsInv
<1>2. PICK code \in Coding : Fits(code)
    BY DEF RowsInv
<1>3. /\ UNCHANGED <<url, channel, records, visits, metadata, served, req, mix, recoded, version>>
      /\ AttemptFailed(r) /\ job[r].pc \notin {"none", "failed"} /\ failures' = failures + 1
    BY DEF WorkerFails, Tables, Caches, overridden
<1>4. PICK j \in JobState :
            /\ job' = [job EXCEPT ![r] = j] /\ j.pc \in {"waiting", "failed"} /\ j.tries = job[r].tries + 1
            /\ j.slug = job[r].slug /\ j.ip = job[r].ip /\ j.queue = job[r].queue /\ j.row = NoRow
            /\ JobFits(code, r)'
    BY <1>1, <1>2, <1>3, AttemptFails
<1>5. job[r].tries \in Nat
    BY <1>1 DEF RowsOK, Typed, JobState
<1>6. ~(j.tries = 0 \/ failures' = 0)
    BY <1>1, <1>3, <1>4, <1>5 DEF GhostsOK
<1>7. failures' \in Nat /\ failures' >= failures /\ visits' \subseteq Hash /\ metadata' \in BOOLEAN
    BY <1>1, <1>3 DEF GhostsOK, RowsOK, Typed
<1> QED BY <1>1, <1>2, <1>3, <1>4, <1>6, <1>7, JobKeeps

\* A job goes on as j, with the row in hand, one that it reads, or none.
Proceeds(r, j) ==
    /\ job' = [job EXCEPT ![r] = j] /\ j \in JobState
    /\ j.pc \notin {"none", "failed"} /\ job[r].pc \notin {"none", "failed"}
    /\ job[r].pc \in Recorded => j.pc \in Recorded
    /\ j.slug = job[r].slug /\ j.ip = job[r].ip /\ j.queue = job[r].queue /\ j.tries = job[r].tries
    /\ j.queue = "analytic" /\ j.pc \in Holding => j.row # NoRow /\ j.row.code = j.slug
    /\ j.queue = "metadata" => j.u = job[r].u /\ (j.pc = "save" => j.row # NoRow)
    /\ \/ j.row = NoRow
       \/ j.row = job[r].row /\ j.u = job[r].u
       \/ j.u \in Exists /\ j.row = url[j.u]
    /\ j.unique => j.type = "CLICK"

LEMMA GoesOn ==
    ASSUME RowsInv, NEW r \in Request, NEW j, Proceeds(r, j),
           UNCHANGED <<url, channel, records, served, req, mix, recoded, version, failures>>,
           visits' \subseteq Hash, metadata' \in BOOLEAN
    PROVE  RowsInv'
<1> USE DEF Proceeds
<1>1. RowsOK /\ GhostsOK
    BY DEF RowsInv
<1>2. PICK code \in Coding : Fits(code)
    BY DEF RowsInv
<1>3. JobFits(code, r) /\ RowsFit(code) /\ job'[r] = j
    BY <1>1, <1>2 DEF Fits, RowsOK, Typed
<1>4. j.row # NoRow =>
        Coded(code, j.u, j.row, recoded) /\ Checked(code, j.row.alias, j.row.seen \ recoded)
    BY <1>3 DEF JobFits, RowsFit
<1>5. JobFits(code, r)'
    BY <1>3, <1>4 DEF JobFits
<1>6. j.tries = 0 \/ failures' = 0 => Alive(r) /\ (job[r].pc \in Recorded => j.pc \in Recorded)
    BY DEF Alive
<1>7. failures' \in Nat /\ failures' >= failures
    BY <1>1 DEF GhostsOK
<1> QED BY <1>1, <1>2, <1>5, <1>6, <1>7, JobKeeps

LEMMA TakeVisitKeeps == ASSUME RowsInv, NEW r \in Request, TakeVisit(r) PROVE RowsInv'
<1>1. RowsOK
    BY DEF RowsInv
<1>2. UNCHANGED <<url, channel, records, visits, metadata, served, req, mix, recoded, version, failures>>
    BY DEF TakeVisit, Tables, Caches, ghosts, overridden
<1>3. CASE AttemptFailed(r)
    BY <1>2, <1>3, AttemptFailedKeeps DEF TakeVisit, Runs, Recorded
<1>4. CASE ~AttemptFailed(r)
    <2>1. PICK i \in JobState : i = job[r]
        BY <1>1 DEF RowsOK, Typed
    <2>2. PICK u \in Exists : /\ url[u].code = i.slug
                              /\ job' = [job EXCEPT ![r] =
                                    [i EXCEPT !.pc = "identity", !.u = u, !.row = url[u], !.version = version[u]]]
        BY <1>4, <2>1 DEF TakeVisit
    <2>3. PICK row \in Row : row = url[u]
        BY <1>1, ExistsIs DEF RowsOK, Exists
    <2>4. PICK n \in Nat : n = version[u]
        BY DEF RowsInv, GhostsOK, Exists
    <2> DEFINE j == [i EXCEPT !.pc = "identity", !.u = u, !.row = row, !.version = n]
    <2>5. job' = [job EXCEPT ![r] = j]
        BY <2>2, <2>3, <2>4
    <2>6. /\ j \in JobState /\ j.pc = "identity" /\ j.u = u /\ j.row = row /\ j.slug = i.slug /\ j.ip = i.ip
          /\ j.queue = i.queue /\ j.tries = i.tries /\ j.unique = i.unique /\ j.type = i.type
        BY DEF JobState, Exists
    <2> HIDE DEF j
    <2>7. i.pc = "waiting" /\ i.queue = "analytic"
        BY <2>1 DEF TakeVisit, Runs
    <2>8. i.unique => i.type = "CLICK"
        BY <2>1 DEF RowsInv, Fits, JobFits
    <2>9. visits' \subseteq Hash /\ metadata' \in BOOLEAN /\ row # NoRow
        BY <1>1, <1>2, RowIs DEF RowsOK, Typed
    <2>20. Proceeds(r, j)
        <3>1. row.code = i.slug
            BY <2>2, <2>3
        <3> QED BY <2>1, <2>3, <2>5, <2>6, <2>7, <2>8, <2>9, <3>1 DEF Recorded, Proceeds
    <2> QED BY <1>2, <2>9, <2>20, GoesOn
<1> QED BY <1>3, <1>4

LEMMA FindIdentityKeeps == ASSUME RowsInv, NEW r \in Request, FindIdentity(r) PROVE RowsInv'
<1>1. RowsOK
    BY DEF RowsInv
<1>2. UNCHANGED <<url, channel, records, visits, metadata, served, req, mix, recoded, version, failures>>
    BY DEF FindIdentity, Tables, Caches, ghosts, overridden
<1>3. PICK i \in JobState : i = job[r]
    BY <1>1 DEF RowsOK, Typed
<1>4. i.pc = "identity" /\ i.queue = "analytic"
    BY <1>3 DEF FindIdentity, Runs
<1>5. (i.unique => i.type = "CLICK") /\ i.row # NoRow /\ i.row.code = i.slug
    BY <1>3, <1>4 DEF RowsInv, Fits, JobFits, Holding
<1>6. visits' \subseteq Hash /\ metadata' \in BOOLEAN
    BY <1>1, <1>2 DEF RowsOK, Typed
<1>7. CASE i.type = "CLICK" /\ job' = [job EXCEPT ![r] = [i EXCEPT !.pc = "record", !.unique = TRUE]]
    <2> DEFINE j == [i EXCEPT !.pc = "record", !.unique = TRUE]
    <2>1. job' = [job EXCEPT ![r] = j]
        BY <1>7
    <2>2. /\ j \in JobState /\ j.pc = "record" /\ j.u = i.u /\ j.row = i.row /\ j.slug = i.slug /\ j.ip = i.ip
          /\ j.queue = i.queue /\ j.tries = i.tries /\ j.type = i.type
        BY DEF JobState
    <2> HIDE DEF j
    <2>20. Proceeds(r, j)
        BY <1>2, <1>3, <1>4, <1>5, <1>6, <1>7, <2>1, <2>2 DEF Recorded, Holding, Proceeds
    <2> QED BY <1>2, <1>6, <2>20, GoesOn
<1>8. CASE job' = [job EXCEPT ![r] = [i EXCEPT !.pc = "cache"]]
    <2> DEFINE j == [i EXCEPT !.pc = "cache"]
    <2>1. job' = [job EXCEPT ![r] = j]
        BY <1>8
    <2>2. /\ j \in JobState /\ j.pc = "cache" /\ j.u = i.u /\ j.row = i.row /\ j.slug = i.slug /\ j.ip = i.ip
          /\ j.queue = i.queue /\ j.tries = i.tries /\ j.type = i.type /\ j.unique = i.unique
        BY DEF JobState
    <2> HIDE DEF j
    <2>20. Proceeds(r, j)
        BY <1>2, <1>3, <1>4, <1>5, <1>6, <2>1, <2>2 DEF Recorded, Holding, Proceeds
    <2> QED BY <1>2, <1>6, <2>20, GoesOn
<1> QED BY <1>3, <1>7, <1>8 DEF FindIdentity

LEMMA CachedVisitKeeps == ASSUME RowsInv, NEW r \in Request, CachedVisit(r) PROVE RowsInv'
<1>1. RowsOK
    BY DEF RowsInv
<1>2. UNCHANGED <<url, channel, records, visits, metadata, served, req, mix, recoded, version, failures>>
    BY DEF CachedVisit, Tables, Caches, ghosts, overridden
<1>3. PICK i \in JobState : i = job[r]
    BY <1>1 DEF RowsOK, Typed
<1>4. i.pc = "cache" /\ i.queue = "analytic"
    BY <1>3 DEF CachedVisit, Runs
<1>5. (i.unique => i.type = "CLICK") /\ i.row # NoRow /\ i.row.code = i.slug
    BY <1>3, <1>4 DEF RowsInv, Fits, JobFits, Holding
<1>6. visits' \subseteq Hash /\ metadata' \in BOOLEAN
    BY <1>1, <1>2 DEF RowsOK, Typed
<1>7. CASE job' = [job EXCEPT ![r] = Finished(i, "completed")]
    <2>1. PICK j \in JobState : j = Finished(i, "completed")
        BY FinishedIs
    <2>2. /\ j.pc = "completed" /\ j.row = NoRow /\ j.slug = i.slug /\ j.ip = i.ip
          /\ j.queue = i.queue /\ j.tries = i.tries /\ ~j.unique
        BY <2>1, FinishedIs
    <2>20. Proceeds(r, j)
        BY <1>2, <1>3, <1>4, <1>6, <1>7, <2>1, <2>2 DEF Recorded, Holding, Proceeds
    <2> QED BY <1>2, <1>6, <2>20, GoesOn
<1>8. CASE Step(r, "record")
    <2> DEFINE j == [i EXCEPT !.pc = "record"]
    <2>1. job' = [job EXCEPT ![r] = j]
        BY <1>1, <1>3, <1>8 DEF Step, RowsOK, Typed, JobState
    <2>2. /\ j \in JobState /\ j.pc = "record" /\ j.u = i.u /\ j.row = i.row /\ j.slug = i.slug /\ j.ip = i.ip
          /\ j.queue = i.queue /\ j.tries = i.tries /\ j.type = i.type /\ j.unique = i.unique
        BY DEF JobState
    <2> HIDE DEF j
    <2>20. Proceeds(r, j)
        BY <1>2, <1>3, <1>4, <1>5, <1>6, <2>1, <2>2 DEF Recorded, Holding, Proceeds
    <2> QED BY <1>2, <1>6, <2>20, GoesOn
<1> QED BY <1>3, <1>7, <1>8 DEF CachedVisit

LEMMA FinishKeeps == ASSUME RowsInv, NEW r \in Request, Finish(r) PROVE RowsInv'
<1>1. RowsOK
    BY DEF RowsInv
<1>2. UNCHANGED <<url, channel, records, metadata, served, req, mix, recoded, version, failures>>
    BY DEF Finish, Tables, ghosts, overridden
<1>3. PICK i \in JobState : i = job[r]
    BY <1>1 DEF RowsOK, Typed
<1>4. i.pc = "finish" /\ (i.queue = "analytic" => i.slug \in Slug)
    BY <1>3 DEF Finish, RowsInv, Fits, JobFits
<1>5. visits' \subseteq Hash /\ metadata' \in BOOLEAN
    <2>1. i.queue = "analytic" => VisitHash(i.slug, i.ip) \in Hash
        BY <1>4 DEF VisitHash, Hash, JobState
    <2> QED BY <1>1, <1>2, <1>3, <2>1 DEF RowsOK, Typed, Finish
<1>6. PICK j \in JobState : j = Finished(i, "completed")
    BY FinishedIs
<1>7. /\ j.pc = "completed" /\ j.row = NoRow /\ j.slug = i.slug /\ j.ip = i.ip
      /\ j.queue = i.queue /\ j.tries = i.tries /\ j.u = i.u /\ ~j.unique
    BY <1>6, FinishedIs
<1>8. job' = [job EXCEPT ![r] = j]
    BY <1>3, <1>6 DEF Finish
<1>9. Proceeds(r, j)
    BY <1>3, <1>4, <1>7, <1>8 DEF Proceeds, Recorded, Holding
<1> QED BY <1>2, <1>5, <1>9, GoesOn

LEMMA TakeMetadataKeeps == ASSUME RowsInv, NEW r \in Request, TakeMetadata(r) PROVE RowsInv'
<1>1. RowsOK
    BY DEF RowsInv
<1>2. UNCHANGED <<url, channel, records, visits, metadata, served, req, mix, recoded, version, failures>>
    BY DEF TakeMetadata, Tables, Caches, ghosts, overridden
<1>3. CASE AttemptFailed(r)
    BY <1>2, <1>3, AttemptFailedKeeps DEF TakeMetadata, Runs, Recorded
<1>4. CASE Step(r, "fetch")
    <2>1. PICK i \in JobState : i = job[r]
        BY <1>1 DEF RowsOK, Typed
    <2>2. i.pc = "waiting" /\ i.queue = "metadata" /\ (i.unique => i.type = "CLICK")
        BY <2>1 DEF TakeMetadata, Runs, RowsInv, Fits, JobFits
    <2> DEFINE j == [i EXCEPT !.pc = "fetch"]
    <2>3. job' = [job EXCEPT ![r] = j]
        BY <1>1, <1>4, <2>1 DEF Step, RowsOK, Typed, JobState
    <2>4. /\ j \in JobState /\ j.pc = "fetch" /\ j.u = i.u /\ j.row = i.row /\ j.slug = i.slug /\ j.ip = i.ip
          /\ j.queue = i.queue /\ j.tries = i.tries /\ j.type = i.type /\ j.unique = i.unique
        BY DEF JobState
    <2> HIDE DEF j
    <2>5. Proceeds(r, j)
        BY <2>1, <2>2, <2>3, <2>4 DEF Proceeds, Recorded
    <2>6. visits' \subseteq Hash /\ metadata' \in BOOLEAN
        BY <1>1, <1>2 DEF RowsOK, Typed
    <2> QED BY <1>2, <2>5, <2>6, GoesOn
<1> QED BY <1>3, <1>4 DEF TakeMetadata

LEMMA FetchKeeps == ASSUME RowsInv, NEW r \in Request, Fetch(r) PROVE RowsInv'
<1>1. RowsOK
    BY DEF RowsInv
<1>2. UNCHANGED <<url, channel, records, visits, served, req, mix, recoded, version, failures>>
    BY DEF Fetch, Tables, ghosts, overridden
<1>3. CASE AttemptFailed(r) /\ UNCHANGED metadata
    BY <1>2, <1>3, AttemptFailedKeeps DEF Fetch, Runs, Recorded
<1>4. CASE Step(r, "load") /\ metadata' = TRUE
    <2>1. PICK i \in JobState : i = job[r]
        BY <1>1 DEF RowsOK, Typed
    <2>2. i.pc = "fetch" /\ i.queue = "metadata" /\ (i.unique => i.type = "CLICK")
        BY <2>1 DEF Fetch, Runs, RowsInv, Fits, JobFits
    <2> DEFINE j == [i EXCEPT !.pc = "load"]
    <2>3. job' = [job EXCEPT ![r] = j]
        BY <1>1, <1>4, <2>1 DEF Step, RowsOK, Typed, JobState
    <2>4. /\ j \in JobState /\ j.pc = "load" /\ j.u = i.u /\ j.row = i.row /\ j.slug = i.slug /\ j.ip = i.ip
          /\ j.queue = i.queue /\ j.tries = i.tries /\ j.type = i.type /\ j.unique = i.unique
        BY DEF JobState
    <2> HIDE DEF j
    <2>5. Proceeds(r, j)
        BY <2>1, <2>2, <2>3, <2>4 DEF Proceeds, Recorded
    <2>6. visits' \subseteq Hash /\ metadata' \in BOOLEAN
        BY <1>1, <1>2, <1>4 DEF RowsOK, Typed
    <2> QED BY <1>2, <2>5, <2>6, GoesOn
<1> QED BY <1>3, <1>4 DEF Fetch

LEMMA LoadForMetadataKeeps == ASSUME RowsInv, NEW r \in Request, LoadForMetadata(r) PROVE RowsInv'
<1>1. RowsOK
    BY DEF RowsInv
<1>2. UNCHANGED <<url, channel, records, visits, metadata, served, req, mix, recoded, version, failures>>
    BY DEF LoadForMetadata, Tables, Caches, ghosts, overridden
<1>3. CASE AttemptFailed(r)
    BY <1>2, <1>3, AttemptFailedKeeps DEF LoadForMetadata, Runs, Recorded
<1>4. CASE ~AttemptFailed(r)
    <2>1. PICK i \in JobState : i = job[r]
        BY <1>1 DEF RowsOK, Typed
    <2>2. i.pc = "load" /\ i.queue = "metadata" /\ (i.unique => i.type = "CLICK") /\ i.u \in Exists
        BY <1>4, <2>1 DEF LoadForMetadata, Runs, RowsInv, Fits, JobFits
    <2>3. PICK row \in Row : row = url[i.u]
        BY <1>1, <2>2, ExistsIs DEF RowsOK, Exists
    <2>4. PICK n \in Nat : n = version[i.u]
        BY <2>2 DEF RowsInv, GhostsOK, Exists
    <2> DEFINE j == [i EXCEPT !.pc = "save", !.row = row, !.version = n]
    <2>5. job' = [job EXCEPT ![r] = j]
        BY <1>4, <2>1, <2>3, <2>4 DEF LoadForMetadata
    <2>6. /\ j \in JobState /\ j.pc = "save" /\ j.u = i.u /\ j.row = row /\ j.slug = i.slug /\ j.ip = i.ip
          /\ j.queue = i.queue /\ j.tries = i.tries /\ j.unique = i.unique /\ j.type = i.type
        BY DEF JobState
    <2> HIDE DEF j
    <2>7. visits' \subseteq Hash /\ metadata' \in BOOLEAN /\ row # NoRow
        BY <1>1, <1>2, RowIs DEF RowsOK, Typed
    <2>8. Proceeds(r, j)
        BY <2>1, <2>2, <2>3, <2>5, <2>6, <2>7 DEF Proceeds, Recorded
    <2> QED BY <1>2, <2>7, <2>8, GoesOn
<1> QED BY <1>3, <1>4

-----------------------------------------------------------------------------
(* Requests that put a job into a queue. *)

\* A visit of slug is queued for r, which is over.
LEMMA QueuedKeeps ==
    ASSUME RowsInv, NEW r \in Request, NEW slug \in Slug, NEW type \in {"CLICK", "IMPRESSION"},
           req[r].pc = "start", Done(r), Enqueue(r, Job(r, "analytic", slug, type, 1)),
           UNCHANGED <<url, channel, records, visits, metadata, mix, recoded, version, failures>>,
           served' \subseteq Slug
    PROVE  RowsInv'
<1>1. RowsOK /\ GhostsOK
    BY DEF RowsInv
<1>2. PICK code \in Coding : Fits(code)
    BY DEF RowsInv
<1>3. PICK j \in JobState : j = Job(r, "analytic", slug, type, 1)
    BY JobIs DEF Url
<1>4. /\ j.pc = "waiting" /\ j.queue = "analytic" /\ j.slug = slug /\ j.row = NoRow /\ ~j.unique
      /\ j.tries = 0
    BY <1>3 DEF Job
<1>5. PICK q \in RequestState : q = [Idle EXCEPT !.pc = "done"]
    BY IdleIs
<1>6. Moves(r, q, j) /\ q.pc = "done"
    BY <1>3, <1>5 DEF Moves, Done, Enqueue, Idle
<1>7. RequestFits(code, r)'
    BY <1>1, DoneFits
<1>8. JobFits(code, r)'
    <2>1. job'[r] = j
        BY <1>1, <1>6 DEF Moves, RowsOK, Typed
    <2> QED BY <1>4, <2>1, UrlsAssumption DEF JobFits, Holding
<1>9. \A a \in records : a.job # r
    BY <1>2 DEF Fits, RecordFits, RequestFits
<1>10. Quiet(r, q, j)
    BY <1>1, <1>6 DEF Quiet, GhostsOK, RowsOK, Typed
<1> QED BY <1>1, <1>2, <1>6, <1>7, <1>8, <1>9, <1>10, QuietKeeps

LEMMA VisitKeeps ==
    ASSUME RowsInv, NEW r \in Request, NEW slug \in Slug, NEW crawler \in BOOLEAN, Visit(r, slug, crawler)
    PROVE  RowsInv'
<1>1. UNCHANGED <<url, channel, records, visits, metadata, mix, recoded, version, failures>> /\ Done(r)
      /\ req[r].pc = "start"
    BY DEF Visit, Tables, ghosts, overridden, At
<1>2. failures' \in Nat /\ failures' >= failures /\ served \subseteq Slug
    BY <1>1 DEF RowsInv, GhostsOK, RowsOK, Typed
<1>3. CASE UNCHANGED <<job, served>>
    BY <1>1, <1>2, <1>3, DoneKeeps
<1>4. CASE Enqueue(r, Impression(r, slug)) /\ served' = served \cup {slug}
    BY <1>1, <1>2, <1>4, QueuedKeeps DEF Impression
<1>5. CASE Enqueue(r, Click(r, slug)) /\ UNCHANGED served
    BY <1>1, <1>2, <1>5, QueuedKeeps DEF Click
<1> QED BY <1>3, <1>4, <1>5 DEF Visit

LEMMA UnlockKeeps == ASSUME RowsInv, NEW r \in Request, NEW slug \in Slug, Unlock(r, slug) PROVE RowsInv'
<1>1. UNCHANGED <<url, channel, records, visits, metadata, served, mix, recoded, version, failures>> /\ Done(r)
      /\ req[r].pc = "start"
    BY DEF Unlock, Tables, Caches, ghosts, overridden, At
<1>2. failures' \in Nat /\ failures' >= failures /\ served \subseteq Slug
    BY <1>1 DEF RowsInv, GhostsOK, RowsOK, Typed
<1>3. CASE UNCHANGED job
    BY <1>1, <1>2, <1>3, DoneKeeps
<1>4. CASE Enqueue(r, Click(r, slug))
    BY <1>1, <1>2, <1>4, QueuedKeeps DEF Click
<1> QED BY <1>3, <1>4 DEF Unlock

LEMMA ConfirmKeeps == ASSUME RowsInv, NEW r \in Request, NEW slug \in Slug, Confirm(r, slug) PROVE RowsInv'
<1>1. UNCHANGED <<url, channel, records, visits, metadata, served, mix, recoded, version, failures>> /\ Done(r)
      /\ req[r].pc = "start"
    BY DEF Confirm, Tables, Caches, ghosts, overridden, At
<1>2. failures' \in Nat /\ failures' >= failures /\ served \subseteq Slug
    BY <1>1 DEF RowsInv, GhostsOK, RowsOK, Typed
<1>3. CASE UNCHANGED job
    BY <1>1, <1>2, <1>3, DoneKeeps
<1>4. CASE Enqueue(r, Click(r, slug))
    BY <1>1, <1>2, <1>4, QueuedKeeps DEF Click
<1> QED BY <1>3, <1>4 DEF Confirm

LEMMA CreateInsertKeeps == ASSUME RowsInv, NEW r \in Request, CreateInsert(r) PROVE RowsInv'
<1>1. RowsOK /\ GhostsOK
    BY DEF RowsInv
<1>2. PICK code \in Coding : Fits(code)
    BY DEF RowsInv
<1>3. UNCHANGED <<url, channel, records, visits, metadata, served, mix, recoded, version, failures>>
    BY DEF CreateInsert, Tables, Caches, ghosts, overridden
<1>4. failures' \in Nat /\ failures' >= failures
    BY <1>1, <1>3 DEF GhostsOK
<1>5. CASE Done(r) /\ UNCHANGED job
    BY <1>3, <1>4, <1>5, DoneKeeps
<1>6. CASE ~(Done(r) /\ UNCHANGED job)
    <2>1. PICK p \in RequestState : p = req[r]
        BY <1>1 DEF RowsOK, Typed
    <2> DEFINE q == [p EXCEPT !.pc = "commit"]
    <2>2. /\ mix[r] = "create" /\ p.pc = "insert" /\ ~Blocked(r, p.row) /\ ~Clash(r + 1, p.row)
          /\ p.row.channels \subseteq channel /\ Goto(r, "commit")
        BY <1>6, <2>1 DEF CreateInsert, At
    <2>3. req' = [req EXCEPT ![r] = q]
        BY <1>1, <2>1, <2>2 DEF Goto, RowsOK, Typed, RequestState
    <2>4. q \in RequestState /\ q.pc = "commit" /\ q.row = p.row
        BY DEF RequestState
    <2> HIDE DEF q
    <2>5. RequestFits(code, r) /\ JobFits(code, r) /\ job[r].pc = "none"
        BY <1>2, <2>1, <2>2 DEF Fits, RequestFits
    <2>6. PICK j \in JobState : job' = [job EXCEPT ![r] = j]
            /\ (j = job[r] \/ j = Job(r, "metadata", NoSlug, "CLICK", r + 1))
        <3>1. CASE UNCHANGED job
            BY <1>1, <3>1 DEF RowsOK, Typed
        <3>2. CASE Enqueue(r, Job(r, "metadata", NoSlug, "CLICK", r + 1))
            BY <3>2, JobIs, Numbers DEF Enqueue
        <3> QED BY <1>6, <3>1, <3>2 DEF CreateInsert
    <2>7. Moves(r, q, j) /\ req'[r] = q /\ job'[r] = j
        BY <1>1, <1>3, <2>3, <2>6 DEF Moves, RowsOK, Typed
    <2>8. Quiet(r, q, j)
        BY <1>1, <1>3, <1>4, <2>4, <2>7 DEF Quiet, RowsOK, Typed
    <2>9. RowsOK' /\ GhostsOK'
        BY <1>1, <2>8, QuietTypes
    <2>10. RequestFits(code, r)'
        BY <1>3, <2>1, <2>2, <2>4, <2>5, <2>7 DEF RequestFits, Creating, Editing, At
    <2>11. JobFits(code, r)'
        <3>1. CASE j = job[r]
            BY <1>3, <2>5, <2>7, <3>1 DEF JobFits
        <3>2. CASE j = Job(r, "metadata", NoSlug, "CLICK", r + 1)
            <4>1. j.queue = "metadata" /\ j.u = r + 1 /\ j.pc = "waiting" /\ j.row = NoRow /\ ~j.unique /\ j.tries = 0
                BY <3>2 DEF Job
            <4> QED BY <2>7, <4>1, UrlsAssumption DEF JobFits
        <3> QED BY <2>6, <3>1, <3>2
    <2>12. \A x \in Request : RequestFits(code, x)' /\ JobFits(code, x)'
        BY <1>1, <1>2, <2>7, <2>10, <2>11, OthersFit DEF Fits
    <2>13. \A a \in records' : RecordFits(code, a)'
        <3>1. \A a \in records : a.job # r
            BY <1>2, <2>5 DEF Fits, RecordFits
        <3> QED BY <1>1, <1>2, <1>3, <2>7, <2>9, <3>1, RecordsStill DEF Fits
    <2>14. ASSUME NEW x \in Request PROVE CommitFits(x)'
        <3>1. CommitFits(x) /\ mix' = mix /\ (x # r => req'[x] = req[x])
            BY <1>1, <1>2, <1>3, <2>3 DEF Fits, RowsOK, Typed
        <3>2. \A y \in Request : At(y, "create", "commit")' => y = r \/ (At(y, "create", "commit") /\ req'[y] = req[y])
            BY <1>1, <1>3, <2>3 DEF At, RowsOK, Typed
        <3>3. CASE x = r
            BY <1>3, <2>1, <2>2, <2>4, <2>7, <3>2, <3>3 DEF CommitFits, Clash, Blocked, Exists
        <3>4. CASE x # r
            <4>1. At(x, "create", "commit") => ~Blocked(x, req[x].row)'
                BY <2>1, <2>2, <2>4, <2>7, <3>1, <3>2, <3>4 DEF CommitFits, Blocked
            <4> QED BY <1>3, <3>1, <3>2, <3>4, <4>1 DEF CommitFits, Clash, Exists
        <3> QED BY <3>3, <3>4
    <2>15. RowsFit(code)'
        BY <1>2, <1>3, RowsStill DEF Fits
    <2> QED BY <2>9, <2>12, <2>13, <2>14, <2>15, FitIs
<1> QED BY <1>5, <1>6

-----------------------------------------------------------------------------
(* Writes that leave the names. *)

\* Each row there is after it was there before, with its code and alias.
NamesKept == \A u \in Exists' :
    /\ u \in Exists /\ url'[u].code = url[u].code /\ url'[u].alias = url[u].alias /\ url'[u].seen = url[u].seen
    /\ url'[u].channels \subseteq channel'

LEMMA NamesStill ==
    ASSUME RowsOK, Typed', NamesKept, HashesDiffer', RecordsOfRows', UNCHANGED recoded,
           NEW code, RowsFit(code)
    PROVE  RowsOK' /\ RowsFit(code)'
<1>1. NamesDiffer' /\ ChannelsExist'
    BY DEF RowsOK, NamesKept, NamesDiffer, ChannelsExist
<1>2. RowsFit(code)'
    BY DEF NamesKept, RowsFit, Coded
<1>3. RowsOK'
    BY <1>1 DEF RowsOK, Typed, NamesDiffer, HashesDiffer, RecordsOfRows, ChannelsExist, Exists
<1> QED BY <1>2, <1>3

LEMMA CommitsKept ==
    ASSUME RowsOK, NEW r \in Request, NEW q, NEW j, Moves(r, q, j), NamesKept,
           q = req[r] \/ (mix[r] = "create" => q.pc # "commit"),
           NEW x \in Request, CommitFits(x), At(x, "create", "commit") => req[x].row.channels \subseteq channel'
    PROVE  CommitFits(x)'
<1>1. \A y \in Request : At(y, "create", "commit")' => At(y, "create", "commit") /\ req'[y] = req[y]
    BY DEF At, Moves, RowsOK, Typed
<1>2. Blocked(x, req[x].row)' /\ At(x, "create", "commit")' => Blocked(x, req[x].row)
    BY <1>1 DEF Blocked
<1>3. Clash(x + 1, req[x].row)' /\ At(x, "create", "commit")' => Clash(x + 1, req[x].row)
    BY <1>1 DEF Clash, NamesKept
<1> QED BY <1>1, <1>2, <1>3 DEF CommitFits

LEMMA NamesKeep ==
    ASSUME RowsOK, NEW code \in Coding, Fits(code), NEW r \in Request, NEW q, NEW j, Moves(r, q, j), NamesKept,
           Typed', GhostsOK', HashesDiffer', RecordsOfRows', UNCHANGED recoded,
           q = req[r] \/ (mix[r] = "create" => q.pc # "commit"),
           \A x \in Request : At(x, "create", "commit") => req[x].row.channels \subseteq channel',
           RequestFits(code, r)', JobFits(code, r)', \A a \in records' : RecordFits(code, a)'
    PROVE  RowsInv'
<1>1. RowsOK' /\ RowsFit(code)'
    BY NamesStill DEF Fits
<1>2. \A x \in Request : RequestFits(code, x)' /\ JobFits(code, x)'
    BY OthersFit DEF Fits
<1>3. \A x \in Request : CommitFits(x)'
    BY CommitsKept DEF Fits
<1> QED BY <1>1, <1>2, <1>3, FitIs

LEMMA WroteIs == ASSUME GhostsOK, NEW u \in Url, Wrote(u)
                 PROVE  version' \in [Url -> Nat] /\ version' = [version EXCEPT ![u] = version[u] + 1]
<1>1. version[u] + 1 \in Nat
    BY DEF GhostsOK
<1> QED BY <1>1 DEF Wrote, GhostsOK

LEMMA CommitsChannels == ASSUME NEW code, Fits(code), NEW x \in Request, At(x, "create", "commit")
                         PROVE  req[x].row.channels \subseteq channel
BY DEF Fits, CommitFits

\* A statement of r, which is then over, and may delete records with their rows.
LEMMA StatementKeeps ==
    ASSUME RowsInv, NEW r \in Request, Done(r), UNCHANGED <<visits, metadata, served, job, mix, recoded, failures>>,
           NamesKept, url' \in [Url -> Row \cup {NoRow}], channel' \subseteq Channel, version' \in [Url -> Nat],
           records' \subseteq records, RecordsOfRows',
           \A x \in Request : At(x, "create", "commit") => req[x].row.channels \subseteq channel'
    PROVE  RowsInv'
<1>1. RowsOK /\ GhostsOK
    BY DEF RowsInv
<1>2. PICK code \in Coding : Fits(code)
    BY DEF RowsInv
<1>3. PICK q \in RequestState : q = [Idle EXCEPT !.pc = "done"]
    BY IdleIs
<1>4. Moves(r, q, job[r]) /\ q.pc = "done"
    BY <1>1, <1>3 DEF Moves, Done, Idle, RowsOK, Typed
<1>5. Typed' /\ GhostsOK'
    BY <1>1, <1>4 DEF Typed, GhostsOK, RowsOK, Moves
<1>6. HashesDiffer'
    BY <1>1 DEF RowsOK, HashesDiffer
<1>7. RequestFits(code, r)'
    BY <1>1, DoneFits
<1>8. JobFits(code, r)'
    BY <1>2 DEF Fits, JobFits
<1>9. \A a \in records' : RecordFits(code, a)'
    BY <1>2 DEF Fits, RecordFits, Alive
<1> QED BY <1>1, <1>2, <1>4, <1>5, <1>6, <1>7, <1>8, <1>9, NamesKeep

LEMMA BulkKeeps == ASSUME RowsInv, NEW r \in Request, NEW us \in SUBSET Url \ {{}}, Bulk(r, us) PROVE RowsInv'
<1>1. RowsOK /\ GhostsOK /\ Typed
    BY DEF RowsOK, RowsInv
<1>2. /\ UNCHANGED <<channel, records, visits, metadata, served, job, mix, recoded, failures>> /\ Done(r)
      /\ url' = [u \in Url |-> IF u \in us \cap Exists THEN [url[u] EXCEPT !.private = TRUE] ELSE url[u]]
      /\ version' = [u \in Url |-> version[u] + (IF u \in us \cap Exists THEN 1 ELSE 0)]
    BY DEF Bulk, Caches, overridden
<1>3. ASSUME NEW u \in Exists
      PROVE  /\ [url[u] EXCEPT !.private = TRUE] \in Row /\ [url[u] EXCEPT !.private = TRUE].code = url[u].code
             /\ [url[u] EXCEPT !.private = TRUE].alias = url[u].alias
             /\ [url[u] EXCEPT !.private = TRUE].seen = url[u].seen
             /\ [url[u] EXCEPT !.private = TRUE].channels = url[u].channels
    <2>1. url[u] \in Row
        BY <1>1, ExistsIs DEF Exists
    <2> QED BY <2>1 DEF Row
<1>4. url' \in [Url -> Row \cup {NoRow}] /\ version' \in [Url -> Nat]
    BY <1>1, <1>2, <1>3 DEF Typed, GhostsOK
<1>5. Exists' = Exists
    BY <1>1, <1>2, <1>3, RowIs DEF Exists
<1>6. NamesKept
    BY <1>1, <1>2, <1>3, <1>5 DEF RowsOK, NamesKept, ChannelsExist, Exists
<1>7. RecordsOfRows'
    BY <1>1, <1>2, <1>5 DEF RowsOK, RecordsOfRows
<1>8. \A x \in Request : At(x, "create", "commit") => req[x].row.channels \subseteq channel'
    BY <1>2, CommitsChannels DEF RowsInv
<1>9. channel' \subseteq Channel
    BY <1>1, <1>2 DEF Typed
<1> QED BY <1>2, <1>4, <1>6, <1>7, <1>8, <1>9, StatementKeeps

LEMMA DeleteKeeps == ASSUME RowsInv, NEW r \in Request, NEW us \in SUBSET Url \ {{}}, Delete(r, us) PROVE RowsInv'
<1>1. RowsOK /\ GhostsOK /\ Typed
    BY DEF RowsOK, RowsInv
<1>2. CASE \E u \in us \cap Exists : Tied(u)
    <2>1. UNCHANGED <<url, channel, records, visits, metadata, served, job, mix, recoded, version, failures>> /\ Done(r)
        BY <1>2 DEF Delete, Tables, Caches, ghosts, overridden
    <2> QED BY <1>1, <2>1, DoneKeeps DEF GhostsOK
<1>3. CASE ~\E u \in us \cap Exists : Tied(u)
    <2>1. /\ UNCHANGED <<channel, visits, metadata, served, job, mix, recoded, failures>> /\ Done(r)
          /\ url' = [u \in Url |-> IF u \in us THEN NoRow ELSE url[u]]
          /\ records' = {a \in records : a.url \notin us}
          /\ version' = [u \in Url |-> version[u] + (IF u \in us \cap Exists THEN 1 ELSE 0)]
        BY <1>3 DEF Delete, Caches, overridden
    <2>2. url' \in [Url -> Row \cup {NoRow}] /\ version' \in [Url -> Nat]
        BY <1>1, <2>1 DEF Typed, GhostsOK
    <2>3. Exists' = Exists \ us
        BY <2>1 DEF Exists
    <2>4. NamesKept
        BY <1>1, <2>1, <2>3 DEF RowsOK, NamesKept, ChannelsExist, Exists
    <2>5. RecordsOfRows'
        BY <1>1, <2>1, <2>3 DEF RowsOK, RecordsOfRows, Typed, Record
    <2>6. \A x \in Request : At(x, "create", "commit") => req[x].row.channels \subseteq channel'
        BY <2>1, CommitsChannels DEF RowsInv
    <2>7. channel' \subseteq Channel /\ records' \subseteq records
        BY <1>1, <2>1 DEF Typed
    <2> QED BY <2>1, <2>2, <2>4, <2>5, <2>6, <2>7, StatementKeeps
<1> QED BY <1>2, <1>3

LEMMA AddKeeps == ASSUME RowsInv, NEW r \in Request, NEW c \in Channel, Add(r, c) PROVE RowsInv'
<1>1. RowsOK /\ GhostsOK /\ Typed
    BY DEF RowsOK, RowsInv
<1>2. UNCHANGED <<channel, records, visits, metadata, served, job, mix, recoded, failures>> /\ Done(r)
    BY DEF Add, Caches, overridden
<1>3. CASE UNCHANGED <<url, version>>
    BY <1>1, <1>2, <1>3, DoneKeeps DEF GhostsOK
<1>4. CASE ~UNCHANGED <<url, version>>
    <2>1. PICK u \in Exists : /\ u = req[r].u /\ c \in channel
                              /\ url' = [url EXCEPT ![u] = [url[u] EXCEPT !.channels = url[u].channels \cup {c}]]
                              /\ Wrote(u)
        BY <1>4 DEF Add, Exists
    <2>2. PICK row \in Row : row = url[u]
        BY <1>1, ExistsIs DEF Exists
    <2> DEFINE new == [row EXCEPT !.channels = row.channels \cup {c}]
    <2>3. url' = [url EXCEPT ![u] = new]
        BY <2>1, <2>2
    <2>4. /\ new \in Row /\ new.code = row.code /\ new.alias = row.alias /\ new.seen = row.seen
          /\ new.channels = row.channels \cup {c}
        BY DEF Row
    <2> HIDE DEF new
    <2>5. u \in Url /\ url'[u] = new /\ \A v \in Url \ {u} : url'[v] = url[v]
        BY <1>1, <2>3 DEF Typed, Exists
    <2>6. url' \in [Url -> Row \cup {NoRow}] /\ version' \in [Url -> Nat]
        <3>1. url' \in [Url -> Row \cup {NoRow}]
            BY <1>1, <2>3, <2>4 DEF Typed
        <3>2. version' \in [Url -> Nat]
            BY <1>1, <2>1, WroteIs DEF Exists
        <3> QED BY <3>1, <3>2
    <2>7. Exists' = Exists
        BY <2>4, <2>5, RowIs DEF Exists
    <2>8. NamesKept
        BY <1>1, <1>2, <2>1, <2>2, <2>4, <2>5, <2>7 DEF RowsOK, NamesKept, ChannelsExist, Exists
    <2>9. RecordsOfRows'
        BY <1>1, <1>2, <2>7 DEF RowsOK, RecordsOfRows
    <2>10. \A x \in Request : At(x, "create", "commit") => req[x].row.channels \subseteq channel'
        BY <1>2, CommitsChannels DEF RowsInv
    <2>11. channel' \subseteq Channel
        BY <1>1, <1>2 DEF Typed
    <2> QED BY <1>2, <2>6, <2>8, <2>9, <2>10, <2>11, StatementKeeps
<1> QED BY <1>3, <1>4

LEMMA DropKeeps == ASSUME RowsInv, NEW r \in Request, NEW c \in Channel, Drop(r, c) PROVE RowsInv'
<1>1. RowsOK /\ GhostsOK /\ Typed
    BY DEF RowsOK, RowsInv
<1>2. /\ UNCHANGED <<records, visits, metadata, served, job, mix, recoded, failures>> /\ Done(r)
      /\ channel' = channel \ {c}
      /\ url' = [u \in Url |-> IF u \in Exists THEN [url[u] EXCEPT !.channels = @ \ {c}] ELSE NoRow]
      /\ version' = [u \in Url |-> version[u] + (IF u \in Exists /\ c \in url[u].channels THEN 1 ELSE 0)]
    BY DEF Drop, Caches, overridden
<1>3. ASSUME NEW u \in Exists
      PROVE  /\ url'[u] \in Row /\ url'[u].code = url[u].code /\ url'[u].alias = url[u].alias
             /\ url'[u].seen = url[u].seen /\ url'[u].channels = url[u].channels \ {c}
    <2>1. PICK row \in Row : row = url[u]
        BY <1>1, ExistsIs DEF Exists
    <2> DEFINE new == [row EXCEPT !.channels = row.channels \ {c}]
    <2>2. url'[u] = new
        BY <1>2, <2>1 DEF Exists
    <2>3. /\ new \in Row /\ new.code = row.code /\ new.alias = row.alias /\ new.seen = row.seen
          /\ new.channels = row.channels \ {c}
        BY DEF Row
    <2> HIDE DEF new
    <2> QED BY <2>1, <2>2, <2>3
<1>10. \A u \in Url \ Exists : url'[u] = NoRow
    BY <1>2
<1>4. url' \in [Url -> Row \cup {NoRow}] /\ version' \in [Url -> Nat]
    <2>1. url' \in [Url -> Row \cup {NoRow}]
        BY <1>2, <1>3, <1>10
    <2> QED BY <1>1, <1>2, <2>1 DEF GhostsOK
<1>5. Exists' = Exists
    BY <1>3, <1>10, RowIs DEF Exists
<1>6. NamesKept
    BY <1>1, <1>2, <1>3, <1>5 DEF RowsOK, NamesKept, ChannelsExist
<1>7. RecordsOfRows'
    BY <1>1, <1>2, <1>5 DEF RowsOK, RecordsOfRows
<1>8. \A x \in Request : At(x, "create", "commit") => req[x].row.channels \subseteq channel'
    BY <1>2, CommitsChannels DEF RowsInv, Drop
<1>9. channel' \subseteq Channel
    BY <1>1, <1>2 DEF Typed
<1> QED BY <1>2, <1>4, <1>6, <1>7, <1>8, <1>9, StatementKeeps

-----------------------------------------------------------------------------
(* What the visit job counts. *)

LEMMA ProceedsFits ==
    ASSUME RowsOK, NEW code, Fits(code), NEW r \in Request, NEW j, Proceeds(r, j), UNCHANGED recoded
    PROVE  JobFits(code, r)'
<1>1. JobFits(code, r) /\ RowsFit(code) /\ job'[r] = j
    BY DEF Fits, RowsOK, Typed, Proceeds
<1>2. j.row # NoRow =>
        Coded(code, j.u, j.row, recoded) /\ Checked(code, j.row.alias, j.row.seen \ recoded)
    BY <1>1 DEF JobFits, RowsFit, Proceeds
<1> QED BY <1>1, <1>2 DEF JobFits, Proceeds

\* A job that goes on may write a row, without its names, and be recorded.
LEMMA JobWritesKeeps ==
    ASSUME RowsInv, NEW code \in Coding, Fits(code), NEW r \in Request, NEW j, Proceeds(r, j),
           UNCHANGED <<channel, visits, metadata, served, req, mix, recoded, failures>>,
           NEW u \in Exists, NEW new \in Row, url' = [url EXCEPT ![u] = new], Wrote(u),
           new.code = url[u].code, new.alias = url[u].alias, new.seen = url[u].seen,
           new.channels = url[u].channels,
           records' \subseteq Record, HashesDiffer', \A a \in records' : a \in records \/ a.url = u,
           \A a \in records' : RecordFits(code, a)'
    PROVE  RowsInv'
<1>1. RowsOK /\ GhostsOK /\ Typed /\ u \in Url
    BY DEF RowsOK, RowsInv, Exists
<1>2. Moves(r, req[r], j)
    BY <1>1 DEF Moves, Proceeds, RowsOK, Typed
<1>3. url'[u] = new /\ \A v \in Url \ {u} : url'[v] = url[v]
    BY <1>1 DEF Typed
<1>4. Exists' = Exists
    BY <1>1, <1>3, RowIs DEF Exists
<1>5. NamesKept
    BY <1>1, <1>3, <1>4 DEF RowsOK, NamesKept, ChannelsExist, Exists
<1>6. RecordsOfRows'
    BY <1>1, <1>4 DEF RowsOK, RecordsOfRows
<1>7. \A x \in Request : At(x, "create", "commit") => req[x].row.channels \subseteq channel'
    BY CommitsChannels
<1>8. JobFits(code, r)' /\ RequestFits(code, r)'
    <2>1. job[r].pc # "none" /\ RequestFits(code, r)
        BY DEF Proceeds, Fits
    <2> QED BY <1>1, <2>1, ProceedsFits DEF RequestFits, Creating, Editing, At
<1>9. GhostsOK'
    BY <1>1, WroteIs DEF GhostsOK
<1>10. Typed'
    <2>1. url' \in [Url -> Row \cup {NoRow}]
        BY <1>1 DEF Typed
    <2>2. job' \in [Request -> JobState]
        BY <1>1 DEF Typed, Proceeds
    <2> QED BY <1>1, <2>1, <2>2 DEF Typed
<1> QED BY <1>1, <1>2, <1>5, <1>6, <1>7, <1>8, <1>9, <1>10, NamesKeep

LEMMA ProceedsRecords ==
    ASSUME RowsOK, NEW code, Fits(code), NEW r \in Request, NEW j, Proceeds(r, j),
           UNCHANGED <<records, recoded, failures>>, NEW a \in records'
    PROVE  RecordFits(code, a)'
<1>1. RecordFits(code, a) /\ a.job \in Request
    BY DEF Fits, RowsOK, Typed, Record
<1>2. CASE a.job # r
    BY <1>1, <1>2 DEF RecordFits, Alive, Proceeds, RowsOK, Typed
<1>3. CASE a.job = r
    <2>1. job'[a.job] = j
        BY <1>3 DEF Proceeds, RowsOK, Typed
    <2> QED BY <1>1, <1>3, <2>1 DEF RecordFits, Alive, Proceeds
<1> QED BY <1>2, <1>3

LEMMA RecordVisitKeeps == ASSUME RowsInv, NEW r \in Request, RecordVisit(r) PROVE RowsInv'
<1>1. RowsOK /\ GhostsOK /\ Typed
    BY DEF RowsOK, RowsInv
<1>2. UNCHANGED <<channel, visits, metadata, served, req, mix, recoded, failures>>
    BY DEF RecordVisit, Tables, Caches, ghosts, overridden
<1>3. PICK i \in JobState : i = job[r]
    BY <1>1 DEF RowsOK, Typed
<1>4. i.pc = "record" /\ i.queue = "analytic"
    BY <1>3 DEF RecordVisit, Runs
<1>5. CASE NoRecord(i)
    <2>1. AttemptFailed(r) /\ UNCHANGED <<url, records, version>>
        BY <1>3, <1>5 DEF RecordVisit, Tables, ghosts, overridden
    <2> QED BY <1>2, <1>3, <1>4, <2>1, AttemptFailedKeeps DEF Recorded
<1>6. CASE ~NoRecord(i)
    <2>1. PICK code \in Coding : Fits(code)
        BY DEF RowsInv
    <2>2. JobFits(code, r) /\ i.row # NoRow /\ i.row.code = i.slug /\ i.slug \in Slug
          /\ (i.u \notin recoded => code[i.u] = i.slug)
          /\ (i.unique => i.type = "CLICK")
        BY <1>3, <1>4, <2>1 DEF Fits, JobFits, Holding, Coded
    <2>3. i.u \in Exists /\ ~\E a \in records : a.url = i.u /\ a.hash = HashOf(i)
        BY <1>6 DEF NoRecord
    <2>4. PICK u \in Url : u = i.u
        BY DEF JobState
    <2>5. PICK row \in Row : row = url[u]
        BY <1>1, <2>3, <2>4, ExistsIs
    <2>6. PICK n \in Nat : n = i.row.clicks + 1
        BY <2>2, RowIs DEF JobState
    <2>7. PICK v \in Nat : v = version[u] + 1
        BY <1>1 DEF GhostsOK
    <2> DEFINE new == [row EXCEPT !.clicks = n]
               j == [i EXCEPT !.pc = "count", !.version = v]
               b == [url |-> u, hash |-> HashOf(i), unique |-> i.unique, type |-> i.type, job |-> r, try |-> i.tries]
    <2>8. /\ records' = records \cup {b} /\ url' = [url EXCEPT ![u] = new] /\ Wrote(u)
          /\ job' = [job EXCEPT ![r] = j]
        BY <1>3, <1>6, <2>4, <2>5, <2>6, <2>7 DEF RecordVisit
    <2>9. /\ new \in Row /\ new.code = row.code /\ new.alias = row.alias /\ new.seen = row.seen
          /\ new.channels = row.channels
        BY DEF Row
    <2>10. /\ j \in JobState /\ j.pc = "count" /\ j.u = i.u /\ j.row = i.row /\ j.slug = i.slug /\ j.ip = i.ip
           /\ j.queue = i.queue /\ j.tries = i.tries /\ j.type = i.type /\ j.unique = i.unique
        BY DEF JobState
    <2>11. HashOf(i) \in Hash /\ HashOf(i) = IF i.unique THEN Identity(i.slug) ELSE VisitHash(i.slug, i.ip)
        BY <2>2 DEF HashOf, Identity, VisitHash, Hash, JobState
    <2>12. b \in Record
        BY <2>11 DEF Record, JobState
    <2>13. /\ b.url = u /\ b.hash = HashOf(i) /\ b.unique = i.unique /\ b.job = r
        OBVIOUS
    <2> HIDE DEF new, j, b
    <2>14. Proceeds(r, j)
        BY <1>3, <1>4, <2>2, <2>8, <2>10 DEF Proceeds, Recorded
    <2>15. HashesDiffer'
        BY <1>1, <2>3, <2>4, <2>8, <2>13 DEF RowsOK, HashesDiffer
    <2>16. job'[r] = j /\ \A x \in Request \ {r} : job'[x] = job[x]
        BY <1>1, <2>8 DEF RowsOK, Typed
    <2>17. Alive(r)' => Alive(r)
        BY <1>2, <1>3, <2>10, <2>16 DEF Alive
    <2>18. \A a \in records : a.job = r => ~Alive(r)
        BY <1>3, <1>4, <2>1 DEF Fits, RecordFits, Recorded
    <2>19. ASSUME NEW a \in records' PROVE RecordFits(code, a)'
        <3>1. CASE a = b
            BY <1>2, <1>4, <2>2, <2>4, <2>8, <2>10, <2>11, <2>13, <2>16, <2>17, <2>18, <3>1 DEF RecordFits, Recorded
        <3>2. CASE a \in records /\ a.job = r
            BY <1>2, <1>3, <2>1, <2>10, <2>16, <2>17, <2>18, <3>2 DEF RecordFits, Fits
        <3>3. CASE a \in records /\ a.job # r
            <4>1. RecordFits(code, a) /\ job'[a.job] = job[a.job] /\ (Alive(a.job)' => Alive(a.job))
                BY <1>1, <1>2, <2>1, <2>16, <3>3 DEF Fits, RowsOK, Typed, Record, Alive
            <4> QED BY <1>2, <2>8, <2>13, <3>3, <4>1 DEF RecordFits
        <3> QED BY <2>8, <3>1, <3>2, <3>3
    <2>20. records' \subseteq Record /\ \A a \in records' : a \in records \/ a.url = u
        BY <1>1, <2>8, <2>12, <2>13 DEF Typed
    <2> QED BY <1>2, <2>1, <2>3, <2>4, <2>5, <2>8, <2>9, <2>14, <2>15, <2>19, <2>20, JobWritesKeeps
<1> QED BY <1>5, <1>6

LEMMA CountedIs ==
    ASSUME NEW row \in Row, NEW i \in JobState, i.row \in Row
    PROVE  /\ Counted(row, i) \in Row /\ Counted(row, i).code = row.code /\ Counted(row, i).alias = row.alias
           /\ Counted(row, i).seen = row.seen /\ Counted(row, i).channels = row.channels
<1>1. i.row.clicks + 1 \in Nat /\ i.row.uniques + 1 \in Nat /\ i.row.uniques \in Nat /\ i.row.impressions + 1 \in Nat
    BY RowIs
<1> QED BY <1>1 DEF Counted, Row

LEMMA IncrementCountKeeps == ASSUME RowsInv, NEW r \in Request, IncrementCount(r) PROVE RowsInv'
<1>1. RowsOK /\ GhostsOK /\ Typed
    BY DEF RowsOK, RowsInv
<1>2. UNCHANGED <<channel, records, visits, metadata, served, req, mix, recoded, failures>>
    BY DEF IncrementCount, Caches, overridden
<1>3. PICK i \in JobState : i = job[r]
    BY <1>1 DEF RowsOK, Typed
<1>4. i.pc = "count" /\ i.queue = "analytic" /\ Answered(r)
    BY <1>3 DEF IncrementCount, Runs
<1>5. PICK code \in Coding : Fits(code)
    BY DEF RowsInv
<1>6. i.row \in Row /\ (i.unique => i.type = "CLICK")
    BY <1>3, <1>4, <1>5 DEF Fits, JobFits, Holding, JobState
<1> DEFINE j == [i EXCEPT !.pc = "finish", !.version = 0, !.row = NoRow]
<1>7. job' = [job EXCEPT ![r] = j]
    BY <1>3, <1>4 DEF Answered
<1>8. /\ j \in JobState /\ j.pc = "finish" /\ j.u = i.u /\ j.row = NoRow /\ j.slug = i.slug /\ j.ip = i.ip
      /\ j.queue = i.queue /\ j.tries = i.tries /\ j.type = i.type /\ j.unique = i.unique
    BY DEF JobState
<1> HIDE DEF j
<1>9. Proceeds(r, j)
    BY <1>3, <1>4, <1>6, <1>7, <1>8 DEF Proceeds, Recorded, Holding
<1>10. visits' \subseteq Hash /\ metadata' \in BOOLEAN
    BY <1>1, <1>2 DEF RowsOK, Typed
<1>11. CASE UNCHANGED <<url, version>>
    BY <1>2, <1>9, <1>10, <1>11, GoesOn
<1>12. CASE ~UNCHANGED <<url, version>>
    <2>1. PICK u \in Exists : u = i.u
        BY <1>3, <1>12 DEF IncrementCount
    <2>2. PICK row \in Row : row = url[u]
        BY <1>1, ExistsIs DEF Exists
    <2>3. PICK new \in Row : new = Counted(row, i)
        BY <1>6, CountedIs
    <2>4. url' = [url EXCEPT ![u] = new] /\ Wrote(u)
        BY <1>3, <1>12, <2>1, <2>2, <2>3 DEF IncrementCount
    <2>5. new.code = row.code /\ new.alias = row.alias /\ new.seen = row.seen /\ new.channels = row.channels
        BY <1>6, <2>3, CountedIs
    <2>6. records' \subseteq Record /\ HashesDiffer' /\ \A a \in records' : a \in records \/ a.url = u
        BY <1>1, <1>2 DEF RowsOK, HashesDiffer, Typed
    <2>7. \A a \in records' : RecordFits(code, a)'
        BY <1>1, <1>2, <1>5, <1>9, ProceedsRecords
    <2> QED BY <1>2, <1>5, <1>9, <2>2, <2>4, <2>5, <2>6, <2>7, JobWritesKeeps
<1> QED BY <1>11, <1>12

-----------------------------------------------------------------------------
(* Saves of a whole row. *)

\* A row takes the place of u's, in a step of r, and clashes with no other.
Replaces(r, q, j, u, row) ==
    /\ Moves(r, q, j) /\ (q = req[r] \/ q.pc = "done")
    /\ u \in Url /\ row \in Row /\ url' = [url EXCEPT ![u] = row]
    /\ ~Clash(u, row) /\ row.channels \subseteq channel /\ ~Blocked(r, row)
    /\ UNCHANGED <<channel, records, visits, metadata, served, failures>>
    /\ version' \in [Url -> Nat] /\ q \in RequestState /\ j \in JobState

LEMMA ReplacedTypes ==
    ASSUME RowsOK, GhostsOK, NEW r \in Request, NEW q, NEW j, NEW u, NEW row, Replaces(r, q, j, u, row)
    PROVE  /\ RowsOK' /\ GhostsOK' /\ Exists' = Exists \cup {u}
           /\ url'[u] = row /\ \A v \in Url \ {u} : url'[v] = url[v]
<1>1. url'[u] = row /\ \A v \in Url \ {u} : url'[v] = url[v]
    BY DEF Replaces, RowsOK, Typed
<1>2. Exists' = Exists \cup {u}
    BY <1>1, RowIs DEF Exists, Replaces
<1>3. Typed'
    <2>1. url' \in [Url -> Row \cup {NoRow}]
        BY DEF Replaces, RowsOK, Typed
    <2>2. req' \in [Request -> RequestState] /\ job' \in [Request -> JobState]
        BY DEF RowsOK, Typed, Replaces, Moves
    <2>3. UNCHANGED <<channel, records, visits, metadata, served>>
        BY DEF Replaces
    <2> QED BY <2>1, <2>2, <2>3 DEF Typed, RowsOK
<1>4. NamesDiffer'
    <2>1. ASSUME NEW v \in Exists, v # u
          PROVE  row.code # url[v].code /\ ~(row.alias \in Slug /\ row.alias = url[v].alias)
        BY <2>1 DEF Replaces, Clash
    <2> QED BY <1>1, <1>2, <2>1 DEF RowsOK, NamesDiffer, Exists
<1>5. HashesDiffer' /\ RecordsOfRows'
    BY <1>2 DEF RowsOK, HashesDiffer, RecordsOfRows, Replaces
<1>6. ChannelsExist'
    BY <1>1, <1>2 DEF RowsOK, ChannelsExist, Replaces, Exists
<1>7. RowsOK'
    BY <1>3, <1>4, <1>5, <1>6 DEF RowsOK, Typed, NamesDiffer, HashesDiffer, RecordsOfRows, ChannelsExist, Exists
<1>8. GhostsOK'
    BY DEF GhostsOK, Replaces
<1> QED BY <1>1, <1>2, <1>7, <1>8

LEMMA ReplacedCommits ==
    ASSUME RowsOK, GhostsOK, NEW r \in Request, NEW q, NEW j, NEW u, NEW row, Replaces(r, q, j, u, row),
           ~At(r, "create", "commit")', NEW x \in Request, CommitFits(x)
    PROVE  CommitFits(x)'
<1>1. \A y \in Request : At(y, "create", "commit")' => y # r /\ At(y, "create", "commit") /\ req'[y] = req[y]
    <2>1. Moves(r, q, j)
        BY DEF Replaces
    <2> QED BY <2>1 DEF At, Moves, RowsOK, Typed
<1>2. Blocked(x, req[x].row)' /\ At(x, "create", "commit")' => Blocked(x, req[x].row)
    BY <1>1 DEF Blocked
<1>3. At(x, "create", "commit")' =>
        req[x].row.code # row.code /\ ~(req[x].row.alias \in Slug /\ req[x].row.alias = row.alias)
    BY <1>1 DEF Replaces, Blocked
<1>4. Clash(x + 1, req[x].row)' /\ At(x, "create", "commit")' => Clash(x + 1, req[x].row)
    <2>1. \A v \in Exists' : (v = u /\ url'[v] = row) \/ (v \in Exists /\ url'[v] = url[v])
        BY ReplacedTypes DEF Exists
    <2> QED BY <1>1, <1>3, <2>1 DEF Clash
<1> QED BY <1>1, <1>2, <1>4 DEF CommitFits, Replaces

\* The row has the code that its URL was committed with, and its alias was checked.
LEMMA ReplacedKeeps ==
    ASSUME RowsOK, GhostsOK, NEW code \in Coding, Fits(code),
           NEW r \in Request, NEW q, NEW j, NEW u, NEW row, Replaces(r, q, j, u, row),
           ~At(r, "create", "commit")', Coded(code, u, row, recoded'),
           Checked(code, row.alias, row.seen \ recoded),
           RequestFits(code, r)', JobFits(code, r)', \A a \in records : RecordFits(code, a)'
    PROVE  RowsInv'
<1>1. /\ RowsOK' /\ GhostsOK' /\ Exists' = Exists \cup {u}
      /\ url'[u] = row /\ \A v \in Url \ {u} : url'[v] = url[v]
    BY ReplacedTypes
<1>2. RowsFit(code)'
    <2>1. \A v \in Exists' : v = u \/ (v \in Exists /\ url'[v] = url[v])
        BY <1>1 DEF Exists
    <2>2. recoded \subseteq recoded'
        BY DEF Replaces, Moves
    <2> QED BY <1>1, <2>1, <2>2 DEF RowsFit, Fits, Checked, Coded
<1>3. \A x \in Request : CommitFits(x)'
    BY ReplacedCommits DEF Fits
<1>4. \A x \in Request : RequestFits(code, x)' /\ JobFits(code, x)'
    BY OthersFit DEF Fits, Replaces
<1>5. \A a \in records' : RecordFits(code, a)'
    BY DEF Replaces
<1> QED BY <1>1, <1>2, <1>3, <1>4, <1>5, FitIs

LEMMA UpdateSaveKeeps == ASSUME RowsInv, NEW r \in Request, UpdateSave(r) PROVE RowsInv'
<1>1. RowsOK /\ GhostsOK
    BY DEF RowsInv
<1>2. PICK code \in Coding : Fits(code)
    BY DEF RowsInv
<1>3. UNCHANGED <<channel, records, visits, metadata, served, job, mix, failures>> /\ Done(r)
    BY DEF UpdateSave, Tables, Caches
<1>4. CASE UNCHANGED <<url, version, recoded>>
    BY <1>1, <1>3, <1>4, DoneKeeps DEF GhostsOK
<1>5. CASE ~UNCHANGED <<url, version, recoded>>
    <2>1. PICK p \in RequestState : p = req[r]
        BY <1>1 DEF RowsOK, Typed
    <2>2. mix[r] = "update" /\ p.pc = "save" /\ RequestFits(code, r)
        BY <1>2, <2>1 DEF UpdateSave, At, Fits
    <2>3. /\ p.u \in Url /\ p.row \in Row /\ p.edit \in Edit /\ Coded(code, p.u, p.row, recoded)
          /\ Checked(code, Merged(p.row, p.edit).alias, p.row.seen \ recoded)
        BY <2>1, <2>2 DEF RequestFits, Editing
    <2>4. PICK row \in Row : row = Merged(p.row, p.edit)
        BY <2>3, MergedIs
    <2>6. /\ ~Blocked(r, row) /\ ~Refused(p.u, row) /\ Stored(p.u, row, p.version)
          /\ recoded' = IF "code" \in p.edit.sets THEN recoded \cup {p.u} ELSE recoded
        BY <1>5, <2>1, <2>4 DEF UpdateSave, Tables, ghosts, overridden
    <2>5. Coded(code, p.u, row, recoded') /\ Checked(code, row.alias, row.seen \ recoded)
        BY <2>3, <2>4, <2>6, MergedIs DEF Coded
    <2>7. PICK q \in RequestState : q = [Idle EXCEPT !.pc = "done"]
        BY IdleIs
    <2>8. Moves(r, q, job[r]) /\ q.pc = "done" /\ req'[r] = q
        BY <1>1, <1>3, <2>6, <2>7 DEF Moves, Done, Idle, RowsOK, Typed
    <2>9. version' \in [Url -> Nat]
        BY <1>1, <2>3, <2>6, WroteIs DEF Stored
    <2>10. Replaces(r, q, job[r], p.u, row)
        BY <1>1, <1>3, <2>3, <2>6, <2>8, <2>9 DEF Replaces, Refused, Stored, RowsOK, Typed
    <2>11. RequestFits(code, r)'
        BY <1>1, <1>3, DoneFits
    <2>12. JobFits(code, r)' /\ ~At(r, "create", "commit")'
        BY <1>2, <1>3, <2>6, <2>8 DEF Fits, JobFits, At, Checked, Coded
    <2>13. \A a \in records : RecordFits(code, a)'
        BY <1>2, <1>3, <2>6 DEF Fits, RecordFits, Alive
    <2> QED BY <1>1, <1>2, <2>5, <2>10, <2>11, <2>12, <2>13, ReplacedKeeps
<1> QED BY <1>4, <1>5

LEMMA SaveMetadataKeeps == ASSUME RowsInv, NEW r \in Request, SaveMetadata(r) PROVE RowsInv'
<1>1. RowsOK /\ GhostsOK
    BY DEF RowsInv
<1>2. PICK code \in Coding : Fits(code)
    BY DEF RowsInv
<1>3. UNCHANGED <<channel, records, visits, metadata, served, req, mix, recoded, failures>>
    BY DEF SaveMetadata, Tables, Caches, ghosts, overridden
<1>4. PICK i \in JobState : i = job[r]
    BY <1>1 DEF RowsOK, Typed
<1>5. /\ i.queue = "metadata" /\ i.pc = "save" /\ i.row # NoRow /\ i.u = r + 1 /\ JobFits(code, r)
      /\ Coded(code, i.u, i.row, recoded) /\ Checked(code, i.row.alias, i.row.seen \ recoded)
      /\ (i.unique => i.type = "CLICK")
    BY <1>2, <1>4 DEF SaveMetadata, Runs, Fits, JobFits
<1>6. CASE AttemptFailed(r) /\ UNCHANGED <<url, version>>
    BY <1>3, <1>4, <1>5, <1>6, AttemptFailedKeeps DEF Recorded
<1>7. CASE ~(AttemptFailed(r) /\ UNCHANGED <<url, version>>)
    <2>1. PICK old \in Row : old = i.row
        BY <1>5 DEF JobState
    <2>2. PICK row \in Row : row = [i.row EXCEPT !.meta = TRUE]
        BY <2>1 DEF Row
    <2>3. Coded(code, i.u, row, recoded) /\ Checked(code, row.alias, row.seen \ recoded)
        BY <1>5, <2>1, <2>2 DEF Row, Coded
    <2>4. ~Blocked(r, row) /\ ~Refused(i.u, row) /\ Stored(i.u, row, i.version) /\ Answered(r)
        BY <1>4, <1>7, <2>2 DEF SaveMetadata, Tables, ghosts, overridden
    <2> DEFINE j == [i EXCEPT !.pc = "finish", !.version = 0, !.row = NoRow]
    <2>5. job' = [job EXCEPT ![r] = j]
        BY <1>4, <2>4 DEF Answered
    <2>6. /\ j \in JobState /\ j.pc = "finish" /\ j.u = i.u /\ j.row = NoRow /\ j.slug = i.slug /\ j.ip = i.ip
          /\ j.queue = i.queue /\ j.tries = i.tries /\ j.type = i.type /\ j.unique = i.unique
        BY DEF JobState
    <2> HIDE DEF j
    <2>7. Proceeds(r, j)
        BY <1>4, <1>5, <2>5, <2>6 DEF Proceeds, Recorded
    <2>8. version' \in [Url -> Nat] /\ i.u \in Url
        BY <1>1, <2>4, WroteIs DEF Stored, JobState
    <2>9. Moves(r, req[r], j)
        BY <1>1, <1>3, <2>5 DEF Moves, RowsOK, Typed
    <2>10. Replaces(r, req[r], j, i.u, row)
        BY <1>1, <1>3, <2>4, <2>6, <2>8, <2>9 DEF Replaces, Refused, Stored, RowsOK, Typed
    <2>11. RequestFits(code, r)
        BY <1>2 DEF Fits
    <2>12. ~At(r, "create", "commit")'
        BY <1>3, <1>5, <2>11 DEF At, RequestFits, Coded
    <2>13. RequestFits(code, r)' /\ JobFits(code, r)'
        BY <1>1, <1>2, <1>3, <1>4, <1>5, <2>7, <2>11, ProceedsFits DEF RequestFits, Creating, Editing, At
    <2>14. \A a \in records : RecordFits(code, a)'
        BY <1>1, <1>2, <1>3, <2>7, ProceedsRecords
    <2>15. Coded(code, i.u, row, recoded')
        BY <1>3, <2>3
    <2> QED BY <1>1, <1>2, <2>3, <2>10, <2>12, <2>13, <2>14, <2>15, ReplacedKeeps
<1> QED BY <1>6, <1>7

\* A row is committed: from now on its URL has a code.
LEMMA CreateCommitKeeps == ASSUME RowsInv, NEW r \in Request, CreateCommit(r) PROVE RowsInv'
<1>1. RowsOK /\ GhostsOK
    BY DEF RowsInv
<1>2. PICK code \in Coding : Fits(code)
    BY DEF RowsInv
<1>3. UNCHANGED <<channel, records, visits, metadata, served, job, mix, recoded, failures>> /\ Done(r) /\ Wrote(r + 1)
    BY DEF CreateCommit, Caches, overridden
<1>4. PICK p \in RequestState : p = req[r]
    BY <1>1 DEF RowsOK, Typed
<1>5. /\ mix[r] = "create" /\ p.pc = "commit" /\ p.row \in Row /\ Checked(code, p.row.alias, p.row.seen \ recoded)
      /\ code[r + 1] = NoSlug /\ ~Clash(r + 1, p.row) /\ ~Blocked(r, p.row) /\ p.row.channels \subseteq channel
    BY <1>2, <1>4 DEF CreateCommit, At, Fits, RequestFits, CommitFits, Creating
<1>6. PICK row \in Row : row = p.row
    BY <1>5
<1>7. PICK u \in Url : u = r + 1
    BY Numbers
<1>8. PICK q \in RequestState : q = [Idle EXCEPT !.pc = "done"]
    BY IdleIs
<1>9. Moves(r, q, job[r]) /\ q.pc = "done" /\ req'[r] = q
    BY <1>1, <1>3, <1>8 DEF Moves, Done, Idle, RowsOK, Typed
<1>10. Replaces(r, q, job[r], u, row)
    <2>1. version' \in [Url -> Nat]
        BY <1>1, <1>3, <1>7, WroteIs
    <2>2. url' = [url EXCEPT ![u] = row]
        BY <1>4, <1>6, <1>7 DEF CreateCommit
    <2> QED BY <1>1, <1>3, <1>5, <1>6, <1>7, <1>9, <2>1, <2>2 DEF Replaces, RowsOK, Typed
<1>11. /\ RowsOK' /\ GhostsOK' /\ Exists' = Exists \cup {u}
       /\ url'[u] = row /\ \A v \in Url \ {u} : url'[v] = url[v]
    BY <1>1, <1>10, ReplacedTypes
<1>12. PICK new \in Coding : new = [code EXCEPT ![u] = row.code]
    BY RowIs DEF Coding
<1>13. new[u] = row.code /\ \A v \in Url \ {u} : new[v] = code[v]
    BY <1>12 DEF Coding
\* Nothing that was committed, or seen, is u.
<1>14. \A v \in Url : code[v] # NoSlug => new[v] = code[v]
    BY <1>5, <1>7, <1>13
<1>15. ASSUME NEW alias, NEW seen \in SUBSET Url, Checked(code, alias, seen) PROVE Checked(new, alias, seen)
    BY <1>14, <1>15 DEF Checked
<1>16. RowsFit(new)'
    <2>1. ASSUME NEW v \in Exists, v # u 
          PROVE Coded(new, v, url'[v], recoded) /\ Checked(new, url'[v].alias, url'[v].seen \ recoded)
        <3>1. url[v] \in Row /\ v \in Url
            BY <1>1, ExistsIs DEF RowsOK, Exists
        <3>2. Coded(code, v, url[v], recoded) /\ Checked(code, url[v].alias, url[v].seen \ recoded)
            BY <1>2 DEF Fits, RowsFit
        <3>3. url[v].seen \ recoded \in SUBSET Url
            BY <3>1, RowIs
        <3> QED BY <1>11, <1>13, <1>15, <2>1, <3>1, <3>2, <3>3 DEF Coded
    <2>2. Checked(new, row.alias, row.seen \ recoded)
        BY <1>5, <1>6, <1>15, RowIs
    <2> QED BY <1>3, <1>11, <1>13, <2>1, <2>2, RowIs, UrlsAssumption DEF RowsFit, Coded
<1>17. ASSUME NEW x \in Request PROVE RequestFits(new, x)'
    <2>1. CASE x = r
        BY <1>1, <1>3, <2>1, DoneFits
    <2>2. CASE x # r
        <3>1. RequestFits(code, x) /\ req'[x] = req[x] /\ x + 1 # u /\ x + 1 \in Url
            BY <1>1, <1>2, <1>7, <1>9, <2>2, Numbers DEF Fits, Moves, RowsOK, Typed
        <3>2. PICK o \in RequestState : o = req[x]
            BY <1>1 DEF RowsOK, Typed
        <3>3. new[x + 1] = code[x + 1]
            BY <1>13, <3>1
        <3>4. Creating(x) => Checked(new, o.row.alias, o.row.seen \ recoded)
            BY <1>15, <3>1, <3>2, RowIs DEF RequestFits
        <3>5. Editing(x) =>
                /\ Coded(new, o.u, o.row, recoded)
                /\ o.pc = "save" => Checked(new, Merged(o.row, o.edit).alias, o.row.seen \ recoded)
            BY <1>14, <1>15, <3>1, <3>2, RowIs DEF RequestFits, Coded
        <3> QED BY <1>3, <3>1, <3>2, <3>3, <3>4, <3>5 DEF RequestFits, Creating, Editing, At
    <2> QED BY <2>1, <2>2
<1>18. ASSUME NEW x \in Request PROVE JobFits(new, x)'
    <2>1. PICK o \in JobState : o = job[x]
        BY <1>1 DEF RowsOK, Typed
    <2>2. JobFits(code, x)
        BY <1>2 DEF Fits
    <2>3. o.row # NoRow =>
            Coded(new, o.u, o.row, recoded) /\ Checked(new, o.row.alias, o.row.seen \ recoded)
        <3>1. CASE o.row # NoRow
            <4>1. o.row \in Row /\ o.u \in Url /\ Coded(code, o.u, o.row, recoded)
                      /\ Checked(code, o.row.alias, o.row.seen \ recoded)
                BY <2>1, <2>2, <3>1 DEF JobFits, JobState
            <4> QED BY <1>14, <1>15, <4>1, RowIs DEF Coded
        <3> QED BY <3>1
    <2> QED BY <1>3, <2>1, <2>2, <2>3 DEF JobFits
<1>19. ASSUME NEW a \in records' PROVE RecordFits(new, a)'
    <2>1. RecordFits(code, a) /\ a.url \in Url /\ a.job \in Request
        BY <1>1, <1>2, <1>3 DEF Fits, RowsOK, Typed, Record
    <2>2. job[a.job].slug \in Slug
        BY <1>2, <2>1 DEF RecordFits, Fits, JobFits
    <2> QED BY <1>3, <1>14, <2>1, <2>2, UrlsAssumption DEF RecordFits, Alive
<1>20. \A x \in Request : CommitFits(x)'
    <2>1. ~At(r, "create", "commit")'
        BY <1>9 DEF At
    <2> QED BY <1>1, <1>2, <1>10, <2>1, ReplacedCommits DEF Fits
<1> QED BY <1>11, <1>16, <1>17, <1>18, <1>19, <1>20, FitIs

-----------------------------------------------------------------------------
(* The invariant. *)

LEMMA Initially == Init => IInv
<1> SUFFICES ASSUME Init PROVE IInv
    OBVIOUS
<1>1. PICK row \in First : url = [u \in Url |-> IF u = 1 THEN row ELSE NoRow]
    BY DEF Init
<1>2. row \in Row /\ row.seen = {}
    BY FirstAssumption
<1>3. Exists = {1} /\ url[1] = row /\ 1 \in Url
    BY <1>1, <1>2, RowIs DEF Exists, Url
<1>4. \A r \in Request : NoJob(r) \in JobState /\ NoJob(r).pc = "none" /\ NoJob(r).queue = "analytic"
                         /\ NoJob(r).row = NoRow /\ ~NoJob(r).unique /\ NoJob(r).tries = 0
    BY JobIs DEF NoJob, Job, Url
<1>5. \A r \in Request : req[r] = Idle /\ job[r] = NoJob(r)
    BY DEF Init
<1>6. Typed
    <2>1. url \in [Url -> Row \cup {NoRow}]
        BY <1>1, <1>2
    <2>2. req \in [Request -> RequestState] /\ job \in [Request -> JobState]
        BY <1>4, IdleIs DEF Init
    <2> QED BY <2>1, <2>2 DEF Init, Typed
<1>7. RowsOK
    BY <1>2, <1>3, <1>6, RowIs DEF RowsOK, Init, NamesDiffer, HashesDiffer, RecordsOfRows, ChannelsExist
<1>8. GhostsOK
    BY DEF Init, GhostsOK
<1> DEFINE code == [u \in Url |-> IF u = 1 THEN row.code ELSE NoSlug]
<1>9. code \in Coding /\ code[1] = row.code /\ \A r \in Request : code[r + 1] = NoSlug
    BY <1>2, <1>3, RowIs, Numbers DEF Coding
<1> HIDE DEF code
<1>10. RowsFit(code)
    BY <1>2, <1>3, <1>9, RowIs, UrlsAssumption DEF RowsFit, Checked, Coded
<1>11. \A r \in Request : RequestFits(code, r)
    BY <1>4, <1>5, <1>9 DEF RequestFits, Creating, Editing, At, Idle
<1>12. ASSUME NEW r \in Request PROVE JobFits(code, r)
    <2>1. PICK j \in JobState : j = job[r]
        BY <1>4, <1>5
    <2>2. /\ j.pc = "none" /\ j.queue = "analytic" /\ j.row = NoRow /\ ~j.unique
          /\ j.tries = 0 /\ 0 < MaxAttempts
        BY <1>4, <1>5, <2>1, UrlsAssumption
    <2> QED BY <2>1, <2>2 DEF JobFits, Holding
<1>13. \A r \in Request : CommitFits(r)
    BY <1>5 DEF CommitFits, At, Idle
<1>14. \A a \in records : RecordFits(code, a)
    BY DEF Init
<1>15. Fits(code)
    BY <1>10, <1>11, <1>12, <1>13, <1>14 DEF Fits
<1>16. Marked
    BY DEF Init, Marked
<1> QED BY <1>7, <1>8, <1>9, <1>15, <1>16 DEF IInv, RowsInv

LEMMA StutterKeeps == ASSUME RowsInv, UNCHANGED vars PROVE RowsInv'
<1>1. RowsOK' /\ GhostsOK'
    <2>1. Typed'
        BY DEF RowsInv, RowsOK, Typed, vars
    <2> QED BY <2>1, TablesStill DEF RowsInv, GhostsOK, vars
<1>2. ASSUME NEW code \in Coding, Fits(code) PROVE Fits(code)'
    BY <1>2, FitsStill DEF vars
<1> QED BY <1>1, <1>2 DEF RowsInv

LEMMA WorkKeeps == ASSUME RowsInv, NEW r \in Request, Work(r) PROVE RowsInv'
BY TakeVisitKeeps, FindIdentityKeeps, CachedVisitKeeps, RecordVisitKeeps, IncrementCountKeeps, FinishKeeps,
   TakeMetadataKeeps, FetchKeeps, LoadForMetadataKeeps, SaveMetadataKeeps DEF Work

LEMMA RowsInductive == RowsInv /\ [Next]_vars => RowsInv'
<1> SUFFICES ASSUME RowsInv, [Next]_vars PROVE RowsInv'
    OBVIOUS
<1>1. ASSUME NEW r \in Request, NEW s \in Slug, NEW alias \in Alias \cup {NoSlug}, CreateCode(r, s, alias)
      PROVE  RowsInv'
    BY <1>1, CreateCodeKeeps
<1>2. ASSUME NEW r \in Request, CreateAlias(r) \/ CreateInsert(r) \/ CreateCommit(r) \/ UpdateAlias(r) \/ UpdateSave(r)
      PROVE  RowsInv'
    BY <1>2, CreateAliasKeeps, CreateInsertKeeps, CreateCommitKeeps, UpdateAliasKeeps, UpdateSaveKeeps
<1>3. ASSUME NEW r \in Request, NEW cs \in {{}, Channel}, CreateLookup(r, cs) PROVE RowsInv'
    BY <1>3, CreateLookupKeeps
<1>4. ASSUME NEW r \in Request, NEW u \in Url, NEW edit \in Edits, UpdateLoad(r, u, edit)
      PROVE  RowsInv'
    BY <1>4, UpdateLoadKeeps
<1>5. ASSUME NEW r \in Request, NEW us \in SUBSET Url \ {{}}, Bulk(r, us) \/ Delete(r, us) PROVE RowsInv'
    BY <1>5, BulkKeeps, DeleteKeeps
<1>6. ASSUME NEW r \in Request, NEW c \in Channel, Drop(r, c) \/ Add(r, c) \/ \E u \in Url : Attach(r, c, u)
      PROVE  RowsInv'
    BY <1>6, DropKeeps, AddKeeps, AttachKeeps
<1>7. ASSUME NEW r \in Request, NEW slug \in Slug,
             (\E crawler \in BOOLEAN : Visit(r, slug, crawler)) \/ Unlock(r, slug) \/ Confirm(r, slug)
      PROVE  RowsInv'
    BY <1>7, VisitKeeps, UnlockKeeps, ConfirmKeeps
<1>8. ASSUME NEW r \in Request, Work(r) \/ WorkerFails(r) \/ RequestFails(r) PROVE RowsInv'
    BY <1>8, WorkKeeps, WorkerFailsKeeps, RequestFailsKeeps
<1>9. ASSUME DayEnds \/ UNCHANGED vars PROVE RowsInv'
    BY <1>9, DayEndsKeeps, StutterKeeps
<1> QED BY <1>1, <1>2, <1>3, <1>4, <1>5, <1>6, <1>7, <1>8, <1>9 DEF Next

\* What edits gave, and the channels that records name.
LEMMA MarksKept == ASSUME RowsInv, Marked, [Next]_vars PROVE Marked'
<1>1. ASSUME NEW r \in Request, UpdateSave(r) PROVE Marked'
    <2>1. req[r].u \in Url
        BY <1>1 DEF RowsInv, Fits, RequestFits, Editing, UpdateSave, At
    <2> QED BY <1>1, <2>1 DEF Marked, UpdateSave, Tables, ghosts, overridden
<1>2. ASSUME NEW r \in Request, RecordVisit(r) PROVE Marked'
    <2>1. job[r] \in JobState /\ job[r].row # NoRow
        BY <1>2 DEF RowsInv, RowsOK, Typed, Fits, JobFits, Holding, RecordVisit, Runs
    <2>2. job[r].u \in Url /\ job[r].row.channels \subseteq Channel
        BY <2>1, RowIs DEF JobState
    <2> QED BY <1>2, <2>2 DEF Marked, RecordVisit, Tables, ghosts, overridden
<1>3. ASSUME NEW r \in Request, NEW c \in Channel, Drop(r, c) PROVE Marked'
    BY <1>3 DEF Marked, Drop, overridden
<1>4. ASSUME UNCHANGED <<tagged, recoded, recounted>> PROVE Marked'
    BY <1>4 DEF Marked
<1>5. ASSUME NEW r \in Request, NEW us \in SUBSET Url \ {{}}, Bulk(r, us) \/ Delete(r, us) PROVE Marked'
    BY <1>4, <1>5 DEF Bulk, Delete, Tables, ghosts, overridden
<1>6. ASSUME NEW r \in Request, NEW c \in Channel, Add(r, c) \/ \E u \in Url : Attach(r, c, u) PROVE Marked'
    BY <1>4, <1>6 DEF Add, Attach, Tables, ghosts, overridden
<1>7. ASSUME NEW r \in Request,
             CreateAlias(r) \/ CreateInsert(r) \/ CreateCommit(r) \/ UpdateAlias(r) \/ RequestFails(r)
      PROVE  Marked'
    BY <1>4, <1>7 DEF CreateAlias, CreateInsert, CreateCommit, UpdateAlias, RequestFails, Tables, ghosts, overridden
<1>8. ASSUME NEW r \in Request, NEW s \in Slug, NEW alias \in Alias \cup {NoSlug}, CreateCode(r, s, alias)
      PROVE  Marked'
    BY <1>4, <1>8 DEF CreateCode, Tables, ghosts, overridden
<1>9. ASSUME NEW r \in Request, NEW cs, NEW u, NEW edit, CreateLookup(r, cs) \/ UpdateLoad(r, u, edit) PROVE Marked'
    BY <1>4, <1>9 DEF CreateLookup, UpdateLoad, Tables, ghosts, overridden
<1>10. ASSUME NEW r \in Request, NEW slug \in Slug,
             (\E crawler \in BOOLEAN : Visit(r, slug, crawler)) \/ Unlock(r, slug) \/ Confirm(r, slug)
      PROVE  Marked'
    BY <1>4, <1>10 DEF Visit, Unlock, Confirm, Tables, ghosts, overridden
<1>11. ASSUME NEW r \in Request,
              TakeVisit(r) \/ FindIdentity(r) \/ CachedVisit(r) \/ IncrementCount(r) \/ Finish(r) \/ WorkerFails(r)
       PROVE  Marked'
    BY <1>4, <1>11 DEF TakeVisit, FindIdentity, CachedVisit, IncrementCount, Finish, WorkerFails, Tables, ghosts,
                       overridden
<1>12. ASSUME NEW r \in Request, TakeMetadata(r) \/ Fetch(r) \/ LoadForMetadata(r) \/ SaveMetadata(r) PROVE Marked'
    BY <1>4, <1>12 DEF TakeMetadata, Fetch, LoadForMetadata, SaveMetadata, Tables, ghosts, overridden
<1>13. ASSUME DayEnds \/ UNCHANGED vars PROVE Marked'
    BY <1>4, <1>13 DEF DayEnds, vars, Tables, ghosts, overridden
<1> QED BY <1>1, <1>2, <1>3, <1>5, <1>6, <1>7, <1>8, <1>9, <1>10, <1>11, <1>12, <1>13 DEF Next, Work

LEMMA Inductive == IInv /\ [Next]_vars => IInv'
BY RowsInductive, MarksKept DEF IInv

(***************************************************************************)
(* Every reachable state has the facts above; TLC has checked them on the  *)
(* instance of the urls run, and each property below follows from them.    *)
(***************************************************************************)
THEOREM Invariance == Spec => []IInv
BY Initially, Inductive, PTL DEF Spec

(***************************************************************************)
(* The types of rows, records, requests and jobs, with what the database   *)
(* enforces: codes, aliases and a URL's hashes are unique, and no row      *)
(* refers to a URL or a channel that is gone. A whole-row save inserts     *)
(* deleted rows again, and the commit of a creation comes a step after its *)
(* insert was checked (createUrl, updateUrl, deleteOne).                   *)
(***************************************************************************)
THEOREM TypeCorrect == Spec => []TypeOK
<1>1. IInv => TypeOK
    BY TypeIs DEF IInv, RowsInv
<1> QED BY <1>1, Invariance, PTL

(***************************************************************************)
(* However creations, edits and the metadata worker overlap, no URL that   *)
(* was there when an alias was checked has it as its code, even after it   *)
(* was deleted and inserted again by a save, unless an edit has given that *)
(* URL a code, which nothing checks against the aliases (validateAlias,    *)
(* generateAndValidateCode, updateUrl).                                    *)
(***************************************************************************)
THEOREM AliasUnambiguous == Spec => []AliasChosenFirst
<1>1. ASSUME IInv, NEW u \in Exists, NEW v \in Exists, u # v, url[u].alias = url[v].code
      PROVE  v \notin url[u].seen \/ v \in recoded
    BY <1>1 DEF IInv, RowsInv, Fits, RowsFit, Checked, Coded
<1>2. IInv => AliasChosenFirst
    BY <1>1 DEF AliasChosenFirst
<1> QED BY <1>2, Invariance, PTL

\* A set without two elements.
LEMMA AtMostOne ==
    ASSUME NEW S, \A a, b \in S : a = b
    PROVE  IsFiniteSet(S) /\ Cardinality(S) \in 0..1
<1>1. CASE S = {}
    BY <1>1, FS_EmptySet
<1>2. CASE S # {}
    <2>1. PICK a \in S : TRUE
        BY <1>2
    <2>2. S = {a}
        BY <2>1
    <2>3. IsFiniteSet({a}) /\ Cardinality({a}) = 1
        BY FS_Singleton
    <2>4. 1 \in 0..1
        OBVIOUS
    <2> QED BY <2>2, <2>3, <2>4
<1> QED BY <1>1, <1>2

(***************************************************************************)
(* For any number of attempts, jobs and edits, a visit's job leaves one    *)
(* record of each kind at most, and no second one unless an attempt died   *)
(* after the first, on the URLs whose code no edit has changed; and one in *)
(* all while nothing has failed (process, recordVisit).                    *)
(***************************************************************************)
THEOREM VisitRecordedOnce == Spec => []RecordedPerVisit
<1>1. ASSUME IInv, NEW r \in Request
      PROVE  LET all == {a \in records : a.job = r}
                 mine == {a \in all : a.url \notin recoded}
             IN
             /\ Cardinality(mine) <= 1 + (IF job[r].tries > 0 THEN 1 ELSE 0)
             /\ Cardinality({a \in mine : a.unique}) <= 1 /\ Cardinality({a \in mine : ~a.unique}) <= 1
             /\ failures = 0 => Cardinality(all) <= 1
    <2> DEFINE all == {a \in records : a.job = r}
               mine == {a \in all : a.url \notin recoded}
               first == {a \in mine : a.unique}
               second == {a \in mine : ~a.unique}
    <2>1. RowsOK /\ Typed /\ NamesDiffer /\ HashesDiffer /\ RecordsOfRows
        BY <1>1 DEF IInv, RowsInv, RowsOK
    <2>2. PICK code \in Coding : Fits(code)
        BY <1>1 DEF IInv, RowsInv
    <2>3. ASSUME NEW a \in mine, NEW b \in mine PROVE a.url = b.url
        <3>1. code[a.url] = code[b.url] /\ a.url \in Exists /\ b.url \in Exists
            BY <2>1, <2>2 DEF Fits, RecordFits, RecordsOfRows
        <3>2. url[a.url].code = url[b.url].code
            BY <2>2, <3>1 DEF Fits, RowsFit, Coded
        <3> QED BY <2>1, <3>1, <3>2 DEF NamesDiffer
    <2>4. \A a, b \in first : a = b
        BY <2>1, <2>2, <2>3 DEF Fits, RecordFits, HashesDiffer
    <2>5. \A a, b \in second : a = b
        BY <2>1, <2>2, <2>3 DEF Fits, RecordFits, HashesDiffer
    <2>6. /\ IsFiniteSet(first) /\ Cardinality(first) \in 0..1
          /\ IsFiniteSet(second) /\ Cardinality(second) \in 0..1
        BY <2>4, <2>5, AtMostOne
    <2>7. Alive(r) => Cardinality(all) <= 1 /\ Cardinality(mine) <= 1
        <3>1. Alive(r) => (\A a, b \in all : a = b) /\ \A a, b \in mine : a = b
            BY <2>2 DEF Fits, RecordFits
        <3> HIDE DEF all, mine
        <3> QED BY <3>1, AtMostOne
    <2>8. Cardinality(mine) <= 2
        <3>1. mine = first \cup second /\ first \cap second = {}
            OBVIOUS
        <3> HIDE DEF mine, first, second
        <3>2. Cardinality(mine) = Cardinality(first) + Cardinality(second) - Cardinality(first \cap second)
            BY <2>6, <3>1, FS_Union
        <3> QED BY <2>6, <3>1, <3>2, FS_EmptySet
    <2>9. job[r].tries \in Nat
        BY <2>1 DEF Typed, JobState
    <2> HIDE DEF all, mine
    <2>10. Cardinality(mine) <= 1 + (IF job[r].tries > 0 THEN 1 ELSE 0)
        BY <2>7, <2>8, <2>9 DEF Alive
    <2>11. failures = 0 => Cardinality(all) <= 1
        BY <2>7 DEF Alive
    <2> QED BY <2>6, <2>10, <2>11 DEF all, mine
<1>2. IInv => RecordedPerVisit
    BY <1>1 DEF RecordedPerVisit
<1> QED BY <1>2, Invariance, PTL
=============================================================================
