-------------------------------- MODULE Urls --------------------------------
(***************************************************************************)
(* Short URLs, their channels and their visits: the requests that create,   *)
(* edit, delete and follow a URL, and the two queues behind them.  A worker  *)
(* counts a visit from the row it loaded when its job started, and another   *)
(* stores the metadata of the page by saving the whole row it loaded.        *)
(*                                                                         *)
(* Each query outside a transaction, each Redis command and each commit is a *)
(* step.  A job that throws is tried again, three times in all.              *)
(***************************************************************************)
EXTENDS Naturals, FiniteSets

CONSTANTS
    Request,     \* numbers; request r creates row r + 1
    Slug,        \* what codes and aliases are drawn from
    Alias,       \* bound: slugs that users choose
    NoSlug,
    Ip, Channel,
    Address,     \* the client's address, for each request
    MaxAttempts, \* attempts of a job (queue.module)
    MaxFailures, \* bound: processes that die, and servers that are unreachable
    First,       \* rows that may exist when a behaviour starts
    Edits,       \* bound: what users change of a URL
    Mix          \* bound: the operations that clients use together

\* The routes that change something, by controller.
UrlRoutes == {"create", "update", "bulk", "delete"}
PublicRoutes == {"create", "visit", "unlock", "confirm"}
ChannelRoutes == {"attach", "drop"}
Ops == UrlRoutes \cup PublicRoutes \cup ChannelRoutes

ASSUME UrlsAssumption ==
    /\ Request \subseteq Nat \ {0} /\ NoSlug \notin Slug /\ Alias \subseteq Slug
    /\ Address \in [Request -> Ip]
    /\ MaxAttempts \in Nat \ {0} /\ MaxFailures \in Nat
    /\ Mix \subseteq [Request -> Ops]

VARIABLES
    url,      \* the urls table with urls_channels_channels
    channel,  \* the channels table
    records,  \* the analytics table
    tagged,   \* analytics_channels_channels: a URL of whose records some name a channel
    visits,   \* URL_ANALYTICS: visit hashes of the last 24 hours
    metadata, \* URL_METADATA: the page's metadata is cached
    served,   \* splash pages answered, for which a confirm token can be made
    req,      \* the requests in progress
    job,      \* the job that each request put into a queue
    mix,
    version,  \* ghost: writes to each row
    intended, \* ghost: each row's fields if every save wrote only its changes
    disturbed,\* ghost: rows that a write after a stale read, or a failure, may have spoilt
    recoded,  \* ghost: rows to which an edit gave a code
    recounted,\* ghost: rows to which an edit gave a uniqueClicks
    failures

vars == <<url, channel, records, tagged, visits, metadata, served, req, job, mix,
          version, intended, disturbed, recoded, recounted, failures>>
overridden == <<recoded, recounted>>
ghosts == <<version, intended, disturbed, overridden>>

Url == {1} \cup {r + 1 : r \in Request}

Row == [code : Slug, alias : Slug \cup {NoSlug}, archived : BOOLEAN, private : BOOLEAN,
        splash : BOOLEAN, protected : BOOLEAN, limit : 0..1, meta : BOOLEAN,
        channels : SUBSET Channel, clicks : Nat, uniques : Nat, impressions : Nat,
        seen : SUBSET Url] \* ghost: the URLs there were when the alias was checked
NoRow == [code |-> NoSlug]

\* Nothing has been counted on them yet.
ASSUME FirstAssumption ==
    \A row \in First : row \in Row /\ row.clicks = 0 /\ row.uniques = 0 /\ row.impressions = 0 /\ row.seen = {}

\* What an edit may give (updateUrlSchema): all but the id, the dates, clickCount and the
\* channels; impressionCount is no part of the body.
Editable == {"code", "alias", "archived", "private", "splash", "protected", "limit", "meta", "uniques"}
Edit == [sets : SUBSET Editable, to : Row]
NoEdit == [sets |-> {}, to |-> NoRow]

ASSUME EditsAssumption == Edits \subseteq Edit

Exists == {u \in Url : url[u] # NoRow}
Codes == {url[u].code : u \in Exists}
Named(s) == {u \in Exists : s \in {url[u].code, url[u].alias}}

\* identityHash and visitHash (generateHashes): the same client has one
\* identity for all its addresses; no hash has a time in it.
Identity(code) == <<code, "identity">>
VisitHash(code, ip) == <<code, ip>>
Hash == Slug \X (Ip \cup {"identity"})

Record == [url : Url, hash : Hash, unique : BOOLEAN, type : {"CLICK", "IMPRESSION"},
           job : Request, try : 0..MaxAttempts] \* ghost: who wrote it
Of(u) == {a \in records : a.url = u}


RequestState ==
    [pc : {"start", "alias", "lookup", "insert", "commit", "save", "add", "done"},
     u : Url \cup {0}, row : Row \cup {NoRow}, edit : Edit \cup {NoEdit}, version : Nat]

JobState ==
    [pc : {"none", "waiting", "identity", "cache", "record", "count", "finish",
           "fetch", "load", "save", "completed", "failed"},
     queue : {"analytic", "metadata"}, tries : 0..MaxAttempts,
     slug : Slug \cup {NoSlug}, type : {"CLICK", "IMPRESSION"}, ip : Ip, unique : BOOLEAN,
     u : Url, row : Row \cup {NoRow}, version : Nat]

TypeOK ==
    /\ url \in [Url -> Row \cup {NoRow}]
    /\ channel \subseteq Channel /\ tagged \subseteq Url \X Channel
    /\ records \subseteq Record /\ visits \subseteq Hash
    /\ metadata \in BOOLEAN /\ served \subseteq Slug
    /\ req \in [Request -> RequestState] /\ job \in [Request -> JobState]
    /\ recoded \subseteq Url /\ recounted \subseteq Url
    /\ \A u, v \in Exists : u # v =>
        /\ url[u].code # url[v].code
        /\ url[u].alias \in Slug => url[u].alias # url[v].alias
    /\ \A a, b \in records : a.url = b.url /\ a.hash = b.hash => a = b
    /\ \A a \in records : url[a.url] # NoRow
    /\ \A u \in Exists : url[u].channels \subseteq channel

Idle == [pc |-> "start", u |-> 0, row |-> NoRow, edit |-> NoEdit, version |-> 0]
Job(r, queue, slug, type, u) ==
    [pc |-> "waiting", queue |-> queue, tries |-> 0, slug |-> slug, type |-> type, ip |-> Address[r],
     unique |-> FALSE, u |-> u, row |-> NoRow, version |-> 0]
NoJob(r) == [Job(r, "analytic", NoSlug, "CLICK", 1) EXCEPT !.pc = "none"]

\* What requests and the metadata worker set, without the counters.
Fields(row) == [code |-> row.code, alias |-> row.alias, archived |-> row.archived,
                private |-> row.private, splash |-> row.splash, protected |-> row.protected,
                limit |-> row.limit, meta |-> row.meta, channels |-> row.channels]

Init ==
    /\ \E row \in First : url = [u \in Url |-> IF u = 1 THEN row ELSE NoRow]
    /\ channel = Channel
    /\ records = {} /\ tagged = {} /\ visits = {} /\ metadata = FALSE /\ served = {}
    /\ req = [r \in Request |-> Idle] /\ job = [r \in Request |-> NoJob(r)]
    /\ mix \in Mix
    /\ version = [u \in Url |-> 0]
    /\ intended = [u \in Url |-> IF u = 1 THEN Fields(url[1]) ELSE NoRow]
    /\ disturbed = {} /\ recoded = {} /\ recounted = {} /\ failures = 0

-----------------------------------------------------------------------------
At(r, op, pc) == mix[r] = op /\ req[r].pc = pc
Goto(r, pc) == req' = [req EXCEPT ![r].pc = pc]
GoOn(r, pc, row) == req' = [req EXCEPT ![r] = [@ EXCEPT !.pc = pc, !.row = row]]
Done(r) == req' = [req EXCEPT ![r] = [Idle EXCEPT !.pc = "done"]]
Enqueue(r, j) == job' = [job EXCEPT ![r] = j]

\* No index on the alias.
ClashMutant(u, row) == \E v \in Exists \ {u} : row.code = url[v].code
\* The unique indexes on code and alias.
Clash(u, row) == \E v \in Exists \ {u} :
    row.code = url[v].code \/ (row.alias \in Slug /\ row.alias = url[v].alias)
\* A statement that would repeat what an open transaction has inserted waits for it.
Blocked(r, row) == \E q \in Request \ {r} :
    /\ At(q, "create", "commit")
    /\ \/ req[q].row.code = row.code
       \/ row.alias \in Slug /\ req[q].row.alias = row.alias

Wrote(u) == version' = [version EXCEPT ![u] = @ + 1]
\* The row as read at version n is written back, or a counter derived from it.
Spoils(u, n) == disturbed' = IF version[u] = n THEN disturbed ELSE disturbed \cup {u}
Change(u, field, value) ==
    [intended EXCEPT ![u] = IF @ = NoRow THEN @ ELSE [@ EXCEPT ![field] = value]]
Tables == <<url, channel, records, tagged>>
Caches == <<visits, metadata, served>>

\* createUrl: a code that no URL has; an alias is looked for among codes only.
CreateCode(r, code, alias) ==
    /\ At(r, "create", "start")
    /\ code \notin Codes
    /\ req' = [req EXCEPT ![r] = [@ EXCEPT !.pc = IF alias = NoSlug THEN "lookup" ELSE "alias",
            !.u = r + 1,
            !.row = [code |-> code, alias |-> alias, archived |-> FALSE, private |-> FALSE,
                     splash |-> FALSE, protected |-> FALSE, limit |-> 0, meta |-> FALSE,
                     channels |-> {}, clicks |-> 0, uniques |-> 0, impressions |-> 0, seen |-> {}]]]
    /\ UNCHANGED <<Tables, Caches, job, mix, ghosts, failures>>

\* Looks among the aliases instead of the codes.
AliasTakenMutant(alias) == alias \in {url[u].alias : u \in Exists}
AliasTaken(alias) == alias \in Codes

CreateAlias(r) ==
    /\ At(r, "create", "alias")
    /\ IF AliasTaken(req[r].row.alias) THEN Done(r)
       ELSE GoOn(r, "lookup", [req[r].row EXCEPT !.seen = Exists])
    /\ UNCHANGED <<Tables, Caches, job, mix, ghosts, failures>>

\* The channels asked for, and cached metadata of the page.
CreateLookup(r, cs) ==
    /\ At(r, "create", "lookup")
    /\ GoOn(r, "insert", [req[r].row EXCEPT !.meta = metadata, !.channels = cs \cap channel])
    /\ UNCHANGED <<Tables, Caches, job, mix, ghosts, failures>>

\* The insert, and the metadata job, which is queued before the commit.
CreateInsert(r) ==
    LET row == req[r].row IN
    /\ At(r, "create", "insert")
    /\ ~Blocked(r, row)
    /\ IF Clash(r + 1, row) \/ ~(row.channels \subseteq channel)
       THEN Done(r) /\ UNCHANGED job
       ELSE /\ Goto(r, "commit")
            /\ IF row.meta THEN UNCHANGED job
               ELSE Enqueue(r, Job(r, "metadata", NoSlug, "CLICK", r + 1))
    /\ UNCHANGED <<Tables, Caches, mix, ghosts, failures>>

CreateCommit(r) ==
    /\ At(r, "create", "commit")
    /\ url' = [url EXCEPT ![r + 1] = req[r].row]
    /\ Done(r)
    /\ Wrote(r + 1)
    /\ intended' = [intended EXCEPT ![r + 1] = Fields(url'[r + 1])]
    /\ UNCHANGED <<channel, records, tagged, Caches, job, mix, disturbed, overridden, failures>>

-----------------------------------------------------------------------------
\* updateUrl, for a request; only an alias that is given is validated.
UpdateLoad(r, u, edit) ==
    /\ At(r, "update", "start")
    /\ IF u \notin Exists THEN Done(r)
       ELSE req' = [req EXCEPT ![r] = [@ EXCEPT
                !.pc = IF "alias" \in edit.sets /\ edit.to.alias # NoSlug THEN "alias" ELSE "save",
                !.u = u, !.row = url[u], !.edit = edit, !.version = version[u]]]
    /\ UNCHANGED <<Tables, Caches, job, mix, ghosts, failures>>

UpdateAlias(r) ==
    /\ At(r, "update", "alias")
    /\ IF AliasTaken(req[r].edit.to.alias) THEN Done(r)
       ELSE GoOn(r, "save", [req[r].row EXCEPT !.seen = Exists])
    /\ UNCHANGED <<Tables, Caches, job, mix, ghosts, failures>>

\* TypeORM's save: every column and the channels become those of the row in
\* memory; a row that is gone is inserted again.
Refused(u, row) == Clash(u, row) \/ ~(row.channels \subseteq channel)
Stored(u, row, n) ==
    /\ url' = [url EXCEPT ![u] = row]
    /\ Wrote(u)
    /\ Spoils(u, n)

\* TypeORM's merge: what is absent stays as it was loaded.
Edited(row, edit) == [row EXCEPT
    !.code = IF "code" \in edit.sets THEN edit.to.code ELSE @,
    !.alias = IF "alias" \in edit.sets THEN edit.to.alias ELSE @,
    !.archived = IF "archived" \in edit.sets THEN edit.to.archived ELSE @,
    !.private = IF "private" \in edit.sets THEN edit.to.private ELSE @,
    !.splash = IF "splash" \in edit.sets THEN edit.to.splash ELSE @,
    !.protected = IF "protected" \in edit.sets THEN edit.to.protected ELSE @,
    !.limit = IF "limit" \in edit.sets THEN edit.to.limit ELSE @,
    !.meta = IF "meta" \in edit.sets THEN edit.to.meta ELSE @]
\* An absent alias is stored as none.
MergedMutant(row, edit) == [Edited(row, edit) EXCEPT !.alias = edit.to.alias]
Merged(row, edit) == [Edited(row, edit) EXCEPT
    !.uniques = IF "uniques" \in edit.sets THEN edit.to.uniques ELSE @]

UpdateSave(r) ==
    LET q == req[r]
        row == Merged(q.row, q.edit)
        \* ghost: what the edit gave that no handler checks
        Marks(set, field) == IF field \in q.edit.sets THEN set \cup {q.u} ELSE set
    IN
    /\ At(r, "update", "save")
    /\ ~Blocked(r, row)
    /\ Done(r)
    /\ IF Refused(q.u, row) THEN UNCHANGED <<Tables, ghosts>>
       ELSE /\ Stored(q.u, row, q.version)
            /\ intended' = [intended EXCEPT ![q.u] = IF @ = NoRow THEN @ ELSE Edited(@, q.edit)]
            /\ recoded' = Marks(recoded, "code") /\ recounted' = Marks(recounted, "uniques")
            /\ UNCHANGED <<channel, records, tagged>>
    /\ UNCHANGED <<Caches, job, mix, failures>>

\* bulkUpdateUrls: one statement.
Bulk(r, us) ==
    /\ At(r, "bulk", "start")
    /\ url' = [u \in Url |-> IF u \in us \cap Exists THEN [url[u] EXCEPT !.private = TRUE] ELSE url[u]]
    /\ version' = [u \in Url |-> version[u] + (IF u \in us \cap Exists THEN 1 ELSE 0)]
    /\ intended' = [u \in Url |-> IF u \in us /\ intended[u] # NoRow
                                  THEN [intended[u] EXCEPT !.private = TRUE] ELSE intended[u]]
    /\ Done(r)
    /\ UNCHANGED <<channel, records, tagged, Caches, job, mix, disturbed, overridden, failures>>

\* The foreign keys of urls_channels_channels and analytics_channels_channels that no cascade
\* lets go: neither table loses a row with the URL.
Tied(u) == url[u].channels # {} \/ \E c \in Channel : <<u, c>> \in tagged

\* deleteUrl and bulkDeleteUrls: one statement; the records go with the row.
Delete(r, us) ==
    /\ At(r, "delete", "start")
    /\ Done(r)
    /\ IF \E u \in us \cap Exists : Tied(u) THEN UNCHANGED <<Tables, ghosts>>
       ELSE /\ url' = [u \in Url |-> IF u \in us THEN NoRow ELSE url[u]]
            /\ records' = {a \in records : a.url \notin us}
            /\ version' = [u \in Url |-> version[u] + (IF u \in us \cap Exists THEN 1 ELSE 0)]
            /\ intended' = [u \in Url |-> IF u \in us THEN NoRow ELSE intended[u]]
            /\ UNCHANGED <<channel, tagged, disturbed, overridden>>
    /\ UNCHANGED <<Caches, job, mix, failures>>

\* addItems: ownership and what the channel has already; then the missing row.
Attach(r, c, u) ==
    /\ At(r, "attach", "start")
    /\ IF c \in channel /\ u \in Exists /\ c \notin url[u].channels
       THEN req' = [req EXCEPT ![r] = [@ EXCEPT !.pc = "add", !.u = u]]
       ELSE Done(r)
    /\ UNCHANGED <<Tables, Caches, job, mix, ghosts, failures>>

Add(r, c) ==
    LET u == req[r].u IN
    /\ At(r, "attach", "add")
    /\ Done(r)
    /\ IF c \in channel /\ u \in Exists /\ c \notin url[u].channels
       THEN /\ url' = [url EXCEPT ![u] = [@ EXCEPT !.channels = url[u].channels \cup {c}]]
            /\ Wrote(u)
            /\ intended' = Change(u, "channels", url'[u].channels)
       ELSE UNCHANGED <<url, version, intended>>
    /\ UNCHANGED <<channel, records, tagged, Caches, job, mix, disturbed, overridden, failures>>

\* deleteOne: its rows in urls_channels_channels and analytics_channels_channels go with it.
Drop(r, c) ==
    /\ At(r, "drop", "start")
    /\ \A q \in Request : At(q, "create", "commit") => c \notin req[q].row.channels
    /\ channel' = channel \ {c} /\ tagged' = tagged \ (Url \X {c})
    /\ LET without(row) == [row EXCEPT !.channels = @ \ {c}] IN
        /\ url' = [u \in Url |-> IF u \in Exists THEN without(url[u]) ELSE NoRow]
        /\ intended' = [u \in Url |-> IF intended[u] = NoRow THEN NoRow ELSE without(intended[u])]
    /\ version' = [u \in Url |-> version[u] + (IF u \in Exists /\ c \in url[u].channels THEN 1 ELSE 0)]
    /\ Done(r)
    /\ UNCHANGED <<records, Caches, job, mix, disturbed, overridden, failures>>

-----------------------------------------------------------------------------
Click(r, slug) == Job(r, "analytic", slug, "CLICK", 1)
Impression(r, slug) == Job(r, "analytic", slug, "IMPRESSION", 1)

\* UrlAccessGuard lets in a crawler and whoever asks for a splash page.
LetIn(row, crawler) ==
    /\ ~row.private
    /\ crawler \/ row.splash \/ (~row.protected /\ (row.limit = 0 \/ row.clicks < row.limit))

\* GET /r/:slug, by code or alias; the interceptor queues the visit.
Visit(r, slug, crawler) ==
    /\ At(r, "visit", "start")
    /\ Done(r)
    /\ \/ /\ \A u \in Named(slug) : ~LetIn(url[u], crawler)
          /\ UNCHANGED <<job, served>>
       \/ \E u \in Named(slug) :
            /\ LetIn(url[u], crawler)
            /\ IF crawler THEN UNCHANGED <<job, served>>
               ELSE IF url[u].splash
                    THEN Enqueue(r, Impression(r, slug)) /\ served' = served \cup {slug}
                    ELSE Enqueue(r, Click(r, slug)) /\ UNCHANGED served
    /\ UNCHANGED <<Tables, visits, metadata, mix, ghosts, failures>>

\* POST /r/:slug/unlock, by code only.
Unlock(r, slug) ==
    /\ At(r, "unlock", "start")
    /\ Done(r)
    /\ IF \E u \in Exists : url[u].code = slug /\ url[u].protected
       THEN Enqueue(r, Click(r, slug)) ELSE UNCHANGED job
    /\ UNCHANGED <<Tables, Caches, mix, ghosts, failures>>

\* POST /r/:slug/confirm trusts its token and reads no row.
Confirm(r, slug) ==
    /\ At(r, "confirm", "start")
    /\ Done(r)
    /\ IF slug \in served THEN Enqueue(r, Click(r, slug)) ELSE UNCHANGED job
    /\ UNCHANGED <<Tables, Caches, mix, ghosts, failures>>

-----------------------------------------------------------------------------
Runs(r, queue, pc) == job[r].queue = queue /\ job[r].pc = pc
Step(r, pc) == job' = [job EXCEPT ![r].pc = pc]
\* Its row is of no more use: the code is the slug.
Answered(r) == job' = [job EXCEPT ![r] =
    [@ EXCEPT !.pc = "finish", !.version = 0, !.row = NoRow]]
Finished(j, pc) == [j EXCEPT !.pc = pc, !.row = NoRow, !.version = 0, !.unique = FALSE]

\* The attempt is not counted.
AttemptFailedMutant(r) == job' = [job EXCEPT ![r] = Finished(@, "waiting")]
\* BullMQ: back to the queue, or given up.
AttemptFailed(r) ==
    LET j == job[r] IN
    job' = [job EXCEPT ![r] =
        [Finished(j, IF j.tries + 1 = MaxAttempts THEN "failed" ELSE "waiting") EXCEPT !.tries = j.tries + 1]]

\* process: the row by code, so an alias names none.
TakeVisit(r) ==
    LET us == {u \in Exists : url[u].code = job[r].slug} IN
    /\ Runs(r, "analytic", "waiting")
    /\ IF us = {} THEN AttemptFailed(r)
       ELSE \E u \in us : job' = [job EXCEPT ![r] =
                [@ EXCEPT !.pc = "identity", !.u = u, !.row = url[u], !.version = version[u]]]
    /\ UNCHANGED <<Tables, Caches, req, mix, ghosts, failures>>

FindIdentity(r) ==
    LET new == \A a \in records : a.hash # Identity(job[r].row.code) IN
    /\ Runs(r, "analytic", "identity")
    /\ job' = [job EXCEPT ![r] = IF new /\ @.type = "CLICK"
                THEN [@ EXCEPT !.pc = "record", !.unique = TRUE] ELSE [@ EXCEPT !.pc = "cache"]]
    /\ UNCHANGED <<Tables, Caches, req, mix, ghosts, failures>>

\* Seen within 24 hours: no new record.
CachedVisit(r) ==
    /\ Runs(r, "analytic", "cache")
    /\ IF VisitHash(job[r].row.code, job[r].ip) \in visits
       THEN job' = [job EXCEPT ![r] = Finished(@, "completed")] ELSE Step(r, "record")
    /\ UNCHANGED <<Tables, Caches, req, mix, ghosts, failures>>

HashOf(j) == IF j.unique THEN Identity(j.row.code) ELSE VisitHash(j.row.code, j.ip)
\* No index and no foreign key on channels.
NoRecordMutant(j) == j.u \notin Exists
\* The unique index on url and hash, and the foreign keys.
NoRecord(j) == j.u \notin Exists \/ ~(j.row.channels \subseteq channel)
               \/ \E a \in records : a.url = j.u /\ a.hash = HashOf(j)

\* recordVisit: the record and clickCount, in one transaction.
RecordVisit(r) ==
    LET j == job[r] IN
    /\ Runs(r, "analytic", "record")
    /\ IF NoRecord(j)
       THEN AttemptFailed(r) /\ UNCHANGED <<Tables, ghosts>>
       ELSE /\ records' = records \cup {[url |-> j.u, hash |-> HashOf(j), unique |-> j.unique,
                                         type |-> j.type, job |-> r, try |-> j.tries]}
            /\ tagged' = tagged \cup ({j.u} \X j.row.channels)
            /\ url' = [url EXCEPT ![j.u] = [@ EXCEPT !.clicks = j.row.clicks + 1]]
            /\ Wrote(j.u) /\ Spoils(j.u, j.version)
            /\ job' = [job EXCEPT ![r] = [@ EXCEPT !.pc = "count", !.version = version[j.u] + 1]]
            /\ UNCHANGED <<channel, intended, overridden>>
    /\ UNCHANGED <<Caches, req, mix, failures>>

\* On top of what recordVisit counted already.
CountedMutant(row, j) ==
    IF j.type = "CLICK"
    THEN [row EXCEPT !.clicks = @ + 1, !.uniques = IF j.unique THEN @ + 1 ELSE @]
    ELSE [row EXCEPT !.impressions = @ + 1]
\* From the row as it was loaded.
Counted(row, j) ==
    IF j.type = "CLICK"
    THEN [row EXCEPT !.clicks = j.row.clicks + 1,
                     !.uniques = IF j.unique THEN j.row.uniques + 1 ELSE j.row.uniques]
    ELSE [row EXCEPT !.impressions = j.row.impressions + 1]

\* incrementVisitorCount: a second transaction; no row, no error.
IncrementCount(r) ==
    LET j == job[r] IN
    /\ Runs(r, "analytic", "count")
    /\ IF j.u \in Exists
       THEN url' = [url EXCEPT ![j.u] = Counted(@, j)] /\ Wrote(j.u) /\ Spoils(j.u, j.version)
       ELSE UNCHANGED <<url, version, disturbed>>
    /\ Answered(r)
    /\ UNCHANGED <<channel, records, tagged, Caches, req, mix, intended, overridden, failures>>

\* A revisit is cached, and the worker reports the job done.
Finish(r) ==
    LET j == job[r] IN
    /\ j.pc = "finish"
    /\ visits' = IF j.queue = "analytic" /\ ~j.unique
                 THEN visits \cup {VisitHash(j.slug, j.ip)} ELSE visits
    /\ job' = [job EXCEPT ![r] = Finished(@, "completed")]
    /\ UNCHANGED <<Tables, metadata, served, req, mix, ghosts, failures>>

-----------------------------------------------------------------------------
TakeMetadata(r) ==
    /\ Runs(r, "metadata", "waiting")
    /\ IF job[r].u \in Exists THEN Step(r, "fetch") ELSE AttemptFailed(r)
    /\ UNCHANGED <<Tables, Caches, req, mix, ghosts, failures>>

\* From the cache or from the page, which may not load in ten seconds.
Fetch(r) ==
    /\ Runs(r, "metadata", "fetch")
    /\ \/ Step(r, "load") /\ metadata' = TRUE
       \/ ~metadata /\ AttemptFailed(r) /\ UNCHANGED metadata
    /\ UNCHANGED <<Tables, visits, served, req, mix, ghosts, failures>>

\* updateUrl again, for the worker.
LoadForMetadata(r) ==
    LET u == job[r].u IN
    /\ Runs(r, "metadata", "load")
    /\ IF u \notin Exists THEN AttemptFailed(r)
       ELSE job' = [job EXCEPT ![r] = [@ EXCEPT !.pc = "save", !.row = url[u], !.version = version[u]]]
    /\ UNCHANGED <<Tables, Caches, req, mix, ghosts, failures>>

SaveMetadata(r) ==
    LET j == job[r]
        row == [j.row EXCEPT !.meta = TRUE]
    IN
    /\ Runs(r, "metadata", "save")
    /\ ~Blocked(r, row)
    /\ IF Refused(j.u, row) THEN AttemptFailed(r) /\ UNCHANGED <<Tables, ghosts>>
       ELSE /\ Stored(j.u, row, j.version)
            /\ intended' = Change(j.u, "meta", TRUE)
            /\ Answered(r)
            /\ UNCHANGED <<channel, records, tagged, overridden>>
    /\ UNCHANGED <<Caches, req, mix, failures>>

-----------------------------------------------------------------------------
\* A worker's attempt, or a request, ends where it is.
WorkerFails(r) ==
    /\ failures < MaxFailures
    /\ job[r].pc \notin {"none", "waiting", "completed", "failed"}
    /\ AttemptFailed(r)
    /\ disturbed' = IF job[r].pc = "count" THEN disturbed \cup {job[r].u} ELSE disturbed
    /\ failures' = failures + 1
    /\ UNCHANGED <<Tables, Caches, req, mix, version, intended, overridden>>

RequestFails(r) ==
    /\ failures < MaxFailures
    /\ req[r].pc \notin {"start", "done"}
    /\ Done(r)
    /\ failures' = failures + 1
    /\ UNCHANGED <<Tables, Caches, job, mix, ghosts>>

\* Redis: 24 hours have passed.
DayEnds ==
    /\ visits # {} /\ visits' = {}
    /\ UNCHANGED <<Tables, metadata, served, req, job, mix, ghosts, failures>>

Work(r) ==
    \/ TakeVisit(r) \/ FindIdentity(r) \/ CachedVisit(r) \/ RecordVisit(r) \/ IncrementCount(r)
    \/ Finish(r) \/ TakeMetadata(r) \/ Fetch(r) \/ LoadForMetadata(r) \/ SaveMetadata(r)

Next ==
    \/ \E r \in Request :
        \/ \E code \in Slug, alias \in Alias \cup {NoSlug} : CreateCode(r, code, alias)
        \/ CreateAlias(r) \/ CreateInsert(r) \/ CreateCommit(r) \/ UpdateAlias(r) \/ UpdateSave(r)
        \/ \E cs \in {{}, Channel} : CreateLookup(r, cs)
        \/ \E u \in Url, edit \in Edits : UpdateLoad(r, u, edit)
        \/ \E us \in SUBSET Url \ {{}} : Bulk(r, us) \/ Delete(r, us)
        \/ \E c \in Channel : Drop(r, c) \/ Add(r, c) \/ \E u \in Url : Attach(r, c, u)
        \/ \E slug \in Slug :
            \/ \E crawler \in BOOLEAN : Visit(r, slug, crawler)
            \/ Unlock(r, slug) \/ Confirm(r, slug)
        \/ Work(r) \/ WorkerFails(r) \/ RequestFails(r)
    \/ DayEnds

Spec == Init /\ [][Next]_vars

\* A worker takes the next job and goes on with the one it has; an open
\* transaction ends.
FairSpec == Spec /\ \A r \in Request : WF_vars(Work(r)) /\ WF_vars(CreateCommit(r))

-----------------------------------------------------------------------------
(***************************************************************************)
(* The counters never run ahead of the visits: clickCount, uniqueClicks and *)
(* impressionCount are at most the records of each kind, whatever jobs count *)
(* from old rows, are tried again or are overtaken by a save of the whole    *)
(* row (recordVisit, incrementVisitorCount, updateUrl).  An edit may give    *)
(* uniqueClicks any value; the other two counters it cannot reach.           *)
(***************************************************************************)
CountsBelowRecords == \A u \in Exists : intended[u] # NoRow =>
    /\ url[u].clicks <= Cardinality(Of(u))
    /\ u \notin recounted => url[u].uniques <= Cardinality({a \in Of(u) : a.unique})
    /\ url[u].impressions <= Cardinality({a \in Of(u) : a.type = "IMPRESSION"})

Counting(u) == \E r \in Request : job[r].pc = "count" /\ job[r].u = u

(***************************************************************************)
(* Nothing is lost on a URL unless a request or a worker wrote it from a row *)
(* read before somebody else's write, or an attempt died between the two     *)
(* counts: its fields are the last ones set, a deleted URL stays deleted,     *)
(* and its counters equal its records, uniqueClicks unless an edit gave it a  *)
(* value (updateUrl, bulkUpdateUrls, deleteUrl, addItems, the two workers).   *)
(***************************************************************************)
ChangesKept == \A u \in Url \ disturbed :
    /\ u \in Exists <=> intended[u] # NoRow
    /\ u \in Exists =>
        /\ Fields(url[u]) = intended[u]
        /\ url[u].clicks = Cardinality(Of(u))
        /\ ~Counting(u) =>
            /\ u \notin recounted => url[u].uniques = Cardinality({a \in Of(u) : a.unique})
            /\ url[u].impressions = Cardinality({a \in Of(u) : a.type = "IMPRESSION"})

(***************************************************************************)
(* A visit leaves one record however often its job is tried, and a second,   *)
(* which is not unique, only if an attempt died after the first (process).   *)
(* After such a death, what it recorded on a URL whose code was edited since  *)
(* does not count: the code may be another URL's when the job is tried again. *)
(***************************************************************************)
RecordedPerVisit == \A r \in Request :
    LET all == {a \in records : a.job = r}
        mine == {a \in all : a.url \notin recoded}
    IN
    /\ Cardinality(mine) <= 1 + (IF job[r].tries > 0 THEN 1 ELSE 0)
    /\ Cardinality({a \in mine : a.unique}) <= 1 /\ Cardinality({a \in mine : ~a.unique}) <= 1
    /\ failures = 0 => Cardinality(all) <= 1

(***************************************************************************)
(* A slug names two URLs only if one's code was drawn, given by an edit, or  *)
(* became visible after the other's alias was checked against the codes      *)
(* (validateAlias; generateAndValidateCode does not look at aliases, and     *)
(* updateUrl at neither for a code).                                        *)
(***************************************************************************)
AliasChosenFirst == \A u, v \in Exists :
    u # v /\ url[u].alias = url[v].code => v \notin url[u].seen \/ v \in recoded

(***************************************************************************)
(* Every job ends: however often visits and creations fill the two queues,   *)
(* they run empty again, each job completed or given up after its attempts,  *)
(* also a visit by alias and the metadata of a URL that was never committed. *)
(***************************************************************************)
JobsSettle == []<>(\A r \in Request : job[r].pc \in {"none", "completed", "failed"})
=============================================================================
