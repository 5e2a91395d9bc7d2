-------------------------- MODULE UrlCountsProofs --------------------------
(***************************************************************************)
(* Proofs about the counters and the fields of URLs. A counter is copied   *)
(* by everybody who loads the row and comes back with a save, so that the  *)
(* bound on the row holds only because it holds on every copy: the ones    *)
(* that edits and jobs hold, and the row that a job is about to store.     *)
(* What a copy of an existing URL says is bounded by the records for good, *)
(* since records only go with their URL. A URL is spoilt when a row is     *)
(* saved over another's write. While it is not, a copy as new as the row   *)
(* is the row, whose clicks are those of the records; of the jobs between  *)
(* their record and their counters one at most has not been overtaken, and *)
(* it stores what is missing. One that was overtaken spoils the URL when   *)
(* it stores. An edit may give uniqueClicks a value, which every copy made *)
(* since then has: of such a URL nothing is said of that counter.          *)
(***************************************************************************)
EXTENDS UrlsProofs

FieldsOf == [code : Slug, alias : Slug \cup {NoSlug}, archived : BOOLEAN, private : BOOLEAN,
             splash : BOOLEAN, protected : BOOLEAN, limit : 0..1, meta : BOOLEAN,
             channels : SUBSET Channel]
GhostTypes ==
    /\ IsFiniteSet(records)
    /\ intended \in [Url -> FieldsOf \cup {NoRow}]
    /\ disturbed \subseteq Url

Uniques(u) == {a \in Of(u) : a.unique}
Impressions(u) == {a \in Of(u) : a.type = "IMPRESSION"}

\* A job between its record and its counters.
Counts(r) == job[r].queue = "analytic" /\ job[r].pc = "count"
CountsOf(u) == {r \in Request : Counts(r) /\ job[r].u = u}
\* Somebody has written the row after the job's record.
Late(r) == job[r].version # version[job[r].u]

-----------------------------------------------------------------------------
(* The counters that no edit gave are below the records, on the row and on *)
(* every copy of it.                                                       *)

Below(u, row) == intended[u] # NoRow =>
    /\ row.clicks <= Cardinality(Of(u))
    /\ u \notin recounted => row.uniques <= Cardinality(Uniques(u))
    /\ row.impressions <= Cardinality(Impressions(u))
Zero(row) == row.clicks = 0 /\ row.uniques = 0 /\ row.impressions = 0

CopiesBelow(r) ==
    /\ Creating(r) => Zero(req[r].row)
    /\ Editing(r) => Below(req[r].u, req[r].row)
    /\ job[r].row # NoRow => Below(job[r].u, job[r].row)
    /\ Counts(r) => Below(job[r].u, Counted(job[r].row, job[r]))

-----------------------------------------------------------------------------
(* A URL that nobody has spoilt. *)

Exact(u, row) ==
    /\ u \notin recounted => row.uniques = Cardinality(Uniques(u))
    /\ row.impressions = Cardinality(Impressions(u))

\* A copy that is as new as the row is the row.
Same(row, copy) == row = [copy EXCEPT !.seen = row.seen]
RequestCurrent(r) == LET q == req[r] IN
    Editing(r) =>
        /\ q.version <= version[q.u]
        /\ q.version = version[q.u] /\ q.u \notin disturbed => q.u \in Exists /\ Same(url[q.u], q.row)
JobCurrent(r) == LET j == job[r] IN
    j.row # NoRow =>
        /\ j.version <= version[j.u]
        /\ j.version = version[j.u] /\ j.u \notin disturbed =>
            /\ j.u \in Exists
            /\ url[j.u] = IF Counts(r) THEN [j.row EXCEPT !.clicks = @ + 1] ELSE j.row

\* The counters are those of the records, or will be when the only job that counts has done so.
Settled(u) ==
    \/ \E r \in CountsOf(u) : Late(r)
    \/ CountsOf(u) = {} /\ Exact(u, url[u])
    \/ \E r \in CountsOf(u) : CountsOf(u) = {r} /\ Exact(u, Counted(url[u], job[r]))

Unspoilt(u) ==
    /\ u \in Exists <=> intended[u] # NoRow
    /\ u \in Exists =>
        /\ Fields(url[u]) = intended[u]
        /\ url[u].clicks = Cardinality(Of(u))
        /\ Settled(u)

CopiesFit(r) == CopiesBelow(r) /\ RequestCurrent(r) /\ JobCurrent(r)
RowsBelow == \A u \in Exists : Below(u, url[u])
RowsKept == \A u \in Url \ disturbed : Unspoilt(u)
CInv == IInv /\ GhostTypes /\ RowsBelow /\ RowsKept /\ \A r \in Request : CopiesFit(r)

-----------------------------------------------------------------------------
\* Types, and what copies there are.
Facts ==
    /\ url \in [Url -> Row \cup {NoRow}] /\ version \in [Url -> Nat]
    /\ req \in [Request -> RequestState] /\ job \in [Request -> JobState]
    /\ records \subseteq Record
    /\ \A u \in Url : u \in Exists <=> url[u] \in Row
    /\ \A r \in Request :
        /\ req[r] \in RequestState /\ job[r] \in JobState
        /\ Creating(r) => req[r].row \in Row
        /\ Editing(r) => req[r].u \in Url /\ req[r].row \in Row /\ req[r].edit \in Edit
        /\ job[r].u \in Url
        /\ Counts(r) => job[r].row \in Row
        /\ job[r].row # NoRow => job[r].row \in Row

LEMMA Known == IInv => Facts
<1> SUFFICES ASSUME IInv PROVE Facts
    OBVIOUS
<1>1. Typed
    BY DEF IInv, RowsInv, RowsOK
<1>2. PICK code \in Coding : Fits(code)
    BY DEF IInv, RowsInv
<1>3. ASSUME NEW r \in Request
      PROVE  /\ req[r] \in RequestState /\ job[r] \in JobState
             /\ Creating(r) => req[r].row \in Row
             /\ Editing(r) => req[r].u \in Url /\ req[r].row \in Row /\ req[r].edit \in Edit
    BY <1>1, <1>2 DEF Typed, Fits, RequestFits
<1>4. ASSUME NEW r \in Request
      PROVE  /\ job[r].u \in Url
             /\ Counts(r) => job[r].row \in Row
             /\ job[r].row # NoRow => job[r].row \in Row
    <2>1. job[r].u \in Url /\ job[r].row \in Row \cup {NoRow}
        BY <1>3 DEF JobState
    <2>2. Counts(r) => job[r].row # NoRow
        BY <1>2 DEF Fits, JobFits, Counts, Holding
    <2> QED BY <2>1, <2>2
<1>5. \A u \in Url : u \in Exists <=> url[u] \in Row
    BY <1>1, ExistsIs
<1> QED BY <1>1, <1>3, <1>4, <1>5 DEF Facts, Typed, IInv, RowsInv, GhostsOK

LEMMA KnownNext == IInv' => Facts'
BY Known, PTL

\* Nobody has a copy, a job or a record of a URL that is yet to be committed.
LEMMA Unborn ==
    ASSUME IInv, NEW r \in Request, At(r, "create", "commit")
    PROVE  /\ r + 1 \in Url \ Exists /\ Of(r + 1) = {}
           /\ \A x \in Request :
                /\ Editing(x) => req[x].u # r + 1
                /\ job[x].row # NoRow => job[x].u # r + 1
                /\ Counts(x) => job[x].u # r + 1
<1>1. PICK code \in Coding : Fits(code)
    BY DEF IInv, RowsInv
<1>2. code[r + 1] = NoSlug /\ r + 1 \in Url
    BY <1>1, Numbers DEF Fits, RequestFits, At
<1>3. ASSUME r + 1 \in Exists PROVE FALSE
    BY <1>1, <1>2, <1>3 DEF Fits, RowsFit, Coded
<1>4. ASSUME NEW a \in records, a.url = r + 1 PROVE FALSE
    BY <1>3, <1>4 DEF IInv, RowsInv, RowsOK, RecordsOfRows
<1>5. ASSUME NEW x \in Request
      PROVE  /\ Editing(x) => req[x].u # r + 1
             /\ job[x].row # NoRow => job[x].u # r + 1
    <2>1. Editing(x) => code[req[x].u] # NoSlug
        BY <1>1 DEF Fits, RequestFits, Coded
    <2>2. job[x].row # NoRow => code[job[x].u] # NoSlug
        BY <1>1 DEF Fits, JobFits, Coded
    <2> QED BY <1>2, <2>1, <2>2
<1>6. \A x \in Request : Counts(x) => job[x].row # NoRow
    BY Known, RowIs DEF Facts
<1> QED BY <1>2, <1>3, <1>4, <1>5, <1>6 DEF Of

-----------------------------------------------------------------------------
(* Records and their numbers. *)

LEMMA Parts ==
    ASSUME NEW S, IsFiniteSet(S), NEW T, T \subseteq S
    PROVE  IsFiniteSet(T) /\ Cardinality(T) \in Nat
BY FS_Subset, FS_CardinalityType

LEMMA Numbered ==
    ASSUME GhostTypes, NEW u
    PROVE  /\ IsFiniteSet(Of(u)) /\ IsFiniteSet(Uniques(u)) /\ IsFiniteSet(Impressions(u))
           /\ Cardinality(Of(u)) \in Nat /\ Cardinality(Uniques(u)) \in Nat
           /\ Cardinality(Impressions(u)) \in Nat
<1>1. Of(u) \subseteq records /\ Uniques(u) \subseteq records /\ Impressions(u) \subseteq records
    BY DEF Of, Uniques, Impressions
<1>2. IsFiniteSet(Of(u)) /\ IsFiniteSet(Uniques(u)) /\ IsFiniteSet(Impressions(u))
    BY <1>1, FS_Subset DEF GhostTypes
<1> QED BY <1>2, FS_CardinalityType

\* The URL loses no record, unless it is deleted.
Grows(u) ==
    /\ intended'[u] # NoRow => intended[u] # NoRow /\ Of(u) \subseteq Of(u)'
    /\ u \in recounted => u \in recounted'

LEMMA BelowGrows ==
    ASSUME GhostTypes, GhostTypes', NEW u, Grows(u), NEW row \in Row, Below(u, row)
    PROVE  Below(u, row)'
<1> SUFFICES ASSUME intended'[u] # NoRow PROVE Below(u, row)'
    BY DEF Below
<1>1. intended[u] # NoRow /\ Of(u) \subseteq Of(u)' /\ (u \in recounted => u \in recounted')
    BY DEF Grows
<1>2. Uniques(u) \subseteq Uniques(u)' /\ Impressions(u) \subseteq Impressions(u)'
    BY <1>1 DEF Uniques, Impressions
<1>3. /\ IsFiniteSet(Of(u)') /\ IsFiniteSet(Uniques(u)') /\ IsFiniteSet(Impressions(u)')
      /\ Cardinality(Of(u)') \in Nat /\ Cardinality(Uniques(u)') \in Nat
      /\ Cardinality(Impressions(u)') \in Nat
    <2>1. /\ Of(u)' \subseteq records' /\ Uniques(u)' \subseteq records'
          /\ Impressions(u)' \subseteq records'
        BY DEF Of, Uniques, Impressions
    <2> QED BY <2>1, Parts DEF GhostTypes
<1>4. /\ Cardinality(Of(u)) <= Cardinality(Of(u)')
      /\ Cardinality(Uniques(u)) <= Cardinality(Uniques(u)')
      /\ Cardinality(Impressions(u)) <= Cardinality(Impressions(u)')
    BY <1>1, <1>2, <1>3, FS_Subset
<1>5. /\ Cardinality(Of(u)) \in Nat /\ Cardinality(Uniques(u)) \in Nat
      /\ Cardinality(Impressions(u)) \in Nat
    BY Numbered
<1>6. row.clicks \in Nat /\ row.uniques \in Nat /\ row.impressions \in Nat
    BY RowIs
<1> QED BY <1>1, <1>3, <1>4, <1>5, <1>6 DEF Below

-----------------------------------------------------------------------------
(* What a step leaves as it was. *)

Untouched(u) == url'[u] = url[u] /\ version'[u] = version[u]
Touched(u) == Untouched(u) \/ version'[u] > version[u]
\* Nobody has a copy of it.
Free(u) == \A x \in Request :
    /\ Editing(x) => req[x].u # u
    /\ job[x].row # NoRow => job[x].u # u
    /\ Counts(x) => job[x].u # u
Steady ==
    /\ disturbed \subseteq disturbed' /\ recounted \subseteq recounted'
    /\ \A u \in Url : Touched(u) /\ (Grows(u) \/ Free(u))

\* The row that a request edits, and the one that a job holds.
SameRequest(x) == Editing(x)' =>
    /\ Editing(x) /\ req'[x].u = req[x].u /\ req'[x].version = req[x].version
    /\ Same(req'[x].row, req[x].row)
LoadedRequest(x) == Editing(x)' => \E u \in Url :
    /\ u = req'[x].u
    /\ u \in Exists /\ Untouched(u) /\ Grows(u) /\ req'[x].row = url[u] /\ req'[x].version = version[u]
StartsAtZero(x) == Creating(x)' => Zero(req'[x].row)
SameJob(x) ==
    \/ job'[x] = job[x]
    \/ ~Counts(x)' /\ job'[x].row = NoRow
    \/ /\ ~Counts(x)' /\ ~Counts(x)
       /\ job'[x].u = job[x].u /\ job'[x].row = job[x].row /\ job'[x].version = job[x].version
LoadedJob(x) == \E u \in Url :
    /\ u = job'[x].u
    /\ ~Counts(x)' /\ u \in Exists /\ Untouched(u) /\ Grows(u) /\ job'[x].row = url[u] /\ job'[x].version = version[u]

\* A copy of a row without its ghost.
LEMMA SameIs ==
    ASSUME NEW row \in Row, NEW copy \in Row, Same(row, copy)
    PROVE  /\ row.clicks = copy.clicks /\ row.uniques = copy.uniques /\ row.impressions = copy.impressions
           /\ Fields(row) = Fields(copy)
           /\ row.code = copy.code
           /\ \A third \in Row : Same(third, row) <=> Same(third, copy)
BY DEF Same, Row, Fields

\* The row once a job has counted on it.
LEMMA CountedRow ==
    ASSUME NEW row \in Row, NEW j \in JobState, j.row \in Row
    PROVE  /\ Counted(row, j) \in Row
           /\ Fields(Counted(row, j)) = Fields(row)
           /\ Counted(row, j).clicks = IF j.type = "CLICK" THEN j.row.clicks + 1 ELSE row.clicks
           /\ Counted(row, j).uniques =
                 IF j.type = "CLICK" THEN IF j.unique THEN j.row.uniques + 1 ELSE j.row.uniques ELSE row.uniques
           /\ Counted(row, j).impressions =
                 IF j.type = "CLICK" THEN row.impressions ELSE j.row.impressions + 1
<1>1. j.row.clicks + 1 \in Nat /\ j.row.uniques + 1 \in Nat /\ j.row.uniques \in Nat /\ j.row.impressions + 1 \in Nat
    BY RowIs
<1> DEFINE n == IF j.type = "CLICK" THEN j.row.clicks + 1 ELSE row.clicks
           m == IF j.type = "CLICK" THEN IF j.unique THEN j.row.uniques + 1 ELSE j.row.uniques ELSE row.uniques
           i == IF j.type = "CLICK" THEN row.impressions ELSE j.row.impressions + 1
<1>2. n \in Nat /\ m \in Nat /\ i \in Nat
    BY <1>1, RowIs
<1>3. Counted(row, j) = [row EXCEPT !.clicks = n, !.uniques = m, !.impressions = i]
    BY DEF Counted, Row
<1> HIDE DEF n, m, i
<1>4. /\ [row EXCEPT !.clicks = n, !.uniques = m, !.impressions = i] \in Row
      /\ Fields([row EXCEPT !.clicks = n, !.uniques = m, !.impressions = i]) = Fields(row)
      /\ [row EXCEPT !.clicks = n, !.uniques = m, !.impressions = i].clicks = n
      /\ [row EXCEPT !.clicks = n, !.uniques = m, !.impressions = i].uniques = m
      /\ [row EXCEPT !.clicks = n, !.uniques = m, !.impressions = i].impressions = i
    BY <1>2 DEF Row, Fields
<1> QED BY <1>3, <1>4 DEF n, m, i

LEMMA SameSelf == \A row \in Row : Same(row, row)
BY DEF Same, Row

LEMMA RequestStays ==
    ASSUME CInv, IInv', GhostTypes', Steady, NEW x \in Request, StartsAtZero(x),
           SameRequest(x) \/ LoadedRequest(x)
    PROVE  /\ RequestCurrent(x)' /\ (Creating(x)' => Zero(req'[x].row))
           /\ Editing(x)' => Below(req[x].u, req[x].row)'
<1> SUFFICES ASSUME Editing(x)'
             PROVE  RequestCurrent(x)' /\ Below(req[x].u, req[x].row)'
    BY DEF StartsAtZero, RequestCurrent
<1>1. PICK q : q = req'[x]
    OBVIOUS
<1>2. Facts /\ Facts'
    BY Known, KnownNext DEF CInv
<1>3. q.u \in Url /\ q.row \in Row /\ q.version \in Nat
    BY <1>1, <1>2 DEF Facts, RequestState
<1> DEFINE u == q.u
<1>4. version[u] \in Nat /\ version'[u] \in Nat /\ (u \in Exists <=> url[u] \in Row)
      /\ (u \in Exists' <=> url'[u] \in Row)
    BY <1>2, <1>3 DEF Facts
<1>5. Touched(u) /\ (u \in disturbed => u \in disturbed')
    BY <1>3 DEF Steady
<1>6. CASE LoadedRequest(x)
    <2>1. u \in Exists /\ Untouched(u) /\ Grows(u) /\ q.row = url[u] /\ q.version = version[u]
        BY <1>1, <1>6 DEF LoadedRequest
    <2>2. Below(u, q.row)
        BY <2>1 DEF CInv, RowsBelow
    <2>3. Below(u, q.row)'
        BY <1>3, <2>1, <2>2, BelowGrows DEF CInv
    <2>4. q.version <= version'[u] /\ u \in Exists' /\ Same(url'[u], q.row)
        BY <1>3, <1>4, <2>1, SameSelf DEF Untouched
    <2> HIDE DEF u
    <2> QED BY <1>1, <2>3, <2>4 DEF RequestCurrent, Below, u
<1>7. CASE SameRequest(x)
    <2>1. PICK p : p = req[x]
        OBVIOUS
    <2>2. Editing(x) /\ u = p.u /\ q.version = p.version /\ Same(q.row, p.row)
        BY <1>1, <1>7, <2>1 DEF SameRequest
    <2>3. p.row \in Row /\ Below(u, p.row) /\ RequestCurrent(x) /\ ~Free(u)
        BY <1>2, <2>1, <2>2 DEF Facts, CInv, CopiesFit, CopiesBelow, Free
    <2>4. Below(u, p.row)'
        BY <1>3, <2>3, BelowGrows DEF CInv, Steady
    <2>5. Below(u, q.row)'
        BY <1>3, <2>2, <2>3, <2>4, SameIs DEF Below
    <2>6. q.version <= version[u]
          /\ (q.version = version[u] /\ u \notin disturbed => u \in Exists /\ Same(url[u], p.row))
        BY <2>1, <2>2, <2>3 DEF RequestCurrent
    <2>7. q.version <= version'[u]
          /\ (q.version = version'[u] => q.version = version[u] /\ Untouched(u))
        BY <1>3, <1>4, <1>5, <2>6 DEF Touched, Untouched
    <2>8. ASSUME q.version = version'[u], u \notin disturbed'
          PROVE  u \in Exists' /\ Same(url'[u], q.row)
        BY <1>3, <1>4, <1>5, <2>2, <2>3, <2>6, <2>7, <2>8, SameIs DEF Untouched
    <2> HIDE DEF u
    <2> QED BY <1>1, <2>5, <2>7, <2>8 DEF RequestCurrent, Below, u
<1> QED BY <1>6, <1>7

LEMMA JobStays ==
    ASSUME CInv, IInv', GhostTypes', Steady, NEW x \in Request, SameJob(x) \/ LoadedJob(x)
    PROVE  /\ JobCurrent(x)'
           /\ job'[x].row # NoRow => Below(job[x].u, job[x].row)'
           /\ Counts(x)' => Below(job[x].u, Counted(job[x].row, job[x]))'
<1>1. PICK j : j = job'[x]
    OBVIOUS
<1>2. PICK i : i = job[x]
    OBVIOUS
<1>3. Facts /\ Facts'
    BY Known, KnownNext DEF CInv
<1>4. j.u \in Url /\ i.u \in Url /\ j \in JobState /\ i \in JobState
      /\ (Counts(x) => i.row \in Row) /\ (i.row # NoRow => i.row \in Row)
      /\ (Counts(x)' => j.row \in Row) /\ (j.row # NoRow => j.row \in Row)
    BY <1>1, <1>2, <1>3 DEF Facts
<1> DEFINE u == j.u
<1>5. version[u] \in Nat /\ version'[u] \in Nat /\ (u \in Exists <=> url[u] \in Row)
      /\ (u \in Exists' <=> url'[u] \in Row) /\ j.version \in Nat
    BY <1>3, <1>4 DEF Facts, JobState
<1>6. Touched(u) /\ (u \in disturbed => u \in disturbed')
    BY <1>4 DEF Steady
<1>7. CASE j.row = NoRow /\ ~Counts(x)'
    BY <1>1, <1>7 DEF JobCurrent
<1>8. CASE LoadedJob(x)
    <2>1. /\ ~Counts(x)' /\ u \in Exists /\ Untouched(u) /\ Grows(u)
          /\ j.row = url[u] /\ j.version = version[u] /\ j.row \in Row
        BY <1>1, <1>5, <1>8 DEF LoadedJob
    <2>2. Below(u, j.row)
        BY <2>1 DEF CInv, RowsBelow
    <2>3. Below(u, j.row)'
        BY <2>1, <2>2, BelowGrows DEF CInv
    <2>4. j.version <= version'[u] /\ u \in Exists' /\ url'[u] = j.row
        BY <1>5, <2>1 DEF Untouched
    <2> HIDE DEF u
    <2> QED BY <1>1, <2>1, <2>3, <2>4 DEF JobCurrent, Below, u
<1>9. CASE /\ j.row # NoRow \/ Counts(x)'
           /\ u = i.u /\ j.row = i.row /\ j.version = i.version /\ (Counts(x)' <=> Counts(x))
           /\ Counts(x) => j = i
    <2>1. j.row \in Row /\ i.row # NoRow /\ ~Free(u)
        BY <1>2, <1>4, <1>9, RowIs DEF Free
    <2>2. Below(u, j.row) /\ JobCurrent(x) /\ (Counts(x) => Below(u, Counted(j.row, j)))
        BY <1>2, <1>9, <2>1 DEF CInv, CopiesFit, CopiesBelow
    <2>3. Grows(u)
        BY <1>4, <2>1 DEF Steady
    <2>4. Below(u, j.row)'
        BY <2>1, <2>2, <2>3, BelowGrows DEF CInv
    <2>5. Counts(x) => Below(u, Counted(j.row, j))'
        <3>1. Counted(j.row, j) \in Row
            BY <1>4, <2>1, CountedRow
        <3> QED BY <2>2, <2>3, <3>1, BelowGrows DEF CInv
    <2>6. j.version <= version[u]
          /\ (j.version = version[u] /\ u \notin disturbed =>
                u \in Exists /\ url[u] = IF Counts(x) THEN [j.row EXCEPT !.clicks = @ + 1] ELSE j.row)
        BY <1>2, <1>9, <2>1, <2>2 DEF JobCurrent
    <2>7. j.version <= version'[u]
          /\ (j.version = version'[u] => j.version = version[u] /\ Untouched(u))
        BY <1>5, <1>6, <2>6 DEF Touched, Untouched
    <2>8. j.version = version'[u] /\ u \notin disturbed' =>
            u \in Exists' /\ url'[u] = IF Counts(x)' THEN [j.row EXCEPT !.clicks = @ + 1] ELSE j.row
        BY <1>5, <1>6, <1>9, <2>6, <2>7 DEF Untouched
    <2> HIDE DEF u
    <2>9. JobCurrent(x)'
        BY <1>1, <2>7, <2>8 DEF JobCurrent, u
    <2> QED BY <1>1, <1>9, <2>4, <2>5, <2>9 DEF Below, Counted, u
<1>10. CASE SameJob(x)
    <2>1. CASE job'[x] = job[x]
        BY <1>1, <1>2, <1>7, <1>9, <2>1 DEF Counts
    <2>2. CASE ~Counts(x)' /\ job'[x].row = NoRow
        BY <1>1, <1>7, <2>2
    <2>3. CASE /\ ~Counts(x)' /\ ~Counts(x)
               /\ job'[x].u = job[x].u /\ job'[x].row = job[x].row /\ job'[x].version = job[x].version
        BY <1>1, <1>2, <1>7, <1>9, <2>3
    <2> QED BY <1>10, <2>1, <2>2, <2>3 DEF SameJob
<1> QED BY <1>8, <1>10

LEMMA CopiesStay ==
    ASSUME CInv, IInv', GhostTypes', Steady, NEW x \in Request, StartsAtZero(x),
           SameRequest(x) \/ LoadedRequest(x), SameJob(x) \/ LoadedJob(x)
    PROVE  CopiesFit(x)'
BY RequestStays, JobStays DEF CopiesFit, CopiesBelow

\* A step of r leaves the others alone.
StepOf(r) == mix' = mix /\ \A x \in Request \ {r} : req'[x] = req[x] /\ job'[x] = job[x]

LEMMA OthersCopies ==
    ASSUME CInv, IInv', GhostTypes', Steady, NEW r \in Request, StepOf(r), NEW x \in Request \ {r}
    PROVE  CopiesFit(x)'
<1>1. req'[x] = req[x] /\ job'[x] = job[x] /\ mix' = mix
    BY DEF StepOf
<1>2. (Creating(x)' <=> Creating(x)) /\ (Editing(x)' <=> Editing(x))
    BY <1>1 DEF Creating, Editing
<1>3. Facts
    BY Known DEF CInv
<1>4. StartsAtZero(x) /\ SameRequest(x) /\ SameJob(x)
    BY <1>1, <1>2, <1>3, SameSelf DEF StartsAtZero, SameRequest, SameJob, CInv, CopiesFit, CopiesBelow, Facts
<1> QED BY <1>4, CopiesStay

-----------------------------------------------------------------------------
(* Rows that nobody has spoilt. *)

SameCounts(u) == CountsOf(u)' = CountsOf(u) /\ \A x \in CountsOf(u) : job'[x] = job[x]

LEMMA CountsStill ==
    ASSUME NEW r \in Request, StepOf(r), job'[r] = job[r] \/ (~Counts(r) /\ ~Counts(r)'), NEW u
    PROVE  SameCounts(u)
<1>1. \A x \in Request : job'[x] = job[x] \/ (~Counts(x) /\ ~Counts(x)')
    BY DEF StepOf
<1> QED BY <1>1 DEF SameCounts, CountsOf, Counts

\* A job that counts is late once somebody has written.
LEMMA Overtaken ==
    ASSUME CInv, IInv', NEW u \in Url, version'[u] > version[u], NEW x \in CountsOf(u), job'[x] = job[x]
    PROVE  x \in CountsOf(u)' /\ Late(x)'
<1>1. PICK j : j = job[x]
    OBVIOUS
<1>2. x \in Request /\ Counts(x) /\ j.u = u
    BY <1>1 DEF CountsOf
<1>3. Facts /\ Facts'
    BY Known, KnownNext DEF CInv
<1>4. j \in JobState /\ j.row # NoRow
    BY <1>1, <1>2, <1>3, RowIs DEF Facts
<1>5. j.version <= version[u]
    BY <1>1, <1>2, <1>4 DEF CInv, CopiesFit, JobCurrent
<1>6. j.version # version'[u]
    BY <1>3, <1>4, <1>5 DEF Facts, JobState
<1> QED BY <1>1, <1>2, <1>6 DEF CountsOf, Counts, Late

LEMMA RowStays ==
    ASSUME CInv, NEW u \in Url \ disturbed', disturbed \subseteq disturbed', recounted \subseteq recounted',
           Untouched(u), intended'[u] = intended[u], Of(u)' = Of(u), SameCounts(u)
    PROVE  Unspoilt(u)'
<1>1. Unspoilt(u)
    BY DEF CInv, RowsKept
<1>2. u \in Exists' <=> u \in Exists
    BY DEF Exists, Untouched
<1>3. Uniques(u)' = Uniques(u) /\ Impressions(u)' = Impressions(u)
    BY DEF Uniques, Impressions
<1>4. ASSUME Settled(u) PROVE Settled(u)'
    <2>1. CASE \E x \in CountsOf(u) : Late(x)
        BY <2>1 DEF Settled, SameCounts, Late, CountsOf, Untouched
    <2>2. CASE CountsOf(u) = {} /\ Exact(u, url[u])
        BY <1>3, <2>2 DEF Settled, SameCounts, Exact, Untouched
    <2>3. CASE \E x \in CountsOf(u) : CountsOf(u) = {x} /\ Exact(u, Counted(url[u], job[x]))
        <3>1. PICK x \in CountsOf(u) : CountsOf(u) = {x} /\ Exact(u, Counted(url[u], job[x]))
            BY <2>3
        <3>2. x \in CountsOf(u)' /\ CountsOf(u)' = {x} /\ job'[x] = job[x] /\ url'[u] = url[u]
            BY <3>1 DEF SameCounts, Untouched
        <3>3. Exact(u, Counted(url[u], job[x]))'
            BY <1>3, <3>1, <3>2 DEF Exact, Counted
        <3> QED BY <3>2, <3>3 DEF Settled
    <2> QED BY <1>4, <2>1, <2>2, <2>3 DEF Settled
<1> QED BY <1>1, <1>2, <1>4 DEF Unspoilt, Untouched

SameCounters(row, old) ==
    row.clicks = old.clicks /\ row.uniques = old.uniques /\ row.impressions = old.impressions
\* An edit may have given uniqueClicks.
KeptCounters(u, row, old) ==
    /\ row.clicks = old.clicks /\ row.impressions = old.impressions
    /\ row.uniques = old.uniques \/ u \in recounted'

LEMMA RowWritten ==
    ASSUME CInv, IInv', NEW u \in Url \ disturbed', disturbed \subseteq disturbed', recounted \subseteq recounted',
           version'[u] > version[u], SameCounts(u), u \in Exists, u \in Exists', Of(u)' = Of(u),
           KeptCounters(u, url'[u], url[u]), Fields(url'[u]) = intended'[u], intended'[u] # NoRow
    PROVE  Unspoilt(u)'
<1>1. Unspoilt(u)
    BY DEF CInv, RowsKept
<1>2. Uniques(u)' = Uniques(u) /\ Impressions(u)' = Impressions(u)
    BY DEF Uniques, Impressions
<1>3. CASE CountsOf(u) = {}
    <2>1. Exact(u, url[u]) /\ CountsOf(u)' = {}
        BY <1>1, <1>3 DEF Unspoilt, Settled, SameCounts
    <2>2. Settled(u)'
        BY <1>2, <2>1 DEF Settled, Exact, KeptCounters
    <2> QED BY <1>1, <2>2 DEF Unspoilt, KeptCounters
<1>4. CASE CountsOf(u) # {}
    <2>1. PICK x \in CountsOf(u) : TRUE
        BY <1>4
    <2>2. Settled(u)'
        BY <2>1, Overtaken DEF Settled, SameCounts
    <2> QED BY <1>1, <2>2 DEF Unspoilt, KeptCounters
<1> QED BY <1>3, <1>4

-----------------------------------------------------------------------------
(* Steps that write no table. *)

LEMMA Together ==
    ASSUME IInv', GhostTypes', \A u \in Exists' : Below(u, url[u])',
           \A u \in Url \ disturbed' : Unspoilt(u)', \A x \in Request : CopiesFit(x)'
    PROVE  CInv'
BY DEF CInv, RowsBelow, RowsKept

LEMMA QuietCounts ==
    ASSUME CInv, IInv', NEW r \in Request, StepOf(r),
           UNCHANGED <<url, records, version, intended, disturbed, recounted>>,
           StartsAtZero(r), SameRequest(r) \/ LoadedRequest(r), SameJob(r) \/ LoadedJob(r),
           job'[r] = job[r] \/ (~Counts(r) /\ ~Counts(r)')
    PROVE  CInv'
<1>1. GhostTypes'
    BY DEF CInv, GhostTypes
<1>2. \A u \in Url : Untouched(u) /\ Grows(u) /\ intended'[u] = intended[u] /\ Of(u)' = Of(u)
    BY DEF Untouched, Grows, Of
<1>3. Steady
    BY <1>2 DEF Steady, Touched
<1>4. \A x \in Request : CopiesFit(x)'
    BY <1>1, <1>3, OthersCopies, CopiesStay
<1>5. \A u \in Url \ disturbed' : Unspoilt(u)'
    BY <1>2, CountsStill, RowStays
<1>6. \A u \in Exists' : Below(u, url[u])'
    BY DEF CInv, RowsBelow, Exists, Below, Of, Uniques, Impressions
<1> QED BY <1>1, <1>4, <1>5, <1>6, Together

\* The request that takes the step, and no job.
LEMMA RequestCounts ==
    ASSUME CInv, IInv', NEW r \in Request, NEW q, req' = [req EXCEPT ![r] = q],
           UNCHANGED <<url, records, version, intended, disturbed, recounted, job, mix>>,
           Creating(r)' => Zero(q.row), SameRequest(r) \/ LoadedRequest(r)
    PROVE  CInv'
<1>1. Facts
    BY Known DEF CInv
<1>2. req'[r] = q /\ StepOf(r) /\ SameJob(r)
    BY <1>1 DEF Facts, StepOf, SameJob
<1>3. StartsAtZero(r)
    BY <1>2 DEF StartsAtZero
<1> QED BY <1>2, <1>3, QuietCounts

\* It ends, and may queue a job.
Ends(r) == Done(r) /\ (job' = job \/ \E j : Enqueue(r, j) /\ j.pc = "waiting" /\ j.row = NoRow)
LEMMA EndsCounts ==
    ASSUME CInv, IInv', NEW r \in Request, Ends(r),
           req[r].pc \in {"start", "insert"} \/ job' = job,
           UNCHANGED <<url, records, version, intended, disturbed, recounted, mix>>
    PROVE  CInv'
<1>1. Facts
    BY Known DEF CInv
<1>2. req'[r].pc = "done" /\ \A x \in Request \ {r} : req'[x] = req[x]
    BY <1>1, IdleIs DEF Facts, Ends, Done, Idle
<1>3. StartsAtZero(r) /\ SameRequest(r)
    BY <1>2 DEF StartsAtZero, SameRequest, Creating, Editing
<1>4. CASE job' = job
    BY <1>2, <1>3, <1>4, QuietCounts DEF StepOf, SameJob
<1>5. CASE req[r].pc \in {"start", "insert"} /\ \E j : Enqueue(r, j) /\ j.pc = "waiting" /\ j.row = NoRow
    <2>1. PICK j : Enqueue(r, j) /\ j.pc = "waiting" /\ j.row = NoRow
        BY <1>5
    <2>2. job'[r] = j /\ \A x \in Request \ {r} : job'[x] = job[x]
        BY <1>1, <2>1 DEF Facts, Enqueue
    <2>3. PICK code \in Coding : Fits(code)
        BY DEF CInv, IInv, RowsInv
    <2>4. ~Counts(r) /\ ~Counts(r)' /\ SameJob(r)
        BY <1>5, <2>1, <2>2, <2>3 DEF Fits, RequestFits, Counts, SameJob
    <2> QED BY <1>2, <1>3, <2>2, <2>4, QuietCounts DEF StepOf
<1> QED BY <1>4, <1>5 DEF Ends

LEMMA CreateCodeCounts ==
    ASSUME CInv, IInv', NEW r \in Request, NEW s \in Slug, NEW alias \in Alias \cup {NoSlug}, CreateCode(r, s, alias)
    PROVE  CInv'
<1> DEFINE row == [code |-> s, alias |-> alias, archived |-> FALSE, private |-> FALSE,
                   splash |-> FALSE, protected |-> FALSE, limit |-> 0, meta |-> FALSE,
                   channels |-> {}, clicks |-> 0, uniques |-> 0, impressions |-> 0, seen |-> {}]
           pc == IF alias = NoSlug THEN "lookup" ELSE "alias"
           q == [req[r] EXCEPT !.pc = pc, !.u = r + 1, !.row = row]
<1>1. Facts
    BY Known DEF CInv
<1>2. req' = [req EXCEPT ![r] = q] /\ Zero(row)
    BY <1>1 DEF CreateCode, Facts, Zero
<1>3. q.row = row
    BY <1>1 DEF Facts, RequestState
<1>4. mix[r] = "create" /\ UNCHANGED <<url, records, version, intended, disturbed, recounted, job, mix>>
    BY DEF CreateCode, At, Tables, ghosts, overridden
<1>5. SameRequest(r)
    BY <1>4 DEF SameRequest, Editing
<1> HIDE DEF q, row
<1> QED BY <1>2, <1>3, <1>4, <1>5, RequestCounts

\* An alias is checked, and the row goes on.
LEMMA GoOnCounts ==
    ASSUME CInv, IInv', NEW r \in Request, NEW pc, NEW row, GoOn(r, pc, row),
           UNCHANGED <<url, records, version, intended, disturbed, recounted, job, mix>>,
           Creating(r) \/ Editing(r), SameCounters(row, req[r].row),
           Editing(r) => Same(row, req[r].row)
    PROVE  CInv'
<1> DEFINE q == [req[r] EXCEPT !.pc = pc, !.row = row]
<1>1. Facts
    BY Known DEF CInv
<1>2. req' = [req EXCEPT ![r] = q]
    BY <1>1 DEF GoOn, Facts
<1>3. req'[r] = q /\ q.row = row /\ q.u = req[r].u /\ q.version = req[r].version
    BY <1>1, <1>2 DEF Facts, RequestState
<1> HIDE DEF q
<1>4. Creating(r)' => Zero(q.row)
    <2>1. Creating(r)' => Creating(r)
        BY DEF Creating, Editing
    <2>2. Creating(r) => Zero(req[r].row)
        BY DEF CInv, CopiesFit, CopiesBelow
    <2> QED BY <1>3, <2>1, <2>2 DEF Zero, SameCounters
<1>5. SameRequest(r)
    <2>1. Editing(r)' => Editing(r)
        BY DEF Creating, Editing
    <2> QED BY <1>3, <2>1 DEF SameRequest
<1> QED BY <1>2, <1>4, <1>5, RequestCounts

LEMMA CreateAliasCounts == ASSUME CInv, IInv', NEW r \in Request, CreateAlias(r) PROVE CInv'
<1>1. UNCHANGED <<url, records, version, intended, disturbed, recounted, job, mix>> /\ mix[r] = "create" /\ req[r].pc = "alias"
    BY DEF CreateAlias, At, Tables, ghosts, overridden
<1>2. CASE Done(r)
    BY <1>1, <1>2, EndsCounts DEF Ends
<1>3. CASE GoOn(r, "lookup", [req[r].row EXCEPT !.seen = Exists])
    <2>1. Creating(r) /\ ~Editing(r)
        BY <1>1 DEF Creating, Editing
    <2>2. PICK row \in Row : row = req[r].row
        BY <2>1, Known DEF Facts, CInv
    <2>3. SameCounters([row EXCEPT !.seen = Exists], row)
        BY DEF SameCounters, Row
    <2> QED BY <1>1, <1>3, <2>1, <2>2, <2>3, GoOnCounts
<1> QED BY <1>2, <1>3 DEF CreateAlias

LEMMA CreateLookupCounts ==
    ASSUME CInv, IInv', NEW r \in Request, NEW cs \in {{}, Channel}, CreateLookup(r, cs) PROVE CInv'
<1>1. UNCHANGED <<url, records, version, intended, disturbed, recounted, job, mix>> /\ mix[r] = "create" /\ req[r].pc = "lookup"
    BY DEF CreateLookup, At, Tables, ghosts, overridden
<1>2. Creating(r) /\ ~Editing(r)
    BY <1>1 DEF Creating, Editing
<1>3. PICK row \in Row : row = req[r].row
    BY <1>2, Known DEF Facts, CInv
<1> DEFINE next == [row EXCEPT !.meta = metadata, !.channels = cs \cap channel]
<1>4. SameCounters(next, row)
    BY DEF SameCounters, Row
<1>5. GoOn(r, "insert", next)
    BY <1>3 DEF CreateLookup
<1> HIDE DEF next
<1> QED BY <1>1, <1>2, <1>3, <1>4, <1>5, GoOnCounts

LEMMA UpdateAliasCounts == ASSUME CInv, IInv', NEW r \in Request, UpdateAlias(r) PROVE CInv'
<1>1. UNCHANGED <<url, records, version, intended, disturbed, recounted, job, mix>> /\ mix[r] = "update" /\ req[r].pc = "alias"
    BY DEF UpdateAlias, At, Tables, ghosts, overridden
<1>2. CASE Done(r)
    BY <1>1, <1>2, EndsCounts DEF Ends
<1>3. CASE GoOn(r, "save", [req[r].row EXCEPT !.seen = Exists])
    <2>1. Editing(r)
        BY <1>1 DEF Editing
    <2>2. PICK row \in Row : row = req[r].row
        BY <2>1, Known DEF Facts, CInv
    <2>3. SameCounters([row EXCEPT !.seen = Exists], row) /\ Same([row EXCEPT !.seen = Exists], row)
        BY DEF SameCounters, Same, Row
    <2> QED BY <1>1, <1>3, <2>1, <2>2, <2>3, GoOnCounts
<1> QED BY <1>2, <1>3 DEF UpdateAlias

LEMMA UpdateLoadCounts ==
    ASSUME CInv, IInv', NEW r \in Request, NEW u \in Url, NEW edit \in Edits, UpdateLoad(r, u, edit)
    PROVE  CInv'
<1>1. UNCHANGED <<url, records, version, intended, disturbed, recounted, job, mix>> /\ mix[r] = "update" /\ req[r].pc = "start"
    BY DEF UpdateLoad, At, Tables, ghosts, overridden
<1>2. CASE Done(r)
    BY <1>1, <1>2, EndsCounts DEF Ends
<1>3. CASE u \in Exists /\ ~Done(r)
    <2> DEFINE pc == IF "alias" \in edit.sets /\ edit.to.alias # NoSlug THEN "alias" ELSE "save"
               q == [req[r] EXCEPT !.pc = pc, !.u = u, !.row = url[u], !.edit = edit, !.version = version[u]]
    <2>1. Facts
        BY Known DEF CInv
    <2>2. req' = [req EXCEPT ![r] = q]
        BY <1>3, <2>1 DEF UpdateLoad, Facts
    <2>3. req'[r] = q /\ q.u = u /\ q.row = url[u] /\ q.version = version[u]
        BY <2>1, <2>2 DEF Facts, RequestState
    <2> HIDE DEF q
    <2>4. Untouched(u) /\ Grows(u)
        BY <1>1 DEF Untouched, Grows, Of
    <2>6. LoadedRequest(r)
        BY <1>3, <2>3, <2>4 DEF LoadedRequest
    <2>5. ~Creating(r)'
        BY <1>1 DEF Creating
    <2> QED BY <1>1, <2>2, <2>5, <2>6, RequestCounts
<1> QED BY <1>2, <1>3 DEF UpdateLoad

LEMMA AttachCounts ==
    ASSUME CInv, IInv', NEW r \in Request, NEW c \in Channel, NEW u \in Url, Attach(r, c, u)
    PROVE  CInv'
<1>1. UNCHANGED <<url, records, version, intended, disturbed, recounted, job, mix>> /\ mix[r] = "attach"
    BY DEF Attach, At, Tables, ghosts, overridden
<1>2. CASE Done(r)
    BY <1>1, <1>2, EndsCounts DEF Ends
<1>3. CASE ~Done(r)
    <2>1. PICK q : req' = [req EXCEPT ![r] = q]
        <3>1. req' = [req EXCEPT ![r] = [req[r] EXCEPT !.pc = "add", !.u = u]]
            BY <1>3, Known DEF Attach, Facts, CInv
        <3> QED BY <3>1
    <2>2. ~Creating(r)' /\ ~Editing(r)'
        BY <1>1 DEF Creating, Editing
    <2> QED BY <1>1, <2>1, <2>2, RequestCounts DEF SameRequest
<1> QED BY <1>2, <1>3

LEMMA CreateInsertCounts == ASSUME CInv, IInv', NEW r \in Request, CreateInsert(r) PROVE CInv'
<1>1. UNCHANGED <<url, records, version, intended, disturbed, recounted, mix>> /\ mix[r] = "create" /\ req[r].pc = "insert"
    BY DEF CreateInsert, At, Tables, ghosts, overridden
<1>2. CASE Done(r) /\ UNCHANGED job
    BY <1>1, <1>2, EndsCounts DEF Ends
<1>3. CASE /\ Goto(r, "commit")
           /\ UNCHANGED job \/ Enqueue(r, Job(r, "metadata", NoSlug, "CLICK", r + 1))
    <2> DEFINE j == Job(r, "metadata", NoSlug, "CLICK", r + 1)
    <2>1. Facts
        BY Known DEF CInv
    <2>2. j.pc = "waiting" /\ j.row = NoRow
        BY DEF Job
    <2> HIDE DEF j
    <2>3. req'[r].pc = "commit" /\ req'[r].row = req[r].row /\ \A x \in Request \ {r} : req'[x] = req[x]
        BY <1>3, <2>1 DEF Facts, Goto, RequestState
    <2>4. StartsAtZero(r) /\ SameRequest(r)
        BY <1>1, <2>3 DEF StartsAtZero, SameRequest, Creating, Editing, CInv, CopiesFit, CopiesBelow
    <2>5. CASE UNCHANGED job
        BY <1>1, <2>3, <2>4, <2>5, QuietCounts DEF StepOf, SameJob
    <2>6. CASE Enqueue(r, j)
        <3>1. job'[r] = j /\ \A x \in Request \ {r} : job'[x] = job[x]
            BY <2>1, <2>6 DEF Facts, Enqueue
        <3>2. PICK code \in Coding : Fits(code)
            BY DEF CInv, IInv, RowsInv
        <3>3. ~Counts(r) /\ ~Counts(r)' /\ SameJob(r)
            BY <1>1, <2>2, <3>1, <3>2 DEF Fits, RequestFits, Counts, SameJob
        <3> QED BY <1>1, <2>3, <2>4, <3>1, <3>3, QuietCounts DEF StepOf
    <2> QED BY <1>3, <2>5, <2>6 DEF j
<1> QED BY <1>2, <1>3 DEF CreateInsert

LEMMA QueuedIs ==
    ASSUME NEW r, NEW slug
    PROVE  /\ Click(r, slug).pc = "waiting" /\ Click(r, slug).row = NoRow
           /\ Impression(r, slug).pc = "waiting" /\ Impression(r, slug).row = NoRow
BY DEF Click, Impression, Job

LEMMA VisitCounts ==
    ASSUME CInv, IInv', NEW r \in Request, NEW slug \in Slug, NEW crawler \in BOOLEAN, Visit(r, slug, crawler)
    PROVE  CInv'
<1>1. UNCHANGED <<url, records, version, intended, disturbed, recounted, mix>> /\ req[r].pc = "start" /\ Done(r)
    BY DEF Visit, At, Tables, ghosts, overridden
<1>2. job' = job \/ Enqueue(r, Click(r, slug)) \/ Enqueue(r, Impression(r, slug))
    BY DEF Visit
<1>3. Ends(r)
    BY <1>1, <1>2, QueuedIs DEF Ends
<1> QED BY <1>1, <1>3, EndsCounts

LEMMA UnlockCounts ==
    ASSUME CInv, IInv', NEW r \in Request, NEW slug \in Slug, Unlock(r, slug) \/ Confirm(r, slug)
    PROVE  CInv'
<1>1. UNCHANGED <<url, records, version, intended, disturbed, recounted, mix>> /\ req[r].pc = "start" /\ Done(r)
    BY DEF Unlock, Confirm, At, Tables, ghosts, overridden
<1>2. job' = job \/ Enqueue(r, Click(r, slug))
    BY DEF Unlock, Confirm
<1>3. Ends(r)
    BY <1>1, <1>2, QueuedIs DEF Ends
<1> QED BY <1>1, <1>3, EndsCounts

LEMMA RequestFailsCounts == ASSUME CInv, IInv', NEW r \in Request, RequestFails(r) PROVE CInv'
<1>1. UNCHANGED <<url, records, version, intended, disturbed, recounted, mix>> /\ Done(r) /\ job' = job
    BY DEF RequestFails, Tables, ghosts, overridden
<1> QED BY <1>1, EndsCounts DEF Ends

-----------------------------------------------------------------------------
(* Steps of jobs that write no table. *)

LEMMA JobCounts ==
    ASSUME CInv, IInv', NEW r \in Request, NEW j, job' = [job EXCEPT ![r] = j],
           UNCHANGED <<url, records, version, intended, disturbed, recounted, req, mix>>,
           job[r].pc # "count", j.pc # "count",
           \/ j.row = NoRow
           \/ j.u = job[r].u /\ j.row = job[r].row /\ j.version = job[r].version
           \/ j.u \in Exists /\ j.row = url[j.u] /\ j.version = version[j.u]
    PROVE  CInv'
<1>1. Facts
    BY Known DEF CInv
<1>2. job'[r] = j /\ StepOf(r) /\ ~Counts(r) /\ ~Counts(r)'
    BY <1>1 DEF Facts, StepOf, Counts
<1>3. (Creating(r)' <=> Creating(r)) /\ (Editing(r)' <=> Editing(r)) /\ req'[r] = req[r]
    BY DEF Creating, Editing
<1>4. StartsAtZero(r) /\ SameRequest(r)
    BY <1>1, <1>3, SameSelf DEF StartsAtZero, SameRequest, CInv, CopiesFit, CopiesBelow, Facts
<1>5. CASE j.row = NoRow \/ (j.u = job[r].u /\ j.row = job[r].row /\ j.version = job[r].version)
    <2>1. SameJob(r)
        BY <1>2, <1>5 DEF SameJob
    <2> QED BY <1>2, <1>4, <2>1, QuietCounts
<1>6. CASE j.u \in Exists /\ j.row = url[j.u] /\ j.version = version[j.u]
    <2>1. PICK u \in Url : u = job'[r].u /\ u \in Exists /\ j.row = url[u] /\ j.version = version[u]
        BY <1>2, <1>6 DEF Exists
    <2>2. Untouched(u) /\ Grows(u)
        BY DEF Untouched, Grows, Of
    <2>3. LoadedJob(r)
        BY <1>2, <2>1, <2>2 DEF LoadedJob
    <2> QED BY <1>2, <1>4, <2>3, QuietCounts
<1> QED BY <1>5, <1>6

Still == UNCHANGED <<url, records, version, intended, disturbed, recounted, req, mix>>

LEMMA AttemptFailedCounts ==
    ASSUME CInv, IInv', NEW r \in Request, AttemptFailed(r), Still, job[r].pc # "count"
    PROVE  CInv'
<1>1. PICK i \in JobState : i = job[r]
    BY Known DEF Facts, CInv
<1> DEFINE pc == IF i.tries + 1 = MaxAttempts THEN "failed" ELSE "waiting"
           j == [Finished(i, pc) EXCEPT !.tries = i.tries + 1]
<1>2. job' = [job EXCEPT ![r] = j]
    BY <1>1 DEF AttemptFailed
<1>3. j.row = NoRow /\ j.pc # "count"
    BY DEF Finished, JobState
<1> HIDE DEF j
<1> QED BY <1>2, <1>3, JobCounts DEF Still

LEMMA TakeVisitCounts == ASSUME CInv, IInv', NEW r \in Request, TakeVisit(r) PROVE CInv'
<1>1. Still /\ job[r].pc = "waiting"
    BY DEF TakeVisit, Runs, Still, Tables, ghosts, overridden
<1>2. CASE AttemptFailed(r)
    BY <1>1, <1>2, AttemptFailedCounts
<1>3. CASE ~AttemptFailed(r)
    <2>1. PICK u \in Exists : job' = [job EXCEPT ![r] =
                [@ EXCEPT !.pc = "identity", !.u = u, !.row = url[u], !.version = version[u]]]
        BY <1>3 DEF TakeVisit
    <2>2. PICK i \in JobState : i = job[r]
        BY Known DEF Facts, CInv
    <2> DEFINE j == [i EXCEPT !.pc = "identity", !.u = u, !.row = url[u], !.version = version[u]]
    <2>3. job' = [job EXCEPT ![r] = j]
        BY <2>1, <2>2, Known DEF Facts, CInv
    <2>4. j.pc = "identity" /\ j.u = u /\ j.row = url[u] /\ j.version = version[u]
        BY DEF JobState
    <2> HIDE DEF j
    <2> QED BY <1>1, <2>3, <2>4, JobCounts DEF Still
<1> QED BY <1>2, <1>3

\* The job goes on, and what it holds stays.
LEMMA HeldCounts ==
    ASSUME CInv, IInv', NEW r \in Request, Still, job[r].pc # "count", NEW pc, pc # "count", NEW unique,
           \/ job' = [job EXCEPT ![r] = [job[r] EXCEPT !.pc = pc, !.unique = unique]]
           \/ job' = [job EXCEPT ![r] = [job[r] EXCEPT !.pc = pc]]
           \/ job' = [job EXCEPT ![r] = Finished(job[r], pc)]
    PROVE  CInv'
<1>1. PICK i \in JobState : i = job[r]
    BY Known DEF Facts, CInv
<1>2. CASE job' = [job EXCEPT ![r] = [i EXCEPT !.pc = pc, !.unique = unique]]
    <2> DEFINE j == [i EXCEPT !.pc = pc, !.unique = unique]
    <2>1. j.pc = pc /\ j.u = i.u /\ j.row = i.row /\ j.version = i.version
        BY DEF JobState
    <2>2. job' = [job EXCEPT ![r] = j]
        BY <1>2
    <2> HIDE DEF j
    <2> QED BY <1>1, <2>1, <2>2, JobCounts DEF Still
<1>3. CASE job' = [job EXCEPT ![r] = [i EXCEPT !.pc = pc]]
    <2> DEFINE j == [i EXCEPT !.pc = pc]
    <2>1. j.pc = pc /\ j.u = i.u /\ j.row = i.row /\ j.version = i.version
        BY DEF JobState
    <2>2. job' = [job EXCEPT ![r] = j]
        BY <1>3
    <2> HIDE DEF j
    <2> QED BY <1>1, <2>1, <2>2, JobCounts DEF Still
<1>4. CASE job' = [job EXCEPT ![r] = Finished(i, pc)]
    <2>1. Finished(i, pc).pc = pc /\ Finished(i, pc).row = NoRow
        BY DEF Finished, JobState
    <2> QED BY <1>1, <1>4, <2>1, JobCounts DEF Still
<1> QED BY <1>1, <1>2, <1>3, <1>4

LEMMA StepCounts ==
    ASSUME CInv, IInv', NEW r \in Request, Still, job[r].pc # "count", NEW pc, pc # "count", Step(r, pc)
    PROVE  CInv'
<1>1. job' = [job EXCEPT ![r] = [job[r] EXCEPT !.pc = pc]]
    BY Known DEF Step, Facts, CInv
<1> QED BY <1>1, HeldCounts

LEMMA FindIdentityCounts == ASSUME CInv, IInv', NEW r \in Request, FindIdentity(r) PROVE CInv'
<1>1. Still /\ job[r].pc = "identity"
    BY DEF FindIdentity, Runs, Still, Tables, ghosts, overridden
<1>2. \/ job' = [job EXCEPT ![r] = [job[r] EXCEPT !.pc = "record", !.unique = TRUE]]
      \/ job' = [job EXCEPT ![r] = [job[r] EXCEPT !.pc = "cache"]]
    BY Known DEF FindIdentity, Facts, CInv
<1>3. CASE job' = [job EXCEPT ![r] = [job[r] EXCEPT !.pc = "record", !.unique = TRUE]]
    BY <1>1, <1>3, HeldCounts
<1>4. CASE job' = [job EXCEPT ![r] = [job[r] EXCEPT !.pc = "cache"]]
    BY <1>1, <1>4, HeldCounts
<1> QED BY <1>2, <1>3, <1>4

LEMMA CachedVisitCounts == ASSUME CInv, IInv', NEW r \in Request, CachedVisit(r) PROVE CInv'
<1>1. Still /\ job[r].pc = "cache"
    BY DEF CachedVisit, Runs, Still, Tables, ghosts, overridden
<1>2. job' = [job EXCEPT ![r] = Finished(job[r], "completed")] \/ Step(r, "record")
    BY Known DEF CachedVisit, Facts, CInv
<1>3. CASE job' = [job EXCEPT ![r] = Finished(job[r], "completed")]
    BY <1>1, <1>3, HeldCounts
<1>4. CASE Step(r, "record")
    BY <1>1, <1>4, StepCounts
<1> QED BY <1>2, <1>3, <1>4

LEMMA FinishCounts == ASSUME CInv, IInv', NEW r \in Request, Finish(r) PROVE CInv'
<1>1. Still /\ job[r].pc = "finish"
    BY DEF Finish, Still, Tables, ghosts, overridden
<1>2. job' = [job EXCEPT ![r] = Finished(job[r], "completed")]
    BY Known DEF Finish, Facts, CInv
<1> QED BY <1>1, <1>2, HeldCounts

LEMMA TakeMetadataCounts == ASSUME CInv, IInv', NEW r \in Request, TakeMetadata(r) PROVE CInv'
<1>1. Still /\ job[r].pc = "waiting"
    BY DEF TakeMetadata, Runs, Still, Tables, ghosts, overridden
<1>2. CASE Step(r, "fetch")
    BY <1>1, <1>2, StepCounts
<1>3. CASE AttemptFailed(r)
    BY <1>1, <1>3, AttemptFailedCounts
<1> QED BY <1>2, <1>3 DEF TakeMetadata

LEMMA FetchCounts == ASSUME CInv, IInv', NEW r \in Request, Fetch(r) PROVE CInv'
<1>1. Still /\ job[r].pc = "fetch"
    BY DEF Fetch, Runs, Still, Tables, ghosts, overridden
<1>2. CASE Step(r, "load")
    BY <1>1, <1>2, StepCounts
<1>3. CASE AttemptFailed(r)
    BY <1>1, <1>3, AttemptFailedCounts
<1> QED BY <1>2, <1>3 DEF Fetch

LEMMA LoadForMetadataCounts == ASSUME CInv, IInv', NEW r \in Request, LoadForMetadata(r) PROVE CInv'
<1>1. Still /\ job[r].pc = "load"
    BY DEF LoadForMetadata, Runs, Still, Tables, ghosts, overridden
<1>2. CASE AttemptFailed(r)
    BY <1>1, <1>2, AttemptFailedCounts
<1>3. CASE ~AttemptFailed(r)
    <2>1. PICK i \in JobState : i = job[r]
        BY Known DEF Facts, CInv
    <2> DEFINE u == i.u
               j == [i EXCEPT !.pc = "save", !.row = url[u], !.version = version[u]]
    <2>2. job' = [job EXCEPT ![r] = j] /\ u \in Exists
        BY <1>3, <2>1, Known DEF LoadForMetadata, Facts, CInv
    <2>3. j.pc = "save" /\ j.u = u /\ j.row = url[u] /\ j.version = version[u]
        BY DEF JobState
    <2> HIDE DEF j
    <2> QED BY <1>1, <2>1, <2>2, <2>3, JobCounts DEF Still
<1> QED BY <1>2, <1>3

LEMMA DayEndsCounts == ASSUME CInv, IInv', DayEnds \/ UNCHANGED vars PROVE CInv'
<1>1. UNCHANGED <<url, records, version, intended, disturbed, recounted, req, job, mix>>
    BY DEF DayEnds, vars, Tables, ghosts, overridden
<1>2. GhostTypes'
    BY <1>1 DEF CInv, GhostTypes
<1>3. \A u \in Exists' : Below(u, url[u])'
    BY <1>1 DEF CInv, RowsBelow, Exists, Below, Of, Uniques, Impressions
<1>4. ASSUME NEW u \in Url \ disturbed' PROVE Unspoilt(u)'
    <2>1. Untouched(u) /\ intended'[u] = intended[u] /\ Of(u)' = Of(u) /\ SameCounts(u)
        BY <1>1 DEF Untouched, Of, SameCounts, CountsOf, Counts
    <2> QED BY <1>1, <2>1, RowStays
<1>5. ASSUME NEW x \in Request PROVE CopiesFit(x)'
    BY <1>1 DEF CInv, CopiesFit, CopiesBelow, RequestCurrent, JobCurrent, Creating, Editing, Counts, Below, Of,
                Uniques, Impressions, Counted, Exists
<1> QED BY <1>2, <1>3, <1>4, <1>5, Together

-----------------------------------------------------------------------------
(* Statements of requests. *)

LEMMA FieldsIs == \A row \in Row : Fields(row) \in FieldsOf /\ Fields(row) # NoRow
<1>1. \A f \in FieldsOf : f # NoRow
    BY DEF FieldsOf, NoRow
<1>2. \A row \in Row : Fields(row) \in FieldsOf
    BY DEF Row, Fields, FieldsOf
<1> QED BY <1>1, <1>2

LEMMA FieldsEqual == \A f, g \in FieldsOf :
    /\ f.code = g.code /\ f.alias = g.alias /\ f.archived = g.archived /\ f.private = g.private
    /\ f.splash = g.splash /\ f.protected = g.protected /\ f.limit = g.limit /\ f.meta = g.meta
    /\ f.channels = g.channels
    => f = g
BY DEF FieldsOf

\* What a statement sets of a row it sets of the fields.
LEMMA PrivateFields == \A row \in Row, b \in BOOLEAN :
    Fields([row EXCEPT !.private = b]) = [Fields(row) EXCEPT !.private = b]
BY DEF Row, Fields

LEMMA MetaFields == \A row \in Row, b \in BOOLEAN :
    Fields([row EXCEPT !.meta = b]) = [Fields(row) EXCEPT !.meta = b]
BY DEF Row, Fields

LEMMA ChannelFields == \A row \in Row, cs \in SUBSET Channel :
    Fields([row EXCEPT !.channels = cs]) = [Fields(row) EXCEPT !.channels = cs]
BY DEF Row, Fields

LEMMA NotNoRow == \A f \in FieldsOf : f # NoRow
BY DEF FieldsOf, NoRow

LEMMA BelowRow ==
    ASSUME CInv, IInv', GhostTypes', NEW u \in Exists, u \in Exists', Grows(u), SameCounters(url'[u], url[u])
    PROVE  Below(u, url[u])'
<1>1. PICK row \in Row : row = url[u]
    BY Known DEF Facts, Exists, CInv
<1>2. Below(u, row)'
    BY <1>1, BelowGrows DEF CInv, RowsBelow
<1> QED BY <1>1, <1>2 DEF Below, SameCounters

LEMMA StatementCounts ==
    ASSUME CInv, IInv', NEW r \in Request, Done(r), UNCHANGED <<job, mix>>, GhostTypes', Steady,
           \A u \in Exists' : Below(u, url[u])', \A u \in Url \ disturbed' : Unspoilt(u)'
    PROVE  CInv'
<1>1. Facts
    BY Known DEF CInv
<1>2. req'[r].pc = "done" /\ \A x \in Request \ {r} : req'[x] = req[x]
    BY <1>1, IdleIs DEF Facts, Done, Idle
<1>3. StartsAtZero(r) /\ SameRequest(r) /\ SameJob(r) /\ StepOf(r)
    BY <1>2 DEF StartsAtZero, SameRequest, SameJob, StepOf, Creating, Editing
<1>4. \A x \in Request : CopiesFit(x)'
    BY <1>3, OthersCopies, CopiesStay
<1> QED BY <1>4, Together

LEMMA JobsSame == ASSUME UNCHANGED job, NEW u PROVE SameCounts(u)
BY DEF SameCounts, CountsOf, Counts

LEMMA BulkCounts ==
    ASSUME CInv, IInv', NEW r \in Request, NEW us \in SUBSET Url, Bulk(r, us)
    PROVE  CInv'
<1>1. Facts /\ Facts' /\ GhostTypes
    BY Known, KnownNext DEF CInv
<1>2. Done(r) /\ UNCHANGED <<records, job, mix, disturbed, recounted>>
    BY DEF Bulk, overridden
<1>3. ASSUME NEW u \in Url
      PROVE  /\ url'[u] = IF u \in us /\ u \in Exists THEN [url[u] EXCEPT !.private = TRUE] ELSE url[u]
             /\ version'[u] = version[u] + (IF u \in us /\ u \in Exists THEN 1 ELSE 0)
             /\ intended'[u] = IF u \in us /\ intended[u] # NoRow
                               THEN [intended[u] EXCEPT !.private = TRUE] ELSE intended[u]
    BY DEF Bulk
<1>4. ASSUME NEW u \in Url
      PROVE  /\ intended'[u] \in FieldsOf \cup {NoRow} /\ (intended'[u] # NoRow => intended[u] # NoRow)
             /\ u \in us /\ u \in Exists => version'[u] > version[u]
             /\ ~(u \in us /\ u \in Exists) => Untouched(u)
    <2>1. intended[u] \in FieldsOf \cup {NoRow} /\ version[u] \in Nat
        BY <1>1 DEF GhostTypes, Facts
    <2>2. \A f \in FieldsOf : [f EXCEPT !.private = TRUE] \in FieldsOf
        BY DEF FieldsOf
    <2>3. intended'[u] \in FieldsOf \cup {NoRow} /\ (intended'[u] # NoRow => intended[u] # NoRow)
        BY <1>3, <2>1, <2>2
    <2>4. /\ u \in us /\ u \in Exists => version'[u] > version[u]
          /\ ~(u \in us /\ u \in Exists) => Untouched(u)
        <3>1. version'[u] = version[u] + (IF u \in us /\ u \in Exists THEN 1 ELSE 0)
            BY <1>3
        <3>2. ~(u \in us /\ u \in Exists) => url'[u] = url[u]
            BY <1>3
        <3> QED BY <2>1, <3>1, <3>2 DEF Untouched
    <2> QED BY <2>3, <2>4
<1>5. GhostTypes'
    <2>1. intended' \in [Url -> FieldsOf \cup {NoRow}]
        BY <1>4 DEF Bulk
    <2> QED BY <1>1, <1>2, <2>1 DEF GhostTypes
<1>6. \A u \in Url : Grows(u) /\ Of(u)' = Of(u)
    BY <1>2, <1>4 DEF Grows, Of
<1>7. Steady
    BY <1>2, <1>4, <1>6 DEF Steady, Touched
<1>8. ASSUME NEW u \in Url, u \in Exists
      PROVE  u \in Exists' /\ SameCounters(url'[u], url[u])
    <2>1. PICK row \in Row : row = url[u]
        BY <1>1, <1>8 DEF Facts
    <2>2. [row EXCEPT !.private = TRUE] \in Row /\ SameCounters([row EXCEPT !.private = TRUE], row) /\ SameCounters(row, row)
        BY DEF Row, SameCounters
    <2>3. url'[u] \in Row /\ SameCounters(url'[u], row)
        BY <1>3, <1>8, <2>1, <2>2
    <2> QED BY <1>1, <2>1, <2>3 DEF Facts
<1>9. \A u \in Exists' : u \in Url /\ u \in Exists
    BY <1>3 DEF Exists
<1>10. \A u \in Exists' : Below(u, url[u])'
    BY <1>5, <1>6, <1>8, <1>9, BelowRow
<1>11. ASSUME NEW u \in Url \ disturbed' PROVE Unspoilt(u)'
    <2>1. Unspoilt(u)
        BY <1>2 DEF CInv, RowsKept
    <2>2. CASE u \in us /\ u \in Exists
        <3>1. PICK row \in Row : row = url[u]
            BY <1>1, <2>2 DEF Facts
        <3>2. intended[u] = Fields(row) /\ intended[u] # NoRow
            BY <2>1, <2>2, <3>1 DEF Unspoilt
        <3>3. Fields([row EXCEPT !.private = TRUE]) = [Fields(row) EXCEPT !.private = TRUE]
            BY PrivateFields
        <3>4. [row EXCEPT !.private = TRUE] \in Row
            BY DEF Row
        <3>5. Fields(url'[u]) = intended'[u] /\ intended'[u] # NoRow
            BY <1>3, <2>2, <3>1, <3>2, <3>3, <3>4, FieldsIs
        <3> QED BY <1>2, <1>4, <1>6, <1>8, <2>2, <3>5, JobsSame, RowWritten DEF SameCounters, KeptCounters
    <2>3. CASE ~(u \in us /\ u \in Exists)
        <3>1. intended'[u] = intended[u]
            BY <1>3, <2>1, <2>3 DEF Unspoilt
        <3> QED BY <1>2, <1>4, <1>6, <2>3, <3>1, JobsSame, RowStays
    <2> QED BY <2>2, <2>3
<1> QED BY <1>2, <1>5, <1>7, <1>10, <1>11, StatementCounts

LEMMA DeleteCounts ==
    ASSUME CInv, IInv', NEW r \in Request, NEW us \in SUBSET Url, Delete(r, us)
    PROVE  CInv'
<1>1. Facts /\ Facts' /\ GhostTypes
    BY Known, KnownNext DEF CInv
<1>0. CASE \E u \in us \cap Exists : Tied(u)
    BY <1>0, EndsCounts DEF Delete, Ends, Tables, ghosts, overridden
<1> SUFFICES ASSUME ~\E u \in us \cap Exists : Tied(u) PROVE CInv'
    BY <1>0
<1>2. Done(r) /\ UNCHANGED <<job, mix, disturbed, recounted>> /\ records' = {a \in records : a.url \notin us}
    BY DEF Delete, overridden
<1>3. ASSUME NEW u \in Url
      PROVE  /\ url'[u] = IF u \in us THEN NoRow ELSE url[u]
             /\ version'[u] = version[u] + (IF u \in us /\ u \in Exists THEN 1 ELSE 0)
             /\ intended'[u] = IF u \in us THEN NoRow ELSE intended[u]
    BY DEF Delete
<1>4. ASSUME NEW u \in Url
      PROVE  /\ u \in us /\ u \in Exists => version'[u] > version[u]
             /\ ~(u \in us /\ u \in Exists) => Untouched(u)
    <2>1. version[u] \in Nat /\ (u \notin Exists => url[u] = NoRow)
        BY <1>1 DEF Facts, Exists
    <2> QED BY <1>3, <2>1 DEF Untouched
<1>5. GhostTypes'
    <2>1. intended' \in [Url -> FieldsOf \cup {NoRow}]
        BY <1>1 DEF Delete, GhostTypes
    <2>2. IsFiniteSet(records')
        BY <1>1, <1>2, Parts DEF GhostTypes
    <2> QED BY <1>1, <1>2, <2>1, <2>2 DEF GhostTypes
<1>6. \A u \in Url : Grows(u) /\ (u \notin us => Of(u)' = Of(u))
    BY <1>2, <1>3 DEF Grows, Of
<1>7. Steady
    BY <1>2, <1>4, <1>6 DEF Steady, Touched
<1>8. \A u \in Exists' : u \in Url /\ u \in Exists /\ u \notin us
    BY <1>3 DEF Exists
<1>9. \A u \in Exists' : Below(u, url[u])'
    BY <1>3, <1>5, <1>6, <1>8, BelowRow DEF SameCounters
<1>10. ASSUME NEW u \in Url \ disturbed' PROVE Unspoilt(u)'
    <2>1. CASE u \in us
        BY <1>3, <2>1 DEF Unspoilt, Exists
    <2>2. CASE u \notin us
        BY <1>2, <1>3, <1>4, <1>6, <2>2, JobsSame, RowStays
    <2> QED BY <2>1, <2>2
<1> QED BY <1>2, <1>5, <1>7, <1>9, <1>10, StatementCounts

\* One row is written, and nothing else.
LEMMA RowsSteady ==
    ASSUME CInv, NEW u \in Url, disturbed \subseteq disturbed', recounted \subseteq recounted', records' = records,
           version' = [version EXCEPT ![u] = @ + 1], NEW row, url' = [url EXCEPT ![u] = row],
           \A v \in Url \ {u} : intended'[v] = intended[v], Grows(u) \/ Free(u)
    PROVE  /\ Steady /\ version'[u] > version[u] /\ url'[u] = row /\ Of(u)' = Of(u)
           /\ \A v \in Url \ {u} : Untouched(v) /\ Grows(v) /\ Of(v)' = Of(v)
<1>1. Facts
    BY Known DEF CInv
<1>2. version'[u] > version[u] /\ url'[u] = row
    BY <1>1 DEF Facts
<1>3. \A v \in Url \ {u} : Untouched(v) /\ Grows(v) /\ Of(v)' = Of(v)
    BY <1>1 DEF Facts, Untouched, Grows, Of
<1>4. Steady
    BY <1>2, <1>3 DEF Steady, Touched
<1> QED BY <1>2, <1>3, <1>4 DEF Of

LEMMA OtherRows ==
    ASSUME CInv, IInv', GhostTypes', NEW u \in Url, disturbed \subseteq disturbed', recounted \subseteq recounted',
           \A v \in Url \ {u} : Untouched(v) /\ Grows(v) /\ Of(v)' = Of(v) /\ intended'[v] = intended[v] /\ SameCounts(v)
    PROVE  /\ \A v \in Exists' \ {u} : Below(v, url[v])'
           /\ \A v \in (Url \ disturbed') \ {u} : Unspoilt(v)'
<1>1. ASSUME NEW v \in Exists' \ {u} PROVE Below(v, url[v])'
    <2>1. v \in Url \ {u} /\ v \in Exists /\ url'[v] = url[v]
        BY DEF Exists, Untouched
    <2> QED BY <2>1, BelowRow DEF SameCounters
<1> QED BY <1>1, RowStays

LEMMA AddCounts ==
    ASSUME CInv, IInv', NEW r \in Request, NEW c \in Channel, Add(r, c)
    PROVE  CInv'
<1>0. PICK u : u = req[r].u
    OBVIOUS
<1>1. UNCHANGED <<records, job, mix, disturbed, recounted>> /\ Done(r)
    BY DEF Add, overridden
<1>2. CASE UNCHANGED <<url, version, intended>>
    BY <1>1, <1>2, EndsCounts DEF Ends
<1>3. CASE /\ u \in Exists /\ url' = [url EXCEPT ![u] = [@ EXCEPT !.channels = url[u].channels \cup {c}]]
           /\ Wrote(u) /\ intended' = Change(u, "channels", url'[u].channels)
    <2>1. Facts /\ GhostTypes /\ u \in Url
        BY <1>3, Known DEF CInv, Exists
    <2>2. PICK row \in Row : row = url[u]
        BY <1>3, <2>1 DEF Facts
    <2>3. PICK next \in Row : next = [row EXCEPT !.channels = row.channels \cup {c}]
        BY DEF Row
    <2>4. next.channels = row.channels \cup {c} /\ SameCounters(next, row)
        BY <2>3 DEF Row, SameCounters
    <2>5. url' = [url EXCEPT ![u] = next] /\ version' = [version EXCEPT ![u] = @ + 1]
        BY <1>3, <2>1, <2>2, <2>3 DEF Facts, Wrote
    <2>6. url'[u] = next
        BY <2>1, <2>5 DEF Facts
    <2>7. intended' = [intended EXCEPT ![u] =
                IF intended[u] = NoRow THEN intended[u] ELSE [intended[u] EXCEPT !["channels"] = next.channels]]
        <3>1. PICK value : value = url'[u].channels
            OBVIOUS
        <3>2. intended' = Change(u, "channels", value)
            BY <1>3, <3>1
        <3>3. value = next.channels
            BY <2>6, <3>1
        <3> QED BY <3>2, <3>3, Zenon DEF Change
    <2>8. PICK g \in FieldsOf \cup {NoRow} : g = intended[u]
        BY <2>1 DEF GhostTypes
    <2>9. PICK h \in FieldsOf \cup {NoRow} :
            h = IF g = NoRow THEN g ELSE [g EXCEPT !["channels"] = next.channels]
        <3>1. next.channels \subseteq Channel
            BY RowIs
        <3>2. g \in FieldsOf => [g EXCEPT !["channels"] = next.channels] \in FieldsOf
            BY <3>1 DEF FieldsOf
        <3> QED BY <3>2
    <2>10. intended' = [intended EXCEPT ![u] = h]
        BY <2>1, <2>7, <2>8, <2>9 DEF GhostTypes
    <2>11. GhostTypes' /\ intended'[u] = h /\ \A v \in Url \ {u} : intended'[v] = intended[v]
        BY <1>1, <2>1, <2>10 DEF GhostTypes
    <2>12. Grows(u)
        BY <1>1, <2>8, <2>9, <2>11 DEF Grows, Of
    <2>13. /\ Steady /\ version'[u] > version[u] /\ Of(u)' = Of(u)
           /\ \A v \in Url \ {u} : Untouched(v) /\ Grows(v) /\ Of(v)' = Of(v)
        BY <1>1, <2>1, <2>5, <2>11, <2>12, RowsSteady
    <2>14. /\ \A v \in Exists' \ {u} : Below(v, url[v])'
           /\ \A v \in (Url \ disturbed') \ {u} : Unspoilt(v)'
        BY <1>1, <2>1, <2>11, <2>13, JobsSame, OtherRows
    <2>15. u \in Exists' /\ SameCounters(url'[u], url[u])
        BY <2>1, <2>2, <2>4, <2>6, RowIs DEF Exists
    <2>16. Below(u, url[u])'
        BY <1>3, <2>11, <2>12, <2>15, BelowRow
    <2>17. ASSUME u \notin disturbed' PROVE Unspoilt(u)'
        <3>1. Fields(row) = g /\ g # NoRow
            BY <1>1, <1>3, <2>1, <2>2, <2>8, <2>17 DEF CInv, RowsKept, Unspoilt
        <3>2. h = [g EXCEPT !["channels"] = next.channels] /\ h # NoRow
            <4>1. next.channels \subseteq Channel
                BY RowIs
            <4>2. g \in FieldsOf => [g EXCEPT !["channels"] = next.channels] \in FieldsOf
                BY <4>1 DEF FieldsOf
            <4> QED BY <2>9, <3>1, <4>2, NotNoRow
        <3>3. row.channels \cup {c} \subseteq Channel
            BY RowIs
        <3>5. Fields(next) = h /\ h # NoRow
            BY <2>3, <2>4, <3>1, <3>2, <3>3, ChannelFields
        <3> QED BY <1>1, <1>3, <2>1, <2>6, <2>11, <2>13, <2>15, <2>17, <3>5, JobsSame, RowWritten DEF SameCounters, KeptCounters
    <2> QED BY <1>1, <2>11, <2>13, <2>14, <2>16, <2>17, StatementCounts
<1> QED BY <1>0, <1>2, <1>3 DEF Add

LEMMA DropCounts ==
    ASSUME CInv, IInv', NEW r \in Request, NEW c \in Channel, Drop(r, c)
    PROVE  CInv'
<1>1. Facts /\ Facts' /\ GhostTypes
    BY Known, KnownNext DEF CInv
<1>2. Done(r) /\ UNCHANGED <<records, job, mix, disturbed, recounted>>
    BY DEF Drop, overridden
<1>3. ASSUME NEW u \in Url
      PROVE  /\ u \in Exists => url'[u] = [url[u] EXCEPT !.channels = url[u].channels \ {c}]
             /\ u \notin Exists => url'[u] = NoRow
             /\ intended[u] = NoRow => intended'[u] = NoRow
             /\ intended[u] # NoRow => intended'[u] = [intended[u] EXCEPT !.channels = intended[u].channels \ {c}]
             /\ version'[u] = version[u] + (IF u \in Exists /\ c \in url[u].channels THEN 1 ELSE 0)
    BY DEF Drop
<1>4. ASSUME NEW u \in Url
      PROVE  /\ intended'[u] \in FieldsOf \cup {NoRow} /\ (intended'[u] # NoRow => intended[u] # NoRow)
             /\ u \in Exists /\ c \in url[u].channels => version'[u] > version[u]
             /\ ~(u \in Exists /\ c \in url[u].channels) => Untouched(u)
    <2>1. intended[u] \in FieldsOf \cup {NoRow} /\ version[u] \in Nat
        BY <1>1 DEF GhostTypes, Facts
    <2>2. intended'[u] \in FieldsOf \cup {NoRow} /\ (intended'[u] # NoRow => intended[u] # NoRow)
        <3>1. PICK g \in FieldsOf \cup {NoRow} : g = intended[u]
            BY <2>1
        <3>2. g \in FieldsOf => [g EXCEPT !.channels = g.channels \ {c}] \in FieldsOf
            BY DEF FieldsOf
        <3> QED BY <1>3, <3>1, <3>2
    <2>3. version'[u] = version[u] + (IF u \in Exists /\ c \in url[u].channels THEN 1 ELSE 0)
        BY <1>3
    <2>4. CASE u \in Exists /\ c \in url[u].channels
        BY <2>1, <2>2, <2>3, <2>4
    <2>5. CASE u \in Exists /\ c \notin url[u].channels
        <3>1. PICK row \in Row : row = url[u]
            BY <1>1, <2>5 DEF Facts
        <3>2. row.channels \ {c} = row.channels
            BY <2>5, <3>1
        <3>3. [row EXCEPT !.channels = row.channels] = row
            BY DEF Row
        <3>4. url'[u] = url[u]
            BY <1>3, <2>5, <3>1, <3>2, <3>3
        <3> QED BY <2>1, <2>2, <2>3, <2>5, <3>4 DEF Untouched
    <2>6. CASE u \notin Exists
        <3>1. url[u] = NoRow
            BY <2>6 DEF Exists
        <3>2. url'[u] = NoRow
            BY <1>3, <2>6
        <3> QED BY <2>1, <2>2, <2>3, <2>6, <3>1, <3>2 DEF Untouched
    <2> QED BY <2>4, <2>5, <2>6
<1>5. GhostTypes'
    <2>1. intended' \in [Url -> FieldsOf \cup {NoRow}]
        BY <1>4 DEF Drop
    <2> QED BY <1>1, <1>2, <2>1 DEF GhostTypes
<1>6. \A u \in Url : Grows(u) /\ Of(u)' = Of(u)
    BY <1>2, <1>4 DEF Grows, Of
<1>7. Steady
    BY <1>2, <1>4, <1>6 DEF Steady, Touched
<1>8. ASSUME NEW u \in Url, u \in Exists
      PROVE  u \in Exists' /\ SameCounters(url'[u], url[u])
    <2>1. PICK row \in Row : row = url[u]
        BY <1>1, <1>8 DEF Facts
    <2>2. [row EXCEPT !.channels = row.channels \ {c}] \in Row
          /\ SameCounters([row EXCEPT !.channels = row.channels \ {c}], row)
        BY DEF Row, SameCounters
    <2>3. url'[u] \in Row /\ SameCounters(url'[u], row)
        BY <1>3, <1>8, <2>1, <2>2
    <2> QED BY <1>1, <2>1, <2>3 DEF Facts
<1>9. \A u \in Exists' : u \in Url /\ u \in Exists
    BY <1>3 DEF Exists
<1>10. \A u \in Exists' : Below(u, url[u])'
    BY <1>5, <1>6, <1>8, <1>9, BelowRow
<1>11. ASSUME NEW u \in Url \ disturbed' PROVE Unspoilt(u)'
    <2>1. Unspoilt(u)
        BY <1>2 DEF CInv, RowsKept
    <2>2. CASE u \notin Exists
        <3>1. intended'[u] = intended[u]
            BY <1>3, <2>1, <2>2 DEF Unspoilt
        <3> QED BY <1>2, <1>4, <1>6, <2>2, <3>1, JobsSame, RowStays
    <2>3. CASE u \in Exists
        <3>1. PICK row \in Row : row = url[u]
            BY <1>1, <2>3 DEF Facts
        <3>2. PICK g \in FieldsOf : g = intended[u] /\ g = Fields(row)
            BY <2>1, <2>3, <3>1, FieldsIs DEF Unspoilt
        <3>3. PICK next \in Row : next = [row EXCEPT !.channels = row.channels \ {c}]
            BY DEF Row
        <3>4. PICK h \in FieldsOf : h = [g EXCEPT !.channels = g.channels \ {c}]
            BY DEF FieldsOf
        <3>5. row.channels \ {c} \subseteq Channel /\ g.channels = row.channels
            BY <3>2, RowIs DEF Fields
        <3>8. Fields(next) = h
            BY <3>2, <3>3, <3>4, <3>5, ChannelFields
        <3>9. url'[u] = next /\ intended'[u] = h /\ h # NoRow
            BY <1>3, <2>3, <3>1, <3>2, <3>3, <3>4, NotNoRow
        <3>10. CASE c \in row.channels
            BY <1>2, <1>4, <1>6, <1>8, <2>3, <3>1, <3>8, <3>9, <3>10, JobsSame, RowWritten DEF SameCounters, KeptCounters
        <3>11. CASE c \notin row.channels
            <4>1. Untouched(u)
                BY <1>4, <3>1, <3>11
            <4>2. h = g
                <5>1. next = row
                    BY <3>1, <3>9, <4>1 DEF Untouched
                <5> QED BY <3>2, <3>8, <5>1
            <4> QED BY <1>2, <1>6, <3>2, <3>9, <4>1, <4>2, JobsSame, RowStays
        <3> QED BY <3>10, <3>11
    <2> QED BY <2>2, <2>3
<1> QED BY <1>2, <1>5, <1>7, <1>10, <1>11, StatementCounts

\* The commit of a creation.
LEMMA CreateCommitCounts == ASSUME CInv, IInv', NEW r \in Request, CreateCommit(r) PROVE CInv'
<1> DEFINE u == r + 1
<1>1. Facts /\ Facts' /\ GhostTypes
    BY Known, KnownNext DEF CInv
<1>2. UNCHANGED <<records, job, mix, disturbed, recounted>> /\ Done(r) /\ At(r, "create", "commit")
    BY DEF CreateCommit, overridden
<1>3. u \in Url \ Exists /\ Of(u) = {} /\ Free(u)
    BY <1>2, Unborn DEF CInv, Free
<1>4. PICK row \in Row : row = req[r].row /\ Zero(row)
    BY <1>1, <1>2 DEF At, Creating, Facts, CInv, CopiesFit, CopiesBelow
<1>5. url' = [url EXCEPT ![u] = row] /\ version' = [version EXCEPT ![u] = @ + 1]
    BY <1>4 DEF CreateCommit, Wrote
<1>6. url'[u] = row
    BY <1>1, <1>3, <1>5 DEF Facts
<1>7. intended' = [intended EXCEPT ![u] = Fields(row)]
    BY <1>6 DEF CreateCommit
<1>8. Fields(row) \in FieldsOf /\ Fields(row) # NoRow
    BY FieldsIs
<1>9. GhostTypes' /\ intended'[u] = Fields(row) /\ \A v \in Url \ {u} : intended'[v] = intended[v]
    BY <1>1, <1>2, <1>3, <1>7, <1>8 DEF GhostTypes
<1> HIDE DEF u
<1>10. /\ Steady /\ Of(u)' = {}
       /\ \A v \in Url \ {u} : Untouched(v) /\ Grows(v) /\ Of(v)' = Of(v)
    BY <1>2, <1>3, <1>5, <1>9, RowsSteady
<1>11. /\ \A v \in Exists' \ {u} : Below(v, url[v])'
       /\ \A v \in (Url \ disturbed') \ {u} : Unspoilt(v)'
    BY <1>2, <1>3, <1>9, <1>10, JobsSame, OtherRows
<1>12. /\ Uniques(u)' = {} /\ Impressions(u)' = {}
       /\ Cardinality({}) = 0
    BY <1>10, FS_EmptySet DEF Uniques, Impressions
<1>13. Exact(u, url[u])' /\ Below(u, url[u])'
    BY <1>4, <1>6, <1>10, <1>12 DEF Exact, Below, Zero
<1>14. CountsOf(u)' = {}
    BY <1>2, <1>3 DEF Free, CountsOf, Counts
<1>15. Unspoilt(u)'
    <2>1. u \in Exists'
        BY <1>1, <1>3, <1>6 DEF Facts
    <2>2. Settled(u)'
        BY <1>13, <1>14 DEF Settled
    <2> QED BY <1>4, <1>6, <1>8, <1>9, <1>10, <1>12, <2>1, <2>2 DEF Unspoilt, Zero
<1> QED BY <1>2, <1>9, <1>10, <1>11, <1>13, <1>15, StatementCounts

\* A row in memory is stored over the one there is, for a request or a job.
LEMMA StoredCounts ==
    ASSUME CInv, IInv', GhostTypes', NEW u \in Url, NEW row \in Row, NEW next \in Row, NEW n \in Nat,
           Stored(u, next, n), records' = records, recounted \subseteq recounted', \A v : SameCounts(v),
           KeptCounters(u, next, row), Below(u, row),
           n = version[u] /\ u \notin disturbed => u \in Exists /\ Same(url[u], row),
           \A v \in Url \ {u} : intended'[v] = intended[v],
           NEW f \in FieldsOf \cup {NoRow}, intended'[u] = f, intended[u] = NoRow <=> f = NoRow,
           intended[u] = Fields(row) => f = Fields(next)
    PROVE  /\ Steady
           /\ \A v \in Exists' : Below(v, url[v])'
           /\ \A v \in Url \ disturbed' : Unspoilt(v)'
<1>1. Facts /\ Facts' /\ GhostTypes
    BY Known, KnownNext DEF CInv
<1>2. /\ url' = [url EXCEPT ![u] = next] /\ version' = [version EXCEPT ![u] = @ + 1]
      /\ disturbed \subseteq disturbed' /\ (u \notin disturbed' => version[u] = n)
    BY DEF Stored, Wrote, Spoils
<1>3. Grows(u)
    BY DEF Grows, Of
<1>4. /\ Steady /\ version'[u] > version[u] /\ url'[u] = next /\ Of(u)' = Of(u)
      /\ \A v \in Url \ {u} : Untouched(v) /\ Grows(v) /\ Of(v)' = Of(v)
    BY <1>2, <1>3, RowsSteady
<1>5. /\ \A v \in Exists' \ {u} : Below(v, url[v])'
      /\ \A v \in (Url \ disturbed') \ {u} : Unspoilt(v)'
    BY <1>2, <1>4, OtherRows
<1>6. Below(u, url[u])'
    <2>1. Below(u, row)'
        BY <1>3, BelowGrows DEF CInv
    <2> QED BY <1>4, <2>1 DEF Below, KeptCounters
<1>7. ASSUME u \notin disturbed' PROVE Unspoilt(u)'
    <2>1. u \in Exists /\ Same(url[u], row) /\ Unspoilt(u)
        BY <1>2, <1>7 DEF CInv, RowsKept
    <2>2. PICK old \in Row : old = url[u]
        BY <1>1, <2>1 DEF Facts
    <2>3. KeptCounters(u, next, old) /\ Fields(old) = Fields(row)
        BY <2>1, <2>2, SameIs DEF KeptCounters
    <2>4. Fields(next) = f /\ f # NoRow
        BY <2>1, <2>2, <2>3 DEF Unspoilt
    <2>5. u \in Exists'
        BY <1>1, <1>4 DEF Facts
    <2> QED BY <1>2, <1>4, <1>7, <2>1, <2>2, <2>3, <2>4, <2>5, RowWritten
<1> QED BY <1>4, <1>5, <1>6, <1>7

\* An edit sets of a row what it sets of the fields.
LEMMA EditedFields ==
    ASSUME NEW edit \in Edit
    PROVE  /\ \A f \in FieldsOf : Edited(f, edit) \in FieldsOf
           /\ \A row \in Row : Fields(Edited(row, edit)) = Edited(Fields(row), edit)
<1>1. edit.to \in Row
    BY DEF Edit
<1> DEFINE Given(f, field) == IF field \in edit.sets THEN edit.to[field] ELSE f[field]
           All(f) == [f EXCEPT !.code = Given(f, "code"), !.alias = Given(f, "alias"),
                !.archived = Given(f, "archived"), !.private = Given(f, "private"), !.splash = Given(f, "splash"),
                !.protected = Given(f, "protected"), !.limit = Given(f, "limit"), !.meta = Given(f, "meta")]
<1>2. \A f : Edited(f, edit) = All(f)
    BY DEF Edited
<1>3. ASSUME NEW f \in FieldsOf \cup Row
      PROVE  /\ Given(f, "code") \in Slug /\ Given(f, "alias") \in Slug \cup {NoSlug}
             /\ Given(f, "archived") \in BOOLEAN /\ Given(f, "private") \in BOOLEAN
             /\ Given(f, "splash") \in BOOLEAN /\ Given(f, "protected") \in BOOLEAN
             /\ Given(f, "limit") \in 0..1 /\ Given(f, "meta") \in BOOLEAN
    BY <1>1 DEF FieldsOf, Row
<1>4. ASSUME NEW row \in Row
      PROVE  /\ Given(Fields(row), "code") = Given(row, "code") /\ Given(Fields(row), "alias") = Given(row, "alias")
             /\ Given(Fields(row), "archived") = Given(row, "archived")
             /\ Given(Fields(row), "private") = Given(row, "private")
             /\ Given(Fields(row), "splash") = Given(row, "splash")
             /\ Given(Fields(row), "protected") = Given(row, "protected")
             /\ Given(Fields(row), "limit") = Given(row, "limit") /\ Given(Fields(row), "meta") = Given(row, "meta")
             /\ Fields(row).channels = row.channels
    BY DEF Fields
<1> HIDE DEF Given
<1>5. ASSUME NEW f \in FieldsOf
      PROVE  /\ All(f) \in FieldsOf
             /\ All(f) = [code |-> Given(f, "code"), alias |-> Given(f, "alias"),
                    archived |-> Given(f, "archived"), private |-> Given(f, "private"), splash |-> Given(f, "splash"),
                    protected |-> Given(f, "protected"), limit |-> Given(f, "limit"), meta |-> Given(f, "meta"),
                    channels |-> f.channels]
    <2> DEFINE g == All(f)
               h == [code |-> Given(f, "code"), alias |-> Given(f, "alias"),
                    archived |-> Given(f, "archived"), private |-> Given(f, "private"), splash |-> Given(f, "splash"),
                    protected |-> Given(f, "protected"), limit |-> Given(f, "limit"), meta |-> Given(f, "meta"),
                    channels |-> f.channels]
    <2>1. g \in FieldsOf
        BY <1>3 DEF FieldsOf
    <2>2. /\ g.code = Given(f, "code") /\ g.alias = Given(f, "alias") /\ g.archived = Given(f, "archived")
          /\ g.private = Given(f, "private") /\ g.splash = Given(f, "splash")
          /\ g.protected = Given(f, "protected") /\ g.limit = Given(f, "limit") /\ g.meta = Given(f, "meta")
          /\ g.channels = f.channels
        BY DEF FieldsOf
    <2>3. h \in FieldsOf
        BY <1>3 DEF FieldsOf
    <2>4. /\ h.code = Given(f, "code") /\ h.alias = Given(f, "alias") /\ h.archived = Given(f, "archived")
          /\ h.private = Given(f, "private") /\ h.splash = Given(f, "splash")
          /\ h.protected = Given(f, "protected") /\ h.limit = Given(f, "limit") /\ h.meta = Given(f, "meta")
          /\ h.channels = f.channels
        OBVIOUS
    <2> HIDE DEF g, h
    <2>5. g = h
        BY <2>1, <2>2, <2>3, <2>4, FieldsEqual
    <2> QED BY <2>1, <2>5 DEF g, h
<1>6. ASSUME NEW row \in Row
      PROVE  Fields(All(row)) = [code |-> Given(row, "code"), alias |-> Given(row, "alias"),
                archived |-> Given(row, "archived"), private |-> Given(row, "private"),
                splash |-> Given(row, "splash"), protected |-> Given(row, "protected"),
                limit |-> Given(row, "limit"), meta |-> Given(row, "meta"), channels |-> row.channels]
    BY <1>3 DEF Row, Fields
<1> HIDE DEF All
<1>7. \A row \in Row : Fields(All(row)) = All(Fields(row))
    BY <1>4, <1>5, <1>6, FieldsIs
<1> QED BY <1>2, <1>5, <1>7

LEMMA MergedFields ==
    ASSUME NEW row \in Row, NEW edit \in Edit
    PROVE  /\ Fields(Merged(row, edit)) = Edited(Fields(row), edit)
           /\ Merged(row, edit).clicks = row.clicks /\ Merged(row, edit).impressions = row.impressions
           /\ "uniques" \notin edit.sets => Merged(row, edit).uniques = row.uniques
<1>1. PICK mid : mid = Edited(row, edit)
    OBVIOUS
<1>2. mid \in Row /\ mid.clicks = row.clicks /\ mid.impressions = row.impressions /\ mid.uniques = row.uniques
    BY <1>1, EditedIs
<1>3. PICK n \in Nat : n = IF "uniques" \in edit.sets THEN edit.to.uniques ELSE mid.uniques
    BY <1>2, RowIs DEF Edit
<1>4. Merged(row, edit) = [mid EXCEPT !.uniques = n]
    BY <1>1, <1>3 DEF Merged
<1>5. /\ Fields([mid EXCEPT !.uniques = n]) = Fields(mid) /\ [mid EXCEPT !.uniques = n].uniques = n
      /\ [mid EXCEPT !.uniques = n].clicks = mid.clicks /\ [mid EXCEPT !.uniques = n].impressions = mid.impressions
    BY <1>2 DEF Row, Fields
<1>6. Fields(mid) = Edited(Fields(row), edit)
    BY <1>1, EditedFields
<1> QED BY <1>2, <1>3, <1>4, <1>5, <1>6

LEMMA UpdateSaveCounts == ASSUME CInv, IInv', NEW r \in Request, UpdateSave(r) PROVE CInv'
<1>1. Facts /\ GhostTypes
    BY Known DEF CInv
<1>2. PICK q \in RequestState : q = req[r]
    BY <1>1 DEF Facts
<1>3. PICK u : u = q.u
    OBVIOUS
<1>4. UNCHANGED <<job, mix>> /\ Done(r) /\ mix[r] = "update" /\ q.pc = "save" /\ Editing(r)
    BY <1>2 DEF UpdateSave, At, Editing
<1>5. PICK row \in Row, edit \in Edit : row = q.row /\ edit = q.edit /\ u \in Url /\ q.version \in Nat
    BY <1>1, <1>2, <1>3, <1>4 DEF Facts, RequestState
<1>6. PICK next \in Row : next = Merged(row, edit)
    BY MergedIs
<1>7. CASE Refused(u, next)
    <2>1. UNCHANGED <<url, records, version, intended, disturbed, recounted>>
        BY <1>2, <1>3, <1>5, <1>6, <1>7 DEF UpdateSave, Tables, ghosts, overridden
    <2> QED BY <1>4, <2>1, EndsCounts DEF Ends
<1>8. CASE ~Refused(u, next)
    <2>1. /\ Stored(u, next, q.version) /\ records' = records
          /\ intended' = [intended EXCEPT ![u] = IF @ = NoRow THEN @ ELSE Edited(@, edit)]
          /\ recounted' = IF "uniques" \in edit.sets THEN recounted \cup {u} ELSE recounted
        BY <1>2, <1>3, <1>5, <1>6, <1>8 DEF UpdateSave
    <2>2. PICK g \in FieldsOf \cup {NoRow} : g = intended[u]
        BY <1>1, <1>5 DEF GhostTypes
    <2>3. PICK f \in FieldsOf \cup {NoRow} :
            f = (IF g = NoRow THEN g ELSE Edited(g, edit)) /\ (g = NoRow <=> f = NoRow)
        BY EditedFields, NotNoRow
    <2>4. intended' = [intended EXCEPT ![u] = f]
        BY <2>1, <2>2, <2>3
    <2>5. intended'[u] = f /\ \A v \in Url \ {u} : intended'[v] = intended[v]
        BY <1>1, <1>5, <2>4 DEF GhostTypes
    <2>6. GhostTypes'
        <3>1. disturbed' \subseteq Url
            BY <1>1, <1>5, <2>1 DEF GhostTypes, Stored, Spoils
        <3> QED BY <1>1, <2>1, <2>4, <3>1 DEF GhostTypes
    <2>7. KeptCounters(u, next, row)
        BY <1>6, <2>1, MergedFields DEF KeptCounters
    <2>8. g = Fields(row) => f = Fields(next)
        BY <1>6, <2>3, FieldsIs, MergedFields
    <2>9. Below(u, row) /\ (q.version = version[u] /\ u \notin disturbed => u \in Exists /\ Same(url[u], row))
        BY <1>2, <1>3, <1>4, <1>5 DEF CInv, CopiesFit, CopiesBelow, RequestCurrent
    <2>10. /\ Steady
           /\ \A v \in Exists' : Below(v, url[v])'
           /\ \A v \in Url \ disturbed' : Unspoilt(v)'
        BY <1>4, <1>5, <2>1, <2>2, <2>3, <2>5, <2>6, <2>7, <2>8, <2>9, JobsSame, StoredCounts
    <2> QED BY <1>4, <2>6, <2>10, StatementCounts
<1> QED BY <1>7, <1>8

-----------------------------------------------------------------------------
(* Jobs that write. *)

LEMMA JobWritesCounts ==
    ASSUME CInv, IInv', NEW r \in Request, NEW j, job' = [job EXCEPT ![r] = j], UNCHANGED <<req, mix>>,
           j.row = NoRow, j.pc # "count", GhostTypes', Steady,
           \A u \in Exists' : Below(u, url[u])', \A u \in Url \ disturbed' : Unspoilt(u)'
    PROVE  CInv'
<1>1. Facts
    BY Known DEF CInv
<1>2. job'[r] = j /\ StepOf(r) /\ ~Counts(r)'
    BY <1>1 DEF Facts, StepOf, Counts
<1>3. (Creating(r)' <=> Creating(r)) /\ (Editing(r)' <=> Editing(r)) /\ req'[r] = req[r]
    BY DEF Creating, Editing
<1>4. StartsAtZero(r) /\ SameRequest(r) /\ SameJob(r)
    BY <1>1, <1>2, <1>3, SameSelf DEF StartsAtZero, SameRequest, SameJob, CInv, CopiesFit, CopiesBelow, Facts
<1>5. \A x \in Request : CopiesFit(x)'
    BY <1>2, <1>4, OthersCopies, CopiesStay
<1> QED BY <1>5, Together

LEMMA AnsweredIs ==
    ASSUME Facts, NEW r \in Request, Answered(r)
    PROVE  \E j : job' = [job EXCEPT ![r] = j] /\ j.row = NoRow /\ j.pc = "finish"
<1>1. PICK i \in JobState : i = job[r]
    BY DEF Facts
<1> DEFINE j == [i EXCEPT !.pc = "finish", !.version = 0, !.row = NoRow]
<1>2. job' = [job EXCEPT ![r] = j]
    BY <1>1 DEF Answered, Facts
<1>3. j.row = NoRow /\ j.pc = "finish"
    BY DEF JobState
<1> HIDE DEF j
<1> QED BY <1>2, <1>3

LEMMA SaveMetadataCounts == ASSUME CInv, IInv', NEW r \in Request, SaveMetadata(r) PROVE CInv'
<1>1. Facts /\ GhostTypes
    BY Known DEF CInv
<1>2. PICK i \in JobState : i = job[r]
    BY <1>1 DEF Facts
<1>3. PICK u : u = i.u
    OBVIOUS
<1>4. UNCHANGED <<req, mix>> /\ i.pc = "save" /\ i.queue = "metadata"
    BY <1>2 DEF SaveMetadata, Runs
<1>5. u \in Url /\ i.version \in Nat /\ i.row # NoRow
    <2>1. PICK code \in Coding : Fits(code)
        BY DEF CInv, IInv, RowsInv
    <2>2. i.row # NoRow
        BY <1>2, <1>4, <2>1 DEF Fits, JobFits
    <2> QED BY <1>3, <2>2 DEF JobState
<1>6. PICK row \in Row : row = i.row
    BY <1>1, <1>2, <1>5 DEF Facts
<1>7. PICK next \in Row : next = [row EXCEPT !.meta = TRUE]
    BY DEF Row
<1>8. KeptCounters(u, next, row)
    BY <1>7 DEF Row, KeptCounters
<1>9. CASE Refused(u, next)
    <2>1. AttemptFailed(r) /\ Still
        BY <1>2, <1>3, <1>4, <1>6, <1>7, <1>9 DEF SaveMetadata, Still, Tables, ghosts, overridden
    <2> QED BY <1>2, <1>4, <2>1, AttemptFailedCounts
<1>10. CASE ~Refused(u, next)
    <2>1. /\ Stored(u, next, i.version) /\ UNCHANGED <<records, recounted>> /\ Answered(r)
          /\ intended' = Change(u, "meta", TRUE)
        BY <1>2, <1>3, <1>6, <1>7, <1>10 DEF SaveMetadata, overridden
    <2>2. PICK j : job' = [job EXCEPT ![r] = j] /\ j.row = NoRow /\ j.pc = "finish"
        BY <1>1, <2>1, AnsweredIs
    <2>3. PICK g \in FieldsOf \cup {NoRow} : g = intended[u]
        BY <1>1, <1>5 DEF GhostTypes
    <2>4. PICK f \in FieldsOf \cup {NoRow} :
            f = (IF g = NoRow THEN g ELSE [g EXCEPT !["meta"] = TRUE]) /\ (g = NoRow <=> f = NoRow)
        <3>1. g \in FieldsOf => [g EXCEPT !["meta"] = TRUE] \in FieldsOf
            BY DEF FieldsOf
        <3> QED BY <3>1, NotNoRow
    <2>5. intended' = [intended EXCEPT ![u] = f]
        <3>1. intended' = [intended EXCEPT ![u] =
                IF intended[u] = NoRow THEN intended[u] ELSE [intended[u] EXCEPT !["meta"] = TRUE]]
            BY <2>1, Zenon DEF Change
        <3> QED BY <2>3, <2>4, <3>1
    <2>6. intended'[u] = f /\ \A v \in Url \ {u} : intended'[v] = intended[v]
        BY <1>1, <1>5, <2>5 DEF GhostTypes
    <2>7. GhostTypes'
        <3>1. disturbed' \subseteq Url
            BY <1>1, <1>5, <2>1 DEF GhostTypes, Stored, Spoils
        <3> QED BY <1>1, <2>1, <2>5, <3>1 DEF GhostTypes
    <2>8. ASSUME g = Fields(row) PROVE f = Fields(next)
        <3>1. g # NoRow
            BY <2>8, FieldsIs
        <3> QED BY <1>7, <2>4, <2>8, <3>1, MetaFields
    <2>9. Below(u, row) /\ (i.version = version[u] /\ u \notin disturbed => u \in Exists /\ Same(url[u], row))
        <3>1. Below(u, row) /\ JobCurrent(r) /\ ~Counts(r)
            BY <1>2, <1>3, <1>4, <1>5, <1>6 DEF CInv, CopiesFit, CopiesBelow, Counts
        <3> QED BY <1>2, <1>3, <1>5, <1>6, <3>1, SameSelf DEF JobCurrent
    <2>10. \A v : SameCounts(v)
        <3>1. ~Counts(r) /\ ~Counts(r)' /\ StepOf(r)
            BY <1>1, <1>2, <1>4, <2>2 DEF Facts, Counts, StepOf
        <3> QED BY <3>1, CountsStill
    <2>11. /\ Steady
           /\ \A v \in Exists' : Below(v, url[v])'
           /\ \A v \in Url \ disturbed' : Unspoilt(v)'
        BY <1>5, <1>8, <2>1, <2>3, <2>4, <2>6, <2>7, <2>8, <2>9, <2>10, StoredCounts
    <2> QED BY <1>4, <2>2, <2>7, <2>11, JobWritesCounts
<1> QED BY <1>9, <1>10

LEMMA CountsElsewhere ==
    ASSUME NEW r \in Request, StepOf(r), NEW u, r \notin CountsOf(u), r \notin CountsOf(u)'
    PROVE  SameCounts(u)
<1>1. \A x \in Request \ {r} : job'[x] = job[x]
    BY DEF StepOf
<1> QED BY <1>1 DEF SameCounts, CountsOf, Counts

LEMMA WorkerFailsCounts == ASSUME CInv, IInv', NEW r \in Request, WorkerFails(r) PROVE CInv'
<1>1. Facts /\ GhostTypes
    BY Known DEF CInv
<1>2. PICK i \in JobState : i = job[r]
    BY <1>1 DEF Facts
<1>3. /\ UNCHANGED <<url, records, version, intended, recounted, req, mix>> /\ AttemptFailed(r)
      /\ disturbed' = IF i.pc = "count" THEN disturbed \cup {i.u} ELSE disturbed
    BY <1>2 DEF WorkerFails, Tables, overridden
<1> DEFINE pc == IF i.tries + 1 = MaxAttempts THEN "failed" ELSE "waiting"
           f == [Finished(i, pc) EXCEPT !.tries = i.tries + 1]
<1>4. job' = [job EXCEPT ![r] = f]
    BY <1>2, <1>3 DEF AttemptFailed
<1>5. f.row = NoRow /\ f.pc # "count"
    BY DEF Finished, JobState
<1> HIDE DEF f
<1>6. StepOf(r) /\ ~Counts(r)' /\ i.u \in Url
    BY <1>1, <1>2, <1>3, <1>4, <1>5 DEF Facts, StepOf, Counts
<1>7. GhostTypes'
    BY <1>1, <1>3, <1>6 DEF GhostTypes
<1>8. \A u \in Url : Untouched(u) /\ Grows(u) /\ intended'[u] = intended[u] /\ Of(u)' = Of(u)
    BY <1>3 DEF Untouched, Grows, Of
<1>9. Steady
    BY <1>3, <1>8 DEF Steady, Touched
<1>10. \A u \in Exists' : Below(u, url[u])'
    BY <1>3 DEF CInv, RowsBelow, Exists, Below, Of, Uniques, Impressions
<1>11. ASSUME NEW u \in Url \ disturbed' PROVE Unspoilt(u)'
    <2>1. r \notin CountsOf(u) /\ r \notin CountsOf(u)'
        BY <1>2, <1>3, <1>6 DEF CountsOf, Counts
    <2> QED BY <1>3, <1>6, <1>8, <2>1, CountsElsewhere, RowStays
<1> QED BY <1>3, <1>4, <1>5, <1>7, <1>9, <1>10, <1>11, JobWritesCounts

LEMMA IncrementCountCounts == ASSUME CInv, IInv', NEW r \in Request, IncrementCount(r) PROVE CInv'
<1>1. Facts /\ Facts' /\ GhostTypes
    BY Known, KnownNext DEF CInv
<1>2. PICK i \in JobState : i = job[r]
    BY <1>1 DEF Facts
<1>3. PICK u \in Url : u = i.u
    BY DEF JobState
<1>4. UNCHANGED <<records, req, mix, intended, recounted>> /\ Answered(r) /\ Counts(r) /\ r \in CountsOf(u)
    BY <1>2, <1>3 DEF IncrementCount, Runs, Counts, CountsOf, overridden
<1>5. PICK j : job' = [job EXCEPT ![r] = j] /\ j.row = NoRow /\ j.pc = "finish"
    BY <1>1, <1>4, AnsweredIs
<1>6. StepOf(r) /\ ~Counts(r)' /\ \A v : r \notin CountsOf(v)'
    BY <1>1, <1>4, <1>5 DEF Facts, StepOf, Counts, CountsOf
<1>7. \A v \in Url \ {u} : SameCounts(v)
    <2>1. \A v \in Url \ {u} : r \notin CountsOf(v)
        BY <1>2, <1>3 DEF CountsOf
    <2> QED BY <1>6, <2>1, CountsElsewhere
<1>8. CASE u \notin Exists
    <2>1. UNCHANGED <<url, version, disturbed>>
        BY <1>2, <1>3, <1>8 DEF IncrementCount
    <2>2. GhostTypes'
        BY <1>1, <1>4, <2>1 DEF GhostTypes
    <2>3. \A v \in Url : Untouched(v) /\ Grows(v) /\ intended'[v] = intended[v] /\ Of(v)' = Of(v)
        BY <1>4, <2>1 DEF Untouched, Grows, Of
    <2>4. Steady
        BY <1>4, <2>1, <2>3 DEF Steady, Touched
    <2>5. \A v \in Exists' : Below(v, url[v])'
        BY <1>4, <2>1 DEF CInv, RowsBelow, Exists, Below, Of, Uniques, Impressions
    <2>6. \A v \in (Url \ disturbed') \ {u} : Unspoilt(v)'
        BY <1>4, <1>7, <2>1, <2>3, RowStays
    <2>7. u \notin disturbed' => Unspoilt(u)'
        BY <1>4, <1>8, <2>1 DEF CInv, RowsKept, Unspoilt, Exists
    <2> QED BY <1>4, <1>5, <2>2, <2>4, <2>5, <2>6, <2>7, JobWritesCounts
<1>9. CASE u \in Exists
    <2>1. PICK row \in Row : row = url[u]
        BY <1>1, <1>9 DEF Facts
    <2>2. PICK from \in Row : from = i.row
        BY <1>1, <1>2, <1>4 DEF Facts
    <2>3. PICK next \in Row :
            /\ next = Counted(row, i)
            /\ Fields(next) = Fields(row)
            /\ next.clicks = IF i.type = "CLICK" THEN from.clicks + 1 ELSE row.clicks
            /\ next.uniques =
                 IF i.type = "CLICK" THEN IF i.unique THEN from.uniques + 1 ELSE from.uniques ELSE row.uniques
            /\ next.impressions = IF i.type = "CLICK" THEN row.impressions ELSE from.impressions + 1
        BY <2>2, CountedRow
    <2>4. /\ url' = [url EXCEPT ![u] = next] /\ version' = [version EXCEPT ![u] = @ + 1]
          /\ disturbed' = IF version[u] = i.version THEN disturbed ELSE disturbed \cup {u}
        BY <1>1, <1>2, <1>3, <1>9, <2>1, <2>3 DEF IncrementCount, Wrote, Spoils, Facts
    <2>5. GhostTypes' /\ disturbed \subseteq disturbed'
        BY <1>1, <1>3, <1>4, <2>4 DEF GhostTypes
    <2>6. Grows(u)
        BY <1>4 DEF Grows, Of
    <2>7. /\ Steady /\ version'[u] > version[u] /\ url'[u] = next /\ Of(u)' = Of(u)
          /\ \A v \in Url \ {u} : Untouched(v) /\ Grows(v) /\ Of(v)' = Of(v)
        BY <1>4, <2>4, <2>5, <2>6, RowsSteady
    <2>8. /\ \A v \in Exists' \ {u} : Below(v, url[v])'
          /\ \A v \in (Url \ disturbed') \ {u} : Unspoilt(v)'
        BY <1>4, <1>7, <2>5, <2>7, OtherRows
    <2>9. Uniques(u)' = Uniques(u) /\ Impressions(u)' = Impressions(u)
        BY <2>7 DEF Uniques, Impressions
    <2>10. Below(u, url[u])'
        <3>1. Below(u, row) /\ Below(u, Counted(from, i))
            BY <1>2, <1>3, <1>4, <1>9, <2>1, <2>2 DEF CInv, RowsBelow, CopiesFit, CopiesBelow
        <3>2. /\ Counted(from, i).clicks = IF i.type = "CLICK" THEN from.clicks + 1 ELSE from.clicks
              /\ Counted(from, i).uniques =
                   IF i.type = "CLICK" THEN IF i.unique THEN from.uniques + 1 ELSE from.uniques ELSE from.uniques
              /\ Counted(from, i).impressions = IF i.type = "CLICK" THEN from.impressions ELSE from.impressions + 1
            BY <2>2, CountedRow
        <3>3. Below(u, next)
            BY <2>3, <3>1, <3>2 DEF Below
        <3> QED BY <1>4, <2>7, <2>9, <3>3 DEF Below
    <2>11. ASSUME u \notin disturbed' PROVE Unspoilt(u)'
        <3>1. version[u] = i.version /\ u \notin disturbed /\ Unspoilt(u) /\ ~Late(r)
            BY <1>2, <1>3, <2>4, <2>11 DEF CInv, RowsKept, Late
        <3>2. row.clicks = from.clicks + 1
            <4>1. url[u] = [from EXCEPT !.clicks = @ + 1]
                BY <1>1, <1>2, <1>3, <1>4, <2>2, <3>1, RowIs DEF CInv, CopiesFit, JobCurrent, Facts
            <4> QED BY <2>1, <4>1 DEF Row
        <3>3. next.clicks = Cardinality(Of(u)') /\ Fields(next) = intended'[u] /\ intended'[u] # NoRow /\ u \in Exists'
            BY <1>1, <1>4, <1>9, <2>1, <2>3, <2>7, <3>1, <3>2 DEF Unspoilt, Facts
        <3>4. Settled(u)'
            <4>1. CASE \E x \in CountsOf(u) : Late(x)
                <5>1. PICK x \in CountsOf(u) : Late(x)
                    BY <4>1
                <5>2. x \in CountsOf(u)' /\ Late(x)'
                    BY <1>6, <2>7, <3>1, <5>1, Overtaken DEF StepOf, CountsOf
                <5> QED BY <5>2 DEF Settled
            <4>2. CASE \E x \in CountsOf(u) : CountsOf(u) = {x} /\ Exact(u, Counted(url[u], job[x]))
                <5>1. CountsOf(u) = {r} /\ Exact(u, next)
                    BY <1>2, <1>4, <2>1, <2>3, <4>2
                <5>2. CountsOf(u)' = {}
                    BY <1>6, <5>1 DEF CountsOf, Counts, StepOf
                <5> QED BY <1>4, <2>7, <2>9, <5>1, <5>2 DEF Settled, Exact
            <4> QED BY <1>4, <1>9, <3>1, <4>1, <4>2 DEF Unspoilt, Settled
        <3> QED BY <2>7, <3>3, <3>4 DEF Unspoilt
    <2> QED BY <1>4, <1>5, <2>5, <2>7, <2>8, <2>10, <2>11, JobWritesCounts
<1> QED BY <1>8, <1>9

\* A record more.
LEMMA RecordAdded ==
    ASSUME CInv, GhostTypes', NEW u \in Url, NEW a \in Record, a.url = u, a \notin records, records' = records \cup {a}
    PROVE  /\ Cardinality(Of(u)') = Cardinality(Of(u)) + 1
           /\ Cardinality(Uniques(u)') = Cardinality(Uniques(u)) + IF a.unique THEN 1 ELSE 0
           /\ Cardinality(Impressions(u)') = Cardinality(Impressions(u)) + IF a.type = "IMPRESSION" THEN 1 ELSE 0
           /\ Of(u) \subseteq Of(u)' /\ \A v \in Url \ {u} : Of(v)' = Of(v)
<1>1. IsFiniteSet(Of(u)) /\ IsFiniteSet(Uniques(u)) /\ IsFiniteSet(Impressions(u))
      /\ Cardinality(Of(u)) \in Nat /\ Cardinality(Uniques(u)) \in Nat /\ Cardinality(Impressions(u)) \in Nat
    BY Numbered DEF CInv
<1>2. /\ Of(u)' = Of(u) \cup {a} /\ a \notin Of(u) /\ \A v \in Url \ {u} : Of(v)' = Of(v)
      /\ Uniques(u)' = (IF a.unique THEN Uniques(u) \cup {a} ELSE Uniques(u)) /\ a \notin Uniques(u)
      /\ Impressions(u)' = (IF a.type = "IMPRESSION" THEN Impressions(u) \cup {a} ELSE Impressions(u))
      /\ a \notin Impressions(u)
    BY DEF Of, Uniques, Impressions
<1>3. Cardinality(Of(u)') = Cardinality(Of(u)) + 1
    BY <1>1, <1>2, FS_AddElement
<1>4. Cardinality(Uniques(u)') = Cardinality(Uniques(u)) + IF a.unique THEN 1 ELSE 0
    <2>1. CASE a.unique
        BY <1>1, <1>2, <2>1, FS_AddElement
    <2>2. CASE ~a.unique
        BY <1>1, <1>2, <2>2
    <2> QED BY <2>1, <2>2
<1>5. Cardinality(Impressions(u)') = Cardinality(Impressions(u)) + IF a.type = "IMPRESSION" THEN 1 ELSE 0
    <2>1. CASE a.type = "IMPRESSION"
        BY <1>1, <1>2, <2>1, FS_AddElement
    <2>2. CASE a.type # "IMPRESSION"
        BY <1>1, <1>2, <2>2
    <2> QED BY <2>1, <2>2
<1> QED BY <1>2, <1>3, <1>4, <1>5

LEMMA RecordVisitCounts == ASSUME CInv, IInv', NEW r \in Request, RecordVisit(r) PROVE CInv'
<1>1. Facts /\ Facts' /\ GhostTypes
    BY Known, KnownNext DEF CInv
<1>2. PICK i \in JobState : i = job[r]
    BY <1>1 DEF Facts
<1>3. PICK u \in Url : u = i.u
    BY DEF JobState
<1>4. UNCHANGED <<req, mix>> /\ i.pc = "record" /\ i.queue = "analytic"
    BY <1>2 DEF RecordVisit, Runs
<1>5. CASE NoRecord(i)
    <2>1. AttemptFailed(r) /\ Still
        BY <1>2, <1>4, <1>5 DEF RecordVisit, Still, Tables, ghosts, overridden
    <2> QED BY <1>2, <1>4, <2>1, AttemptFailedCounts
<1>6. CASE ~NoRecord(i)
    <2>1. PICK from \in Row : from = i.row /\ (i.unique => i.type = "CLICK")
        <3>1. PICK code \in Coding : Fits(code)
            BY DEF CInv, IInv, RowsInv
        <3>2. i.row # NoRow /\ (i.unique => i.type = "CLICK")
            BY <1>2, <1>4, <3>1 DEF Fits, JobFits, Holding
        <3> QED BY <1>1, <1>2, <3>2 DEF Facts
    <2>2. u \in Exists /\ \A b \in records : ~(b.url = u /\ b.hash = HashOf(i))
        BY <1>3, <1>6 DEF NoRecord
    <2>3. PICK row \in Row : row = url[u]
        BY <1>1, <2>2 DEF Facts
    <2>4. PICK next \in Row : next = [row EXCEPT !.clicks = from.clicks + 1]
        <3>1. from.clicks + 1 \in Nat
            BY RowIs
        <3> QED BY <3>1 DEF Row
    <2>5. next.clicks = from.clicks + 1 /\ next.uniques = row.uniques /\ next.impressions = row.impressions
          /\ Fields(next) = Fields(row)
        BY <2>4 DEF Row, Fields
    <2>6. PICK a : a = [url |-> u, hash |-> HashOf(i), unique |-> i.unique, type |-> i.type, job |-> r, try |-> i.tries]
        OBVIOUS
    <2>7. /\ a.url = u /\ a.hash = HashOf(i) /\ a.type = i.type
          /\ a.unique = i.unique
        BY <2>6
    <2>8. /\ records' = records \cup {a} /\ intended' = intended /\ recounted' = recounted
          /\ url' = [url EXCEPT ![u] = next] /\ version' = [version EXCEPT ![u] = @ + 1]
          /\ disturbed' = IF version[u] = i.version THEN disturbed ELSE disturbed \cup {u}
        BY <1>1, <1>2, <1>3, <1>6, <2>1, <2>3, <2>4, <2>6 DEF RecordVisit, Wrote, Spoils, Facts, overridden
    <2>9. a \in Record /\ a \notin records
        BY <1>1, <2>2, <2>7, <2>8, KnownNext DEF Facts
    <2> PICK j : j = [i EXCEPT !.pc = "count", !.version = version[u] + 1]
        OBVIOUS
    <2>10. job' = [job EXCEPT ![r] = j]
        BY <1>1, <1>2, <1>3, <1>6 DEF RecordVisit, Facts
    <2>11. /\ j.pc = "count" /\ j.version = version[u] + 1 /\ j.u = u /\ j.row = from /\ j.queue = "analytic"
           /\ j.type = i.type /\ j.unique = i.unique
        BY <1>3, <1>4, <2>1 DEF JobState
    <2>12. job'[r] = j /\ StepOf(r) /\ Counts(r)' /\ ~Counts(r)
        BY <1>1, <1>2, <1>4, <2>10, <2>11 DEF Facts, StepOf, Counts
    <2>13. GhostTypes' /\ disturbed \subseteq disturbed'
        BY <1>1, <2>8, FS_AddElement DEF GhostTypes
    <2>14. /\ Cardinality(Of(u)') = Cardinality(Of(u)) + 1
           /\ Cardinality(Uniques(u)') = Cardinality(Uniques(u)) + IF i.unique THEN 1 ELSE 0
           /\ Cardinality(Impressions(u)') = Cardinality(Impressions(u)) + IF i.type = "IMPRESSION" THEN 1 ELSE 0
           /\ Of(u) \subseteq Of(u)' /\ \A v \in Url \ {u} : Of(v)' = Of(v)
        BY <2>7, <2>8, <2>9, <2>13, RecordAdded
    <2>15. /\ Cardinality(Of(u)) \in Nat /\ Cardinality(Uniques(u)) \in Nat /\ Cardinality(Impressions(u)) \in Nat
           /\ from.clicks \in Nat /\ from.uniques \in Nat /\ from.impressions \in Nat
           /\ row.clicks \in Nat /\ row.uniques \in Nat /\ row.impressions \in Nat
        BY <1>1, Numbered, RowIs
    <2>16. version'[u] = version[u] + 1 /\ version'[u] > version[u] /\ url'[u] = next
           /\ \A v \in Url \ {u} : Untouched(v) /\ Grows(v)
        BY <1>1, <2>8, <2>14 DEF Facts, Untouched, Grows
    <2>17. Grows(u)
        BY <2>8, <2>14 DEF Grows
    <2>18. Steady
        BY <2>8, <2>13, <2>16, <2>17 DEF Steady, Touched
    <2>19. \A v \in Url \ {u} : SameCounts(v)
        <3>1. \A v \in Url \ {u} : r \notin CountsOf(v) /\ r \notin CountsOf(v)'
            BY <2>11, <2>12 DEF CountsOf
        <3> QED BY <2>12, <3>1, CountsElsewhere
    <2>20. /\ \A v \in Exists' \ {u} : Below(v, url[v])'
           /\ \A v \in (Url \ disturbed') \ {u} : Unspoilt(v)'
        BY <2>8, <2>13, <2>14, <2>16, <2>19, OtherRows
    <2>21. Below(u, row) /\ Below(u, from) /\ JobCurrent(r)
        BY <1>2, <1>3, <2>1, <2>2, <2>3, RowIs DEF CInv, RowsBelow, CopiesFit, CopiesBelow
    <2>22. Below(u, url[u])'
        <3>1. /\ intended[u] # NoRow =>
                    /\ next.clicks <= Cardinality(Of(u)')
                    /\ u \notin recounted => next.uniques <= Cardinality(Uniques(u)')
                    /\ next.impressions <= Cardinality(Impressions(u)')
            BY <2>5, <2>14, <2>15, <2>21 DEF Below
        <3> QED BY <2>8, <2>16, <3>1 DEF Below
    <2>23. Below(u, from)' /\ Below(u, Counted(from, j))'
        <3>1. /\ Counted(from, i).clicks = IF i.type = "CLICK" THEN from.clicks + 1 ELSE from.clicks
              /\ Counted(from, i).uniques =
                   IF i.type = "CLICK" THEN IF i.unique THEN from.uniques + 1 ELSE from.uniques ELSE from.uniques
              /\ Counted(from, i).impressions = IF i.type = "CLICK" THEN from.impressions ELSE from.impressions + 1
            BY <2>1, CountedRow
        <3>2. Counted(from, j) = Counted(from, i)
            BY <2>1, <2>11 DEF Counted
        <3>3. PICK third : third = Counted(from, i)
            OBVIOUS
        <3>4. intended[u] # NoRow =>
                    /\ third.clicks <= Cardinality(Of(u)')
                    /\ u \notin recounted => third.uniques <= Cardinality(Uniques(u)')
                    /\ third.impressions <= Cardinality(Impressions(u)')
            BY <2>1, <2>14, <2>15, <2>21, <3>1, <3>3 DEF Below, JobState
        <3>5. Below(u, third)'
            BY <2>8, <3>4 DEF Below
        <3>6. Below(u, from)'
            BY <2>13, <2>17, <2>21, BelowGrows DEF CInv
        <3> QED BY <3>2, <3>3, <3>5, <3>6
    <2>24. JobCurrent(r)'
        <3>1. version[u] \in Nat /\ version'[u] = version[u] + 1
            BY <1>1, <2>16 DEF Facts
        <3>2. ASSUME u \notin disturbed'
              PROVE  url'[u] = [from EXCEPT !.clicks = from.clicks + 1]
            <4>1. version[u] = i.version /\ u \notin disturbed
                BY <2>8, <3>2
            <4>2. row = from
                BY <1>2, <1>3, <2>1, <2>3, <2>12, <2>21, <4>1, RowIs DEF JobCurrent
            <4> QED BY <2>4, <2>16, <4>2
        <3>3. u \in Exists'
            BY <1>1, <2>16 DEF Facts
        <3> QED BY <2>11, <2>12, <3>1, <3>2, <3>3 DEF JobCurrent
    <2>25. CopiesFit(r)'
        <3>1. req'[r] = req[r] /\ (Creating(r)' <=> Creating(r)) /\ (Editing(r)' <=> Editing(r))
            BY <1>4 DEF Creating, Editing
        <3>2. StartsAtZero(r) /\ SameRequest(r)
            BY <1>1, <3>1, SameSelf DEF StartsAtZero, SameRequest, CInv, CopiesFit, CopiesBelow, Facts
        <3>3. /\ RequestCurrent(r)' /\ (Creating(r)' => Zero(req'[r].row))
              /\ Editing(r)' => Below(req[r].u, req[r].row)'
            BY <2>13, <2>18, <3>2, RequestStays
        <3>4. job'[r].u = u /\ job'[r].row = from /\ job'[r] = j
            BY <2>11, <2>12
        <3>5. Below(job[r].u, job[r].row)' /\ Below(job[r].u, Counted(job[r].row, job[r]))'
            BY <2>23, <3>4
        <3> QED BY <2>24, <3>3, <3>5 DEF CopiesFit, CopiesBelow
    <2>26. \A x \in Request : CopiesFit(x)'
        BY <2>12, <2>13, <2>18, <2>25, OthersCopies
    <2>27. ASSUME u \notin disturbed' PROVE Unspoilt(u)'
        <3>1. version[u] = i.version /\ u \notin disturbed /\ Unspoilt(u)
            BY <2>8, <2>27 DEF CInv, RowsKept
        <3>2. row = from
            BY <1>2, <1>3, <2>1, <2>3, <2>12, <2>21, <3>1, RowIs DEF JobCurrent
        <3>3. /\ next.clicks = Cardinality(Of(u)') /\ Fields(next) = intended'[u] /\ intended'[u] # NoRow
              /\ u \in Exists'
            BY <1>1, <2>2, <2>3, <2>5, <2>8, <2>14, <2>16, <3>1, <3>2 DEF Unspoilt, Facts
        <3>4. Settled(u)'
            <4>1. CASE CountsOf(u) # {}
                <5>1. PICK x \in CountsOf(u) : TRUE
                    BY <4>1
                <5>2. x \in Request \ {r}
                    BY <2>12 DEF CountsOf
                <5>3. x \in CountsOf(u)' /\ Late(x)'
                    BY <2>12, <2>16, <5>2, Overtaken DEF StepOf
                <5> QED BY <5>3 DEF Settled
            <4>2. CASE CountsOf(u) = {}
                <5>1. Exact(u, row)
                    <6>1. Settled(u)
                        BY <2>2, <3>1 DEF Unspoilt
                    <6>2. Exact(u, url[u])
                        BY <4>2, <6>1 DEF Settled
                    <6> QED BY <2>3, <6>2
                <5>2. CountsOf(u)' = {r}
                    <6>1. r \in CountsOf(u)'
                        BY <2>11, <2>12 DEF CountsOf
                    <6>2. ASSUME NEW x \in CountsOf(u)', x # r PROVE FALSE
                        <7>1. x \in Request /\ Counts(x)' /\ job'[x].u = u
                            BY DEF CountsOf
                        <7>2. job'[x] = job[x]
                            BY <2>12, <6>2, <7>1 DEF StepOf
                        <7>3. x \in CountsOf(u)
                            BY <7>1, <7>2 DEF CountsOf, Counts
                        <7> QED BY <4>2, <7>3
                    <6> QED BY <6>1, <6>2
                <5>3. j \in JobState /\ i.type \in {"CLICK", "IMPRESSION"}
                    BY <1>1, <2>12 DEF Facts, JobState
                <5>4. /\ Counted(next, j).uniques =
                           IF i.type = "CLICK" THEN IF i.unique THEN row.uniques + 1 ELSE row.uniques ELSE row.uniques
                      /\ Counted(next, j).impressions =
                           IF i.type = "CLICK" THEN row.impressions ELSE row.impressions + 1
                    <6>1. j.row \in Row /\ j.row = row /\ next.uniques = row.uniques /\ next.impressions = row.impressions
                        BY <2>5, <2>11, <3>2
                    <6>2. /\ Counted(next, j).uniques =
                               IF j.type = "CLICK" THEN IF j.unique THEN j.row.uniques + 1 ELSE j.row.uniques
                               ELSE next.uniques
                          /\ Counted(next, j).impressions =
                               IF j.type = "CLICK" THEN next.impressions ELSE j.row.impressions + 1
                        BY <5>3, <6>1, CountedRow
                    <6> QED BY <2>11, <6>1, <6>2
                <5>5. PICK third : third = Counted(next, j)
                    OBVIOUS
                <5>6. /\ u \notin recounted => third.uniques = Cardinality(Uniques(u)')
                      /\ third.impressions = Cardinality(Impressions(u)')
                    BY <2>1, <2>14, <2>15, <5>1, <5>3, <5>4, <5>5 DEF Exact
                <5>7. Exact(u, third)'
                    BY <2>8, <5>6 DEF Exact
                <5>8. r \in CountsOf(u)' /\ Exact(u, Counted(url[u], job[r]))'
                    BY <2>12, <2>16, <5>2, <5>5, <5>7
                <5> QED BY <5>2, <5>8 DEF Settled
            <4> QED BY <4>1, <4>2
        <3> QED BY <2>16, <3>3, <3>4 DEF Unspoilt
    <2> QED BY <2>13, <2>20, <2>22, <2>26, <2>27, Together
<1> QED BY <1>5, <1>6

-----------------------------------------------------------------------------
LEMMA CountsInitially == Init => CInv
<1> SUFFICES ASSUME Init PROVE CInv
    OBVIOUS
<1>1. IInv
    BY Initially
<1>2. Facts
    BY <1>1, Known
<1>3. PICK row \in First : url = [u \in Url |-> IF u = 1 THEN row ELSE NoRow]
    BY DEF Init
<1>4. row \in Row /\ row.clicks = 0 /\ row.uniques = 0 /\ row.impressions = 0
    BY <1>3, FirstAssumption
<1>5. 1 \in Url /\ url[1] = row /\ Exists = {1}
    BY <1>3, <1>4, RowIs DEF Url, Exists
<1>6. PICK f \in FieldsOf : f = Fields(row) /\ f # NoRow
    BY <1>4, FieldsIs
<1>7. intended = [u \in Url |-> IF u = 1 THEN f ELSE NoRow]
    BY <1>5, <1>6 DEF Init
<1>8. \A u : Of(u) = {} /\ Uniques(u) = {} /\ Impressions(u) = {}
    BY DEF Init, Of, Uniques, Impressions
<1>9. IsFiniteSet({}) /\ Cardinality({}) = 0
    BY FS_EmptySet
<1>10. GhostTypes
    BY <1>7, <1>9 DEF Init, GhostTypes
<1>11. ASSUME NEW r \in Request
       PROVE  ~Creating(r) /\ ~Editing(r) /\ ~Counts(r) /\ job[r].row = NoRow
    BY DEF Init, Creating, Editing, Counts, Idle, NoJob, Job
<1>12. \A r \in Request : CopiesFit(r)
    BY <1>11 DEF CopiesFit, CopiesBelow, RequestCurrent, JobCurrent
<1>13. RowsBelow
    BY <1>4, <1>5, <1>8, <1>9 DEF RowsBelow, Below
<1>14. \A u : CountsOf(u) = {}
    BY <1>11 DEF CountsOf
<1>15. RowsKept
    <2>1. Unspoilt(1)
        <3>1. intended[1] = Fields(url[1]) /\ intended[1] # NoRow
            BY <1>5, <1>6, <1>7
        <3>2. Exact(1, url[1])
            BY <1>4, <1>5, <1>8, <1>9 DEF Exact
        <3>3. Settled(1)
            BY <1>14, <3>2 DEF Settled
        <3> QED BY <1>4, <1>5, <1>8, <1>9, <3>1, <3>3 DEF Unspoilt
    <2>2. ASSUME NEW u \in Url, u # 1 PROVE Unspoilt(u)
        BY <1>5, <1>7, <2>2 DEF Unspoilt
    <2> QED BY <2>1, <2>2 DEF RowsKept
<1> QED BY <1>1, <1>10, <1>12, <1>13, <1>15 DEF CInv

LEMMA WorkCounts == ASSUME CInv, IInv', NEW r \in Request, Work(r) PROVE CInv'
BY TakeVisitCounts, FindIdentityCounts, CachedVisitCounts, RecordVisitCounts, IncrementCountCounts, FinishCounts,
   TakeMetadataCounts, FetchCounts, LoadForMetadataCounts, SaveMetadataCounts DEF Work

LEMMA CountsInductive == CInv /\ [Next]_vars => CInv'
<1> SUFFICES ASSUME CInv, [Next]_vars PROVE CInv'
    OBVIOUS
<1>1. IInv'
    BY Inductive DEF CInv
<1>2. ASSUME NEW r \in Request, NEW s \in Slug, NEW alias \in Alias \cup {NoSlug}, CreateCode(r, s, alias)
      PROVE  CInv'
    BY <1>1, <1>2, CreateCodeCounts
<1>3. ASSUME NEW r \in Request, CreateAlias(r) \/ CreateInsert(r) \/ CreateCommit(r) \/ UpdateAlias(r) \/ UpdateSave(r)
      PROVE  CInv'
    BY <1>1, <1>3, CreateAliasCounts, CreateInsertCounts, CreateCommitCounts, UpdateAliasCounts, UpdateSaveCounts
<1>4. ASSUME NEW r \in Request, NEW cs \in {{}, Channel}, CreateLookup(r, cs) PROVE CInv'
    BY <1>1, <1>4, CreateLookupCounts
<1>5. ASSUME NEW r \in Request, NEW u \in Url, NEW edit \in Edits, UpdateLoad(r, u, edit) PROVE CInv'
    BY <1>1, <1>5, UpdateLoadCounts
<1>6. ASSUME NEW r \in Request, NEW us \in SUBSET Url, Bulk(r, us) \/ Delete(r, us) PROVE CInv'
    BY <1>1, <1>6, BulkCounts, DeleteCounts
<1>7. ASSUME NEW r \in Request, NEW c \in Channel, Drop(r, c) \/ Add(r, c) \/ \E u \in Url : Attach(r, c, u)
      PROVE  CInv'
    BY <1>1, <1>7, DropCounts, AddCounts, AttachCounts
<1>8. ASSUME NEW r \in Request, NEW slug \in Slug,
             (\E crawler \in BOOLEAN : Visit(r, slug, crawler)) \/ Unlock(r, slug) \/ Confirm(r, slug)
      PROVE  CInv'
    BY <1>1, <1>8, VisitCounts, UnlockCounts
<1>9. ASSUME NEW r \in Request, Work(r) \/ WorkerFails(r) \/ RequestFails(r) PROVE CInv'
    BY <1>1, <1>9, WorkCounts, WorkerFailsCounts, RequestFailsCounts
<1>10. ASSUME DayEnds \/ UNCHANGED vars PROVE CInv'
    BY <1>1, <1>10, DayEndsCounts
<1>11. \A us \in SUBSET Url \ {{}} : us \in SUBSET Url
    OBVIOUS
<1> QED BY <1>2, <1>3, <1>4, <1>5, <1>6, <1>7, <1>8, <1>9, <1>10, <1>11 DEF Next

(***************************************************************************)
(* Every reachable state has the facts above; TLC has checked them on the  *)
(* instance of the urls run, and the two properties below follow from      *)
(* them.                                                                   *)
(***************************************************************************)
THEOREM CountsInvariance == Spec => []CInv
BY CountsInitially, CountsInductive, PTL DEF Spec

(***************************************************************************)
(* For any number of jobs, edits, attempts and deletions, clickCount and   *)
(* impressionCount are at most the records of each kind, and so is         *)
(* uniqueClicks of a URL to which no edit gave it, whatever an edit gives  *)
(* of the rest (recordVisit, incrementVisitorCount, updateUrl).            *)
(***************************************************************************)
THEOREM CountersBelow == Spec => []CountsBelowRecords
<1>1. CInv => CountsBelowRecords
    BY DEF CInv, RowsBelow, Below, CountsBelowRecords, Uniques, Impressions
<1> QED BY <1>1, CountsInvariance, PTL

(***************************************************************************)
(* A URL that nobody wrote from an old row has the fields last set, is     *)
(* there unless it was deleted, and counts its records, uniqueClicks       *)
(* unless an edit gave it, whatever steps of the others came in between    *)
(* (updateUrl, bulkUpdateUrls, deleteUrl, addItems, the two workers).      *)
(***************************************************************************)
THEOREM NothingLost == Spec => []ChangesKept
<1>1. ASSUME CInv, NEW u \in Url \ disturbed, u \in Exists
      PROVE  ~Counting(u) => Exact(u, url[u])
    <2> SUFFICES ASSUME ~Counting(u) PROVE Exact(u, url[u])
        OBVIOUS
    <2>1. CountsOf(u) = {}
        BY DEF Counting, CountsOf, Counts
    <2>2. Settled(u)
        BY <1>1 DEF CInv, RowsKept, Unspoilt
    <2> QED BY <2>1, <2>2 DEF Settled
<1>2. CInv => ChangesKept
    <2> SUFFICES ASSUME CInv, NEW u \in Url \ disturbed
                 PROVE  /\ u \in Exists <=> intended[u] # NoRow
                        /\ u \in Exists =>
                            /\ Fields(url[u]) = intended[u]
                            /\ url[u].clicks = Cardinality(Of(u))
                            /\ ~Counting(u) => Exact(u, url[u])
        BY DEF ChangesKept, Exact, Uniques, Impressions
    <2> QED BY <1>1 DEF CInv, RowsKept, Unspoilt
<1> QED BY <1>2, CountsInvariance, PTL
=============================================================================
