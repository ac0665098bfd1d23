-------------------------------- MODULE Api --------------------------------
(***************************************************************************)
(* The read endpoints, and the validators that let a client keep what it   *)
(* read.  A GET runs a few statements one after another; at PostgreSQL's   *)
(* READ COMMITTED each of them sees the tables of its own moment, and scan *)
(* results are committed in between.                                       *)
(*                                                                         *)
(* A successful scan is written in two steps: record_success up to the     *)
(* snapshot of its last statement, the rollup UPDATE, which decides what   *)
(* table cve will say of the CVEs the scan touched; and the commit.        *)
(* Between them other scans commit.  Persist has the statements before,    *)
(* and the UPDATE's row by row wait for locks.  A run's completed_at is    *)
(* taken before its transaction is written.                                *)
(***************************************************************************)
EXTENDS Integers, Sequences, FiniteSets, SequencesExt, FiniteSetsExt

CONSTANTS
    Images,             \* images, numbered in the order of name and tag
    Reports,            \* findings of a report: from <<CVE, package>> to rank
    Urls,               \* requests clients make
    PageSizeDefault,    \* settings.page_size_default
    PageSizeMax,        \* settings.page_size_max
    TicksPerSecond,     \* resolution of completed_at
    CommitsSpaced,      \* whether runs commit in the order of their
                        \* completed_at, each in a second of its own
    DropsAlone,         \* whether a scan that drops a CVE overlaps with no
                        \* other between its rollup's snapshot and its commit
    MaxRuns,            \* bound: rows of scan_run
    MaxTime             \* bound: the clock

NULL == -1
FILTERABLE == 1..4

ASSUME ApiAssumption ==
    /\ Images \subseteq Nat /\ IsFiniteSet(Images)
    /\ TicksPerSecond \in Nat \ {0}
    /\ PageSizeDefault \in Nat \ {0} /\ PageSizeMax \in Nat \ {0}
    /\ CommitsSpaced \in BOOLEAN /\ DropsAlone \in BOOLEAN
    /\ MaxRuns \in Nat /\ MaxTime \in Nat
    /\ \A report \in Reports :
        /\ report \in [DOMAIN report -> 0..4] /\ IsFiniteSet(DOMAIN report)
        /\ \A k \in DOMAIN report : k = <<k[1], k[2]>>
    /\ \A u \in Urls :
        /\ u.endpoint \in {"list_images", "image_cves", "list_cves", "cve_images"}
        /\ u.limit \in (Nat \ {0}) \cup {NULL} /\ u.offset \in Nat

VARIABLES
    now,        \* the clock
    image,      \* image[i]: the columns a scan writes
    finding,    \* finding[i]: rows of image i, by <<CVE, package>>
    cve,        \* rows of table cve, by id
    scan_run,   \* committed runs; the id of a run is its place
    scanning,   \* scanning[i]: the result about to be written for image i
    txn,        \* txn[i]: whether record_success has reached its last statement
                \* for it, and the rows of cve that statement will leave
    request,    \* the GET under way
    cache       \* the response the client holds

tables == <<image, finding, cve, scan_run>>
vars == <<now, image, finding, cve, scan_run, scanning, txn, request, cache>>

Cves == UNION {{k[1] : k \in DOMAIN report} : report \in Reports}

NoResult == [status |-> "none"]
Closed == [open |-> FALSE, rollup |-> <<>>]
NoRequest == [step |-> "none"]
NoCache == [etag |-> NULL]

never_scanned ==
    [current_scan_run_id |-> NULL, last_scan_at |-> NULL, last_scan_status |-> NULL,
     consecutive_failures |-> 0]

Init ==
    /\ now = 0
    /\ image = [i \in Images |-> never_scanned]
    /\ finding = [i \in Images |-> <<>>]
    /\ cve = <<>>
    /\ scan_run = <<>>
    /\ scanning = [i \in Images |-> NoResult]
    /\ txn = [i \in Images |-> Closed]
    /\ request = NoRequest
    /\ cache = NoCache

-----------------------------------------------------------------------------
\* The writers.

tick ==
    /\ now < MaxTime
    /\ now' = now + 1
    /\ UNCHANGED <<image, finding, cve, scan_run, scanning, txn, request, cache>>

\* The outcomes of a job that ends at a time.
Results(time) ==
    [status: {"success"}, completed_at: {time}, exhausted: {FALSE}, report: Reports]
    \cup [status: {"failed"}, completed_at: {time}, exhausted: BOOLEAN, report: {<<>>}]
    \cup [status: {"skipped"}, completed_at: {time}, exhausted: {FALSE}, report: {<<>>}]

\* RunMetadata is made when the outcome is known.  A skip follows a success.
complete(i) ==
    /\ scanning[i] = NoResult
    /\ Len(scan_run) + Cardinality({j \in Images : scanning[j] # NoResult}) < MaxRuns
    /\ \E result \in Results(now) :
        /\ result.status = "skipped" => image[i].current_scan_run_id # NULL
        /\ scanning' = [scanning EXCEPT ![i] = result]
    /\ UNCHANGED <<now, image, finding, cve, scan_run, txn, request, cache>>

counts(report) == [r \in 0..4 |-> Cardinality({k \in DOMAIN report : report[k] = r})]

_new_run(i, result) ==
    [image |-> i, status |-> result.status, completed_at |-> result.completed_at,
     finding_count |-> counts(result.report), report |-> result.report]

\* What record_success, record_skip and record_failure do to the image.
image_after(row, run_id, result) ==
    [current_scan_run_id |->
        IF result.status = "success" THEN run_id ELSE row.current_scan_run_id,
     last_scan_at |-> result.completed_at,
     last_scan_status |-> result.status,
     consecutive_failures |->
        IF result.status = "failed"
        THEN row.consecutive_failures + (IF result.exhausted THEN 1 ELSE 0)
        ELSE 0]

\* The rows of a table after some of them, and new ones, were written.
overwritten(rows, written) ==
    [k \in DOMAIN rows \cup DOMAIN written |-> IF k \in DOMAIN written THEN written[k] ELSE rows[k]]

\* Mutant of _upsert_findings: the run has no id yet, as before its flush.
_upsert_findings_unflushed(rows, report, run_id) ==
    overwritten(rows, [k \in DOMAIN report |->
                          [severity_rank |-> report[k], last_seen_run_id |-> NULL]])

\* Reported findings are written anew, the others stay as they are.
_upsert_findings(rows, report, run_id) ==
    overwritten(rows, [k \in DOMAIN report |->
                          [severity_rank |-> report[k], last_seen_run_id |-> run_id]])

current_rows(findings, images, i) ==
    {k \in DOMAIN findings[i] :
        findings[i][k].last_seen_run_id = images[i].current_scan_run_id}

\* The sub-select of the rollup: a row for every CVE it is asked for.
sub_select(cves, findings, images) ==
    [c \in cves |->
        LET rows == UNION {{<<i, k>> : k \in {k \in current_rows(findings, images, i) : k[1] = c}} :
                              i \in Images}
        IN [max_severity_rank |-> Max({0} \cup {findings[r[1]][r[2]].severity_rank : r \in rows}),
            affected_image_count |-> Cardinality({r[1] : r \in rows})]]

cves_in(keys) == {k[1] : k \in keys}

reported_cves(i) == cves_in(DOMAIN scanning[i].report)

_current_cve_ids(i) == cves_in(current_rows(finding, image, i))

\* Mutant of affected: what the image no longer has is not recomputed.
affected_if_reported(i) == reported_cves(i)

\* The CVEs the image had or has.
affected(i) == _current_cve_ids(i) \cup reported_cves(i)

\* The rows the rollup writes: by the tables as its snapshot shows them to the
\* transaction, without the rows that IS DISTINCT FROM finds as they should be.
_recompute_cve_rollup(i, findings, images) ==
    LET sub == sub_select(affected(i), findings, images)
    IN [c \in {c \in affected(i) : c \in DOMAIN cve => cve[c] # sub[c]} |-> sub[c]]

\* _upsert_cves locks the row of every reported CVE until the commit, and waits
\* for whoever did so before.
_upsert_cves(i) ==
    \A j \in Images \ {i} : txn[j].open => reported_cves(i) \cap reported_cves(j) = {}

\* With DropsAlone, a scan that drops a CVE of its image overlaps with no other.
\* Nothing in the program arranges this, as in Persist.
drops(i) == ~(_current_cve_ids(i) \subseteq reported_cves(i))

may_overlap(i) == \A j \in Images \ {i} : txn[j].open => ~drops(i) /\ ~drops(j)

\* record_success until the rollup UPDATE has its snapshot.
record_success(i) ==
    LET result == scanning[i]
        run_id == Len(scan_run) + 1
    IN /\ result.status = "success" /\ ~txn[i].open
       /\ _upsert_cves(i)
       /\ DropsAlone => may_overlap(i)
       /\ txn' = [txn EXCEPT ![i] =
             [open |-> TRUE,
              rollup |-> _recompute_cve_rollup(i,
                  [finding EXCEPT ![i] = _upsert_findings(@, result.report, run_id)],
                  [image EXCEPT ![i] = image_after(@, run_id, result)])]]
       /\ UNCHANGED <<now, image, finding, cve, scan_run, scanning, request, cache>>

stamp(time) == time \div TicksPerSecond

spaced(result) ==
    \A n \in DOMAIN scan_run : stamp(scan_run[n].completed_at) < stamp(result.completed_at)

\* The rows the rollup waits for: another transaction has reported the CVE.
rollup_waits(i) ==
    \E j \in Images \ {i} : txn[j].open /\ reported_cves(j) \cap DOMAIN txn[i].rollup # {}

\* A skip and a failure leave table cve alone.  The rollup of a success writes
\* its rows as its snapshot had them, whatever was committed to them since.
commit(i) ==
    LET result == scanning[i]
        run_id == Len(scan_run) + 1
    IN /\ result # NoResult
       /\ result.status = "success" => txn[i].open /\ ~rollup_waits(i)
       /\ CommitsSpaced => spaced(result)
       /\ scan_run' = Append(scan_run, _new_run(i, result))
       /\ image' = [image EXCEPT ![i] = image_after(@, run_id, result)]
       /\ finding' = [finding EXCEPT ![i] = _upsert_findings(@, result.report, run_id)]
       /\ cve' = overwritten(cve, txn[i].rollup)
       /\ scanning' = [scanning EXCEPT ![i] = NoResult]
       /\ txn' = [txn EXCEPT ![i] = Closed]
       /\ UNCHANGED <<now, request, cache>>

\* The worker dies, its transaction fails, or the server breaks a deadlock.
roll_back(i) ==
    /\ scanning[i] # NoResult
    /\ scanning' = [scanning EXCEPT ![i] = NoResult]
    /\ txn' = [txn EXCEPT ![i] = Closed]
    /\ UNCHANGED <<now, image, finding, cve, scan_run, request, cache>>

-----------------------------------------------------------------------------
\* What the statements of the endpoints select.

wanted(rank, severity) == severity = NULL \/ rank = severity

\* A finding as the endpoints show it.
shown(i, k) ==
    [image |-> i, cve |-> k[1], package |-> k[2], rank |-> finding[i][k].severity_rank,
     last_seen_at |-> scan_run[finding[i][k].last_seen_run_id].completed_at]

\* Mutant of image_cves_rows: every row the image ever had.
image_cves_rows_ever(i, run_id, severity) ==
    {shown(i, k) : k \in {k \in DOMAIN finding[i] : wanted(finding[i][k].severity_rank, severity)}}

image_cves_rows(i, run_id, severity) ==
    {shown(i, k) : k \in {k \in DOMAIN finding[i] :
                              /\ finding[i][k].last_seen_run_id = run_id
                              /\ wanted(finding[i][k].severity_rank, severity)}}

list_cves_rows(severity) ==
    {[cve |-> c, rank |-> cve[c].max_severity_rank, images |-> cve[c].affected_image_count] :
        c \in {c \in DOMAIN cve : /\ cve[c].affected_image_count > 0
                                  /\ wanted(cve[c].max_severity_rank, severity)}}

cve_images_rows(c) ==
    UNION {{shown(i, k) : k \in {k \in current_rows(finding, image, i) : k[1] = c}} :
              i \in Images}

\* An image's line in GET /api/images: its own columns, and later its counts.
summary(i) ==
    [image |-> i, last_scan_at |-> image[i].last_scan_at,
     last_scan_status |-> image[i].last_scan_status,
     consecutive_failures |-> image[i].consecutive_failures]

severity_counts(i) ==
    [severity_counts |->
        IF image[i].current_scan_run_id = NULL THEN counts(<<>>)
        ELSE scan_run[image[i].current_scan_run_id].finding_count]

with_counts(summaries) ==
    [n \in DOMAIN summaries |-> summaries[n] @@ severity_counts(summaries[n].image)]

\* ORDER BY severity_rank DESC, id.  Rows that tie come in any order: findings
\* of one CVE in several packages of an image.
listings(rows, id) ==
    {s \in SetToSeqs(rows) : \A m, n \in DOMAIN s : m < n =>
        \/ s[m].rank > s[n].rank
        \/ s[m].rank = s[n].rank /\ s[m][id] <= s[n][id]}

by_cve(rows) == listings(rows, "cve")
by_image(rows) == listings(rows, "image")

page_params(limit) ==
    Min({IF limit = NULL THEN PageSizeDefault ELSE limit, PageSizeMax})

\* LIMIT and OFFSET
page(rows, url) ==
    SubSeq(rows, url.offset + 1, Min({url.offset + page_params(url.limit), Len(rows)}))

image_page(url) == page(SetToSortSeq(Images, <), url)

-----------------------------------------------------------------------------
\* A request: the URL, the ETag of its answer, the next statement, and what
\* earlier statements returned.  The client keeps its last response until it
\* asks for something else, and sends the ETag along as If-None-Match.

severity_filter(severity) == severity \in FILTERABLE \cup {NULL}    \* else 400

get(url) ==
    /\ request = NoRequest
    /\ severity_filter(url.severity)
    /\ request' = [step |-> "validate", url |-> url, etag |-> NULL,
                   found |-> NULL, total |-> 0]
    /\ cache' = IF cache # NoCache /\ cache.url = url THEN cache ELSE NoCache
    /\ UNCHANGED <<now, tables, scanning, txn>>

\* Mutant of newest_completed: only successes move findings.
newest_completed_success ==
    Max({NULL} \cup {scan_run[n].completed_at :
                         n \in {n \in DOMAIN scan_run : scan_run[n].status = "success"}})

\* max(ScanRun.completed_at), of every status.
newest_completed == Max({NULL} \cup {scan_run[n].completed_at : n \in DOMAIN scan_run})

next_statement(changed) ==
    /\ request' = changed
    /\ UNCHANGED <<now, tables, scanning, txn, cache>>

first_statement ==
    [list_images |-> "images", image_cves |-> "image",
     list_cves |-> "total", cve_images |-> "known"]

\* A 304 leaves the client with what it has, any other answer will replace it.
apply_freshness ==
    LET etag == IF newest_completed = NULL THEN NULL ELSE stamp(newest_completed)
    IN /\ request.step = "validate"
       /\ IF etag # NULL /\ cache.etag = etag
          THEN request' = NoRequest /\ UNCHANGED cache
          ELSE /\ request' = [request EXCEPT !.etag = etag,
                                             !.step = first_statement[request.url.endpoint]]
               /\ cache' = NoCache
       /\ UNCHANGED <<now, tables, scanning, txn>>

respond(total, items) ==
    /\ request' = NoRequest
    /\ cache' = [url |-> request.url, etag |-> request.etag,
                 body |-> [total |-> total, items |-> items]]
    /\ UNCHANGED <<now, tables, scanning, txn>>

at(endpoint, step) == request.step = step /\ request.url.endpoint = endpoint

\* list_images: the page of images, then the counts of their current runs.
list_images ==
    \/ /\ at("list_images", "images")
       /\ LET images == image_page(request.url)
              summaries == [n \in DOMAIN images |-> summary(images[n])]
          IN IF images = <<>> THEN respond(Cardinality(Images), <<>>)
             ELSE next_statement([request EXCEPT !.step = "runs", !.found = summaries])
    \/ /\ at("list_images", "runs")
       /\ respond(Cardinality(Images), with_counts(request.found))

\* image_cves: the pointer, the count, the rows.
image_cves ==
    LET i == request.url.subject
        rows == image_cves_rows(i, request.found, request.url.severity)
    IN \/ /\ at("image_cves", "image")
          /\ IF i \notin Images THEN next_statement(NoRequest)       \* 404
             ELSE IF image[i].current_scan_run_id = NULL THEN respond(0, <<>>)
             ELSE next_statement([request EXCEPT !.step = "total",
                                                 !.found = image[i].current_scan_run_id])
       \/ /\ at("image_cves", "total")
          /\ next_statement([request EXCEPT !.step = "rows", !.total = Cardinality(rows)])
       \/ /\ at("image_cves", "rows")
          /\ \E s \in by_cve(rows) : respond(request.total, page(s, request.url))

list_cves ==
    LET rows == list_cves_rows(request.url.severity)
    IN \/ /\ at("list_cves", "total")
          /\ next_statement([request EXCEPT !.step = "rows", !.total = Cardinality(rows)])
       \/ /\ at("list_cves", "rows")
          /\ \E s \in by_cve(rows) : respond(request.total, page(s, request.url))

cve_images ==
    LET rows == cve_images_rows(request.url.subject)
    IN \/ /\ at("cve_images", "known")
          /\ next_statement(IF request.url.subject \in DOMAIN cve
                            THEN [request EXCEPT !.step = "total"] ELSE NoRequest)  \* 404
       \/ /\ at("cve_images", "total")
          /\ next_statement([request EXCEPT !.step = "rows", !.total = Cardinality(rows)])
       \/ /\ at("cve_images", "rows")
          /\ \E s \in by_image(rows) : respond(request.total, page(s, request.url))

Next ==
    \/ tick
    \/ \E i \in Images : complete(i) \/ record_success(i) \/ commit(i) \/ roll_back(i)
    \/ \E url \in Urls : get(url)
    \/ apply_freshness \/ list_images \/ image_cves \/ list_cves \/ cve_images

Spec == Init /\ [][Next]_vars

-----------------------------------------------------------------------------
(* Properties.                                                             *)

\* Types: pointers and last_seen_run_id name runs that exist, times are past.
TypeOK ==
    /\ now \in 0..MaxTime
    /\ \A i \in Images :
        /\ image[i].current_scan_run_id \in DOMAIN scan_run \cup {NULL}
        /\ image[i].last_scan_at \in 0..now \cup {NULL}
        /\ image[i].consecutive_failures \in 0..Len(scan_run)
        /\ \A k \in DOMAIN finding[i] :
            /\ finding[i][k].severity_rank \in 0..4
            /\ finding[i][k].last_seen_run_id \in DOMAIN scan_run
    /\ DOMAIN cve \subseteq Cves
    /\ \A i \in Images : txn[i].open =>
        scanning[i].status = "success" /\ DOMAIN txn[i].rollup \subseteq affected(i)
    /\ request # NoRequest => request.url \in Urls /\ request.etag \in 0..now \cup {NULL}
    /\ cache # NoCache => cache.url \in Urls /\ cache.etag \in 0..now \cup {NULL}

\* The bodies a request that nothing interrupts would get now.
bodies(url) ==
    LET paged(rows, s) == [total |-> Cardinality(rows), items |-> page(s, url)]
        run_id == image[url.subject].current_scan_run_id
        of_image == image_cves_rows(url.subject, run_id, url.severity)
        of_cve == cve_images_rows(url.subject)
        of_list == list_cves_rows(url.severity)
        images == image_page(url)
    IN CASE url.endpoint = "list_images" ->
              {[total |-> Cardinality(Images),
                items |-> with_counts([n \in DOMAIN images |-> summary(images[n])])]}
         [] url.endpoint = "image_cves" -> {paged(of_image, s) : s \in by_cve(of_image)}
         [] url.endpoint = "list_cves" -> {paged(of_list, s) : s \in by_cve(of_list)}
         [] url.endpoint = "cve_images" -> {paged(of_cve, s) : s \in by_image(of_cve)}

\* A client that is told 304 holds what it would get without If-None-Match,
\* also if scans committed between the statements of the request it holds
\* (apply_freshness: "the newest completion timestamp *is* the version").
NotModifiedIsCurrent ==
    [][request.step = "validate" /\ request' = NoRequest => cache.body \in bodies(cache.url)]_vars

\* A page of an image's CVEs never mixes two scans: all of it was reported by
\* the run that was current when the pointer was read; and unless a scan of the
\* image committed since, nothing is missing and the total is right
\* (image_cves: Finding.last_seen_run_id == image.current_scan_run_id, in
\* statements of their own).
PageIsOfOneScan ==
    [][at("image_cves", "rows") /\ request' = NoRequest =>
        LET run == scan_run[request.found]
            keys == {k \in DOMAIN run.report : wanted(run.report[k], request.url.severity)}
            reported == {[image |-> run.image, cve |-> k[1], package |-> k[2],
                          rank |-> run.report[k], last_seen_at |-> run.completed_at] : k \in keys}
            body == cache'.body
        IN /\ Range(body.items) \subseteq reported
           /\ image[request.url.subject].current_scan_run_id = request.found =>
                /\ body.total = Cardinality(reported)
                /\ \E s \in by_cve(reported) : body.items = page(s, request.url)]_vars

\* The four endpoints tell one story: a finding shows under its image exactly
\* if the image shows under its CVE; a CVE is listed exactly if some image
\* shows under it, with the number of those images and their worst severity;
\* and an image's counts are those of its findings.  This is so while scans that
\* drop a CVE are written alone (DropsAlone): list_cves reads what rollups left,
\* cve_images joins the findings.
EndpointsAgree ==
    LET of_image(i) == image_cves_rows(i, image[i].current_scan_run_id, NULL)
    IN /\ \A c \in Cves :
            LET rows == cve_images_rows(c)
                listed == {r \in list_cves_rows(NULL) : r.cve = c}
            IN /\ rows = {r \in UNION {of_image(i) : i \in Images} : r.cve = c}
               /\ listed = IF rows = {} THEN {}
                           ELSE {[cve |-> c, rank |-> Max({r.rank : r \in rows}),
                                  images |-> Cardinality({r.image : r \in rows})]}
       /\ \A i \in Images, rank \in 0..4 :
            severity_counts(i).severity_counts[rank]
                = Cardinality({r \in of_image(i) : r.rank = rank})

report_in_force(i) ==
    [k \in current_rows(finding, image, i) |-> finding[i][k].severity_rank]

Served == INSTANCE Inventory
    WITH current <- [i \in Images |-> report_in_force(i)],
         listing <- list_cves_rows(NULL)

\* What the endpoints read from is what Inventory describes, and so what the
\* transactions of Persist make: a success changes the report of its own image,
\* whole, and with it the list of GET /api/cves; failures, skips and requests
\* change neither, under DropsAlone (record_skip: "the previous run's findings are still exactly
\* right"; list_cves reads the answer "the last scan already settled").
ImplementsInventory == Served!Spec
=============================================================================
