------------------------------ MODULE Persist ------------------------------
(***************************************************************************)
(* scanner/persist.py: what a scan writes to the finding, cve, package,    *)
(* image and scan_run tables.                                              *)
(*                                                                         *)
(* record_success is a sequence of statements in one transaction.  At      *)
(* PostgreSQL's READ COMMITTED each statement sees what was committed when *)
(* it started, and rows it writes stay locked until the transaction ends,  *)
(* so the transactions of workers that scan different images interleave at *)
(* every statement and at every row of table cve, which they share.        *)
(*                                                                         *)
(* txn[i] is the transaction of the worker that scans image i.  There is   *)
(* at most one per image: ScanQueue!NoDuplicateScan.                       *)
(***************************************************************************)
EXTENDS Integers, Sequences, FiniteSets

LOCAL INSTANCE FiniteSetsExt

CONSTANTS
    Images,             \* image rows
    Cves,               \* CVE ids a report may contain
    Packages,           \* (name, version, type) of packages
    Ranks,              \* severity ranks a finding may have
    DropsAlone,         \* whether a scan that drops a CVE is only written alone
    MaxRuns             \* bound: rows of scan_run

ASSUME PersistAssumption ==
    /\ Ranks \subseteq 0..4
    /\ DropsAlone \in BOOLEAN
    /\ MaxRuns \in Nat
    /\ IsFiniteSet(Images) /\ IsFiniteSet(Cves) /\ IsFiniteSet(Packages)

VARIABLES
    finding,    \* finding[i]: the rows of image i, by uq_finding_img_cve_pkg
    cve,        \* the rows of table cve, by id
    package,    \* the rows of table package
    image,      \* image[i]: current_scan_run_id
    scan_run,   \* scan_run[i]: the runs of image i in id order
    txn         \* txn[i]: the open record_success transaction on image i

vars == <<finding, cve, package, image, scan_run, txn>>

\* SQL NULL, for run ids and for "waits for no row".
NULL == 0
nobody == "none"

-----------------------------------------------------------------------------
\* The tables.  An absent row is absent from the domain.

Key == Cves \X Packages

Finding == [severity_rank: Ranks, first_seen_run_id: Nat, last_seen_run_id: Nat]

Cve == [max_severity_rank: 0..4, affected_image_count: Nat]

\* A function from some of S to T.
partial(f, S, T) == DOMAIN f \subseteq S /\ f \in [DOMAIN f -> T]

\* ParsedReport.findings: one severity per (CVE, package), as parse_report's
\* deduplication leaves it.
ParsedReport == UNION {[D -> Ranks] : D \in SUBSET Key}

cves_in(keys) == {k[1] : k \in keys}
packages_in(keys) == {k[2] : k \in keys}

\* A run, with the report it wrote (which the program does not store as such).
ScanRun == [status: {"success", "failed", "skipped"},
            report: ParsedReport,
            finding_count: [Ranks -> Nat \cup {-1}]]

no_counts == [r \in Ranks |-> -1]

run_without_findings(status) ==
    [status |-> status, report |-> <<>>, finding_count |-> no_counts]

-----------------------------------------------------------------------------
\* Current findings and what the rollup's sub-select computes from them.

is_current(rows, run, k) == k \in DOMAIN rows /\ rows[k].last_seen_run_id = run

current_keys(rows, run) == {k \in DOMAIN rows : rows[k].last_seen_run_id = run}

\* The CVEs of the image's current findings.
_current_cve_ids(i) ==
    IF image[i] = NULL THEN {} ELSE cves_in(current_keys(finding[i], image[i]))

highest(ranks) == CHOOSE r \in ranks \cup {0} : \A s \in ranks : s <= r

\* Mutant of rollup: findings need not be current.
rollup_ever(rows, current, c) ==
    LET live == {x \in Images \X Packages : <<c, x[2]>> \in DOMAIN rows[x[1]]}
    IN [max_severity_rank |->
            highest({rows[x[1]][<<c, x[2]>>].severity_rank : x \in live}),
        affected_image_count |-> Cardinality({x[1] : x \in live})]

rollup(rows, current, c) ==
    LET live == {x \in Images \X Packages :
                    is_current(rows[x[1]], current[x[1]], <<c, x[2]>>)}
    IN [max_severity_rank |->
            highest({rows[x[1]][<<c, x[2]>>].severity_rank : x \in live}),
        affected_image_count |-> Cardinality({x[1] : x \in live})]

-----------------------------------------------------------------------------
\* Transactions.

Idle == [phase |-> "idle"]

open(i) == txn[i] # Idle
in_phase(i, phase) == open(i) /\ txn[i].phase = phase

run_id(i) == Len(scan_run[i]) + 1

\* With those of the open transactions there is room for one more.
more_runs ==
    MapThenSumSet(LAMBDA i : Len(scan_run[i]), Images)
        + Cardinality({i \in Images : open(i)}) < MaxRuns

\* A row of cve is locked by the transaction that wrote it, or that an
\* ON CONFLICT DO UPDATE locked it for, even where its WHERE was false.
holds(i, c) == open(i) /\ c \in DOMAIN txn[i].cve

lock_free(i, c) == \A j \in Images : j # i => ~holds(j, c)

\* The newest version of the row that transaction i may see or lock.
row_of(i, c) == IF holds(i, c) THEN txn[i].cve[c] ELSE cve[c]

\* The table names each transaction waits on: a row of cve, or a package that
\* another transaction has inserted and not committed.
waits_for(i, j) ==
    /\ i # j /\ open(i) /\ open(j)
    /\ \/ txn[i].want # nobody /\ holds(j, txn[i].want)
       \/ /\ txn[i].phase = "packages"
          /\ packages_in(DOMAIN txn[i].report) \cap txn[j].package # {}

\* The fields of an open transaction:
\*   report, affected  what is written and the CVEs to recompute
\*   package           the packages this transaction inserted
\*   cve               the rows it locked, as it sees them
\*   finding, count    its findings of the image and their number by rank
\*   sub               the UPDATE's sub-select
\*   todo, want        rows the statement has yet to visit, and the one it waits for
OpenTxn(t) ==
    /\ t.phase \in {"packages", "cves", "rollup_start", "rollup"}
    /\ partial(t.report, Key, Ranks)
    /\ t.affected \subseteq Cves
    /\ t.package \subseteq Packages
    /\ partial(t.cve, Cves, Cve)
    /\ partial(t.finding, Key, Finding)
    /\ t.count \in [Ranks -> Nat]
    /\ partial(t.sub, Cves, Cve)
    /\ t.todo \subseteq t.affected
    /\ t.want \in t.todo \cup {nobody}

\* Types of the tables and of the open transactions.
TypeOK ==
    /\ DOMAIN finding = Images
    /\ \A i \in Images : partial(finding[i], Key, Finding)
    /\ partial(cve, Cves, Cve)
    /\ package \subseteq Packages
    /\ image \in [Images -> Nat]
    /\ scan_run \in [Images -> Seq(ScanRun)]
    /\ DOMAIN txn = Images
    /\ \A i \in Images : open(i) => OpenTxn(txn[i])

Init ==
    /\ finding = [i \in Images |-> <<>>]
    /\ cve = <<>>
    /\ package = {}
    /\ image = [i \in Images |-> NULL]
    /\ scan_run = [i \in Images |-> <<>>]
    /\ txn = [i \in Images |-> Idle]

-----------------------------------------------------------------------------
\* With DropsAlone, a scan that drops a CVE of its image overlaps with no other.
\* Nothing in the program arranges this: it is the condition under which the
\* rollup can be trusted.

drops(affected, report) == ~(affected \subseteq cves_in(DOMAIN report))

may_begin(i, report) ==
    /\ drops(_current_cve_ids(i), report) => \A j \in Images : ~open(j)
    /\ \A j \in Images : open(j) => ~drops(txn[j].affected, txn[j].report)

-----------------------------------------------------------------------------
\* record_success, statement by statement.

\* Mutant of begin: only the CVEs that the image had are recomputed.
begin_without_reported(i, report) ==
    /\ ~open(i)
    /\ more_runs
    /\ DropsAlone => may_begin(i, report)
    /\ txn' = [txn EXCEPT ![i] =
          [phase |-> "packages", report |-> report, affected |-> _current_cve_ids(i),
           package |-> {}, cve |-> <<>>, finding |-> <<>>,
           count |-> [r \in Ranks |-> 0], sub |-> <<>>, todo |-> {}, want |-> nobody]]
    /\ UNCHANGED <<finding, cve, package, image, scan_run>>

\* _current_cve_ids, then the INSERT of the run.
begin(i, report) ==
    /\ ~open(i)
    /\ more_runs
    /\ DropsAlone => may_begin(i, report)
    /\ txn' = [txn EXCEPT ![i] =
          [phase |-> "packages", report |-> report,
           affected |-> _current_cve_ids(i) \cup cves_in(DOMAIN report),
           package |-> {}, cve |-> <<>>, finding |-> <<>>,
           count |-> [r \in Ranks |-> 0], sub |-> <<>>, todo |-> {}, want |-> nobody]]
    /\ UNCHANGED <<finding, cve, package, image, scan_run>>

\* INSERT ... ON CONFLICT DO NOTHING waits for a concurrent insert of the same
\* package to commit or roll back.
_upsert_packages(i) ==
    /\ in_phase(i, "packages")
    /\ \A j \in Images : ~waits_for(i, j)
    /\ txn' = [txn EXCEPT ![i] =
          [@ EXCEPT !.phase = "cves",
                    !.package = packages_in(DOMAIN txn[i].report) \ package,
                    !.todo = cves_in(DOMAIN txn[i].report)]]
    /\ UNCHANGED <<finding, cve, package, image, scan_run>>

\* A statement visits its rows one by one, _upsert_cves in the report's order
\* and the rollup in the plan's: any order.  At a locked row it waits.
next_row(i, c) == open(i) /\ c \in txn[i].todo /\ txn[i].want \in {nobody, c}

wait_for_row(i, c) ==
    /\ next_row(i, c)
    /\ txn[i].want = nobody
    /\ ~lock_free(i, c)
    /\ txn' = [txn EXCEPT ![i] = [@ EXCEPT !.want = c]]
    /\ UNCHANGED <<finding, cve, package, image, scan_run>>

put(f, k, v) == [x \in DOMAIN f \cup {k} |-> IF x = k THEN v ELSE f[x]]

\* The transaction i after it wrote or locked row c.
visited(i, c, row) ==
    [txn[i] EXCEPT !.cve = put(@, c, row), !.todo = @ \ {c}, !.want = nobody]

new_cve == [max_severity_rank |-> 0, affected_image_count |-> 0]

\* Mutant of _upsert_cves: a row that is already there is not locked.
upsert_cves_without_lock(i, c) ==
    /\ in_phase(i, "cves")
    /\ next_row(i, c)
    /\ lock_free(i, c)
    /\ txn' = [txn EXCEPT ![i] =
                  IF c \in DOMAIN cve THEN [@ EXCEPT !.todo = @ \ {c}, !.want = nobody]
                                      ELSE visited(i, c, new_cve)]
    /\ UNCHANGED <<finding, cve, package, image, scan_run>>

_upsert_cves(i, c) ==
    /\ in_phase(i, "cves")
    /\ next_row(i, c)
    /\ lock_free(i, c)
    /\ txn' = [txn EXCEPT ![i] =
                  visited(i, c, IF c \in DOMAIN cve THEN cve[c] ELSE new_cve)]
    /\ UNCHANGED <<finding, cve, package, image, scan_run>>

\* The findings whose package the SELECT of _upsert_packages returned.
package_ids(i) == package \cup txn[i].package
written(i) == {k \in DOMAIN txn[i].report : k[2] \in package_ids(i)}

\* Mutant of upserted: first_seen_run_id is overwritten by a later sighting.
upserted_first_seen(rows, keys, report, run) ==
    [k \in DOMAIN rows \cup keys |->
        IF k \notin keys THEN rows[k]
        ELSE [severity_rank |-> report[k], first_seen_run_id |-> run,
              last_seen_run_id |-> run]]

upserted(rows, keys, report, run) ==
    [k \in DOMAIN rows \cup keys |->
        IF k \notin keys THEN rows[k]
        ELSE [severity_rank |-> report[k],
              first_seen_run_id |-> IF k \in DOMAIN rows THEN rows[k].first_seen_run_id
                                                         ELSE run,
              last_seen_run_id |-> run]]

\* The findings, their counts on the run, and the pointer of the image.
_upsert_findings(i) ==
    /\ in_phase(i, "cves")
    /\ txn[i].todo = {}
    /\ txn' = [txn EXCEPT ![i] =
          [@ EXCEPT !.phase = "rollup_start",
                    !.finding = upserted(finding[i], written(i), txn[i].report, run_id(i)),
                    !.count = [r \in Ranks |->
                                  Cardinality({k \in written(i) : txn[i].report[k] = r})]]]
    /\ UNCHANGED <<finding, cve, package, image, scan_run>>

\* _recompute_cve_rollup, start of the UPDATE: its snapshot fixes the
\* sub-select and the rows that pass IS DISTINCT FROM.
sub_select(i, c) ==
    rollup([finding EXCEPT ![i] = txn[i].finding], [image EXCEPT ![i] = run_id(i)], c)

start_rollup(i) ==
    /\ in_phase(i, "rollup_start")
    /\ txn' = [txn EXCEPT ![i] =
          [@ EXCEPT !.phase = "rollup",
                    !.sub = [c \in txn[i].affected |-> sub_select(i, c)],
                    !.todo = {c \in txn[i].affected : row_of(i, c) # sub_select(i, c)}]]
    /\ UNCHANGED <<finding, cve, package, image, scan_run>>

\* _recompute_cve_rollup, one row: the newest version of the row is checked
\* again, against the sub-select as the snapshot gave it.  Both columns are
\* written, and nothing is if the row already has these values.
_recompute_cve_rollup(i, c) ==
    /\ in_phase(i, "rollup")
    /\ next_row(i, c)
    /\ lock_free(i, c)
    /\ txn' = [txn EXCEPT ![i] = visited(i, c, txn[i].sub[c])]
    /\ UNCHANGED <<finding, cve, package, image, scan_run>>

success_run(i) ==
    [status |-> "success", report |-> txn[i].report, finding_count |-> txn[i].count]

commit(i) ==
    /\ in_phase(i, "rollup")
    /\ txn[i].todo = {}
    /\ finding' = [finding EXCEPT ![i] = txn[i].finding]
    /\ cve' = [c \in DOMAIN cve \cup DOMAIN txn[i].cve |-> row_of(i, c)]
    /\ package' = package \cup txn[i].package
    /\ image' = [image EXCEPT ![i] = run_id(i)]
    /\ scan_run' = [scan_run EXCEPT ![i] = Append(@, success_run(i))]
    /\ txn' = [txn EXCEPT ![i] = Idle]

\* A statement raised, the server broke a deadlock, or the worker died.
rollback(i) ==
    /\ open(i)
    /\ txn' = [txn EXCEPT ![i] = Idle]
    /\ UNCHANGED <<finding, cve, package, image, scan_run>>

-----------------------------------------------------------------------------
\* record_skip and record_failure, and the same INSERT in record_reaped: a
\* run, and nothing that the findings depend on.

\* Mutant of record_skip: the pointer is advanced to the skipped run.
record_skip_advancing(i) ==
    /\ ~open(i)
    /\ image[i] # NULL
    /\ more_runs
    /\ scan_run' = [scan_run EXCEPT ![i] = Append(@, run_without_findings("skipped"))]
    /\ image' = [image EXCEPT ![i] = run_id(i)]
    /\ UNCHANGED <<finding, cve, package, txn>>

record_skip(i) ==
    /\ ~open(i)
    /\ image[i] # NULL
    /\ more_runs
    /\ scan_run' = [scan_run EXCEPT ![i] = Append(@, run_without_findings("skipped"))]
    /\ UNCHANGED <<finding, cve, package, image, txn>>

record_failure(i) ==
    /\ ~open(i)
    /\ more_runs
    /\ scan_run' = [scan_run EXCEPT ![i] = Append(@, run_without_findings("failed"))]
    /\ UNCHANGED <<finding, cve, package, image, txn>>

Next ==
    \E i \in Images :
        \/ \E report \in ParsedReport : begin(i, report)
        \/ _upsert_packages(i)
        \/ \E c \in Cves :
              \/ wait_for_row(i, c)
              \/ _upsert_cves(i, c)
              \/ _recompute_cve_rollup(i, c)
        \/ _upsert_findings(i)
        \/ start_rollup(i)
        \/ commit(i)
        \/ rollback(i)
        \/ record_skip(i)
        \/ record_failure(i)

Spec == Init /\ [][Next]_vars

-----------------------------------------------------------------------------
(* Properties.                                                             *)

successes(i) == {r \in DOMAIN scan_run[i] : scan_run[i][r].status = "success"}

last_success(i) ==
    IF successes(i) = {} THEN NULL
    ELSE CHOOSE r \in successes(i) : \A s \in successes(i) : s <= r

sightings(i, k) == {r \in successes(i) : k \in DOMAIN scan_run[i][r].report}

\* The finding table is exactly the history of the successful scans: a row for
\* every (CVE, package) ever reported, first and last seen in the first and the
\* last scan that reported it, with the severity of that last report (models.py
\* Finding: "Findings are never deleted"; _upsert_findings: first_seen_run_id
\* "must survive every later sighting").
FindingsAreHistory ==
    \A i \in Images :
        /\ DOMAIN finding[i] = {k \in Key : sightings(i, k) # {}}
        /\ \A k \in DOMAIN finding[i] :
              LET row == finding[i][k]
              IN /\ {row.first_seen_run_id, row.last_seen_run_id} \subseteq sightings(i, k)
                 /\ \A r \in sightings(i, k) :
                       row.first_seen_run_id <= r /\ r <= row.last_seen_run_id
                 /\ row.severity_rank = scan_run[i][row.last_seen_run_id].report[k]

\* What the API serves as an image's findings is the whole report of its last
\* successful scan and nothing else, through failures, skips and scans under
\* way, and the counts on that run are the counts of those findings (models.py:
\* current_scan_run_id "Deliberately NOT advanced by a skipped run";
\* _upsert_findings: the totals "can never describe rows that did not reach the
\* table").
CurrentIsLastSuccess ==
    \A i \in Images :
        /\ image[i] = last_success(i)
        /\ image[i] # NULL =>
              LET run == scan_run[i][image[i]]
                  keys == current_keys(finding[i], image[i])
              IN /\ keys = DOMAIN run.report
                 /\ \A r \in Ranks :
                       run.finding_count[r] =
                           Cardinality({k \in keys : finding[i][k].severity_rank = r})

\* max_severity_rank and affected_image_count of every CVE are what a recompute
\* over the current findings would give (README: "There is no window in which
\* they can disagree"; models.py: "a CVE is CRITICAL if it is CRITICAL in any
\* scanned image").
RollupIsExact == \A c \in DOMAIN cve : cve[c] = rollup(finding, image, c)

\* A CVE that some image currently carries is in the listing of GET /api/cves,
\* which filters on affected_image_count > 0 (test_persist.py: "if it drifts
\* low a live vulnerability disappears from the listing").
LiveCvesAreListed ==
    \A i \in Images : \A k \in current_keys(finding[i], image[i]) :
        cve[k[1]].affected_image_count > 0

\* What the tables say of an image, and of the CVEs in GET /api/cves.
report_in_force(i) ==
    [k \in current_keys(finding[i], image[i]) |-> finding[i][k].severity_rank]

listed_cves ==
    {[cve |-> c, rank |-> cve[c].max_severity_rank, images |-> cve[c].affected_image_count] :
        c \in {c \in DOMAIN cve : cve[c].affected_image_count > 0}}

Served == INSTANCE Inventory
    WITH Reports <- ParsedReport,
         current <- [i \in Images |-> report_in_force(i)],
         listing <- listed_cves

\* Whatever statements, rows and rollbacks interleave, a reader of the tables
\* sees what Inventory describes: one image's whole report replaced by another,
\* and in the same instant the list of CVEs that this makes (record_success;
\* README: "There is no window in which they can disagree").
ImplementsInventory == Served!Spec
=============================================================================
