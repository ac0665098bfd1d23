# A verification of the container security scanner

The scanner keeps everything in one PostgreSQL database: the table of images, the
queue of scan jobs, the history of runs and the findings. Four kinds of process work on
it: workers, schedulers, the API and a Trivy server. Nothing else coordinates them, so
what can go wrong is a matter of which transaction commits before which, of rows read in
one transaction and written in another, and of processes that die or are slow.

## Inventory

| Component | State | Operations | Talks to | What makes it correct |
|---|---|---|---|---|
| Job queue `app/jobs/queue.py` | `scan_job` | `enqueue`, `promote`, `claim`, `complete`, `fail`, `defer`, `reap_expired_leases` | worker, scheduler and API call it inside their own transactions | one active job per image; attempts charged once each and bounded; no job stuck; final jobs stay final |
| Worker `app/scanner/worker.py` | one SQLAlchemy session with the `ScanJob` and `Image` objects of the job under way | `run_once`: claim, then `_execute` and its exception handlers | queue, persistence, registry, Trivy | no image scanned twice at once; every outcome reaches the job, the image and a run together |
| Scheduler `app/scheduler/scheduler.py` | `holds_lock`, and the advisory lock of its connection | `main`'s loop: take the lock, `tick` (reap, record the dead attempts, enqueue what is due), give up the lock after an error | queue, persistence | a dead worker's attempt is counted once; an image is enqueued when due, whichever replica is alive; failure slows it down |
| Persistence `app/scanner/persist.py` | `finding`, `cve`, `package`, `scan_run`, pointer and status on `image` | `record_success`, `record_skip`, `record_failure` | runs in the worker's or scheduler's transaction | findings are exactly the history of the scans; the current ones are the last successful scan; the rollup on `cve` agrees with them |
| API writes `app/api/routes/images.py` | none | `POST /api/images/{name}/{tag}/scan` | queue | never a second active job; urgency only reorders |
| API reads, freshness validators `routes/*`, `deps.py` | none | queries, `ETag`/304 | all tables | a page of one scan; no 304 for changed data |
| Skip invariant `worker._is_unchanged`, `trivy.probe_versions` | the last successful run | compare digest, versions, flags | worker | a skipped scan would have found the same |
| Registry client `app/registry/digest.py` | none | `resolve_digest`, `parse_retry_after` | worker | throttling is told from failure, and waited out |
| Report parser, severities `parser.py`, `severity.py` | none | `parse_report`, `rank` | worker | one finding per key, the worst severity wins |
| Settings `app/config.py` | settings | validator on the lease | all | the lease outlives a scan |

Hard in this code: workers keep ORM objects across transactions
(`expire_on_commit=False`) and update by primary key, so a worker that lost its lease
writes from old values; the lease starts at the claim but only the Trivy part of an
execution is compared with it; the rollup of a CVE shared by two images is recomputed
by concurrent transactions at READ COMMITTED; registry throttling, promotions, reaps and
failures all rewrite the same columns; a scheduler remembers a lock that its connection may
have lost; tags and databases change between the steps of an execution that compares them;
a GET reads in several statements while scans commit. `PROJECT.json` lists these hazards at their lines.

## Modules

| Module | Contents |
|---|---|
| `ScanQueue` | queue, workers, scheduler pass and scan requests over `scan_job`, `image`, `scan_run`; properties; the mapping to `JobLifecycle` |
| `JobLifecycle` | abstract specification: the README's "life of a job" for the jobs of every image |
| `ScanQueueProofs` | proofs for every value of the settings, late workers included |
| `LeaseProofs` | proofs that need the lease to cover an execution: no duplicate scans, and `ScanQueue` implements `JobLifecycle` |
| `HistoryProofs` | on top of those: attempts, results, streaks and statuses agree with the recorded runs |
| `MCScanQueue` | constants and symmetries of the queue's runs |
| `Persist` | `record_success` statement by statement, `record_skip`, `record_failure`, over `finding`, `cve`, `package`, `image.current_scan_run_id`, `scan_run`; the mapping to `Inventory` |
| `Inventory` | abstract specification: what the tables are to a reader, the report in force of every image and the list of CVEs that follows from them |
| `PersistProofs`, `RollupProofs` | proofs about the tables under any overlap of transactions; about the rollup, and that `Persist` implements `Inventory`, where scans that drop a CVE are alone |
| `MCPersist` | constants and symmetries of its runs |
| `Service` | the processes without a clock: workers and schedulers that die and start, the advisory lock, claims in order, scan requests in two statements; fairness and liveness |
| `ServiceProofs` | proofs for any number of images, workers and schedulers |
| `MCService` | its model values |
| `ReportParsing` | `parse_report` and the severities as operators, and what they should return |
| `ScanExecution` | the inside of one execution after another: probe, registry, skip decision, Trivy, parser, exception handlers, in a world that changes meanwhile |
| `ExecutionProofs` | proofs about skips, throttling and the parser |
| `MCScanExecution` | headers, reports and deployments for it |
| `Api` | the four read endpoints statement by statement, ETag and 304, against scans that compute the rollup and commit it later; the mapping to `Inventory` |
| `ApiProofs` | proofs about the endpoints and the validator; that the endpoints agree, and that `Api` implements `Inventory`, where scans that drop a CVE are alone |
| `MCApi` | reports and URLs for it |

How they fit together. `ScanQueue` leaves open how an execution ends; `ScanExecution` says
when it ends how. `Persist` relies on `ScanQueue` for one scan per image at a time and shows
that a committed scan is all there; `Api` has the two moments of it that a reader can tell apart,
the snapshot the rollup is computed from and the commit. Both are shown to implement
`Inventory`, in which a whole report replaces another at once, under the same condition: a scan that
drops a CVE overlaps with no other. `Service` relies on
`ScanQueue` for one active job per image and for workers within their lease, and in return
has what the clock keeps out of `ScanQueue`: complete state spaces, and so liveness.

Definitions named `<name>_...` and commented as "Mutant of" are variants of the definition
that follows them, each with a bug the code could have; they are used to confirm that
a property notices it, and by nothing else.

### ScanQueue

`scan_job[i]` is the sequence of jobs of image `i` in id order with the columns of the
table; `image[i]` has the columns the queue reads and writes; `scan_run[i]` the runs in
commit order. `worker[w]` is `Polling` or a record with the phase, the claimed job and
the two session objects: `row` (the `ScanJob` as claimed) and `img` (the `Image` as
loaded). `now` is the clock; one unit stands for as many seconds as the settings are
given in.

An action is one committed transaction, or the step between two. `claim`, `load_image`,
`finish_probe`, `start_scan` follow `run_once` and `_execute` up to Trivy;
`finish_scan`, `skip_scan`, `fail_in_transaction`, `fail_outside_transaction`,
`defer_for_backpressure` are the ways an execution ends, each with all it writes to job,
image and run; `crash` is a process killed, or an error that escapes to `main`. `tick` is
the scheduler's pass: reaping, the reaped runs, the due images. `request_scan` and
`promote` are the two writes of the endpoint. Which outcome the registry and Trivy give
is a free choice.

What a worker writes at the end goes through `flush_job` and `flush_image`, external
operators for SQLAlchemy's unit of work: the columns whose value differs from the loaded
one are written to the row with that id, whatever the row is by then. The unique index is
checked where the database checks it: a late write that would make a second active job
raises, and nothing of that transaction remains. `session.rollback()` expires the objects
only if a transaction was open; `session_job` and `session_image` tell the two cases
apart.

`tick` is one step. Between its statements a worker may commit, but a worker's
transaction touches one image, and waits for the rows the pass has written, so within
the lease it can be ordered before or after the pass; for late workers, `record_reaped`
may then add to a streak it has just read, which is finer than what is modelled.

Phases take at most `ProbeBound`, `ResolveBound`, `TrivyTimeout + WriteBound`; the clock
does not pass a phase's deadline. Only `LeaseSeconds > TrivyTimeout` is assumed, since it
is what `Settings._lease_outlives_a_scan` enforces. `LeaseBudget` (the lease covers the
sum of the bounds) is enforced nowhere; it is the hypothesis of the theorems in
`LeaseProofs` and true of the constants of two runs. With the default settings it leaves
300 s of the 1200 s for everything but Trivy.

### Persist

`txn[i]` is the open transaction of the worker that scans image `i`; that there is only
one is `NoDuplicateScan` of `ScanQueue`. Its steps are the statements of
`record_success`: `begin` (previous CVEs, insert of the run), `_upsert_packages`,
`_upsert_cves` row by row, `_upsert_findings` (with the counts and the pointer, all of
them rows of this image only), `start_rollup` (the snapshot of the UPDATE) and
`_recompute_cve_rollup` row by row, `commit`, and `rollback` at any point. Private writes are
kept in the transaction until it commits. The PostgreSQL rules used are external
definitions: a row written, or locked by `ON CONFLICT DO UPDATE` even where its `WHERE`
is false, stays locked until the end; an `INSERT` that conflicts with an uncommitted one
waits; an `UPDATE` takes the rows to visit and its sub-select from the snapshot at its
start, and at a row that another transaction changed meanwhile checks the condition again
on the new version with the old sub-select. Rows are visited in any order: report
order in one statement, the plan's order in the other.

A run carries its report, which the program does not store as such: it is what the
history property compares the tables with. Run ids are positions in `scan_run[i]`: the
ids of rolled-back runs are never seen by anyone. `MaxRuns` bounds the runs of all images
together, so that a few of one image and a few of another are both within reach. Left out: titles, descriptions, dates,
`fixed_version`, package names.

### Service

`job[i]` is the newest job of image `i`: pending, running, or ended. `order` is
`scheduled_for` as a relation: the images whose job may run by now, linearly ordered; a job that waits for a
backoff or a deferral is not in it. A claim leaves it there, since neither a claim nor a reap
changes `scheduled_for`. Time is three events: a lease runs out (`expired`), a delay passes,
an image becomes due. `clients` has the images whose urgent request is between
its two statements, any number of them at once. The last is left out while there is an active job, because every
way a job ends sets `last_scan_at`. `deaths[i]` counts the executions of the active job that
ended badly, independently of `attempts`.

A scheduler's `tick` is two steps: `begin_tick` reaps, records and selects the due images,
`commit_tick` inserts and commits. What it has reaped stays locked in between, so a second
scheduler's `UPDATE` waits. Everything else may happen in between: the due image gets a job
from a request, another scheduler commits. `lose_connection` is a connection that breaks while
it lies in the pool: `pool_pre_ping` replaces it without an error, `holds_lock` stays true,
and another scheduler gets the lock once PostgreSQL has noticed. Two schedulers then tick, for
as long as the first meets no error. `fail_tick` is an error within a pass, with or without the
connection; the same connection gets its lock a second time, as advisory locks allow.

Fairness. Weak, and for what the code does by itself: a worker that is up polls, and its
execution ends (Trivy, the registry and the probe all have timeouts); a scheduler's loop goes
round; a request gets to its second statement; time passes; PostgreSQL drops a dead
connection. Nothing restarts a killed process (`docker-compose.yml` has no restart policy), so
restarts are not fair, and the liveness properties say what they need of the
operators: a scheduler up, and for `EveryJobEnds` workers that do not stay down. Throttling
and urgent requests can postpone a job for ever, by design: a deferral is not counted, and
urgent jobs go first. `EveryJobEnds` is therefore about behaviours in which they cease. Scans
that kill their worker need not cease.

### ScanExecution and ReportParsing

`exec` is the execution under way, `run` the last successful run with its four recorded
values and `found`, what its findings were really computed from: the bytes the tag pointed at
when Trivy pulled, the database, scanner and flags then in use. `move_tag`, `refresh_db` and
`deploy` change the world; the first two at any time, the third between jobs, since SIGTERM
lets a worker finish. The exchange with the registry is one action per HTTP request with every
class of answer: a status the code tells apart, with a `Retry-After` of any form. A date is
given by its distance in ticks, of which a second has `TicksPerSecond`, and `parse_retry_after`
truncates it to seconds. What a probe reads of a version is the version or what the code puts in its place:
`unknown` for Trivy and for the database, or the schema number of the database; `seen` remembers
which database was there. `Details` are the complaints of Trivy, by the phrases in
their text (those of the tests' fixtures, all four markers among them) and by whether a registry
throttled: the marker set is the code's, the truth of the matter is not. A report
names the bytes by their manifest digest, by a local image id, or not at all. The database is
refreshed at once; a scan that sees half of a refresh is not modelled.

`ReportParsing` has the two loops of `parse_report` as recursive functions over its dictionary, and
`worst_findings` says what it should give, without an order. The constant `upper` is what
`strip().upper()` makes of a string. A severity that is missing or unknown is `UNKNOWN`; one that is not a string
raises, and the whole report fails (`parse_raises`). Of a key's four fields three are
left: version and name of a package behave alike.

### Api

The writers are short. `complete(i)` takes `completed_at`. `record_success(i)` is the transaction up
to the snapshot of its last statement: the rows of the reported CVEs are locked, so it waits for
open transactions that report one of them, and the rows the rollup will write are
computed from the tables as it sees them. `commit(i)` waits where such a row is locked by another and then makes
the run, the image's columns, the findings and the rollup visible, the rollup as it was computed, whatever
was committed since; `roll_back(i)` drops them. `Persist` has the same row by row. `DropsAlone` is its condition too.
A request goes
through `apply_freshness` and then the statements of its endpoint, each on the tables of its
moment. One client suffices: what it holds belongs to one URL, and requests of different
clients share nothing. Ties in `ORDER BY` come in any order. `CommitsSpaced` restricts
commits to the order of `completed_at` and to one a second; it is what the docstring of
`apply_freshness` takes for granted, and nothing in the code makes it so. Images are neither added
nor deleted: the seed runs before the services start. An image that is seeded later
does not change the ETag either.

## Runs

| Run | Constants | Shows |
|---|---|---|
| `queue_within_lease` | 1 image, 2 workers, lease 2 = 0+1+1+0, 2 attempts, 3 jobs, clock to 4 | `NoDuplicateScan`, `AttemptsAreRuns`, `DoneHasOneResult`, `StreakCountsJobs`, `ImageReflectsLastRun`, `ImplementsLifecycle` hold |
| `queue_late_workers` | 1 image, 2 workers, lease 1, phases of up to 9 | `TypeOK`, `OneActiveJob`, `ActiveJobComesBack` whatever late workers do |
| `lease_too_short` | lease 2, Trivy 1 | violates `NoDuplicateScan` |
| `promotion_overrides_throttle` | lease sufficient | violates `ThrottleIsRespected` |
| `persist_tables` | 2 images, 2 CVEs, 4 runs, overlapping; a scan that drops a CVE is written alone | `TypeOK`, `FindingsAreHistory`, `CurrentIsLastSuccess`, `RollupIsExact`, `ImplementsInventory` hold |
| `rollup_drift` | 2 images, 1 CVE, 3 runs, any overlap | violates `LiveCvesAreListed` |
| `service_failover` | 1 image, 1 worker, 2 schedulers, 3 attempts | `TypeOK`, `DeathsAreChargedOnce`, `NewJobsFollowEndedOnes`, and under fairness `EveryImageIsQueued` |
| `service_progress` | 2 images, 1 worker, 1 scheduler, 2 attempts | under fairness `EveryJobEnds` |
| `scan_execution` | 2 digests, 2 databases, 3 deployments, 7 headers, 8 complaints of Trivy, 13 reports, half-second ticks | `TypeOK`, `DeferralIsBackpressure`, `WorstSeverityWins`, `SkipIsSound` hold |
| `throttled_fallback` | 1 digest, 1 deployment | violates `ThrottlingIsNotFailure` |
| `api_reads` | 2 images, 2 CVEs, 2 packages, 3 reports, 3 runs, spaced commits, 6 URLs; a scan that drops a CVE is written alone | `TypeOK`, `EndpointsAgree`, `PageIsOfOneScan`, `NotModifiedIsCurrent` hold |
| `stale_not_modified` | the same, 2 ticks a second, any overlap and any commits | violates `NotModifiedIsCurrent` |

The bounds. Two workers are enough for one to be late while another holds the job. Two
attempts make a first failure that is retried and a last one that is not; three jobs let a
streak grow, end and start again; the clock runs long enough for a lease to expire and the
job to be claimed again. The lease of `queue_within_lease` is exactly the budget, so that an
expiry one instant early is noticed. Two images are enough for the rollup, which is only
a maximum and a count over images; two CVEs let two scans each hold a row that the other
wants; four runs in all let a finding of one image be seen, missing and seen again
while the other image is scanned. `Service` has no bound but its sets and `MaxAttempts`: its runs are complete for
them. Two schedulers are a holder and a standby, or two that both tick; two images are one that
waits while the other is claimed. In `ScanExecution` a second digest is a tag that moved, and
a refresh can come before, between and after the probe and the scan of an execution. In `Api` three runs make
two images that share a CVE and one that loses it; one of the reports shares no CVE with the others, so that
scans do overlap, and `EndpointsAgree` fails without `DropsAlone`.
`MaxTime`, `MaxJobs`, `MaxRuns` and `MaxDb` are the bounds in guards. The runs of `Persist`
and `Api` do not check for TLC deadlock, since behaviours end with those bounds. Symmetry is
used over workers, images, CVEs and packages, where no property checked names one, and not in the
runs with liveness. That several images are handled side by side in `ScanQueue` is not a run of
its own: `QueueImplementsLifecycle` is proved for any number of them.

### What the violations say

- The lease. `lease_seconds > trivy_timeout_seconds` is not enough, because the lease
  runs from the claim. Past it, the old worker and the new one scan the same image, and
  the old one's writes are not fenced: a final job is reopened.
- Promotion rewrites `scheduled_for` of a job that waits for `Retry-After`.
- The rollup. Scan A drops CVE c from its image, scan B finds c in another. B holds c's
  row; A's UPDATE has already computed "no image" and waits; B commits "one image"; A
  checks that its value differs and writes "no image". c is gone from `GET /api/cves` until
  a scan, not a skip, of an image with c. `persist_tables` shows that this is the only
  way: if a scan that drops a CVE overlaps with no other, the row locks of `_upsert_cves`
  keep the rollup exact, and with it the four endpoints in agreement (`api_reads`).
- The fallback GET. After a HEAD without a digest, `resolve_digest` sends a GET and looks only for the
  header. A 429 to it raises `RegistryError` and is charged to the job, though the module and its tests
  say that a 429 is backpressure. `scan_execution` shows that throttling defers wherever else it is met.
- The validator. A run that completes in the second of the newest one, or that commits after a
  run that completed later, does not change the ETag: a client that read before its commit
  is told 304 until another run commits. With the 30 s of `max-age` on top this is short
  where scans are frequent. `api_reads` shows that there is no other way: with commits in order and
  a second apart, a 304 is right even for a body that was torn by commits, because the ETag
  is read before the body.

### Remarks on the code

Seen while modelling, and without a run of their own:

- Late workers. Past its lease a worker's writes are not fenced: `fail`, `defer` and `complete`
  write by primary key, so a job that was already done or failed can be reopened.
- The failure ceiling. `min(interval * 2**failures, max_failure_backoff)` is less than the
  image's own interval if that is longer than the ceiling: a failing image is then scanned more often.
- Lock order. Two scans can lock the rows of shared CVEs in opposite orders, in
  `_upsert_cves` or in the rollup. PostgreSQL ends one of them and the worker counts a failed
  attempt, so this costs a retry and no data; `persist.py:219` says deadlocks do not happen.
- The fallback GET of `resolve_digest` does not look at a 404 either: it is retried.
- Versions that cannot be read. `db_version` falls back to the schema number and to `"unknown"`, and
  `probe_versions` to `"unknown"` for Trivy; `_is_unchanged` compares them like versions. While one of
  them cannot be read, a refreshed database or a new Trivy does not force a rescan, as `trivy.py:105`
  warns. `SkipIsSound` is about versions that were read. Likewise a report that names no
  digest is recorded under the digest that was resolved before.
- `parse_retry_after` truncates the distance of a date, so a job may come back up to a second
  early; less than a second becomes the default delay.
- A `Severity` that is not a string (`severity.py:41`) raises `AttributeError`, which fails the whole
  report, where other malformed entries are passed over.
- Urgency can be lost. An urgent request that meets a running job changes nothing, since `promote` matches only
  pending jobs; if that attempt fails, is deferred or is reaped, the job waits at normal priority.
  `images.py:149` says that "urgency still applies".
- Two schedulers may tick at once after a lost connection. `service_failover` shows this to be
  harmless, thanks to the `UPDATE ... WHERE` of the reaper and the unique index.
- `already_queued` can be the answer when the job ended between the two statements and
  nothing is queued. That job then ended after the request came in.
- A page of `image_cves` that a commit overtakes shows only findings that the new scan no
  longer has, under a total that may be larger; pages of `image_cves` and `cve_images` can
  overlap where rows tie.

## Proofs

All hold for any sets and sizes of the constants that satisfy the `ASSUME` of their module:
types, positive delays and attempts, model values distinct from the strings they could be
confused with, and finite sets where the code counts. `LeaseBudget`, `DropsAlone` and
`CommitsSpaced` are not assumed but hypotheses of the theorems that need them, and runs show that
they are needed (`lease_too_short`, `rollup_drift`, `stale_not_modified`). Each theorem rests on an
inductive invariant: true initially, kept by every step, implying the property.

`ScanQueueProofs`: `TypeCorrect`, then `AtMostOneActiveJob` and `NeverWedged` from the inductive
invariant `QueueInv`: types, the unique index, every active row "comes back", and every
busy worker's `row` is a running row with a lease. The last part is what makes it
inductive: a late worker writes only the columns that differ from its own `row`, and
since that was running with a lease, status and lease are always among them; without it
a late write could leave a pending row with a lease, or a running one without.
`EndingIsCommit` reduces the five ways to end an execution to one form, an outcome of
`complete`, `fail` or `defer` on either the present or the stale row, so that each invariant
is shown once for all of them.

`LeaseProofs`, under `LeaseBudget`: `LeaseInv` adds that every busy worker `owns` its job
(the row is as claimed, and the phase's deadline plus all that can follow, `slack`, is
within the lease), that no two workers share an image, and that only the last job of an
image is active, with attempts left. Ownership excludes reaping, and with it every stale
write. `LeasePreventsDuplicateScans` follows, and `QueueImplementsLifecycle`: each step
is, for each image, a stutter, an edge of the life of its last job, a new job after a
final one, or both in one scheduler pass.

`HistoryProofs`, under `LeaseBudget`: `HistoryInv` adds to `LeaseInv` that a worker's loaded
`Image` object equals the row, and that the jobs, row and runs of every image agree. The first is
what makes `consecutive_failures` right: `record_failure` adds one to the value of the object, so
the object must still be the row, which it is because only the owner of the job or a pass that
reaps it writes that row. `agrees` is stated for the tables of one image, with one lemma for each
way they can change (`AppendRun` counts the runs of a job after one more), so a scheduler pass, which
changes many images at once, needs no other argument. `AttemptsAreRecorded`, `ResultsAreWrittenOnce`,
`StreakIsExact` and `ImageShowsLatestRun` follow.

`PersistProofs`, with no condition on overlap: `PersistInv` says that the tables are typed, that
every open transaction is sound (what it has collected so far is what its phase says), that an
image's findings are the history of its runs, and that those served are its last success. The work
is in `SuccessKeeps` (a whole report upserted, together with its run) and `OtherRunKeeps` (a skip or
failure); it matters that nothing of a transaction is visible before its commit and that an image has
one transaction at a time. `TablesWellFormed`, `FindingsKeepHistory`, `CurrentFindingsAreLastSuccess`.

`RollupProofs`, under `DropsAlone`: `RollupInv` adds what the row locks give. A transaction that drops
nothing holds the row of every CVE it recomputes; two open transactions share no locked row; so
the sub-select computed at the start of the UPDATE is still right when a row is visited
(`recomputed`), and a commit changes the true rollup of only those CVEs whose rows it writes. A
transaction that drops a CVE recomputes a row it has not locked, and there the argument
fails, as `rollup_drift` shows. `RollupExact` and, from it, `LiveCvesListed`.
`TablesImplementInventory` is the refinement: with the rollup exact the rows that `GET /api/cves` selects are
the list of `Inventory` in every state (`ListingIsExact`), and of all steps only the commit of a success
changes what is served, for its own image and by a whole report.

`ServiceProofs`: `ServiceInv` says that an execution is the only one of its job, that what an open
pass has reaped is expired and reaped by no other pass, and that an ended job carries no
deaths. From these `DeathsChargedOnce` is inductive for any number of schedulers that tick at the same
time; `ActiveJobsAreNotReplaced` is an action property that follows from it.
The advisory lock is not used: correctness rests on the reaper's row locks and the unique index, the lock
only saves work. `ServiceTypes` adds `OrderInv`: `order` is a linear order of images whose job has not ended.
It stays one when images are taken out (`without`) and when others are put behind (`followed_by`), and every
action that touches it does only these two; that those put behind are not in it yet is where the types
of the job rows come in.

`ExecutionProofs`: `ExecInv` relates three moments. The probe saw a database no older than the one
of the last run (`probed`); Trivy scanned with one no older than the probe saw (`scanned`); the last
run's recorded version is at most the one its findings come from (`recorded`). Equal recorded and
probed versions then squeeze the real one between them, which is `SkipsAreSound`: for versions that were read,
and with regard to the database at the probe. `ThrottlingDefers` proves `DeferralIsBackpressure`; it
rests on `DeferDelay`: what `parse_retry_after` makes of any header, `or` the default, is positive
and at least what was asked but for a part of a second. A 429 to the fallback GET is not among what must
defer. `ParserKeepsTheWorst` says that `parse_report` is `worst_findings` for every report on which it does not raise:
the invariant of both loops is `is_worst` (the dictionary has the keys met so far, each with a severity
that was met and is the worst), `KeepStep` shows one round to keep it, `InnerLoop` and `OuterLoop` sum up
the rounds. Induction over the rounds is by least counterexample (`NatSet`): if the claim failed for some
number it would fail for a least one, since `<` is well founded. `FindingsAreTheWorst` follows, as an execution succeeds only with
the parse of a readable report.

`ApiProofs`: `TablesInv` says that findings are as the run that last reported them said, that the
pointed-at run is whole, that results and open transactions fit the clock and each other. `RollupInv`, under
`DropsAlone`, says that the rollup is exact, and that what an open transaction has computed will be exact at its commit:
open transactions affect disjoint CVEs (`apart`), because those they report are locked and a transaction that
drops others is alone; so a commit in between leaves their CVEs as their snapshots had them (`CommitUntouched`, `CommitIsAfter`).
`EndpointsTellOneStory` follows. `ReadInv` says of a request for an image's CVEs that the run it
has read is one of that image, and its total right while that run is current (`is_paging`); of any
request that its ETag is at most the present one, and if equal, that what it has read it would read again
(`is_fresh`); and the same of what the client holds (`is_kept`). `ApiTypes` needs the types in it,
`PagesAreOfOneScan` the first, `NotModifiedConfirms`, under `CommitsSpaced`, the others. That the newest completion exists is part
of the invariant (`has_newest`), kept as runs are appended: this takes the place of an induction
over the set of runs. `EndpointsReadInventory`, under `DropsAlone`: a commit of a success replaces one report and,
the rollup being exact before and after, the listing with it; skips and failures leave pointer, findings and rollup alone.

Only model-checked: the liveness properties `EveryImageIsQueued` and `EveryJobEnds`, since the prover
has no fairness or ENABLED. Every safety property that a run finds to hold is proved. Only proved: that
`Api` implements `Inventory`, which would take a run longer than the rest of `api_reads`.

## Not modelled

Statistics and health endpoints (independent counts that nothing reads back, and
uncacheable), response schemas, request logging and middleware, migrations and seed (they give
the schema and the initial state), `parse_reference` and the parsing of challenges, dates and
JSON (string handling), the acceptance script. Trivy and the registry are external: what
they may answer is a free choice. A worker that outlives its lease while two schedulers tick is
not modelled together: `ScanQueue` has the first, `Service` the second.
