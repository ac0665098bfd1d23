----------------------------- MODULE ScanQueue -----------------------------
(***************************************************************************)
(* The scan queue: the scan_job, image and scan_run tables, the worker     *)
(* processes that claim and execute jobs, the scheduler's tick and the two *)
(* writes of POST /api/images/{name}/{tag}/scan.                           *)
(*                                                                         *)
(* One action is one database transaction, or one step of a worker between *)
(* two transactions.  A worker keeps the ScanJob and Image objects of its  *)
(* SQLAlchemy session across those transactions (the sessions are made     *)
(* with expire_on_commit=False), so what it writes at the end of a job is  *)
(* computed from rows it read at the start: worker[w].row, worker[w].img.  *)
(*                                                                         *)
(* Time is the integer now.  One unit stands for as many seconds as the    *)
(* constants are given in.                                                 *)
(***************************************************************************)
EXTENDS Integers, Sequences, FiniteSets

CONSTANTS
    Images,                 \* image rows; rows are only ever created by the seed
    Enabled,                \* the images with image.enabled
    Workers,                \* worker processes
    ScanIntervalSeconds,    \* image.scan_interval_seconds, NULL for the default
    DefaultScanInterval,    \* settings.default_scan_interval_seconds
    MaxFailureBackoff,      \* settings.max_failure_backoff_seconds
    MaxAttempts,            \* settings.max_attempts
    BackoffBase,            \* settings.backoff_base_seconds
    BackoffMax,             \* settings.backoff_max_seconds
    LeaseSeconds,           \* settings.lease_seconds
    TrivyTimeout,           \* settings.trivy_timeout_seconds
    DefaultDefer,           \* worker.DEFAULT_DEFER_SECONDS
    RetryAfters,            \* the Retry-After values a registry may send
    ProbeBound,             \* longest time from the claim to the end of the probe
    ResolveBound,           \* longest resolve_digest call
    WriteBound,             \* longest time from Trivy's exit to the commit
    MaxTime,                \* bound: the clock stops here
    MaxJobs                 \* bound: jobs per image

\* SQL NULL, for timestamps and intervals.
NULL == -1

ASSUME SettingsAssumption ==
    /\ Enabled \subseteq Images
    /\ NULL \notin Images
    /\ ScanIntervalSeconds \in [Images -> (Nat \ {0}) \cup {NULL}]
    /\ DefaultScanInterval \in Nat \ {0}
    /\ MaxFailureBackoff \in Nat \ {0}
    /\ MaxAttempts \in Nat \ {0}
    /\ BackoffBase \in Nat \ {0}
    /\ BackoffMax \in Nat \ {0}
    /\ LeaseSeconds \in Nat
    /\ TrivyTimeout \in Nat
    /\ DefaultDefer \in Nat \ {0}
    /\ RetryAfters \subseteq Nat
    /\ ProbeBound \in Nat
    /\ ResolveBound \in Nat
    /\ WriteBound \in Nat
    /\ MaxTime \in Nat
    /\ MaxJobs \in Nat

\* Settings._lease_outlives_a_scan: the only relation between the lease and the
\* length of an execution that the program enforces.
_lease_outlives_a_scan == LeaseSeconds > TrivyTimeout

ASSUME LeaseOutlivesAScan == _lease_outlives_a_scan

\* What it takes for the lease to cover an execution from the claim on, which
\* is where the lease starts.  Not enforced anywhere: a hypothesis of theorems.
LeaseBudget ==
    LeaseSeconds >= ProbeBound + ResolveBound + TrivyTimeout + WriteBound

VARIABLES
    scan_job,   \* scan_job[i]: the jobs of image i in id order
    image,      \* image[i]: the columns of row i that the queue reads and writes
    scan_run,   \* scan_run[i]: the runs of image i in commit order
    worker,     \* worker[w]: what process w is doing
    now         \* the clock

vars == <<scan_job, image, scan_run, worker, now>>

-----------------------------------------------------------------------------
\* The tables.

JobStatus == {"pending", "running", "done", "failed"}
RunStatus == {"success", "failed", "skipped"}
JobError == {"none", "throttled", "failed", "lease_expired"}

PRIORITY_TIME_SENSITIVE == 100
PRIORITY_SCHEDULED == 0

ScanJob == [status: JobStatus,
            priority: {PRIORITY_SCHEDULED, PRIORITY_TIME_SENSITIVE},
            scheduled_for: Int,
            lease_until: Int,
            attempts: Nat,
            last_error: JobError]

Image == [last_scan_at: Int,
          last_scan_status: RunStatus \cup {"none"},
          consecutive_failures: Nat]

ScanRun == [scan_job_id: Nat, status: RunStatus]

Active == {"pending", "running"}

\* The partial unique index over the active jobs of one image.
uq_scan_job_active(jobs) ==
    \A m, n \in DOMAIN jobs :
        jobs[m].status \in Active /\ jobs[n].status \in Active => m = n

has_active_job(jobs) == \E n \in DOMAIN jobs : jobs[n].status \in Active

-----------------------------------------------------------------------------
\* What the functions of jobs/queue.py do to a row.

Min2(a, b) == IF a <= b THEN a ELSE b

new_job(priority) ==
    [status |-> "pending", priority |-> priority, scheduled_for |-> now,
     lease_until |-> NULL, attempts |-> 0, last_error |-> "none"]

promoted(row) ==
    [row EXCEPT !.priority = PRIORITY_TIME_SENSITIVE, !.scheduled_for = now]

\* Mutant of claimed: the lease is never set.
claimed_without_lease(row) == [row EXCEPT !.status = "running"]

claimed(row) ==
    [row EXCEPT !.status = "running", !.lease_until = now + LeaseSeconds]

\* Mutant of complete: the status of the run is written to the job.
complete_as_success(row) ==
    [row EXCEPT !.status = "success", !.lease_until = NULL, !.last_error = "none"]

complete(row) ==
    [row EXCEPT !.status = "done", !.lease_until = NULL, !.last_error = "none"]

backoff(attempts) == Min2(BackoffBase * 2^(attempts - 1), BackoffMax)

\* Mutant of fail: one attempt too many.
fail_one_late(row, max_attempts) ==
    LET attempts == row.attempts + 1
        failed == [row EXCEPT !.attempts = attempts, !.last_error = "failed",
                              !.lease_until = NULL]
    IN IF attempts > max_attempts
       THEN [failed EXCEPT !.status = "failed"]
       ELSE [failed EXCEPT !.status = "pending",
                           !.scheduled_for = now + backoff(attempts)]

fail(row, max_attempts) ==
    LET attempts == row.attempts + 1
        failed == [row EXCEPT !.attempts = attempts, !.last_error = "failed",
                              !.lease_until = NULL]
    IN IF attempts >= max_attempts
       THEN [failed EXCEPT !.status = "failed"]
       ELSE [failed EXCEPT !.status = "pending",
                           !.scheduled_for = now + backoff(attempts)]

defer(row, delay) ==
    [row EXCEPT !.status = "pending", !.lease_until = NULL,
                !.last_error = "throttled", !.scheduled_for = now + delay]

\* Mutant of lease_expired: the lease ends one instant early.
lease_expired_early(row) ==
    row.status = "running" /\ row.lease_until # NULL /\ row.lease_until <= now

lease_expired(row) ==
    row.status = "running" /\ row.lease_until # NULL /\ row.lease_until < now

reaped(row) ==
    [row EXCEPT !.status = IF row.attempts + 1 >= MaxAttempts THEN "failed"
                                                              ELSE "pending",
                !.lease_until = NULL,
                !.attempts = row.attempts + 1,
                !.last_error = "lease_expired"]

reap_expired_leases(jobs) ==
    [n \in DOMAIN jobs |-> IF lease_expired(jobs[n]) THEN reaped(jobs[n]) ELSE jobs[n]]

-----------------------------------------------------------------------------
\* What the functions of scanner/persist.py do to the image row.

record_success(img) ==
    [img EXCEPT !.last_scan_at = now, !.last_scan_status = "success",
                !.consecutive_failures = 0]

\* Mutant of record_skip: the status of the image is left alone.
record_skip_silently(img) ==
    [img EXCEPT !.last_scan_at = now, !.consecutive_failures = 0]

record_skip(img) ==
    [img EXCEPT !.last_scan_at = now, !.last_scan_status = "skipped",
                !.consecutive_failures = 0]

\* Mutant of record_failure: every attempt extends the streak.
record_failure_per_attempt(img, exhausted) ==
    [img EXCEPT !.last_scan_at = now, !.last_scan_status = "failed",
                !.consecutive_failures = @ + 1]

record_failure(img, exhausted) ==
    [img EXCEPT !.last_scan_at = now, !.last_scan_status = "failed",
                !.consecutive_failures = IF exhausted THEN @ + 1 ELSE @]

-----------------------------------------------------------------------------
\* scheduler.next_due_at and due_images.  Every image is created at time 0.

scan_interval(i) ==
    IF ScanIntervalSeconds[i] = NULL THEN DefaultScanInterval ELSE ScanIntervalSeconds[i]

effective_interval(i, failures) ==
    IF failures = 0 THEN scan_interval(i)
                    ELSE Min2(scan_interval(i) * 2^failures, MaxFailureBackoff)

next_due_at(i, img) ==
    IF img.last_scan_at = NULL
    THEN 0
    ELSE img.last_scan_at + effective_interval(i, img.consecutive_failures)

due(i, jobs, img) ==
    /\ i \in Enabled
    /\ ~has_active_job(jobs)
    /\ next_due_at(i, img) <= now

-----------------------------------------------------------------------------
\* The SQLAlchemy unit of work: an UPDATE by primary key that sets the columns
\* whose new value differs from the value loaded into the object.  No other
\* column and no other row is looked at, so the row's present status and lease
\* do not matter.

changed(db, loaded, new) == IF new = loaded THEN db ELSE new

flush_job(db, loaded, new) ==
    [status |-> changed(db.status, loaded.status, new.status),
     priority |-> changed(db.priority, loaded.priority, new.priority),
     scheduled_for |-> changed(db.scheduled_for, loaded.scheduled_for, new.scheduled_for),
     lease_until |-> changed(db.lease_until, loaded.lease_until, new.lease_until),
     attempts |-> changed(db.attempts, loaded.attempts, new.attempts),
     last_error |-> changed(db.last_error, loaded.last_error, new.last_error)]

flush_image(db, loaded, new) ==
    [last_scan_at |-> changed(db.last_scan_at, loaded.last_scan_at, new.last_scan_at),
     last_scan_status |->
        changed(db.last_scan_status, loaded.last_scan_status, new.last_scan_status),
     consecutive_failures |->
        changed(db.consecutive_failures, loaded.consecutive_failures,
                new.consecutive_failures)]

-----------------------------------------------------------------------------
\* The worker processes.

Executing == [phase: {"load", "probe", "resolve", "scan"},
              image: Images,        \* job.image_id
              job: Nat,             \* job.id, as a position in scan_job[image]
              row: ScanJob,         \* the ScanJob object of the session
              img: Image,           \* the Image object of the session
              previous: BOOLEAN,    \* _last_successful_run found one
              deadline: Int]        \* when this phase ends at the latest

Polling == [phase |-> "poll"]

no_image == [last_scan_at |-> NULL, last_scan_status |-> "none",
             consecutive_failures |-> 0]

\* Types of the tables, and of the objects a worker holds.
TypeOK ==
    /\ scan_job \in [Images -> Seq(ScanJob)]
    /\ image \in [Images -> Image]
    /\ scan_run \in [Images -> Seq(ScanRun)]
    /\ worker \in [Workers -> Executing \cup {Polling}]
    /\ \A w \in Workers :
          worker[w] # Polling => worker[w].job \in DOMAIN scan_job[worker[w].image]
    /\ now \in 0..MaxTime

Init ==
    /\ scan_job = [i \in Images |-> <<>>]
    /\ image = [i \in Images |-> no_image]
    /\ scan_run = [i \in Images |-> <<>>]
    /\ worker = [w \in Workers |-> Polling]
    /\ now = 0

busy(w) == worker[w] # Polling
in_phase(w, phases) == busy(w) /\ worker[w].phase \in phases

job_row(w) == scan_job[worker[w].image][worker[w].job]
image_row(w) == image[worker[w].image]

-----------------------------------------------------------------------------
\* queue.claim, committed by run_once.  FOR UPDATE SKIP LOCKED makes the
\* selection and the update of the row one step.

claimable(i, n) ==
    /\ scan_job[i][n].status = "pending"
    /\ scan_job[i][n].scheduled_for <= now

claimed_before(a, b) ==
    \/ a.priority > b.priority
    \/ a.priority = b.priority /\ a.scheduled_for < b.scheduled_for

claim(w) ==
    /\ ~busy(w)
    /\ \E i \in Images : \E n \in DOMAIN scan_job[i] :
        /\ claimable(i, n)
        /\ ~\E j \in Images : \E m \in DOMAIN scan_job[j] :
              claimable(j, m) /\ claimed_before(scan_job[j][m], scan_job[i][n])
        /\ scan_job' = [scan_job EXCEPT ![i][n] = claimed(@)]
        /\ worker' = [worker EXCEPT ![w] =
              [phase |-> "load", image |-> i, job |-> n,
               row |-> claimed(scan_job[i][n]), img |-> no_image,
               previous |-> FALSE, deadline |-> now + ProbeBound]]
    /\ UNCHANGED <<image, scan_run, now>>

\* _execute: session.get(Image, job.image_id) opens the first transaction.
load_image(w) ==
    /\ in_phase(w, {"load"})
    /\ worker' = [worker EXCEPT ![w] = [@ EXCEPT !.phase = "probe", !.img = image_row(w)]]
    /\ UNCHANGED <<scan_job, image, scan_run, now>>

\* _last_successful_run: whether there is one.
has_successful_run(runs) == \E r \in DOMAIN runs : runs[r].status = "success"

\* _execute: the probe returned; _last_successful_run; session.commit().
finish_probe(w) ==
    /\ in_phase(w, {"probe"})
    /\ worker' = [worker EXCEPT ![w] =
          [@ EXCEPT !.phase = "resolve",
                    !.previous = has_successful_run(scan_run[worker[w].image]),
                    !.deadline = now + ResolveBound]]
    /\ UNCHANGED <<scan_job, image, scan_run, now>>

\* _execute: resolve_digest returned and _is_unchanged was false; Trivy starts.
start_scan(w) ==
    /\ in_phase(w, {"resolve"})
    /\ worker' = [worker EXCEPT ![w] =
          [@ EXCEPT !.phase = "scan", !.deadline = now + TrivyTimeout + WriteBound]]
    /\ UNCHANGED <<scan_job, image, scan_run, now>>

-----------------------------------------------------------------------------
\* The transactions that end an execution.  All of them write through the
\* session's objects; a write that would give the image a second active job
\* raises IntegrityError, which escapes run_once and is rolled back by main.

\* Mutant of commit: without the unique index.
commit_without_index(w, row, img, runs) ==
    LET i == worker[w].image
    IN /\ worker' = [worker EXCEPT ![w] = Polling]
       /\ scan_job' = [scan_job EXCEPT ![i][worker[w].job] = row]
       /\ image' = [image EXCEPT ![i] = img]
       /\ scan_run' = [scan_run EXCEPT ![i] = @ \o runs]
       /\ UNCHANGED now

commit(w, row, img, runs) ==
    LET i == worker[w].image
        jobs == [scan_job[i] EXCEPT ![worker[w].job] = row]
    IN /\ worker' = [worker EXCEPT ![w] = Polling]
       /\ \/ /\ uq_scan_job_active(jobs)
             /\ scan_job' = [scan_job EXCEPT ![i] = jobs]
             /\ image' = [image EXCEPT ![i] = img]
             /\ scan_run' = [scan_run EXCEPT ![i] = @ \o runs]
          \/ /\ ~uq_scan_job_active(jobs)
             /\ UNCHANGED <<scan_job, image, scan_run>>
       /\ UNCHANGED now

run_of(w, status) == <<[scan_job_id |-> worker[w].job, status |-> status]>>

\* The objects a handler works on.  session.rollback() expires them, so that
\* they are read again, only if a transaction was open (open); after the commit
\* that precedes resolve_digest there is none, and they stay as loaded.
session_job(w, open) == IF open THEN job_row(w) ELSE worker[w].row
session_image(w, open) == IF open THEN image_row(w) ELSE worker[w].img

\* record_success, complete, commit: one transaction.
finish_scan(w) ==
    /\ in_phase(w, {"scan"})
    /\ commit(w,
              flush_job(job_row(w), worker[w].row, complete(worker[w].row)),
              flush_image(image_row(w), worker[w].img, record_success(worker[w].img)),
              run_of(w, "success"))

\* Mutant of skip_scan: the run is written and the job is not completed.
skip_without_complete(w) ==
    /\ in_phase(w, {"resolve"})
    /\ worker[w].previous
    /\ commit(w, job_row(w),
              flush_image(image_row(w), worker[w].img, record_skip(worker[w].img)),
              run_of(w, "skipped"))

\* record_skip, complete, commit: one transaction.
skip_scan(w) ==
    /\ in_phase(w, {"resolve"})
    /\ worker[w].previous
    /\ commit(w,
              flush_job(job_row(w), worker[w].row, complete(worker[w].row)),
              flush_image(image_row(w), worker[w].img, record_skip(worker[w].img)),
              run_of(w, "skipped"))

\* _record_failure: fail, record_failure, commit.
record_attempt_failure(w, permanent, open) ==
    LET loaded == session_job(w, open)
        row == fail(loaded, IF permanent THEN 1 ELSE MaxAttempts)
        img == session_image(w, open)
    IN commit(w,
              flush_job(job_row(w), loaded, row),
              flush_image(image_row(w), img, record_failure(img, row.status = "failed")),
              run_of(w, "failed"))

\* The probe, or a statement of one of the transactions, raised.
fail_in_transaction(w) ==
    /\ \/ in_phase(w, {"load", "probe", "scan"})
       \/ in_phase(w, {"resolve"}) /\ worker[w].previous
    /\ record_attempt_failure(w, FALSE, TRUE)

\* resolve_digest, run_scan or parse_report raised; only resolve_digest raises
\* ImageNotFound, which is permanent.
fail_outside_transaction(w, permanent) ==
    /\ in_phase(w, IF permanent THEN {"resolve"} ELSE {"resolve", "scan"})
    /\ record_attempt_failure(w, permanent, FALSE)

\* _defer_for_backpressure: `retry_after or DEFAULT_DEFER_SECONDS`; only the
\* registry client's exception carries a retry_after.
defer_delay(retry_after) == IF retry_after \in {NULL, 0} THEN DefaultDefer ELSE retry_after

defer_for_backpressure(w, retry_after) ==
    /\ \/ in_phase(w, {"resolve"})
       \/ in_phase(w, {"probe", "scan"}) /\ retry_after = NULL
    /\ LET loaded == session_job(w, worker[w].phase = "probe")
       IN commit(w,
                 flush_job(job_row(w), loaded, defer(loaded, defer_delay(retry_after))),
                 image_row(w),
                 <<>>)

\* The process is killed, or an error escapes the handlers: nothing is written.
crash(w) ==
    /\ busy(w)
    /\ worker' = [worker EXCEPT ![w] = Polling]
    /\ UNCHANGED <<scan_job, image, scan_run, now>>

-----------------------------------------------------------------------------
\* scheduler.tick: reap, record, enqueue what is due, commit.

reaped_jobs(i) == {n \in DOMAIN scan_job[i] : lease_expired(scan_job[i][n])}

\* record_reaped: one failed run and one image update per reaped job.  The
\* index allows one active job per image, so an image has at most one.
record_reaped(i, jobs) ==
    IF reaped_jobs(i) = {} THEN image[i]
    ELSE record_failure(image[i], \E n \in reaped_jobs(i) : jobs[n].status = "failed")

\* Mutant of reaped_runs: a killed attempt leaves no run.
reaped_runs_unrecorded(i) == <<>>

reaped_runs(i) ==
    IF reaped_jobs(i) = {} THEN <<>>
    ELSE <<[scan_job_id |-> CHOOSE n \in reaped_jobs(i) : TRUE, status |-> "failed"]>>

enqueue(jobs, priority) ==
    IF has_active_job(jobs) \/ Len(jobs) >= MaxJobs THEN jobs
    ELSE Append(jobs, new_job(priority))

jobs_after_tick(i) ==
    LET jobs == reap_expired_leases(scan_job[i])
    IN IF due(i, jobs, record_reaped(i, jobs)) THEN enqueue(jobs, PRIORITY_SCHEDULED)
                                               ELSE jobs

tick ==
    /\ scan_job' = [i \in Images |-> jobs_after_tick(i)]
    /\ image' = [i \in Images |-> record_reaped(i, reap_expired_leases(scan_job[i]))]
    /\ scan_run' = [i \in Images |-> scan_run[i] \o reaped_runs(i)]
    /\ UNCHANGED <<worker, now>>

-----------------------------------------------------------------------------
\* POST /api/images/{name}/{tag}/scan: an INSERT ... ON CONFLICT DO NOTHING,
\* and, for a time-sensitive request that lost the conflict, an UPDATE.

request_scan(i, priority) ==
    /\ ~has_active_job(scan_job[i])
    /\ Len(scan_job[i]) < MaxJobs
    /\ scan_job' = [scan_job EXCEPT ![i] = enqueue(@, priority)]
    /\ UNCHANGED <<image, scan_run, worker, now>>

promote(i) ==
    /\ \E n \in DOMAIN scan_job[i] :
        /\ scan_job[i][n].status = "pending"
        /\ scan_job[i][n].priority < PRIORITY_TIME_SENSITIVE
        /\ scan_job' = [scan_job EXCEPT ![i][n] = promoted(@)]
    /\ UNCHANGED <<image, scan_run, worker, now>>

-----------------------------------------------------------------------------
\* Time passes, but no phase outlasts its bound.

advance_clock ==
    /\ now < MaxTime
    /\ \A w \in Workers : busy(w) => now < worker[w].deadline
    /\ now' = now + 1
    /\ UNCHANGED <<scan_job, image, scan_run, worker>>

Next ==
    \/ \E w \in Workers :
        \/ claim(w)
        \/ load_image(w)
        \/ finish_probe(w)
        \/ start_scan(w)
        \/ finish_scan(w)
        \/ skip_scan(w)
        \/ fail_in_transaction(w)
        \/ \E permanent \in BOOLEAN : fail_outside_transaction(w, permanent)
        \/ \E retry_after \in RetryAfters \cup {NULL} : defer_for_backpressure(w, retry_after)
        \/ crash(w)
    \/ tick
    \/ \E i \in Images :
        \/ \E priority \in {PRIORITY_SCHEDULED, PRIORITY_TIME_SENSITIVE} :
              request_scan(i, priority)
        \/ promote(i)
    \/ advance_clock

Spec == Init /\ [][Next]_vars

-----------------------------------------------------------------------------
(* Properties.                                                             *)

\* No image ever has two jobs that are pending or running, whoever enqueues,
\* retries, defers or reaps (uq_scan_job_active; models.py "Structurally
\* prevents duplicate queueing for one image").
OneActiveJob == \A i \in Images : uq_scan_job_active(scan_job[i])

\* An active job is never wedged: a pending one becomes claimable within one of
\* the configured delays, a running one has a lease that reap_expired_leases
\* will find within LeaseSeconds (queue.fail: "it never wedges the queue").
Delays == {0, BackoffMax, DefaultDefer} \cup RetryAfters

ActiveJobComesBack ==
    \A i \in Images : \A n \in DOMAIN scan_job[i] :
        LET row == scan_job[i][n]
        IN /\ row.status = "pending" => \E d \in Delays : row.scheduled_for <= now + d
           /\ row.status = "running" => /\ row.lease_until # NULL
                                        /\ row.lease_until <= now + LeaseSeconds

\* No two workers execute a job of the same image at the same time (config.py:
\* the lease exists so that "two workers would scan the same image at once"
\* cannot happen).
NoDuplicateScan ==
    \A v, w \in Workers :
        busy(v) /\ busy(w) /\ worker[v].image = worker[w].image => v = w

runs_of_job(i, n, statuses) ==
    {r \in DOMAIN scan_run[i] : /\ scan_run[i][r].scan_job_id = n
                                /\ scan_run[i][r].status \in statuses}

\* Every attempt a job was charged for left exactly one failed scan_run, those
\* of killed workers too, and a job that is still active has attempts left
\* (queue.reap_expired_leases: "counts against max_attempts exactly like one a
\* worker lived long enough to report"; scheduler.record_reaped).
AttemptsAreRuns ==
    \A i \in Images : \A n \in DOMAIN scan_job[i] :
        /\ scan_job[i][n].attempts = Cardinality(runs_of_job(i, n, {"failed"}))
        /\ scan_job[i][n].status \in Active => scan_job[i][n].attempts < MaxAttempts

\* A job is done exactly if one result was written for it, and never has two:
\* "a job's completion and the findings it produced commit in the same
\* transaction", so there is "no at-least-once delivery" (queue.py docstring).
DoneHasOneResult ==
    \A i \in Images : \A n \in DOMAIN scan_job[i] :
        Cardinality(runs_of_job(i, n, {"success", "skipped"}))
            = IF scan_job[i][n].status = "done" THEN 1 ELSE 0

\* image.consecutive_failures is the number of jobs that ended exhausted since
\* the last job that ended well (models.py "Consecutive *jobs* that ended
\* exhausted, reset by any success or skip").
failed_since_done(jobs) ==
    {n \in DOMAIN jobs : /\ jobs[n].status = "failed"
                         /\ \A m \in DOMAIN jobs : m > n => jobs[m].status # "done"}

StreakCountsJobs ==
    \A i \in Images :
        image[i].consecutive_failures = Cardinality(failed_since_done(scan_job[i]))

\* image.last_scan_status is the status of the most recent run (models.py
\* "Denormalised from the most recent completed run of any kind").
ImageReflectsLastRun ==
    \A i \in Images :
        image[i].last_scan_status =
            IF scan_run[i] = <<>> THEN "none" ELSE scan_run[i][Len(scan_run[i])].status

\* Nothing brings forward a job that waits for a registry that throttled it
\* (models.py: priority "never overrides a registry that is throttling us").
ThrottleIsRespected ==
    [][\A i \in Images : \A n \in DOMAIN scan_job[i] :
          LET row == scan_job[i][n]
          IN row.status = "pending" /\ row.last_error = "throttled" =>
                 scan_job'[i][n].scheduled_for >= row.scheduled_for]_vars

-----------------------------------------------------------------------------
\* The jobs as JobLifecycle sees them.
life_of(jobs) ==
    [n \in DOMAIN jobs |-> [status |-> jobs[n].status, attempts |-> jobs[n].attempts]]

Lifecycle == INSTANCE JobLifecycle WITH life <- [i \in Images |-> life_of(scan_job[i])]

\* Whatever workers, scheduler and API do, the jobs of every image live the
\* life of a job that the README draws (complete, fail, defer, claim, reap).
ImplementsLifecycle == Lifecycle!Spec
=============================================================================
