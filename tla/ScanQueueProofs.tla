-------------------------- MODULE ScanQueueProofs --------------------------
(***************************************************************************)
(* What holds of the queue for all settings and all execution times, late  *)
(* workers included: types, at most one active job per image, and no       *)
(* active job that is stuck.                                               *)
(***************************************************************************)
EXTENDS ScanQueue, TLAPS

\* The delay queue.fail computes is bounded by backoff_max_seconds.
LEMMA BackoffType ==
    ASSUME NEW attempts \in Nat, attempts # 0
    PROVE  backoff(attempts) \in Int /\ backoff(attempts) <= BackoffMax
<1>1. attempts - 1 \in Nat
  OBVIOUS
<1>2. 2^(attempts - 1) \in Int
  BY <1>1
<1>3. BackoffBase * 2^(attempts - 1) \in Int
  BY <1>2, SettingsAssumption
<1> QED
  BY <1>3, SettingsAssumption DEF backoff, Min2

\* Whatever jobs/queue.py does to a row gives a row.
LEMMA RowTypes ==
    ASSUME now \in Nat, NEW row \in ScanJob
    PROVE  /\ claimed(row) \in ScanJob
           /\ complete(row) \in ScanJob
           /\ reaped(row) \in ScanJob
           /\ \A m \in Nat : fail(row, m) \in ScanJob
           /\ \A d \in Int : defer(row, d) \in ScanJob
<1>1. NULL \in Int
  BY DEF NULL
<1>2. row.attempts + 1 \in Nat /\ row.attempts + 1 # 0
  BY DEF ScanJob
<1>3. claimed(row) \in ScanJob
  <2>1. now + LeaseSeconds \in Int
    BY SettingsAssumption
  <2> QED
    BY <2>1, Zenon DEF claimed, ScanJob, JobStatus
<1>4. complete(row) \in ScanJob
  BY <1>1, Zenon DEF complete, ScanJob, JobStatus, JobError
<1>5. reaped(row) \in ScanJob
  <2> DEFINE s == IF row.attempts + 1 >= MaxAttempts THEN "failed" ELSE "pending"
  <2>1. s \in JobStatus
    BY DEF JobStatus
  <2> HIDE DEF s
  <2>2. [row EXCEPT !.status = s, !.lease_until = NULL, !.attempts = row.attempts + 1,
                    !.last_error = "lease_expired"] \in ScanJob
    BY <1>1, <1>2, <2>1, Zenon DEF ScanJob, JobError
  <2> QED
    BY <2>2 DEF s, reaped
<1>6. ASSUME NEW m \in Nat PROVE fail(row, m) \in ScanJob
  <2> DEFINE a == row.attempts + 1
             t == now + backoff(a)
             f == [row EXCEPT !.attempts = a, !.last_error = "failed", !.lease_until = NULL]
  <2>1. a \in Nat /\ t \in Int
    BY <1>2, BackoffType
  <2> HIDE DEF a, t
  <2>2. f \in ScanJob
    BY <1>1, <2>1, Zenon DEF ScanJob, JobError
  <2>3. [f EXCEPT !.status = "failed"] \in ScanJob
    BY <2>2, Zenon DEF ScanJob, JobStatus
  <2>4. [f EXCEPT !.status = "pending", !.scheduled_for = t] \in ScanJob
    BY <2>1, <2>2, Zenon DEF ScanJob, JobStatus
  <2> QED
    BY <2>3, <2>4, Zenon DEF fail, a, t
<1>7. ASSUME NEW d \in Int PROVE defer(row, d) \in ScanJob
  <2>1. now + d \in Int
    OBVIOUS
  <2> QED
    BY <1>1, <2>1, Zenon DEF defer, ScanJob, JobStatus, JobError
<1> QED
  BY <1>3, <1>4, <1>5, <1>6, <1>7

\* An UPDATE of some columns gives a row of scan_job.
LEMMA FlushJobType ==
    ASSUME NEW db \in ScanJob, NEW loaded \in ScanJob, NEW new \in ScanJob
    PROVE  flush_job(db, loaded, new) \in ScanJob
  BY DEF flush_job, changed, ScanJob

\* Whatever scanner/persist.py does to an image row gives an image row.
LEMMA ImageTypes ==
    ASSUME now \in Nat, NEW img \in Image
    PROVE  /\ record_success(img) \in Image
           /\ record_skip(img) \in Image
           /\ \A e \in BOOLEAN : record_failure(img, e) \in Image
<1>1. now \in Int /\ 0 \in Nat
  OBVIOUS
<1>2. record_success(img) \in Image /\ record_skip(img) \in Image
  BY <1>1, Zenon DEF record_success, record_skip, Image, RunStatus
<1>3. ASSUME NEW e \in BOOLEAN PROVE record_failure(img, e) \in Image
  <2> DEFINE c == IF e THEN img.consecutive_failures + 1 ELSE img.consecutive_failures
  <2>1. c \in Nat
    BY DEF Image
  <2> HIDE DEF c
  <2>2. [img EXCEPT !.last_scan_at = now, !.last_scan_status = "failed",
                    !.consecutive_failures = c] \in Image
    BY <1>1, <2>1, Zenon DEF Image, RunStatus
  <2> QED
    BY <2>2, Zenon DEF c, record_failure
<1> QED
  BY <1>2, <1>3

\* An UPDATE of some columns gives a row of image.
LEMMA FlushImageType ==
    ASSUME NEW db \in Image, NEW loaded \in Image, NEW new \in Image
    PROVE  flush_image(db, loaded, new) \in Image
  BY DEF flush_image, changed, Image

\* Replacing one element of a sequence.
LEMMA SeqUpdate ==
    ASSUME NEW S, NEW s \in Seq(S), NEW n \in DOMAIN s, NEW e \in S
    PROVE  /\ [s EXCEPT ![n] = e] \in Seq(S)
           /\ Len([s EXCEPT ![n] = e]) = Len(s)
           /\ DOMAIN [s EXCEPT ![n] = e] = DOMAIN s
  OBVIOUS

\* Concatenation keeps the element type.
LEMMA SeqConcat ==
    ASSUME NEW S, NEW s \in Seq(S), NEW t \in Seq(S)
    PROVE  s \o t \in Seq(S)
  OBVIOUS

\* A function with the domain of a sequence is a sequence.
LEMMA SeqMap ==
    ASSUME NEW S, NEW T, NEW s \in Seq(S), NEW t, DOMAIN t = DOMAIN s,
           t = [n \in DOMAIN s |-> t[n]], \A n \in DOMAIN s : t[n] \in T
    PROVE  t \in Seq(T) /\ Len(t) = Len(s)
  OBVIOUS

\* The run a worker inserts.
LEMMA RunType ==
    ASSUME TypeOK, NEW w \in Workers, busy(w), NEW status \in RunStatus
    PROVE  run_of(w, status) \in Seq(ScanRun)
  BY DEF TypeOK, busy, run_of, ScanRun, Executing

\* What TypeOK says of a busy worker: its objects and the rows they stand for.
LEMMA ExecutingType ==
    ASSUME TypeOK, NEW w \in Workers, busy(w)
    PROVE  /\ worker[w] \in Executing
           /\ worker[w].image \in Images
           /\ worker[w].job \in DOMAIN scan_job[worker[w].image]
           /\ worker[w].row \in ScanJob
           /\ worker[w].img \in Image
           /\ job_row(w) \in ScanJob
           /\ image_row(w) \in Image
<1>1. worker[w] \in Executing /\ worker[w].job \in DOMAIN scan_job[worker[w].image]
  BY DEF TypeOK, busy
<1>2. /\ worker[w].image \in Images
      /\ worker[w].row \in ScanJob
      /\ worker[w].img \in Image
  BY <1>1 DEF Executing
<1>3. scan_job[worker[w].image] \in Seq(ScanJob) /\ image[worker[w].image] \in Image
  BY <1>2 DEF TypeOK
<1> QED
  BY <1>1, <1>2, <1>3 DEF job_row, image_row

\* Any transaction that ends an execution keeps the types.
LEMMA CommitType ==
    ASSUME TypeOK, NEW w \in Workers, busy(w),
           NEW row \in ScanJob, NEW img \in Image, NEW runs \in Seq(ScanRun),
           commit(w, row, img, runs)
    PROVE  TypeOK'
<1> DEFINE i == worker[w].image
           jobs == [scan_job[i] EXCEPT ![worker[w].job] = row]
<1>1. i \in Images /\ worker[w].job \in DOMAIN scan_job[i] /\ scan_job[i] \in Seq(ScanJob)
  BY ExecutingType DEF TypeOK
<1>2. jobs \in Seq(ScanJob) /\ DOMAIN jobs = DOMAIN scan_job[i]
  BY <1>1, SeqUpdate
<1>3. /\ worker' = [worker EXCEPT ![w] = Polling]
      /\ now' = now
  BY DEF commit
<1>4. CASE UNCHANGED <<scan_job, image, scan_run>>
  BY <1>3, <1>4 DEF TypeOK
<1>5. CASE /\ scan_job' = [scan_job EXCEPT ![i] = jobs]
           /\ image' = [image EXCEPT ![i] = img]
           /\ scan_run' = [scan_run EXCEPT ![i] = @ \o runs]
  <2> HIDE DEF i, jobs
  <2>1. scan_run[i] \in Seq(ScanRun)
    BY <1>1 DEF TypeOK
  <2>2. scan_run[i] \o runs \in Seq(ScanRun)
    BY <2>1, SeqConcat
  <2>3. /\ scan_job' \in [Images -> Seq(ScanJob)]
        /\ image' \in [Images -> Image]
        /\ scan_run' \in [Images -> Seq(ScanRun)]
    BY <1>1, <1>2, <1>5, <2>2 DEF TypeOK
  <2>4. \A j \in Images : DOMAIN scan_job'[j] = DOMAIN scan_job[j]
    BY <1>1, <1>2, <1>5 DEF TypeOK
  <2>5. worker' \in [Workers -> Executing \cup {Polling}] /\ now' \in 0..MaxTime
    BY <1>3 DEF TypeOK
  <2>6. ASSUME NEW v \in Workers, worker'[v] # Polling
        PROVE  worker'[v].job \in DOMAIN scan_job'[worker'[v].image]
    <3>1. v # w /\ worker'[v] = worker[v]
      BY <1>3, <2>6 DEF TypeOK
    <3>2. busy(v)
      BY <2>6, <3>1 DEF busy
    <3> QED
      BY <3>1, <3>2, <2>4, ExecutingType
  <2> QED
    BY <2>3, <2>5, <2>6 DEF TypeOK
<1> QED
  BY <1>4, <1>5 DEF commit

\* The actions that end an execution with a transaction, and what each writes
\* into the job row: the row an ORM UPDATE leaves for some new value computed
\* from the object the session holds.
ends_execution(w) ==
    \/ finish_scan(w)
    \/ skip_scan(w)
    \/ fail_in_transaction(w)
    \/ \E permanent \in BOOLEAN : fail_outside_transaction(w, permanent)
    \/ \E retry_after \in RetryAfters \cup {NULL} : defer_for_backpressure(w, retry_after)

outcome(loaded, new) ==
    \/ new = complete(loaded)
    \/ \E m \in {1, MaxAttempts} : new = fail(loaded, m)
    \/ \E d \in (Delays \ {0}) : new = defer(loaded, d)

\* The outcome of an execution is a row.
LEMMA OutcomeType ==
    ASSUME now \in Nat, NEW loaded \in ScanJob, NEW new, outcome(loaded, new)
    PROVE  new \in ScanJob
<1>1. 1 \in Nat /\ MaxAttempts \in Nat /\ Delays \subseteq Int
  BY SettingsAssumption DEF Delays
<1> QED
  BY <1>1, RowTypes DEF outcome

\* defer_delay is never zero and is one of the configured delays.
LEMMA DeferDelay ==
    ASSUME NEW retry_after \in RetryAfters \cup {NULL}
    PROVE  defer_delay(retry_after) \in Delays \ {0}
  BY SettingsAssumption DEF defer_delay, Delays, NULL

\* _record_failure ends an execution by fail on the session's job object.
LEMMA FailureEnds ==
    ASSUME TypeOK, NEW w \in Workers, busy(w), NEW permanent \in BOOLEAN, NEW open \in BOOLEAN,
           record_attempt_failure(w, permanent, open)
    PROVE  \E new, img, runs :
              /\ outcome(session_job(w, open), new)
              /\ img \in Image
              /\ runs \in Seq(ScanRun)
              /\ commit(w, flush_job(job_row(w), session_job(w, open), new), img, runs)
<1> DEFINE loaded == session_job(w, open)
           m == IF permanent THEN 1 ELSE MaxAttempts
           new == fail(loaded, m)
           simg == session_image(w, open)
           nimg == record_failure(simg, new.status = "failed")
           img == flush_image(image_row(w), simg, nimg)
<1>1. outcome(loaded, new)
  BY DEF outcome
<1>2. simg \in Image /\ image_row(w) \in Image
  BY ExecutingType DEF session_image
<1>3. (new.status = "failed") \in BOOLEAN /\ now \in Nat
  BY DEF TypeOK
<1>4. nimg \in Image
  BY <1>2, <1>3, ImageTypes
<1>5. img \in Image
  BY <1>2, <1>4, FlushImageType
<1>6. run_of(w, "failed") \in Seq(ScanRun)
  BY RunType DEF RunStatus
<1>7. commit(w, flush_job(job_row(w), loaded, new), img, run_of(w, "failed"))
  BY DEF record_attempt_failure
<1> QED
  BY <1>1, <1>5, <1>6, <1>7

\* Every ending is a commit of an outcome, computed either from the row as it
\* is or from the row as it was claimed.
LEMMA EndingIsCommit ==
    ASSUME TypeOK, NEW w \in Workers, ends_execution(w)
    PROVE  /\ busy(w)
           /\ \E loaded \in {job_row(w), worker[w].row} : \E new, img, runs :
                 /\ outcome(loaded, new)
                 /\ img \in Image
                 /\ runs \in Seq(ScanRun)
                 /\ commit(w, flush_job(job_row(w), loaded, new), img, runs)
<1> DEFINE goal == \E loaded \in {job_row(w), worker[w].row} : \E new, img, runs :
                      /\ outcome(loaded, new)
                      /\ img \in Image
                      /\ runs \in Seq(ScanRun)
                      /\ commit(w, flush_job(job_row(w), loaded, new), img, runs)
<1>1. busy(w)
  BY DEF ends_execution, finish_scan, skip_scan, fail_in_transaction,
         fail_outside_transaction, defer_for_backpressure, in_phase
<1>2. now \in Nat
  BY DEF TypeOK
<1>3. worker[w].img \in Image /\ image_row(w) \in Image
  BY <1>1, ExecutingType
<1>4. CASE finish_scan(w)
  <2> DEFINE img == flush_image(image_row(w), worker[w].img, record_success(worker[w].img))
  <2>1. img \in Image
    BY <1>2, <1>3, ImageTypes, FlushImageType
  <2>2. run_of(w, "success") \in Seq(ScanRun)
    BY <1>1, RunType DEF RunStatus
  <2>3. outcome(worker[w].row, complete(worker[w].row))
    BY DEF outcome
  <2>4. commit(w, flush_job(job_row(w), worker[w].row, complete(worker[w].row)),
               img, run_of(w, "success"))
    BY <1>4 DEF finish_scan
  <2> HIDE DEF img
  <2> QED
    BY <1>1, <2>1, <2>2, <2>3, <2>4
<1>5. CASE skip_scan(w)
  <2> DEFINE img == flush_image(image_row(w), worker[w].img, record_skip(worker[w].img))
  <2>1. img \in Image
    BY <1>2, <1>3, ImageTypes, FlushImageType
  <2>2. run_of(w, "skipped") \in Seq(ScanRun)
    BY <1>1, RunType DEF RunStatus
  <2>3. outcome(worker[w].row, complete(worker[w].row))
    BY DEF outcome
  <2>4. commit(w, flush_job(job_row(w), worker[w].row, complete(worker[w].row)),
               img, run_of(w, "skipped"))
    BY <1>5 DEF skip_scan
  <2> HIDE DEF img
  <2> QED
    BY <1>1, <2>1, <2>2, <2>3, <2>4
<1>6. CASE fail_in_transaction(w)
  BY <1>1, <1>6, FailureEnds DEF fail_in_transaction, session_job
<1>7. ASSUME NEW permanent \in BOOLEAN, fail_outside_transaction(w, permanent) PROVE goal
  BY <1>1, <1>7, FailureEnds DEF fail_outside_transaction, session_job
<1>8. ASSUME NEW retry_after \in RetryAfters \cup {NULL}, defer_for_backpressure(w, retry_after)
      PROVE  goal
  <2> DEFINE loaded == session_job(w, worker[w].phase = "probe")
             new == defer(loaded, defer_delay(retry_after))
  <2>1. commit(w, flush_job(job_row(w), loaded, new), image_row(w), <<>>)
    BY <1>8 DEF defer_for_backpressure
  <2>2. outcome(loaded, new)
    BY DeferDelay DEF outcome
  <2>3. loaded \in {job_row(w), worker[w].row}
    BY DEF session_job
  <2>4. <<>> \in Seq(ScanRun)
    OBVIOUS
  <2> HIDE DEF loaded, new
  <2> QED
    BY <1>3, <2>1, <2>2, <2>3, <2>4
<1> QED
  BY <1>1, <1>4, <1>5, <1>6, <1>7, <1>8 DEF ends_execution

\* The steps of the system, the ends of an execution taken together.
LEMMA StepCases ==
    ASSUME Next
    PROVE  \/ \E w \in Workers : \/ claim(w) \/ load_image(w) \/ finish_probe(w)
                                 \/ start_scan(w) \/ ends_execution(w) \/ crash(w)
           \/ tick
           \/ \E i \in Images : \E priority \in {PRIORITY_SCHEDULED, PRIORITY_TIME_SENSITIVE} :
                 request_scan(i, priority)
           \/ \E i \in Images : promote(i)
           \/ advance_clock
  BY Zenon DEF Next, ends_execution

\* The end of an execution keeps the types.
LEMMA EndingType ==
    ASSUME TypeOK, NEW w \in Workers, ends_execution(w)
    PROVE  TypeOK'
<1>1. busy(w) /\ now \in Nat
  BY EndingIsCommit DEF TypeOK
<1>2. PICK loaded \in {job_row(w), worker[w].row} : \E new, img, runs :
              /\ outcome(loaded, new)
              /\ img \in Image
              /\ runs \in Seq(ScanRun)
              /\ commit(w, flush_job(job_row(w), loaded, new), img, runs)
  BY EndingIsCommit
<1>3. PICK new, img, runs :
              /\ outcome(loaded, new)
              /\ img \in Image
              /\ runs \in Seq(ScanRun)
              /\ commit(w, flush_job(job_row(w), loaded, new), img, runs)
  BY <1>2
<1>4. job_row(w) \in ScanJob /\ loaded \in ScanJob
  BY <1>1, ExecutingType
<1>5. new \in ScanJob
  BY <1>1, <1>3, <1>4, OutcomeType
<1>6. flush_job(job_row(w), loaded, new) \in ScanJob
  BY <1>4, <1>5, FlushJobType
<1> QED
  BY <1>1, <1>3, <1>6, CommitType

\* An enqueued job is a row.
LEMMA NewJobType ==
    ASSUME now \in Nat, NEW priority \in {PRIORITY_SCHEDULED, PRIORITY_TIME_SENSITIVE}
    PROVE  new_job(priority) \in ScanJob
<1>1. NULL \in Int /\ now \in Int /\ 0 \in Nat
  BY DEF NULL
<1> QED
  BY <1>1 DEF new_job, ScanJob, JobStatus, JobError

\* A promoted job is a row.
LEMMA PromotedType ==
    ASSUME now \in Nat, NEW row \in ScanJob
    PROVE  promoted(row) \in ScanJob
<1>1. now \in Int
  OBVIOUS
<1> QED
  BY <1>1, Zenon DEF promoted, ScanJob

\* Replacing one job of one image by another row keeps the types.
LEMMA RowUpdateType ==
    ASSUME TypeOK, NEW i \in Images, NEW n \in DOMAIN scan_job[i], NEW row \in ScanJob,
           scan_job' = [scan_job EXCEPT ![i][n] = row]
    PROVE  /\ scan_job' \in [Images -> Seq(ScanJob)]
           /\ \A j \in Images : DOMAIN scan_job'[j] = DOMAIN scan_job[j]
           /\ scan_job'[i][n] = row
<1>1. scan_job[i] \in Seq(ScanJob)
  BY DEF TypeOK
<1>2. /\ [scan_job[i] EXCEPT ![n] = row] \in Seq(ScanJob)
      /\ DOMAIN [scan_job[i] EXCEPT ![n] = row] = DOMAIN scan_job[i]
  BY <1>1, SeqUpdate
<1> QED
  BY <1>1, <1>2 DEF TypeOK

\* A queue after reaping and a queue after enqueueing.
LEMMA ReapedQueue ==
    ASSUME now \in Nat, NEW jobs \in Seq(ScanJob)
    PROVE  /\ reap_expired_leases(jobs) \in Seq(ScanJob)
           /\ Len(reap_expired_leases(jobs)) = Len(jobs)
           /\ DOMAIN reap_expired_leases(jobs) = DOMAIN jobs
           /\ \A n \in DOMAIN jobs :
                 reap_expired_leases(jobs)[n] =
                     IF lease_expired(jobs[n]) THEN reaped(jobs[n]) ELSE jobs[n]
<1> DEFINE next == reap_expired_leases(jobs)
<1>1. /\ DOMAIN next = DOMAIN jobs
      /\ \A n \in DOMAIN jobs :
            next[n] = IF lease_expired(jobs[n]) THEN reaped(jobs[n]) ELSE jobs[n]
      /\ next = [n \in DOMAIN jobs |-> next[n]]
  BY DEF reap_expired_leases
<1>2. \A n \in DOMAIN jobs : next[n] \in ScanJob
  BY <1>1, RowTypes
<1> HIDE DEF next
<1>3. next \in Seq(ScanJob) /\ Len(next) = Len(jobs)
  BY <1>1, <1>2, SeqMap
<1> QED
  BY <1>1, <1>3 DEF next

\* enqueue keeps the type of a queue and all its rows.
LEMMA EnqueuedQueue ==
    ASSUME now \in Nat, NEW jobs \in Seq(ScanJob),
           NEW priority \in {PRIORITY_SCHEDULED, PRIORITY_TIME_SENSITIVE}
    PROVE  /\ enqueue(jobs, priority) \in Seq(ScanJob)
           /\ DOMAIN jobs \subseteq DOMAIN enqueue(jobs, priority)
  BY NewJobType DEF enqueue

\* What a scheduler pass leaves of one image is well typed.
LEMMA TickType ==
    ASSUME TypeOK, NEW i \in Images
    PROVE  /\ jobs_after_tick(i) \in Seq(ScanJob)
           /\ DOMAIN scan_job[i] \subseteq DOMAIN jobs_after_tick(i)
           /\ record_reaped(i, reap_expired_leases(scan_job[i])) \in Image
           /\ scan_run[i] \o reaped_runs(i) \in Seq(ScanRun)
<1> DEFINE jobs == reap_expired_leases(scan_job[i])
<1>1. now \in Nat /\ scan_job[i] \in Seq(ScanJob) /\ image[i] \in Image
      /\ scan_run[i] \in Seq(ScanRun)
  BY DEF TypeOK
<1>2. jobs \in Seq(ScanJob) /\ DOMAIN jobs = DOMAIN scan_job[i]
  BY <1>1, ReapedQueue
<1>3. /\ enqueue(jobs, PRIORITY_SCHEDULED) \in Seq(ScanJob)
      /\ DOMAIN jobs \subseteq DOMAIN enqueue(jobs, PRIORITY_SCHEDULED)
  BY <1>1, <1>2, EnqueuedQueue
<1>4. record_reaped(i, jobs) \in Image
  BY <1>1, ImageTypes DEF record_reaped
<1>5. reaped_runs(i) \in Seq(ScanRun)
  <2>1. CASE reaped_jobs(i) = {}
    BY <2>1 DEF reaped_runs
  <2>2. CASE reaped_jobs(i) # {}
    <3> DEFINE n == CHOOSE n \in reaped_jobs(i) : TRUE
    <3>1. n \in reaped_jobs(i)
      BY <2>2
    <3>2. n \in Nat
      BY <1>1, <3>1 DEF reaped_jobs
    <3> HIDE DEF n
    <3>3. [scan_job_id |-> n, status |-> "failed"] \in ScanRun
      BY <3>2 DEF ScanRun, RunStatus
    <3>4. <<[scan_job_id |-> n, status |-> "failed"]>> \in Seq(ScanRun)
      BY <3>3
    <3> QED
      BY <2>2, <3>4 DEF reaped_runs, n
  <2> QED
    BY <2>1, <2>2
<1> HIDE DEF jobs
<1>6. scan_run[i] \o reaped_runs(i) \in Seq(ScanRun)
  BY <1>1, <1>5, SeqConcat
<1> QED
  BY <1>2, <1>3, <1>4, <1>6 DEF jobs_after_tick, jobs

\* A worker that starts or changes phase.
LEMMA PhaseType ==
    ASSUME TypeOK, NEW w \in Workers, busy(w),
           load_image(w) \/ finish_probe(w) \/ start_scan(w)
    PROVE  /\ worker'[w] \in Executing
           /\ worker'[w].image = worker[w].image
           /\ worker'[w].job = worker[w].job
           /\ worker'[w].row = worker[w].row
           /\ worker' = [worker EXCEPT ![w] = worker'[w]]
<1>1. /\ worker[w] \in Executing
      /\ image_row(w) \in Image
      /\ now \in Nat
      /\ worker \in [Workers -> Executing \cup {Polling}]
  BY ExecutingType DEF TypeOK
<1>2. /\ now + ResolveBound \in Int
      /\ now + TrivyTimeout + WriteBound \in Int
      /\ has_successful_run(scan_run[worker[w].image]) \in BOOLEAN
  BY <1>1, SettingsAssumption DEF has_successful_run
<1>3. CASE load_image(w)
  <2>1. worker'[w] = [worker[w] EXCEPT !.phase = "probe", !.img = image_row(w)]
    BY <1>1, <1>3 DEF load_image
  <2>2. worker'[w] \in Executing
    BY <1>1, <2>1, Zenon DEF Executing
  <2> QED
    BY <1>1, <1>3, <2>1, <2>2 DEF load_image, Executing
<1>4. CASE finish_probe(w)
  <2> DEFINE b == has_successful_run(scan_run[worker[w].image])
             t == now + ResolveBound
  <2>1. worker'[w] = [worker[w] EXCEPT !.phase = "resolve", !.previous = b, !.deadline = t]
    BY <1>1, <1>4 DEF finish_probe
  <2> HIDE DEF b, t
  <2>2. worker'[w] \in Executing
    BY <1>1, <1>2, <2>1, Zenon DEF Executing, b, t
  <2> QED
    BY <1>1, <1>4, <2>1, <2>2 DEF finish_probe, Executing
<1>5. CASE start_scan(w)
  <2> DEFINE t == now + TrivyTimeout + WriteBound
  <2>1. worker'[w] = [worker[w] EXCEPT !.phase = "scan", !.deadline = t]
    BY <1>1, <1>5 DEF start_scan
  <2> HIDE DEF t
  <2>2. worker'[w] \in Executing
    BY <1>1, <1>2, <2>1, Zenon DEF Executing, t
  <2> QED
    BY <1>1, <1>5, <2>1, <2>2 DEF start_scan, Executing
<1> QED
  BY <1>3, <1>4, <1>5

\* A claim keeps the types.
LEMMA ClaimType ==
    ASSUME TypeOK, NEW w \in Workers, claim(w)
    PROVE  TypeOK'
<1>1. PICK i \in Images : \E n \in DOMAIN scan_job[i] :
        /\ scan_job' = [scan_job EXCEPT ![i][n] = claimed(@)]
        /\ worker' = [worker EXCEPT ![w] =
              [phase |-> "load", image |-> i, job |-> n,
               row |-> claimed(scan_job[i][n]), img |-> no_image,
               previous |-> FALSE, deadline |-> now + ProbeBound]]
  BY DEF claim
<1>2. PICK n \in DOMAIN scan_job[i] :
        /\ scan_job' = [scan_job EXCEPT ![i][n] = claimed(@)]
        /\ worker' = [worker EXCEPT ![w] =
              [phase |-> "load", image |-> i, job |-> n,
               row |-> claimed(scan_job[i][n]), img |-> no_image,
               previous |-> FALSE, deadline |-> now + ProbeBound]]
  BY <1>1
<1>3. now \in Nat /\ scan_job[i] \in Seq(ScanJob) /\ scan_job[i][n] \in ScanJob /\ n \in Nat
  BY DEF TypeOK
<1>4. claimed(scan_job[i][n]) \in ScanJob
  BY <1>3, RowTypes
<1>5. scan_job' = [scan_job EXCEPT ![i][n] = claimed(scan_job[i][n])]
  BY <1>2 DEF TypeOK
<1>6. /\ scan_job' \in [Images -> Seq(ScanJob)]
      /\ \A j \in Images : DOMAIN scan_job'[j] = DOMAIN scan_job[j]
  BY <1>4, <1>5, RowUpdateType
<1>7. now + ProbeBound \in Int /\ no_image \in Image
  BY <1>3, SettingsAssumption DEF no_image, Image, NULL
<1> DEFINE r == [phase |-> "load", image |-> i, job |-> n,
                 row |-> claimed(scan_job[i][n]), img |-> no_image,
                 previous |-> FALSE, deadline |-> now + ProbeBound]
<1>8. r \in Executing /\ r.image = i /\ r.job = n
  BY <1>3, <1>4, <1>7 DEF Executing
<1>9. worker' = [worker EXCEPT ![w] = r]
  BY <1>2
<1> HIDE DEF r
<1>10. worker' \in [Workers -> Executing \cup {Polling}]
  BY <1>8, <1>9 DEF TypeOK
<1>11. \A v \in Workers :
          worker'[v] # Polling => worker'[v].job \in DOMAIN scan_job'[worker'[v].image]
  <2> SUFFICES ASSUME NEW v \in Workers, worker'[v] # Polling
               PROVE  worker'[v].job \in DOMAIN scan_job'[worker'[v].image]
    OBVIOUS
  <2>1. CASE v = w
    BY <1>6, <1>8, <1>9, <2>1 DEF TypeOK
  <2>2. CASE v # w
    <3>1. worker'[v] = worker[v] /\ busy(v)
      BY <1>9, <2>2 DEF TypeOK, busy
    <3> QED
      BY <1>6, <3>1, ExecutingType
  <2> QED
    BY <2>1, <2>2
<1> QED
  BY <1>6, <1>10, <1>11 DEF TypeOK, claim

\* Every step keeps the types.
LEMMA TypeStep ==
    ASSUME TypeOK, [Next]_vars
    PROVE  TypeOK'
<1>1. CASE UNCHANGED vars
  BY <1>1 DEF vars, TypeOK
<1>2. ASSUME NEW w \in Workers, claim(w) PROVE TypeOK'
  BY <1>2, ClaimType
<1>3. ASSUME NEW w \in Workers, load_image(w) \/ finish_probe(w) \/ start_scan(w)
      PROVE  TypeOK'
  <2>1. busy(w) /\ UNCHANGED <<scan_job, image, scan_run, now>>
    BY <1>3 DEF load_image, finish_probe, start_scan, in_phase
  <2>2. /\ worker'[w] \in Executing
        /\ worker'[w].image = worker[w].image
        /\ worker'[w].job = worker[w].job
        /\ worker' = [worker EXCEPT ![w] = worker'[w]]
    BY <1>3, <2>1, PhaseType
  <2>3. worker[w].job \in DOMAIN scan_job[worker[w].image]
    BY <2>1, ExecutingType
  <2> QED
    BY <2>1, <2>2, <2>3 DEF TypeOK
<1>4. ASSUME NEW w \in Workers, ends_execution(w) PROVE TypeOK'
  BY <1>4, EndingType
<1>5. ASSUME NEW w \in Workers, crash(w) PROVE TypeOK'
  BY <1>5 DEF crash, TypeOK
<1>6. CASE tick
  <2>1. /\ scan_job' \in [Images -> Seq(ScanJob)]
        /\ \A i \in Images : DOMAIN scan_job[i] \subseteq DOMAIN scan_job'[i]
        /\ image' \in [Images -> Image]
        /\ scan_run' \in [Images -> Seq(ScanRun)]
    BY <1>6, TickType DEF tick
  <2>2. worker' = worker /\ now' = now
    BY <1>6 DEF tick
  <2>3. \A w \in Workers :
           worker[w] # Polling => worker[w].job \in DOMAIN scan_job'[worker[w].image]
    BY <2>1, ExecutingType DEF busy
  <2> QED
    BY <2>1, <2>2, <2>3 DEF TypeOK
<1>7. ASSUME NEW i \in Images, NEW priority \in {PRIORITY_SCHEDULED, PRIORITY_TIME_SENSITIVE},
             request_scan(i, priority)
      PROVE  TypeOK'
  <2>1. /\ scan_job' = [scan_job EXCEPT ![i] = enqueue(scan_job[i], priority)]
        /\ UNCHANGED <<image, scan_run, worker, now>>
    BY <1>7 DEF request_scan, TypeOK
  <2>2. now \in Nat /\ scan_job[i] \in Seq(ScanJob)
    BY DEF TypeOK
  <2>3. /\ enqueue(scan_job[i], priority) \in Seq(ScanJob)
        /\ DOMAIN scan_job[i] \subseteq DOMAIN enqueue(scan_job[i], priority)
    BY <2>2, EnqueuedQueue
  <2>4. /\ scan_job' \in [Images -> Seq(ScanJob)]
        /\ \A j \in Images : DOMAIN scan_job[j] \subseteq DOMAIN scan_job'[j]
    BY <2>1, <2>3 DEF TypeOK
  <2>5. \A w \in Workers :
           worker[w] # Polling => worker[w].job \in DOMAIN scan_job'[worker[w].image]
    BY <2>4, ExecutingType DEF busy
  <2> QED
    BY <2>1, <2>4, <2>5 DEF TypeOK
<1>8. ASSUME NEW i \in Images, promote(i) PROVE TypeOK'
  <2>1. PICK n \in DOMAIN scan_job[i] : scan_job' = [scan_job EXCEPT ![i][n] = promoted(@)]
    BY <1>8 DEF promote
  <2>2. now \in Nat /\ scan_job[i][n] \in ScanJob
    BY DEF TypeOK
  <2>3. promoted(scan_job[i][n]) \in ScanJob
    BY <2>2, PromotedType
  <2>4. scan_job' = [scan_job EXCEPT ![i][n] = promoted(scan_job[i][n])]
    BY <2>1 DEF TypeOK
  <2>5. /\ scan_job' \in [Images -> Seq(ScanJob)]
        /\ \A j \in Images : DOMAIN scan_job'[j] = DOMAIN scan_job[j]
    BY <2>3, <2>4, RowUpdateType
  <2>6. \A w \in Workers :
           worker[w] # Polling => worker[w].job \in DOMAIN scan_job'[worker[w].image]
    BY <2>5, ExecutingType DEF busy
  <2> QED
    BY <1>8, <2>5, <2>6 DEF TypeOK, promote
<1>9. CASE advance_clock
  <2>1. now' \in 0..MaxTime
    BY <1>9, SettingsAssumption DEF advance_clock, TypeOK
  <2> QED
    BY <1>9, <2>1 DEF advance_clock, TypeOK
<1> QED
  BY <1>1, <1>2, <1>3, <1>4, <1>5, <1>6, <1>7, <1>8, <1>9, StepCases

\* Every reachable state of the queue is well typed, whatever the settings are
\* and however long the executions take; in particular a worker's job always
\* exists, since rows are never deleted.
THEOREM TypeCorrect == Spec => []TypeOK
<1>1. Init => TypeOK
  BY SettingsAssumption DEF Init, TypeOK, no_image, Image, NULL
<1>2. TypeOK /\ [Next]_vars => TypeOK'
  BY TypeStep
<1> QED
  BY <1>1, <1>2, PTL DEF Spec

-----------------------------------------------------------------------------
(* The queue is never wedged and never holds two active jobs of an image.  *)
(* Both hold without LeaseBudget: also when workers outlive their leases.  *)

\* ActiveJobComesBack is not inductive: a late worker may set a final job back
\* to pending, so the scheduled_for of every row matters, not only that of the
\* pending ones; and its write clears the lease only if the object it loaded
\* had one.
comes_back(row) ==
    /\ \E d \in Delays : row.scheduled_for <= now + d
    /\ row.status = "running" => /\ row.lease_until # NULL
                                 /\ row.lease_until <= now + LeaseSeconds

QueueInv ==
    /\ TypeOK
    /\ OneActiveJob
    /\ \A i \in Images : \A n \in DOMAIN scan_job[i] : comes_back(scan_job[i][n])
    /\ \A w \in Workers : busy(w) => /\ worker[w].row.status = "running"
                                     /\ worker[w].row.lease_until # NULL

\* How an outcome leaves status, schedule and lease.
LEMMA OutcomeFields ==
    ASSUME now \in Nat, NEW loaded \in ScanJob, NEW new, outcome(loaded, new)
    PROVE  /\ new.status \in {"done", "failed", "pending"}
           /\ \/ new.scheduled_for = loaded.scheduled_for
              \/ \E d \in Delays : new.scheduled_for <= now + d
           /\ new.lease_until = NULL
<1>1. CASE new = complete(loaded)
  BY <1>1 DEF complete, ScanJob
<1>2. ASSUME NEW m \in {1, MaxAttempts}, new = fail(loaded, m)
      PROVE  /\ new.status \in {"done", "failed", "pending"}
             /\ \/ new.scheduled_for = loaded.scheduled_for
                \/ \E d \in Delays : new.scheduled_for <= now + d
             /\ new.lease_until = NULL
  <2> DEFINE a == loaded.attempts + 1
  <2>1. a \in Nat /\ a # 0
    BY DEF ScanJob
  <2>2. backoff(a) \in Int /\ backoff(a) <= BackoffMax
    BY <2>1, BackoffType
  <2>3. BackoffMax \in Delays /\ now + backoff(a) <= now + BackoffMax
    BY <2>2, SettingsAssumption DEF Delays
  <2>4. CASE a >= m
    BY <1>2, <2>4 DEF fail, ScanJob
  <2>5. CASE ~(a >= m)
    <3>1. /\ new.status = "pending"
          /\ new.scheduled_for = now + backoff(a)
          /\ new.lease_until = NULL
      BY <1>2, <2>5 DEF fail, ScanJob
    <3> QED
      BY <2>3, <3>1
  <2> QED
    BY <2>4, <2>5
<1>3. ASSUME NEW d \in (Delays \ {0}), new = defer(loaded, d)
      PROVE  /\ new.status = "pending"
             /\ new.scheduled_for <= now + d
             /\ new.lease_until = NULL
  <2>1. d \in Int
    BY SettingsAssumption DEF Delays
  <2> QED
    BY <1>3, <2>1 DEF defer, ScanJob
<1> QED
  BY <1>1, <1>2, <1>3 DEF outcome

\* What a worker writes at the end of an execution, even from a stale object,
\* leaves a row that is not wedged.
LEMMA OutcomeComesBack ==
    ASSUME now \in Nat, NEW db \in ScanJob, NEW loaded \in ScanJob, NEW new,
           outcome(loaded, new), comes_back(db),
           loaded = db \/ loaded.status = "running"
    PROVE  comes_back(flush_job(db, loaded, new))
<1> DEFINE row == flush_job(db, loaded, new)
<1>1. new \in ScanJob
  BY OutcomeType
<1>2. /\ new.status \in {"done", "failed", "pending"}
      /\ \/ new.scheduled_for = loaded.scheduled_for
         \/ \E d \in Delays : new.scheduled_for <= now + d
  BY OutcomeFields
<1>3. /\ row.status = changed(db.status, loaded.status, new.status)
      /\ row.scheduled_for = changed(db.scheduled_for, loaded.scheduled_for, new.scheduled_for)
  BY DEF flush_job
<1> HIDE DEF row
<1>4. row.status # "running"
  BY <1>2, <1>3 DEF changed
<1>5. \E d \in Delays : row.scheduled_for <= now + d
  BY <1>2, <1>3 DEF changed, comes_back
<1> QED
  BY <1>4, <1>5 DEF comes_back, row

\* A queue in which no row becomes active keeps the unique index.
LEMMA UniqueKept ==
    ASSUME NEW jobs, NEW next, DOMAIN next = DOMAIN jobs, uq_scan_job_active(jobs),
           \A n \in DOMAIN jobs : next[n].status \in Active => jobs[n].status \in Active
    PROVE  uq_scan_job_active(next)
  BY DEF uq_scan_job_active

\* enqueue respects the unique index and adds at most one new job.
LEMMA EnqueueFacts ==
    ASSUME now \in Nat, NEW jobs \in Seq(ScanJob),
           NEW priority \in {PRIORITY_SCHEDULED, PRIORITY_TIME_SENSITIVE},
           uq_scan_job_active(jobs)
    PROVE  /\ uq_scan_job_active(enqueue(jobs, priority))
           /\ \A n \in DOMAIN enqueue(jobs, priority) :
                 \/ n \in DOMAIN jobs /\ enqueue(jobs, priority)[n] = jobs[n]
                 \/ enqueue(jobs, priority)[n] = new_job(priority)
<1>1. CASE has_active_job(jobs) \/ Len(jobs) >= MaxJobs
  BY <1>1 DEF enqueue
<1>2. CASE ~(has_active_job(jobs) \/ Len(jobs) >= MaxJobs)
  <2> DEFINE next == Append(jobs, new_job(priority))
  <2>1. enqueue(jobs, priority) = next
    BY <1>2 DEF enqueue
  <2>2. \A n \in DOMAIN next : \/ n \in DOMAIN jobs /\ next[n] = jobs[n]
                               \/ n = Len(jobs) + 1 /\ next[n] = new_job(priority)
    OBVIOUS
  <2>3. \A n \in DOMAIN jobs : jobs[n].status \notin Active
    BY <1>2 DEF has_active_job
  <2> HIDE DEF next
  <2>4. uq_scan_job_active(next)
    BY <2>2, <2>3 DEF uq_scan_job_active
  <2> QED
    BY <2>1, <2>2, <2>4
<1> QED
  BY <1>1, <1>2

\* A new job can be claimed at once.
LEMMA NewJobComesBack ==
    ASSUME now \in Nat, NEW priority
    PROVE  comes_back(new_job(priority))
<1>1. 0 \in Delays /\ now <= now + 0
  BY DEF Delays
<1> QED
  BY <1>1 DEF new_job, comes_back

\* A reaped job is not wedged.
LEMMA ReapedComesBack ==
    ASSUME now \in Nat, NEW row \in ScanJob, comes_back(row)
    PROVE  /\ comes_back(reaped(row))
           /\ reaped(row).status \in {"failed", "pending"}
<1>1. /\ reaped(row).status \in {"failed", "pending"}
      /\ reaped(row).scheduled_for = row.scheduled_for
  BY DEF reaped, ScanJob
<1> QED
  BY <1>1 DEF comes_back

\* One image's queue after a scheduler pass.
LEMMA TickQueue ==
    ASSUME QueueInv, NEW i \in Images
    PROVE  /\ uq_scan_job_active(jobs_after_tick(i))
           /\ \A n \in DOMAIN jobs_after_tick(i) : comes_back(jobs_after_tick(i)[n])
<1> DEFINE jobs == reap_expired_leases(scan_job[i])
           more == enqueue(jobs, PRIORITY_SCHEDULED)
<1>1. /\ now \in Nat
      /\ scan_job[i] \in Seq(ScanJob)
      /\ uq_scan_job_active(scan_job[i])
      /\ \A n \in DOMAIN scan_job[i] : comes_back(scan_job[i][n]) /\ scan_job[i][n] \in ScanJob
  BY DEF QueueInv, TypeOK, OneActiveJob
<1>2. /\ jobs \in Seq(ScanJob)
      /\ DOMAIN jobs = DOMAIN scan_job[i]
      /\ \A n \in DOMAIN scan_job[i] :
            jobs[n] = IF lease_expired(scan_job[i][n]) THEN reaped(scan_job[i][n])
                                                       ELSE scan_job[i][n]
  BY <1>1, ReapedQueue
<1>3. jobs_after_tick(i) = jobs \/ jobs_after_tick(i) = more
  BY DEF jobs_after_tick
<1> HIDE DEF jobs, more
<1>4. \A n \in DOMAIN jobs : comes_back(jobs[n])
  BY <1>1, <1>2, ReapedComesBack
<1>5. uq_scan_job_active(jobs)
  <2>1. \A n \in DOMAIN scan_job[i] :
           jobs[n].status \in Active => scan_job[i][n].status \in Active
    BY <1>2 DEF lease_expired, Active
  <2> QED
    BY <1>1, <1>2, <2>1, UniqueKept
<1>6. /\ uq_scan_job_active(more)
      /\ \A n \in DOMAIN more : \/ n \in DOMAIN jobs /\ more[n] = jobs[n]
                                \/ more[n] = new_job(PRIORITY_SCHEDULED)
  BY <1>1, <1>2, <1>5, EnqueueFacts DEF more
<1>7. \A n \in DOMAIN more : comes_back(more[n])
  BY <1>1, <1>4, <1>6, NewJobComesBack
<1> QED
  BY <1>3, <1>4, <1>5, <1>6, <1>7

\* The part of QueueInv that is about one image's queue.
queue_ok(jobs) == uq_scan_job_active(jobs) /\ \A n \in DOMAIN jobs : comes_back(jobs[n])

\* What a step must keep for QueueInv to hold again, when the clock stands still.
LEMMA QueueInvKept ==
    ASSUME QueueInv, TypeOK', now' = now,
           \A i \in Images : queue_ok(scan_job'[i]),
           \A w \in Workers : worker'[w] # Polling =>
               \/ worker[w] # Polling /\ worker'[w].row = worker[w].row
               \/ worker'[w].row.status = "running" /\ worker'[w].row.lease_until # NULL
    PROVE  QueueInv'
<1>1. OneActiveJob'
  BY DEF OneActiveJob, queue_ok, uq_scan_job_active, Active
<1>2. \A i \in Images : \A n \in DOMAIN scan_job'[i] : comes_back(scan_job[i][n])'
  BY DEF queue_ok, comes_back
<1>3. \A w \in Workers : busy(w)' => /\ worker'[w].row.status = "running"
                                     /\ worker'[w].row.lease_until # NULL
  BY DEF QueueInv, busy
<1> QED
  BY <1>1, <1>2, <1>3 DEF QueueInv

\* Changing one row without making it newly active keeps every queue in order.
LEMMA QueueRowChanged ==
    ASSUME QueueInv, NEW i \in Images, NEW n \in DOMAIN scan_job[i], NEW row \in ScanJob,
           comes_back(row), row.status \in Active => scan_job[i][n].status \in Active,
           scan_job' = [scan_job EXCEPT ![i][n] = row]
    PROVE  \A j \in Images : queue_ok(scan_job'[j])
<1>1. /\ scan_job'[i] = [scan_job[i] EXCEPT ![n] = row]
      /\ \A j \in Images : j # i => scan_job'[j] = scan_job[j]
      /\ scan_job[i] \in Seq(ScanJob)
  BY DEF QueueInv, TypeOK
<1>2. \A j \in Images : queue_ok(scan_job[j])
  BY DEF QueueInv, OneActiveJob, queue_ok
<1>3. /\ DOMAIN scan_job'[i] = DOMAIN scan_job[i]
      /\ \A m \in DOMAIN scan_job[i] :
            scan_job'[i][m] = IF m = n THEN row ELSE scan_job[i][m]
  BY <1>1
<1>4. uq_scan_job_active(scan_job'[i])
  BY <1>2, <1>3, UniqueKept DEF queue_ok
<1>5. queue_ok(scan_job'[i])
  BY <1>2, <1>3, <1>4 DEF queue_ok
<1> QED
  BY <1>1, <1>2, <1>5

\* Every step keeps QueueInv.
LEMMA QueueInvStep ==
    ASSUME QueueInv, [Next]_vars
    PROVE  QueueInv'
<1>1. TypeOK /\ TypeOK' /\ now \in Nat
  BY TypeStep DEF QueueInv, TypeOK
<1>2. \A i \in Images : queue_ok(scan_job[i])
  BY DEF QueueInv, OneActiveJob, queue_ok
<1>3. CASE UNCHANGED vars
  BY <1>1, <1>2, <1>3, QueueInvKept DEF vars
<1>4. ASSUME NEW w \in Workers, claim(w) PROVE QueueInv'
  <2>1. PICK i \in Images : \E n \in DOMAIN scan_job[i] :
          /\ claimable(i, n)
          /\ scan_job' = [scan_job EXCEPT ![i][n] = claimed(@)]
          /\ worker' = [worker EXCEPT ![w] =
                [phase |-> "load", image |-> i, job |-> n,
                 row |-> claimed(scan_job[i][n]), img |-> no_image,
                 previous |-> FALSE, deadline |-> now + ProbeBound]]
    BY <1>4 DEF claim
  <2>2. PICK n \in DOMAIN scan_job[i] :
          /\ claimable(i, n)
          /\ scan_job' = [scan_job EXCEPT ![i][n] = claimed(@)]
          /\ worker' = [worker EXCEPT ![w] =
                [phase |-> "load", image |-> i, job |-> n,
                 row |-> claimed(scan_job[i][n]), img |-> no_image,
                 previous |-> FALSE, deadline |-> now + ProbeBound]]
    BY <2>1
  <2> DEFINE row == claimed(scan_job[i][n])
  <2>3. scan_job[i][n] \in ScanJob /\ row \in ScanJob
    BY <1>1, RowTypes DEF TypeOK
  <2>4. scan_job' = [scan_job EXCEPT ![i][n] = row]
    BY <1>1, <2>2 DEF TypeOK
  <2>5. /\ row.status = "running"
        /\ row.lease_until = now + LeaseSeconds
        /\ row.scheduled_for = scan_job[i][n].scheduled_for
    BY <2>3 DEF claimed, ScanJob
  <2>6. now + LeaseSeconds # NULL /\ now + LeaseSeconds <= now + LeaseSeconds
    BY <1>1, SettingsAssumption DEF NULL
  <2>7. /\ \A v \in Workers : v # w => worker'[v] = worker[v]
        /\ worker'[w].row = row
    BY <1>1, <2>2 DEF TypeOK
  <2> HIDE DEF row
  <2>8. comes_back(row)
    BY <2>5, <2>6 DEF comes_back, QueueInv
  <2>9. scan_job[i][n].status \in Active
    BY <2>2 DEF claimable, Active
  <2>10. \A j \in Images : queue_ok(scan_job'[j])
    BY <2>3, <2>4, <2>8, <2>9, QueueRowChanged
  <2> QED
    BY <1>1, <1>4, <2>5, <2>6, <2>7, <2>10, QueueInvKept DEF claim
<1>5. ASSUME NEW w \in Workers, load_image(w) \/ finish_probe(w) \/ start_scan(w)
      PROVE  QueueInv'
  <2>1. busy(w) /\ UNCHANGED <<scan_job, image, scan_run, now>>
    BY <1>5 DEF load_image, finish_probe, start_scan, in_phase
  <2>2. worker'[w].row = worker[w].row /\ worker' = [worker EXCEPT ![w] = worker'[w]]
    BY <1>1, <1>5, <2>1, PhaseType
  <2>3. \A v \in Workers : worker'[v] # Polling =>
            worker[v] # Polling /\ worker'[v].row = worker[v].row
    BY <1>1, <2>1, <2>2 DEF TypeOK, busy
  <2> QED
    BY <1>1, <1>2, <2>1, <2>3, QueueInvKept
<1>6. ASSUME NEW w \in Workers, ends_execution(w) PROVE QueueInv'
  <2>1. busy(w)
    BY <1>1, <1>6, EndingIsCommit
  <2>2. PICK loaded \in {job_row(w), worker[w].row} : \E new, img, runs :
              /\ outcome(loaded, new)
              /\ commit(w, flush_job(job_row(w), loaded, new), img, runs)
    BY <1>1, <1>6, EndingIsCommit
  <2>3. PICK new, img, runs :
              /\ outcome(loaded, new)
              /\ commit(w, flush_job(job_row(w), loaded, new), img, runs)
    BY <2>2
  <2> DEFINE i == worker[w].image
             n == worker[w].job
             row == flush_job(job_row(w), loaded, new)
             jobs == [scan_job[i] EXCEPT ![n] = row]
  <2>4. /\ i \in Images /\ n \in DOMAIN scan_job[i]
        /\ job_row(w) \in ScanJob /\ loaded \in ScanJob
        /\ scan_job[i] \in Seq(ScanJob)
    BY <1>1, <2>1, ExecutingType DEF TypeOK
  <2>5. comes_back(job_row(w)) /\ (loaded = job_row(w) \/ loaded.status = "running")
    BY <2>1, <2>4 DEF QueueInv, job_row
  <2>6. comes_back(row)
    BY <1>1, <2>3, <2>4, <2>5, OutcomeComesBack
  <2>7. /\ worker' = [worker EXCEPT ![w] = Polling]
        /\ now' = now
        /\ \/ uq_scan_job_active(jobs) /\ scan_job' = [scan_job EXCEPT ![i] = jobs]
           \/ scan_job' = scan_job
    BY <2>3 DEF commit
  <2> HIDE DEF row
  <2>8. \A m \in DOMAIN jobs : comes_back(jobs[m])
    BY <1>2, <2>4, <2>6 DEF queue_ok
  <2> HIDE DEF i, n, jobs
  <2>9. \A j \in Images : queue_ok(scan_job'[j])
    BY <1>1, <1>2, <2>4, <2>7, <2>8 DEF queue_ok, TypeOK
  <2>10. \A v \in Workers : worker'[v] # Polling => worker'[v] = worker[v]
    BY <1>1, <2>7 DEF TypeOK
  <2> QED
    BY <1>1, <2>7, <2>9, <2>10, QueueInvKept
<1>7. ASSUME NEW w \in Workers, crash(w) PROVE QueueInv'
  <2>1. \A v \in Workers : worker'[v] # Polling => worker'[v] = worker[v]
    BY <1>1, <1>7 DEF crash, TypeOK
  <2> QED
    BY <1>1, <1>2, <1>7, <2>1, QueueInvKept DEF crash
<1>8. CASE tick
  <2>1. \A i \in Images : queue_ok(scan_job'[i])
    BY <1>8, TickQueue DEF tick, queue_ok
  <2> QED
    BY <1>1, <1>8, <2>1, QueueInvKept DEF tick
<1>9. ASSUME NEW i \in Images, NEW priority \in {PRIORITY_SCHEDULED, PRIORITY_TIME_SENSITIVE},
             request_scan(i, priority)
      PROVE  QueueInv'
  <2> DEFINE more == enqueue(scan_job[i], priority)
  <2>1. scan_job' = [scan_job EXCEPT ![i] = more]
    BY <1>1, <1>9 DEF request_scan, TypeOK
  <2>2. /\ uq_scan_job_active(more)
        /\ \A n \in DOMAIN more : \/ n \in DOMAIN scan_job[i] /\ more[n] = scan_job[i][n]
                                  \/ more[n] = new_job(priority)
    BY <1>1, <1>2, EnqueueFacts DEF TypeOK, queue_ok
  <2> HIDE DEF more
  <2>3. queue_ok(more)
    BY <1>1, <1>2, <2>2, NewJobComesBack DEF queue_ok
  <2>4. \A j \in Images : queue_ok(scan_job'[j])
    BY <1>1, <1>2, <2>1, <2>3 DEF TypeOK
  <2> QED
    BY <1>1, <1>9, <2>4, QueueInvKept DEF request_scan
<1>10. ASSUME NEW i \in Images, promote(i) PROVE QueueInv'
  <2>1. PICK n \in DOMAIN scan_job[i] :
           /\ scan_job[i][n].status = "pending"
           /\ scan_job' = [scan_job EXCEPT ![i][n] = promoted(@)]
    BY <1>10 DEF promote
  <2> DEFINE row == promoted(scan_job[i][n])
  <2>2. scan_job[i][n] \in ScanJob /\ row \in ScanJob
    BY <1>1, PromotedType DEF TypeOK
  <2>3. scan_job' = [scan_job EXCEPT ![i][n] = row]
    BY <1>1, <2>1 DEF TypeOK
  <2>4. row.status = "pending" /\ row.scheduled_for = now
    BY <2>1, <2>2 DEF promoted, ScanJob
  <2>5. 0 \in Delays /\ now <= now + 0
    BY <1>1 DEF Delays
  <2> HIDE DEF row
  <2>6. comes_back(row)
    BY <2>4, <2>5 DEF comes_back
  <2>7. \A j \in Images : queue_ok(scan_job'[j])
    BY <2>1, <2>2, <2>3, <2>6, QueueRowChanged DEF Active
  <2> QED
    BY <1>1, <1>10, <2>7, QueueInvKept DEF promote
<1>11. CASE advance_clock
  <2>1. UNCHANGED <<scan_job, worker>> /\ now' = now + 1
    BY <1>11 DEF advance_clock
  <2>2. Delays \subseteq Int /\ LeaseSeconds \in Int
    BY SettingsAssumption DEF Delays
  <2>3. ASSUME NEW i \in Images, NEW n \in DOMAIN scan_job[i]
        PROVE  comes_back(scan_job[i][n])'
    <3>1. scan_job[i][n] \in ScanJob /\ comes_back(scan_job[i][n])
      BY <1>1 DEF QueueInv, TypeOK
    <3>2. PICK d \in Delays : scan_job[i][n].scheduled_for <= now + d
      BY <3>1 DEF comes_back
    <3>3. scan_job[i][n].scheduled_for <= (now + 1) + d
      BY <1>1, <2>2, <3>1, <3>2 DEF ScanJob
    <3>4. scan_job[i][n].lease_until <= now + LeaseSeconds =>
              scan_job[i][n].lease_until <= (now + 1) + LeaseSeconds
      BY <1>1, <2>2, <3>1 DEF ScanJob
    <3> QED
      BY <2>1, <3>1, <3>3, <3>4 DEF comes_back
  <2> QED
    BY <1>1, <2>1, <2>3 DEF QueueInv, OneActiveJob, busy, uq_scan_job_active, Active
<1> QED
  BY <1>3, <1>4, <1>5, <1>6, <1>7, <1>8, <1>9, <1>10, <1>11, StepCases

\* QueueInv holds initially.
LEMMA QueueInvInit ==
    ASSUME Init
    PROVE  QueueInv
<1>1. TypeOK
  BY SettingsAssumption DEF Init, TypeOK, no_image, Image, NULL
<1> QED
  BY <1>1 DEF Init, QueueInv, OneActiveJob, uq_scan_job_active, busy

\* No image ever has two active jobs: retries, deferrals and late workers
\* included, for any settings and any execution times.
THEOREM AtMostOneActiveJob == Spec => []OneActiveJob
<1>1. Init => QueueInv
  BY QueueInvInit
<1>2. QueueInv /\ [Next]_vars => QueueInv'
  BY QueueInvStep
<1>3. QueueInv => OneActiveJob
  BY DEF QueueInv
<1> QED
  BY <1>1, <1>2, <1>3, PTL DEF Spec

\* The queue is never wedged: every pending job becomes claimable within one of
\* the configured delays and every running job has a lease that runs out within
\* LeaseSeconds, for any settings and any execution times.
THEOREM NeverWedged == Spec => []ActiveJobComesBack
<1>1. Init => QueueInv
  BY QueueInvInit
<1>2. QueueInv /\ [Next]_vars => QueueInv'
  BY QueueInvStep
<1>3. QueueInv => ActiveJobComesBack
  BY DEF QueueInv, ActiveJobComesBack, comes_back
<1> QED
  BY <1>1, <1>2, <1>3, PTL DEF Spec

=============================================================================
