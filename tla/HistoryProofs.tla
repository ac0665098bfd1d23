--------------------------- MODULE HistoryProofs ---------------------------
(***************************************************************************)
(* What the tables remember, once the lease covers a whole execution: the  *)
(* runs of a job are its attempts and its result, and the columns of the   *)
(* image row are what these runs and jobs add up to.                       *)
(***************************************************************************)
EXTENDS LeaseProofs, FiniteSetTheorems

\* The runs of job n among the runs of its image.
job_runs(runs, n, statuses) ==
    {r \in DOMAIN runs : runs[r].scan_job_id = n /\ runs[r].status \in statuses}

runs_have_jobs(jobs, runs) == \A r \in DOMAIN runs : runs[r].scan_job_id \in DOMAIN jobs

attempts_are_runs(jobs, runs) ==
    \A n \in DOMAIN jobs : jobs[n].attempts = Cardinality(job_runs(runs, n, {"failed"}))

done_has_one_result(jobs, runs) ==
    \A n \in DOMAIN jobs :
        Cardinality(job_runs(runs, n, {"success", "skipped"}))
            = IF jobs[n].status = "done" THEN 1 ELSE 0

streak_counts_jobs(jobs, img) ==
    img.consecutive_failures = Cardinality(failed_since_done(jobs))

image_reflects_last_run(img, runs) ==
    img.last_scan_status = IF runs = <<>> THEN "none" ELSE runs[Len(runs)].status

\* One image's jobs, row and runs agree.
agrees(jobs, img, runs) ==
    /\ runs_have_jobs(jobs, runs)
    /\ attempts_are_runs(jobs, runs)
    /\ done_has_one_result(jobs, runs)
    /\ streak_counts_jobs(jobs, img)
    /\ image_reflects_last_run(img, runs)

\* A worker's Image object, once loaded, is the row: nobody else writes the row
\* of an image whose job the worker owns.
image_loaded(w) == worker[w].phase # "load" => worker[w].img = image_row(w)

HistoryInv ==
    /\ LeaseInv
    /\ \A w \in Workers : busy(w) => image_loaded(w)
    /\ \A i \in Images : agrees(scan_job[i], image[i], scan_run[i])

-----------------------------------------------------------------------------
(* One image's tables.                                                     *)

\* The runs of a job are finitely many.
LEMMA JobRunsFinite ==
    ASSUME NEW runs \in Seq(ScanRun), NEW n, NEW statuses
    PROVE  /\ IsFiniteSet(job_runs(runs, n, statuses))
           /\ Cardinality(job_runs(runs, n, statuses)) \in Nat
<1>1. IsFiniteSet(1..Len(runs))
  BY FS_Interval
<1>2. job_runs(runs, n, statuses) \in SUBSET (1..Len(runs))
  BY DEF job_runs
<1>3. IsFiniteSet(job_runs(runs, n, statuses))
  BY <1>1, <1>2, FS_Subset
<1> QED
  BY <1>3, FS_CardinalityType

\* A new run counts for its own job and status, and for no other.
LEMMA AppendRun ==
    ASSUME NEW runs \in Seq(ScanRun), NEW run \in ScanRun, NEW n, NEW statuses
    PROVE  Cardinality(job_runs(Append(runs, run), n, statuses)) =
              Cardinality(job_runs(runs, n, statuses))
                  + (IF run.scan_job_id = n /\ run.status \in statuses THEN 1 ELSE 0)
<1> DEFINE more == Append(runs, run)
           old == job_runs(runs, n, statuses)
           new == job_runs(more, n, statuses)
           l == Len(runs) + 1
<1>1. /\ DOMAIN more = DOMAIN runs \cup {l}
      /\ \A r \in DOMAIN runs : more[r] = runs[r]
      /\ more[l] = run
      /\ l \notin DOMAIN runs
  OBVIOUS
<1>2. IsFiniteSet(old) /\ Cardinality(old) \in Nat
  BY JobRunsFinite
<1>3. l \notin old
  BY <1>1 DEF job_runs
<1> HIDE DEF more, l
<1>4. CASE run.scan_job_id = n /\ run.status \in statuses
  <2>1. new = old \cup {l}
    BY <1>1, <1>4 DEF job_runs
  <2> HIDE DEF new, old
  <2>2. Cardinality(new) = Cardinality(old) + 1
    BY <1>2, <1>3, <2>1, FS_AddElement
  <2> QED
    BY <1>4, <2>2 DEF new, old, more
<1>5. CASE ~(run.scan_job_id = n /\ run.status \in statuses)
  <2>1. new = old
    BY <1>1, <1>5 DEF job_runs
  <2> QED
    BY <1>2, <1>5, <2>1 DEF more
<1> QED
  BY <1>4, <1>5

\* No job that does not exist has runs.
LEMMA NoRunsYet ==
    ASSUME NEW runs \in Seq(ScanRun), NEW jobs, runs_have_jobs(jobs, runs),
           NEW n, n \notin DOMAIN jobs, NEW statuses
    PROVE  Cardinality(job_runs(runs, n, statuses)) = 0
<1>1. job_runs(runs, n, statuses) = {}
  BY DEF job_runs, runs_have_jobs
<1> QED
  BY <1>1, FS_EmptySet

\* The failed jobs of a queue are finitely many.
LEMMA StreakFinite ==
    ASSUME NEW jobs \in Seq(ScanJob)
    PROVE  /\ IsFiniteSet(failed_since_done(jobs))
           /\ Cardinality(failed_since_done(jobs)) \in Nat
<1>1. IsFiniteSet(1..Len(jobs))
  BY FS_Interval
<1>2. failed_since_done(jobs) \in SUBSET (1..Len(jobs))
  BY DEF failed_since_done
<1>3. IsFiniteSet(failed_since_done(jobs))
  BY <1>1, <1>2, FS_Subset
<1> QED
  BY <1>3, FS_CardinalityType

\* What the end of an execution or its reaping does to job n of an image: it is
\* done and has its result; or an attempt is charged, which is one more failed
\* run; or it waits again and nothing is remembered.
remembers(n, row, img, runs, new, nimg, nruns) ==
    \/ /\ new.status = "done" /\ new.attempts = row.attempts
       /\ nimg.consecutive_failures = 0
       /\ \E status \in {"success", "skipped"} :
             /\ nimg.last_scan_status = status
             /\ nruns = Append(runs, [scan_job_id |-> n, status |-> status])
    \/ /\ new.status \in {"failed", "pending"} /\ new.attempts = row.attempts + 1
       /\ nimg.last_scan_status = "failed"
       /\ nimg.consecutive_failures =
             img.consecutive_failures + (IF new.status = "failed" THEN 1 ELSE 0)
       /\ nruns = Append(runs, [scan_job_id |-> n, status |-> "failed"])
    \/ /\ new.status = "pending" /\ new.attempts = row.attempts
       /\ nimg = img /\ nruns = runs

\* Such a change of the last job, while it is running, keeps the agreement.
LEMMA RememberedAgrees ==
    ASSUME NEW jobs \in Seq(ScanJob), NEW img, NEW runs \in Seq(ScanRun),
           agrees(jobs, img, runs), NEW n \in DOMAIN jobs, n = Len(jobs),
           jobs[n].status = "running", NEW new \in ScanJob, NEW nimg, NEW nruns,
           remembers(n, jobs[n], img, runs, new, nimg, nruns)
    PROVE  agrees([jobs EXCEPT ![n] = new], nimg, nruns)
<1> DEFINE next == [jobs EXCEPT ![n] = new]
           old == failed_since_done(jobs)
<1>1. /\ DOMAIN next = DOMAIN jobs
      /\ next[n] = new
      /\ \A m \in DOMAIN jobs : m # n => next[m] = jobs[m]
      /\ \A m \in DOMAIN jobs : m \in Nat /\ ~(m > n)
      /\ n \in Nat
  OBVIOUS
<1>2. /\ IsFiniteSet(old) /\ Cardinality(old) \in Nat
      /\ n \notin old
  BY StreakFinite DEF failed_since_done
<1>3. \A s \in RunStatus : [scan_job_id |-> n, status |-> s] \in ScanRun
  BY <1>1 DEF ScanRun
<1>4. \A m, ss : Cardinality(job_runs(runs, m, ss)) \in Nat
  BY JobRunsFinite
<1>5. \A m \in DOMAIN jobs : jobs[m].attempts \in Nat
  <2>1. \A m \in DOMAIN jobs : jobs[m] \in ScanJob
    OBVIOUS
  <2> QED
    BY <2>1 DEF ScanJob
<1> HIDE DEF next
<1>6. CASE /\ new.status = "done" /\ new.attempts = jobs[n].attempts
           /\ nimg.consecutive_failures = 0
           /\ \E status \in {"success", "skipped"} :
                 /\ nimg.last_scan_status = status
                 /\ nruns = Append(runs, [scan_job_id |-> n, status |-> status])
  <2>1. PICK status \in {"success", "skipped"} :
                 /\ nimg.last_scan_status = status
                 /\ nruns = Append(runs, [scan_job_id |-> n, status |-> status])
    BY <1>6
  <2> DEFINE run == [scan_job_id |-> n, status |-> status]
  <2>2. run \in ScanRun /\ run.scan_job_id = n /\ run.status = status
    BY <1>3 DEF RunStatus
  <2> HIDE DEF run
  <2>3. /\ \A r \in DOMAIN nruns : nruns[r] = run \/ (r \in DOMAIN runs /\ nruns[r] = runs[r])
        /\ nruns[Len(nruns)] = run /\ nruns # <<>>
    BY <2>1, <2>2 DEF run
  <2>4. runs_have_jobs(next, nruns)
    BY <1>1, <2>2, <2>3 DEF runs_have_jobs, agrees
  <2>5. attempts_are_runs(next, nruns)
    <3>1. \A m \in DOMAIN jobs : Cardinality(job_runs(nruns, m, {"failed"})) =
                                     Cardinality(job_runs(runs, m, {"failed"}))
      BY <1>4, <2>1, <2>2, AppendRun DEF run
    <3> QED
      BY <1>1, <1>6, <3>1 DEF attempts_are_runs, agrees
  <2>6. done_has_one_result(next, nruns)
    <3>1. \A m \in DOMAIN jobs :
             Cardinality(job_runs(nruns, m, {"success", "skipped"})) =
                 Cardinality(job_runs(runs, m, {"success", "skipped"}))
                     + (IF n = m THEN 1 ELSE 0)
      BY <1>4, <2>1, <2>2, AppendRun DEF run
    <3> QED
      BY <1>1, <1>4, <1>6, <3>1 DEF done_has_one_result, agrees
  <2>7. streak_counts_jobs(next, nimg)
    <3>1. failed_since_done(next) = {}
      BY <1>1, <1>6 DEF failed_since_done
    <3> QED
      BY <1>6, <3>1, FS_EmptySet DEF streak_counts_jobs
  <2>8. image_reflects_last_run(nimg, nruns)
    BY <2>1, <2>2, <2>3 DEF image_reflects_last_run
  <2> QED
    BY <2>4, <2>5, <2>6, <2>7, <2>8 DEF agrees, next
<1>7. CASE /\ new.status \in {"failed", "pending"} /\ new.attempts = jobs[n].attempts + 1
           /\ nimg.last_scan_status = "failed"
           /\ nimg.consecutive_failures =
                 img.consecutive_failures + (IF new.status = "failed" THEN 1 ELSE 0)
           /\ nruns = Append(runs, [scan_job_id |-> n, status |-> "failed"])
  <2> DEFINE run == [scan_job_id |-> n, status |-> "failed"]
  <2>2. run \in ScanRun /\ run.scan_job_id = n /\ run.status = "failed"
    BY <1>3 DEF RunStatus
  <2> HIDE DEF run
  <2>3. /\ \A r \in DOMAIN nruns : nruns[r] = run \/ (r \in DOMAIN runs /\ nruns[r] = runs[r])
        /\ nruns[Len(nruns)] = run /\ nruns # <<>>
    BY <1>7, <2>2 DEF run
  <2>4. runs_have_jobs(next, nruns)
    BY <1>1, <2>2, <2>3 DEF runs_have_jobs, agrees
  <2>5. attempts_are_runs(next, nruns)
    <3>1. \A m \in DOMAIN jobs : Cardinality(job_runs(nruns, m, {"failed"})) =
                Cardinality(job_runs(runs, m, {"failed"})) + (IF n = m THEN 1 ELSE 0)
      BY <1>4, <1>7, <2>2, AppendRun DEF run
    <3> QED
      BY <1>1, <1>4, <1>7, <3>1 DEF attempts_are_runs, agrees
  <2>6. done_has_one_result(next, nruns)
    <3>1. \A m \in DOMAIN jobs :
             Cardinality(job_runs(nruns, m, {"success", "skipped"})) =
                 Cardinality(job_runs(runs, m, {"success", "skipped"}))
      BY <1>4, <1>7, <2>2, AppendRun DEF run
    <3> QED
      BY <1>1, <1>4, <1>7, <3>1 DEF done_has_one_result, agrees
  <2>7. streak_counts_jobs(next, nimg)
    <3>1. CASE new.status = "failed"
      <4>1. failed_since_done(next) = old \cup {n}
        BY <1>1, <3>1 DEF failed_since_done
      <4> HIDE DEF old
      <4>2. Cardinality(failed_since_done(next)) = Cardinality(old) + 1
        BY <1>2, <4>1, FS_AddElement
      <4> QED
        BY <1>7, <3>1, <4>2 DEF streak_counts_jobs, agrees, old
    <3>2. CASE new.status = "pending"
      <4>1. failed_since_done(next) = old
        BY <1>1, <3>2 DEF failed_since_done
      <4> QED
        BY <1>2, <1>7, <3>2, <4>1 DEF streak_counts_jobs, agrees
    <3> QED
      BY <1>7, <3>1, <3>2
  <2>8. image_reflects_last_run(nimg, nruns)
    BY <1>7, <2>2, <2>3 DEF image_reflects_last_run
  <2> QED
    BY <2>4, <2>5, <2>6, <2>7, <2>8 DEF agrees, next
<1>8. CASE /\ new.status = "pending" /\ new.attempts = jobs[n].attempts
           /\ nimg = img /\ nruns = runs
  <2>1. failed_since_done(next) = old
    BY <1>1, <1>8 DEF failed_since_done
  <2>2. \A m \in DOMAIN jobs : /\ next[m].attempts = jobs[m].attempts
                               /\ next[m].status = "done" <=> jobs[m].status = "done"
    BY <1>1, <1>8
  <2> QED
    BY <1>1, <1>8, <2>1, <2>2
    DEF agrees, runs_have_jobs, attempts_are_runs, done_has_one_result, streak_counts_jobs,
        next
<1> QED
  BY <1>6, <1>7, <1>8 DEF remembers

\* A new job has no runs, and is not failed: enqueueing keeps the agreement.
LEMMA GrownAgrees ==
    ASSUME NEW jobs \in Seq(ScanJob), NEW img, NEW runs \in Seq(ScanRun),
           agrees(jobs, img, runs), NEW next, grown(jobs, next)
    PROVE  agrees(next, img, runs)
<1>1. PICK priority : next = Append(jobs, new_job(priority))
  BY DEF grown
<1> DEFINE l == Len(jobs) + 1
<1>2. /\ DOMAIN next = DOMAIN jobs \cup {l}
      /\ l \notin DOMAIN jobs
      /\ next[l] = new_job(priority)
      /\ \A n \in DOMAIN jobs : next[n] = jobs[n]
  BY <1>1
<1>3. next[l].status = "pending" /\ next[l].attempts = 0
  BY <1>2 DEF new_job
<1>4. \A statuses : Cardinality(job_runs(runs, l, statuses)) = 0
  BY <1>2, NoRunsYet DEF agrees
<1> HIDE DEF l
<1>5. failed_since_done(next) = failed_since_done(jobs)
  BY <1>2, <1>3 DEF failed_since_done
<1>6. runs_have_jobs(next, runs)
  BY <1>2 DEF agrees, runs_have_jobs
<1>7. attempts_are_runs(next, runs)
  BY <1>2, <1>3, <1>4 DEF agrees, attempts_are_runs
<1>8. done_has_one_result(next, runs)
  BY <1>2, <1>3, <1>4 DEF agrees, done_has_one_result
<1> QED
  BY <1>5, <1>6, <1>7, <1>8 DEF agrees, streak_counts_jobs

\* Priorities, delays and claims do not matter to the agreement.
LEMMA UnendedAgrees ==
    ASSUME NEW jobs \in Seq(ScanJob), NEW img, NEW runs, agrees(jobs, img, runs),
           NEW n \in DOMAIN jobs, NEW row, jobs[n].status \in Active, row.status \in Active,
           row.attempts = jobs[n].attempts
    PROVE  agrees([jobs EXCEPT ![n] = row], img, runs)
<1> DEFINE next == [jobs EXCEPT ![n] = row]
<1>1. /\ DOMAIN next = DOMAIN jobs
      /\ next[n] = row
      /\ \A m \in DOMAIN jobs : m # n => next[m] = jobs[m]
  OBVIOUS
<1> HIDE DEF next
<1>2. \A m \in DOMAIN jobs : /\ next[m].attempts = jobs[m].attempts
                             /\ next[m].status = "done" <=> jobs[m].status = "done"
                             /\ next[m].status = "failed" <=> jobs[m].status = "failed"
  BY <1>1 DEF Active
<1>3. failed_since_done(next) = failed_since_done(jobs)
  BY <1>1, <1>2 DEF failed_since_done
<1> QED
  BY <1>1, <1>2, <1>3
  DEF agrees, runs_have_jobs, attempts_are_runs, done_has_one_result, streak_counts_jobs, next

-----------------------------------------------------------------------------
(* The end of an execution.                                                *)

\* With its object up to date, a worker writes exactly what it computed.
LEMMA FlushImageFresh ==
    ASSUME NEW img \in Image, NEW new \in Image
    PROVE  flush_image(img, img, new) = new
  BY DEF flush_image, changed, Image

\* What a transaction that ends an execution leaves in the tables: nothing at
\* all, or a job, an image and runs that belong together.
ended(w) ==
    \/ UNCHANGED <<scan_job, image, scan_run>>
    \/ \E new \in ScanJob : \E img, runs :
          /\ remembers(worker[w].job, job_row(w), image_row(w), scan_run[worker[w].image],
                       new, img, runs)
          /\ scan_job' = [scan_job EXCEPT ![worker[w].image] =
                             [scan_job[worker[w].image] EXCEPT ![worker[w].job] = new]]
          /\ image' = [image EXCEPT ![worker[w].image] = img]
          /\ scan_run' = [scan_run EXCEPT ![worker[w].image] = runs]

\* commit writes all of it or nothing.
LEMMA CommitEnds ==
    ASSUME TypeOK, NEW w \in Workers, busy(w), NEW new \in ScanJob, NEW img, NEW runs,
           commit(w, new, img, runs),
           remembers(worker[w].job, job_row(w), image_row(w), scan_run[worker[w].image],
                     new, img, scan_run[worker[w].image] \o runs)
    PROVE  ended(w)
<1>1. CASE UNCHANGED <<scan_job, image, scan_run>>
  BY <1>1 DEF ended
<1>2. CASE /\ scan_job' = [scan_job EXCEPT ![worker[w].image] =
                             [scan_job[worker[w].image] EXCEPT ![worker[w].job] = new]]
           /\ image' = [image EXCEPT ![worker[w].image] = img]
           /\ scan_run' = [scan_run EXCEPT ![worker[w].image] = @ \o runs]
  <2>1. scan_run' = [scan_run EXCEPT ![worker[w].image] = scan_run[worker[w].image] \o runs]
    BY <1>2
  <2> QED
    BY <1>2, <2>1 DEF ended
<1> QED
  BY <1>1, <1>2 DEF commit

\* One run is appended.
LEMMA OneRun ==
    ASSUME TypeOK, NEW w \in Workers, busy(w), NEW status \in RunStatus
    PROVE  scan_run[worker[w].image] \o run_of(w, status) =
               Append(scan_run[worker[w].image],
                      [scan_job_id |-> worker[w].job, status |-> status])
<1> DEFINE run == [scan_job_id |-> worker[w].job, status |-> status]
<1>1. worker[w].image \in Images /\ worker[w].job \in Nat
  BY ExecutingType DEF Executing
<1>2. run \in ScanRun /\ scan_run[worker[w].image] \in Seq(ScanRun)
  BY <1>1 DEF ScanRun, TypeOK
<1> HIDE DEF run
<1>3. \A s \in Seq(ScanRun) : s \o <<run>> = Append(s, run)
  BY <1>2
<1> QED
  BY <1>2, <1>3 DEF run, run_of

\* _record_failure charges one attempt, on the job's row, on the image's streak
\* if it was the last one, and in the runs.
LEMMA FailureRemembered ==
    ASSUME TypeOK, NEW w \in Workers, busy(w), NEW permanent \in BOOLEAN, NEW open \in BOOLEAN,
           session_job(w, open) = job_row(w), session_image(w, open) = image_row(w),
           record_attempt_failure(w, permanent, open)
    PROVE  ended(w)
<1> DEFINE row == job_row(w)
           m == IF permanent THEN 1 ELSE MaxAttempts
           new == fail(row, m)
           img == image_row(w)
           nimg == record_failure(img, new.status = "failed")
<1>1. row \in ScanJob /\ img \in Image /\ now \in Nat
  BY ExecutingType DEF TypeOK
<1>2. outcome(row, new)
  BY DEF outcome
<1>3. new \in ScanJob
  BY <1>1, <1>2, OutcomeType
<1>4. nimg \in Image
  BY <1>1, ImageTypes
<1>5. new.attempts = row.attempts + 1 /\ new.status \in {"failed", "pending"}
  BY <1>1 DEF fail, ScanJob
<1>6. /\ nimg.last_scan_status = "failed"
      /\ nimg.consecutive_failures =
            img.consecutive_failures + (IF new.status = "failed" THEN 1 ELSE 0)
  BY <1>1 DEF record_failure, Image
<1>7. commit(w, flush_job(row, row, new), flush_image(img, img, nimg), run_of(w, "failed"))
  BY DEF record_attempt_failure
<1>8. flush_job(row, row, new) = new /\ flush_image(img, img, nimg) = nimg
  BY <1>1, <1>3, <1>4, FlushFresh, FlushImageFresh
<1>9. scan_run[worker[w].image] \o run_of(w, "failed") =
          Append(scan_run[worker[w].image], [scan_job_id |-> worker[w].job, status |-> "failed"])
  BY OneRun DEF RunStatus
<1> HIDE DEF new, nimg
<1>10. remembers(worker[w].job, row, img, scan_run[worker[w].image],
                 new, nimg, scan_run[worker[w].image] \o run_of(w, "failed"))
  BY <1>5, <1>6, <1>9 DEF remembers
<1> QED
  BY <1>3, <1>7, <1>8, <1>10, CommitEnds

\* Every end of an execution leaves what belongs together.
LEMMA EndingRemembers ==
    ASSUME HistoryInv, NEW w \in Workers, ends_execution(w)
    PROVE  ended(w)
<1>1. TypeOK /\ now \in Nat
  BY DEF HistoryInv, LeaseInv, QueueInv, TypeOK
<1>2. busy(w)
  BY <1>1, EndingIsCommit
<1> DEFINE row == job_row(w)
           img == image_row(w)
<1>3. row = worker[w].row /\ row \in ScanJob /\ img \in Image
  BY <1>1, <1>2, ExecutingType DEF HistoryInv, LeaseInv, owns
<1>4. worker[w].phase # "load" => worker[w].img = img
  BY <1>2 DEF HistoryInv, image_loaded
<1>5. complete(row) \in ScanJob /\ complete(row).status = "done"
      /\ complete(row).attempts = row.attempts
  <2>1. complete(row) \in ScanJob
    BY <1>1, <1>3, RowTypes
  <2>2. complete(row).status = "done" /\ complete(row).attempts = row.attempts
    BY <1>3 DEF complete, ScanJob
  <2> QED
    BY <2>1, <2>2
<1>6. ASSUME NEW status \in {"success", "skipped"}, NEW nimg \in Image,
             nimg.consecutive_failures = 0, nimg.last_scan_status = status,
             commit(w, flush_job(row, row, complete(row)), flush_image(img, img, nimg),
                    run_of(w, status))
      PROVE  ended(w)
  <2>1. flush_job(row, row, complete(row)) = complete(row) /\ flush_image(img, img, nimg) = nimg
    BY <1>3, <1>5, <1>6, FlushFresh, FlushImageFresh
  <2>2. scan_run[worker[w].image] \o run_of(w, status) =
          Append(scan_run[worker[w].image], [scan_job_id |-> worker[w].job, status |-> status])
    BY <1>1, <1>2, OneRun DEF RunStatus
  <2>3. remembers(worker[w].job, row, img, scan_run[worker[w].image],
                  complete(row), nimg, scan_run[worker[w].image] \o run_of(w, status))
    BY <1>5, <1>6, <2>2 DEF remembers
  <2> QED
    BY <1>1, <1>2, <1>5, <1>6, <2>1, <2>3, CommitEnds
<1>7. CASE finish_scan(w)
  <2>1. worker[w].img = img
    BY <1>4, <1>7 DEF finish_scan, in_phase
  <2>2. /\ record_success(img) \in Image
        /\ record_success(img).consecutive_failures = 0
        /\ record_success(img).last_scan_status = "success"
    <3>1. record_success(img) \in Image
      BY <1>1, <1>3, ImageTypes
    <3>2. /\ record_success(img).consecutive_failures = 0
          /\ record_success(img).last_scan_status = "success"
      BY <1>3 DEF record_success, Image
    <3> QED
      BY <3>1, <3>2
  <2>3. commit(w, flush_job(row, row, complete(row)),
               flush_image(img, img, record_success(img)), run_of(w, "success"))
    BY <1>3, <1>7, <2>1 DEF finish_scan
  <2> QED
    BY <1>6, <2>2, <2>3
<1>8. CASE skip_scan(w)
  <2>1. worker[w].img = img
    BY <1>4, <1>8 DEF skip_scan, in_phase
  <2>2. /\ record_skip(img) \in Image
        /\ record_skip(img).consecutive_failures = 0
        /\ record_skip(img).last_scan_status = "skipped"
    <3>1. record_skip(img) \in Image
      BY <1>1, <1>3, ImageTypes
    <3>2. /\ record_skip(img).consecutive_failures = 0
          /\ record_skip(img).last_scan_status = "skipped"
      BY <1>3 DEF record_skip, Image
    <3> QED
      BY <3>1, <3>2
  <2>3. commit(w, flush_job(row, row, complete(row)),
               flush_image(img, img, record_skip(img)), run_of(w, "skipped"))
    BY <1>3, <1>8, <2>1 DEF skip_scan
  <2> QED
    BY <1>6, <2>2, <2>3
<1>9. CASE fail_in_transaction(w)
  <2>1. session_job(w, TRUE) = row /\ session_image(w, TRUE) = img
    BY DEF session_job, session_image
  <2>2. record_attempt_failure(w, FALSE, TRUE)
    BY <1>9 DEF fail_in_transaction
  <2> QED
    BY <1>1, <1>2, <2>1, <2>2, FailureRemembered
<1>10. ASSUME NEW permanent \in BOOLEAN, fail_outside_transaction(w, permanent)
       PROVE  ended(w)
  <2>1. session_job(w, FALSE) = row /\ session_image(w, FALSE) = img
    BY <1>3, <1>4, <1>10 DEF session_job, session_image, fail_outside_transaction, in_phase
  <2>2. record_attempt_failure(w, permanent, FALSE)
    BY <1>10 DEF fail_outside_transaction
  <2> QED
    BY <1>1, <1>2, <2>1, <2>2, FailureRemembered
<1>11. ASSUME NEW retry_after \in RetryAfters \cup {NULL}, defer_for_backpressure(w, retry_after)
       PROVE  ended(w)
  <2> DEFINE new == defer(row, defer_delay(retry_after))
  <2>1. outcome(row, new)
    BY DeferDelay DEF outcome
  <2>2. new \in ScanJob
    BY <1>1, <1>3, <2>1, OutcomeType
  <2>3. new.status = "pending" /\ new.attempts = row.attempts
    BY <1>3 DEF defer, ScanJob
  <2>4. session_job(w, worker[w].phase = "probe") = row
    BY <1>3 DEF session_job
  <2>5. commit(w, flush_job(row, row, new), img, <<>>)
    BY <1>11, <2>4 DEF defer_for_backpressure
  <2>6. flush_job(row, row, new) = new
    BY <1>3, <2>2, FlushFresh
  <2>7. scan_run[worker[w].image] \o <<>> = scan_run[worker[w].image]
    <3>1. scan_run[worker[w].image] \in Seq(ScanRun)
      BY <1>1, <1>2, ExecutingType DEF TypeOK
    <3> QED
      BY <3>1
  <2> HIDE DEF new
  <2>8. remembers(worker[w].job, row, img, scan_run[worker[w].image],
                  new, img, scan_run[worker[w].image] \o <<>>)
    BY <2>3, <2>7 DEF remembers
  <2> QED
    BY <1>1, <1>2, <2>2, <2>5, <2>6, <2>8, CommitEnds
<1> QED
  BY <1>7, <1>8, <1>9, <1>10, <1>11 DEF ends_execution

-----------------------------------------------------------------------------
(* The scheduler's pass.                                                   *)

\* A pass charges an expired job one attempt in all three tables, adds at most
\* a new job, and leaves the image rows of living workers alone.
LEMMA TickAgrees ==
    ASSUME HistoryInv, NEW i \in Images
    PROVE  /\ agrees(jobs_after_tick(i), record_reaped(i, reap_expired_leases(scan_job[i])),
                     scan_run[i] \o reaped_runs(i))
           /\ \A w \in Workers : busy(w) /\ worker[w].image = i =>
                 record_reaped(i, reap_expired_leases(scan_job[i])) = image[i]
<1> DEFINE jobs == scan_job[i]
           mid == reap_expired_leases(jobs)
           last == jobs_after_tick(i)
           img == record_reaped(i, mid)
           runs == scan_run[i] \o reaped_runs(i)
<1>1. /\ TypeOK /\ now \in Nat
      /\ jobs \in Seq(ScanJob)
      /\ one_life(jobs)
      /\ image[i] \in Image
      /\ scan_run[i] \in Seq(ScanRun)
      /\ agrees(jobs, image[i], scan_run[i])
  BY DEF HistoryInv, LeaseInv, QueueInv, TypeOK
<1>2. /\ mid \in Seq(ScanJob)
      /\ DOMAIN mid = DOMAIN jobs
      /\ \A n \in DOMAIN jobs :
            mid[n] = IF lease_expired(jobs[n]) THEN reaped(jobs[n]) ELSE jobs[n]
  BY <1>1, ReapedQueue
<1>3. last = mid \/ grown(mid, last)
  <2>1. last = mid \/ last = enqueue(mid, PRIORITY_SCHEDULED)
    BY DEF jobs_after_tick
  <2>2. \/ enqueue(mid, PRIORITY_SCHEDULED) = mid
        \/ /\ ~has_active_job(mid)
           /\ enqueue(mid, PRIORITY_SCHEDULED) = Append(mid, new_job(PRIORITY_SCHEDULED))
    BY DEF enqueue
  <2> HIDE DEF mid, last
  <2> QED
    BY <2>1, <2>2 DEF grown
<1>4. reaped_jobs(i) = {n \in DOMAIN jobs : lease_expired(jobs[n])}
  BY DEF reaped_jobs
<1>5. runs \in Seq(ScanRun) /\ agrees(mid, img, runs)
  <2>1. CASE reaped_jobs(i) = {}
    <3>1. mid = jobs
      <4>1. \A n \in DOMAIN jobs : mid[n] = jobs[n]
        BY <1>2, <1>4, <2>1
      <4> HIDE DEF mid
      <4> QED
        BY <1>1, <1>2, <4>1
    <3>2. img = image[i]
      BY <2>1 DEF record_reaped
    <3>3. runs = scan_run[i]
      BY <1>1, <2>1 DEF reaped_runs
    <3> HIDE DEF mid, img, runs
    <3> QED
      BY <1>1, <3>1, <3>2, <3>3
  <2>2. CASE reaped_jobs(i) # {}
    <3>1. PICK n \in DOMAIN jobs : lease_expired(jobs[n])
      BY <1>4, <2>2
    <3>2. /\ jobs[n].status = "running" /\ jobs[n] \in ScanJob
          /\ reaped(jobs[n]) \in ScanJob
      BY <1>1, <3>1, RowTypes DEF lease_expired
    <3>3. n = Len(jobs) /\ n \in Nat
      BY <1>1, <3>2 DEF one_life, Active
    <3>4. \A m \in DOMAIN jobs : m # n => ~lease_expired(jobs[m])
      BY <1>1, <3>3 DEF one_life, lease_expired, Active
    <3>5. reaped_jobs(i) = {n}
      BY <1>4, <3>1, <3>4
    <3> DEFINE row == reaped(jobs[n])
               run == [scan_job_id |-> n, status |-> "failed"]
    <3>6. mid = [jobs EXCEPT ![n] = row]
      <4> HIDE DEF mid, jobs
      <4> QED
        BY <1>1, <1>2, <3>1, <3>4
    <3>7. /\ row.status \in {"failed", "pending"}
          /\ row.attempts = jobs[n].attempts + 1
      BY <3>2 DEF reaped, ScanJob
    <3>8. img = record_failure(image[i], row.status = "failed")
      <4>1. mid[n] = row
        BY <1>2, <3>1
      <4>2. img = record_failure(image[i], \E m \in {n} : mid[m].status = "failed")
        BY <3>5 DEF record_reaped
      <4>3. (\E m \in {n} : mid[m].status = "failed") <=> row.status = "failed"
        BY <4>1
      <4> HIDE DEF mid, row
      <4> QED
        BY <4>2, <4>3
    <3>9. /\ img.last_scan_status = "failed"
          /\ img.consecutive_failures =
                image[i].consecutive_failures + (IF row.status = "failed" THEN 1 ELSE 0)
      <4> HIDE DEF row
      <4> QED
        BY <1>1, <3>8 DEF record_failure, Image
    <3>10. run \in ScanRun
      BY <3>3 DEF ScanRun, RunStatus
    <3>11. runs = Append(scan_run[i], run)
      <4>1. reaped_runs(i) = <<run>>
        BY <3>5 DEF reaped_runs
      <4> HIDE DEF run
      <4> QED
        BY <1>1, <3>10, <4>1
    <3>12. runs \in Seq(ScanRun)
      <4> HIDE DEF run, runs
      <4> QED
        BY <1>1, <3>10, <3>11
    <3>13. remembers(n, jobs[n], image[i], scan_run[i], row, img, runs)
      <4> HIDE DEF row, img, runs, jobs
      <4> QED
        BY <3>7, <3>9, <3>11 DEF remembers
    <3> HIDE DEF jobs, mid, row, img, runs
    <3> QED
      BY <1>1, <3>2, <3>3, <3>6, <3>12, <3>13, RememberedAgrees DEF row
  <2> QED
    BY <2>1, <2>2
<1>6. agrees(last, img, runs)
  <2> HIDE DEF mid, last, img, runs
  <2> QED
    BY <1>2, <1>3, <1>5, GrownAgrees
<1>7. ASSUME NEW w \in Workers, busy(w), worker[w].image = i PROVE img = image[i]
  <2>1. ~lease_expired(job_row(w)) /\ job_row(w).status = "running"
    BY <1>7, OwnedNotExpired DEF HistoryInv
  <2>2. worker[w].job \in DOMAIN jobs /\ job_row(w) = jobs[worker[w].job]
    BY <1>1, <1>7, ExecutingType DEF job_row
  <2>3. \A n \in DOMAIN jobs : lease_expired(jobs[n]) => n = worker[w].job
    BY <1>1, <2>1, <2>2 DEF one_life, lease_expired, Active
  <2>4. reaped_jobs(i) = {}
    BY <1>4, <2>1, <2>2, <2>3
  <2> QED
    BY <2>4 DEF record_reaped
<1> QED
  BY <1>6, <1>7

-----------------------------------------------------------------------------
(* Every step.                                                             *)

\* Every step keeps one image's jobs, row and runs in agreement.
LEMMA AgreesStep ==
    ASSUME HistoryInv, [Next]_vars, NEW i \in Images
    PROVE  agrees(scan_job'[i], image'[i], scan_run'[i])
<1>1. /\ TypeOK /\ now \in Nat /\ LeaseInv
      /\ scan_job[i] \in Seq(ScanJob)
      /\ scan_run[i] \in Seq(ScanRun)
      /\ one_life(scan_job[i])
      /\ agrees(scan_job[i], image[i], scan_run[i])
  BY DEF HistoryInv, LeaseInv, QueueInv, TypeOK
<1>2. UNCHANGED <<scan_job, image, scan_run>> => agrees(scan_job'[i], image'[i], scan_run'[i])
  BY <1>1
<1>3. ASSUME NEW w \in Workers, claim(w) PROVE agrees(scan_job'[i], image'[i], scan_run'[i])
  <2>1. PICK j \in Images : \E n \in DOMAIN scan_job[j] :
          /\ scan_job[j][n].status = "pending"
          /\ scan_job[j][n] \in ScanJob
          /\ scan_job' = [scan_job EXCEPT ![j] =
                             [scan_job[j] EXCEPT ![n] = claimed(scan_job[j][n])]]
    BY <1>1, <1>3, ClaimFacts
  <2>2. PICK n \in DOMAIN scan_job[j] :
          /\ scan_job[j][n].status = "pending"
          /\ scan_job[j][n] \in ScanJob
          /\ scan_job' = [scan_job EXCEPT ![j] =
                             [scan_job[j] EXCEPT ![n] = claimed(scan_job[j][n])]]
    BY <2>1
  <2>3. image' = image /\ scan_run' = scan_run
    BY <1>3 DEF claim
  <2>4. CASE i # j
    BY <1>1, <2>2, <2>3, <2>4 DEF TypeOK
  <2>5. CASE i = j
    <3>1. scan_job'[i] = [scan_job[i] EXCEPT ![n] = claimed(scan_job[i][n])]
      BY <1>1, <2>2, <2>5 DEF TypeOK
    <3>2. /\ claimed(scan_job[i][n]).status = "running"
          /\ claimed(scan_job[i][n]).attempts = scan_job[i][n].attempts
      BY <2>2, <2>5 DEF claimed, ScanJob
    <3> QED
      BY <1>1, <2>2, <2>3, <2>5, <3>1, <3>2, UnendedAgrees DEF Active
  <2> QED
    BY <2>4, <2>5
<1>4. ASSUME NEW w \in Workers, ends_execution(w)
      PROVE  agrees(scan_job'[i], image'[i], scan_run'[i])
  <2> DEFINE j == worker[w].image
             n == worker[w].job
  <2>1. ended(w)
    BY <1>4, EndingRemembers
  <2>2. busy(w)
    BY <1>1, <1>4, EndingIsCommit
  <2>3. /\ j \in Images /\ n \in DOMAIN scan_job[j]
        /\ job_row(w) = scan_job[j][n] /\ image_row(w) = image[j]
        /\ job_row(w).status = "running"
    BY <1>1, <2>2, ExecutingType, OwnedNotExpired DEF job_row, image_row
  <2>4. ASSUME NEW new \in ScanJob, NEW img, NEW runs,
               remembers(n, job_row(w), image_row(w), scan_run[j], new, img, runs),
               scan_job' = [scan_job EXCEPT ![j] = [scan_job[j] EXCEPT ![n] = new]],
               image' = [image EXCEPT ![j] = img],
               scan_run' = [scan_run EXCEPT ![j] = runs]
        PROVE  agrees(scan_job'[i], image'[i], scan_run'[i])
    <3> HIDE DEF j, n
    <3>1. CASE i # j
      <4>1. scan_job'[i] = scan_job[i] /\ image'[i] = image[i] /\ scan_run'[i] = scan_run[i]
        BY <1>1, <2>3, <2>4, <3>1 DEF TypeOK
      <4> QED
        BY <1>1, <4>1
    <3>2. CASE i = j
      <4>1. /\ scan_job'[i] = [scan_job[i] EXCEPT ![n] = new]
            /\ image'[i] = img /\ scan_run'[i] = runs
        BY <1>1, <2>3, <2>4, <3>2 DEF TypeOK
      <4>2. n = Len(scan_job[i])
        BY <1>1, <2>3, <3>2 DEF one_life, Active
      <4>3. /\ n \in DOMAIN scan_job[i] /\ scan_job[i][n].status = "running"
            /\ remembers(n, scan_job[i][n], image[i], scan_run[i], new, img, runs)
        BY <2>3, <2>4, <3>2
      <4>4. agrees([scan_job[i] EXCEPT ![n] = new], img, runs)
        BY <1>1, <2>4, <4>2, <4>3, RememberedAgrees
      <4> QED
        BY <4>1, <4>4
    <3> QED
      BY <3>1, <3>2
  <2> QED
    BY <1>2, <2>1, <2>4 DEF ended
<1>5. CASE tick
  <2>1. /\ scan_job'[i] = jobs_after_tick(i)
        /\ image'[i] = record_reaped(i, reap_expired_leases(scan_job[i]))
        /\ scan_run'[i] = scan_run[i] \o reaped_runs(i)
    BY <1>5 DEF tick
  <2> QED
    BY <2>1, TickAgrees
<1>6. ASSUME NEW j \in Images, NEW priority \in {PRIORITY_SCHEDULED, PRIORITY_TIME_SENSITIVE},
             request_scan(j, priority)
      PROVE  agrees(scan_job'[i], image'[i], scan_run'[i])
  <2>1. CASE i # j
    BY <1>1, <1>6, <2>1 DEF TypeOK, request_scan
  <2>2. CASE i = j
    <3>1. /\ scan_job'[i] = enqueue(scan_job[i], priority)
          /\ ~has_active_job(scan_job[i])
          /\ Len(scan_job[i]) < MaxJobs
          /\ image' = image /\ scan_run' = scan_run
      BY <1>1, <1>6, <2>2 DEF request_scan, TypeOK
    <3>2. scan_job'[i] = Append(scan_job[i], new_job(priority))
      BY <1>1, <3>1, SettingsAssumption DEF enqueue
    <3>3. grown(scan_job[i], scan_job'[i])
      BY <3>1, <3>2 DEF grown
    <3> QED
      BY <1>1, <3>1, <3>3, GrownAgrees
  <2> QED
    BY <2>1, <2>2
<1>7. ASSUME NEW j \in Images, promote(j)
      PROVE  agrees(scan_job'[i], image'[i], scan_run'[i])
  <2>1. PICK n \in DOMAIN scan_job[j] :
           /\ scan_job[j][n].status = "pending"
           /\ scan_job' = [scan_job EXCEPT ![j][n] = promoted(@)]
    BY <1>7 DEF promote
  <2>2. image' = image /\ scan_run' = scan_run
    BY <1>7 DEF promote
  <2>3. CASE i # j
    BY <1>1, <2>1, <2>2, <2>3 DEF TypeOK
  <2>4. CASE i = j
    <3>1. scan_job[i][n] \in ScanJob
      BY <1>1, <2>1, <2>4
    <3>2. scan_job'[i] = [scan_job[i] EXCEPT ![n] = promoted(scan_job[i][n])]
      BY <1>1, <2>1, <2>4 DEF TypeOK
    <3>3. /\ promoted(scan_job[i][n]).status = scan_job[i][n].status
          /\ promoted(scan_job[i][n]).attempts = scan_job[i][n].attempts
      BY <3>1 DEF promoted, ScanJob
    <3> QED
      BY <1>1, <2>1, <2>2, <2>4, <3>2, <3>3, UnendedAgrees DEF Active
  <2> QED
    BY <2>3, <2>4
<1>8. ASSUME NEW w \in Workers,
             load_image(w) \/ finish_probe(w) \/ start_scan(w) \/ crash(w)
      PROVE  UNCHANGED <<scan_job, image, scan_run>>
  BY <1>8 DEF load_image, finish_probe, start_scan, crash
<1>9. CASE advance_clock
  BY <1>2, <1>9 DEF advance_clock
<1>10. CASE UNCHANGED vars
  BY <1>2, <1>10 DEF vars
<1> QED
  BY <1>2, <1>3, <1>4, <1>5, <1>6, <1>7, <1>8, <1>9, <1>10, StepCases

\* Every step leaves the Image objects of busy workers equal to their rows.
LEMMA LoadedStep ==
    ASSUME HistoryInv, [Next]_vars, NEW w \in Workers, busy(w)'
    PROVE  image_loaded(w)'
<1>1. TypeOK /\ LeaseInv
  BY DEF HistoryInv, LeaseInv, QueueInv
<1>2. busy(w) => image_loaded(w) /\ worker[w].image \in Images
  BY <1>1, ExecutingType DEF HistoryInv
<1>3. ASSUME worker'[w] = worker[w], image'[worker[w].image] = image[worker[w].image]
      PROVE  image_loaded(w)'
  BY <1>2, <1>3 DEF busy, image_loaded, image_row
<1>4. ASSUME NEW v \in Workers, claim(v) PROVE image_loaded(w)'
  <2>1. image' = image
    BY <1>4 DEF claim
  <2>2. CASE v = w
    <3>1. worker'[w].phase = "load"
      BY <1>1, <1>4, <2>2 DEF claim, TypeOK
    <3> QED
      BY <3>1 DEF image_loaded
  <2>3. CASE v # w
    <3>1. worker'[w] = worker[w]
      BY <1>1, <1>4, <2>3 DEF claim, TypeOK
    <3> QED
      BY <1>3, <2>1, <3>1
  <2> QED
    BY <2>2, <2>3
<1>5. ASSUME NEW v \in Workers, load_image(v) \/ finish_probe(v) \/ start_scan(v)
      PROVE  image_loaded(w)'
  <2>1. busy(v) /\ image' = image
    BY <1>5 DEF load_image, finish_probe, start_scan, in_phase
  <2>2. CASE v # w
    <3>1. worker'[w] = worker[w]
      BY <1>1, <1>5, <2>2 DEF load_image, finish_probe, start_scan, TypeOK
    <3> QED
      BY <1>3, <2>1, <3>1
  <2>3. CASE v = w
    <3>1. worker[w] \in Executing
      BY <1>1, <2>1, <2>3, ExecutingType
    <3>2. worker'[w].image = worker[w].image
      BY <1>1, <1>5, <2>1, <2>3, PhaseType
    <3>3. CASE load_image(w)
      <4>1. worker'[w].img = image_row(w)
        BY <1>1, <3>1, <3>3 DEF load_image, TypeOK, Executing
      <4> QED
        BY <2>1, <3>2, <4>1 DEF image_loaded, image_row
    <3>4. CASE finish_probe(w) \/ start_scan(w)
      <4>1. worker'[w].img = worker[w].img /\ worker[w].phase # "load"
        <5>1. CASE finish_probe(w)
          BY <1>1, <3>1, <5>1 DEF finish_probe, in_phase, TypeOK, Executing
        <5>2. CASE start_scan(w)
          BY <1>1, <3>1, <5>2 DEF start_scan, in_phase, TypeOK, Executing
        <5> QED
          BY <3>4, <5>1, <5>2
      <4> QED
        BY <1>2, <2>1, <2>3, <3>2, <4>1 DEF image_loaded, image_row
    <3> QED
      BY <1>5, <2>3, <3>3, <3>4
  <2> QED
    BY <2>2, <2>3
<1>6. ASSUME NEW v \in Workers, ends_execution(v) PROVE image_loaded(w)'
  <2>1. busy(v) /\ worker' = [worker EXCEPT ![v] = Polling]
    BY <1>1, <1>6, EndingFacts
  <2>2. v # w /\ worker'[w] = worker[w] /\ busy(w)
    BY <1>1, <2>1 DEF TypeOK, busy
  <2>3. worker[v].image # worker[w].image
    BY <1>1, <2>1, <2>2 DEF LeaseInv, NoDuplicateScan
  <2>4. image' = image \/ \E img : image' = [image EXCEPT ![worker[v].image] = img]
    BY <1>6, EndingRemembers DEF ended
  <2>5. image'[worker[w].image] = image[worker[w].image]
    BY <1>1, <1>2, <2>2, <2>3, <2>4 DEF TypeOK
  <2> QED
    BY <1>3, <2>2, <2>5
<1>7. ASSUME NEW v \in Workers, crash(v) PROVE image_loaded(w)'
  <2>1. worker'[w] = worker[w] /\ image' = image
    BY <1>1, <1>7 DEF crash, TypeOK, busy
  <2> QED
    BY <1>3, <2>1
<1>8. CASE tick
  <2>1. worker' = worker /\ busy(w)
    BY <1>8 DEF tick, busy
  <2>2. image'[worker[w].image] = image[worker[w].image]
    BY <1>2, <1>8, <2>1, TickAgrees DEF tick
  <2> QED
    BY <1>3, <2>1, <2>2
<1>9. ASSUME NEW i \in Images, NEW priority \in {PRIORITY_SCHEDULED, PRIORITY_TIME_SENSITIVE},
             request_scan(i, priority)
      PROVE  image_loaded(w)'
  BY <1>3, <1>9 DEF request_scan
<1>10. ASSUME NEW i \in Images, promote(i) PROVE image_loaded(w)'
  BY <1>3, <1>10 DEF promote
<1>11. CASE advance_clock
  BY <1>3, <1>11 DEF advance_clock
<1>12. CASE UNCHANGED vars
  BY <1>3, <1>12 DEF vars
<1> QED
  BY <1>4, <1>5, <1>6, <1>7, <1>8, <1>9, <1>10, <1>11, <1>12, StepCases

\* HistoryInv holds initially.
LEMMA HistoryInvInit ==
    ASSUME Init
    PROVE  HistoryInv
<1>1. LeaseInv
  BY LeaseInvInit
<1>2. \A w \in Workers : ~busy(w)
  BY DEF Init, busy
<1>3. ASSUME NEW i \in Images PROVE agrees(scan_job[i], image[i], scan_run[i])
  <2>1. scan_job[i] = <<>> /\ image[i] = no_image /\ scan_run[i] = <<>>
    BY DEF Init
  <2>2. failed_since_done(<<>>) = {} /\ Cardinality({}) = 0
    BY FS_EmptySet DEF failed_since_done
  <2>3. no_image.consecutive_failures = 0 /\ no_image.last_scan_status = "none"
    BY DEF no_image
  <2>4. DOMAIN <<>> = {}
    OBVIOUS
  <2> QED
    BY <2>1, <2>2, <2>3, <2>4
    DEF agrees, runs_have_jobs, attempts_are_runs, done_has_one_result, streak_counts_jobs,
        image_reflects_last_run
<1> QED
  BY <1>1, <1>2, <1>3 DEF HistoryInv

\* Every step keeps HistoryInv, if LeaseBudget.
LEMMA HistoryInvStep ==
    ASSUME HistoryInv, LeaseBudget, [Next]_vars
    PROVE  HistoryInv'
<1>1. LeaseInv'
  BY LeaseInvStep DEF HistoryInv
<1>2. \A w \in Workers : busy(w)' => image_loaded(w)'
  BY LoadedStep
<1>3. \A i \in Images : agrees(scan_job'[i], image'[i], scan_run'[i])
  BY AgreesStep
<1> QED
  BY <1>1, <1>2, <1>3 DEF HistoryInv

-----------------------------------------------------------------------------
(* The theorems.                                                           *)

\* With LeaseBudget, every attempt a job is charged for is one failed run of the
\* job, whoever reports it, and an active job has attempts left.
THEOREM AttemptsAreRecorded ==
    ASSUME LeaseBudget
    PROVE  Spec => []AttemptsAreRuns
<1>1. HistoryInv => AttemptsAreRuns
  <2> SUFFICES ASSUME HistoryInv, NEW i \in Images, NEW n \in DOMAIN scan_job[i]
               PROVE  /\ scan_job[i][n].attempts = Cardinality(runs_of_job(i, n, {"failed"}))
                      /\ scan_job[i][n].status \in Active =>
                            scan_job[i][n].attempts < MaxAttempts
    BY DEF AttemptsAreRuns
  <2>1. runs_of_job(i, n, {"failed"}) = job_runs(scan_run[i], n, {"failed"})
    BY DEF runs_of_job, job_runs
  <2>2. attempts_are_runs(scan_job[i], scan_run[i]) /\ one_life(scan_job[i])
    BY DEF HistoryInv, LeaseInv, agrees
  <2> QED
    BY <2>1, <2>2 DEF attempts_are_runs, one_life
<1> QED
  BY <1>1, HistoryInvInit, HistoryInvStep, PTL DEF Spec

\* With LeaseBudget, a job is done exactly if one result of it was written, and
\* never has two.
THEOREM ResultsAreWrittenOnce ==
    ASSUME LeaseBudget
    PROVE  Spec => []DoneHasOneResult
<1>1. HistoryInv => DoneHasOneResult
  <2> SUFFICES ASSUME HistoryInv, NEW i \in Images, NEW n \in DOMAIN scan_job[i]
               PROVE  Cardinality(runs_of_job(i, n, {"success", "skipped"}))
                         = IF scan_job[i][n].status = "done" THEN 1 ELSE 0
    BY DEF DoneHasOneResult
  <2>1. runs_of_job(i, n, {"success", "skipped"}) =
            job_runs(scan_run[i], n, {"success", "skipped"})
    BY DEF runs_of_job, job_runs
  <2>2. done_has_one_result(scan_job[i], scan_run[i])
    BY DEF HistoryInv, agrees
  <2> QED
    BY <2>1, <2>2 DEF done_has_one_result
<1> QED
  BY <1>1, HistoryInvInit, HistoryInvStep, PTL DEF Spec

\* With LeaseBudget, consecutive_failures is the number of jobs that ended
\* exhausted since the last that ended well, though workers write it from an
\* object they read at the start and the scheduler writes it too.
THEOREM StreakIsExact ==
    ASSUME LeaseBudget
    PROVE  Spec => []StreakCountsJobs
<1>1. HistoryInv => StreakCountsJobs
  BY DEF HistoryInv, agrees, streak_counts_jobs, StreakCountsJobs
<1> QED
  BY <1>1, HistoryInvInit, HistoryInvStep, PTL DEF Spec

\* With LeaseBudget, last_scan_status is the status of the latest run.
THEOREM ImageShowsLatestRun ==
    ASSUME LeaseBudget
    PROVE  Spec => []ImageReflectsLastRun
<1>1. HistoryInv => ImageReflectsLastRun
  BY DEF HistoryInv, agrees, image_reflects_last_run, ImageReflectsLastRun
<1> QED
  BY <1>1, HistoryInvInit, HistoryInvStep, PTL DEF Spec

=============================================================================
