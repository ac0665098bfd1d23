---------------------------- MODULE LeaseProofs ----------------------------
(***************************************************************************)
(* What holds once the lease covers a whole execution (LeaseBudget): no    *)
(* image is ever scanned twice at the same time, and the jobs live the     *)
(* life JobLifecycle describes.                                            *)
(***************************************************************************)
EXTENDS ScanQueueProofs

\* How long an execution may still go on after the present phase.
slack(phase) ==
    CASE phase \in {"load", "probe"} -> ResolveBound + TrivyTimeout + WriteBound
      [] phase = "resolve" -> TrivyTimeout + WriteBound
      [] phase = "scan" -> 0

\* A worker still owns what it claimed: the row is as it was claimed, and the
\* lease outlasts the phase and all that can follow it.
owns(w) ==
    /\ job_row(w) = worker[w].row
    /\ now <= worker[w].deadline
    /\ worker[w].deadline + slack(worker[w].phase) <= worker[w].row.lease_until

\* Only the last job of an image is ever active, and it has attempts left.
one_life(jobs) ==
    \A n \in DOMAIN jobs : jobs[n].status \in Active =>
        n = Len(jobs) /\ jobs[n].attempts < MaxAttempts

LeaseInv ==
    /\ QueueInv
    /\ \A w \in Workers : busy(w) => owns(w)
    /\ NoDuplicateScan
    /\ \A i \in Images : one_life(scan_job[i])

\* The remaining time of an execution is a number.
LEMMA SlackType ==
    ASSUME NEW phase \in {"load", "probe", "resolve", "scan"}
    PROVE  slack(phase) \in Nat
<1>1. /\ ResolveBound + TrivyTimeout + WriteBound \in Nat
      /\ TrivyTimeout + WriteBound \in Nat
  BY SettingsAssumption
<1> QED
  BY <1>1 DEF slack

\* A worker that owns its job is not reaped.
LEMMA OwnedNotExpired ==
    ASSUME LeaseInv, NEW w \in Workers, busy(w)
    PROVE  /\ worker[w].row.lease_until >= now
           /\ ~lease_expired(job_row(w))
           /\ job_row(w).status = "running"
<1>1. /\ worker[w] \in Executing
      /\ now \in Nat
      /\ worker[w].row \in ScanJob
  BY ExecutingType DEF LeaseInv, QueueInv, TypeOK
<1>2. /\ slack(worker[w].phase) \in Nat
      /\ worker[w].deadline \in Int
      /\ worker[w].row.lease_until \in Int
  BY <1>1, SlackType DEF Executing, ScanJob
<1>3. owns(w) /\ worker[w].row.status = "running"
  BY DEF LeaseInv, QueueInv
<1>4. worker[w].row.lease_until >= now
  BY <1>1, <1>2, <1>3 DEF owns
<1> QED
  BY <1>1, <1>2, <1>3, <1>4 DEF owns, lease_expired

\* With its object up to date, a worker writes exactly what it computed.
LEMMA FlushFresh ==
    ASSUME NEW row \in ScanJob, NEW new \in ScanJob
    PROVE  flush_job(row, row, new) = new
  BY DEF flush_job, changed, ScanJob

\* Every outcome of an execution is an edge of the life of a job.
LEMMA OutcomeEdge ==
    ASSUME now \in Nat, NEW row \in ScanJob, NEW new, outcome(row, new),
           row.status = "running", row.attempts < MaxAttempts
    PROVE  /\ Lifecycle!edge(row, new)
           /\ new.status \in Active => new.attempts < MaxAttempts
<1>1. row.attempts \in Nat /\ MaxAttempts \in Nat
  BY SettingsAssumption DEF ScanJob
<1>2. CASE new = complete(row)
  <2>1. new.status = "done" /\ new.attempts = row.attempts
    BY <1>2 DEF complete, ScanJob
  <2> QED
    BY <2>1 DEF Lifecycle!edge, Active
<1>3. ASSUME NEW m \in {1, MaxAttempts}, new = fail(row, m)
      PROVE  /\ Lifecycle!edge(row, new)
             /\ new.status \in Active => new.attempts < MaxAttempts
  <2>1. new.attempts = row.attempts + 1
    BY <1>3 DEF fail, ScanJob
  <2>2. CASE row.attempts + 1 >= m
    <3>1. new.status = "failed"
      BY <1>3, <2>2 DEF fail, ScanJob
    <3> QED
      BY <1>1, <2>1, <3>1 DEF Lifecycle!edge, Active
  <2>3. CASE ~(row.attempts + 1 >= m)
    <3>1. new.status = "pending"
      BY <1>3, <2>3 DEF fail, ScanJob
    <3>2. row.attempts + 1 < MaxAttempts
      BY <1>1, <2>3
    <3> QED
      BY <1>1, <2>1, <3>1, <3>2 DEF Lifecycle!edge, Active
  <2> QED
    BY <2>2, <2>3
<1>4. ASSUME NEW d \in (Delays \ {0}), new = defer(row, d)
      PROVE  /\ Lifecycle!edge(row, new)
             /\ new.status \in Active => new.attempts < MaxAttempts
  <2>1. new.status = "pending" /\ new.attempts = row.attempts
    BY <1>4 DEF defer, ScanJob
  <2> QED
    BY <2>1 DEF Lifecycle!edge, Active
<1> QED
  BY <1>2, <1>3, <1>4 DEF outcome

\* Reaping is an edge of the life of a job.
LEMMA ReapedEdge ==
    ASSUME NEW row \in ScanJob, row.status = "running", row.attempts < MaxAttempts
    PROVE  /\ Lifecycle!edge(row, reaped(row))
           /\ reaped(row).status \in Active => reaped(row).attempts < MaxAttempts
<1>1. row.attempts \in Nat /\ MaxAttempts \in Nat
  BY SettingsAssumption DEF ScanJob
<1>2. /\ reaped(row).attempts = row.attempts + 1
      /\ reaped(row).status = IF row.attempts + 1 >= MaxAttempts THEN "failed" ELSE "pending"
  BY DEF reaped, ScanJob
<1> QED
  BY <1>1, <1>2 DEF Lifecycle!edge, Active

\* A worker not taking part in a step keeps its job if the row is untouched and
\* the clock has not passed its deadline.
LEMMA OwnerUndisturbed ==
    ASSUME LeaseInv, NEW v \in Workers, busy(v), worker'[v] = worker[v],
           scan_job'[worker[v].image][worker[v].job] = job_row(v),
           now' <= worker[v].deadline
    PROVE  owns(v)'
<1>1. owns(v)
  BY DEF LeaseInv
<1> QED
  BY <1>1 DEF owns, job_row

\* With LeaseInv, the end of an execution gives its own row an outcome computed
\* from that row, or changes nothing.
LEMMA EndingFacts ==
    ASSUME LeaseInv, NEW w \in Workers, ends_execution(w)
    PROVE  /\ busy(w)
           /\ worker' = [worker EXCEPT ![w] = Polling]
           /\ now' = now
           /\ \/ scan_job' = scan_job
              \/ \E new \in ScanJob :
                    /\ outcome(job_row(w), new)
                    /\ scan_job' = [scan_job EXCEPT ![worker[w].image] =
                                       [scan_job[worker[w].image] EXCEPT ![worker[w].job] = new]]
<1>1. TypeOK /\ now \in Nat
  BY DEF LeaseInv, QueueInv, TypeOK
<1>2. busy(w)
  BY <1>1, EndingIsCommit
<1>3. job_row(w) = worker[w].row /\ job_row(w) \in ScanJob
  BY <1>1, <1>2, ExecutingType DEF LeaseInv, owns
<1>4. PICK new, img, runs :
              /\ outcome(job_row(w), new)
              /\ commit(w, flush_job(job_row(w), job_row(w), new), img, runs)
  BY <1>1, <1>3, EndingIsCommit
<1>5. new \in ScanJob
  BY <1>1, <1>3, <1>4, OutcomeType
<1>6. flush_job(job_row(w), job_row(w), new) = new
  BY <1>3, <1>5, FlushFresh
<1>7. commit(w, new, img, runs)
  BY <1>4, <1>6
<1> QED
  BY <1>2, <1>4, <1>5, <1>7 DEF commit

\* A claim takes a pending row and makes the worker's objects match it.
LEMMA ClaimFacts ==
    ASSUME TypeOK, NEW w \in Workers, claim(w)
    PROVE  /\ ~busy(w)
           /\ now' = now
           /\ \E i \in Images : \E n \in DOMAIN scan_job[i] :
                /\ scan_job[i][n].status = "pending"
                /\ scan_job[i][n] \in ScanJob
                /\ scan_job' = [scan_job EXCEPT ![i] =
                                   [scan_job[i] EXCEPT ![n] = claimed(scan_job[i][n])]]
                /\ worker' = [worker EXCEPT ![w] =
                      [phase |-> "load", image |-> i, job |-> n,
                       row |-> claimed(scan_job[i][n]), img |-> no_image,
                       previous |-> FALSE, deadline |-> now + ProbeBound]]
<1>1. ~busy(w) /\ now' = now
  BY DEF claim
<1>2. PICK i \in Images : \E n \in DOMAIN scan_job[i] :
        /\ claimable(i, n)
        /\ scan_job' = [scan_job EXCEPT ![i][n] = claimed(@)]
        /\ worker' = [worker EXCEPT ![w] =
              [phase |-> "load", image |-> i, job |-> n,
               row |-> claimed(scan_job[i][n]), img |-> no_image,
               previous |-> FALSE, deadline |-> now + ProbeBound]]
  BY DEF claim
<1>3. PICK n \in DOMAIN scan_job[i] :
        /\ claimable(i, n)
        /\ scan_job' = [scan_job EXCEPT ![i][n] = claimed(@)]
        /\ worker' = [worker EXCEPT ![w] =
              [phase |-> "load", image |-> i, job |-> n,
               row |-> claimed(scan_job[i][n]), img |-> no_image,
               previous |-> FALSE, deadline |-> now + ProbeBound]]
  BY <1>2
<1>4. scan_job[i][n] \in ScanJob
  BY DEF TypeOK
<1>5. scan_job' = [scan_job EXCEPT ![i] = [scan_job[i] EXCEPT ![n] = claimed(scan_job[i][n])]]
  BY <1>3 DEF TypeOK
<1> QED
  BY <1>1, <1>3, <1>4, <1>5 DEF claimable

\* A worker that goes on to its next phase still owns its job, if LeaseBudget.
LEMMA PhaseOwns ==
    ASSUME LeaseInv, LeaseBudget, NEW w \in Workers,
           load_image(w) \/ finish_probe(w) \/ start_scan(w)
    PROVE  owns(w)'
<1>1. busy(w) /\ UNCHANGED <<scan_job, image, scan_run, now>>
  BY DEF load_image, finish_probe, start_scan, in_phase
<1>2. TypeOK /\ now \in Nat /\ owns(w) /\ worker[w] \in Executing
  BY <1>1, ExecutingType DEF LeaseInv, QueueInv, TypeOK
<1>3. /\ worker'[w] \in Executing
      /\ worker'[w].image = worker[w].image
      /\ worker'[w].job = worker[w].job
      /\ worker'[w].row = worker[w].row
  BY <1>1, <1>2, PhaseType
<1>4. job_row(w)' = worker'[w].row
  BY <1>1, <1>2, <1>3 DEF owns, job_row
<1>5. /\ worker[w].deadline \in Int /\ worker[w].row.lease_until \in Int
  BY <1>2 DEF Executing, ScanJob
<1>6. /\ slack("load") = ResolveBound + TrivyTimeout + WriteBound
      /\ slack("probe") = ResolveBound + TrivyTimeout + WriteBound
      /\ slack("resolve") = TrivyTimeout + WriteBound
      /\ slack("scan") = 0
  BY DEF slack
<1>7. CASE load_image(w)
  <2>1. worker[w].phase = "load" /\ worker'[w].phase = "probe"
        /\ worker'[w].deadline = worker[w].deadline
    BY <1>2, <1>7 DEF load_image, in_phase, TypeOK, Executing
  <2> QED
    BY <1>1, <1>2, <1>3, <1>4, <1>6, <2>1 DEF owns
<1>8. CASE finish_probe(w)
  <2>1. worker[w].phase = "probe" /\ worker'[w].phase = "resolve"
        /\ worker'[w].deadline = now + ResolveBound
    BY <1>2, <1>8 DEF finish_probe, in_phase, TypeOK, Executing
  <2>2. worker'[w].deadline + slack("resolve") <= worker[w].row.lease_until
    BY <1>2, <1>5, <1>6, <2>1, SettingsAssumption DEF owns
  <2>3. now <= worker'[w].deadline
    BY <1>2, <2>1, SettingsAssumption
  <2> QED
    BY <1>1, <1>3, <1>4, <2>1, <2>2, <2>3 DEF owns
<1>9. CASE start_scan(w)
  <2>1. worker[w].phase = "resolve" /\ worker'[w].phase = "scan"
        /\ worker'[w].deadline = now + TrivyTimeout + WriteBound
    BY <1>2, <1>9 DEF start_scan, in_phase, TypeOK, Executing
  <2>2. worker'[w].deadline + slack("scan") <= worker[w].row.lease_until
    BY <1>2, <1>5, <1>6, <2>1, SettingsAssumption DEF owns
  <2>3. now <= worker'[w].deadline
    BY <1>2, <2>1, SettingsAssumption
  <2> QED
    BY <1>1, <1>3, <1>4, <2>1, <2>2, <2>3 DEF owns
<1> QED
  BY <1>7, <1>8, <1>9

\* What LeaseInv says about the workers.
Ownership == (\A w \in Workers : busy(w) => owns(w)) /\ NoDuplicateScan

\* A step that starts no execution keeps the ownership of every worker if it
\* leaves the rows of the busy ones alone.
LEMMA OwnershipKept ==
    ASSUME LeaseInv,
           \A v \in Workers : worker'[v] = worker[v] \/ worker'[v] = Polling,
           \A v \in Workers : worker'[v] # Polling =>
               /\ scan_job'[worker[v].image][worker[v].job] = job_row(v)
               /\ now' <= worker[v].deadline
    PROVE  Ownership'
<1>1. ASSUME NEW v \in Workers, busy(v)'
      PROVE  owns(v)' /\ busy(v) /\ worker'[v] = worker[v]
  <2>1. worker'[v] = worker[v] /\ busy(v)
    BY <1>1 DEF busy
  <2> QED
    BY <1>1, <2>1, OwnerUndisturbed DEF busy
<1>2. NoDuplicateScan'
  BY <1>1 DEF LeaseInv, NoDuplicateScan
<1> QED
  BY <1>1, <1>2 DEF Ownership

\* Every step keeps the ownership of all busy workers, if LeaseBudget.
LEMMA OwnershipStep ==
    ASSUME LeaseInv, LeaseBudget, [Next]_vars
    PROVE  Ownership'
<1>1. TypeOK /\ now \in Nat /\ QueueInv
  BY DEF LeaseInv, QueueInv, TypeOK
<1>2. ASSUME NEW v \in Workers, busy(v)
      PROVE  /\ job_row(v) = worker[v].row
             /\ job_row(v).status = "running"
             /\ ~lease_expired(job_row(v))
             /\ now <= worker[v].deadline
             /\ worker[v].deadline \in Int
             /\ worker[v].image \in Images
             /\ worker[v].job \in DOMAIN scan_job[worker[v].image]
  BY <1>1, <1>2, OwnedNotExpired, ExecutingType DEF LeaseInv, owns, Executing
<1>3. CASE UNCHANGED vars
  BY <1>1, <1>2, <1>3, OwnershipKept DEF vars, busy, job_row
<1>4. ASSUME NEW w \in Workers, claim(w) PROVE Ownership'
  <2>1. ~busy(w) /\ now' = now
    BY <1>1, <1>4, ClaimFacts
  <2>0. PICK i \in Images : \E n \in DOMAIN scan_job[i] :
          /\ scan_job[i][n].status = "pending"
          /\ scan_job[i][n] \in ScanJob
          /\ scan_job' = [scan_job EXCEPT ![i] =
                             [scan_job[i] EXCEPT ![n] = claimed(scan_job[i][n])]]
          /\ worker' = [worker EXCEPT ![w] =
                [phase |-> "load", image |-> i, job |-> n,
                 row |-> claimed(scan_job[i][n]), img |-> no_image,
                 previous |-> FALSE, deadline |-> now + ProbeBound]]
    BY <1>1, <1>4, ClaimFacts
  <2>2. PICK n \in DOMAIN scan_job[i] :
          /\ scan_job[i][n].status = "pending"
          /\ scan_job[i][n] \in ScanJob
          /\ scan_job' = [scan_job EXCEPT ![i] =
                             [scan_job[i] EXCEPT ![n] = claimed(scan_job[i][n])]]
          /\ worker' = [worker EXCEPT ![w] =
                [phase |-> "load", image |-> i, job |-> n,
                 row |-> claimed(scan_job[i][n]), img |-> no_image,
                 previous |-> FALSE, deadline |-> now + ProbeBound]]
    BY <2>0
  <2>3. ASSUME NEW v \in Workers, busy(v) PROVE worker[v].image # i
    <3>1. SUFFICES ASSUME worker[v].image = i PROVE FALSE
      OBVIOUS
    <3>2. /\ worker[v].job \in DOMAIN scan_job[i]
          /\ scan_job[i][worker[v].job].status = "running"
      BY <1>2, <2>3, <3>1 DEF job_row
    <3>3. worker[v].job = n
      BY <1>1, <2>2, <3>2 DEF QueueInv, OneActiveJob, uq_scan_job_active, Active
    <3> QED
      BY <2>2, <3>2, <3>3
  <2>4. /\ \A v \in Workers : v # w => worker'[v] = worker[v]
        /\ worker'[w].image = i
        /\ worker'[w].job = n
        /\ worker'[w].phase = "load"
        /\ worker'[w].row = claimed(scan_job[i][n])
        /\ worker'[w].deadline = now + ProbeBound
    BY <1>1, <2>2 DEF TypeOK
  <2>5. owns(w)'
    <3>1. claimed(scan_job[i][n]).lease_until = now + LeaseSeconds
      BY <2>2 DEF claimed, ScanJob
    <3>2. scan_job'[i][n] = claimed(scan_job[i][n])
      BY <1>1, <2>2 DEF TypeOK
    <3>3. slack("load") = ResolveBound + TrivyTimeout + WriteBound
      BY DEF slack
    <3>4. (now + ProbeBound) + slack("load") <= now + LeaseSeconds /\ now <= now + ProbeBound
      BY <1>1, <3>3, SettingsAssumption DEF LeaseBudget
    <3> QED
      BY <2>1, <2>4, <3>1, <3>2, <3>4 DEF owns, job_row
  <2>6. ASSUME NEW v \in Workers, v # w, busy(v)'
        PROVE  owns(v)' /\ busy(v) /\ worker'[v] = worker[v]
    <3>1. worker'[v] = worker[v] /\ busy(v)
      BY <2>4, <2>6 DEF busy
    <3>2. worker[v].image # i
      BY <2>3, <3>1
    <3>3. scan_job'[worker[v].image] = scan_job[worker[v].image]
      BY <1>1, <1>2, <2>2, <3>1, <3>2 DEF TypeOK
    <3> QED
      BY <1>2, <2>1, <3>1, <3>3, OwnerUndisturbed DEF job_row
  <2>7. NoDuplicateScan'
    <3> SUFFICES ASSUME NEW u \in Workers, NEW v \in Workers, busy(u)', busy(v)',
                        worker'[u].image = worker'[v].image
                 PROVE  u = v
      BY DEF NoDuplicateScan
    <3>1. CASE u # w /\ v # w
      BY <2>6, <3>1 DEF LeaseInv, NoDuplicateScan
    <3>2. CASE u = w /\ v # w
      BY <2>3, <2>4, <2>6, <3>2
    <3>3. CASE u # w /\ v = w
      BY <2>3, <2>4, <2>6, <3>3
    <3> QED
      BY <3>1, <3>2, <3>3
  <2> QED
    BY <2>5, <2>6, <2>7 DEF Ownership
<1>5. ASSUME NEW w \in Workers, load_image(w) \/ finish_probe(w) \/ start_scan(w)
      PROVE  Ownership'
  <2>1. busy(w) /\ UNCHANGED <<scan_job, image, scan_run, now>>
    BY <1>5 DEF load_image, finish_probe, start_scan, in_phase
  <2>2. /\ worker'[w].image = worker[w].image
        /\ worker' = [worker EXCEPT ![w] = worker'[w]]
    BY <1>1, <1>5, <2>1, PhaseType
  <2>3. \A v \in Workers : v # w => worker'[v] = worker[v]
    BY <1>1, <2>2 DEF TypeOK
  <2>4. owns(w)'
    BY <1>5, PhaseOwns
  <2>5. ASSUME NEW v \in Workers, v # w, busy(v)' PROVE owns(v)'
    BY <1>2, <2>1, <2>3, <2>5, OwnerUndisturbed DEF busy, job_row
  <2>6. \A v \in Workers : busy(v)' => busy(v) /\ worker'[v].image = worker[v].image
    BY <2>1, <2>2, <2>3 DEF busy
  <2>7. NoDuplicateScan'
    BY <2>6 DEF LeaseInv, NoDuplicateScan
  <2> QED
    BY <2>4, <2>5, <2>7 DEF Ownership
<1>6. ASSUME NEW w \in Workers, ends_execution(w) PROVE Ownership'
  <2>1. /\ busy(w)
        /\ worker' = [worker EXCEPT ![w] = Polling]
        /\ now' = now
        /\ \/ scan_job' = scan_job
           \/ \E new : scan_job' = [scan_job EXCEPT ![worker[w].image] =
                                  [scan_job[worker[w].image] EXCEPT ![worker[w].job] = new]]
    BY <1>6, EndingFacts
  <2>2. \A v \in Workers : worker'[v] = IF v = w THEN Polling ELSE worker[v]
    BY <1>1, <2>1 DEF TypeOK
  <2>3. ASSUME NEW v \in Workers, worker'[v] # Polling
        PROVE  scan_job'[worker[v].image][worker[v].job] = job_row(v)
    <3>1. v # w /\ busy(v)
      BY <2>2, <2>3 DEF busy
    <3>2. worker[v].image # worker[w].image
      BY <2>1, <3>1 DEF LeaseInv, NoDuplicateScan
    <3>3. scan_job'[worker[v].image] = scan_job[worker[v].image]
      BY <1>1, <1>2, <2>1, <3>1, <3>2 DEF TypeOK
    <3> QED
      BY <3>3 DEF job_row
  <2> QED
    BY <1>2, <2>1, <2>2, <2>3, OwnershipKept DEF busy
<1>7. ASSUME NEW w \in Workers, crash(w) PROVE Ownership'
  <2>1. \A v \in Workers : worker'[v] = IF v = w THEN Polling ELSE worker[v]
    BY <1>1, <1>7 DEF crash, TypeOK
  <2> QED
    BY <1>2, <1>7, <2>1, OwnershipKept DEF crash, busy, job_row
<1>8. CASE tick
  <2>1. worker' = worker /\ now' = now
    BY <1>8 DEF tick
  <2>2. ASSUME NEW v \in Workers, busy(v)
        PROVE  scan_job'[worker[v].image][worker[v].job] = job_row(v)
    <3> DEFINE i == worker[v].image
               jobs == reap_expired_leases(scan_job[i])
    <3>1. /\ i \in Images /\ worker[v].job \in DOMAIN scan_job[i]
          /\ ~lease_expired(scan_job[i][worker[v].job])
      BY <1>2, <2>2 DEF job_row
    <3>2. /\ jobs \in Seq(ScanJob)
          /\ jobs[worker[v].job] = scan_job[i][worker[v].job]
          /\ worker[v].job \in DOMAIN jobs
      BY <1>1, <3>1, ReapedQueue DEF TypeOK
    <3>3. scan_job'[i] = jobs \/ scan_job'[i] = enqueue(jobs, PRIORITY_SCHEDULED)
      BY <1>8, <3>1 DEF tick, jobs_after_tick
    <3> HIDE DEF i, jobs
    <3>4. enqueue(jobs, PRIORITY_SCHEDULED)[worker[v].job] = jobs[worker[v].job]
      BY <3>2 DEF enqueue
    <3> QED
      BY <3>2, <3>3, <3>4 DEF job_row, i
  <2> QED
    BY <1>2, <2>1, <2>2, OwnershipKept DEF busy
<1>9. ASSUME NEW i \in Images, NEW priority \in {PRIORITY_SCHEDULED, PRIORITY_TIME_SENSITIVE},
             request_scan(i, priority)
      PROVE  Ownership'
  <2>1. /\ scan_job' = [scan_job EXCEPT ![i] = enqueue(scan_job[i], priority)]
        /\ worker' = worker /\ now' = now
        /\ ~has_active_job(scan_job[i])
    BY <1>1, <1>9 DEF request_scan, TypeOK
  <2>2. ASSUME NEW v \in Workers, busy(v)
        PROVE  scan_job'[worker[v].image][worker[v].job] = job_row(v)
    <3>1. worker[v].image # i
      BY <1>2, <2>1, <2>2 DEF has_active_job, Active, job_row
    <3> QED
      BY <1>1, <1>2, <2>1, <2>2, <3>1 DEF TypeOK, job_row
  <2> QED
    BY <1>2, <2>1, <2>2, OwnershipKept DEF busy
<1>10. ASSUME NEW i \in Images, promote(i) PROVE Ownership'
  <2>1. PICK n \in DOMAIN scan_job[i] :
           /\ scan_job[i][n].status = "pending"
           /\ scan_job' = [scan_job EXCEPT ![i][n] = promoted(@)]
    BY <1>10 DEF promote
  <2>2. worker' = worker /\ now' = now
    BY <1>10 DEF promote
  <2>3. ASSUME NEW v \in Workers, busy(v)
        PROVE  scan_job'[worker[v].image][worker[v].job] = job_row(v)
    <3>1. ~(worker[v].image = i /\ worker[v].job = n)
      BY <1>2, <2>1, <2>3 DEF job_row
    <3> QED
      BY <1>1, <1>2, <2>1, <2>3, <3>1 DEF TypeOK, job_row
  <2> QED
    BY <1>2, <2>2, <2>3, OwnershipKept DEF busy
<1>11. CASE advance_clock
  <2>1. /\ UNCHANGED <<scan_job, worker>>
        /\ now' = now + 1
        /\ \A w \in Workers : busy(w) => now < worker[w].deadline
    BY <1>11 DEF advance_clock
  <2>2. \A v \in Workers : busy(v) => now' <= worker[v].deadline
    BY <1>1, <1>2, <2>1
  <2> QED
    BY <2>1, <2>2, OwnershipKept DEF busy, job_row
<1> QED
  BY <1>3, <1>4, <1>5, <1>6, <1>7, <1>8, <1>9, <1>10, <1>11, StepCases

-----------------------------------------------------------------------------
(* The life of a job.                                                      *)

same_life(jobs, next) ==
    /\ DOMAIN next = DOMAIN jobs
    /\ \A n \in DOMAIN jobs : /\ next[n].status = jobs[n].status
                              /\ next[n].attempts = jobs[n].attempts

grown(jobs, next) ==
    /\ ~has_active_job(jobs)
    /\ \E priority : next = Append(jobs, new_job(priority))

\* What a step may do to the jobs of one image.
life_step(jobs, next) ==
    \/ same_life(jobs, next)
    \/ Lifecycle!moves(jobs, next)
    \/ grown(jobs, next)
    \/ \E mid \in Seq(ScanJob) : Lifecycle!moves(jobs, mid) /\ grown(mid, next)

\* The last job, which is active, becomes row.
LEMMA LastJobMoves ==
    ASSUME NEW jobs \in Seq(ScanJob), one_life(jobs), NEW n \in DOMAIN jobs,
           jobs[n].status \in Active, NEW row \in ScanJob, Lifecycle!edge(jobs[n], row),
           row.status \in Active => row.attempts < MaxAttempts
    PROVE  /\ Lifecycle!moves(jobs, [jobs EXCEPT ![n] = row])
           /\ one_life([jobs EXCEPT ![n] = row])
<1> DEFINE next == [jobs EXCEPT ![n] = row]
<1>1. n = Len(jobs) /\ jobs # <<>>
  BY DEF one_life
<1>2. DOMAIN next = DOMAIN jobs /\ Len(next) = Len(jobs) /\ next[n] = row
      /\ \A m \in DOMAIN jobs : m # n => next[m] = jobs[m]
  BY SeqUpdate
<1> HIDE DEF next
<1>3. Lifecycle!moves(jobs, next)
  BY <1>1, <1>2 DEF Lifecycle!moves
<1>4. one_life(next)
  BY <1>1, <1>2 DEF one_life
<1> QED
  BY <1>3, <1>4 DEF next

\* A queue that grew has one active job, its last.
LEMMA GrownLife ==
    ASSUME NEW jobs \in Seq(ScanJob), NEW next, grown(jobs, next)
    PROVE  one_life(next)
<1>1. PICK priority : next = Append(jobs, new_job(priority))
  BY DEF grown
<1>2. /\ Len(next) = Len(jobs) + 1
      /\ next[Len(jobs) + 1] = new_job(priority)
      /\ DOMAIN next = 1..(Len(jobs) + 1)
      /\ \A n \in DOMAIN jobs : next[n] = jobs[n]
      /\ DOMAIN jobs = 1..Len(jobs)
      /\ Len(jobs) \in Nat
  BY <1>1
<1>3. new_job(priority).attempts = 0 /\ 0 < MaxAttempts
  BY SettingsAssumption DEF new_job
<1>4. \A n \in DOMAIN jobs : jobs[n].status \notin Active
  BY DEF grown, has_active_job
<1>5. ASSUME NEW n \in DOMAIN next, next[n].status \in Active
      PROVE  n = Len(next) /\ next[n].attempts < MaxAttempts
  <2>1. n \notin DOMAIN jobs
    BY <1>2, <1>4, <1>5
  <2>2. n = Len(jobs) + 1
    BY <1>2, <1>5, <2>1
  <2> QED
    BY <1>2, <1>3, <2>2
<1> QED
  BY <1>5 DEF one_life

\* Changes that no job's life shows keep one_life.
LEMMA SameLife ==
    ASSUME NEW jobs \in Seq(ScanJob), NEW next \in Seq(ScanJob), one_life(jobs),
           same_life(jobs, next)
    PROVE  one_life(next)
<1>1. Len(next) = Len(jobs)
  BY DEF same_life
<1> QED
  BY <1>1 DEF same_life, one_life

\* A scheduler pass is a step of the life of every image's jobs.
LEMMA TickLife ==
    ASSUME LeaseInv, NEW i \in Images
    PROVE  life_step(scan_job[i], jobs_after_tick(i)) /\ one_life(jobs_after_tick(i))
<1> DEFINE jobs == scan_job[i]
           mid == reap_expired_leases(jobs)
           last == jobs_after_tick(i)
<1>1. /\ TypeOK /\ now \in Nat
      /\ jobs \in Seq(ScanJob)
      /\ one_life(jobs)
  BY DEF LeaseInv, QueueInv, TypeOK
<1>2. /\ mid \in Seq(ScanJob)
      /\ DOMAIN mid = DOMAIN jobs
      /\ Len(mid) = Len(jobs)
      /\ \A n \in DOMAIN jobs :
            mid[n] = IF lease_expired(jobs[n]) THEN reaped(jobs[n]) ELSE jobs[n]
  BY <1>1, ReapedQueue
<1>3. last = mid \/ grown(mid, last)
  <2>1. last = mid \/ last = enqueue(mid, PRIORITY_SCHEDULED)
    BY DEF jobs_after_tick
  <2>2. \/ enqueue(mid, PRIORITY_SCHEDULED) = mid
        \/ /\ ~has_active_job(mid)
           /\ enqueue(mid, PRIORITY_SCHEDULED) = Append(mid, new_job(PRIORITY_SCHEDULED))
    BY DEF enqueue
  <2> HIDE DEF mid, last
  <2> QED
    BY <2>1, <2>2 DEF grown
<1> HIDE DEF jobs, mid, last
<1>4. CASE \A n \in DOMAIN jobs : ~lease_expired(jobs[n])
  <2>1. \A n \in DOMAIN jobs : mid[n] = jobs[n]
    BY <1>2, <1>4
  <2>2. mid = jobs
    BY <1>1, <1>2, <2>1
  <2>3. CASE last = mid
    BY <1>1, <2>2, <2>3 DEF life_step, same_life, last, jobs
  <2>4. CASE grown(mid, last)
    BY <1>1, <2>2, <2>4, GrownLife DEF life_step, last, jobs
  <2> QED
    BY <1>3, <2>3, <2>4
<1>5. CASE \E n \in DOMAIN jobs : lease_expired(jobs[n])
  <2>1. PICK n \in DOMAIN jobs : lease_expired(jobs[n])
    BY <1>5
  <2>2. jobs[n].status = "running" /\ jobs[n] \in ScanJob /\ reaped(jobs[n]) \in ScanJob
    BY <1>1, <2>1, RowTypes DEF lease_expired
  <2>3. n = Len(jobs) /\ jobs[n].attempts < MaxAttempts
    BY <1>1, <2>2 DEF one_life, Active
  <2>4. \A m \in DOMAIN jobs : m # n => ~lease_expired(jobs[m])
    BY <1>1, <2>3 DEF one_life, lease_expired, Active
  <2>5. /\ Lifecycle!edge(jobs[n], reaped(jobs[n]))
        /\ reaped(jobs[n]).status \in Active => reaped(jobs[n]).attempts < MaxAttempts
    BY <2>2, <2>3, ReapedEdge
  <2>6. mid = [jobs EXCEPT ![n] = reaped(jobs[n])]
    BY <1>1, <1>2, <2>1, <2>4
  <2>7. Lifecycle!moves(jobs, mid) /\ one_life(mid)
    BY <1>1, <2>2, <2>5, <2>6, LastJobMoves DEF Active
  <2>8. CASE last = mid
    BY <2>7, <2>8 DEF life_step, last, jobs
  <2>9. CASE grown(mid, last)
    <3>1. one_life(last)
      BY <1>2, <2>9, GrownLife
    <3> QED
      BY <1>2, <2>7, <2>9, <3>1 DEF life_step, last, jobs
  <2> QED
    BY <1>3, <2>8, <2>9
<1> QED
  BY <1>4, <1>5

\* Every step is a step of the life of every image's jobs.
LEMMA LifeStep ==
    ASSUME LeaseInv, [Next]_vars, NEW i \in Images
    PROVE  life_step(scan_job[i], scan_job'[i]) /\ one_life(scan_job'[i])
<1>1. /\ TypeOK /\ now \in Nat
      /\ scan_job[i] \in Seq(ScanJob)
      /\ one_life(scan_job[i])
  BY DEF LeaseInv, QueueInv, TypeOK
<1>2. scan_job'[i] = scan_job[i] =>
          life_step(scan_job[i], scan_job'[i]) /\ one_life(scan_job'[i])
  BY <1>1 DEF life_step, same_life
<1>3. CASE UNCHANGED vars
  BY <1>2, <1>3 DEF vars
<1>4. ASSUME NEW w \in Workers, claim(w)
      PROVE  life_step(scan_job[i], scan_job'[i]) /\ one_life(scan_job'[i])
  <2>1. PICK j \in Images : \E n \in DOMAIN scan_job[j] :
          /\ scan_job[j][n].status = "pending"
          /\ scan_job[j][n] \in ScanJob
          /\ scan_job' = [scan_job EXCEPT ![j] =
                             [scan_job[j] EXCEPT ![n] = claimed(scan_job[j][n])]]
    BY <1>1, <1>4, ClaimFacts
  <2>2. PICK n \in DOMAIN scan_job[j] :
          /\ scan_job[j][n].status = "pending"
          /\ scan_job[j][n] \in ScanJob
          /\ scan_job' = [scan_job EXCEPT ![j] =
                             [scan_job[j] EXCEPT ![n] = claimed(scan_job[j][n])]]
    BY <2>1
  <2>3. CASE i # j
    BY <1>1, <1>2, <2>2, <2>3 DEF TypeOK
  <2>4. CASE i = j
    <3> DEFINE row == claimed(scan_job[i][n])
    <3>1. scan_job'[i] = [scan_job[i] EXCEPT ![n] = row]
      BY <1>1, <2>2, <2>4 DEF TypeOK
    <3>2. /\ row.status = "running"
          /\ row.attempts = scan_job[i][n].attempts
      BY <2>2, <2>4 DEF claimed, ScanJob
    <3>3. row \in ScanJob
      BY <1>1, <2>2, <2>4, RowTypes
    <3>4. scan_job[i][n].attempts < MaxAttempts
      BY <1>1, <2>2, <2>4 DEF one_life, Active
    <3>5. Lifecycle!edge(scan_job[i][n], row)
      BY <2>2, <2>4, <3>2 DEF Lifecycle!edge
    <3> HIDE DEF row
    <3>6. Lifecycle!moves(scan_job[i], scan_job'[i]) /\ one_life(scan_job'[i])
      BY <1>1, <2>2, <2>4, <3>1, <3>2, <3>3, <3>4, <3>5, LastJobMoves DEF Active
    <3> QED
      BY <3>6 DEF life_step
  <2> QED
    BY <2>3, <2>4
<1>5. ASSUME NEW w \in Workers, ends_execution(w)
      PROVE  life_step(scan_job[i], scan_job'[i]) /\ one_life(scan_job'[i])
  <2>1. CASE scan_job' = scan_job
    BY <1>2, <2>1
  <2>2. CASE scan_job' # scan_job
    <3> DEFINE n == worker[w].job
    <3>1. /\ busy(w)
          /\ \E new \in ScanJob :
                    /\ outcome(job_row(w), new)
                    /\ scan_job' = [scan_job EXCEPT ![worker[w].image] =
                                       [scan_job[worker[w].image] EXCEPT ![worker[w].job] = new]]
      BY <1>5, <2>2, EndingFacts
    <3>2. PICK new \in ScanJob :
                    /\ outcome(job_row(w), new)
                    /\ scan_job' = [scan_job EXCEPT ![worker[w].image] =
                                       [scan_job[worker[w].image] EXCEPT ![worker[w].job] = new]]
      BY <3>1
    <3>3. CASE worker[w].image # i
      BY <1>1, <1>2, <3>2, <3>3 DEF TypeOK
    <3>4. CASE worker[w].image = i
      <4>1. scan_job'[i] = [scan_job[i] EXCEPT ![n] = new]
        BY <1>1, <3>2, <3>4 DEF TypeOK
      <4>2. /\ n \in DOMAIN scan_job[i]
            /\ job_row(w) = scan_job[i][n]
            /\ scan_job[i][n] \in ScanJob
            /\ scan_job[i][n].status = "running"
        BY <1>1, <3>1, <3>4, ExecutingType, OwnedNotExpired DEF job_row
      <4>3. scan_job[i][n].attempts < MaxAttempts
        BY <1>1, <4>2 DEF one_life, Active
      <4>4. /\ Lifecycle!edge(scan_job[i][n], new)
            /\ new.status \in Active => new.attempts < MaxAttempts
        BY <1>1, <3>2, <4>2, <4>3, OutcomeEdge
      <4> HIDE DEF n
      <4>5. Lifecycle!moves(scan_job[i], scan_job'[i]) /\ one_life(scan_job'[i])
        BY <1>1, <4>1, <4>2, <4>4, LastJobMoves DEF Active
      <4> QED
        BY <4>5 DEF life_step
    <3> QED
      BY <3>3, <3>4
  <2> QED
    BY <2>1, <2>2
<1>6. CASE tick
  <2>1. scan_job'[i] = jobs_after_tick(i)
    BY <1>6 DEF tick
  <2> QED
    BY <2>1, TickLife
<1>7. ASSUME NEW j \in Images, NEW priority \in {PRIORITY_SCHEDULED, PRIORITY_TIME_SENSITIVE},
             request_scan(j, priority)
      PROVE  life_step(scan_job[i], scan_job'[i]) /\ one_life(scan_job'[i])
  <2>1. CASE i # j
    BY <1>1, <1>2, <1>7, <2>1 DEF TypeOK, request_scan
  <2>2. CASE i = j
    <3>1. /\ scan_job'[i] = enqueue(scan_job[i], priority)
          /\ ~has_active_job(scan_job[i])
          /\ Len(scan_job[i]) < MaxJobs
      BY <1>1, <1>7, <2>2 DEF request_scan, TypeOK
    <3>2. scan_job'[i] = Append(scan_job[i], new_job(priority))
      BY <1>1, <3>1, SettingsAssumption DEF enqueue
    <3>3. grown(scan_job[i], scan_job'[i])
      BY <3>1, <3>2 DEF grown
    <3> QED
      BY <1>1, <3>3, GrownLife DEF life_step
  <2> QED
    BY <2>1, <2>2
<1>8. ASSUME NEW j \in Images, promote(j)
      PROVE  life_step(scan_job[i], scan_job'[i]) /\ one_life(scan_job'[i])
  <2>1. PICK n \in DOMAIN scan_job[j] :
           /\ scan_job[j][n].status = "pending"
           /\ scan_job' = [scan_job EXCEPT ![j][n] = promoted(@)]
    BY <1>8 DEF promote
  <2>2. CASE i # j
    BY <1>1, <1>2, <2>1, <2>2 DEF TypeOK
  <2>3. CASE i = j
    <3>1. scan_job[i][n] \in ScanJob /\ promoted(scan_job[i][n]) \in ScanJob
      BY <1>1, <2>3, PromotedType
    <3>2. scan_job'[i] = [scan_job[i] EXCEPT ![n] = promoted(scan_job[i][n])]
      BY <1>1, <2>1, <2>3 DEF TypeOK
    <3>3. /\ promoted(scan_job[i][n]).status = scan_job[i][n].status
          /\ promoted(scan_job[i][n]).attempts = scan_job[i][n].attempts
      BY <3>1 DEF promoted, ScanJob
    <3>4. scan_job'[i] \in Seq(ScanJob)
      BY <1>1, <2>3, <3>1, <3>2, SeqUpdate
    <3>5. same_life(scan_job[i], scan_job'[i])
      BY <1>1, <2>3, <3>2, <3>3 DEF same_life
    <3> QED
      BY <1>1, <3>4, <3>5, SameLife DEF life_step
  <2> QED
    BY <2>2, <2>3
<1>9. ASSUME NEW w \in Workers,
             load_image(w) \/ finish_probe(w) \/ start_scan(w) \/ crash(w)
      PROVE  scan_job'[i] = scan_job[i]
  BY <1>9 DEF load_image, finish_probe, start_scan, crash
<1>10. CASE advance_clock
  BY <1>2, <1>10 DEF advance_clock
<1> QED
  BY <1>2, <1>3, <1>4, <1>5, <1>6, <1>7, <1>8, <1>9, <1>10, StepCases

\* Every step keeps LeaseInv, if LeaseBudget.
LEMMA LeaseInvStep ==
    ASSUME LeaseInv, LeaseBudget, [Next]_vars
    PROVE  LeaseInv'
<1>1. QueueInv'
  BY QueueInvStep DEF LeaseInv
<1>2. Ownership'
  BY OwnershipStep
<1>3. \A i \in Images : one_life(scan_job[i])'
  BY LifeStep DEF one_life, Active
<1> QED
  BY <1>1, <1>2, <1>3 DEF LeaseInv, Ownership

\* LeaseInv holds initially.
LEMMA LeaseInvInit ==
    ASSUME Init
    PROVE  LeaseInv
  BY QueueInvInit DEF Init, LeaseInv, NoDuplicateScan, one_life, busy

\* If the lease covers the longest execution, from the claim to the commit, no
\* two workers ever execute a job of the same image at the same time.
THEOREM LeasePreventsDuplicateScans ==
    ASSUME LeaseBudget
    PROVE  Spec => []NoDuplicateScan
<1>1. Init => LeaseInv
  BY LeaseInvInit
<1>2. LeaseInv /\ [Next]_vars => LeaseInv'
  BY LeaseInvStep
<1>3. LeaseInv => NoDuplicateScan
  BY DEF LeaseInv
<1> QED
  BY <1>1, <1>2, <1>3, PTL DEF Spec

\* The jobs of one image, seen as JobLifecycle sees them.
LEMMA LifeOf ==
    ASSUME NEW jobs \in Seq(ScanJob)
    PROVE  /\ DOMAIN life_of(jobs) = DOMAIN jobs
           /\ Len(life_of(jobs)) = Len(jobs)
           /\ life_of(jobs) \in Seq([status: JobStatus, attempts: Nat])
           /\ \A n \in DOMAIN jobs :
                 /\ life_of(jobs)[n] = [status |-> jobs[n].status, attempts |-> jobs[n].attempts]
                 /\ life_of(jobs)[n].status = jobs[n].status
                 /\ life_of(jobs)[n].attempts = jobs[n].attempts
<1> DEFINE L == [status: JobStatus, attempts: Nat]
           t == life_of(jobs)
<1>1. /\ DOMAIN t = DOMAIN jobs
      /\ t = [n \in DOMAIN jobs |-> t[n]]
      /\ \A n \in DOMAIN jobs :
            t[n] = [status |-> jobs[n].status, attempts |-> jobs[n].attempts]
  BY DEF life_of
<1>2. \A n \in DOMAIN jobs : jobs[n] \in ScanJob
  OBVIOUS
<1>3. \A n \in DOMAIN jobs : t[n] \in L
  BY <1>1, <1>2 DEF ScanJob
<1> HIDE DEF t, L
<1>4. t \in Seq(L) /\ Len(t) = Len(jobs)
  BY <1>1, <1>3, SeqMap
<1> QED
  BY <1>1, <1>4 DEF t, L

\* A job that takes an edge takes it in JobLifecycle's view.
LEMMA MovesLife ==
    ASSUME NEW jobs \in Seq(ScanJob), NEW next \in Seq(ScanJob), Lifecycle!moves(jobs, next)
    PROVE  Lifecycle!moves(life_of(jobs), life_of(next))
<1>1. /\ DOMAIN next = DOMAIN jobs
      /\ \A n \in DOMAIN jobs : n # Len(jobs) => next[n] = jobs[n]
      /\ Lifecycle!edge(jobs[Len(jobs)], next[Len(jobs)])
      /\ jobs # <<>>
  BY DEF Lifecycle!moves
<1>2. Len(jobs) \in DOMAIN jobs
  BY <1>1
<1> DEFINE a == life_of(jobs)
           b == life_of(next)
<1>3. /\ DOMAIN a = DOMAIN jobs /\ Len(a) = Len(jobs)
      /\ DOMAIN b = DOMAIN next
      /\ \A n \in DOMAIN jobs : n # Len(jobs) => a[n] = b[n]
      /\ a[Len(jobs)].status = jobs[Len(jobs)].status
      /\ a[Len(jobs)].attempts = jobs[Len(jobs)].attempts
      /\ b[Len(jobs)].status = next[Len(jobs)].status
      /\ b[Len(jobs)].attempts = next[Len(jobs)].attempts
  <2>1. /\ DOMAIN a = DOMAIN jobs /\ Len(a) = Len(jobs)
        /\ \A n \in DOMAIN jobs :
              /\ a[n] = [status |-> jobs[n].status, attempts |-> jobs[n].attempts]
              /\ a[n].status = jobs[n].status
              /\ a[n].attempts = jobs[n].attempts
    BY LifeOf
  <2>2. /\ DOMAIN b = DOMAIN next
        /\ \A n \in DOMAIN next :
              /\ b[n] = [status |-> next[n].status, attempts |-> next[n].attempts]
              /\ b[n].status = next[n].status
              /\ b[n].attempts = next[n].attempts
    BY LifeOf
  <2> HIDE DEF a, b
  <2> QED
    BY <1>1, <1>2, <2>1, <2>2
<1>4. a # <<>>
  BY <1>2, <1>3
<1> HIDE DEF a, b
<1>5. Lifecycle!edge(a[Len(jobs)], b[Len(jobs)])
  BY <1>1, <1>3 DEF Lifecycle!edge
<1>6. Lifecycle!moves(a, b)
  BY <1>1, <1>3, <1>4, <1>5 DEF Lifecycle!moves
<1> QED
  BY <1>6 DEF a, b

\* A queue that grew has grown in JobLifecycle's view.
LEMMA GrownIsGrows ==
    ASSUME NEW jobs \in Seq(ScanJob), NEW next \in Seq(ScanJob), grown(jobs, next)
    PROVE  /\ Lifecycle!grows(life_of(jobs), life_of(next))
           /\ life_of(jobs) = SubSeq(life_of(next), 1, Len(life_of(jobs)))
<1>1. PICK priority : next = Append(jobs, new_job(priority))
  BY DEF grown
<1>2. /\ DOMAIN next = 1..(Len(jobs) + 1)
      /\ DOMAIN jobs = 1..Len(jobs)
      /\ Len(jobs) \in Nat
      /\ Len(next) = Len(jobs) + 1
      /\ next[Len(jobs) + 1] = new_job(priority)
      /\ \A n \in DOMAIN jobs : next[n] = jobs[n]
  BY <1>1
<1> DEFINE a == life_of(jobs)
           b == life_of(next)
           L == [status: JobStatus, attempts: Nat]
<1>3. /\ a \in Seq(L) /\ Len(a) = Len(jobs) /\ DOMAIN a = DOMAIN jobs
      /\ b \in Seq(L) /\ Len(b) = Len(next) /\ DOMAIN b = DOMAIN next
      /\ \A n \in DOMAIN jobs : a[n] = b[n]
      /\ b[Len(jobs) + 1] = [status |-> "pending", attempts |-> 0]
  <2>1. /\ a \in Seq(L) /\ DOMAIN a = DOMAIN jobs /\ Len(a) = Len(jobs)
        /\ \A n \in DOMAIN jobs :
              a[n] = [status |-> jobs[n].status, attempts |-> jobs[n].attempts]
    BY LifeOf
  <2>2. /\ b \in Seq(L) /\ DOMAIN b = DOMAIN next /\ Len(b) = Len(next)
        /\ \A n \in DOMAIN next :
              b[n] = [status |-> next[n].status, attempts |-> next[n].attempts]
    BY LifeOf
  <2>3. new_job(priority).status = "pending" /\ new_job(priority).attempts = 0
    BY DEF new_job
  <2> HIDE DEF a, b, L
  <2>4. Len(jobs) + 1 \in DOMAIN next
    BY <1>2
  <2>5. b[Len(jobs) + 1] = [status |-> "pending", attempts |-> 0]
    BY <1>2, <2>2, <2>3, <2>4
  <2>6. \A n \in DOMAIN jobs : n \in DOMAIN next /\ a[n] = b[n]
    BY <1>2, <2>1, <2>2
  <2> QED
    BY <2>1, <2>2, <2>5, <2>6
<1>4. \A n \in DOMAIN jobs : a[n].status \in Lifecycle!Final
  <2>1. \A n \in DOMAIN jobs : jobs[n] \in ScanJob /\ jobs[n].status \notin Active
    BY DEF grown, has_active_job
  <2>2. \A n \in DOMAIN jobs : jobs[n].status \in {"done", "failed"}
    BY <2>1 DEF ScanJob, JobStatus, Active
  <2> QED
    BY <2>2, LifeOf DEF Lifecycle!Final
<1> HIDE DEF a, b, L
<1>5. b = Append(a, Lifecycle!Fresh)
  <2>1. Lifecycle!Fresh = b[Len(jobs) + 1] /\ Lifecycle!Fresh \in L
    BY <1>3 DEF Lifecycle!Fresh, L, JobStatus
  <2> QED
    BY <1>2, <1>3, <2>1
<1>6. a # <<>> => a[Len(a)].status \in Lifecycle!Final
  BY <1>2, <1>3, <1>4
<1>7. a = SubSeq(b, 1, Len(a))
  BY <1>2, <1>3
<1> QED
  BY <1>5, <1>6, <1>7 DEF Lifecycle!grows, a, b

\* Changes that no job's life shows are stuttering in JobLifecycle's view.
LEMMA SameLifeOf ==
    ASSUME NEW jobs \in Seq(ScanJob), NEW next \in Seq(ScanJob), same_life(jobs, next)
    PROVE  life_of(next) = life_of(jobs)
  BY DEF same_life, life_of

\* With LeaseBudget, workers, scheduler and API together implement the life of
\* a job: final jobs stay final, no attempt is lost or charged twice, and the
\* next job of an image waits for the last one.
THEOREM QueueImplementsLifecycle ==
    ASSUME LeaseBudget
    PROVE  Spec => ImplementsLifecycle
<1> DEFINE life == [i \in Images |-> life_of(scan_job[i])]
<1>1. Init => LeaseInv
  BY LeaseInvInit
<1>2. LeaseInv /\ [Next]_vars => LeaseInv'
  BY LeaseInvStep
<1>3. Init => Lifecycle!Init
  BY DEF Init, Lifecycle!Init, life_of
<1>4. LeaseInv /\ [Next]_vars => Lifecycle!Next
  <2> SUFFICES ASSUME LeaseInv, [Next]_vars, NEW i \in Images
               PROVE  \/ life'[i] = life[i]
                      \/ Lifecycle!moves(life[i], life'[i])
                      \/ Lifecycle!grows(life[i], life'[i])
                      \/ \E jobs \in {SubSeq(life'[i], 1, Len(life[i]))} :
                            Lifecycle!moves(life[i], jobs) /\ Lifecycle!grows(jobs, life'[i])
    BY DEF Lifecycle!Next
  <2>1. life[i] = life_of(scan_job[i]) /\ life'[i] = life_of(scan_job'[i])
    BY DEF life_of
  <2>2. scan_job[i] \in Seq(ScanJob) /\ scan_job'[i] \in Seq(ScanJob)
    BY TypeStep DEF LeaseInv, QueueInv, TypeOK
  <2>3. life_step(scan_job[i], scan_job'[i])
    BY LifeStep
  <2>4. CASE same_life(scan_job[i], scan_job'[i])
    BY <2>1, <2>2, <2>4, SameLifeOf
  <2>5. CASE Lifecycle!moves(scan_job[i], scan_job'[i])
    BY <2>1, <2>2, <2>5, MovesLife
  <2>6. CASE grown(scan_job[i], scan_job'[i])
    BY <2>1, <2>2, <2>6, GrownIsGrows
  <2>7. ASSUME NEW mid \in Seq(ScanJob), Lifecycle!moves(scan_job[i], mid),
               grown(mid, scan_job'[i])
        PROVE  \E jobs \in {SubSeq(life'[i], 1, Len(life[i]))} :
                  Lifecycle!moves(life[i], jobs) /\ Lifecycle!grows(jobs, life'[i])
    <3> DEFINE m == life_of(mid)
    <3>1. Lifecycle!moves(life[i], m)
      BY <2>1, <2>2, <2>7, MovesLife
    <3>2. Lifecycle!grows(m, life'[i]) /\ m = SubSeq(life'[i], 1, Len(m))
      BY <2>1, <2>2, <2>7, GrownIsGrows
    <3>3. Len(m) = Len(life[i])
      <4>1. DOMAIN mid = DOMAIN scan_job[i]
        BY <2>7 DEF Lifecycle!moves
      <4>2. Len(mid) = Len(scan_job[i])
        BY <2>2, <4>1
      <4>3. Len(m) = Len(mid) /\ Len(life[i]) = Len(scan_job[i])
        BY <2>1, <2>2, LifeOf
      <4> QED
        BY <4>2, <4>3
    <3> HIDE DEF m, life
    <3> QED
      BY <3>1, <3>2, <3>3
  <2> HIDE DEF life
  <2> QED
    BY <2>3, <2>4, <2>5, <2>6, <2>7 DEF life_step
<1> QED
  BY <1>1, <1>2, <1>3, <1>4, PTL DEF Spec, ImplementsLifecycle, Lifecycle!Spec

=============================================================================
