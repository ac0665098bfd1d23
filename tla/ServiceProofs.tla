--------------------------- MODULE ServiceProofs ---------------------------
(***************************************************************************)
(* Crashes and failover, for any number of images, workers and schedulers: *)
(* an execution that ended badly is charged once, a pass never replaces a  *)
(* job it did not find ended, and the order in which jobs may be claimed   *)
(* stays a linear order.                                                   *)
(***************************************************************************)
EXTENDS Service, TLAPS

\* Types of what the two properties depend on.
StaffTypes ==
    /\ job \in [Images -> Job]
    /\ worker \in [Workers -> Images \cup {"down", "polling"}]
    /\ scheduler \in [Schedulers -> Scheduler]
    /\ clients \subseteq Images
    /\ deaths \in [Images -> Nat]

\* Who executes a job: it is running, nobody else executes it, and it is not
\* among those whose lease ran out.
ExecutionsAreSole ==
    /\ \A w \in Workers : busy(w) => job[worker[w]].status = "running"
    /\ \A v, w \in Workers : busy(v) /\ worker[v] = worker[w] => v = w
    /\ \A i \in expired : i \in Images /\ job[i].status = "running" /\ scanned_by(i) = {}

\* What an open pass has reaped is locked until it commits: the lease has run
\* out, and no other pass has reaped it too.
ReapedRowsAreLocked ==
    /\ \A s \in Schedulers : scheduler[s].reaped \subseteq expired
    /\ \A r, s \in Schedulers : r # s => scheduler[r].reaped \cap scheduler[s].reaped = {}

\* Nothing is left charged to a job that ended.
EndedJobsAreClear == \A i \in Images : ~active(i) => deaths[i] = 0

ServiceInv ==
    /\ StaffTypes
    /\ ExecutionsAreSole
    /\ ReapedRowsAreLocked
    /\ EndedJobsAreClear
    /\ DeathsAreChargedOnce

-----------------------------------------------------------------------------
(* Rows.                                                                   *)

\* The columns of a job.
LEMMA JobColumns ==
    ASSUME NEW row \in Job
    PROVE  /\ row.status \in {"ended", "pending", "running"}
           /\ row.attempts \in Nat /\ row.attempts < MaxAttempts
           /\ row.urgent \in BOOLEAN
  BY ServiceAssumption DEF Job

\* The rows that an INSERT and a finished job leave are rows.
LEMMA PlainRows ==
    /\ no_job \in Job /\ no_job.status = "ended"
    /\ \A urgent \in BOOLEAN : /\ new_job(urgent) \in Job
                               /\ new_job(urgent).status = "pending"
                               /\ new_job(urgent).attempts = 0
  BY ServiceAssumption DEF Job, no_job, new_job

\* A job that lost an attempt has ended, or waits with one attempt more.
LEMMA AttemptLost ==
    ASSUME NEW row \in Job, NEW max \in {1, MaxAttempts}
    PROVE  /\ attempt_lost(row, max) \in Job
           /\ \/ attempt_lost(row, max) = no_job
              \/ /\ attempt_lost(row, max) # no_job
                 /\ attempt_lost(row, max).status = "pending"
                 /\ attempt_lost(row, max).attempts = row.attempts + 1
                 /\ attempt_lost(row, max).urgent = row.urgent
<1>1. CASE row.attempts + 1 >= max
  BY <1>1, PlainRows DEF attempt_lost
<1>2. CASE ~(row.attempts + 1 >= max)
  <2> DEFINE next == [row EXCEPT !.attempts = @ + 1, !.status = "pending"]
  <2>1. attempt_lost(row, max) = next
    BY <1>2 DEF attempt_lost
  <2>2. row.attempts + 1 \in 0..MaxAttempts - 1
    BY <1>2, JobColumns, ServiceAssumption
  <2>3. next \in Job
    BY <2>2 DEF Job
  <2>4. next.status = "pending" /\ next.attempts = row.attempts + 1 /\ next.urgent = row.urgent
    BY DEF Job
  <2>5. next # no_job
    BY <2>4, PlainRows
  <2> HIDE DEF next
  <2> QED
    BY <2>1, <2>3, <2>4, <2>5
<1> QED
  BY <1>1, <1>2

\* A job whose status alone changes.
LEMMA StatusChange ==
    ASSUME NEW row \in Job, NEW status \in {"pending", "running"}
    PROVE  /\ [row EXCEPT !.status = status] \in Job
           /\ [row EXCEPT !.status = status].status = status
           /\ [row EXCEPT !.status = status].attempts = row.attempts
           /\ [row EXCEPT !.status = status].urgent = row.urgent
           /\ [row EXCEPT !.status = status] # no_job
<1>1. /\ [row EXCEPT !.status = status] \in Job
      /\ [row EXCEPT !.status = status].status = status
      /\ [row EXCEPT !.status = status].attempts = row.attempts
      /\ [row EXCEPT !.status = status].urgent = row.urgent
  BY DEF Job
<1> QED
  BY <1>1, PlainRows

-----------------------------------------------------------------------------
(* Steps.                                                                  *)

\* A step of none of the parts that the invariant is about.
LEMMA QuietStep ==
    ASSUME ServiceInv, UNCHANGED <<job, expired, worker, scheduler, clients, deaths>>
    PROVE  ServiceInv'
  BY DEF ServiceInv, StaffTypes, ExecutionsAreSole, ReapedRowsAreLocked, EndedJobsAreClear,
         DeathsAreChargedOnce, active, busy, scanned_by

\* A worker claims a job.
LEMMA ClaimStep ==
    ASSUME ServiceInv, NEW w \in Workers, claim(w)
    PROVE  ServiceInv'
<1>1. PICK i \in Images : /\ job[i].status = "pending"
                          /\ job' = [job EXCEPT ![i].status = "running"]
                          /\ worker' = [worker EXCEPT ![w] = i]
  BY DEF claim, may_run
<1>2. UNCHANGED <<expired, scheduler, clients, deaths>> /\ worker[w] = "polling"
  BY DEF claim
<1>3. /\ job \in [Images -> Job] /\ worker \in [Workers -> Images \cup {"down", "polling"}]
      /\ deaths \in [Images -> Nat]
  BY DEF ServiceInv, StaffTypes
<1>4. /\ job' \in [Images -> Job]
      /\ job'[i].status = "running" /\ job'[i].attempts = job[i].attempts
      /\ \A j \in Images : j # i => job'[j] = job[j]
  BY <1>1, <1>3, StatusChange
<1>5. /\ worker' \in [Workers -> Images \cup {"down", "polling"}]
      /\ worker'[w] = i
      /\ \A v \in Workers : v # w => worker'[v] = worker[v]
  BY <1>1, <1>3
<1>6. ~busy(w)
  BY <1>2, ServiceAssumption DEF busy
<1>7. \A v \in Workers : worker[v] # i
  BY <1>1 DEF ServiceInv, ExecutionsAreSole, busy
<1>8. i \notin expired
  BY <1>1 DEF ServiceInv, ExecutionsAreSole
<1>9. \A j \in Images : j # i => scanned_by(j)' = scanned_by(j)
  BY <1>2, <1>5, ServiceAssumption DEF scanned_by
<1>10. scanned_by(i) = {} /\ scanned_by(i)' # {}
  BY <1>5, <1>7 DEF scanned_by
<1>11. StaffTypes'
  BY <1>2, <1>4, <1>5 DEF ServiceInv, StaffTypes
<1>12. ExecutionsAreSole'
  <2>1. \A v \in Workers : busy(v)' => job'[worker'[v]].status = "running"
    BY <1>1, <1>4, <1>5 DEF ServiceInv, ExecutionsAreSole, busy
  <2>2. \A u, v \in Workers : busy(u)' /\ worker'[u] = worker'[v] => u = v
    BY <1>5, <1>7 DEF ServiceInv, ExecutionsAreSole, busy
  <2>3. \A j \in expired' : j \in Images /\ job'[j].status = "running" /\ scanned_by(j)' = {}
    BY <1>2, <1>4, <1>8, <1>9 DEF ServiceInv, ExecutionsAreSole
  <2> QED
    BY <2>1, <2>2, <2>3 DEF ExecutionsAreSole
<1>13. ReapedRowsAreLocked'
  BY <1>2 DEF ServiceInv, ReapedRowsAreLocked
<1>14. EndedJobsAreClear'
  BY <1>2, <1>4 DEF ServiceInv, EndedJobsAreClear, active
<1>15. DeathsAreChargedOnce'
  <2>1. deaths[i] = job[i].attempts /\ deaths[i] \in Nat
    BY <1>1, <1>3, <1>10, JobColumns DEF ServiceInv, DeathsAreChargedOnce, active
  <2> QED
    BY <1>2, <1>4, <1>9, <1>10, <2>1 DEF ServiceInv, DeathsAreChargedOnce, active
<1> QED
  BY <1>11, <1>12, <1>13, <1>14, <1>15 DEF ServiceInv

\* An execution ends: the job has ended, or waits with what the execution cost.
LEMMA EndExecutionStep ==
    ASSUME ServiceInv, NEW w \in Workers, NEW row \in Job, NEW seen, NEW lost \in {0, 1},
           end_execution(w, row, seen, lost),
           \/ row = no_job
           \/ /\ row # no_job /\ row.status = "pending"
              /\ row.attempts = job[worker[w]].attempts + lost
    PROVE  ServiceInv'
<1>0. PICK i \in Images : i = worker[w]
  BY DEF end_execution, busy
<1>1. /\ job \in [Images -> Job] /\ worker \in [Workers -> Images \cup {"down", "polling"}]
      /\ deaths \in [Images -> Nat]
  BY DEF ServiceInv, StaffTypes
<1>2. UNCHANGED <<expired, scheduler, clients>>
  BY DEF end_execution
<1>3. /\ worker' \in [Workers -> Images \cup {"down", "polling"}]
      /\ worker'[w] = "polling" /\ worker'[w] \notin Images
      /\ \A v \in Workers : v # w => worker'[v] = worker[v]
  BY <1>1, ServiceAssumption DEF end_execution
<1>4. /\ job' \in [Images -> Job] /\ job'[i] = row
      /\ \A j \in Images : j # i => job'[j] = job[j]
  BY <1>0, <1>1 DEF end_execution
<1>5. /\ deaths'[i] = IF row = no_job THEN 0 ELSE deaths[i] + lost
      /\ \A j \in Images : j # i => deaths'[j] = deaths[j]
      /\ deaths' \in [Images -> Nat]
  BY <1>0, <1>1 DEF end_execution
<1>6. /\ job[i].status = "running" /\ scanned_by(i) # {} /\ i \notin expired
      /\ \A v \in Workers : v # w => worker[v] # i
  BY <1>0 DEF ServiceInv, ExecutionsAreSole, busy, scanned_by
<1>7. /\ scanned_by(i)' = {}
      /\ \A j \in Images : j # i => scanned_by(j)' = scanned_by(j)
  BY <1>0, <1>3, <1>6 DEF scanned_by
<1>8. deaths[i] = job[i].attempts
  BY <1>1, <1>6, JobColumns DEF ServiceInv, DeathsAreChargedOnce, active
<1>9. StaffTypes'
  BY <1>2, <1>3, <1>4, <1>5 DEF ServiceInv, StaffTypes
<1>10. ExecutionsAreSole'
  <2>1. \A v \in Workers : busy(v)' => v # w /\ worker'[v] = worker[v] /\ worker[v] # i /\ busy(v)
    BY <1>3, <1>6 DEF busy
  <2>2. \A v \in Workers : busy(v)' => job'[worker'[v]].status = "running"
    BY <1>4, <2>1 DEF ServiceInv, ExecutionsAreSole, busy
  <2>3. \A u, v \in Workers : busy(u)' /\ worker'[u] = worker'[v] => u = v
    BY <2>1 DEF ServiceInv, ExecutionsAreSole, busy
  <2>4. \A j \in expired' : j \in Images /\ job'[j].status = "running" /\ scanned_by(j)' = {}
    BY <1>2, <1>4, <1>6, <1>7 DEF ServiceInv, ExecutionsAreSole
  <2> QED
    BY <2>2, <2>3, <2>4 DEF ExecutionsAreSole
<1>11. ReapedRowsAreLocked'
  BY <1>2 DEF ServiceInv, ReapedRowsAreLocked
<1>12. row = no_job => row.status = "ended"
  BY PlainRows
<1>13. EndedJobsAreClear'
  BY <1>4, <1>5, <1>12 DEF ServiceInv, EndedJobsAreClear, active
<1>14. DeathsAreChargedOnce'
  <2>1. row # no_job => /\ row.status = "pending" /\ row.attempts = job[i].attempts + lost
                        /\ job[i].attempts \in Nat
    BY <1>0, <1>1, JobColumns
  <2>2. active(i)' => deaths'[i] = job'[i].attempts /\ job'[i].status = "pending"
    BY <1>4, <1>5, <1>8, <1>12, <2>1 DEF active
  <2>3. ASSUME NEW j \in Images, active(j)'
        PROVE  deaths'[j] = job'[j].attempts
                   + (IF job'[j].status = "running" /\ scanned_by(j)' = {} THEN 1 ELSE 0)
    <3>1. CASE j = i
      <4>1. job'[j].attempts \in Nat
        BY <1>4, JobColumns
      <4> QED
        BY <2>2, <2>3, <3>1, <4>1
    <3>2. CASE j # i
      BY <1>4, <1>5, <1>7, <2>3, <3>2 DEF ServiceInv, DeathsAreChargedOnce, active
    <3> QED
      BY <3>1, <3>2
  <2> QED
    BY <2>3 DEF DeathsAreChargedOnce
<1> QED
  BY <1>9, <1>10, <1>11, <1>13, <1>14 DEF ServiceInv

\* complete, fail and defer are such ends.
LEMMA EndsStep ==
    ASSUME ServiceInv, NEW w \in Workers, ends(w)
    PROVE  ServiceInv'
<1>1. CASE finish(w)
  BY <1>1, PlainRows, EndExecutionStep DEF finish
<1>2. ASSUME NEW permanent \in BOOLEAN, fail(w, permanent) PROVE ServiceInv'
  <2> DEFINE max == IF permanent THEN 1 ELSE MaxAttempts
             row == attempt_lost(job[worker[w]], max)
  <2>1. job[worker[w]] \in Job
    BY <1>2 DEF fail, busy, ServiceInv, StaffTypes
  <2>2. max \in {1, MaxAttempts}
    OBVIOUS
  <2>3. end_execution(w, row, TRUE, 1)
    BY <1>2 DEF fail
  <2> HIDE DEF max
  <2>4. /\ row \in Job
        /\ \/ row = no_job
           \/ /\ row # no_job /\ row.status = "pending"
              /\ row.attempts = job[worker[w]].attempts + 1
    BY <2>1, <2>2, AttemptLost
  <2> HIDE DEF row
  <2> QED
    BY <2>3, <2>4, EndExecutionStep
<1>3. CASE defer(w)
  <2> DEFINE row == [job[worker[w]] EXCEPT !.status = "pending"]
  <2>1. job[worker[w]] \in Job
    BY <1>3 DEF defer, busy, ServiceInv, StaffTypes
  <2>2. end_execution(w, row, FALSE, 0)
    BY <1>3 DEF defer
  <2>3. /\ row \in Job /\ row # no_job /\ row.status = "pending"
        /\ row.attempts = job[worker[w]].attempts
    BY <2>1, StatusChange
  <2>4. row.attempts = job[worker[w]].attempts + 0
    BY <2>1, <2>3, JobColumns
  <2> HIDE DEF row
  <2> QED
    BY <2>2, <2>3, <2>4, EndExecutionStep
<1> QED
  BY <1>1, <1>2, <1>3 DEF ends

\* A worker dies; if it dies in an execution, that one is a death of the job.
LEMMA KillWorkerStep ==
    ASSUME ServiceInv, NEW w \in Workers, kill_worker(w)
    PROVE  ServiceInv'
<1>1. /\ job \in [Images -> Job] /\ worker \in [Workers -> Images \cup {"down", "polling"}]
      /\ deaths \in [Images -> Nat]
  BY DEF ServiceInv, StaffTypes
<1>2. UNCHANGED <<job, expired, scheduler, clients>>
  BY DEF kill_worker
<1>3. /\ worker' \in [Workers -> Images \cup {"down", "polling"}]
      /\ worker'[w] \notin Images
      /\ \A v \in Workers : v # w => worker'[v] = worker[v]
  BY <1>1, ServiceAssumption DEF kill_worker
<1>4. \A v \in Workers : busy(v)' => v # w /\ worker'[v] = worker[v] /\ busy(v)
  BY <1>3 DEF busy
<1>5. \A j \in Images : j # worker[w] => scanned_by(j)' = scanned_by(j)
  BY <1>3 DEF scanned_by
<1>6. \A j \in Images : scanned_by(j) = {} => scanned_by(j)' = {}
  BY <1>3 DEF scanned_by
<1>7. /\ deaths' \in [Images -> Nat]
      /\ \A j \in Images : j # worker[w] => deaths'[j] = deaths[j]
      /\ busy(w) => deaths'[worker[w]] = deaths[worker[w]] + 1
  BY <1>1 DEF kill_worker, busy
<1>8. StaffTypes'
  BY <1>2, <1>3, <1>7 DEF ServiceInv, StaffTypes
<1>9. ExecutionsAreSole'
  <2>1. \A v \in Workers : busy(v)' => job'[worker'[v]].status = "running"
    BY <1>2, <1>4 DEF ServiceInv, ExecutionsAreSole
  <2>2. \A u, v \in Workers : busy(u)' /\ worker'[u] = worker'[v] => u = v
    <3> SUFFICES ASSUME NEW u \in Workers, NEW v \in Workers, busy(u)', worker'[u] = worker'[v]
                 PROVE  u = v
      OBVIOUS
    <3>1. busy(v)'
      BY DEF busy
    <3> QED
      BY <1>4, <3>1 DEF ServiceInv, ExecutionsAreSole
  <2>3. \A j \in expired' : j \in Images /\ job'[j].status = "running" /\ scanned_by(j)' = {}
    BY <1>2, <1>6 DEF ServiceInv, ExecutionsAreSole
  <2> QED
    BY <2>1, <2>2, <2>3 DEF ExecutionsAreSole
<1>10. ReapedRowsAreLocked'
  BY <1>2 DEF ServiceInv, ReapedRowsAreLocked
<1>11. busy(w) => job[worker[w]].status = "running"
  BY DEF ServiceInv, ExecutionsAreSole
<1>12. EndedJobsAreClear'
  BY <1>2, <1>7, <1>11 DEF ServiceInv, EndedJobsAreClear, active, busy
<1>13. ASSUME NEW j \in Images, active(j)'
       PROVE  deaths'[j] = job'[j].attempts
                  + (IF job'[j].status = "running" /\ scanned_by(j)' = {} THEN 1 ELSE 0)
  <2>1. CASE j = worker[w]
    <3>1. scanned_by(j) # {} /\ scanned_by(j)' = {}
      BY <1>3, <2>1 DEF scanned_by, ServiceInv, ExecutionsAreSole, busy
    <3>2. job[j].status = "running" /\ deaths'[j] = deaths[j] + 1
      BY <1>7, <1>11, <2>1 DEF busy
    <3>3. deaths[j] = job[j].attempts /\ job[j].attempts \in Nat
      BY <1>1, <3>1, <3>2, JobColumns DEF ServiceInv, DeathsAreChargedOnce, active
    <3> QED
      BY <1>2, <3>1, <3>2, <3>3
  <2>2. CASE j # worker[w]
    BY <1>2, <1>5, <1>7, <1>13, <2>2 DEF ServiceInv, DeathsAreChargedOnce, active
  <2> QED
    BY <2>1, <2>2
<1> QED
  BY <1>8, <1>9, <1>10, <1>12, <1>13 DEF ServiceInv, DeathsAreChargedOnce

\* A worker starts.
LEMMA StartWorkerStep ==
    ASSUME ServiceInv, NEW w \in Workers, start_worker(w)
    PROVE  ServiceInv'
<1>1. /\ worker \in [Workers -> Images \cup {"down", "polling"}]
      /\ UNCHANGED <<job, expired, scheduler, clients, deaths>>
  BY DEF ServiceInv, StaffTypes, start_worker
<1>2. /\ worker' \in [Workers -> Images \cup {"down", "polling"}]
      /\ worker[w] \notin Images /\ worker'[w] \notin Images
      /\ \A v \in Workers : v # w => worker'[v] = worker[v]
  BY <1>1, ServiceAssumption DEF start_worker
<1>3. \A j \in Images : scanned_by(j)' = scanned_by(j)
  BY <1>2 DEF scanned_by
<1>4. StaffTypes'
  BY <1>1, <1>2 DEF ServiceInv, StaffTypes
<1>5. ExecutionsAreSole'
  <2>1. \A v \in Workers : busy(v)' => v # w /\ worker'[v] = worker[v] /\ busy(v)
    BY <1>2 DEF busy
  <2>2. \A v \in Workers : busy(v)' => job'[worker'[v]].status = "running"
    BY <1>1, <2>1 DEF ServiceInv, ExecutionsAreSole
  <2>3. \A u, v \in Workers : busy(u)' /\ worker'[u] = worker'[v] => u = v
    <3> SUFFICES ASSUME NEW u \in Workers, NEW v \in Workers, busy(u)', worker'[u] = worker'[v]
                 PROVE  u = v
      OBVIOUS
    <3>1. busy(v)'
      BY DEF busy
    <3> QED
      BY <2>1, <3>1 DEF ServiceInv, ExecutionsAreSole
  <2>4. \A j \in expired' : j \in Images /\ job'[j].status = "running" /\ scanned_by(j)' = {}
    BY <1>1, <1>3 DEF ServiceInv, ExecutionsAreSole
  <2> QED
    BY <2>2, <2>3, <2>4 DEF ExecutionsAreSole
<1> QED
  BY <1>1, <1>3, <1>4, <1>5
  DEF ServiceInv, ReapedRowsAreLocked, EndedJobsAreClear, DeathsAreChargedOnce, active

\* The lease of a job that nobody executes runs out.
LEMMA LeaseStep ==
    ASSUME ServiceInv, NEW i \in Images, lease_runs_out(i)
    PROVE  ServiceInv'
<1>1. /\ UNCHANGED <<job, worker, scheduler, clients, deaths>> /\ expired' = expired \cup {i}
      /\ job[i].status = "running" /\ scanned_by(i) = {}
  BY DEF lease_runs_out
<1>2. \A j : UNCHANGED <<scanned_by(j), active(j)>>
  BY <1>1 DEF scanned_by, active
<1>3. \A w : UNCHANGED busy(w)
  BY <1>1 DEF busy
<1>4. ExecutionsAreSole'
  BY <1>1, <1>2, <1>3 DEF ServiceInv, ExecutionsAreSole
<1>5. ReapedRowsAreLocked'
  BY <1>1 DEF ServiceInv, ReapedRowsAreLocked
<1> QED
  BY <1>1, <1>2, <1>4, <1>5
  DEF ServiceInv, StaffTypes, EndedJobsAreClear, DeathsAreChargedOnce

\* Scheduler s goes on, and what it now has reaped is locked.
LEMMA SchedulerStep ==
    ASSUME ServiceInv, NEW s \in Schedulers, NEW next \in Scheduler,
           scheduler' = [scheduler EXCEPT ![s] = next],
           next.reaped \subseteq expired,
           \A r \in Schedulers \ {s} : scheduler[r].reaped \cap next.reaped = {},
           UNCHANGED <<job, expired, worker, clients, deaths>>
    PROVE  ServiceInv'
<1>1. scheduler \in [Schedulers -> Scheduler]
  BY DEF ServiceInv, StaffTypes
<1>2. /\ scheduler' \in [Schedulers -> Scheduler] /\ scheduler'[s] = next
      /\ \A r \in Schedulers : r # s => scheduler'[r] = scheduler[r]
  BY <1>1
<1>3. StaffTypes'
  BY <1>2 DEF ServiceInv, StaffTypes
<1>4. ReapedRowsAreLocked'
  <2>1. \A r \in Schedulers : scheduler'[r].reaped \subseteq expired
    BY <1>2 DEF ServiceInv, ReapedRowsAreLocked
  <2>2. ASSUME NEW q \in Schedulers, NEW r \in Schedulers, q # r
        PROVE  scheduler'[q].reaped \cap scheduler'[r].reaped = {}
    <3>1. CASE q = s
      BY <1>2, <2>2, <3>1
    <3>2. CASE r = s
      BY <1>2, <2>2, <3>2
    <3>3. CASE q # s /\ r # s
      BY <1>2, <2>2, <3>3 DEF ServiceInv, ReapedRowsAreLocked
    <3> QED
      BY <3>1, <3>2, <3>3
  <2> QED
    BY <2>1, <2>2 DEF ReapedRowsAreLocked
<1> QED
  BY <1>3, <1>4
  DEF ServiceInv, ExecutionsAreSole, EndedJobsAreClear, DeathsAreChargedOnce, active, busy,
      scanned_by

\* A scheduler outside of a pass.
LEMMA Asleep ==
    ASSUME NEW up \in BOOLEAN, NEW holds \in BOOLEAN
    PROVE  asleep(up, holds) \in Scheduler /\ asleep(up, holds).reaped = {}
  BY DEF asleep, Scheduler

\* The lock, the start of a pass, and every way a scheduler fails, stops or starts.
LEMMA SchedulersStep ==
    ASSUME ServiceInv, due \subseteq Images, NEW s \in Schedulers,
           try_scheduler_lock(s) \/ begin_tick(s) \/ outage(s) \/ start_scheduler(s)
    PROVE  ServiceInv'
<1>1. scheduler[s] \in Scheduler /\ expired \subseteq Images
  BY DEF ServiceInv, StaffTypes, ExecutionsAreSole
<1>2. CASE try_scheduler_lock(s)
  <2> DEFINE next == [scheduler[s] EXCEPT !.holds_lock = TRUE]
  <2>1. scheduler' = [scheduler EXCEPT ![s] = next]
    BY <1>2 DEF try_scheduler_lock
  <2>2. next \in Scheduler /\ next.reaped = scheduler[s].reaped
    BY <1>1 DEF Scheduler
  <2> HIDE DEF next
  <2>3. /\ next.reaped \subseteq expired
        /\ \A r \in Schedulers \ {s} : scheduler[r].reaped \cap next.reaped = {}
    BY <2>2 DEF ServiceInv, ReapedRowsAreLocked
  <2> QED
    BY <1>2, <2>1, <2>2, <2>3, SchedulerStep DEF try_scheduler_lock
<1>3. CASE begin_tick(s)
  <2>1. PICK rows \in reapable(s) :
            scheduler' = [scheduler EXCEPT ![s] =
                [@ EXCEPT !.step = "tick", !.reaped = rows, !.selected = due_images]]
    BY <1>3 DEF begin_tick
  <2> DEFINE next == [scheduler[s] EXCEPT !.step = "tick", !.reaped = rows,
                                          !.selected = due_images]
  <2>2. rows = expired /\ \A r \in Schedulers \ {s} : scheduler[r].reaped \cap rows = {}
    BY DEF reapable, locked_by_others
  <2>3. due_images \subseteq Images
    BY DEF due_images
  <2>4. next \in Scheduler /\ next.reaped = rows
    BY <1>1, <2>2, <2>3 DEF Scheduler
  <2>5. scheduler' = [scheduler EXCEPT ![s] = next]
    BY <2>1
  <2> HIDE DEF next
  <2> QED
    BY <1>3, <2>2, <2>4, <2>5, SchedulerStep DEF begin_tick
<1>4. ASSUME NEW up \in BOOLEAN, scheduler' = [scheduler EXCEPT ![s] = asleep(up, FALSE)],
             UNCHANGED <<job, expired, worker, clients, deaths>>
      PROVE  ServiceInv'
  <2>1. asleep(up, FALSE) \in Scheduler /\ asleep(up, FALSE).reaped = {}
    BY Asleep
  <2> QED
    BY <1>4, <2>1, SchedulerStep
<1>5. CASE lose_connection(s)
  BY <1>5, QuietStep DEF lose_connection
<1>6. CASE fail_tick(s)
  BY <1>4, <1>6 DEF fail_tick
<1>7. CASE stop_scheduler(s)
  BY <1>4, <1>7 DEF stop_scheduler
<1>8. CASE kill_scheduler(s)
  BY <1>4, <1>8 DEF kill_scheduler
<1>9. CASE start_scheduler(s)
  BY <1>4, <1>9 DEF start_scheduler
<1> QED
  BY <1>2, <1>3, <1>5, <1>6, <1>7, <1>8, <1>9 DEF outage

\* A pass commits: what it reaped is charged one attempt or has ended, and only
\* images without an active job get a new one.
LEMMA CommitTickStep ==
    ASSUME ServiceInv, NEW s \in Schedulers, commit_tick(s)
    PROVE  ServiceInv'
<1> DEFINE left(i) == i \notin scheduler[s].reaped \/ reaped(job[i]) # no_job
<1>0. PICK gone : gone = scheduler[s].reaped
  OBVIOUS
<1>1. /\ job \in [Images -> Job] /\ deaths \in [Images -> Nat]
      /\ scheduler \in [Schedulers -> Scheduler]
  BY DEF ServiceInv, StaffTypes
<1>2. /\ expired' = expired \ gone /\ UNCHANGED <<worker, clients>>
      /\ scheduler' = [scheduler EXCEPT ![s] = asleep(TRUE, TRUE)]
      /\ deaths' = [i \in Images |-> IF left(i) THEN deaths[i] ELSE 0]
      /\ job' = [i \in Images |-> IF i \in enqueued(s) THEN new_job(FALSE)
                                  ELSE IF i \in gone THEN reaped(job[i]) ELSE job[i]]
  BY <1>0 DEF commit_tick
<1>3. \A i \in gone : i \in expired /\ i \in Images /\ job[i].status = "running" /\ scanned_by(i) = {}
  BY <1>0 DEF ServiceInv, ReapedRowsAreLocked, ExecutionsAreSole
<1>4. \A i \in enqueued(s) : ~active(i)
  BY DEF enqueued
<1>5. \A i \in Images : UNCHANGED scanned_by(i)
  BY <1>2 DEF scanned_by
<1>6. ASSUME NEW i \in Images, i \in enqueued(s)
      PROVE  /\ job'[i] \in Job /\ job'[i].status = "pending" /\ job'[i].attempts = 0
             /\ deaths'[i] = 0 /\ i \notin gone /\ job[i].status # "running"
  <2>1. ~active(i) /\ i \notin gone
    BY <1>3, <1>4, <1>6 DEF active
  <2>2. deaths'[i] = deaths[i] /\ job'[i] = new_job(FALSE)
    BY <1>0, <1>2, <1>6, <2>1
  <2>3. deaths[i] = 0
    BY <2>1 DEF ServiceInv, EndedJobsAreClear
  <2> QED
    BY <2>1, <2>2, <2>3, PlainRows DEF active
<1>7. ASSUME NEW i \in Images, i \in gone
      PROVE  /\ job'[i] \in Job
             /\ \/ job'[i].status = "ended" /\ deaths'[i] = 0
                \/ job'[i].status = "pending" /\ deaths'[i] = job'[i].attempts
  <2>1. job[i].status = "running" /\ scanned_by(i) = {} /\ i \notin enqueued(s) /\ active(i)
    BY <1>3, <1>4, <1>7 DEF active
  <2>2. job'[i] = attempt_lost(job[i], MaxAttempts)
    BY <1>2, <1>7, <2>1 DEF reaped
  <2>3. deaths[i] = job[i].attempts + 1
    BY <2>1 DEF ServiceInv, DeathsAreChargedOnce
  <2>4. job[i] \in Job
    BY <1>1
  <2>5. deaths'[i] = IF attempt_lost(job[i], MaxAttempts) # no_job THEN deaths[i] ELSE 0
    BY <1>0, <1>2, <1>7 DEF reaped
  <2> QED
    BY <2>2, <2>3, <2>4, <2>5, AttemptLost, PlainRows
<1>8. ASSUME NEW i \in Images, i \notin gone, i \notin enqueued(s)
      PROVE  job'[i] = job[i] /\ deaths'[i] = deaths[i]
  BY <1>0, <1>2, <1>8
<1>9. /\ asleep(TRUE, TRUE) \in Scheduler /\ scheduler'[s].reaped = {}
      /\ \A r \in Schedulers : r # s => scheduler'[r] = scheduler[r]
      /\ scheduler' \in [Schedulers -> Scheduler]
  BY <1>1, <1>2, Asleep
<1>10. StaffTypes'
  <2>1. \A i \in Images : job'[i] \in Job
    BY <1>1, <1>6, <1>7, <1>8
  <2>2. job' \in [Images -> Job]
    BY <1>2, <2>1
  <2>3. deaths' \in [Images -> Nat]
    BY <1>1, <1>2
  <2> QED
    BY <1>2, <1>9, <2>2, <2>3 DEF ServiceInv, StaffTypes
<1>11. ExecutionsAreSole'
  <2>1. ASSUME NEW w \in Workers, busy(w)' PROVE job'[worker'[w]].status = "running"
    <3>1. PICK i \in Images : i = worker[w]
      BY <1>2, <2>1 DEF busy
    <3>2. job[i].status = "running" /\ scanned_by(i) # {}
      BY <3>1 DEF ServiceInv, ExecutionsAreSole, busy, scanned_by
    <3>3. i \notin gone /\ i \notin enqueued(s)
      BY <1>3, <1>4, <3>2 DEF active
    <3> QED
      BY <1>2, <1>8, <3>1, <3>2, <3>3
  <2>2. \A u, v \in Workers : busy(u)' /\ worker'[u] = worker'[v] => u = v
    BY <1>2 DEF ServiceInv, ExecutionsAreSole, busy
  <2>3. ASSUME NEW i \in expired'
        PROVE  i \in Images /\ job'[i].status = "running" /\ scanned_by(i)' = {}
    <3>1. i \in expired /\ i \notin gone
      BY <1>2
    <3>2. i \in Images /\ job[i].status = "running" /\ scanned_by(i) = {}
      BY <3>1 DEF ServiceInv, ExecutionsAreSole
    <3>3. i \notin enqueued(s)
      BY <1>4, <3>2 DEF active
    <3> QED
      BY <1>5, <1>8, <3>1, <3>2, <3>3
  <2> QED
    BY <2>1, <2>2, <2>3 DEF ExecutionsAreSole
<1>12. ReapedRowsAreLocked'
  <2>1. \A r \in Schedulers : r # s => scheduler[r].reaped \subseteq expired \ gone
    BY <1>0 DEF ServiceInv, ReapedRowsAreLocked
  <2>2. \A r \in Schedulers : scheduler'[r].reaped \subseteq expired'
    BY <1>2, <1>9, <2>1
  <2>3. ASSUME NEW q \in Schedulers, NEW r \in Schedulers, q # r
        PROVE  scheduler'[q].reaped \cap scheduler'[r].reaped = {}
    <3>1. CASE q = s \/ r = s
      BY <1>9, <3>1
    <3>2. CASE q # s /\ r # s
      BY <1>9, <2>3, <3>2 DEF ServiceInv, ReapedRowsAreLocked
    <3> QED
      BY <3>1, <3>2
  <2> QED
    BY <2>2, <2>3 DEF ReapedRowsAreLocked
<1>13. EndedJobsAreClear'
  <2> SUFFICES ASSUME NEW i \in Images, ~active(i)' PROVE deaths'[i] = 0
    BY DEF EndedJobsAreClear
  <2>1. CASE i \in enqueued(s)
    BY <1>6, <2>1
  <2>2. CASE i \in gone
    BY <1>7, <2>2 DEF active
  <2>3. CASE i \notin enqueued(s) /\ i \notin gone
    BY <1>8, <2>3 DEF ServiceInv, EndedJobsAreClear, active
  <2> QED
    BY <2>1, <2>2, <2>3
<1>14. DeathsAreChargedOnce'
  <2> SUFFICES ASSUME NEW i \in Images, active(i)'
               PROVE  deaths'[i] = job'[i].attempts
                        + (IF job'[i].status = "running" /\ scanned_by(i)' = {} THEN 1 ELSE 0)
    BY DEF DeathsAreChargedOnce
  <2>1. CASE i \in enqueued(s)
    BY <1>6, <2>1
  <2>2. CASE i \in gone
    <3>1. job'[i].status = "pending" /\ deaths'[i] = job'[i].attempts /\ job'[i].attempts \in Nat
      BY <1>7, <2>2, JobColumns DEF active
    <3> QED
      BY <3>1
  <2>3. CASE i \notin enqueued(s) /\ i \notin gone
    BY <1>5, <1>8, <2>3 DEF ServiceInv, DeathsAreChargedOnce, active
  <2> QED
    BY <2>1, <2>2, <2>3
<1> QED
  BY <1>10, <1>11, <1>12, <1>13, <1>14 DEF ServiceInv

\* A request writes the row of a job that is not running.
LEMMA RowStep ==
    ASSUME ServiceInv, NEW i \in Images, NEW row \in Job, job[i].status # "running",
           row.status = "pending", row.attempts = deaths[i],
           job' = [job EXCEPT ![i] = row], clients' \subseteq Images,
           UNCHANGED <<expired, worker, scheduler, deaths>>
    PROVE  ServiceInv'
<1>1. /\ job \in [Images -> Job] /\ deaths \in [Images -> Nat]
  BY DEF ServiceInv, StaffTypes
<1>2. /\ job' \in [Images -> Job] /\ job'[i] = row
      /\ \A j \in Images : j # i => job'[j] = job[j]
  BY <1>1
<1>3. \A j : UNCHANGED scanned_by(j)
  BY DEF scanned_by
<1>4. \A w : UNCHANGED busy(w)
  BY DEF busy
<1>5. i \notin expired /\ \A w \in Workers : busy(w) => worker[w] \in Images /\ worker[w] # i
  BY DEF ServiceInv, ExecutionsAreSole, busy
<1>6. StaffTypes'
  BY <1>2 DEF ServiceInv, StaffTypes
<1>7. ExecutionsAreSole'
  BY <1>2, <1>3, <1>4, <1>5 DEF ServiceInv, ExecutionsAreSole
<1>8. EndedJobsAreClear'
  BY <1>2 DEF ServiceInv, EndedJobsAreClear, active
<1>9. DeathsAreChargedOnce'
  BY <1>1, <1>2, <1>3 DEF ServiceInv, DeathsAreChargedOnce, active
<1>10. ReapedRowsAreLocked'
  BY DEF ServiceInv, ReapedRowsAreLocked
<1> QED
  BY <1>6, <1>7, <1>8, <1>9, <1>10 DEF ServiceInv

\* The INSERT of a request.
LEMMA RequestStep ==
    ASSUME ServiceInv, NEW i \in Images, NEW urgent \in BOOLEAN, request_scan(i, urgent)
    PROVE  ServiceInv'
<1>1. job \in [Images -> Job]
  BY DEF ServiceInv, StaffTypes
<1>2. CASE active(i)
  <2>1. clients' \subseteq Images /\ UNCHANGED <<job, expired, worker, scheduler, deaths>>
    BY <1>2 DEF request_scan, ServiceInv, StaffTypes
  <2>2. \A j : UNCHANGED <<scanned_by(j), active(j), busy(j)>>
    BY <2>1 DEF scanned_by, active, busy
  <2>3. StaffTypes'
    BY <2>1 DEF ServiceInv, StaffTypes
  <2> QED
    BY <2>1, <2>2, <2>3
    DEF ServiceInv, ExecutionsAreSole, ReapedRowsAreLocked, EndedJobsAreClear,
        DeathsAreChargedOnce
<1>3. CASE ~active(i)
  <2>1. /\ job' = [job EXCEPT ![i] = new_job(urgent)] /\ clients' = clients
        /\ UNCHANGED <<expired, worker, scheduler, deaths>>
    BY <1>3 DEF request_scan
  <2>2. job[i].status # "running" /\ deaths[i] = 0
    BY <1>3 DEF active, ServiceInv, EndedJobsAreClear
  <2>3. /\ new_job(urgent) \in Job /\ new_job(urgent).status = "pending"
        /\ new_job(urgent).attempts = deaths[i]
    BY <2>2, PlainRows
  <2>4. clients' \subseteq Images
    BY <2>1 DEF ServiceInv, StaffTypes
  <2> QED
    BY <2>1, <2>2, <2>3, <2>4, RowStep
<1> QED
  BY <1>2, <1>3

\* The UPDATE of an urgent request.
LEMMA PromoteStep ==
    ASSUME ServiceInv, NEW i \in Images, promote(i)
    PROVE  ServiceInv'
<1>1. /\ job \in [Images -> Job] /\ clients' \subseteq Images
      /\ UNCHANGED <<expired, worker, scheduler, deaths>>
  BY DEF ServiceInv, StaffTypes, promote
<1>2. CASE promotable(i)
  <2> DEFINE row == [job[i] EXCEPT !.urgent = TRUE]
  <2>1. job' = [job EXCEPT ![i] = row]
    BY <1>2 DEF promote
  <2>2. job[i].status = "pending" /\ job[i] \in Job
    BY <1>1, <1>2 DEF promotable
  <2>3. row \in Job /\ row.status = "pending" /\ row.attempts = job[i].attempts
    BY <2>2 DEF Job
  <2>4. deaths[i] = job[i].attempts
    BY <2>2, JobColumns DEF ServiceInv, DeathsAreChargedOnce, active
  <2>5. row.attempts = deaths[i] /\ job[i].status # "running"
    BY <2>2, <2>3, <2>4
  <2> HIDE DEF row
  <2> QED
    BY <1>1, <2>1, <2>3, <2>5, RowStep
<1>3. CASE ~promotable(i)
  <2>1. UNCHANGED job
    BY <1>3 DEF promote
  <2>2. \A j : UNCHANGED <<scanned_by(j), active(j), busy(j)>>
    BY <1>1, <2>1 DEF scanned_by, active, busy
  <2>3. StaffTypes'
    BY <1>1, <2>1 DEF ServiceInv, StaffTypes
  <2> QED
    BY <1>1, <2>1, <2>2, <2>3
    DEF ServiceInv, ExecutionsAreSole, ReapedRowsAreLocked, EndedJobsAreClear,
        DeathsAreChargedOnce
<1> QED
  BY <1>2, <1>3

\* Only images become due.
LEMMA DueStep == due \subseteq Images /\ [Next]_vars => (due \subseteq Images)'
<1> SUFFICES ASSUME due \subseteq Images, [Next]_vars PROVE due' \subseteq Images
  OBVIOUS
<1>1. ASSUME NEW w \in Workers, claim(w) \/ ends(w) \/ kill_worker(w) \/ start_worker(w)
      PROVE  due' \subseteq Images
  BY <1>1 DEF claim, ends, finish, fail, defer, end_execution, kill_worker, start_worker
<1>2. ASSUME NEW s \in Schedulers, passes(s) \/ outage(s) \/ start_scheduler(s)
      PROVE  due' \subseteq Images
  BY <1>2 DEF passes, try_scheduler_lock, begin_tick, commit_tick, outage, fail_tick,
              lose_connection, stop_scheduler, kill_scheduler, start_scheduler
<1>3. ASSUME NEW i \in Images, NEW urgent \in BOOLEAN,
             time_passes(i) \/ promote(i) \/ request_scan(i, urgent)
      PROVE  due' \subseteq Images
  BY <1>3 DEF time_passes, lease_runs_out, delay_passes, becomes_due, promote, request_scan
<1>4. CASE drop_orphan \/ UNCHANGED vars
  BY <1>4 DEF drop_orphan, vars
<1> QED
  BY <1>1, <1>2, <1>3, <1>4 DEF Next

-----------------------------------------------------------------------------
(* The theorems.                                                           *)

\* At the start no job has ever been, and every process idles.
LEMMA ServiceInvInit == Init => ServiceInv /\ due \subseteq Images
<1> SUFFICES ASSUME Init PROVE ServiceInv /\ due \subseteq Images
  OBVIOUS
<1>1. \A w \in Workers : worker[w] = "polling" /\ ~busy(w)
  BY ServiceAssumption DEF Init, busy
<1>2. \A i \in Images : job[i] = no_job /\ ~active(i) /\ deaths[i] = 0
  BY PlainRows DEF Init, active
<1>3. \A s \in Schedulers : scheduler[s] \in Scheduler /\ scheduler[s].reaped = {}
  BY Asleep DEF Init
<1>4. StaffTypes
  BY PlainRows, Asleep DEF Init, StaffTypes
<1>5. ExecutionsAreSole /\ ReapedRowsAreLocked
  BY <1>1, <1>3 DEF Init, ExecutionsAreSole, ReapedRowsAreLocked
<1>6. EndedJobsAreClear /\ DeathsAreChargedOnce
  BY <1>2 DEF EndedJobsAreClear, DeathsAreChargedOnce
<1> QED
  BY <1>4, <1>5, <1>6 DEF ServiceInv, Init

\* Every step keeps the inductive invariant.
LEMMA ServiceInvStep == ServiceInv /\ due \subseteq Images /\ [Next]_vars => ServiceInv'
<1> SUFFICES ASSUME ServiceInv, due \subseteq Images, [Next]_vars PROVE ServiceInv'
  OBVIOUS
<1>1. ASSUME NEW w \in Workers, claim(w) \/ ends(w) \/ kill_worker(w) \/ start_worker(w)
      PROVE  ServiceInv'
  BY <1>1, ClaimStep, EndsStep, KillWorkerStep, StartWorkerStep
<1>2. ASSUME NEW s \in Schedulers, passes(s) \/ outage(s) \/ start_scheduler(s)
      PROVE  ServiceInv'
  BY <1>2, SchedulersStep, CommitTickStep DEF passes
<1>3. ASSUME NEW i \in Images, time_passes(i) PROVE ServiceInv'
  <2>1. CASE lease_runs_out(i)
    BY <2>1, LeaseStep
  <2>2. CASE delay_passes(i) \/ becomes_due(i)
    BY <2>2, QuietStep DEF delay_passes, becomes_due
  <2> QED
    BY <1>3, <2>1, <2>2 DEF time_passes
<1>4. ASSUME NEW i \in Images, promote(i) PROVE ServiceInv'
  BY <1>4, PromoteStep
<1>5. ASSUME NEW i \in Images, NEW urgent \in BOOLEAN, request_scan(i, urgent) PROVE ServiceInv'
  BY <1>5, RequestStep
<1>6. CASE drop_orphan \/ UNCHANGED vars
  BY <1>6, QuietStep DEF drop_orphan, vars
<1> QED
  BY <1>1, <1>2, <1>3, <1>4, <1>5, <1>6 DEF Next

\* The inductive invariant of the service holds in every state.
LEMMA ServiceInvHolds == Spec => [](ServiceInv /\ due \subseteq Images)
<1>1. Init => ServiceInv /\ due \subseteq Images
  BY ServiceInvInit
<1>2. (ServiceInv /\ due \subseteq Images) /\ [Next]_vars
          => (ServiceInv /\ due \subseteq Images)'
  BY ServiceInvStep, DueStep
<1> QED
  BY <1>1, <1>2, PTL DEF Spec

\* Every execution that ended badly, a killed worker's included, costs its job
\* one attempt and no more (fail, reap_expired_leases), for any number of
\* workers and of schedulers whose passes overlap.
THEOREM DeathsChargedOnce == Spec => []DeathsAreChargedOnce
<1>1. ServiceInv /\ due \subseteq Images => DeathsAreChargedOnce
  BY DEF ServiceInv
<1> QED
  BY <1>1, ServiceInvHolds, PTL

\* What a step may do to the row of a job that is active and stays so.
row_follows(i) ==
    /\ job'[i].attempts >= job[i].attempts
    /\ job[i].urgent => job'[i].urgent
    /\ job[i].status = "running" /\ job'[i].status = "pending" =>
          i \in expired \/ scanned_by(i) # {}

\* A row that does not change is followed by itself.
LEMMA SameRowFollows ==
    ASSUME StaffTypes, NEW i \in Images, job'[i] = job[i]
    PROVE  row_follows(i)
<1>1. job[i].attempts \in Nat
  BY JobColumns DEF StaffTypes
<1>2. job'[i].attempts >= job[i].attempts
  BY <1>1
<1> QED
  BY <1>2 DEF row_follows

\* No worker's step replaces an active job.
LEMMA WorkerFollows ==
    ASSUME ServiceInv, NEW w \in Workers, claim(w) \/ ends(w) \/ kill_worker(w) \/ start_worker(w),
           NEW i \in Images, active(i), job'[i].status # "ended"
    PROVE  row_follows(i)
<1>0. StaffTypes /\ job \in [Images -> Job] /\ job[i] \in Job
  BY DEF ServiceInv, StaffTypes
<1>1. CASE job'[i] = job[i]
  BY <1>0, <1>1, SameRowFollows
<1>2. CASE job'[i] # job[i] /\ claim(w)
  <2>1. PICK j \in Images : /\ job[j].status = "pending"
                            /\ job' = [job EXCEPT ![j].status = "running"]
    BY <1>2 DEF claim, may_run
  <2>2. job'[i] = [job[i] EXCEPT !.status = "running"] /\ job[i].status = "pending"
    BY <1>0, <1>2, <2>1
  <2>3. /\ job'[i].attempts = job[i].attempts /\ job'[i].urgent = job[i].urgent
        /\ job[i].attempts \in Nat
    BY <1>0, <2>2, StatusChange, JobColumns
  <2>4. job'[i].attempts >= job[i].attempts
    BY <2>3
  <2> QED
    BY <2>2, <2>3, <2>4 DEF row_follows
<1>3. CASE job'[i] # job[i] /\ ends(w)
  <2>1. i = worker[w]
    BY <1>0, <1>3 DEF ends, finish, fail, defer, end_execution, busy
  <2>2. scanned_by(i) # {}
    BY <2>1 DEF scanned_by
  <2>3. \/ job'[i] = no_job
        \/ \E max \in {1, MaxAttempts} : job'[i] = attempt_lost(job[i], max)
        \/ job'[i] = [job[i] EXCEPT !.status = "pending"]
    BY <1>0, <1>3, <2>1 DEF ends, finish, fail, defer, end_execution
  <2>4. /\ job'[i].attempts \in {job[i].attempts, job[i].attempts + 1}
        /\ job'[i].urgent = job[i].urgent
    <3>1. job'[i] # no_job
      BY PlainRows
    <3>2. ASSUME NEW max \in {1, MaxAttempts}, job'[i] = attempt_lost(job[i], max)
          PROVE  job'[i].attempts = job[i].attempts + 1 /\ job'[i].urgent = job[i].urgent
      BY <1>0, <3>1, <3>2, AttemptLost
    <3>3. ASSUME job'[i] = [job[i] EXCEPT !.status = "pending"]
          PROVE  job'[i].attempts = job[i].attempts /\ job'[i].urgent = job[i].urgent
      BY <1>0, <3>3, StatusChange
    <3> QED
      BY <2>3, <3>1, <3>2, <3>3
  <2>5. job'[i].attempts >= job[i].attempts
    BY <1>0, <2>4, JobColumns
  <2> QED
    BY <2>2, <2>4, <2>5 DEF row_follows
<1>4. CASE kill_worker(w) \/ start_worker(w)
  BY <1>0, <1>4, SameRowFollows DEF kill_worker, start_worker
<1> QED
  BY <1>1, <1>2, <1>3, <1>4

\* Nor does the pass of a scheduler, or a request.
LEMMA OthersFollow ==
    ASSUME ServiceInv, NEW i \in Images, active(i), job'[i].status # "ended",
           \/ \E s \in Schedulers : passes(s)
           \/ \E j \in Images : promote(j) \/ \E urgent \in BOOLEAN : request_scan(j, urgent)
    PROVE  row_follows(i)
<1>0. StaffTypes /\ job \in [Images -> Job] /\ job[i] \in Job
  BY DEF ServiceInv, StaffTypes
<1>1. CASE job'[i] = job[i]
  BY <1>0, <1>1, SameRowFollows
<1>2. ASSUME NEW s \in Schedulers, passes(s), job'[i] # job[i] PROVE row_follows(i)
  <2>1. commit_tick(s)
    BY <1>2 DEF passes, try_scheduler_lock, begin_tick
  <2>2. i \notin enqueued(s)
    BY DEF enqueued
  <2>3. i \in scheduler[s].reaped /\ job'[i] = attempt_lost(job[i], MaxAttempts)
    BY <1>2, <2>1, <2>2 DEF commit_tick, reaped
  <2>4. i \in expired
    BY <2>3 DEF ServiceInv, ReapedRowsAreLocked
  <2>5. job'[i].attempts = job[i].attempts + 1 /\ job'[i].urgent = job[i].urgent
    BY <1>0, <2>3, AttemptLost, PlainRows
  <2>6. job'[i].attempts >= job[i].attempts
    BY <1>0, <2>5, JobColumns
  <2> QED
    BY <2>4, <2>5, <2>6 DEF row_follows
<1>3. ASSUME NEW j \in Images, promote(j), job'[i] # job[i] PROVE row_follows(i)
  <2>1. job'[i] = [job[i] EXCEPT !.urgent = TRUE] /\ job[i].status = "pending"
    BY <1>0, <1>3 DEF promote, promotable
  <2>2. job'[i].attempts = job[i].attempts /\ job'[i].urgent = TRUE
    BY <1>0, <2>1 DEF Job
  <2>3. job'[i].attempts >= job[i].attempts
    BY <1>0, <2>2, JobColumns
  <2> QED
    BY <2>1, <2>2, <2>3 DEF row_follows
<1>4. ASSUME NEW j \in Images, NEW urgent \in BOOLEAN, request_scan(j, urgent)
      PROVE  row_follows(i)
  <2>1. job'[i] = job[i]
    BY <1>0, <1>4 DEF request_scan
  <2> QED
    BY <1>0, <2>1, SameRowFollows
<1> QED
  BY <1>1, <1>2, <1>3, <1>4

\* A step never replaces an active job: neither the pass of a scheduler that acts
\* on images it found due a statement ago (build_enqueue_statement), nor a
\* request, nor a worker.  A running job goes back to pending only by its worker
\* or after its lease.
THEOREM ActiveJobsAreNotReplaced == Spec => NewJobsFollowEndedOnes
<1>1. ServiceInv /\ [Next]_vars
      => [\A i \in Images : active(i) /\ job'[i].status # "ended" =>
             /\ job'[i].attempts >= job[i].attempts
             /\ job[i].urgent => job'[i].urgent
             /\ job[i].status = "running" /\ job'[i].status = "pending" =>
                   i \in expired \/ scanned_by(i) # {}]_vars
  <2> SUFFICES ASSUME ServiceInv, Next, NEW i \in Images, active(i), job'[i].status # "ended"
               PROVE  row_follows(i)
    BY DEF row_follows
  <2>1. StaffTypes
    BY DEF ServiceInv
  <2>2. ASSUME NEW w \in Workers, claim(w) \/ ends(w) \/ kill_worker(w) \/ start_worker(w)
        PROVE  row_follows(i)
    BY <2>2, WorkerFollows
  <2>3. ASSUME NEW s \in Schedulers, passes(s) \/ outage(s) \/ start_scheduler(s)
        PROVE  row_follows(i)
    <3>1. CASE passes(s)
      BY <3>1, OthersFollow
    <3>2. CASE outage(s) \/ start_scheduler(s)
      BY <2>1, <3>2, SameRowFollows
      DEF outage, fail_tick, lose_connection, stop_scheduler, kill_scheduler, start_scheduler
    <3> QED
      BY <2>3, <3>1, <3>2
  <2>4. ASSUME NEW j \in Images, time_passes(j) PROVE row_follows(i)
    BY <2>1, <2>4, SameRowFollows DEF time_passes, lease_runs_out, delay_passes, becomes_due
  <2>5. ASSUME NEW j \in Images, promote(j) \/ \E urgent \in BOOLEAN : request_scan(j, urgent)
        PROVE  row_follows(i)
    BY <2>5, OthersFollow
  <2>6. CASE drop_orphan
    BY <2>1, <2>6, SameRowFollows DEF drop_orphan
  <2> QED
    BY <2>2, <2>3, <2>4, <2>5, <2>6 DEF Next
<1> QED
  BY <1>1, ServiceInvHolds, PTL DEF Spec, NewJobsFollowEndedOnes

-----------------------------------------------------------------------------
(* The order of the jobs that may run.                                     *)

\* Jobs that leave the order leave it an order of the others.
LEMMA WithoutOrder ==
    ASSUME NEW R, is_order(R), NEW gone
    PROVE  is_order(without(R, gone)) /\ ordered(without(R, gone)) = ordered(R) \ gone
<1>1. \A i, j : <<i, j>> \in without(R, gone) <=> <<i, j>> \in R /\ i \notin gone /\ j \notin gone
  BY DEF without
<1>2. ordered(without(R, gone)) = ordered(R) \ gone
  BY <1>1 DEF ordered
<1>3. without(R, gone) \subseteq ordered(without(R, gone)) \X ordered(without(R, gone))
  BY <1>2 DEF is_order, without
<1> QED
  BY <1>1, <1>2, <1>3 DEF is_order

\* Jobs that come after all others make one order with them.
LEMMA FollowedByOrder ==
    ASSUME NEW R, NEW S, is_order(R), is_order(S), ordered(R) \cap ordered(S) = {}
    PROVE  /\ is_order(followed_by(R, S))
           /\ ordered(followed_by(R, S)) = ordered(R) \cup ordered(S)
<1> DEFINE both == followed_by(R, S)
<1>1. \A i, j : <<i, j>> \in both <=>
          <<i, j>> \in R \/ <<i, j>> \in S \/ (i \in ordered(R) /\ j \in ordered(S))
  BY DEF followed_by
<1>2. /\ \A i, j : <<i, j>> \in R => i \in ordered(R) /\ j \in ordered(R)
      /\ \A i, j : <<i, j>> \in S => i \in ordered(S) /\ j \in ordered(S)
  BY DEF is_order
<1>3. ordered(both) = ordered(R) \cup ordered(S)
  <2>1. \A i \in Images : <<i, i>> \in both <=> <<i, i>> \in R \/ <<i, i>> \in S
    BY <1>1
  <2> HIDE DEF both
  <2> QED
    BY <2>1 DEF ordered
<1>4. both \subseteq ordered(both) \X ordered(both)
  BY <1>3 DEF is_order, followed_by
<1> HIDE DEF both
<1>5. \A i, j \in ordered(both) : <<i, j>> \in both \/ <<j, i>> \in both
  BY <1>1, <1>3 DEF is_order
<1>6. \A i, j \in ordered(both) : <<i, j>> \in both /\ <<j, i>> \in both => i = j
  BY <1>1, <1>2, <1>3 DEF is_order
<1>7. \A i, j, k \in ordered(both) :
          <<i, j>> \in both /\ <<j, k>> \in both => <<i, k>> \in both
  BY <1>1, <1>2, <1>3 DEF is_order
<1> QED
  BY <1>3, <1>4, <1>5, <1>6, <1>7 DEF is_order, both

\* A job by itself.
LEMMA OneJobOrder ==
    ASSUME NEW i \in Images
    PROVE  is_order({<<i, i>>}) /\ ordered({<<i, i>>}) = {i}
<1>1. \A j, k : <<j, k>> \in {<<i, i>>} <=> j = i /\ k = i
  OBVIOUS
<1>2. ordered({<<i, i>>}) = {i}
  BY <1>1 DEF ordered
<1> QED
  BY <1>1, <1>2 DEF is_order

\* scheduled_for orders active jobs.
OrderInv == is_order(order) /\ \A i \in ordered(order) : job[i].status # "ended"

\* A step that leaves the order alone and ends no job.
LEMMA SameOrder ==
    ASSUME OrderInv, UNCHANGED order,
           \A i \in Images : job[i].status # "ended" => job'[i].status # "ended"
    PROVE  OrderInv'
<1>1. ordered(order) \subseteq Images
  BY DEF ordered
<1> QED
  BY <1>1 DEF OrderInv

\* Executions: an image leaves the order when its execution ends.
LEMMA WorkerOrder ==
    ASSUME ServiceInv, OrderInv, NEW w \in Workers,
           claim(w) \/ ends(w) \/ kill_worker(w) \/ start_worker(w)
    PROVE  OrderInv'
<1>1. job \in [Images -> Job]
  BY DEF ServiceInv, StaffTypes
<1>2. CASE claim(w)
  <2>1. PICK i \in Images : job' = [job EXCEPT ![i].status = "running"]
    BY <1>2 DEF claim
  <2>2. [job[i] EXCEPT !.status = "running"].status = "running"
    BY <1>1, StatusChange
  <2>3. \A j \in Images : job[j].status # "ended" => job'[j].status # "ended"
    BY <1>1, <2>1, <2>2
  <2> QED
    BY <1>2, <2>3, SameOrder DEF claim
<1>3. CASE ends(w)
  <2>1. PICK row, seen, lost : end_execution(w, row, seen, lost)
    BY <1>3 DEF ends, finish, fail, defer
  <2>2. /\ busy(w) /\ worker[w] \in Images
        /\ job' = [job EXCEPT ![worker[w]] = row]
        /\ order' = without(order, {worker[w]})
    BY <2>1 DEF end_execution, busy
  <2>3. is_order(order') /\ ordered(order') = ordered(order) \ {worker[w]}
    BY <2>2, WithoutOrder DEF OrderInv
  <2>4. \A i \in ordered(order') : job'[i] = job[i]
    BY <1>1, <2>2, <2>3 DEF ordered
  <2> QED
    BY <2>3, <2>4 DEF OrderInv
<1>4. CASE kill_worker(w) \/ start_worker(w)
  BY <1>4, SameOrder DEF kill_worker, start_worker
<1> QED
  BY <1>2, <1>3, <1>4

\* Passes: what is reaped for good leaves the order, what is enqueued comes last.
LEMMA CommitTickOrder ==
    ASSUME ServiceInv, OrderInv, due \subseteq Images, NEW s \in Schedulers, commit_tick(s)
    PROVE  OrderInv'
<1> DEFINE gone == scheduler[s].reaped
           new == enqueued(s)
           lost == {i \in gone : reaped(job[i]) = no_job}
<1>1. /\ job \in [Images -> Job] /\ scheduler[s] \in Scheduler
      /\ gone \subseteq expired /\ \A i \in expired : job[i].status = "running"
  BY DEF ServiceInv, StaffTypes, ReapedRowsAreLocked, ExecutionsAreSole
<1>2. new \subseteq Images /\ \A i \in new : ~active(i)
  BY <1>1 DEF enqueued, Scheduler
<1>3. \A i \in Images : job'[i] = IF i \in new THEN new_job(FALSE)
                                  ELSE IF i \in gone THEN reaped(job[i]) ELSE job[i]
  BY DEF commit_tick
<1>4. PICK added : /\ ordered(added) = new /\ is_order(added)
                   /\ order' = followed_by(without(order, lost), added)
  BY DEF commit_tick
<1> HIDE DEF new, gone
<1>5. is_order(without(order, lost)) /\ ordered(without(order, lost)) = ordered(order) \ lost
  BY WithoutOrder DEF OrderInv
<1>6. ordered(order) \cap new = {}
  BY <1>1, <1>2, JobColumns DEF OrderInv, active, ordered
<1>7. is_order(order') /\ ordered(order') = (ordered(order) \ lost) \cup new
  BY <1>4, <1>5, <1>6, FollowedByOrder
<1>8. ASSUME NEW i \in ordered(order') PROVE job'[i].status # "ended"
  <2>0. i \in Images
    BY DEF ordered
  <2>1. CASE i \in new
    BY <1>3, <2>0, <2>1, PlainRows
  <2>2. CASE i \notin new /\ i \in gone
    <3>1. reaped(job[i]) # no_job
      BY <1>7, <1>8, <2>2
    <3>2. reaped(job[i]).status = "pending"
      BY <1>1, <2>0, <3>1, AttemptLost DEF reaped
    <3> QED
      BY <1>3, <2>0, <2>2, <3>2
  <2>3. CASE i \notin new /\ i \notin gone
    BY <1>3, <1>7, <1>8, <2>0, <2>3 DEF OrderInv
  <2> QED
    BY <2>1, <2>2, <2>3
<1> QED
  BY <1>7, <1>8 DEF OrderInv

\* Requests, and delays that pass: the job comes last.
LEMMA RequestOrder ==
    ASSUME ServiceInv, OrderInv, NEW i \in Images, NEW urgent \in BOOLEAN,
           request_scan(i, urgent) \/ promote(i) \/ time_passes(i)
    PROVE  OrderInv'
<1>1. job \in [Images -> Job]
  BY DEF ServiceInv, StaffTypes
<1>2. is_order({<<i, i>>}) /\ ordered({<<i, i>>}) = {i}
  BY OneJobOrder
<1>3. ASSUME NEW R, is_order(R), ordered(R) \subseteq ordered(order) \ {i},
             order' = followed_by(R, {<<i, i>>}), job'[i].status # "ended",
             \A j \in Images : j # i => job'[j] = job[j]
      PROVE  OrderInv'
  <2> DEFINE one == {<<i, i>>}
  <2>1. is_order(one) /\ ordered(R) \cap ordered(one) = {} /\ ordered(one) = {i}
    BY <1>2, <1>3
  <2> HIDE DEF one
  <2>2. is_order(followed_by(R, one)) /\ ordered(followed_by(R, one)) = ordered(R) \cup {i}
    BY <1>3, <2>1, FollowedByOrder
  <2>3. is_order(order') /\ ordered(order') = ordered(R) \cup {i}
    BY <1>3, <2>2 DEF one
  <2> QED
    BY <1>3, <2>3 DEF OrderInv, ordered
<1>4. CASE request_scan(i, urgent) /\ ~active(i)
  <2>1. /\ order' = followed_by(order, {<<i, i>>})
        /\ job' = [job EXCEPT ![i] = new_job(urgent)]
    BY <1>4 DEF request_scan
  <2>2. job'[i].status # "ended" /\ \A j \in Images : j # i => job'[j] = job[j]
    BY <1>1, <2>1, PlainRows
  <2>3. i \notin ordered(order)
    BY <1>1, <1>4, JobColumns DEF OrderInv, active
  <2> QED
    BY <1>3, <2>1, <2>2, <2>3 DEF OrderInv
<1>5. CASE promote(i) /\ promotable(i)
  <2>1. /\ order' = followed_by(without(order, {i}), {<<i, i>>})
        /\ job' = [job EXCEPT ![i].urgent = TRUE]
    BY <1>5 DEF promote
  <2>2. job'[i].status = "pending" /\ \A j \in Images : j # i => job'[j] = job[j]
    BY <1>1, <1>5, <2>1 DEF promotable, Job
  <2>3. is_order(without(order, {i})) /\ ordered(without(order, {i})) = ordered(order) \ {i}
    BY WithoutOrder DEF OrderInv
  <2> QED
    BY <1>3, <2>1, <2>2, <2>3
<1>6. CASE delay_passes(i)
  <2>1. /\ order' = followed_by(order, {<<i, i>>}) /\ i \notin ordered(order)
        /\ UNCHANGED job /\ job[i].status = "pending"
    BY <1>6 DEF delay_passes
  <2> QED
    BY <1>3, <2>1 DEF OrderInv
<1>7. CASE UNCHANGED <<job, order>>
  BY <1>7, SameOrder
<1> QED
  BY <1>4, <1>5, <1>6, <1>7
  DEF request_scan, promote, time_passes, lease_runs_out, becomes_due

\* Who may hold the advisory lock.
lock_known == lock \in Schedulers \cup {"orphan", Nobody}

\* Every step keeps the order an order, and the lock with a scheduler.
LEMMA OrderInvStep ==
    ASSUME ServiceInv, due \subseteq Images, OrderInv, lock_known, [Next]_vars
    PROVE  OrderInv' /\ lock_known'
<1>1. ASSUME NEW w \in Workers, claim(w) \/ ends(w) \/ kill_worker(w) \/ start_worker(w)
      PROVE  OrderInv' /\ lock_known'
  BY <1>1, WorkerOrder
  DEF lock_known, claim, ends, finish, fail, defer, end_execution, kill_worker, start_worker
<1>2. ASSUME NEW s \in Schedulers, passes(s) \/ outage(s) \/ start_scheduler(s)
      PROVE  OrderInv' /\ lock_known'
  <2>1. CASE commit_tick(s)
    BY <2>1, CommitTickOrder DEF lock_known, commit_tick
  <2>2. CASE ~commit_tick(s)
    BY <1>2, <2>2, SameOrder
    DEF lock_known, passes, try_scheduler_lock, begin_tick, outage, fail_tick,
        lose_connection, stop_scheduler, kill_scheduler, start_scheduler
  <2> QED
    BY <2>1, <2>2
<1>3. ASSUME NEW i \in Images, NEW urgent \in BOOLEAN,
             time_passes(i) \/ promote(i) \/ request_scan(i, urgent)
      PROVE  OrderInv' /\ lock_known'
  BY <1>3, RequestOrder
  DEF lock_known, time_passes, lease_runs_out, delay_passes, becomes_due, promote, request_scan
<1>4. CASE drop_orphan \/ UNCHANGED vars
  BY <1>4, SameOrder DEF lock_known, drop_orphan, vars
<1> QED
  BY <1>1, <1>2, <1>3, <1>4 DEF Next

\* Every state of the service is well typed: in particular scheduled_for is a
\* linear order of active jobs, so claim always finds one first job, only a
\* running job's lease runs out, and no job's failures exceed max_attempts,
\* for any number of images, workers and schedulers.
THEOREM ServiceTypes == Spec => []TypeOK
<1> DEFINE Inv == ServiceInv /\ due \subseteq Images /\ OrderInv /\ lock_known
<1>1. Init => Inv
  <2> SUFFICES ASSUME Init PROVE OrderInv /\ lock_known
    BY ServiceInvInit
  <2>1. order = {} /\ lock = Nobody
    BY DEF Init
  <2> QED
    BY <2>1 DEF OrderInv, is_order, ordered, lock_known
<1>2. Inv /\ [Next]_vars => Inv'
  BY ServiceInvStep, DueStep, OrderInvStep
<1>3. Inv => TypeOK
  <2> SUFFICES ASSUME Inv PROVE TypeOK
    OBVIOUS
  <2>1. StaffTypes
    BY DEF ServiceInv
  <2>2. ASSUME NEW i \in Images PROVE deaths[i] \in 0..MaxAttempts
    <3>1. job[i] \in Job /\ deaths[i] \in Nat
      BY <2>1 DEF StaffTypes
    <3>2. job[i].attempts \in Nat /\ job[i].attempts < MaxAttempts
      BY <3>1, JobColumns
    <3>3. deaths[i] = 0 \/ deaths[i] = job[i].attempts \/ deaths[i] = job[i].attempts + 1
      BY <3>2 DEF ServiceInv, EndedJobsAreClear, DeathsAreChargedOnce
    <3> QED
      BY <3>1, <3>2, <3>3, ServiceAssumption
  <2>3. deaths \in [Images -> 0..MaxAttempts]
    BY <2>1, <2>2 DEF StaffTypes
  <2>4. expired \subseteq {i \in Images : job[i].status = "running"}
    BY DEF ServiceInv, ExecutionsAreSole
  <2> QED
    BY <2>1, <2>3, <2>4 DEF TypeOK, StaffTypes, OrderInv, lock_known
<1> QED
  BY <1>1, <1>2, <1>3, PTL DEF Spec
=============================================================================
