------------------------------ MODULE Service ------------------------------
(***************************************************************************)
(* The service as a whole, without a clock: worker and scheduler processes *)
(* that are killed and started, the advisory lock that is meant to leave   *)
(* one scheduler at work, the order in which jobs are claimed, and the two *)
(* statements of a scan request.                                           *)
(*                                                                         *)
(* ScanQueue has the timestamps; here time only decides that a lease has   *)
(* run out, that a delay has passed, that an image is due.  Each of those  *)
(* is an event that will happen, which keeps the state space finite and    *)
(* complete and lets liveness be checked.  An image has at most one active *)
(* job and no worker outlives its lease: both are theorems about ScanQueue.*)
(***************************************************************************)
EXTENDS Integers, FiniteSets

CONSTANTS
    Images,         \* image rows, all of them enabled
    Workers,        \* worker processes
    Schedulers,     \* scheduler processes
    MaxAttempts,    \* settings.max_attempts
    Nobody          \* no process

ASSUME ServiceAssumption ==
    /\ MaxAttempts \in Nat \ {0}
    /\ Nobody \notin Schedulers
    /\ Images \cap {"down", "polling"} = {}

VARIABLES
    job,        \* job[i]: the newest job of image i
    order,      \* <<i, j>>: the jobs of i and j may run, i's scheduled_for is first
                \* or i = j
    expired,    \* images whose running job has lease_until in the past
    due,        \* images with next_due_at in the past
    worker,     \* worker[w]: "down", "polling" or the image under scan
    scheduler,  \* scheduler[s]: main's loop and the open transaction of tick
    lock,       \* the scheduler whose connection holds the advisory lock,
                \* "orphan" for a connection that is lost, or Nobody
    clients,    \* images with an urgent request between its two statements
    deaths      \* deaths[i]: executions of the active job that ended badly

vars == <<job, order, expired, due, worker, scheduler, lock, clients, deaths>>

\* A job is ended if it is done or failed, or if there is none yet; its other
\* columns are then of no more use.
Job == [status: {"ended", "pending", "running"}, urgent: BOOLEAN, attempts: 0..MaxAttempts - 1]

\* main: running or not, holds_lock, and how far the pass has come: what it has
\* reaped (rows locked until it commits) and what it found due.
Scheduler == [up: BOOLEAN, holds_lock: BOOLEAN, step: {"sleep", "tick"},
              reaped: SUBSET Images, selected: SUBSET Images]

asleep(up, holds) ==
    [up |-> up, holds_lock |-> holds, step |-> "sleep", reaped |-> {}, selected |-> {}]

\* scheduled_for as an order: the images that R orders, R without some of them,
\* and R with those of S after its own.
ordered(R) == {i \in Images : <<i, i>> \in R}
without(R, gone) == {p \in R : p[1] \notin gone /\ p[2] \notin gone}
followed_by(R, S) == R \cup S \cup (ordered(R) \X ordered(S))

is_order(R) ==
    /\ R \subseteq ordered(R) \X ordered(R)
    /\ \A i, j \in ordered(R) : <<i, j>> \in R \/ <<j, i>> \in R
    /\ \A i, j \in ordered(R) : <<i, j>> \in R /\ <<j, i>> \in R => i = j
    /\ \A i, j, k \in ordered(R) : <<i, j>> \in R /\ <<j, k>> \in R => <<i, k>> \in R

\* Types; scheduled_for orders active jobs, and only a running job has a lease
\* to expire.
TypeOK ==
    /\ job \in [Images -> Job]
    /\ is_order(order)
    /\ \A i \in ordered(order) : job[i].status # "ended"
    /\ expired \subseteq {i \in Images : job[i].status = "running"}
    /\ due \subseteq Images
    /\ worker \in [Workers -> Images \cup {"down", "polling"}]
    /\ scheduler \in [Schedulers -> Scheduler]
    /\ lock \in Schedulers \cup {"orphan", Nobody}
    /\ clients \subseteq Images
    /\ deaths \in [Images -> 0..MaxAttempts]

no_job == [status |-> "ended", urgent |-> FALSE, attempts |-> 0]

Init ==
    /\ job = [i \in Images |-> no_job]
    /\ order = {}
    /\ expired = {}
    /\ due = Images
    /\ worker = [w \in Workers |-> "polling"]
    /\ scheduler = [s \in Schedulers |-> asleep(TRUE, FALSE)]
    /\ lock = Nobody
    /\ clients = {}
    /\ deaths = [i \in Images |-> 0]

active(i) == job[i].status \in {"pending", "running"}
scanned_by(i) == {w \in Workers : worker[w] = i}

new_job(urgent) == [status |-> "pending", urgent |-> urgent, attempts |-> 0]

-----------------------------------------------------------------------------
\* The workers.  A job waits for its backoff or deferral outside of order.

may_run(i) == job[i].status = "pending" /\ i \in ordered(order)

\* Mutant of claimed_before: scheduled_for is left out of the ORDER BY.
claimed_before_by_priority(i, j) == job[i].urgent /\ ~job[j].urgent

claimed_before(i, j) ==
    \/ job[i].urgent /\ ~job[j].urgent
    \/ /\ job[i].urgent = job[j].urgent
       /\ i # j /\ <<i, j>> \in order

claim(w) ==
    /\ worker[w] = "polling"
    /\ \E i \in Images :
        /\ may_run(i)
        /\ ~\E j \in Images : may_run(j) /\ claimed_before(j, i)
        /\ job' = [job EXCEPT ![i].status = "running"]
        /\ worker' = [worker EXCEPT ![w] = i]
    /\ UNCHANGED <<order, expired, due, scheduler, lock, clients, deaths>>

busy(w) == worker[w] \in Images

\* What the transactions at the end of an execution have in common.
end_execution(w, row, seen, lost) ==
    /\ busy(w)
    /\ worker' = [worker EXCEPT ![w] = "polling"]
    /\ job' = [job EXCEPT ![worker[w]] = row]
    /\ order' = without(order, {worker[w]})
    /\ due' = IF seen THEN due \ {worker[w]} ELSE due
    /\ deaths' = [deaths EXCEPT ![worker[w]] = IF row = no_job THEN 0 ELSE @ + lost]
    /\ UNCHANGED <<expired, scheduler, lock, clients>>

\* record_success or record_skip, then complete.
finish(w) == end_execution(w, no_job, TRUE, 0)

\* Mutant of attempt_lost: one attempt too many.
attempt_lost_one_late(row, max_attempts) ==
    IF row.attempts >= max_attempts THEN no_job
    ELSE [row EXCEPT !.attempts = @ + 1, !.status = "pending"]

attempt_lost(row, max_attempts) ==
    IF row.attempts + 1 >= max_attempts THEN no_job
    ELSE [row EXCEPT !.attempts = @ + 1, !.status = "pending"]

fail(w, permanent) ==
    /\ busy(w)
    /\ end_execution(w, attempt_lost(job[worker[w]], IF permanent THEN 1 ELSE MaxAttempts), TRUE, 1)

defer(w) ==
    /\ busy(w)
    /\ end_execution(w, [job[worker[w]] EXCEPT !.status = "pending"], FALSE, 0)

\* SIGKILL, out of memory, eviction; in an execution nothing of it is written.
kill_worker(w) ==
    /\ worker[w] # "down"
    /\ worker' = [worker EXCEPT ![w] = "down"]
    /\ deaths' = IF busy(w) THEN [deaths EXCEPT ![worker[w]] = @ + 1] ELSE deaths
    /\ UNCHANGED <<job, order, expired, due, scheduler, lock, clients>>

start_worker(w) ==
    /\ worker[w] = "down"
    /\ worker' = [worker EXCEPT ![w] = "polling"]
    /\ UNCHANGED <<job, order, expired, due, scheduler, lock, clients, deaths>>

-----------------------------------------------------------------------------
\* Time.

lease_runs_out(i) ==
    /\ job[i].status = "running" /\ scanned_by(i) = {} /\ i \notin expired
    /\ expired' = expired \cup {i}
    /\ UNCHANGED <<job, order, due, worker, scheduler, lock, clients, deaths>>

delay_passes(i) ==
    /\ job[i].status = "pending" /\ i \notin ordered(order)
    /\ order' = followed_by(order, {<<i, i>>})
    /\ UNCHANGED <<job, expired, due, worker, scheduler, lock, clients, deaths>>

\* Of no consequence while there is an active job, which ends with a scan.
becomes_due(i) ==
    /\ i \notin due /\ ~active(i)
    /\ due' = due \cup {i}
    /\ UNCHANGED <<job, order, expired, worker, scheduler, lock, clients, deaths>>

-----------------------------------------------------------------------------
\* The schedulers: main's loop, and tick in two parts.

sleeping(s) == scheduler[s].up /\ scheduler[s].step = "sleep"

\* Mutant of lockable: a lock that is not given twice to the same connection.
lockable_once(s) == lock = Nobody

\* pg_try_advisory_lock also succeeds on the connection that has the lock.
lockable(s) == lock \in {Nobody, s}

\* A scheduler that does not get the lock goes back to sleep.
try_scheduler_lock(s) ==
    /\ sleeping(s) /\ ~scheduler[s].holds_lock
    /\ lockable(s)
    /\ lock' = s
    /\ scheduler' = [scheduler EXCEPT ![s].holds_lock = TRUE]
    /\ UNCHANGED <<job, order, expired, due, worker, clients, deaths>>

locked_by_others(s) == UNION {scheduler[r].reaped : r \in Schedulers \ {s}}

\* Mutant of reapable: a SELECT of the expired jobs, updated by id afterwards.
reapable_by_select(s) == {expired}

\* The rows UPDATE ... WHERE matches; it waits for a row another pass has
\* written and looks at it again, so it matches no row that one reaps.
reapable(s) == {rows \in {expired} : rows \cap locked_by_others(s) = {}}

\* due_images.  A job this pass has reaped is pending again or was scanned now.
due_images == {i \in due : ~active(i)}

\* tick: reap_expired_leases, record_reaped, due_images.
begin_tick(s) ==
    /\ sleeping(s) /\ scheduler[s].holds_lock
    /\ \E rows \in reapable(s) :
          scheduler' = [scheduler EXCEPT ![s] =
              [@ EXCEPT !.step = "tick", !.reaped = rows, !.selected = due_images]]
    /\ UNCHANGED <<job, order, expired, due, worker, lock, clients, deaths>>

\* It keeps its scheduled_for, and with it its place.
reaped(row) == attempt_lost(row, MaxAttempts)

\* Mutant of enqueued: an upsert that resets the job on conflict.
enqueued_anyway(s) == scheduler[s].selected

\* INSERT ... ON CONFLICT DO NOTHING, for images found due a statement ago.
enqueued(s) == {i \in scheduler[s].selected : ~active(i)}

\* tick: enqueue each, commit; main sleeps.
commit_tick(s) ==
    LET gone == scheduler[s].reaped
        new == enqueued(s)
        lost == {i \in gone : reaped(job[i]) = no_job}
    IN /\ scheduler[s].step = "tick"
       /\ job' = [i \in Images |-> IF i \in new THEN new_job(FALSE)
                                   ELSE IF i \in gone THEN reaped(job[i]) ELSE job[i]]
       /\ \E added \in SUBSET (new \X new) :
             /\ ordered(added) = new /\ is_order(added)
             /\ order' = followed_by(without(order, lost), added)
       /\ expired' = expired \ gone
       /\ due' = due \ gone
       /\ deaths' = [i \in Images |-> IF i \in lost THEN 0 ELSE deaths[i]]
       /\ scheduler' = [scheduler EXCEPT ![s] = asleep(TRUE, TRUE)]
       /\ UNCHANGED <<worker, lock, clients>>

\* A statement of the pass raises: rollback, and holds_lock = False.  If the
\* connection was lost with it, so is the lock.
fail_tick(s) ==
    /\ scheduler[s].step # "sleep"
    /\ scheduler' = [scheduler EXCEPT ![s] = asleep(TRUE, FALSE)]
    /\ lock' \in {lock} \cup {IF lock = s THEN "orphan" ELSE lock}
    /\ UNCHANGED <<job, order, expired, due, worker, clients, deaths>>

\* The connection breaks while it lies in the pool.  pool_pre_ping replaces it
\* at the next checkout without an error, so holds_lock stays as it is.
lose_connection(s) ==
    /\ sleeping(s) /\ lock = s
    /\ lock' = "orphan"
    /\ UNCHANGED <<job, order, expired, due, worker, scheduler, clients, deaths>>

\* PostgreSQL notices that the connection is gone and releases its lock.
drop_orphan ==
    /\ lock = "orphan"
    /\ lock' = Nobody
    /\ UNCHANGED <<job, order, expired, due, worker, scheduler, clients, deaths>>

\* SIGTERM: main leaves its loop and releases the lock if it is its own.
stop_scheduler(s) ==
    /\ sleeping(s)
    /\ scheduler' = [scheduler EXCEPT ![s] = asleep(FALSE, FALSE)]
    /\ lock' = IF lock = s THEN Nobody ELSE lock
    /\ UNCHANGED <<job, order, expired, due, worker, clients, deaths>>

kill_scheduler(s) ==
    /\ scheduler[s].up
    /\ scheduler' = [scheduler EXCEPT ![s] = asleep(FALSE, FALSE)]
    /\ lock' = IF lock = s THEN "orphan" ELSE lock
    /\ UNCHANGED <<job, order, expired, due, worker, clients, deaths>>

start_scheduler(s) ==
    /\ ~scheduler[s].up
    /\ scheduler' = [scheduler EXCEPT ![s] = asleep(TRUE, FALSE)]
    /\ UNCHANGED <<job, order, expired, due, worker, lock, clients, deaths>>

-----------------------------------------------------------------------------
\* POST .../scan.  The INSERT; if it conflicts and the request is urgent, the
\* UPDATE of build_promote_statement follows as a statement of its own.

request_scan(i, urgent) ==
    /\ \/ /\ ~active(i)
          /\ job' = [job EXCEPT ![i] = new_job(urgent)]
          /\ order' = followed_by(order, {<<i, i>>})
          /\ UNCHANGED clients
       \/ /\ active(i) /\ urgent
          /\ clients' = clients \cup {i}
          /\ UNCHANGED <<job, order>>
    /\ UNCHANGED <<expired, due, worker, scheduler, lock, deaths>>

promotable(i) == job[i].status = "pending" /\ ~job[i].urgent

\* "promoted", or "already_queued" if no row matches.
promote(i) ==
    /\ i \in clients
    /\ clients' = clients \ {i}
    /\ \/ /\ promotable(i)
          /\ job' = [job EXCEPT ![i].urgent = TRUE]
          /\ order' = followed_by(without(order, {i}), {<<i, i>>})
       \/ /\ ~promotable(i)
          /\ UNCHANGED <<job, order>>
    /\ UNCHANGED <<expired, due, worker, scheduler, lock, deaths>>

-----------------------------------------------------------------------------
ends(w) == finish(w) \/ defer(w) \/ \E permanent \in BOOLEAN : fail(w, permanent)

passes(s) == try_scheduler_lock(s) \/ begin_tick(s) \/ commit_tick(s)

time_passes(i) == lease_runs_out(i) \/ delay_passes(i) \/ becomes_due(i)

outage(s) == fail_tick(s) \/ lose_connection(s) \/ stop_scheduler(s) \/ kill_scheduler(s)

Next ==
    \/ \E w \in Workers : claim(w) \/ ends(w) \/ kill_worker(w) \/ start_worker(w)
    \/ \E s \in Schedulers : passes(s) \/ outage(s) \/ start_scheduler(s)
    \/ \E i \in Images :
        \/ time_passes(i)
        \/ promote(i)
        \/ \E urgent \in BOOLEAN : request_scan(i, urgent)
    \/ drop_orphan

\* A worker polls, and an execution that is not killed ends by a timeout at the
\* latest; a scheduler's loop goes round; a request goes on to its second
\* statement; time passes; the server drops dead connections.  Nothing says that
\* a process that was killed is started again.
Fairness ==
    /\ \A w \in Workers : WF_vars(claim(w) \/ ends(w))
    /\ \A s \in Schedulers : WF_vars(passes(s))
    /\ \A i \in Images : WF_vars(time_passes(i))
    /\ \A i \in Images : WF_vars(promote(i))
    /\ WF_vars(drop_orphan)

Spec == Init /\ [][Next]_vars /\ Fairness

-----------------------------------------------------------------------------
(* Properties.                                                             *)

\* Every execution that ended badly is charged to its job exactly once, a killed
\* worker's as soon as it is reaped, also when two schedulers run their passes at
\* the same time because one has lost the advisory lock without noticing
\* (reap_expired_leases: "counts against max_attempts exactly like one a worker
\* lived long enough to report"; scheduler.py: "Safe to run more than one
\* replica").
DeathsAreChargedOnce ==
    \A i \in Images : active(i) =>
        deaths[i] = job[i].attempts
            + (IF job[i].status = "running" /\ scanned_by(i) = {} THEN 1 ELSE 0)

\* A pass that acts on images it found due a statement ago never replaces a job
\* that was requested in between: a step that starts a new job starts from one
\* that had ended (build_enqueue_statement: "concurrent callers cannot both win").
NewJobsFollowEndedOnes ==
    [][\A i \in Images : active(i) /\ job'[i].status # "ended" =>
          /\ job'[i].attempts >= job[i].attempts
          /\ job[i].urgent => job'[i].urgent
          /\ job[i].status = "running" /\ job'[i].status = "pending" =>
                i \in expired \/ scanned_by(i) # {}]_vars

Urgent == \E i \in Images : request_scan(i, TRUE)
Throttled == \E w \in Workers : defer(w)
Outage == \/ \E s \in Schedulers : outage(s)
          \/ \E w \in Workers : kill_worker(w) /\ ~busy(w)

\* Some scheduler stays up, no worker stays down.
Staffed ==
    /\ <>[](\E s \in Schedulers : scheduler[s].up)
    /\ \A w \in Workers : []<>(worker[w] # "down")

\* Every job ends, even if each of its executions kills its worker, once
\* registries stop throttling, urgent requests stop overtaking, and outages of
\* schedulers and of idle workers cease (reap_expired_leases: "the alternative is
\* a job that can never give up"; fail: "it never wedges the queue").
EveryJobEnds ==
    /\ Staffed
    /\ <>[][~(Outage \/ Throttled \/ Urgent)]_vars
    => \A i \in Images : active(i) ~> ~active(i)

\* As long as schedulers do not fail for ever, every image gets a job again and
\* again, whichever of them holds the lock and however it was lost (scheduler.py:
\* "the deployment gets failover without a leader election").
EveryImageIsQueued ==
    /\ <>[](\E s \in Schedulers : scheduler[s].up)
    /\ <>[][~Outage]_vars
    => \A i \in Images : []<>active(i)
=============================================================================
