-------------------------- MODULE ExecutionProofs --------------------------
(***************************************************************************)
(* An execution of a scan, for any digests, deployments, headers and any   *)
(* number of refreshes of the vulnerability database: a skip that compares *)
(* known versions leaves what a scan would find, only throttling defers,   *)
(* and the findings of a report are the worst it says of each key.         *)
(***************************************************************************)
EXTENDS ScanExecution, TLAPS, WellFoundedInduction

PROBED == {"head", "token", "get", "decide", "report"}

FIELDS == {"phase", "token", "seen", "trivy_version", "db_version", "flags_hash",
           "digest", "found", "metadata"}

\* An execution past the probe: it has its fields, and they tell the deployment
\* and a database no older than the findings of the last run.
probed ==
    /\ DOMAIN exec = FIELDS
    /\ exec.trivy_version \in {deployed.trivy, unknown}
    /\ exec.flags_hash = scan_flags_hash(deployed)
    /\ exec.seen \in 0..db
    /\ exec.db_version \in {exec.seen, schema, unknown}
    /\ run # NoRun => run.found.db <= exec.seen

\* A report and what it was made from: bytes that it names, if it names any,
\* and a database no older than the one of the probe.
scanned ==
    /\ exec.found.bytes \in Digests
    /\ exec.found.db \in exec.seen..db
    /\ exec.found = Inputs(exec.found.bytes, exec.found.db, deployed)
    /\ exec.metadata \in named(exec.found.bytes)

\* What a run says of its findings is what they were computed from, where it
\* knows it, but that the database may have been refreshed between the probe and
\* the scan.
recorded ==
    /\ run.found.db \in 0..db
    /\ run.found = [bytes |-> run.found.bytes, db |-> run.found.db,
                    trivy |-> run.found.trivy, flags |-> run.scan_flags_hash]
    /\ run.trivy_version # unknown => run.found.trivy = run.trivy_version
    /\ run.trivy_db_version \notin {unknown, schema} =>
          run.trivy_db_version \in Nat /\ run.trivy_db_version <= run.found.db
    /\ run.named => run.digest \in {run.found.bytes, <<"image_id", run.found.bytes>>}
    /\ run.found.bytes \in Digests

ExecInv ==
    /\ TypeOK
    /\ exec.phase \in PROBED => probed
    /\ exec.phase = "report" => scanned
    /\ run # NoRun => recorded

-----------------------------------------------------------------------------
(* Operators.                                                              *)

\* The larger of 0 and n.
LEMMA MaxWithZero ==
    ASSUME NEW n \in Int
    PROVE  Max({0, n}) \in Nat /\ Max({0, n}) >= n /\ Max({0, n}) \in {0, n}
<1>1. \E x \in {0, n} : \A y \in {0, n} : x >= y
  OBVIOUS
<1>2. Max({0, n}) \in {0, n} /\ \A y \in {0, n} : Max({0, n}) >= y
  BY <1>1 DEF Max
<1> QED
  BY <1>2

\* A header that registries may send, or none.
header_ok(h) == h.form \in {"none", "garbage", "seconds", "date"} /\ h.value \in Int

\* A delay of n seconds and one more, in ticks.
LEMMA Ticks ==
    ASSUME NEW n \in Nat
    PROVE  /\ TicksPerSecond * n \in Nat
           /\ TicksPerSecond * (n + 1) = TicksPerSecond * n + TicksPerSecond
           /\ TicksPerSecond * (n + 1) >= TicksPerSecond
           /\ TicksPerSecond \in Nat /\ TicksPerSecond > 0
<1>1. TicksPerSecond \in Nat /\ TicksPerSecond >= 1
  BY ExecutionAssumption
<1> QED
  BY <1>1, SMT

\* int() drops less than a second.
LEMMA WholeSeconds ==
    ASSUME NEW n \in Nat
    PROVE  n \div TicksPerSecond \in Nat /\ n < TicksPerSecond * (n \div TicksPerSecond + 1)
<1>1. TicksPerSecond \in Nat /\ TicksPerSecond >= 1
  BY ExecutionAssumption
<1> QED
  BY <1>1, SMT

\* `retry_after or DEFAULT_DEFER_SECONDS` waits, and as long as was asked but for
\* less than a second.
LEMMA DeferDelay ==
    ASSUME NEW h, header_ok(h)
    PROVE  LET delay == defer_delay(parse_retry_after(h))
           IN delay \in Nat /\ delay > 0 /\ TicksPerSecond * (delay + 1) > asked(h)
<1> DEFINE m == Max({0, h.value})
           default == DEFAULT_DEFER_SECONDS
<1>1. m \in Nat
  BY MaxWithZero DEF header_ok
<1>2. default \in Nat /\ default > 0
  BY ExecutionAssumption
<1>3. ASSUME NEW told \in Nat, parse_retry_after(h) = told, asked(h) \in Nat,
             TicksPerSecond * (told + 1) > asked(h)
      PROVE  LET delay == defer_delay(parse_retry_after(h))
             IN delay \in Nat /\ delay > 0 /\ TicksPerSecond * (delay + 1) > asked(h)
  <2> HIDE DEF default
  <2>1. CASE told = 0
    <3>1. defer_delay(parse_retry_after(h)) = default
      BY <1>3, <2>1 DEF defer_delay, default
    <3>2. TicksPerSecond * (told + 1) = TicksPerSecond
      BY <2>1, ExecutionAssumption
    <3>3. TicksPerSecond > asked(h)
      BY <1>3, <3>2
    <3>4. TicksPerSecond * (default + 1) \in Int /\ TicksPerSecond * (default + 1) >= TicksPerSecond
      BY <1>2, Ticks
    <3>5. TicksPerSecond * (default + 1) > asked(h)
      BY <1>3, <3>3, <3>4, Ticks
    <3> QED
      BY <1>2, <3>1, <3>5
  <2>2. CASE told # 0
    <3>1. defer_delay(parse_retry_after(h)) = told
      BY <1>3, <2>2 DEF defer_delay, NULL
    <3> QED
      BY <1>3, <2>2, <3>1
  <2> QED
    BY <2>1, <2>2
<1>4. CASE h.form \in {"none", "garbage"}
  <2>1. parse_retry_after(h) = NULL /\ asked(h) = 0
    BY <1>4 DEF parse_retry_after, asked
  <2>2. defer_delay(parse_retry_after(h)) = default
    BY <2>1 DEF defer_delay
  <2> HIDE DEF default
  <2>3. TicksPerSecond * (default + 1) > 0
    BY <1>2, Ticks
  <2> QED
    BY <1>2, <2>1, <2>2, <2>3
<1>5. CASE h.form = "seconds"
  <2>1. parse_retry_after(h) = m /\ asked(h) = TicksPerSecond * m
    BY <1>5 DEF parse_retry_after, asked
  <2> HIDE DEF m
  <2> QED
    BY <1>1, <1>3, <2>1, Ticks
<1>6. CASE h.form = "date"
  <2>1. parse_retry_after(h) = m \div TicksPerSecond /\ asked(h) = m
    BY <1>6 DEF parse_retry_after, asked
  <2> HIDE DEF m
  <2> QED
    BY <1>1, <1>3, <2>1, WholeSeconds
<1> QED
  BY <1>4, <1>5, <1>6 DEF header_ok

\* The header that stands for none.
LEMMA NoHeader == header_ok(no_header)
  BY DEF header_ok, no_header

-----------------------------------------------------------------------------
(* Steps.                                                                  *)

\* An execution ends and leaves the last run as it is.
LEMMA EndStep ==
    ASSUME ExecInv, NEW result, NEW answer, NEW delay \in Nat,
           result \in {"skipped", "deferred", "failed", "failed_for_good"},
           end(result, answer, delay), UNCHANGED run
    PROVE  ExecInv'
<1>1. exec'.phase = "idle" /\ UNCHANGED <<tag, db, deployed, run>>
  BY DEF end, Idle
<1>2. outcome'.result = result /\ outcome'.delay = delay
  BY DEF end, no_outcome
<1>3. TypeOK'
  BY <1>1, <1>2 DEF ExecInv, TypeOK
<1>4. run' # NoRun => recorded'
  BY <1>1 DEF ExecInv, recorded
<1> QED
  BY <1>1, <1>3, <1>4 DEF ExecInv, PROBED

\* Backpressure and failure end the execution.
LEMMA DeferStep ==
    ASSUME ExecInv, NEW answer, header_ok(answer.retry_after), _defer_for_backpressure(answer)
    PROVE  ExecInv'
<1> DEFINE delay == defer_delay(parse_retry_after(answer.retry_after))
<1>1. delay \in Nat
  BY DeferDelay
<1>2. end("deferred", answer, delay) /\ UNCHANGED run
  BY DEF _defer_for_backpressure
<1> HIDE DEF delay
<1> QED
  BY <1>1, <1>2, EndStep

\* A failure ends the execution.
LEMMA FailureStep ==
    ASSUME ExecInv, NEW answer, NEW permanent, _record_failure(answer, permanent)
    PROVE  ExecInv'
<1> DEFINE result == IF permanent THEN "failed_for_good" ELSE "failed"
<1>1. end(result, answer, 0) /\ UNCHANGED run
  BY DEF _record_failure
<1>2. result \in {"skipped", "deferred", "failed", "failed_for_good"} /\ 0 \in Nat
  OBVIOUS
<1> HIDE DEF result
<1> QED
  BY <1>1, <1>2, EndStep

\* The execution goes on.
LEMMA GoStep ==
    ASSUME ExecInv, NEW next, go(next),
           next.phase \in {"idle", "probe"} \cup PROBED,
           next.phase \in {"decide", "report"} => next.digest \in Digests,
           next.phase \in PROBED => probed',
           next.phase = "report" => scanned'
    PROVE  ExecInv'
<1>1. exec' = next /\ UNCHANGED <<tag, db, deployed, run, outcome>>
  BY DEF go
<1>2. TypeOK'
  BY <1>1 DEF ExecInv, TypeOK, PROBED
<1>3. run' # NoRun => recorded'
  BY <1>1 DEF ExecInv, recorded
<1> QED
  BY <1>1, <1>2, <1>3 DEF ExecInv

\* It goes on with what it knew since the probe.
LEMMA GoOn ==
    ASSUME ExecInv, exec.phase \in PROBED, NEW next, go(next),
           DOMAIN next = FIELDS,
           next.trivy_version = exec.trivy_version, next.flags_hash = exec.flags_hash,
           next.seen = exec.seen, next.db_version = exec.db_version
    PROVE  probed'
<1>1. exec' = next /\ UNCHANGED <<tag, db, deployed, run, outcome>>
  BY DEF go
<1>2. probed
  BY DEF ExecInv
<1> QED
  BY <1>1, <1>2 DEF probed

\* An answer's header.
LEMMA AnswerHeader ==
    ASSUME NEW from, NEW throttled, NEW h \in RetryAfters \cup {no_header}
    PROVE  header_ok(Answer(from, throttled, h).retry_after)
<1>1. header_ok(h)
  BY NoHeader, ExecutionAssumption DEF header_ok
<1> QED
  BY <1>1 DEF Answer

\* Trivy cannot be run, or exits with an error.
LEMMA RunRaisesStep ==
    ASSUME ExecInv, NEW command, _run_raises(command)
    PROVE  ExecInv'
<1>1. ASSUME NEW throttled,
             \/ _defer_for_backpressure(Answer(command, throttled, no_header))
             \/ _record_failure(Answer(command, throttled, no_header), FALSE)
      PROVE  ExecInv'
  BY <1>1, AnswerHeader, DeferStep, FailureStep
<1> QED
  BY <1>1 DEF _run_raises

\* The versions are probed.
LEMMA ProbeStep ==
    ASSUME ExecInv, probe_versions
    PROVE  ExecInv'
<1>1. ASSUME NEW trivy \in trivy_versions, NEW version \in db_versions,
             go([phase |-> "head", token |-> FALSE, seen |-> db,
                 trivy_version |-> trivy, db_version |-> version,
                 flags_hash |-> scan_flags_hash(deployed),
                 digest |-> Absent, found |-> Absent, metadata |-> Absent])
      PROVE  ExecInv'
  <2> DEFINE next == [phase |-> "head", token |-> FALSE, seen |-> db,
                      trivy_version |-> trivy, db_version |-> version,
                      flags_hash |-> scan_flags_hash(deployed),
                      digest |-> Absent, found |-> Absent, metadata |-> Absent]
  <2>1. exec' = next /\ UNCHANGED <<tag, db, deployed, run, outcome>>
    BY <1>1 DEF go
  <2>2. /\ DOMAIN next = FIELDS
        /\ next.phase = "head" /\ next.seen = db /\ next.trivy_version = trivy
        /\ next.db_version = version /\ next.flags_hash = scan_flags_hash(deployed)
    BY DEF FIELDS
  <2>3. /\ trivy \in {deployed.trivy, unknown}
        /\ version \in {db, schema, unknown} /\ db \in Nat
    BY ExecutionAssumption DEF trivy_versions, db_versions, ExecInv, TypeOK
  <2>4. run # NoRun => run.found.db \in 0..db
    BY DEF ExecInv, TypeOK
  <2>5. go(next)
    BY <1>1
  <2> HIDE DEF next
  <2>6. probed'
    <3>1. scan_flags_hash(deployed)' = scan_flags_hash(deployed)
      BY <2>1
    <3> QED
      BY <2>1, <2>2, <2>3, <2>4, <3>1 DEF probed
  <2> QED
    BY <2>2, <2>5, <2>6, GoStep DEF PROBED
<1>2. CASE _run_raises("trivy --version")
  BY <1>2, RunRaisesStep
<1> QED
  BY <1>1, <1>2 DEF probe_versions

\* The digest is known.
LEMMA AnsweredStep ==
    ASSUME ExecInv, exec.phase \in PROBED, answered(tag)
    PROVE  ExecInv'
<1> DEFINE next == [exec EXCEPT !.phase = "decide", !.digest = tag]
<1>1. DOMAIN exec = FIELDS /\ tag \in Digests
  BY DEF ExecInv, probed, TypeOK
<1>2. /\ DOMAIN next = FIELDS /\ next.phase = "decide" /\ next.digest = tag
      /\ next.trivy_version = exec.trivy_version /\ next.flags_hash = exec.flags_hash
      /\ next.seen = exec.seen /\ next.db_version = exec.db_version
  BY <1>1 DEF FIELDS
<1>3. go(next)
  BY DEF answered
<1> HIDE DEF next
<1>4. probed'
  BY <1>2, <1>3, GoOn
<1> QED
  BY <1>1, <1>2, <1>3, <1>4, GoStep DEF PROBED

\* Another request is sent.
LEMMA RequestStep ==
    ASSUME ExecInv, exec.phase \in PROBED, NEW phase \in {"head", "token", "get"}, NEW token,
           \/ go([exec EXCEPT !.phase = phase])
           \/ go([exec EXCEPT !.phase = phase, !.token = token])
    PROVE  ExecInv'
<1>1. DOMAIN exec = FIELDS
  BY DEF ExecInv, probed
<1>2. ASSUME NEW next, go(next), DOMAIN next = FIELDS, next.phase = phase,
             next.trivy_version = exec.trivy_version, next.flags_hash = exec.flags_hash,
             next.seen = exec.seen, next.db_version = exec.db_version
      PROVE  ExecInv'
  <2>1. probed'
    BY <1>2, GoOn
  <2> QED
    BY <1>2, <2>1, GoStep DEF PROBED
<1>3. CASE go([exec EXCEPT !.phase = phase])
  BY <1>1, <1>2, <1>3 DEF FIELDS
<1>4. CASE go([exec EXCEPT !.phase = phase, !.token = token])
  BY <1>1, <1>2, <1>4 DEF FIELDS
<1> QED
  BY <1>3, <1>4

\* The exchange with the registry.
LEMMA RegistryStep ==
    ASSUME ExecInv, send_head \/ _fetch_token \/ send_get
    PROVE  ExecInv'
<1>1. ASSUME NEW from, NEW throttled, NEW h \in RetryAfters,
             _defer_for_backpressure(Answer(from, throttled, h))
      PROVE  ExecInv'
  BY <1>1, AnswerHeader, DeferStep
<1>2. ASSUME NEW from, NEW throttled, NEW h, NEW permanent,
             _record_failure(Answer(from, throttled, h), permanent)
      PROVE  ExecInv'
  BY <1>2, FailureStep
<1>3. CASE send_head
  <2>1. exec.phase \in PROBED
    BY <1>3 DEF send_head, PROBED
  <2>2. CASE answered(tag)
    BY <2>1, <2>2, AnsweredStep
  <2>3. CASE go([exec EXCEPT !.phase = "get"])
    BY <2>1, <2>3, RequestStep
  <2>4. CASE go([exec EXCEPT !.phase = "token"])
    BY <2>1, <2>4, RequestStep
  <2>5. CASE \E permanent \in BOOLEAN :
               _record_failure(Answer("head", FALSE, no_header), permanent)
    BY <1>2, <2>5
  <2>6. CASE \E h \in RetryAfters : _defer_for_backpressure(Answer("head", TRUE, h))
    BY <1>1, <2>6
  <2> QED
    BY <1>3, <2>2, <2>3, <2>4, <2>5, <2>6 DEF send_head
<1>4. CASE _fetch_token
  <2>1. exec.phase \in PROBED
    BY <1>4 DEF _fetch_token, PROBED
  <2>2. CASE go([exec EXCEPT !.phase = "head", !.token = TRUE])
    BY <2>1, <2>2, RequestStep
  <2>3. CASE _record_failure(Answer("token", FALSE, no_header), FALSE)
    BY <1>2, <2>3
  <2>4. CASE \E h \in RetryAfters : _defer_for_backpressure(Answer("token", TRUE, h))
    BY <1>1, <2>4
  <2> QED
    BY <1>4, <2>2, <2>3, <2>4 DEF _fetch_token
<1>5. CASE send_get
  <2>1. exec.phase \in PROBED
    BY <1>5 DEF send_get, PROBED
  <2>2. CASE answered(tag)
    BY <2>1, <2>2, AnsweredStep
  <2>3. CASE \/ _record_failure(Answer("get", FALSE, no_header), FALSE)
             \/ \E h \in RetryAfters : _record_failure(Answer("get", TRUE, h), FALSE)
    BY <1>2, <2>3
  <2> QED
    BY <1>5, <2>2, <2>3 DEF send_get
<1> QED
  BY <1>3, <1>4, <1>5

\* Trivy runs.
LEMMA ScanStep ==
    ASSUME ExecInv, run_scan
    PROVE  ExecInv'
<1>1. exec.phase = "decide" /\ exec.phase \in PROBED
  BY DEF run_scan, PROBED
<1>2. ASSUME NEW metadata \in named(tag),
             go([exec EXCEPT !.phase = "report", !.found = Inputs(tag, db, deployed),
                             !.metadata = metadata])
      PROVE  ExecInv'
  <2> DEFINE next == [exec EXCEPT !.phase = "report", !.found = Inputs(tag, db, deployed),
                                  !.metadata = metadata]
  <2>1. /\ DOMAIN exec = FIELDS /\ tag \in Digests /\ exec.digest \in Digests
        /\ db \in Nat /\ exec.seen \in 0..db
    BY <1>1, ExecutionAssumption DEF ExecInv, probed, TypeOK
  <2>2. /\ DOMAIN next = FIELDS /\ next.phase = "report" /\ next.digest = exec.digest
        /\ next.trivy_version = exec.trivy_version /\ next.flags_hash = exec.flags_hash
        /\ next.seen = exec.seen /\ next.db_version = exec.db_version
        /\ next.found = Inputs(tag, db, deployed) /\ next.metadata = metadata
    BY <2>1 DEF FIELDS
  <2>3. go(next)
    BY <1>2
  <2> HIDE DEF next
  <2>4. probed'
    BY <1>1, <2>2, <2>3, GoOn
  <2>5. scanned'
    <3>1. exec' = next /\ UNCHANGED <<tag, db, deployed>>
      BY <2>3 DEF go
    <3>2. next.found.bytes = tag /\ next.found.db = db
      BY <2>2 DEF Inputs
    <3>3. next.found = Inputs(next.found.bytes, next.found.db, deployed')
      BY <2>2, <3>1, <3>2
    <3>4. next.metadata \in named(next.found.bytes)
      BY <2>2, <3>2
    <3>5. next.found.db \in next.seen..db'
      BY <2>1, <2>2, <3>1, <3>2
    <3> QED
      BY <2>1, <3>1, <3>2, <3>3, <3>4, <3>5 DEF scanned
  <2> QED
    BY <2>1, <2>2, <2>3, <2>4, <2>5, GoStep DEF PROBED
<1>3. CASE _run_raises("trivy image")
  BY <1>3, RunRaisesStep
<1> QED
  BY <1>2, <1>3 DEF run_scan

\* A report names its bytes by their digest, by an id that is no digest, or not
\* at all.
LEMMA NamedBytes ==
    ASSUME NEW bytes \in Digests, NEW metadata \in named(bytes)
    PROVE  _extract_digest(metadata) \in {bytes, <<"image_id", bytes>>, Absent}
  BY DEF named, _extract_digest

\* record_success writes the run.
LEMMA SuccessStep ==
    ASSUME ExecInv, record_success
    PROVE  ExecInv'
<1>1. exec.phase = "report" /\ exec.phase \in PROBED /\ exec.digest \in Digests
  BY DEF record_success, PROBED, ExecInv, TypeOK
<1>2. probed /\ scanned /\ TypeOK /\ db \in Nat
  BY <1>1, ExecutionAssumption DEF ExecInv, TypeOK
<1>3. CASE _record_failure(Answer("report", FALSE, no_header), FALSE)
  BY <1>3, FailureStep
<1>4. ASSUME run' = [digest |-> scanned_digest,
                     trivy_version |-> exec.trivy_version,
                     trivy_db_version |-> exec.db_version,
                     scan_flags_hash |-> exec.flags_hash,
                     named |-> _extract_digest(exec.metadata) # Absent,
                     found |-> exec.found],
             exec' = Idle,
             \E report \in Reports :
                /\ ~parse_raises(report)
                /\ outcome' = [no_outcome EXCEPT !.result = "success", !.report = report,
                                                 !.findings = parse_report(report)],
             UNCHANGED <<tag, db, deployed>>
      PROVE  ExecInv'
  <2>1. /\ run'.digest = scanned_digest /\ run'.trivy_version = exec.trivy_version
        /\ run'.trivy_db_version = exec.db_version /\ run'.scan_flags_hash = exec.flags_hash
        /\ run'.named = (_extract_digest(exec.metadata) # Absent) /\ run'.found = exec.found
    BY <1>4
  <2>2. outcome'.result = "success" /\ outcome'.delay = 0
    BY <1>4 DEF no_outcome
  <2>3. exec'.phase = "idle"
    BY <1>4 DEF Idle
  <2>4. /\ exec.found.bytes \in Digests /\ exec.metadata \in named(exec.found.bytes)
        /\ exec.found.db \in exec.seen..db /\ exec.seen \in 0..db
        /\ exec.db_version \in {exec.seen, schema, unknown}
    BY <1>2 DEF scanned, probed
  <2>5. _extract_digest(exec.metadata) \in {exec.found.bytes, <<"image_id", exec.found.bytes>>, Absent}
    BY <2>4, NamedBytes
  <2>6. run'.digest \in Digests \cup {<<"image_id", d>> : d \in Digests}
    BY <1>1, <2>1, <2>4, <2>5 DEF scanned_digest
  <2>7. run'.trivy_db_version \in 0..db \cup {unknown, schema} /\ run'.found.db \in 0..db
    <3>1. exec.seen \in Nat /\ exec.found.db \in 0..db
      BY <1>2, <2>4
    <3> QED
      BY <2>1, <2>4, <3>1
  <2>8. TypeOK'
    BY <1>2, <1>4, <2>2, <2>3, <2>6, <2>7 DEF TypeOK
  <2>9. recorded'
    <3>1. /\ run'.found = [bytes |-> run'.found.bytes, db |-> run'.found.db,
                           trivy |-> run'.found.trivy, flags |-> run'.scan_flags_hash]
          /\ run'.trivy_version # unknown => run'.found.trivy = run'.trivy_version
      <4>1. exec.found = Inputs(exec.found.bytes, exec.found.db, deployed)
        BY <1>2 DEF scanned
      <4> QED
        BY <1>2, <2>1, <4>1 DEF Inputs, probed
    <3>2. run'.trivy_db_version \notin {unknown, schema} =>
              run'.trivy_db_version \in Nat /\ run'.trivy_db_version <= run'.found.db
      BY <1>2, <2>1, <2>4
    <3>3. run'.named => run'.digest \in {run'.found.bytes, <<"image_id", run'.found.bytes>>}
      BY <2>1, <2>5 DEF scanned_digest
    <3> QED
      BY <1>4, <2>1, <2>4, <2>7, <3>1, <3>2, <3>3 DEF recorded
  <2> QED
    BY <2>3, <2>8, <2>9 DEF ExecInv, PROBED
<1> QED
  BY <1>3, <1>4 DEF record_success

\* The start of an execution, and what happens around it.
LEMMA OtherStep ==
    ASSUME ExecInv, run_once \/ record_skip \/ move_tag \/ refresh_db \/ deploy \/ UNCHANGED vars
    PROVE  ExecInv'
<1>1. CASE run_once
  <2>1. /\ exec'.phase = "probe" /\ UNCHANGED <<tag, db, deployed, run>>
        /\ outcome'.result = "none" /\ outcome'.delay = 0
    BY <1>1 DEF run_once, no_outcome
  <2> QED
    BY <2>1 DEF ExecInv, TypeOK, PROBED, recorded
<1>2. CASE record_skip
  BY <1>2, EndStep DEF record_skip
<1>3. CASE move_tag
  <2>1. tag' \in Digests /\ UNCHANGED <<db, deployed, run, exec, outcome>>
    BY <1>3 DEF move_tag
  <2>2. scan_flags_hash(deployed)' = scan_flags_hash(deployed)
    BY <2>1
  <2>3. TypeOK' /\ (probed => probed') /\ (scanned => scanned') /\ (recorded => recorded')
    BY <2>1, <2>2 DEF ExecInv, TypeOK, probed, scanned, recorded
  <2> QED
    BY <2>1, <2>3 DEF ExecInv
<1>4. CASE refresh_db
  <2>1. /\ db \in Nat /\ db' = db + 1 /\ db' \in 0..MaxDb
        /\ UNCHANGED <<tag, deployed, run, exec, outcome>>
    BY <1>4, ExecutionAssumption DEF refresh_db, ExecInv, TypeOK
  <2>2. scan_flags_hash(deployed)' = scan_flags_hash(deployed)
    BY <2>1
  <2>3. \A n : n \in 0..db => n \in 0..db'
    BY <2>1
  <2>4. \A m, n : n \in 0..db /\ m \in n..db => m \in n..db'
    BY <2>1
  <2>5. TypeOK'
    BY <2>1, <2>3 DEF ExecInv, TypeOK
  <2>6. probed => probed'
    BY <2>1, <2>2, <2>3 DEF probed
  <2>7. probed /\ scanned => scanned'
    BY <2>1, <2>4 DEF scanned, probed
  <2>8. recorded => recorded'
    BY <2>1, <2>3 DEF recorded
  <2> QED
    BY <2>1, <2>5, <2>6, <2>7, <2>8 DEF ExecInv, PROBED
<1>5. CASE deploy
  <2>1. deployed' \in Deployments /\ exec'.phase = "idle" /\ UNCHANGED <<tag, db, run, exec, outcome>>
    BY <1>5 DEF deploy, Idle
  <2> QED
    BY <2>1 DEF ExecInv, TypeOK, PROBED, recorded
<1>6. CASE UNCHANGED vars
  <2>1. UNCHANGED <<tag, db, deployed, run, exec, outcome>>
    BY <1>6 DEF vars
  <2>2. scan_flags_hash(deployed)' = scan_flags_hash(deployed)
    BY <2>1
  <2>3. TypeOK' /\ (probed => probed') /\ (scanned => scanned') /\ (recorded => recorded')
    BY <2>1, <2>2 DEF ExecInv, TypeOK, probed, scanned, recorded
  <2> QED
    BY <2>1, <2>3 DEF ExecInv
<1> QED
  BY <1>1, <1>2, <1>3, <1>4, <1>5, <1>6

-----------------------------------------------------------------------------
(* The theorems.                                                           *)

\* Every step keeps the inductive invariant.
LEMMA ExecInvStep == ExecInv /\ [Next]_vars => ExecInv'
  BY ProbeStep, RegistryStep, ScanStep, SuccessStep, OtherStep DEF Next

\* No execution is under way, and there is no run.
LEMMA ExecInvInit == Init => ExecInv
  BY ExecutionAssumption DEF Init, ExecInv, TypeOK, Idle, no_outcome, PROBED

\* The inductive invariant of the execution holds in every state.
LEMMA ExecInvHolds == Spec => []ExecInv
  BY ExecInvInit, ExecInvStep, PTL DEF Spec

\* An execution that decides knows a digest, a run has one, and no recorded
\* database is newer than the one in use (_execute).
THEOREM ExecutionTypes == Spec => []TypeOK
<1>1. ExecInv => TypeOK
  BY DEF ExecInv
<1> QED
  BY <1>1, ExecInvHolds, PTL

-----------------------------------------------------------------------------
(* Outcomes.                                                               *)

\* An execution under way has no outcome yet, so that one that ends in a step
\* is the outcome of that step; and every outcome treats throttling as it should.
OutcomeInv ==
    /\ exec.phase # "idle" => outcome = no_outcome
    /\ DeferralIsBackpressure

\* Nothing has ended: nobody answered.
LEMMA NothingEnded == ASSUME outcome = no_outcome PROVE DeferralIsBackpressure
<1>1. outcome.result = "none" /\ outcome.answer.throttled = FALSE
  BY DEF no_outcome, no_answer, Answer
<1> QED
  BY <1>1 DEF DeferralIsBackpressure

\* An execution that ends otherwise than in a deferral was not throttled, or was
\* by the answer to the fallback GET.
LEMMA EndOutcome ==
    ASSUME NEW result, NEW from, NEW throttled, NEW h, NEW delay,
           end(result, Answer(from, throttled, h), delay),
           result # "deferred", throttled = FALSE \/ from = "get"
    PROVE  OutcomeInv'
<1>1. outcome'.result = result /\ outcome'.answer = Answer(from, throttled, h)
      /\ exec'.phase = "idle"
  BY DEF end, no_outcome, Idle
<1>2. outcome'.answer.from = from /\ outcome'.answer.throttled = throttled
  BY <1>1 DEF Answer
<1> QED
  BY <1>1, <1>2 DEF OutcomeInv, DeferralIsBackpressure

\* Throttling defers, for as long as was asked but for part of a second.
LEMMA DeferOutcome ==
    ASSUME NEW from, NEW h \in RetryAfters \cup {no_header},
           _defer_for_backpressure(Answer(from, TRUE, h))
    PROVE  OutcomeInv'
<1> DEFINE answer == Answer(from, TRUE, h)
           delay == defer_delay(parse_retry_after(h))
<1>1. delay \in Nat /\ delay > 0 /\ TicksPerSecond * (delay + 1) > asked(h)
  BY DeferDelay, AnswerHeader DEF Answer
<1>2. end("deferred", answer, delay)
  BY DEF _defer_for_backpressure, Answer
<1>3. answer.throttled = TRUE /\ answer.retry_after = h
  BY DEF Answer
<1> HIDE DEF delay, answer
<1>4. /\ outcome'.result = "deferred" /\ outcome'.answer = answer /\ outcome'.delay = delay
      /\ exec'.phase = "idle"
  BY <1>2 DEF end, no_outcome, Idle
<1>5. asked(outcome.answer.retry_after)' = asked(h)
  BY <1>3, <1>4 DEF asked
<1> QED
  BY <1>1, <1>3, <1>4, <1>5 DEF OutcomeInv, DeferralIsBackpressure

\* A failure is not for being throttled, but for that of the fallback GET.
LEMMA FailureOutcome ==
    ASSUME NEW from, NEW throttled, NEW h, NEW permanent, throttled = FALSE \/ from = "get",
           _record_failure(Answer(from, throttled, h), permanent)
    PROVE  OutcomeInv'
<1> DEFINE result == IF permanent THEN "failed_for_good" ELSE "failed"
<1>1. end(result, Answer(from, throttled, h), 0) /\ result # "deferred"
  BY DEF _record_failure
<1> HIDE DEF result
<1> QED
  BY <1>1, EndOutcome

\* While an execution goes on there is no outcome.
LEMMA GoOutcome ==
    ASSUME OutcomeInv, exec.phase # "idle", NEW next, go(next)
    PROVE  OutcomeInv'
<1>1. outcome = no_outcome /\ outcome' = outcome
  BY DEF OutcomeInv, go
<1>2. outcome' = no_outcome'
  BY <1>1 DEF no_outcome, no_answer, no_header, Answer
<1>3. DeferralIsBackpressure'
  BY <1>1 DEF OutcomeInv, DeferralIsBackpressure, asked
<1> QED
  BY <1>2, <1>3 DEF OutcomeInv

\* The exchange with the registry.
LEMMA RegistryOutcome ==
    ASSUME OutcomeInv, send_head \/ _fetch_token \/ send_get
    PROVE  OutcomeInv'
<1>1. ASSUME NEW next, go(next)
      PROVE  OutcomeInv'
  BY <1>1, GoOutcome DEF send_head, _fetch_token, send_get
<1>2. CASE send_head
  <2>1. CASE \E permanent \in BOOLEAN :
               _record_failure(Answer("head", FALSE, no_header), permanent)
    BY <2>1, FailureOutcome
  <2>2. CASE \E h \in RetryAfters : _defer_for_backpressure(Answer("head", TRUE, h))
    BY <2>2, DeferOutcome
  <2> QED
    BY <1>1, <1>2, <2>1, <2>2 DEF send_head, answered
<1>3. CASE _fetch_token
  <2>1. CASE _record_failure(Answer("token", FALSE, no_header), FALSE)
    BY <2>1, FailureOutcome
  <2>2. CASE \E h \in RetryAfters : _defer_for_backpressure(Answer("token", TRUE, h))
    BY <2>2, DeferOutcome
  <2> QED
    BY <1>1, <1>3, <2>1, <2>2 DEF _fetch_token
<1>4. CASE send_get
  <2>1. ASSUME NEW throttled, NEW h, _record_failure(Answer("get", throttled, h), FALSE)
        PROVE  OutcomeInv'
    BY <2>1, FailureOutcome
  <2> QED
    BY <1>1, <1>4, <2>1 DEF send_get, answered
<1> QED
  BY <1>2, <1>3, <1>4

\* The markers tell throttling from other errors, for what Trivy is known to print.
LEMMA MarkersTell ==
    ASSUME NEW detail \in Details
    PROVE  \/ detail.throttled = TRUE /\ is_rate_limit_error(detail)
           \/ detail.throttled = FALSE /\ ~is_rate_limit_error(detail)
<1>1. CASE detail.throttled = TRUE
  <2>1. detail.says \in {{"toomanyrequests", "pull rate limit"}, {"toomanyrequests"},
                         {"429", "too many requests"}, {"rate limit exceeded"}}
    BY <1>1 DEF Details
  <2>2. \E phrase \in detail.says : phrase \in _RATE_LIMIT_MARKERS
    BY <2>1 DEF _RATE_LIMIT_MARKERS
  <2> QED
    BY <1>1, <2>2 DEF is_rate_limit_error
<1>2. CASE detail.throttled = FALSE
  <2>1. detail.says \in {{"manifest unknown"}, {"429", "manifest unknown"}, {"unauthorized"}, {}}
    BY <1>2 DEF Details
  <2>2. \A phrase \in detail.says : phrase \in {"manifest unknown", "429", "unauthorized"}
    BY <2>1
  <2>3. \A phrase \in detail.says : phrase \notin _RATE_LIMIT_MARKERS
    BY <2>2 DEF _RATE_LIMIT_MARKERS
  <2> QED
    BY <1>2, <2>3 DEF is_rate_limit_error
<1> QED
  BY <1>1, <1>2 DEF Details

\* Trivy cannot be run, or exits with an error.
LEMMA RunRaisesOutcome ==
    ASSUME NEW command, _run_raises(command)
    PROVE  OutcomeInv'
<1>1. CASE _record_failure(Answer(command, FALSE, no_header), FALSE)
  BY <1>1, FailureOutcome
<1>2. ASSUME NEW detail \in Details,
             IF is_rate_limit_error(detail)
             THEN _defer_for_backpressure(Answer(command, detail.throttled, no_header))
             ELSE _record_failure(Answer(command, detail.throttled, no_header), FALSE)
      PROVE  OutcomeInv'
  <2>1. CASE detail.throttled = TRUE /\ is_rate_limit_error(detail)
    <3>1. _defer_for_backpressure(Answer(command, TRUE, no_header))
      BY <1>2, <2>1
    <3> QED
      BY <3>1, DeferOutcome
  <2>2. CASE detail.throttled = FALSE /\ ~is_rate_limit_error(detail)
    <3>1. _record_failure(Answer(command, FALSE, no_header), FALSE)
      BY <1>2, <2>2
    <3> QED
      BY <3>1, FailureOutcome
  <2> QED
    BY <2>1, <2>2, MarkersTell
<1> QED
  BY <1>1, <1>2 DEF _run_raises

\* Trivy is probed, or runs, or its report is read.
LEMMA TrivyOutcome ==
    ASSUME OutcomeInv, probe_versions \/ run_scan \/ record_success
    PROVE  OutcomeInv'
<1>1. CASE probe_versions
  <2>1. exec.phase # "idle"
    BY <1>1 DEF probe_versions
  <2> QED
    BY <1>1, <2>1, GoOutcome, RunRaisesOutcome DEF probe_versions
<1>2. CASE run_scan
  <2>1. exec.phase # "idle"
    BY <1>2 DEF run_scan
  <2> QED
    BY <1>2, <2>1, GoOutcome, RunRaisesOutcome DEF run_scan
<1>3. CASE record_success
  <2>1. ASSUME NEW report, exec' = Idle,
               outcome' = [no_outcome EXCEPT !.result = "success", !.report = report,
                                             !.findings = parse_report(report)]
        PROVE  OutcomeInv'
    <3>1. /\ outcome'.result = "success" /\ outcome'.answer.throttled = FALSE
          /\ exec'.phase = "idle"
      BY <2>1 DEF no_outcome, no_answer, Answer, Idle
    <3> QED
      BY <3>1 DEF OutcomeInv, DeferralIsBackpressure
  <2>2. CASE _record_failure(Answer("report", FALSE, no_header), FALSE)
    BY <2>2, FailureOutcome
  <2> QED
    BY <1>3, <2>1, <2>2 DEF record_success
<1> QED
  BY <1>1, <1>2, <1>3

\* The start, a skip, and what happens around an execution.
LEMMA OtherOutcome ==
    ASSUME OutcomeInv,
           run_once \/ record_skip \/ move_tag \/ refresh_db \/ deploy \/ UNCHANGED vars
    PROVE  OutcomeInv'
<1>1. CASE run_once
  <2>1. outcome' = no_outcome /\ no_outcome.result = "none" /\ no_outcome.answer.throttled = FALSE
    BY <1>1 DEF run_once, no_outcome, no_answer, Answer
  <2> QED
    BY <2>1 DEF OutcomeInv, DeferralIsBackpressure
<1>2. CASE record_skip
  BY <1>2, EndOutcome DEF record_skip, no_answer
<1>3. CASE UNCHANGED <<exec, outcome>>
  BY <1>3 DEF OutcomeInv, DeferralIsBackpressure, asked
<1> QED
  BY <1>1, <1>2, <1>3 DEF move_tag, refresh_db, deploy, vars

\* Outcomes are what they should be in every state.
LEMMA OutcomeInvHolds == Spec => []OutcomeInv
<1>1. Init => OutcomeInv
  BY NothingEnded DEF Init, OutcomeInv
<1>2. OutcomeInv /\ [Next]_vars => OutcomeInv'
  BY RegistryOutcome, TrivyOutcome, OtherOutcome DEF Next
<1> QED
  BY <1>1, <1>2, PTL DEF Spec

\* Only throttling defers; a 429 to the HEAD or at the token's endpoint and a pull
\* that Trivy says was throttled always do, for as long as the registry asked but
\* for the part of a second that is dropped of a date, for any headers
\* (_defer_for_backpressure, is_rate_limit_error, parse_retry_after).
THEOREM ThrottlingDefers == Spec => []DeferralIsBackpressure
<1>1. OutcomeInv => DeferralIsBackpressure
  BY DEF OutcomeInv
<1> QED
  BY <1>1, OutcomeInvHolds, PTL

-----------------------------------------------------------------------------
(* Skips.                                                                  *)

\* Only record_skip skips, and only what _is_unchanged.
LEMMA SkipsAreRecorded ==
    ASSUME OutcomeInv, [Next]_vars, exec.phase = "decide", outcome'.result = "skipped"
    PROVE  _is_unchanged
<1>1. outcome.result = "none"
  BY DEF OutcomeInv, no_outcome
<1>2. ASSUME NEW next, go(next)
      PROVE  FALSE
  BY <1>1, <1>2 DEF go
<1>3. ASSUME NEW result, NEW answer, NEW delay, end(result, answer, delay), result # "skipped"
      PROVE  FALSE
  <2>1. outcome'.result = result
    BY <1>3 DEF end, no_outcome
  <2> QED
    BY <1>3, <2>1
<1>4. ~run_scan
  <2>1. ASSUME NEW answer, _defer_for_backpressure(answer) \/ _record_failure(answer, FALSE)
        PROVE  FALSE
    BY <1>3, <2>1 DEF _defer_for_backpressure, _record_failure
  <2> QED
    BY <1>2, <2>1 DEF run_scan, _run_raises
<1>5. ~move_tag /\ ~refresh_db /\ ~UNCHANGED vars
  BY <1>1 DEF move_tag, refresh_db, vars
<1>6. /\ ~run_once /\ ~deploy /\ ~probe_versions /\ ~send_head /\ ~_fetch_token
      /\ ~send_get /\ ~record_success
  BY DEF run_once, deploy, Idle, probe_versions, send_head, _fetch_token, send_get,
         record_success
<1> QED
  BY <1>4, <1>5, <1>6 DEF Next, record_skip

\* What is unchanged was found from the digest the registry named, the database
\* of the probe, and the worker as it is.
LEMMA UnchangedInputs ==
    ASSUME ExecInv, exec.phase = "decide", _is_unchanged,
           exec.trivy_version # unknown, exec.db_version \notin {unknown, schema}, run.named
    PROVE  up_to_date
<1>1. /\ run # NoRun /\ run.digest = exec.digest
      /\ run.trivy_version = exec.trivy_version
      /\ run.trivy_db_version = exec.db_version
      /\ run.scan_flags_hash = exec.flags_hash
  BY DEF _is_unchanged
<1>2. recorded /\ probed /\ exec.digest \in Digests /\ db \in Nat
  BY <1>1, ExecutionAssumption DEF ExecInv, PROBED, TypeOK
<1>3. run.found.bytes = exec.digest
  <2>1. exec.digest \in {run.found.bytes, <<"image_id", run.found.bytes>>}
    BY <1>1, <1>2 DEF recorded
  <2>2. run.found.bytes \in Digests
    BY <1>2 DEF recorded
  <2>3. <<"image_id", run.found.bytes>> \notin Digests
    BY <2>2, ExecutionAssumption
  <2> QED
    BY <1>2, <2>1, <2>3
<1>4. run.found.db = exec.seen
  <2>1. exec.db_version = exec.seen /\ run.found.db <= exec.seen
    BY <1>1, <1>2 DEF probed
  <2>2. exec.seen <= run.found.db /\ exec.seen \in Int /\ run.found.db \in Int
    BY <1>1, <1>2, <2>1 DEF recorded, probed
  <2> QED
    BY <2>1, <2>2
<1>5. run.found = [bytes |-> run.found.bytes, db |-> run.found.db,
                   trivy |-> run.trivy_version, flags |-> run.scan_flags_hash]
  BY <1>1, <1>2 DEF recorded
<1>6. run.trivy_version = deployed.trivy /\ run.scan_flags_hash = scan_flags_hash(deployed)
  BY <1>1, <1>2 DEF probed
<1> QED
  BY <1>3, <1>4, <1>5, <1>6 DEF Inputs, up_to_date

\* A skipped execution leaves findings that a scan of what the registry named,
\* with the database as of the probe, would have found again (_is_unchanged),
\* provided the versions compared were read, the database's not from its schema
\* number, and the report of the scan named its bytes.
THEOREM SkipsAreSound == Spec => SkipIsSound
<1>1. ExecInv /\ OutcomeInv /\ [Next]_vars =>
        [skips /\ run.named
            /\ exec.trivy_version # unknown /\ exec.db_version \notin {unknown, schema}
         => up_to_date]_vars
  BY SkipsAreRecorded, UnchangedInputs DEF skips
<1> QED
  BY <1>1, ExecInvHolds, OutcomeInvHolds, PTL DEF Spec, SkipIsSound

-----------------------------------------------------------------------------
(* The parser: a loop invariant, by induction on the rounds of each loop.  *)

\* A set of naturals that holds 0 and every successor of its members is all of
\* them: < is well-founded.
LEMMA NatSet ==
    ASSUME NEW S \in SUBSET Nat, 0 \in S, \A n \in S : n + 1 \in S
    PROVE  S = Nat
<1> SUFFICES ASSUME S # Nat PROVE FALSE
  OBVIOUS
<1> DEFINE T == Nat \ S
           R == OpToRel(<, Nat)
<1>1. T \subseteq Nat /\ T # {}
  OBVIOUS
<1>2. IsWellFoundedOn(R, Nat)
  BY NatLessThanWellFounded
<1>3. \A x, y \in Nat : y < x => <<y, x>> \in R
  BY DEF OpToRel
<1> HIDE DEF R, T
<1>4. PICK x \in T : \A y \in T : ~(<<y, x>> \in R)
  BY <1>1, <1>2, WFMin
<1>5. x # 0 /\ x \in Nat
  BY DEF T
<1>6. x - 1 \in Nat /\ x - 1 < x
  BY <1>5
<1>7. x - 1 \in S
  BY <1>3, <1>4, <1>5, <1>6 DEF T
<1> QED
  BY <1>4, <1>5, <1>6, <1>7 DEF T

\* The ranks are 0 to 4, one for each severity; what is no severity is unknown.
LEMMA Ranks ==
    /\ \A s \in Severity : rank(s) \in 0..4
    /\ \A s, t \in Severity : rank(s) = rank(t) => s = t
    /\ \A raw : parse_severity(raw) \in Severity
<1>1. rank("UNKNOWN") = 0 /\ rank("LOW") = 1 /\ rank("MEDIUM") = 2
      /\ rank("HIGH") = 3 /\ rank("CRITICAL") = 4
  BY DEF rank, SEVERITY_RANK, Severity
<1> QED
  BY <1>1 DEF Severity, parse_severity

\* The loop invariant: deduped has the keys of the findings so far, each with
\* the worst severity that one of them gives it.
is_worst(deduped, findings) ==
    /\ \A f \in findings : f.rank \in 0..4
    /\ deduped = [k \in DOMAIN deduped |-> deduped[k]]
    /\ DOMAIN deduped = {f.key : f \in findings}
    /\ \A k \in DOMAIN deduped :
        /\ deduped[k] \in Severity
        /\ [key |-> k, rank |-> rank(deduped[k])] \in findings
        /\ \A f \in findings : f.key = k => f.rank <= rank(deduped[k])

\* The finding a vulnerability of a target makes, if it makes one.
made_by(target, v) ==
    IF keyed(v) THEN {[key |-> key(target, v), rank |-> rank(parse_severity(v.severity))]} ELSE {}

\* One step of the inner loop takes one vulnerability into account.
LEMMA KeepStep ==
    ASSUME NEW d, NEW F, NEW t, NEW v, is_worst(d, F)
    PROVE  is_worst(keep(d, t, v), F \cup made_by(t, v))
<1> DEFINE k == key(t, v)
           s == parse_severity(v.severity)
           f == [key |-> k, rank |-> rank(s)]
           G == F \cup {f}
           e == [x \in DOMAIN d \cup {k} |-> IF x = k THEN s ELSE d[x]]
<1>1. s \in Severity /\ rank(s) \in 0..4 /\ f.key = k /\ f.rank = rank(s)
  BY Ranks
<1> HIDE DEF k, s
<1>2. CASE ~keyed(v)
  BY <1>2 DEF keep, made_by
<1>3. CASE keyed(v) /\ replaces(k, s, d)
  <2>1. keep(d, t, v) = e /\ F \cup made_by(t, v) = G
    BY <1>3 DEF keep, made_by, k, s
  <2>2. \A g \in F : g.key = k => g.rank <= rank(s)
    <3> SUFFICES ASSUME NEW g \in F, g.key = k PROVE g.rank <= rank(s)
      OBVIOUS
    <3>1. k \in DOMAIN d /\ g.rank <= rank(d[k]) /\ d[k] \in Severity /\ g.rank \in 0..4
      BY DEF is_worst
    <3> QED
      BY <1>1, <1>3, <3>1, Ranks DEF replaces
  <2>3. DOMAIN e = {g.key : g \in G}
    BY <1>1 DEF is_worst
  <2>4. ASSUME NEW x \in DOMAIN e
        PROVE  /\ e[x] \in Severity
               /\ [key |-> x, rank |-> rank(e[x])] \in G
               /\ \A g \in G : g.key = x => g.rank <= rank(e[x])
    <3>1. CASE x = k
      BY <1>1, <2>2, <3>1
    <3>2. CASE x # k
      BY <1>1, <3>2 DEF is_worst
    <3> QED
      BY <3>1, <3>2
  <2>5. e = [x \in DOMAIN e |-> e[x]] /\ \A g \in G : g.rank \in 0..4
    BY <1>1 DEF is_worst
  <2> QED
    <3> HIDE DEF e, G
    <3> QED
      BY <2>1, <2>3, <2>4, <2>5 DEF is_worst
<1>4. CASE keyed(v) /\ ~replaces(k, s, d)
  <2>1. keep(d, t, v) = d /\ F \cup made_by(t, v) = G
    BY <1>4 DEF keep, made_by, k, s
  <2>2. k \in DOMAIN d /\ rank(s) <= rank(d[k])
    <3>1. k \in DOMAIN d /\ ~(rank(s) > rank(d[k]))
      BY <1>4 DEF replaces
    <3>2. d[k] \in Severity
      BY <3>1 DEF is_worst
    <3> QED
      BY <1>1, <3>1, <3>2, Ranks
  <2>3. DOMAIN d = {g.key : g \in G} /\ \A g \in G : g.rank \in 0..4
    BY <1>1, <2>2 DEF is_worst
  <2>4. ASSUME NEW x \in DOMAIN d
        PROVE  /\ d[x] \in Severity
               /\ [key |-> x, rank |-> rank(d[x])] \in G
               /\ \A g \in G : g.key = x => g.rank <= rank(d[x])
    BY <1>1, <2>2 DEF is_worst
  <2>5. d = [x \in DOMAIN d |-> d[x]]
    BY DEF is_worst
  <2> QED
    <3> HIDE DEF G
    <3> QED
      BY <2>1, <2>3, <2>4, <2>5 DEF is_worst
<1> QED
  BY <1>2, <1>3, <1>4 DEF k, s

\* What the first m rounds of the inner loop make of deduped.
is_inner_loop(f, d, t, s, m) ==
    f = [n \in 0..m |-> IF n = 0 THEN d ELSE keep(f[n - 1], t, s[n])]

\* What the first m rounds of the outer loop make of an empty deduped.
is_outer_loop(f, s, m) ==
    f = [n \in 0..m |-> IF n = 0 THEN <<>> ELSE keep_all(f[n - 1], s[n])]

\* The inner loop is defined, for a list of any length.
LEMMA InnerLoop ==
    ASSUME NEW d, NEW t, NEW s, NEW m \in Nat
    PROVE  \E f : is_inner_loop(f, d, t, s, m)
<1> DEFINE P(f, l) == is_inner_loop(f, d, t, s, l)
           S == {l \in Nat : \E f : P(f, l)}
<1>1. 0 \in S
  <2> DEFINE f == [n \in 0..0 |-> d]
  <2>1. P(f, 0)
    BY DEF is_inner_loop
  <2> QED
    BY <2>1
<1>2. ASSUME NEW l \in S PROVE l + 1 \in S
  <2>1. PICK f : P(f, l)
    OBVIOUS
  <2> DEFINE next == keep(f[l], t, s[l + 1])
  <2> DEFINE g == [n \in 0..(l + 1) |-> IF n = l + 1 THEN next ELSE f[n]]
  <2>2. ASSUME NEW n \in 0..(l + 1)
        PROVE  g[n] = IF n = 0 THEN d ELSE keep(g[n - 1], t, s[n])
    <3> HIDE DEF next
    <3>1. CASE n = l + 1
      <4>1. g[n] = next /\ n # 0 /\ n - 1 = l /\ g[n - 1] = f[l]
        BY <3>1
      <4> QED
        BY <3>1, <4>1 DEF next
    <3>2. CASE n \in 0..l
      <4>1. g[n] = f[n] /\ (n # 0 => g[n - 1] = f[n - 1])
        BY <3>2
      <4>2. f[n] = IF n = 0 THEN d ELSE keep(f[n - 1], t, s[n])
        BY <2>1, <3>2 DEF is_inner_loop
      <4> QED
        BY <4>1, <4>2
    <3> QED
      BY <3>1, <3>2
  <2>3. P(g, l + 1)
    BY <2>2 DEF is_inner_loop
  <2> HIDE DEF g, P
  <2>4. l + 1 \in Nat /\ \E h : P(h, l + 1)
    BY <2>3
  <2> QED
    BY <2>4
<1> HIDE DEF S
<1>3. S = Nat
  BY <1>1, <1>2, NatSet DEF S
<1> QED
  BY <1>3 DEF S

\* The outer loop is defined, for a report of any length.
LEMMA OuterLoop ==
    ASSUME NEW s, NEW m \in Nat
    PROVE  \E f : is_outer_loop(f, s, m)
<1> DEFINE P(f, l) == is_outer_loop(f, s, l)
           S == {l \in Nat : \E f : P(f, l)}
<1>1. 0 \in S
  <2> DEFINE f == [n \in 0..0 |-> <<>>]
  <2>1. P(f, 0)
    BY DEF is_outer_loop
  <2> QED
    BY <2>1
<1>2. ASSUME NEW l \in S PROVE l + 1 \in S
  <2>1. PICK f : P(f, l)
    OBVIOUS
  <2> DEFINE next == keep_all(f[l], s[l + 1])
  <2> DEFINE g == [n \in 0..(l + 1) |-> IF n = l + 1 THEN next ELSE f[n]]
  <2>2. ASSUME NEW n \in 0..(l + 1)
        PROVE  g[n] = IF n = 0 THEN <<>> ELSE keep_all(g[n - 1], s[n])
    <3> HIDE DEF next
    <3>1. CASE n = l + 1
      <4>1. g[n] = next /\ n # 0 /\ n - 1 = l /\ g[n - 1] = f[l]
        BY <3>1
      <4> QED
        BY <3>1, <4>1 DEF next
    <3>2. CASE n \in 0..l
      <4>1. g[n] = f[n] /\ (n # 0 => g[n - 1] = f[n - 1])
        BY <3>2
      <4>2. f[n] = IF n = 0 THEN <<>> ELSE keep_all(f[n - 1], s[n])
        BY <2>1, <3>2 DEF is_outer_loop
      <4> QED
        BY <4>1, <4>2
    <3> QED
      BY <3>1, <3>2
  <2>3. P(g, l + 1)
    BY <2>2 DEF is_outer_loop
  <2> HIDE DEF g, P
  <2>4. l + 1 \in Nat /\ \E h : P(h, l + 1)
    BY <2>3
  <2> QED
    BY <2>4
<1> HIDE DEF S
<1>3. S = Nat
  BY <1>1, <1>2, NatSet DEF S
<1> QED
  BY <1>3 DEF S

\* The findings of a target; of one that is passed over, none.
made_by_target(target) == IF target = Junk THEN {} ELSE reported_by(target)

\* The inner loop takes a target into account.
LEMMA KeepAll ==
    ASSUME NEW d, NEW F, NEW t, is_worst(d, F),
           t # Junk => t.vulnerabilities \in Seq(Range(t.vulnerabilities))
    PROVE  is_worst(keep_all(d, t), F \cup made_by_target(t))
<1> DEFINE s == IF t = Junk THEN <<>> ELSE t.vulnerabilities
           L == Len(s)
           loop == CHOOSE f : f = [n \in 0..L |-> IF n = 0 THEN d ELSE keep(f[n - 1], t, s[n])]
           made(m) == UNION {made_by(t, s[i]) : i \in 1..m}
           S == {m \in Nat : m <= L => is_worst(loop[m], F \cup made(m))}
<1>1. L \in Nat /\ DOMAIN s = 1..L
  BY DEF Range
<1>2. keep_all(d, t) = loop[L]
  BY DEF keep_all
<1>3. made(L) = made_by_target(t)
  <2>1. CASE t = Junk
    BY <2>1 DEF made_by_target
  <2>2. CASE t # Junk
    <3>1. Range(t.vulnerabilities) = {s[i] : i \in 1..L}
      BY <1>1, <2>2 DEF Range
    <3>2. reported_by(t) = {[key |-> key(t, v), rank |-> rank(parse_severity(v.severity))] :
                              v \in {v \in {s[i] : i \in 1..L} : keyed(v)}}
      BY <3>1 DEF reported_by
    <3>3. ASSUME NEW f PROVE f \in made(L) <=> f \in reported_by(t)
      <4> HIDE DEF s, L
      <4>1. f \in made(L) <=> \E i \in 1..L : f \in made_by(t, s[i])
        OBVIOUS
      <4>2. f \in reported_by(t) <=>
              \E i \in 1..L : keyed(s[i]) /\ f = [key |-> key(t, s[i]),
                                                 rank |-> rank(parse_severity(s[i].severity))]
        BY <3>2
      <4> QED
        BY <4>1, <4>2 DEF made_by
    <3> QED
      BY <2>2, <3>3 DEF made_by_target
  <2> QED
    BY <2>1, <2>2
<1> HIDE DEF s, L
<1>4. loop = [n \in 0..L |-> IF n = 0 THEN d ELSE keep(loop[n - 1], t, s[n])]
  <2>1. \E f : f = [n \in 0..L |-> IF n = 0 THEN d ELSE keep(f[n - 1], t, s[n])]
    <3>1. L \in Nat /\ \E f : is_inner_loop(f, d, t, s, L)
      BY <1>1, InnerLoop
    <3> QED
      BY <3>1 DEF is_inner_loop
  <2> QED
    BY <2>1, Zenon
<1> HIDE DEF loop
<1>5. 0 \in S
  <2>1. loop[0] = d /\ made(0) = {}
    BY <1>1, <1>4
  <2> QED
    BY <2>1
<1>6. ASSUME NEW m \in S PROVE m + 1 \in S
  <2> SUFFICES ASSUME m + 1 <= L PROVE is_worst(loop[m + 1], F \cup made(m + 1))
    OBVIOUS
  <2>1. m \in Nat /\ is_worst(loop[m], F \cup made(m))
    BY <1>1
  <2>2. m + 1 \in 0..L /\ m + 1 # 0 /\ (m + 1) - 1 = m
    BY <1>1, <2>1
  <2>3. loop[m + 1] = keep(loop[m], t, s[m + 1])
    BY <1>4, <2>2
  <2>4. 1..(m + 1) = 1..m \cup {m + 1}
    BY <2>1
  <2>5. F \cup made(m + 1) = (F \cup made(m)) \cup made_by(t, s[m + 1])
    BY <2>4
  <2> HIDE DEF made
  <2> QED
    BY <2>1, <2>3, <2>5, KeepStep
<1> HIDE DEF S
<1>7. S = Nat
  BY <1>5, <1>6, NatSet DEF S
<1>8. is_worst(loop[L], F \cup made(L))
  <2> HIDE DEF made
  <2>1. L \in S /\ L <= L
    BY <1>1, <1>7
  <2> QED
    BY <2>1 DEF S
<1> HIDE DEF made
<1> QED
  BY <1>2, <1>3, <1>8

\* The outer loop takes every target of a report into account.
LEMMA ParseReport ==
    ASSUME NEW report, is_report(report)
    PROVE  is_worst(parse_report(report), reported(report))
<1> DEFINE L == Len(report)
           loop == CHOOSE f :
                     f = [n \in 0..L |-> IF n = 0 THEN <<>> ELSE keep_all(f[n - 1], report[n])]
           made(m) == UNION {made_by_target(report[i]) : i \in 1..m}
           S == {m \in Nat : m <= L => is_worst(loop[m], made(m))}
<1>1. L \in Nat /\ DOMAIN report = 1..L
  BY DEF is_report
<1>2. parse_report(report) = loop[L]
  BY DEF parse_report
<1>3. Range(report) = {report[i] : i \in 1..L}
  BY <1>1 DEF Range
<1>4. made(L) = reported(report)
  BY <1>3 DEF reported, made_by_target
<1> HIDE DEF L
<1>5. loop = [n \in 0..L |-> IF n = 0 THEN <<>> ELSE keep_all(loop[n - 1], report[n])]
  <2>1. \E f : f = [n \in 0..L |-> IF n = 0 THEN <<>> ELSE keep_all(f[n - 1], report[n])]
    <3>1. L \in Nat /\ \E f : is_outer_loop(f, report, L)
      BY <1>1, OuterLoop
    <3> QED
      BY <3>1 DEF is_outer_loop
  <2> QED
    BY <2>1, Zenon
<1> HIDE DEF loop
<1>6. 0 \in S
  <2>1. loop[0] = <<>> /\ made(0) = {}
    BY <1>1, <1>5
  <2>2. is_worst(<<>>, {})
    BY DEF is_worst
  <2> QED
    BY <2>1, <2>2
<1>7. ASSUME NEW m \in S PROVE m + 1 \in S
  <2> SUFFICES ASSUME m + 1 <= L PROVE is_worst(loop[m + 1], made(m + 1))
    OBVIOUS
  <2>1. m \in Nat /\ is_worst(loop[m], made(m))
    BY <1>1
  <2>2. m + 1 \in 1..L /\ m + 1 \in 0..L /\ m + 1 # 0 /\ (m + 1) - 1 = m
    BY <1>1, <2>1
  <2>3. loop[m + 1] = keep_all(loop[m], report[m + 1])
    BY <1>5, <2>2
  <2>4. 1..(m + 1) = 1..m \cup {m + 1}
    BY <2>1
  <2>5. made(m + 1) = made(m) \cup made_by_target(report[m + 1])
    BY <2>4
  <2>6. LET t == report[m + 1]
        IN t # Junk => t.vulnerabilities \in Seq(Range(t.vulnerabilities))
    BY <1>3, <2>2 DEF is_report
  <2> HIDE DEF made
  <2> QED
    BY <2>1, <2>3, <2>5, <2>6, KeepAll
<1> HIDE DEF S
<1>8. S = Nat
  BY <1>6, <1>7, NatSet DEF S
<1>9. is_worst(loop[L], made(L))
  <2> HIDE DEF made
  <2>1. L \in S /\ L <= L
    BY <1>1, <1>8
  <2> QED
    BY <2>1 DEF S
<1> HIDE DEF made
<1> QED
  BY <1>2, <1>4, <1>9

\* parse_report gives each key of a report once, with the worst of the
\* severities the report gives it, however many targets and vulnerabilities it
\* has and in whatever order, unless a severity that is not a string makes it
\* raise ("keep the highest severity rather than letting an arbitrary one win").
THEOREM ParserKeepsTheWorst ==
    ASSUME NEW report, is_report(report), ~parse_raises(report)
    PROVE  parse_report(report) = worst_findings(report)
<1> DEFINE d == parse_report(report)
           F == reported(report)
<1>1. is_worst(d, F)
  BY ParseReport
<1> HIDE DEF d, F
<1>2. ASSUME NEW k \in DOMAIN d, NEW s \in Severity,
             [key |-> k, rank |-> rank(s)] \in F,
             \A f \in F : f.key = k => f.rank <= rank(s)
      PROVE  s = d[k]
  <2>1. rank(s) <= rank(d[k]) /\ rank(d[k]) <= rank(s)
    BY <1>1, <1>2 DEF is_worst
  <2>2. d[k] \in Severity
    BY <1>1 DEF is_worst
  <2> QED
    BY <2>1, <2>2, Ranks
<1>3. ASSUME NEW k \in DOMAIN d
      PROVE  d[k] = CHOOSE s \in Severity :
                        /\ [key |-> k, rank |-> rank(s)] \in F
                        /\ \A f \in F : f.key = k => f.rank <= rank(s)
  <2>1. /\ d[k] \in Severity /\ [key |-> k, rank |-> rank(d[k])] \in F
        /\ \A f \in F : f.key = k => f.rank <= rank(d[k])
    BY <1>1 DEF is_worst
  <2> QED
    BY <1>2, <2>1
<1>4. d = [k \in DOMAIN d |-> d[k]] /\ DOMAIN d = {f.key : f \in F}
  BY <1>1 DEF is_worst
<1> QED
  BY <1>3, <1>4 DEF worst_findings, d, F

-----------------------------------------------------------------------------
(* Findings.                                                               *)

\* An execution that ends otherwise has no report to answer for.
LEMMA EndsWithoutReport ==
    ASSUME NEW answer,
           \/ _defer_for_backpressure(answer)
           \/ \E permanent \in BOOLEAN : _record_failure(answer, permanent)
    PROVE  outcome'.result # "success"
BY DEF _defer_for_backpressure, _record_failure, end, no_outcome

\* Every step but that of record_success ends no execution in success, or ends
\* none.
LEMMA OnlyReportsSucceed ==
    ASSUME [Next]_vars, ~record_success
    PROVE  outcome'.result # "success" \/ UNCHANGED outcome
<1>1. CASE probe_versions
  BY <1>1, EndsWithoutReport DEF probe_versions, _run_raises, go
<1>2. CASE send_head
  BY <1>2, EndsWithoutReport DEF send_head, answered, go
<1>3. CASE _fetch_token
  BY <1>3, EndsWithoutReport DEF _fetch_token, go
<1>4. CASE send_get
  BY <1>4, EndsWithoutReport DEF send_get, answered, go
<1>5. CASE run_scan
  <2>1. CASE _run_raises("trivy image")
    BY <2>1, EndsWithoutReport DEF _run_raises
  <2>2. CASE \E next : go(next)
    BY <2>2 DEF go
  <2> QED
    BY <1>5, <2>1, <2>2 DEF run_scan
<1>6. CASE run_once \/ record_skip
  <2>1. CASE run_once
    BY <2>1 DEF run_once, no_outcome
  <2>2. CASE record_skip
    <3>1. outcome' = [no_outcome EXCEPT !.result = "skipped", !.answer = no_answer, !.delay = 0]
      BY <2>2 DEF record_skip, end
    <3> QED
      BY <3>1 DEF no_outcome
  <2> QED
    BY <1>6, <2>1, <2>2
<1>7. CASE move_tag \/ refresh_db \/ deploy \/ UNCHANGED vars
  BY <1>7 DEF move_tag, refresh_db, deploy, vars
<1> QED
  BY <1>1, <1>2, <1>3, <1>4, <1>5, <1>6, <1>7 DEF Next

\* The findings an execution ends with are the parser's.
LEMMA SuccessReports ==
    ASSUME record_success, outcome'.result = "success"
    PROVE  WorstSeverityWins'
<1>1. PICK report \in Reports :
        /\ ~parse_raises(report)
        /\ outcome' = [no_outcome EXCEPT !.result = "success", !.report = report,
                                         !.findings = parse_report(report)]
  BY EndsWithoutReport DEF record_success
<1>2. parse_report(report) = worst_findings(report)
  BY <1>1, ParserKeepsTheWorst, ExecutionAssumption
<1>3. outcome'.report = report /\ outcome'.findings = parse_report(report)
  BY <1>1 DEF no_outcome
<1> QED
  BY <1>2, <1>3 DEF WorstSeverityWins

\* The findings of every scan that succeeds are those of its report, each key
\* once with the worst severity the report gives it, for reports of any length
\* (parse_report, record_success).
THEOREM FindingsAreTheWorst == Spec => []WorstSeverityWins
<1>1. Init => WorstSeverityWins
  BY DEF Init, no_outcome, WorstSeverityWins
<1>2. WorstSeverityWins /\ [Next]_vars => WorstSeverityWins'
  <2> SUFFICES ASSUME WorstSeverityWins, [Next]_vars PROVE WorstSeverityWins'
    OBVIOUS
  <2>1. CASE outcome'.result # "success"
    BY <2>1 DEF WorstSeverityWins
  <2>2. CASE UNCHANGED outcome
    BY <2>2 DEF WorstSeverityWins
  <2>3. CASE record_success /\ outcome'.result = "success"
    BY <2>3, SuccessReports
  <2> QED
    BY <2>1, <2>2, <2>3, OnlyReportsSucceed
<1> QED
  BY <1>1, <1>2, PTL DEF Spec
=============================================================================
