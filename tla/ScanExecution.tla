--------------------------- MODULE ScanExecution ---------------------------
(***************************************************************************)
(* The inside of worker._execute, one execution after another for one      *)
(* image: the probe, the exchange with the registry, the skip decision,    *)
(* Trivy, the parser, and what run_once makes of the exception.  Meanwhile *)
(* tags move, the vulnerability database is refreshed and workers are      *)
(* redeployed.  That executions of an image do not overlap is a theorem    *)
(* about ScanQueue; what a failure or a deferral does to the job is there. *)
(*                                                                         *)
(* An image's bytes are known by their manifest digest.  A run remembers,  *)
(* in found, what its findings were computed from: bytes, database,        *)
(* scanner and flags.  The program does not store that; it is what a skip  *)
(* has to be judged by.                                                    *)
(***************************************************************************)
EXTENDS Integers, Sequences, FiniteSets, FiniteSetsExt, ReportParsing

CONSTANTS
    Digests,            \* manifest digests the tag may point at
    Deployments,        \* [trivy, trivy_server_url] of the worker
    Reports,            \* the Results of reports Trivy may print
    RetryAfters,        \* Retry-After headers registries may send
    DEFAULT_DEFER_SECONDS,
    TicksPerSecond,     \* ticks of the clock that Retry-After dates are read with
    unknown,            \* the version of what cannot be told
    schema,             \* the schema number of the vulnerability database
    MaxDb               \* bound: refreshes of the vulnerability database

NULL == -1

ASSUME ExecutionAssumption ==
    /\ DEFAULT_DEFER_SECONDS \in Nat \ {0}
    /\ TicksPerSecond \in Nat \ {0}
    /\ MaxDb \in Nat
    /\ \A h \in RetryAfters : h.form \in {"none", "garbage", "seconds", "date"} /\ h.value \in Int
    /\ \A d \in Deployments : DOMAIN d = {"trivy", "trivy_server_url"}
    /\ \A d \in Digests : d # Absent /\ <<"image_id", d>> \notin Digests \cup {Absent}
    /\ \A report \in Reports : is_report(report)

VARIABLES
    tag,        \* the digest the tag points at
    db,         \* version of the vulnerability database in use
    deployed,   \* the worker's Trivy and settings
    run,        \* the image's last successful run, or NoRun
    exec,       \* the execution under way
    outcome     \* how the last execution ended

vars == <<tag, db, deployed, run, exec, outcome>>

-----------------------------------------------------------------------------
\* trivy.py

scan_flags(settings) ==
    {"--format", "--quiet", "--scanners", "--image-src"}
        \cup (IF settings.trivy_server_url # Absent THEN {"--server"} ELSE {"--skip-db-update"})

scan_flags_hash(settings) == <<scan_flags(settings), settings.trivy_server_url>>

\* What a scan's findings depend on.
Inputs(bytes, version, settings) ==
    [bytes |-> bytes, db |-> version, trivy |-> settings.trivy,
     flags |-> scan_flags_hash(settings)]

\* Mutant of _RATE_LIMIT_MARKERS: the status code is one of them.
_RATE_LIMIT_MARKERS_with_status ==
    {"429", "toomanyrequests", "too many requests", "pull rate limit", "rate limit exceeded"}

_RATE_LIMIT_MARKERS ==
    {"toomanyrequests", "too many requests", "pull rate limit", "rate limit exceeded"}

\* What Trivy prints to stderr before it exits with an error, as in the fixtures
\* of the parser's tests: the phrases its text has once it is in lower case, and
\* whether a registry throttled the pull.
Details ==
    [throttled: {TRUE},
     says: {{"toomanyrequests", "pull rate limit"}, {"toomanyrequests"},
            {"429", "too many requests"}, {"rate limit exceeded"}}]
    \cup
    [throttled: {FALSE},
     says: {{"manifest unknown"}, {"429", "manifest unknown"}, {"unauthorized"}, {}}]

is_rate_limit_error(detail) == detail.says \cap _RATE_LIMIT_MARKERS # {}

-----------------------------------------------------------------------------
\* State.

\* The answer that ended an execution: to which request or command, whether a
\* registry said that it throttles, and for how long.
Answer(from, throttled, header) ==
    [from |-> from, throttled |-> throttled, retry_after |-> header]

no_header == [form |-> "none", value |-> 0]
no_answer == Answer("nobody", FALSE, no_header)

Idle == [phase |-> "idle"]

NoRun == [digest |-> Absent]

\* Types: an execution that decides knows a digest, a run has one, and no
\* recorded database is newer than the one in use.
TypeOK ==
    /\ tag \in Digests
    /\ db \in 0..MaxDb
    /\ deployed \in Deployments
    /\ run # NoRun =>
        /\ run.digest \in Digests \cup {<<"image_id", d>> : d \in Digests}
        /\ run.trivy_db_version \in 0..db \cup {unknown, schema}
        /\ run.found.db \in 0..db
    /\ exec.phase \in {"idle", "probe", "head", "token", "get", "decide", "report"}
    /\ exec.phase \in {"decide", "report"} => exec.digest \in Digests
    /\ outcome.result \in {"none", "success", "skipped", "deferred", "failed", "failed_for_good"}
    /\ outcome.delay \in Nat

no_outcome ==
    [result |-> "none", answer |-> no_answer, delay |-> 0, report |-> <<>>, findings |-> <<>>]

Init ==
    /\ tag \in Digests
    /\ db = 0
    /\ deployed \in Deployments
    /\ run = NoRun
    /\ exec = Idle
    /\ outcome = no_outcome

\* The execution ends; run_once returns.
end(result, answer, delay) ==
    /\ exec' = Idle
    /\ outcome' = [no_outcome EXCEPT !.result = result, !.answer = answer, !.delay = delay]
    /\ UNCHANGED <<tag, db, deployed>>

go(next) == exec' = next /\ UNCHANGED <<tag, db, deployed, run, outcome>>

-----------------------------------------------------------------------------
\* run_once's handlers, in the order of the except clauses.

\* Mutant of parse_retry_after: only delta-seconds are read.
parse_retry_after_seconds(header) ==
    IF header.form = "seconds" THEN Max({0, header.value}) ELSE NULL

\* An HTTP-date is given by its distance from the present, in ticks; int() drops
\* the part of a second.
parse_retry_after(header) ==
    CASE header.form = "seconds" -> Max({0, header.value})
      [] header.form = "date" -> Max({0, header.value}) \div TicksPerSecond
      [] OTHER -> NULL

\* Mutant of defer_delay: what the registry said, if it said anything.
defer_delay_as_told(retry_after) == retry_after

\* `retry_after or DEFAULT_DEFER_SECONDS`
defer_delay(retry_after) ==
    IF retry_after \in {NULL, 0} THEN DEFAULT_DEFER_SECONDS ELSE retry_after

\* RateLimited and TrivyRateLimited.
_defer_for_backpressure(answer) ==
    /\ end("deferred", answer, defer_delay(parse_retry_after(answer.retry_after)))
    /\ UNCHANGED run

\* ImageNotFound, and every other exception.
_record_failure(answer, permanent) ==
    /\ end(IF permanent THEN "failed_for_good" ELSE "failed", answer, 0)
    /\ UNCHANGED run

\* Trivy is missing, takes too long, or exits with an error and tells why.
_run_raises(command) ==
    \/ _record_failure(Answer(command, FALSE, no_header), FALSE)
    \/ \E detail \in Details :
        LET answer == Answer(command, detail.throttled, no_header)
        IN IF is_rate_limit_error(detail) THEN _defer_for_backpressure(answer)
                                          ELSE _record_failure(answer, FALSE)

-----------------------------------------------------------------------------
\* _execute up to the commit before the registry is asked.

run_once ==
    /\ exec = Idle
    /\ exec' = [phase |-> "probe"]
    /\ outcome' = no_outcome
    /\ UNCHANGED <<tag, db, deployed, run>>

\* db_version: UpdatedAt of metadata.json, else its Version, else a constant if
\* there is neither or the file cannot be read.
db_versions == {db, schema, unknown}

\* payload.get("Version") or "unknown"
trivy_versions == {deployed.trivy, unknown}

\* seen is the database in use at the probe, whatever the file said; what comes
\* later is Absent.  Output that is no JSON is an error too.
probe_versions ==
    /\ exec.phase = "probe"
    /\ \/ \E trivy \in trivy_versions, version \in db_versions :
            go([phase |-> "head", token |-> FALSE, seen |-> db,
                trivy_version |-> trivy, db_version |-> version,
                flags_hash |-> scan_flags_hash(deployed),
                digest |-> Absent, found |-> Absent, metadata |-> Absent])
       \/ _run_raises("trivy --version")

-----------------------------------------------------------------------------
\* resolve_digest, one HTTP request at a time.  A registry may leave the digest
\* out of an answer to HEAD.

answered(digest) == go([exec EXCEPT !.phase = "decide", !.digest = digest])

\* 401 without a usable challenge, or with a token, is an error like any other
\* but 404 and 429.
send_head ==
    /\ exec.phase = "head"
    /\ \/ answered(tag)
       \/ go([exec EXCEPT !.phase = "get"])
       \/ ~exec.token /\ go([exec EXCEPT !.phase = "token"])
       \/ \E permanent \in BOOLEAN :
              _record_failure(Answer("head", FALSE, no_header), permanent)
       \/ \E h \in RetryAfters : _defer_for_backpressure(Answer("head", TRUE, h))

\* Any failure that is not throttling includes a body without a token: the HEAD
\* is then not repeated, and its 401 is what counts.
_fetch_token ==
    /\ exec.phase = "token"
    /\ \/ go([exec EXCEPT !.phase = "head", !.token = TRUE])
       \/ _record_failure(Answer("token", FALSE, no_header), FALSE)
       \/ \E h \in RetryAfters : _defer_for_backpressure(Answer("token", TRUE, h))

\* The fallback looks at the header of the answer, and not at its status: a 429
\* raises RegistryError like an answer without a digest.
send_get ==
    /\ exec.phase = "get"
    /\ \/ answered(tag)
       \/ _record_failure(Answer("get", FALSE, no_header), FALSE)
       \/ \E h \in RetryAfters : _record_failure(Answer("get", TRUE, h), FALSE)

-----------------------------------------------------------------------------
\* _execute from the decision on.

\* previous was read before the registry was asked; no other execution of this
\* image has written a run since.
_is_unchanged ==
    /\ run # NoRun
    /\ run.digest = exec.digest
    /\ run.trivy_version = exec.trivy_version
    /\ run.trivy_db_version = exec.db_version
    /\ run.scan_flags_hash = exec.flags_hash

record_skip ==
    /\ exec.phase = "decide" /\ _is_unchanged
    /\ end("skipped", no_answer, 0)
    /\ UNCHANGED run

\* How a report of these bytes may name them.
named(bytes) ==
    {[repo_digest |-> bytes, image_id |-> Absent],
     [repo_digest |-> Absent, image_id |-> <<"image_id", bytes>>],
     [repo_digest |-> Absent, image_id |-> Absent]}

\* Trivy pulls what the tag points at by now and asks the database of now.
run_scan ==
    /\ exec.phase = "decide" /\ ~_is_unchanged
    /\ \/ \E metadata \in named(tag) :
            go([exec EXCEPT !.phase = "report", !.found = Inputs(tag, db, deployed),
                            !.metadata = metadata])
       \/ _run_raises("trivy image")

\* Mutant of scanned_digest: the digest that was resolved before the scan.
scanned_digest_resolved == exec.digest

\* report.digest or digest
scanned_digest ==
    IF _extract_digest(exec.metadata) # Absent THEN _extract_digest(exec.metadata) ELSE exec.digest

\* parse_report, record_success, complete, commit.  An unreadable report raises,
\* and so does one with a severity that is not a string.
record_success ==
    /\ exec.phase = "report"
    /\ \/ /\ run' = [digest |-> scanned_digest,
                     trivy_version |-> exec.trivy_version,
                     trivy_db_version |-> exec.db_version,
                     scan_flags_hash |-> exec.flags_hash,
                     named |-> _extract_digest(exec.metadata) # Absent,
                     found |-> exec.found]
          /\ exec' = Idle
          /\ \E report \in Reports :
                /\ ~parse_raises(report)
                /\ outcome' = [no_outcome EXCEPT !.result = "success", !.report = report,
                                                 !.findings = parse_report(report)]
          /\ UNCHANGED <<tag, db, deployed>>
       \/ _record_failure(Answer("report", FALSE, no_header), FALSE)

-----------------------------------------------------------------------------
\* The surroundings.

move_tag ==
    /\ tag' \in Digests \ {tag}
    /\ UNCHANGED <<db, deployed, run, exec, outcome>>

refresh_db ==
    /\ db < MaxDb
    /\ db' = db + 1
    /\ UNCHANGED <<tag, deployed, run, exec, outcome>>

\* SIGTERM lets the worker finish its job first.
deploy ==
    /\ exec = Idle
    /\ deployed' \in Deployments \ {deployed}
    /\ UNCHANGED <<tag, db, run, exec, outcome>>

Next ==
    \/ run_once \/ probe_versions \/ send_head \/ _fetch_token \/ send_get
    \/ record_skip \/ run_scan \/ record_success
    \/ move_tag \/ refresh_db \/ deploy

Spec == Init /\ [][Next]_vars

-----------------------------------------------------------------------------
(* Properties.                                                             *)

\* The findings in force are those that a scan of the bytes the registry named
\* would find, with the database in use at the probe, this scanner, these flags.
up_to_date == run.found = Inputs(exec.digest, exec.seen, deployed)

skips == exec.phase = "decide" /\ outcome'.result = "skipped"

\* A skipped execution leaves findings that a scan would have found again,
\* whatever moved between the probe, the digest and the scan of either execution
\* (worker._is_unchanged: "Identical image bytes, scanner, vulnerability database
\* and flags cannot produce different findings").  Provided the comparison is of
\* values that identify something: not of the constants that stand for what could
\* not be read, nor of the schema number in place of the database, nor of a
\* digest that was resolved before a scan whose report names none.
SkipIsSound ==
    [][skips /\ run.named
          /\ exec.trivy_version # unknown /\ exec.db_version \notin {unknown, schema}
       => up_to_date]_vars

\* How long the header asks to wait, in ticks, where it can be understood.
asked(header) ==
    CASE header.form = "seconds" -> TicksPerSecond * Max({0, header.value})
      [] header.form = "date" -> Max({0, header.value})
      [] OTHER -> 0

\* Only a registry that throttles defers a job, since a deferral is not counted
\* and could go on for ever; a 429 to the HEAD or at the token's endpoint, and a
\* pull that Trivy says was throttled, always do; and the job waits as long as
\* the registry asked, but for the part of a second that parse_retry_after drops
\* of a date, and never not at all (_defer_for_backpressure: "Registry throttling
\* is backpressure, not failure"; is_rate_limit_error: "A false positive would
\* defer forever"; parse_retry_after: "getting this wrong means retrying into a
\* throttle that is still in force").
DeferralIsBackpressure ==
    /\ outcome.answer.throttled /\ outcome.answer.from # "get" => outcome.result = "deferred"
    /\ outcome.result = "deferred" =>
        /\ outcome.answer.throttled
        /\ outcome.delay > 0
        /\ TicksPerSecond * (outcome.delay + 1) > asked(outcome.answer.retry_after)

\* A 429 is never charged to the job, at whichever request of resolve_digest it
\* shows (digest.py: "a 429 raises RateLimited"; tests/test_registry.py: "A 429
\* is backpressure, and must arrive as something other than an error").  The
\* fallback GET does not look at the status.
ThrottlingIsNotFailure == outcome.answer.throttled => outcome.result = "deferred"

\* The findings of a scan are those of its report: each key once, with the
\* worst severity any target gives it, in whatever order the targets come and
\* whatever junk is among them (parse_report: "keep the highest severity rather
\* than letting an arbitrary one win").
WorstSeverityWins ==
    outcome.result = "success" => outcome.findings = worst_findings(outcome.report)
=============================================================================
