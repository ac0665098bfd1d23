--------------------------- MODULE ReportParsing ---------------------------
(***************************************************************************)
(* parse_report: from a Trivy report to one finding per key.  A report is  *)
(* unreadable (no output, no JSON, no object, Results not a list), which   *)
(* raises, or a sequence of targets, its Results; null Results are empty.  *)
(* A target or vulnerability that is not of the expected shape is Junk; a  *)
(* field that is missing, empty or blank is Absent.  A Severity may be any *)
(* JSON value, and one that is not a string raises.                        *)
(***************************************************************************)
EXTENDS Integers, Sequences, FiniteSets, SequencesExt

CONSTANTS
    Junk, Absent,
    upper       \* upper[s]: s.strip().upper(), for the strings s of severities

Severity == {"UNKNOWN", "LOW", "MEDIUM", "HIGH", "CRITICAL"}

SEVERITY_RANK ==
    [s \in Severity |-> CASE s = "UNKNOWN" -> 0 [] s = "LOW" -> 1 [] s = "MEDIUM" -> 2
                          [] s = "HIGH" -> 3 [] s = "CRITICAL" -> 4]

rank(severity) == SEVERITY_RANK[severity]

\* For a string; see raises for what is none.
parse_severity(raw) ==
    IF raw # Absent /\ upper[raw] \in Severity THEN upper[raw] ELSE "UNKNOWN"

\* A list of targets, each of them Junk or with a list of vulnerabilities.
is_report(report) ==
    /\ report \in Seq(Range(report))
    /\ \A t \in Range(report) : t # Junk => t.vulnerabilities \in Seq(Range(t.vulnerabilities))

\* _clean(result.get("Type")) or "unknown"
package_type(target) == IF target.type = Absent THEN "unknown" ELSE target.type

\* Two fields of the key stand for four: the package's version is as its name.
key(target, v) == [cve_id |-> v.cve_id, package |-> v.package, type |-> package_type(target)]

\* Without both an id and a package the finding has no key and is left out.
keyed(v) == v # Junk /\ v.cve_id # Absent /\ v.package # Absent

\* Only ValueError is caught: what has no strip() raises AttributeError.
raises(v) == keyed(v) /\ v.severity # Absent /\ v.severity \notin DOMAIN upper

parse_raises(report) ==
    \E t \in Range(report) : t # Junk /\ \E v \in Range(t.vulnerabilities) : raises(v)

\* Mutant of replaces: the last one wins.
replaces_always(k, severity, deduped) == TRUE

replaces(k, severity, deduped) == k \notin DOMAIN deduped \/ rank(severity) > rank(deduped[k])

\* deduped, from keys to severities, after one more vulnerability of a target.
keep(deduped, target, v) ==
    LET k == key(target, v)
        severity == parse_severity(v.severity)
    IN IF keyed(v) /\ replaces(k, severity, deduped)
       THEN [x \in DOMAIN deduped \cup {k} |-> IF x = k THEN severity ELSE deduped[x]]
       ELSE deduped

\* The inner loop.  There is none for a target that is passed over.
keep_all(deduped, target) ==
    LET vulnerabilities == IF target = Junk THEN <<>> ELSE target.vulnerabilities
        loop[n \in 0..Len(vulnerabilities)] ==
            IF n = 0 THEN deduped ELSE keep(loop[n - 1], target, vulnerabilities[n])
    IN loop[Len(vulnerabilities)]

parse_report(report) ==
    LET loop[n \in 0..Len(report)] == IF n = 0 THEN <<>> ELSE keep_all(loop[n - 1], report[n])
    IN loop[Len(report)]

\* _extract_digest: the registry's digest, else the local id, else none.
_extract_digest(metadata) ==
    IF metadata.repo_digest # Absent THEN metadata.repo_digest ELSE metadata.image_id

-----------------------------------------------------------------------------
\* What parse_report should return, said without loops: every key some
\* vulnerability of the report has, with the worst severity it is given there.

reported_by(target) ==
    {[key |-> key(target, v), rank |-> rank(parse_severity(v.severity))] :
        v \in {v \in Range(target.vulnerabilities) : keyed(v)}}

reported(report) == UNION {reported_by(target) : target \in {t \in Range(report) : t # Junk}}

worst_findings(report) ==
    [k \in {f.key : f \in reported(report)} |->
        CHOOSE s \in Severity :
            /\ [key |-> k, rank |-> rank(s)] \in reported(report)
            /\ \A f \in reported(report) : f.key = k => f.rank <= rank(s)]
=============================================================================
