-------------------------- MODULE MCScanExecution --------------------------
(* Small registries, databases and reports for ScanExecution.              *)
EXTENDS ScanExecution

CONSTANTS d1, d2

ThreeDeployments ==
    {[trivy |-> "v1", trivy_server_url |-> Absent],
     [trivy |-> "v1", trivy_server_url |-> "http://trivy"],
     [trivy |-> "v2", trivy_server_url |-> Absent]}

\* One deployment where others are of no interest.
OneDeployment == {[trivy |-> "v1", trivy_server_url |-> Absent]}

\* A header for each form, in both directions from zero; dates are given in
\* ticks, half seconds here, so that they need not be whole seconds away.
Headers ==
    {[form |-> "none", value |-> 0], [form |-> "garbage", value |-> 0],
     [form |-> "seconds", value |-> 0], [form |-> "seconds", value |-> 9],
     [form |-> "date", value |-> 1], [form |-> "date", value |-> 15],
     [form |-> "date", value |-> -9]}

\* strip().upper(), of severities as they should be and as they are written.
Uppercase ==
    [s \in {"LOW", "HIGH", "CRITICAL", " critical", "severe"} |->
        CASE s = " critical" -> "CRITICAL" [] s = "severe" -> "SEVERE" [] OTHER -> s]

vulnerability(cve, severity) == [cve_id |-> cve, package |-> "p", severity |-> severity]

target(type, vulnerabilities) == [type |-> type, vulnerabilities |-> vulnerabilities]

\* A key with a severity that is worse, written differently and among what has
\* to be passed over; without a severity, with one that is unknown and with one
\* that is not a string; the same key without a type; no target at all.
Targets ==
    {target("deb", <<vulnerability(Absent, "HIGH"), vulnerability("c", " critical"), Junk>>),
     target("deb", <<vulnerability("c", Absent)>>),
     target("deb", <<vulnerability("c", "severe")>>),
     target("deb", <<vulnerability("c", Junk)>>),
     target(Absent, <<vulnerability("c", "LOW")>>),
     Junk}

LowTarget == target("deb", <<vulnerability("c", "LOW")>>)

\* No result, or the key with a low severity before or after one of these.
SmallReports ==
    {<<>>} \cup {<<LowTarget, t>> : t \in Targets} \cup {<<t, LowTarget>> : t \in Targets}
=============================================================================
