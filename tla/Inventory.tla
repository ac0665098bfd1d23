----------------------------- MODULE Inventory -----------------------------
(***************************************************************************)
(* What the tables are to who reads them: for each image the report in     *)
(* force, and a list of the CVEs that some image carries.  A scan puts one *)
(* whole report in the place of another, and the list follows in the same  *)
(* instant; nothing else changes either.  Runs, transactions, locks and    *)
(* the rows that are kept but no longer current are not part of it.        *)
(***************************************************************************)
EXTENDS Integers, FiniteSets

CONSTANTS Images, Reports    \* a report: from <<CVE, package>> to severity rank

VARIABLES
    current,    \* current[i]: the report in force for image i
    listing     \* a line per CVE: its worst severity and how many images have it

\* The images that carry c, and the severities they have it with.
carriers(reports, c) == {i \in Images : \E k \in DOMAIN reports[i] : k[1] = c}

severities(reports, c) ==
    UNION {{reports[i][k] : k \in {k \in DOMAIN reports[i] : k[1] = c}} : i \in Images}

worst(ranks) == CHOOSE r \in ranks : \A s \in ranks : s <= r

carried(reports) == UNION {{k[1] : k \in DOMAIN reports[i]} : i \in Images}

listing_of(reports) ==
    {[cve |-> c, rank |-> worst(severities(reports, c)),
      images |-> Cardinality(carriers(reports, c))] : c \in carried(reports)}

Init ==
    /\ current = [i \in Images |-> <<>>]
    /\ listing = {}

replace(i, report) ==
    /\ current' = [current EXCEPT ![i] = report]
    /\ listing' = listing_of(current')

Next == \E i \in Images, report \in Reports : replace(i, report)

Spec == Init /\ [][Next]_<<current, listing>>
=============================================================================
