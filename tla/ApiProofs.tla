----------------------------- MODULE ApiProofs -----------------------------
(***************************************************************************)
(* The read endpoints for any images, reports, requests and page sizes,    *)
(* with scans committing between the statements of a request and of each   *)
(* other: a page is of one scan, and a 304 confirms a current              *)
(* body where runs commit in the order of their completion, each in a      *)
(* second of its own.  The list of CVEs agrees with the rest, and what is  *)
(* read implements Inventory, where scans that drop a CVE are written      *)
(* alone.                                                                  *)
(***************************************************************************)
EXTENDS Api, FiniteSetTheorems, TLAPS

-----------------------------------------------------------------------------
(* The tables.                                                             *)

AnyReport == Reports \cup {<<>>}

Run ==
    [image: Images, status: {"success", "failed", "skipped"}, completed_at: Nat,
     finding_count: {counts(report) : report \in AnyReport}, report: AnyReport]

\* The findings of image i are as the run that reported them last said.
as_reported(i, rows, runs) ==
    \A k \in DOMAIN rows :
        LET r == rows[k].last_seen_run_id
        IN /\ r \in DOMAIN runs
           /\ runs[r].image = i
           /\ k \in DOMAIN runs[r].report
           /\ rows[k].severity_rank = runs[r].report[k]

\* All that the run p of image i reported was last reported by it.
is_whole(i, rows, p, runs) ==
    p # NULL =>
        /\ p \in DOMAIN runs
        /\ runs[p].image = i
        /\ \A k \in DOMAIN runs[p].report : k \in DOMAIN rows /\ rows[k].last_seen_run_id = p

\* The rows that the rollup's sub-select joins for a CVE, and what it computes.
live(c, findings, images) ==
    UNION {{<<i, k>> : k \in {k \in current_rows(findings, images, i) : k[1] = c}} : i \in Images}

rollup_row(c, findings, images) ==
    [max_severity_rank |->
        Max({0} \cup {findings[r[1]][r[2]].severity_rank : r \in live(c, findings, images)}),
     affected_image_count |-> Cardinality({r[1] : r \in live(c, findings, images)})]

times(runs) == {NULL} \cup {runs[n].completed_at : n \in DOMAIN runs}

has_newest(runs) == \E t \in times(runs) : \A s \in times(runs) : t >= s

RunsInv ==
    /\ now \in 0..MaxTime
    /\ scan_run \in Seq(Run)
    /\ \A n \in DOMAIN scan_run :
        /\ scan_run[n].completed_at \in 0..now
        /\ scan_run[n].finding_count = counts(scan_run[n].report)
    /\ has_newest(scan_run)

ImagesInv ==
    /\ DOMAIN image = Images
    /\ \A i \in Images :
        /\ image[i].last_scan_at \in 0..now \cup {NULL}
        /\ image[i].consecutive_failures \in 0..Len(scan_run)

FindingsInv ==
    /\ DOMAIN finding = Images
    /\ \A i \in Images :
        /\ as_reported(i, finding[i], scan_run)
        /\ is_whole(i, finding[i], image[i].current_scan_run_id, scan_run)

ScanningInv ==
    /\ DOMAIN scanning = Images
    /\ \A i \in Images :
        scanning[i] # NoResult => \E time \in 0..now : scanning[i] \in Results(time)

\* The transactions under way, and the CVEs their rollups write.
TxnInv ==
    /\ DOMAIN cve \subseteq Cves
    /\ DOMAIN txn = Images
    /\ \A i \in Images :
        /\ txn[i].open => /\ scanning[i].status = "success"
                          /\ DOMAIN txn[i].rollup \subseteq affected(i)
        /\ ~txn[i].open => DOMAIN txn[i].rollup = {}

TablesInv == RunsInv /\ ImagesInv /\ FindingsInv /\ ScanningInv /\ TxnInv

\* The rollup is what a recompute over the current findings gives.
CveInv ==
    /\ \A c \in DOMAIN cve : cve[c] = rollup_row(c, finding, image)
    /\ \A i \in Images : \A k \in current_rows(finding, image, i) : k[1] \in DOMAIN cve

\* For a CVE, these are the tables after the scan of image i: its report is in
\* force, and the other images have the CVE as they have it now.
is_after(i, c, findings, images) ==
    /\ current_rows(findings, images, i) = DOMAIN scanning[i].report
    /\ \A k \in DOMAIN scanning[i].report :
          findings[i][k].severity_rank = scanning[i].report[k]
    /\ \A j \in Images : j # i => \A k : k[1] = c =>
          /\ k \in current_rows(findings, images, j) <=> k \in current_rows(finding, image, j)
          /\ k \in current_rows(finding, image, j) =>
                findings[j][k].severity_rank = finding[j][k].severity_rank

\* What table cve will say of a CVE that the scan touches is right then.
is_settled(i, c) ==
    LET rows == overwritten(cve, txn[i].rollup)
    IN /\ c \in DOMAIN rows
       /\ \A findings, images : is_after(i, c, findings, images) =>
              rows[c] = rollup_row(c, findings, images)

apart(i, j) == affected(i) \cap affected(j) = {}

\* What DropsAlone gives: transactions under way touch different CVEs, so what
\* each of them computed is still right when it commits.
RollupInv ==
    /\ CveInv
    /\ \A i, j \in Images : i # j /\ txn[i].open /\ txn[j].open => apart(i, j)
    /\ \A i \in Images : txn[i].open => \A c \in affected(i) : is_settled(i, c)

-----------------------------------------------------------------------------
(* Operators.                                                              *)

\* A report that is empty has no keys; any other is from the constant.
LEMMA AnyReportFacts ==
    ASSUME NEW report \in AnyReport
    PROVE  /\ IsFiniteSet(DOMAIN report)
           /\ \A k \in DOMAIN report :
                /\ k = <<k[1], k[2]>> /\ k[1] \in Cves
                /\ report[k] \in 0..4
<1>1. CASE report \in Reports
  BY <1>1, ApiAssumption DEF Cves
<1>2. CASE report = <<>>
  <2>1. DOMAIN report = {}
    BY <1>2
  <2> QED
    BY <2>1, FS_EmptySet
<1> QED
  BY <1>1, <1>2 DEF AnyReport

\* What overwritten gives.
LEMMA OverwrittenFacts ==
    ASSUME NEW rows, NEW new
    PROVE  /\ DOMAIN overwritten(rows, new) = DOMAIN rows \cup DOMAIN new
           /\ \A k \in DOMAIN new : overwritten(rows, new)[k] = new[k]
           /\ \A k \in DOMAIN rows : k \notin DOMAIN new => overwritten(rows, new)[k] = rows[k]
  BY DEF overwritten

\* next is rows after a report: reported findings anew, the others as they were.
is_upsert(next, rows, report, run_id) ==
    /\ DOMAIN next = DOMAIN rows \cup DOMAIN report
    /\ \A k \in DOMAIN report : next[k].severity_rank = report[k] /\ next[k].last_seen_run_id = run_id
    /\ \A k \in DOMAIN rows : k \notin DOMAIN report => next[k] = rows[k]

\* What _upsert_findings writes.
LEMMA UpsertFacts ==
    ASSUME NEW rows, NEW report, NEW run_id
    PROVE  is_upsert(_upsert_findings(rows, report, run_id), rows, report, run_id)
<1> DEFINE next == _upsert_findings(rows, report, run_id)
<1> DEFINE new == [k \in DOMAIN report |-> [severity_rank |-> report[k], last_seen_run_id |-> run_id]]
<1>1. DOMAIN new = DOMAIN report
  OBVIOUS
<1>2. \A k \in DOMAIN report : new[k].severity_rank = report[k] /\ new[k].last_seen_run_id = run_id
  OBVIOUS
<1>3. next = overwritten(rows, new)
  BY DEF _upsert_findings
<1> HIDE DEF new, next
<1>4. /\ DOMAIN overwritten(rows, new) = DOMAIN rows \cup DOMAIN new
      /\ \A k \in DOMAIN new : overwritten(rows, new)[k] = new[k]
      /\ \A k \in DOMAIN rows : k \notin DOMAIN new => overwritten(rows, new)[k] = rows[k]
  BY OverwrittenFacts
<1>5. is_upsert(next, rows, report, run_id)
  BY <1>1, <1>2, <1>3, <1>4 DEF is_upsert
<1> QED
  BY <1>5 DEF next

\* What the sub-select computes.
LEMMA SubSelectFacts ==
    ASSUME NEW cves, NEW findings, NEW images
    PROVE  LET rows == sub_select(cves, findings, images)
           IN /\ DOMAIN rows = cves
              /\ \A c \in cves : rows[c] = rollup_row(c, findings, images)
  BY DEF sub_select, rollup_row, live

\* What the rollup writes: after it, the CVEs that the scan touches have what the
\* sub-select computed, also where IS DISTINCT FROM left the row alone.
LEMMA RecomputeFacts ==
    ASSUME NEW i, NEW findings, NEW images,
           NEW written, written = _recompute_cve_rollup(i, findings, images)
    PROVE  /\ DOMAIN written \subseteq affected(i)
           /\ \A c \in affected(i) :
                 /\ c \in DOMAIN overwritten(cve, written)
                 /\ overwritten(cve, written)[c] = rollup_row(c, findings, images)
<1> DEFINE sub == sub_select(affected(i), findings, images)
           D == {c \in affected(i) : c \in DOMAIN cve => cve[c] # sub[c]}
<1>1. written = [c \in D |-> sub[c]]
  BY DEF _recompute_cve_rollup
<1>2. \A c \in affected(i) : sub[c] = rollup_row(c, findings, images)
  BY SubSelectFacts
<1> HIDE DEF sub
<1>3. DOMAIN written = D /\ \A c \in D : written[c] = sub[c]
  BY <1>1
<1>4. /\ DOMAIN overwritten(cve, written) = DOMAIN cve \cup DOMAIN written
      /\ \A k \in DOMAIN written : overwritten(cve, written)[k] = written[k]
      /\ \A k \in DOMAIN cve : k \notin DOMAIN written => overwritten(cve, written)[k] = cve[k]
  BY OverwrittenFacts
<1> QED
  BY <1>2, <1>3, <1>4

\* The CVEs that a scan touches, said with a quantifier.
LEMMA AffectedFacts ==
    ASSUME NEW i
    PROVE  /\ \A k \in DOMAIN scanning[i].report : k[1] \in affected(i)
           /\ \A k \in current_rows(finding, image, i) : k[1] \in affected(i)
           /\ \A c \in affected(i) :
                 \E k \in DOMAIN scanning[i].report \cup current_rows(finding, image, i) : c = k[1]
  BY DEF affected, _current_cve_ids, reported_cves, cves_in

\* They stay what they are while the image's result and findings do.
LEMMA SameAffected ==
    ASSUME NEW i, scanning'[i] = scanning[i],
           current_rows(finding', image', i) = current_rows(finding, image, i)
    PROVE  affected(i)' = affected(i)
  BY DEF affected, _current_cve_ids, reported_cves, cves_in, current_rows

\* A row of the join, said with a quantifier.
LEMMA LiveRow ==
    ASSUME NEW c, NEW findings, NEW images, NEW r
    PROVE  r \in live(c, findings, images) <=>
              \E i \in Images : \E k \in current_rows(findings, images, i) : k[1] = c /\ r = <<i, k>>
  BY DEF live

\* One more run.
LEMMA AppendFacts ==
    ASSUME NEW runs \in Seq(Run), NEW run \in Run
    PROVE  /\ Append(runs, run) \in Seq(Run)
           /\ Len(runs) \in Nat /\ Len(Append(runs, run)) = Len(runs) + 1
           /\ Len(runs) + 1 \in Nat /\ Len(runs) + 1 # NULL
           /\ DOMAIN Append(runs, run) = DOMAIN runs \cup {Len(runs) + 1}
           /\ Len(runs) + 1 \notin DOMAIN runs
           /\ \A r \in DOMAIN runs : Append(runs, run)[r] = runs[r] /\ r # NULL
           /\ Append(runs, run)[Len(runs) + 1] = run
  BY DEF NULL

-----------------------------------------------------------------------------
(* commit, for one image's findings.                                       *)

\* A run of another image, or one without findings, changes nothing that was
\* said of the findings.
LEMMA OtherRunKeeps ==
    ASSUME NEW runs \in Seq(Run), NEW run \in Run, NEW i, NEW rows, NEW p,
           as_reported(i, rows, runs), is_whole(i, rows, p, runs)
    PROVE  /\ as_reported(i, rows, Append(runs, run))
           /\ is_whole(i, rows, p, Append(runs, run))
<1> DEFINE more == Append(runs, run)
<1>1. DOMAIN runs \subseteq DOMAIN more /\ \A r \in DOMAIN runs : more[r] = runs[r]
  BY AppendFacts
<1> HIDE DEF more
<1>2. as_reported(i, rows, more)
  BY <1>1 DEF as_reported
<1>3. is_whole(i, rows, p, more)
  BY <1>1 DEF is_whole
<1> QED
  BY <1>2, <1>3 DEF more

\* A success of the image: its findings are as reported, and the new run's are
\* all there.
LEMMA SuccessKeeps ==
    ASSUME NEW runs \in Seq(Run), NEW run \in Run, NEW i, run.image = i, NEW rows,
           as_reported(i, rows, runs), NEW l, l = Len(runs) + 1,
           NEW next, next = _upsert_findings(rows, run.report, l)
    PROVE  /\ as_reported(i, next, Append(runs, run))
           /\ is_whole(i, next, l, Append(runs, run))
<1> DEFINE more == Append(runs, run)
<1>1. /\ DOMAIN more = DOMAIN runs \cup {l} /\ l \notin DOMAIN runs /\ more[l] = run
      /\ \A r \in DOMAIN runs : more[r] = runs[r]
  BY AppendFacts
<1> HIDE DEF more
<1>r. PICK report : report = run.report
  OBVIOUS
<1>u. is_upsert(next, rows, report, l)
  BY <1>r, UpsertFacts
<1>2. /\ DOMAIN next = DOMAIN rows \cup DOMAIN report
      /\ \A k \in DOMAIN report : next[k].severity_rank = report[k] /\ next[k].last_seen_run_id = l
      /\ \A k \in DOMAIN rows : k \notin DOMAIN report => next[k] = rows[k]
  BY <1>u DEF is_upsert
<1>3. ASSUME NEW k \in DOMAIN next
      PROVE  LET r == next[k].last_seen_run_id
             IN /\ r \in DOMAIN more /\ more[r].image = i /\ k \in DOMAIN more[r].report
                /\ next[k].severity_rank = more[r].report[k]
  <2>1. CASE k \in DOMAIN report
    BY <1>1, <1>2, <1>r, <2>1
  <2>2. CASE k \notin DOMAIN report
    BY <1>1, <1>2, <2>2 DEF as_reported
  <2> QED
    BY <2>1, <2>2
<1>4. is_whole(i, next, l, more)
  BY <1>1, <1>2, <1>r DEF is_whole
<1> QED
  BY <1>3, <1>4 DEF as_reported, more

\* The current findings of an image are those of its current run.
LEMMA CurrentRows ==
    ASSUME NEW findings, NEW images, NEW i, NEW runs \in Seq(Run), NEW p,
           p = images[i].current_scan_run_id,
           as_reported(i, findings[i], runs), is_whole(i, findings[i], p, runs)
    PROVE  current_rows(findings, images, i) = IF p = NULL THEN {} ELSE DOMAIN runs[p].report
<1>1. NULL \notin DOMAIN runs
  BY DEF NULL
<1>2. \A k \in DOMAIN findings[i] : LET r == findings[i][k].last_seen_run_id
                                    IN r \in DOMAIN runs /\ k \in DOMAIN runs[r].report
  BY DEF as_reported
<1>3. CASE p = NULL
  BY <1>1, <1>2, <1>3 DEF current_rows
<1>4. CASE p # NULL
  <2>1. \A k \in DOMAIN runs[p].report :
            k \in DOMAIN findings[i] /\ findings[i][k].last_seen_run_id = p
    BY <1>4 DEF is_whole
  <2> QED
    BY <1>2, <1>4, <2>1 DEF current_rows
<1> QED
  BY <1>3, <1>4

\* The rollup of a CVE depends on the current findings of it alone.
LEMMA RollupSame ==
    ASSUME NEW c, NEW f1, NEW m1, NEW f2, NEW m2,
           \A j \in Images : \A k : k[1] = c =>
               (k \in current_rows(f1, m1, j) <=> k \in current_rows(f2, m2, j)),
           \A j \in Images : \A k \in current_rows(f1, m1, j) : k[1] = c =>
               f1[j][k].severity_rank = f2[j][k].severity_rank
    PROVE  rollup_row(c, f1, m1) = rollup_row(c, f2, m2)
<1>1. live(c, f1, m1) = live(c, f2, m2)
  <2>1. \A r : r \in live(c, f1, m1) <=> r \in live(c, f2, m2)
    BY LiveRow
  <2> QED
    BY <2>1
<1>2. \A r \in live(c, f1, m1) : f1[r[1]][r[2]].severity_rank = f2[r[1]][r[2]].severity_rank
  BY LiveRow
<1> DEFINE L == live(c, f1, m1)
<1> HIDE DEF L
<1>3. {f1[r[1]][r[2]].severity_rank : r \in L} = {f2[r[1]][r[2]].severity_rank : r \in L}
  BY <1>2 DEF L
<1> QED
  BY <1>1, <1>3 DEF rollup_row, L

\* A finding as the tables have it.
LEMMA FindingFacts ==
    ASSUME TablesInv, NEW i \in Images, NEW k \in DOMAIN finding[i]
    PROVE  /\ k = <<k[1], k[2]>> /\ k[1] \in Cves
           /\ finding[i][k].severity_rank \in 0..4
           /\ finding[i][k].last_seen_run_id \in DOMAIN scan_run
           /\ scan_run[finding[i][k].last_seen_run_id].image = i
           /\ k \in DOMAIN scan_run[finding[i][k].last_seen_run_id].report
           /\ finding[i][k].severity_rank = scan_run[finding[i][k].last_seen_run_id].report[k]
<1>1. PICK r : r = finding[i][k].last_seen_run_id
  OBVIOUS
<1>2. /\ r \in DOMAIN scan_run /\ scan_run[r].image = i /\ k \in DOMAIN scan_run[r].report
      /\ finding[i][k].severity_rank = scan_run[r].report[k]
  BY <1>1 DEF TablesInv, FindingsInv, as_reported
<1>3. scan_run[r] \in Run
  BY <1>2 DEF TablesInv, RunsInv
<1>4. scan_run[r].report \in AnyReport
  BY <1>3 DEF Run
<1>5. k = <<k[1], k[2]>> /\ k[1] \in Cves /\ scan_run[r].report[k] \in 0..4
  BY <1>2, <1>4, AnyReportFacts
<1> QED
  BY <1>1, <1>2, <1>5

\* A scan touches CVEs of reports only.
LEMMA AffectedCves ==
    ASSUME TablesInv, NEW i \in Images, scanning[i].status = "success"
    PROVE  affected(i) \subseteq Cves
<1>1. scanning[i] # NoResult
  BY DEF NoResult
<1>2. PICK time : scanning[i] \in Results(time)
  BY <1>1 DEF TablesInv, ScanningInv
<1>3. scanning[i].report \in AnyReport
  BY <1>2 DEF Results, AnyReport
<1>4. \A k \in DOMAIN scanning[i].report : k[1] \in Cves
  BY <1>3, AnyReportFacts
<1>5. \A k \in current_rows(finding, image, i) : k[1] \in Cves
  BY FindingFacts DEF current_rows
<1> QED
  BY <1>4, <1>5, AffectedFacts

-----------------------------------------------------------------------------
(* commit.                                                                 *)

\* What a job may end with.
LEMMA ResultFacts ==
    ASSUME NEW time, NEW result \in Results(time)
    PROVE  /\ result.status \in {"success", "failed", "skipped"}
           /\ result.completed_at = time
           /\ result.report \in AnyReport
           /\ result.status # "success" => result.report = <<>>
  BY DEF Results, AnyReport

\* The run that is inserted.
LEMMA NewRunFacts ==
    ASSUME NEW i \in Images, NEW time \in Nat, NEW result \in Results(time),
           NEW run, run = _new_run(i, result)
    PROVE  /\ run \in Run
           /\ run.image = i /\ run.status = result.status /\ run.completed_at = time
           /\ run.report = result.report /\ run.finding_count = counts(run.report)
  BY ResultFacts DEF _new_run, Run

\* A commit, said of each table.
commits(i, time, result, run, l) ==
    /\ scanning[i] = result /\ result \in Results(time) /\ time \in 0..now
    /\ l = Len(scan_run) + 1
    /\ run = _new_run(i, result)
    /\ scan_run' = Append(scan_run, run)
    /\ DOMAIN image' = Images /\ image'[i] = image_after(image[i], l, result)
    /\ \A j \in Images : j # i => image'[j] = image[j]
    /\ DOMAIN finding' = Images /\ is_upsert(finding'[i], finding[i], result.report, l)
    /\ finding'[i] = _upsert_findings(finding[i], result.report, l)
    /\ \A j \in Images : j # i => finding'[j] = finding[j]
    /\ result.status = "success" => txn[i].open
    /\ cve' = overwritten(cve, txn[i].rollup)
    /\ scanning' = [scanning EXCEPT ![i] = NoResult]
    /\ txn' = [txn EXCEPT ![i] = Closed]
    /\ CommitsSpaced => spaced(result)
    /\ UNCHANGED <<now, request, cache>>

\* commit is such a step.
LEMMA CommitFacts ==
    ASSUME TablesInv, NEW i \in Images, commit(i)
    PROVE  \E time, result, run, l : commits(i, time, result, run, l)
<1>1. PICK result : result = scanning[i]
  OBVIOUS
<1>2. PICK l : l = Len(scan_run) + 1
  OBVIOUS
<1>3. PICK run : run = _new_run(i, result)
  OBVIOUS
<1>4. PICK time \in 0..now : result \in Results(time)
  BY <1>1 DEF commit, TablesInv, ScanningInv
<1>5. DOMAIN image = Images /\ DOMAIN finding = Images
  BY DEF TablesInv, ImagesInv, FindingsInv
<1>6. /\ scan_run' = Append(scan_run, run)
      /\ image' = [image EXCEPT ![i] = image_after(@, l, result)]
      /\ finding' = [finding EXCEPT ![i] = _upsert_findings(@, result.report, l)]
      /\ result.status = "success" => txn[i].open
      /\ cve' = overwritten(cve, txn[i].rollup)
      /\ scanning' = [scanning EXCEPT ![i] = NoResult]
      /\ txn' = [txn EXCEPT ![i] = Closed]
      /\ CommitsSpaced => spaced(result)
      /\ UNCHANGED <<now, request, cache>>
  BY <1>1, <1>2, <1>3 DEF commit
<1>7. /\ DOMAIN image' = Images /\ image'[i] = image_after(image[i], l, result)
      /\ \A j \in Images : j # i => image'[j] = image[j]
  BY <1>5, <1>6
<1>8. /\ DOMAIN finding' = Images /\ finding'[i] = _upsert_findings(finding[i], result.report, l)
      /\ \A j \in Images : j # i => finding'[j] = finding[j]
  BY <1>5, <1>6
<1>9. is_upsert(finding'[i], finding[i], result.report, l)
  BY <1>8, UpsertFacts
<1>10. commits(i, time, result, run, l)
  BY <1>1, <1>2, <1>3, <1>4, <1>6, <1>7, <1>8, <1>9 DEF commits
<1> QED
  BY <1>10

\* What the steps below use of a commit.
inserts(i, time, result, run, l) ==
    /\ run \in Run /\ run.image = i /\ run.completed_at = time /\ run.report = result.report
    /\ run.finding_count = counts(run.report) /\ time \in 0..now /\ now \in Nat
    /\ run.status = result.status
    /\ result.report \in AnyReport /\ result.completed_at = time
    /\ result.status # "success" => result.report = <<>>
    /\ scan_run \in Seq(Run) /\ scan_run' \in Seq(Run)
    /\ scan_run' = Append(scan_run, run) /\ Len(scan_run) \in Nat
    /\ Len(scan_run') = Len(scan_run) + 1
    /\ l \in Nat /\ l = Len(scan_run) + 1 /\ l # NULL /\ l \notin DOMAIN scan_run
    /\ DOMAIN scan_run' = DOMAIN scan_run \cup {l} /\ scan_run'[l] = run
    /\ \A n \in DOMAIN scan_run : scan_run'[n] = scan_run[n]

\* A commit inserts its run.
LEMMA CommitRun ==
    ASSUME TablesInv, NEW i \in Images, NEW time, NEW result, NEW run, NEW l,
           commits(i, time, result, run, l)
    PROVE  inserts(i, time, result, run, l)
<1>1. /\ now \in Nat /\ scan_run \in Seq(Run)
  BY ApiAssumption DEF TablesInv, RunsInv
<1>2. /\ result \in Results(time) /\ time \in 0..now /\ l = Len(scan_run) + 1
      /\ run = _new_run(i, result) /\ scan_run' = Append(scan_run, run)
  BY DEF commits
<1>3. time \in Nat
  BY <1>1, <1>2
<1>4. /\ run \in Run /\ run.image = i /\ run.completed_at = time /\ run.report = result.report
      /\ run.finding_count = counts(run.report) /\ run.status = result.status
  BY <1>2, <1>3, NewRunFacts
<1>5. /\ result.report \in AnyReport /\ result.completed_at = time
      /\ result.status # "success" => result.report = <<>>
  BY <1>2, ResultFacts
<1> QED
  BY <1>1, <1>2, <1>4, <1>5, AppendFacts DEF inserts

\* The runs and the clock.
LEMMA CommitRuns ==
    ASSUME TablesInv, NEW i \in Images, NEW time, NEW result, NEW run, NEW l,
           commits(i, time, result, run, l)
    PROVE  RunsInv'
<1>0. inserts(i, time, result, run, l)
  BY CommitRun
<1>1. /\ run.completed_at = time /\ time \in 0..now /\ now \in Nat
      /\ run.finding_count = counts(run.report)
      /\ scan_run' \in Seq(Run) /\ DOMAIN scan_run' = DOMAIN scan_run \cup {l}
      /\ scan_run'[l] = run /\ \A n \in DOMAIN scan_run : scan_run'[n] = scan_run[n]
  BY <1>0 DEF inserts
<1>2. UNCHANGED now /\ RunsInv
  BY DEF commits, TablesInv
<1>3. times(scan_run') = times(scan_run) \cup {time}
  BY <1>1 DEF times
<1>4. PICK t \in times(scan_run) : \A s \in times(scan_run) : t >= s
  BY <1>2 DEF RunsInv, has_newest
<1>5. times(scan_run) \subseteq Int
  BY <1>2 DEF RunsInv, times, NULL
<1>6. has_newest(scan_run')
  <2>1. CASE t >= time
    BY <1>3, <1>4, <2>1 DEF has_newest
  <2>2. CASE ~(t >= time)
    <3>1. \A s \in times(scan_run) : time >= s
      BY <1>1, <1>4, <1>5, <2>2
    <3>2. time >= time
      BY <1>1
    <3> QED
      BY <1>3, <3>1, <3>2 DEF has_newest
  <2> QED
    BY <2>1, <2>2
<1>7. \A n \in DOMAIN scan_run' : /\ scan_run'[n].completed_at \in 0..now
                                  /\ scan_run'[n].finding_count = counts(scan_run'[n].report)
  BY <1>1, <1>2 DEF RunsInv
<1> QED
  BY <1>1, <1>2, <1>6, <1>7 DEF RunsInv

\* The columns of the images.
LEMMA CommitImages ==
    ASSUME TablesInv, NEW i \in Images, NEW time, NEW result, NEW run, NEW l,
           commits(i, time, result, run, l)
    PROVE  ImagesInv'
<1>0. inserts(i, time, result, run, l)
  BY CommitRun
<1>1. /\ Len(scan_run) \in Nat /\ Len(scan_run') = Len(scan_run) + 1
      /\ result.completed_at = time /\ time \in 0..now
  BY <1>0 DEF inserts
<1>2. /\ DOMAIN image' = Images /\ image'[i] = image_after(image[i], l, result)
      /\ \A j \in Images : j # i => image'[j] = image[j]
      /\ UNCHANGED now
  BY DEF commits
<1>3. \A j \in Images : /\ image[j].last_scan_at \in 0..now \cup {NULL}
                        /\ image[j].consecutive_failures \in 0..Len(scan_run)
  BY DEF TablesInv, ImagesInv
<1>4. image'[i].last_scan_at = time
  BY <1>1, <1>2 DEF image_after
<1>5. image'[i].consecutive_failures \in 0..Len(scan_run')
  <2>1. image'[i].consecutive_failures \in
            {0, image[i].consecutive_failures, image[i].consecutive_failures + 1}
    <3>1. image[i].consecutive_failures \in Int
      BY <1>1, <1>3
    <3> QED
      BY <1>2, <3>1 DEF image_after
  <2> QED
    BY <1>1, <1>3, <2>1
<1>6. ASSUME NEW j \in Images
      PROVE  /\ image'[j].last_scan_at \in 0..now' \cup {NULL}
             /\ image'[j].consecutive_failures \in 0..Len(scan_run')
  <2>1. CASE j = i
    BY <1>1, <1>2, <1>4, <1>5, <2>1
  <2>2. CASE j # i
    BY <1>1, <1>2, <1>3, <2>2
  <2> QED
    BY <2>1, <2>2
<1> QED
  BY <1>2, <1>6 DEF ImagesInv

\* The pointer moves for a success, and stays for anything else.
LEMMA CommitPointer ==
    ASSUME NEW i \in Images, NEW time, NEW result, NEW run, NEW l,
           commits(i, time, result, run, l)
    PROVE  /\ \A j \in Images : j # i => image'[j] = image[j]
           /\ result.status = "success" => image'[i].current_scan_run_id = l
           /\ result.status # "success" =>
                  image'[i].current_scan_run_id = image[i].current_scan_run_id
<1>1. /\ image'[i] = image_after(image[i], l, result)
      /\ \A j \in Images : j # i => image'[j] = image[j]
  BY DEF commits
<1> QED
  BY <1>1 DEF image_after

\* Without a report the findings stay as they are.
LEMMA NoReportKeeps ==
    ASSUME NEW next, NEW rows, NEW run_id, is_upsert(next, rows, <<>>, run_id)
    PROVE  DOMAIN next = DOMAIN rows /\ \A k \in DOMAIN rows : next[k] = rows[k]
<1>1. DOMAIN <<>> = {}
  OBVIOUS
<1> QED
  BY <1>1 DEF is_upsert

\* The findings.
LEMMA CommitFindings ==
    ASSUME TablesInv, NEW i \in Images, NEW time, NEW result, NEW run, NEW l,
           commits(i, time, result, run, l)
    PROVE  FindingsInv'
<1>0. inserts(i, time, result, run, l)
  BY CommitRun
<1>1. /\ run \in Run /\ run.image = i /\ run.report = result.report
      /\ scan_run \in Seq(Run) /\ scan_run' = Append(scan_run, run) /\ l = Len(scan_run) + 1
      /\ result.status # "success" => result.report = <<>>
  BY <1>0 DEF inserts
<1>2. /\ DOMAIN finding' = Images
      /\ finding'[i] = _upsert_findings(finding[i], result.report, l)
      /\ is_upsert(finding'[i], finding[i], result.report, l)
      /\ \A j \in Images : j # i => finding'[j] = finding[j]
  BY DEF commits
<1>3. \A j \in Images : /\ as_reported(j, finding[j], scan_run)
                        /\ is_whole(j, finding[j], image[j].current_scan_run_id, scan_run)
  BY DEF TablesInv, FindingsInv
<1>4. ASSUME NEW j \in Images
      PROVE  /\ as_reported(j, finding'[j], scan_run')
             /\ is_whole(j, finding'[j], image'[j].current_scan_run_id, scan_run')
  <2>1. CASE j # i
    BY <1>1, <1>2, <1>3, <2>1, CommitPointer, OtherRunKeeps
  <2>2. CASE j = i /\ result.status = "success"
    <3>1. image'[i].current_scan_run_id = l
      BY <2>2, CommitPointer
    <3>2. PICK next : next = finding'[i]
      OBVIOUS
    <3>3. next = _upsert_findings(finding[i], run.report, l)
      BY <1>1, <1>2, <3>2
    <3>4. as_reported(i, next, Append(scan_run, run)) /\ is_whole(i, next, l, Append(scan_run, run))
      BY <1>1, <1>3, <3>3, SuccessKeeps
    <3> QED
      BY <1>1, <2>2, <3>1, <3>2, <3>4
  <2>3. CASE j = i /\ result.status # "success"
    <3>1. image'[i].current_scan_run_id = image[i].current_scan_run_id
      BY <2>3, CommitPointer
    <3>2. DOMAIN finding'[i] = DOMAIN finding[i] /\ \A k \in DOMAIN finding[i] : finding'[i][k] = finding[i][k]
      BY <1>1, <1>2, <2>3, NoReportKeeps
    <3>3. /\ as_reported(i, finding[i], scan_run')
          /\ is_whole(i, finding[i], image[i].current_scan_run_id, scan_run')
      BY <1>1, <1>3, OtherRunKeeps
    <3> QED
      BY <2>3, <3>1, <3>2, <3>3 DEF as_reported, is_whole
  <2> QED
    BY <2>1, <2>2, <2>3
<1> QED
  BY <1>2, <1>4 DEF FindingsInv

\* The results that are about to be written.
LEMMA CommitScanning ==
    ASSUME TablesInv, NEW i \in Images, NEW time, NEW result, NEW run, NEW l,
           commits(i, time, result, run, l)
    PROVE  ScanningInv'
  BY DEF commits, TablesInv, ScanningInv

\* The current findings of the other images stay, and of this one too unless
\* the scan was a success.
LEMMA CommitCurrentRows ==
    ASSUME TablesInv, NEW i \in Images, NEW time, NEW result, NEW run, NEW l,
           commits(i, time, result, run, l)
    PROVE  /\ \A j \in Images : j # i =>
                 current_rows(finding', image', j) = current_rows(finding, image, j)
           /\ result.status = "success" => current_rows(finding', image', i) = DOMAIN result.report
           /\ result.status # "success" =>
                 /\ current_rows(finding', image', i) = current_rows(finding, image, i)
                 /\ DOMAIN finding'[i] = DOMAIN finding[i]
                 /\ \A k \in DOMAIN finding[i] : finding'[i][k] = finding[i][k]
<1>0. inserts(i, time, result, run, l)
  BY CommitRun
<1>1. /\ run.report = result.report /\ scan_run' \in Seq(Run) /\ scan_run'[l] = run /\ l # NULL
      /\ result.status # "success" => result.report = <<>>
  BY <1>0 DEF inserts
<1>2. /\ \A j \in Images : j # i => finding'[j] = finding[j] /\ image'[j] = image[j]
      /\ is_upsert(finding'[i], finding[i], result.report, l)
  BY DEF commits
<1>3. \A j \in Images : j # i =>
          current_rows(finding', image', j) = current_rows(finding, image, j)
  BY <1>2 DEF current_rows
<1>4. ASSUME result.status = "success"
      PROVE  current_rows(finding', image', i) = DOMAIN result.report
  <2>1. image'[i].current_scan_run_id = l
    BY <1>4, CommitPointer
  <2>2. FindingsInv'
    BY CommitFindings
  <2>3. /\ as_reported(i, finding'[i], scan_run')
        /\ is_whole(i, finding'[i], image'[i].current_scan_run_id, scan_run')
    BY <2>2 DEF FindingsInv
  <2>4. PICK f, m, runs : f = finding' /\ m = image' /\ runs = scan_run'
    OBVIOUS
  <2>5. current_rows(f, m, i) = IF l = NULL THEN {} ELSE DOMAIN runs[l].report
    BY <1>1, <2>1, <2>3, <2>4, CurrentRows
  <2> QED
    BY <1>1, <2>4, <2>5
<1>5. ASSUME result.status # "success"
      PROVE  /\ current_rows(finding', image', i) = current_rows(finding, image, i)
             /\ DOMAIN finding'[i] = DOMAIN finding[i]
             /\ \A k \in DOMAIN finding[i] : finding'[i][k] = finding[i][k]
  <2>1. image'[i].current_scan_run_id = image[i].current_scan_run_id
    BY <1>5, CommitPointer
  <2>2. DOMAIN finding'[i] = DOMAIN finding[i] /\ \A k \in DOMAIN finding[i] : finding'[i][k] = finding[i][k]
    BY <1>1, <1>2, <1>5, NoReportKeeps
  <2> QED
    BY <2>1, <2>2 DEF current_rows
<1> QED
  BY <1>3, <1>4, <1>5

\* What a commit leaves in table cve.
LEMMA CommitCve ==
    ASSUME TablesInv, NEW i \in Images, NEW time, NEW result, NEW run, NEW l,
           commits(i, time, result, run, l)
    PROVE  /\ DOMAIN cve' = DOMAIN cve \cup DOMAIN txn[i].rollup
           /\ \A c \in DOMAIN cve : c \notin affected(i) => cve'[c] = cve[c]
           /\ result.status # "success" =>
                 DOMAIN cve' = DOMAIN cve /\ \A c \in DOMAIN cve : cve'[c] = cve[c]
<1>1. PICK new : new = txn[i].rollup
  OBVIOUS
<1>2. /\ cve' = overwritten(cve, new) /\ scanning[i] = result
  BY <1>1 DEF commits
<1>3. /\ DOMAIN overwritten(cve, new) = DOMAIN cve \cup DOMAIN new
      /\ \A c \in DOMAIN cve : c \notin DOMAIN new => overwritten(cve, new)[c] = cve[c]
  BY OverwrittenFacts
<1>4. /\ DOMAIN new \subseteq affected(i)
      /\ result.status # "success" => DOMAIN new = {}
  BY <1>1, <1>2 DEF TablesInv, TxnInv
<1> QED
  BY <1>1, <1>2, <1>3, <1>4

\* The transactions that go on are not touched by it.
LEMMA CommitOthers ==
    ASSUME TablesInv, NEW i \in Images, NEW time, NEW result, NEW run, NEW l,
           commits(i, time, result, run, l)
    PROVE  /\ DOMAIN txn' = Images /\ ~txn'[i].open /\ DOMAIN txn'[i].rollup = {}
           /\ \A j \in Images : j # i =>
                 txn'[j] = txn[j] /\ scanning'[j] = scanning[j] /\ affected(j)' = affected(j)
<1>1. /\ DOMAIN txn = Images /\ DOMAIN scanning = Images
      /\ txn' = [txn EXCEPT ![i] = Closed] /\ scanning' = [scanning EXCEPT ![i] = NoResult]
  BY DEF commits, TablesInv, TxnInv, ScanningInv
<1>2. DOMAIN txn' = Images /\ txn'[i] = Closed
  BY <1>1
<1>3. \A j \in Images : j # i => txn'[j] = txn[j] /\ scanning'[j] = scanning[j]
  BY <1>1
<1>4. \A j \in Images : j # i => affected(j)' = affected(j)
  BY <1>3, CommitCurrentRows, SameAffected
<1> QED
  BY <1>2, <1>3, <1>4 DEF Closed

\* The transactions, after a commit.
LEMMA CommitTxn ==
    ASSUME TablesInv, NEW i \in Images, NEW time, NEW result, NEW run, NEW l,
           commits(i, time, result, run, l)
    PROVE  TxnInv'
<1>1. DOMAIN cve' \subseteq Cves
  <2>1. DOMAIN txn[i].rollup \subseteq Cves
    <3>1. CASE txn[i].open
      BY <3>1, AffectedCves DEF TablesInv, TxnInv
    <3>2. CASE ~txn[i].open
      BY <3>2 DEF TablesInv, TxnInv
    <3> QED
      BY <3>1, <3>2
  <2> QED
    BY <2>1, CommitCve DEF TablesInv, TxnInv
<1> QED
  BY <1>1, CommitOthers DEF TablesInv, TxnInv

-----------------------------------------------------------------------------
(* The other steps keep what is said of the tables.                        *)

\* A step that shows in no table that a rollup reads or writes, and changes a
\* transaction only by ending it.
quiet ==
    /\ UNCHANGED <<image, finding, cve>>
    /\ DOMAIN txn' = Images
    /\ \A j \in Images :
        \/ txn'[j] = Closed
        \/ txn'[j] = txn[j] /\ (txn[j].open => scanning'[j] = scanning[j])

\* Such a step and an open transaction.
LEMMA QuietOpen ==
    ASSUME quiet, NEW j \in Images, txn'[j].open
    PROVE  /\ txn'[j] = txn[j] /\ scanning'[j] = scanning[j]
           /\ affected(j)' = affected(j)
<1>1. ~Closed.open
  BY DEF Closed
<1>2. txn'[j] = txn[j] /\ scanning'[j] = scanning[j]
  BY <1>1 DEF quiet
<1>3. current_rows(finding', image', j) = current_rows(finding, image, j)
  BY DEF quiet
<1> QED
  BY <1>2, <1>3, SameAffected

\* Such a step keeps what is said of the transactions.
LEMMA QuietTxn ==
    ASSUME TxnInv, quiet
    PROVE  TxnInv'
<1>1. ASSUME NEW j \in Images, txn'[j].open
      PROVE  scanning'[j].status = "success" /\ DOMAIN txn'[j].rollup \subseteq affected(j)'
  <2>1. txn'[j] = txn[j] /\ scanning'[j] = scanning[j] /\ affected(j)' = affected(j)
    BY <1>1, QuietOpen
  <2> QED
    BY <1>1, <2>1 DEF TxnInv
<1>2. ASSUME NEW j \in Images, ~txn'[j].open
      PROVE  DOMAIN txn'[j].rollup = {}
  <2>1. DOMAIN Closed.rollup = {}
    BY DEF Closed
  <2> QED
    BY <1>2, <2>1 DEF quiet, TxnInv
<1> QED
  BY <1>1, <1>2 DEF quiet, TxnInv

\* Which steps are such.
LEMMA QuietSteps ==
    ASSUME TablesInv,
           \/ tick \/ UNCHANGED <<tables, scanning, txn>>
           \/ \E i \in Images : complete(i) \/ roll_back(i)
    PROVE  quiet
<1>1. DOMAIN txn = Images /\ \A j \in Images : txn[j].open => scanning[j].status = "success"
  BY DEF TablesInv, TxnInv
<1>2. DOMAIN scanning = Images
  BY DEF TablesInv, ScanningInv
<1>3. CASE tick \/ UNCHANGED <<tables, scanning, txn>>
  BY <1>1, <1>3 DEF tick, tables, quiet
<1>4. ASSUME NEW i \in Images, complete(i)
      PROVE  quiet
  <2>1. scanning[i].status # "success"
    BY <1>4 DEF complete, NoResult
  <2>2. UNCHANGED <<image, finding, cve, txn>> /\ \A j \in Images : j # i => scanning'[j] = scanning[j]
    BY <1>2, <1>4 DEF complete
  <2> QED
    BY <1>1, <2>1, <2>2 DEF quiet
<1>5. ASSUME NEW i \in Images, roll_back(i)
      PROVE  quiet
  <2>1. /\ UNCHANGED <<image, finding, cve>> /\ txn' = [txn EXCEPT ![i] = Closed]
        /\ \A j \in Images : j # i => scanning'[j] = scanning[j]
    BY <1>2, <1>5 DEF roll_back
  <2> QED
    BY <1>1, <2>1 DEF quiet
<1> QED
  BY <1>3, <1>4, <1>5

\* The clock.
LEMMA TickTables ==
    ASSUME TablesInv, tick
    PROVE  TablesInv'
<1>1. /\ now \in Nat /\ now' = now + 1 /\ now' \in 0..MaxTime
      /\ UNCHANGED <<image, finding, cve, scan_run, scanning>>
  BY ApiAssumption DEF tick, TablesInv, RunsInv
<1>2. \A t \in 0..now : t \in 0..now'
  BY <1>1
<1>3. RunsInv'
  BY <1>1, <1>2 DEF TablesInv, RunsInv
<1>4. ImagesInv'
  BY <1>1, <1>2 DEF TablesInv, ImagesInv
<1>5. ScanningInv'
  BY <1>1, <1>2 DEF TablesInv, ScanningInv
<1>6. TxnInv'
  BY QuietSteps, QuietTxn DEF TablesInv
<1> QED
  BY <1>1, <1>3, <1>4, <1>5, <1>6 DEF TablesInv, FindingsInv

\* A result is about to be written, or is given up.
LEMMA ScanningTables ==
    ASSUME TablesInv, NEW i \in Images, complete(i) \/ roll_back(i)
    PROVE  TablesInv'
<1>1. now \in 0..now
  BY ApiAssumption DEF TablesInv, RunsInv
<1>2. UNCHANGED <<now, image, finding, cve, scan_run>>
  BY DEF complete, roll_back
<1>3. ScanningInv'
  <2>1. ScanningInv
    BY DEF TablesInv
  <2>2. CASE complete(i)
    BY <1>1, <2>1, <2>2 DEF complete, ScanningInv
  <2>3. CASE roll_back(i)
    BY <2>1, <2>3 DEF roll_back, ScanningInv
  <2> QED
    BY <2>2, <2>3
<1>4. TxnInv'
  BY QuietSteps, QuietTxn DEF TablesInv
<1> QED
  BY <1>2, <1>3, <1>4 DEF TablesInv, RunsInv, ImagesInv, FindingsInv

\* record_success, said of each transaction.
opens(i, findings, images) ==
    /\ scanning[i].status = "success"
    /\ findings = [finding EXCEPT ![i] =
                      _upsert_findings(@, scanning[i].report, Len(scan_run) + 1)]
    /\ images = [image EXCEPT ![i] = image_after(@, Len(scan_run) + 1, scanning[i])]
    /\ DOMAIN txn' = Images
    /\ txn'[i].open /\ txn'[i].rollup = _recompute_cve_rollup(i, findings, images)
    /\ \A j \in Images : j # i => txn'[j] = txn[j]
    /\ \A j \in Images : j # i /\ txn[j].open => reported_cves(i) \cap reported_cves(j) = {}
    /\ DropsAlone => \A j \in Images : j # i /\ txn[j].open => ~drops(i) /\ ~drops(j)
    /\ UNCHANGED <<now, image, finding, cve, scan_run, scanning>>
    /\ \A j \in Images : affected(j)' = affected(j)

\* record_success is such a step.
LEMMA OpenFacts ==
    ASSUME TablesInv, NEW i \in Images, record_success(i)
    PROVE  \E findings, images : opens(i, findings, images)
<1>1. PICK findings, images :
          /\ findings = [finding EXCEPT ![i] =
                            _upsert_findings(@, scanning[i].report, Len(scan_run) + 1)]
          /\ images = [image EXCEPT ![i] = image_after(@, Len(scan_run) + 1, scanning[i])]
  OBVIOUS
<1>2. DOMAIN txn = Images
  BY DEF TablesInv, TxnInv
<1>3. PICK new : new = [open |-> TRUE, rollup |-> _recompute_cve_rollup(i, findings, images)]
  OBVIOUS
<1>4. /\ scanning[i].status = "success"
      /\ txn' = [txn EXCEPT ![i] = new]
      /\ UNCHANGED <<now, image, finding, cve, scan_run, scanning>>
  BY <1>1, <1>3 DEF record_success
<1>5. /\ DOMAIN txn' = Images /\ txn'[i] = new
      /\ \A j \in Images : j # i => txn'[j] = txn[j]
  BY <1>2, <1>4
<1>6. new.open /\ new.rollup = _recompute_cve_rollup(i, findings, images)
  BY <1>3
<1>7. \A j \in Images : j # i /\ txn[j].open => reported_cves(i) \cap reported_cves(j) = {}
  BY DEF record_success, _upsert_cves
<1>8. DropsAlone => \A j \in Images : j # i /\ txn[j].open => ~drops(i) /\ ~drops(j)
  BY DEF record_success, may_overlap
<1>9. \A j \in Images : affected(j)' = affected(j)
  BY <1>4, SameAffected
<1>10. opens(i, findings, images)
  BY <1>1, <1>4, <1>5, <1>6, <1>7, <1>8, <1>9 DEF opens
<1> QED
  BY <1>10

\* A transaction has come to its last statement.
LEMMA OpenTables ==
    ASSUME TablesInv, NEW i \in Images, record_success(i)
    PROVE  TablesInv'
<1>1. PICK findings, images : opens(i, findings, images)
  BY OpenFacts
<1>2. UNCHANGED <<now, image, finding, cve, scan_run, scanning>>
  BY <1>1 DEF opens
<1>3. DOMAIN txn'[i].rollup \subseteq affected(i)
  BY <1>1, RecomputeFacts DEF opens
<1>4. TxnInv'
  <2>1. /\ DOMAIN txn' = Images /\ txn'[i].open /\ scanning[i].status = "success"
        /\ \A j \in Images : j # i => txn'[j] = txn[j]
        /\ \A j \in Images : affected(j)' = affected(j)
    BY <1>1 DEF opens
  <2> QED
    BY <1>2, <1>3, <2>1 DEF TablesInv, TxnInv
<1> QED
  BY <1>2, <1>4 DEF TablesInv, RunsInv, ImagesInv, FindingsInv, ScanningInv

\* A request, or no step at all, leaves the tables alone.
LEMMA ReadTables ==
    ASSUME TablesInv, UNCHANGED <<now, tables, scanning, txn>>
    PROVE  TablesInv'
<1>1. UNCHANGED <<now, image, finding, cve, scan_run, scanning>>
  BY DEF tables
<1>2. TxnInv'
  BY QuietSteps, QuietTxn DEF TablesInv
<1> QED
  BY <1>1, <1>2 DEF TablesInv, RunsInv, ImagesInv, FindingsInv, ScanningInv

\* Which steps leave the tables alone.
LEMMA ReadersLeaveTables ==
    ASSUME \/ \E url \in Urls : get(url)
           \/ apply_freshness \/ list_images \/ image_cves \/ list_cves \/ cve_images
    PROVE  UNCHANGED <<now, tables, scanning, txn>>
  BY DEF get, apply_freshness, list_images, image_cves, list_cves, cve_images, respond,
         next_statement

\* Every step keeps what is said of the tables.
LEMMA TablesStep == TablesInv /\ [Next]_vars => TablesInv'
<1> SUFFICES ASSUME TablesInv, [Next]_vars PROVE TablesInv'
  OBVIOUS
<1>1. ASSUME NEW i \in Images, commit(i)
      PROVE  TablesInv'
  <2>1. PICK time, result, run, l : commits(i, time, result, run, l)
    BY <1>1, CommitFacts
  <2> QED
    BY <2>1, CommitRuns, CommitImages, CommitFindings, CommitScanning, CommitTxn DEF TablesInv
<1>2. CASE UNCHANGED vars
  <2>1. UNCHANGED <<now, tables, scanning, txn>>
    BY <1>2 DEF vars, tables
  <2> QED
    BY <2>1, ReadTables
<1> QED
  BY <1>1, <1>2, TickTables, ScanningTables, OpenTables, ReadersLeaveTables, ReadTables DEF Next

\* There are no runs and no findings.
LEMMA TablesInit == Init => TablesInv
<1> SUFFICES ASSUME Init PROVE TablesInv
  OBVIOUS
<1>1. /\ now = 0 /\ scan_run = <<>> /\ cve = <<>>
      /\ image = [i \in Images |-> never_scanned]
      /\ finding = [i \in Images |-> <<>>] /\ scanning = [i \in Images |-> NoResult]
      /\ txn = [i \in Images |-> Closed]
  BY DEF Init
<1>2. DOMAIN scan_run = {} /\ DOMAIN cve = {} /\ \A i \in Images : DOMAIN finding[i] = {}
  BY <1>1
<1>3. RunsInv
  <2>1. times(scan_run) = {NULL}
    BY <1>2 DEF times
  <2>2. has_newest(scan_run)
    BY <2>1 DEF has_newest, NULL
  <2> QED
    BY <1>1, <1>2, <2>2, ApiAssumption DEF RunsInv
<1>4. ImagesInv
  BY <1>1 DEF ImagesInv, never_scanned
<1>5. FindingsInv
  <2>1. \A i \in Images : image[i].current_scan_run_id = NULL
    BY <1>1 DEF never_scanned
  <2> QED
    BY <1>1, <1>2, <2>1 DEF FindingsInv, as_reported, is_whole
<1>6. ScanningInv
  BY <1>1 DEF ScanningInv
<1>7. TxnInv
  <2>1. \A i \in Images : ~txn[i].open /\ DOMAIN txn[i].rollup = {}
    BY <1>1 DEF Closed
  <2> QED
    BY <1>1, <1>2, <2>1 DEF TxnInv
<1> QED
  BY <1>3, <1>4, <1>5, <1>6, <1>7 DEF TablesInv

\* The tables are as they should be in every state.
LEMMA TablesHold == Spec => []TablesInv
  BY TablesInit, TablesStep, PTL DEF Spec

-----------------------------------------------------------------------------
(* The rollup, where scans that drop a CVE are written alone.              *)

\* Tables that are those after a scan, for a CVE, have one rollup for it.
LEMMA AfterSame ==
    ASSUME NEW i \in Images, NEW c, NEW f1, NEW m1, NEW f2, NEW m2,
           is_after(i, c, f1, m1), is_after(i, c, f2, m2)
    PROVE  rollup_row(c, f1, m1) = rollup_row(c, f2, m2)
<1>1. \A j \in Images : \A k : k[1] = c =>
          (k \in current_rows(f1, m1, j) <=> k \in current_rows(f2, m2, j))
  BY DEF is_after
<1>2. \A j \in Images : \A k \in current_rows(f1, m1, j) : k[1] = c =>
          f1[j][k].severity_rank = f2[j][k].severity_rank
  BY DEF is_after
<1> QED
  BY <1>1, <1>2, RollupSame

\* What the snapshot shows to the transaction are the tables after its scan.
LEMMA SnapshotIsAfter ==
    ASSUME TablesInv, NEW i \in Images, NEW findings, NEW images, opens(i, findings, images), NEW c
    PROVE  is_after(i, c, findings, images)
<1>1. PICK l, report : l = Len(scan_run) + 1 /\ report = scanning[i].report
  OBVIOUS
<1>2. DOMAIN finding = Images /\ DOMAIN image = Images
  BY DEF TablesInv, FindingsInv, ImagesInv
<1>3. /\ findings[i] = _upsert_findings(finding[i], report, l)
      /\ \A j \in Images : j # i => findings[j] = finding[j]
  BY <1>1, <1>2 DEF opens
<1>4. /\ images[i].current_scan_run_id = l
      /\ \A j \in Images : j # i => images[j] = image[j]
  BY <1>1, <1>2 DEF opens, image_after
<1>5. is_upsert(findings[i], finding[i], report, l)
  BY <1>3, UpsertFacts
<1>6. \A k \in DOMAIN finding[i] : finding[i][k].last_seen_run_id # l
  <2>1. l \notin DOMAIN scan_run
    BY <1>1 DEF TablesInv, RunsInv
  <2> QED
    BY <2>1, FindingFacts
<1>7. /\ current_rows(findings, images, i) = DOMAIN report
      /\ \A k \in DOMAIN report : findings[i][k].severity_rank = report[k]
  BY <1>4, <1>5, <1>6 DEF is_upsert, current_rows
<1>8. \A j \in Images : j # i => current_rows(findings, images, j) = current_rows(finding, image, j)
  BY <1>3, <1>4 DEF current_rows
<1> QED
  BY <1>1, <1>3, <1>7, <1>8 DEF is_after

\* A scan that drops nothing touches what it reports.
LEMMA KeepsAll == ASSUME NEW i, ~drops(i) PROVE affected(i) = reported_cves(i)
  BY DEF drops, affected

\* record_success: the new transaction touches nothing that another one does, and
\* has computed what is right.
LEMMA OpenRollup ==
    ASSUME DropsAlone, TablesInv, RollupInv, NEW i \in Images, record_success(i)
    PROVE  RollupInv'
<1>1. PICK findings, images : opens(i, findings, images)
  BY OpenFacts
<1>2. /\ UNCHANGED <<image, finding, cve, scan_run, scanning>>
      /\ \A j \in Images : j # i => txn'[j] = txn[j]
      /\ \A j \in Images : affected(j)' = affected(j)
  BY <1>1 DEF opens
<1>3. CveInv'
  BY <1>2 DEF RollupInv, CveInv
<1>4. ASSUME NEW j \in Images, j # i, txn[j].open
      PROVE  apart(i, j) /\ apart(j, i)
  <2>1. reported_cves(i) \cap reported_cves(j) = {} /\ ~drops(i) /\ ~drops(j)
    BY <1>1, <1>4 DEF opens
  <2> QED
    BY <2>1, KeepsAll DEF apart
<1>5. ASSUME NEW j \in Images, NEW n \in Images, j # n, txn'[j].open, txn'[n].open
      PROVE  apart(j, n)'
  <2>1. apart(j, n)
    BY <1>2, <1>4, <1>5 DEF RollupInv
  <2> QED
    BY <1>2, <2>1 DEF apart
<1>6. ASSUME NEW j \in Images, txn'[j].open, NEW c \in affected(j)
      PROVE  is_settled(j, c)'
  <2>1. CASE j # i
    <3>1. is_settled(j, c)
      BY <1>2, <1>6, <2>1 DEF RollupInv
    <3> QED
      BY <1>2, <2>1, <3>1 DEF is_settled, is_after
  <2>2. CASE j = i
    <3>1. PICK new : new = txn'[i].rollup
      OBVIOUS
    <3>2. /\ c \in DOMAIN overwritten(cve, new)
          /\ overwritten(cve, new)[c] = rollup_row(c, findings, images)
      BY <1>1, <1>6, <2>2, <3>1, RecomputeFacts DEF opens
    <3>3. \A f, m : is_after(i, c, f, m) => rollup_row(c, findings, images) = rollup_row(c, f, m)
      BY <1>1, SnapshotIsAfter, AfterSame
    <3> QED
      BY <1>2, <2>2, <3>1, <3>2, <3>3 DEF is_settled, is_after
  <2> QED
    BY <2>1, <2>2
<1> QED
  BY <1>2, <1>3, <1>5, <1>6 DEF RollupInv

\* A step that shows in no table and opens no transaction.
LEMMA QuietRollup ==
    ASSUME RollupInv, quiet
    PROVE  RollupInv'
<1>1. UNCHANGED <<image, finding, cve>>
  BY DEF quiet
<1>2. CveInv'
  BY <1>1 DEF RollupInv, CveInv
<1>3. ASSUME NEW i \in Images, NEW j \in Images, i # j, txn'[i].open, txn'[j].open
      PROVE  apart(i, j)'
  <2>1. /\ txn'[i] = txn[i] /\ affected(i)' = affected(i)
        /\ txn'[j] = txn[j] /\ affected(j)' = affected(j)
    BY <1>3, QuietOpen
  <2> QED
    BY <1>3, <2>1 DEF RollupInv, apart
<1>4. ASSUME NEW i \in Images, txn'[i].open, NEW c \in affected(i)'
      PROVE  is_settled(i, c)'
  <2>1. txn'[i] = txn[i] /\ scanning'[i] = scanning[i] /\ affected(i)' = affected(i)
    BY <1>4, QuietOpen
  <2>2. is_settled(i, c)
    BY <1>4, <2>1 DEF RollupInv
  <2> QED
    BY <1>1, <2>1, <2>2 DEF is_settled, is_after
<1> QED
  BY <1>2, <1>3, <1>4 DEF RollupInv

\* The tables that a commit of a success leaves are those after the scan.
LEMMA CommitIsAfter ==
    ASSUME TablesInv, NEW i \in Images, NEW time, NEW result, NEW run, NEW l,
           commits(i, time, result, run, l), result.status = "success", NEW c
    PROVE  is_after(i, c, finding', image')
<1>1. scanning[i] = result /\ is_upsert(finding'[i], finding[i], result.report, l)
      /\ \A j \in Images : j # i => finding'[j] = finding[j]
  BY DEF commits
<1>2. PICK f, m : f = finding' /\ m = image'
  OBVIOUS
<1>3. /\ current_rows(f, m, i) = DOMAIN result.report
      /\ \A j \in Images : j # i => current_rows(f, m, j) = current_rows(finding, image, j)
  BY <1>2, CommitCurrentRows
<1>4. \A k \in DOMAIN result.report : f[i][k].severity_rank = result.report[k]
  BY <1>1, <1>2 DEF is_upsert
<1>5. is_after(i, c, f, m)
  BY <1>1, <1>2, <1>3, <1>4 DEF is_after
<1> QED
  BY <1>2, <1>5

\* A CVE that the scan does not touch has the rows it had.
LEMMA CommitUntouched ==
    ASSUME TablesInv, NEW i \in Images, NEW time, NEW result, NEW run, NEW l,
           commits(i, time, result, run, l), NEW c,
           result.status = "success" => c \notin affected(i)
    PROVE  \A j \in Images : \A k : k[1] = c =>
              /\ k \in current_rows(finding', image', j) <=> k \in current_rows(finding, image, j)
              /\ k \in current_rows(finding, image, j) =>
                    finding'[j][k].severity_rank = finding[j][k].severity_rank
<1>1. PICK f, m : f = finding' /\ m = image'
  OBVIOUS
<1>2. /\ \A j \in Images : j # i => f[j] = finding[j] /\ current_rows(f, m, j) = current_rows(finding, image, j)
      /\ scanning[i] = result
  BY <1>1, CommitCurrentRows DEF commits
<1>3. ASSUME NEW k, k[1] = c
      PROVE  /\ k \in current_rows(f, m, i) <=> k \in current_rows(finding, image, i)
             /\ k \in current_rows(finding, image, i) =>
                   f[i][k].severity_rank = finding[i][k].severity_rank
  <2>1. CASE result.status = "success"
    <3>1. current_rows(f, m, i) = DOMAIN result.report
      BY <1>1, <2>1, CommitCurrentRows
    <3> QED
      BY <1>2, <1>3, <2>1, <3>1, AffectedFacts
  <2>2. CASE result.status # "success"
    <3>1. /\ current_rows(f, m, i) = current_rows(finding, image, i)
          /\ \A n \in DOMAIN finding[i] : f[i][n] = finding[i][n]
      BY <1>1, <2>2, CommitCurrentRows
    <3> QED
      BY <3>1 DEF current_rows
  <2> QED
    BY <2>1, <2>2
<1> QED
  BY <1>1, <1>2, <1>3

\* commit leaves an exact rollup.
LEMMA CommitExact ==
    ASSUME TablesInv, RollupInv, NEW i \in Images, NEW time, NEW result, NEW run, NEW l,
           commits(i, time, result, run, l)
    PROVE  CveInv'
<1>1. PICK f, m : f = finding' /\ m = image'
  OBVIOUS
<1>2. /\ scanning[i] = result /\ cve' = overwritten(cve, txn[i].rollup)
      /\ result.status = "success" => txn[i].open
  BY DEF commits
<1>3. /\ DOMAIN cve' = DOMAIN cve \cup DOMAIN txn[i].rollup
      /\ \A c \in DOMAIN cve : c \notin affected(i) => cve'[c] = cve[c]
      /\ result.status # "success" =>
             DOMAIN cve' = DOMAIN cve /\ \A c \in DOMAIN cve : cve'[c] = cve[c]
  BY CommitCve
<1>4. DOMAIN txn[i].rollup \subseteq affected(i)
  BY DEF TablesInv, TxnInv
<1>5. ASSUME result.status = "success", NEW c \in affected(i)
      PROVE  c \in DOMAIN cve' /\ cve'[c] = rollup_row(c, f, m)
  <2>1. is_settled(i, c)
    BY <1>2, <1>5 DEF RollupInv
  <2>2. is_after(i, c, f, m)
    BY <1>1, <1>5, CommitIsAfter
  <2> QED
    BY <1>2, <2>1, <2>2 DEF is_settled
<1>6. ASSUME NEW c \in DOMAIN cve, result.status = "success" => c \notin affected(i)
      PROVE  cve'[c] = rollup_row(c, f, m)
  <2>1. /\ \A j \in Images : \A k : k[1] = c =>
              (k \in current_rows(finding, image, j) <=> k \in current_rows(f, m, j))
        /\ \A j \in Images : \A k \in current_rows(finding, image, j) : k[1] = c =>
              finding[j][k].severity_rank = f[j][k].severity_rank
    BY <1>1, <1>6, CommitUntouched
  <2>2. rollup_row(c, finding, image) = rollup_row(c, f, m)
    BY <2>1, RollupSame
  <2>3. cve'[c] = cve[c]
    BY <1>3, <1>6
  <2>4. cve[c] = rollup_row(c, finding, image)
    BY DEF RollupInv, CveInv
  <2> QED
    BY <2>2, <2>3, <2>4
<1>7. \A c \in DOMAIN cve' : cve'[c] = rollup_row(c, f, m)
  BY <1>3, <1>4, <1>5, <1>6
<1>8. ASSUME NEW j \in Images, NEW k \in current_rows(f, m, j)
      PROVE  k[1] \in DOMAIN cve'
  <2>1. CASE result.status = "success" /\ k[1] \in affected(i)
    BY <1>5, <2>1
  <2>2. CASE ~(result.status = "success" /\ k[1] \in affected(i))
    <3>1. k \in current_rows(finding, image, j)
      BY <1>1, <2>2, CommitUntouched
    <3> QED
      BY <1>3, <3>1 DEF RollupInv, CveInv
  <2> QED
    BY <2>1, <2>2
<1> QED
  BY <1>1, <1>7, <1>8 DEF CveInv

\* commit: no other transaction touches the CVEs that change.
LEMMA CommitRollup ==
    ASSUME TablesInv, RollupInv, NEW i \in Images, commit(i)
    PROVE  RollupInv'
<1>1. PICK time, result, run, l : commits(i, time, result, run, l)
  BY CommitFacts
<1>2. /\ ~txn'[i].open
      /\ \A j \in Images : j # i =>
            txn'[j] = txn[j] /\ scanning'[j] = scanning[j] /\ affected(j)' = affected(j)
  BY <1>1, CommitOthers
<1>3. CveInv'
  BY <1>1, CommitExact
<1>4. ASSUME NEW j \in Images, NEW n \in Images, j # n, txn'[j].open, txn'[n].open
      PROVE  apart(j, n)'
  <2>1. j # i /\ n # i
    BY <1>2, <1>4
  <2> QED
    BY <1>2, <1>4, <2>1 DEF RollupInv, apart
<1>5. ASSUME NEW j \in Images, txn'[j].open, NEW c \in affected(j)'
      PROVE  is_settled(j, c)'
  <2>1. /\ j # i /\ txn'[j] = txn[j] /\ txn[j].open /\ scanning'[j] = scanning[j]
        /\ c \in affected(j)
    BY <1>2, <1>5
  <2>2. result.status = "success" => c \notin affected(i)
    <3>1. result.status = "success" => txn[i].open
      BY <1>1 DEF commits
    <3> QED
      BY <2>1, <3>1 DEF RollupInv, apart
  <2>3. PICK new : new = txn[j].rollup
    OBVIOUS
  <2>4. /\ c \in DOMAIN overwritten(cve, new)
        /\ \A f, m : is_after(j, c, f, m) => overwritten(cve, new)[c] = rollup_row(c, f, m)
    BY <2>1, <2>3 DEF RollupInv, is_settled
  <2>5. /\ c \in DOMAIN overwritten(cve', new)
        /\ overwritten(cve', new)[c] = overwritten(cve, new)[c]
    <3>1. DOMAIN cve \subseteq DOMAIN cve' /\ (c \in DOMAIN cve => cve'[c] = cve[c])
      BY <1>1, <2>2, CommitCve
    <3>2. PICK old, next : old = cve /\ next = cve'
      OBVIOUS
    <3>3. c \in DOMAIN overwritten(next, new) /\ overwritten(next, new)[c] = overwritten(old, new)[c]
      <4>1. /\ DOMAIN overwritten(old, new) = DOMAIN old \cup DOMAIN new
            /\ \A k \in DOMAIN new : overwritten(old, new)[k] = new[k]
            /\ \A k \in DOMAIN old : k \notin DOMAIN new => overwritten(old, new)[k] = old[k]
        BY OverwrittenFacts
      <4>2. /\ DOMAIN overwritten(next, new) = DOMAIN next \cup DOMAIN new
            /\ \A k \in DOMAIN new : overwritten(next, new)[k] = new[k]
            /\ \A k \in DOMAIN next : k \notin DOMAIN new => overwritten(next, new)[k] = next[k]
        BY OverwrittenFacts
      <4> QED
        BY <2>4, <3>1, <3>2, <4>1, <4>2
    <3> QED
      BY <3>2, <3>3
  <2>6. ASSUME NEW f, NEW m, is_after(j, c, f, m)'
        PROVE  is_after(j, c, f, m)
    <3>1. PICK f2, m2 : f2 = finding' /\ m2 = image'
      OBVIOUS
    <3>2. /\ current_rows(f, m, j) = DOMAIN scanning'[j].report
          /\ \A k \in DOMAIN scanning'[j].report :
                f[j][k].severity_rank = scanning'[j].report[k]
          /\ \A n \in Images : n # j => \A k : k[1] = c =>
                /\ k \in current_rows(f, m, n) <=> k \in current_rows(f2, m2, n)
                /\ k \in current_rows(f2, m2, n) => f[n][k].severity_rank = f2[n][k].severity_rank
      BY <2>6, <3>1 DEF is_after, current_rows
    <3>3. \A n \in Images : \A k : k[1] = c =>
              /\ k \in current_rows(f2, m2, n) <=> k \in current_rows(finding, image, n)
              /\ k \in current_rows(finding, image, n) =>
                    f2[n][k].severity_rank = finding[n][k].severity_rank
      BY <1>1, <2>2, <3>1, CommitUntouched
    <3> QED
      BY <2>1, <3>2, <3>3 DEF is_after
  <2> QED
    BY <2>1, <2>3, <2>4, <2>5, <2>6 DEF is_settled
<1> QED
  BY <1>3, <1>4, <1>5 DEF RollupInv

\* Every step keeps what is said of the rollup.
LEMMA RollupStep ==
    ASSUME DropsAlone
    PROVE  TablesInv /\ RollupInv /\ [Next]_vars => RollupInv'
<1> SUFFICES ASSUME TablesInv, RollupInv, [Next]_vars PROVE RollupInv'
  OBVIOUS
<1>1. CASE \/ tick \/ UNCHANGED <<tables, scanning, txn>>
           \/ \E i \in Images : complete(i) \/ roll_back(i)
  BY <1>1, QuietSteps, QuietRollup
<1>2. UNCHANGED vars => UNCHANGED <<tables, scanning, txn>>
  BY DEF vars, tables
<1> QED
  BY <1>1, <1>2, OpenRollup, CommitRollup, ReadersLeaveTables DEF Next

\* No row and no transaction.
LEMMA RollupInit == Init => RollupInv
<1> SUFFICES ASSUME Init PROVE RollupInv
  OBVIOUS
<1>1. cve = <<>> /\ finding = [i \in Images |-> <<>>] /\ txn = [i \in Images |-> Closed]
  BY DEF Init
<1>2. DOMAIN cve = {} /\ \A i \in Images : DOMAIN finding[i] = {} /\ ~txn[i].open
  BY <1>1 DEF Closed
<1>3. CveInv
  BY <1>2 DEF CveInv, current_rows
<1> QED
  BY <1>2, <1>3 DEF RollupInv

\* The rollup is exact in every state.
LEMMA RollupHolds == ASSUME DropsAlone PROVE Spec => [](TablesInv /\ RollupInv)
<1>1. Init => TablesInv /\ RollupInv
  BY TablesInit, RollupInit
<1>2. TablesInv /\ RollupInv /\ [Next]_vars => TablesInv' /\ RollupInv'
  BY TablesStep, RollupStep
<1> QED
  BY <1>1, <1>2, PTL DEF Spec

-----------------------------------------------------------------------------
(* The endpoints agree.                                                    *)

\* Some of the ranks have a highest.
LEMMA MaxOfRanks ==
    ASSUME NEW S, S \subseteq 0..4, S # {}
    PROVE  Max(S) \in S /\ \A y \in S : Max(S) >= y
<1>1. \E x \in S : \A y \in S : x >= y
  <2>1. CASE 4 \in S
    BY <2>1
  <2>2. CASE 4 \notin S /\ 3 \in S
    BY <2>2
  <2>3. CASE 4 \notin S /\ 3 \notin S /\ 2 \in S
    BY <2>3
  <2>4. CASE 4 \notin S /\ 3 \notin S /\ 2 \notin S /\ 1 \in S
    BY <2>4
  <2>5. CASE 4 \notin S /\ 3 \notin S /\ 2 \notin S /\ 1 \notin S
    <3>1. \A y \in S : y = 0
      BY <2>5
    <3>2. PICK x : x \in S
      OBVIOUS
    <3>3. x = 0 /\ x >= 0
      BY <3>1, <3>2
    <3> QED
      BY <3>1, <3>2, <3>3
  <2> QED
    BY <2>1, <2>2, <2>3, <2>4, <2>5
<1> QED
  BY <1>1 DEF Max

\* The floor of the rollup's coalesce does not show where there are rows.
LEMMA MaxOverZero ==
    ASSUME NEW S, S \subseteq 0..4, S # {}
    PROVE  Max({0} \cup S) = Max(S)
<1>1. Max(S) \in S /\ \A y \in S : Max(S) >= y
  BY MaxOfRanks
<1>2. Max({0} \cup S) \in {0} \cup S /\ \A y \in {0} \cup S : Max({0} \cup S) >= y
  <2>1. {0} \cup S \subseteq 0..4 /\ {0} \cup S # {}
    OBVIOUS
  <2> QED
    BY <2>1, MaxOfRanks
<1>3. PICK a, b : a = Max(S) /\ b = Max({0} \cup S)
  OBVIOUS
<1>4. a \in S /\ (\A y \in S : a >= y) /\ b \in {0} \cup S /\ (\A y \in {0} \cup S : b >= y)
  BY <1>1, <1>2, <1>3
<1>5. a \in 0..4 /\ b \in 0..4 /\ b >= a /\ (b = 0 \/ a >= b)
  BY <1>4
<1>6. a = b
  BY <1>5
<1> QED
  BY <1>3, <1>6

\* The columns of a line that shows a finding.
LEMMA ShownFacts ==
    ASSUME NEW i, NEW k
    PROVE  /\ shown(i, k).image = i /\ shown(i, k).cve = k[1] /\ shown(i, k).package = k[2]
           /\ shown(i, k).rank = finding[i][k].severity_rank
  BY DEF shown

\* The lines of an image are those of its current findings.
LEMMA OfImage ==
    ASSUME NEW i
    PROVE  image_cves_rows(i, image[i].current_scan_run_id, NULL)
              = {shown(i, k) : k \in current_rows(finding, image, i)}
  BY DEF image_cves_rows, current_rows, wanted

\* The lines of a CVE.
LEMMA OfCve ==
    ASSUME NEW c, NEW r
    PROVE  r \in cve_images_rows(c) <=>
              \E i \in Images : \E k \in current_rows(finding, image, i) : k[1] = c /\ r = shown(i, k)
  BY DEF cve_images_rows

\* What GET /api/cves says of a CVE.
LEMMA Listed ==
    ASSUME TablesInv, CveInv, NEW c,
           NEW rows, rows = cve_images_rows(c),
           NEW listed, listed = {r \in list_cves_rows(NULL) : r.cve = c}
    PROVE  listed = IF rows = {} THEN {}
                    ELSE {[cve |-> c, rank |-> Max({r.rank : r \in rows}),
                           images |-> Cardinality({r.image : r \in rows})]}
<1> DEFINE L == live(c, finding, image)
           I == {r.image : r \in rows}
           S == {r.rank : r \in rows}
<1>1. \A i \in Images : \A k \in current_rows(finding, image, i) :
          /\ k \in DOMAIN finding[i] /\ finding[i][k].severity_rank \in 0..4
          /\ k[1] \in DOMAIN cve
  BY FindingFacts DEF current_rows, CveInv
<1>l. /\ \A r \in L : \E i \in Images : \E k \in current_rows(finding, image, i) :
                          k[1] = c /\ r[1] = i /\ r[2] = k
      /\ \A i \in Images : \A k \in current_rows(finding, image, i) :
             k[1] = c => <<i, k>> \in L /\ <<i, k>>[1] = i /\ <<i, k>>[2] = k
  BY LiveRow
<1> HIDE DEF L
<1>2. {r[1] : r \in L} = I
  <2>1. \A x : x \in {r[1] : r \in L} <=>
            \E i \in Images : \E k \in current_rows(finding, image, i) : k[1] = c /\ x = i
    <3>1. ASSUME NEW i \in Images, NEW k \in current_rows(finding, image, i), k[1] = c
          PROVE  \E r \in L : r[1] = i
      <4>1. PICK r : r = <<i, k>>
        OBVIOUS
      <4>2. r \in L /\ r[1] = i
        BY <1>l, <3>1, <4>1
      <4> QED
        BY <4>2
    <3> QED
      BY <1>l, <3>1
  <2>2. \A x : x \in I <=>
            \E i \in Images : \E k \in current_rows(finding, image, i) : k[1] = c /\ x = i
    BY OfCve, ShownFacts
  <2> HIDE DEF I
  <2> QED
    BY <2>1, <2>2
<1>3. {finding[r[1]][r[2]].severity_rank : r \in L} = S
  <2>1. \A x : x \in {finding[r[1]][r[2]].severity_rank : r \in L} <=>
            \E i \in Images : \E k \in current_rows(finding, image, i) :
                k[1] = c /\ x = finding[i][k].severity_rank
    <3>1. ASSUME NEW r \in L
          PROVE  \E i \in Images : \E k \in current_rows(finding, image, i) :
                     k[1] = c /\ finding[r[1]][r[2]].severity_rank = finding[i][k].severity_rank
      BY <1>l
    <3>2. ASSUME NEW i \in Images, NEW k \in current_rows(finding, image, i), k[1] = c
          PROVE  \E r \in L : finding[r[1]][r[2]].severity_rank = finding[i][k].severity_rank
      <4>1. PICK r : r = <<i, k>>
        OBVIOUS
      <4>2. r \in L /\ r[1] = i /\ r[2] = k
        BY <1>l, <3>2, <4>1
      <4> QED
        BY <4>2
    <3>3. ASSUME NEW x \in {finding[r[1]][r[2]].severity_rank : r \in L}
          PROVE  \E i \in Images : \E k \in current_rows(finding, image, i) :
                     k[1] = c /\ x = finding[i][k].severity_rank
      <4>1. PICK r \in L : x = finding[r[1]][r[2]].severity_rank
        OBVIOUS
      <4> QED
        BY <3>1, <4>1
    <3>4. ASSUME NEW i \in Images, NEW k \in current_rows(finding, image, i), k[1] = c
          PROVE  finding[i][k].severity_rank \in {finding[r[1]][r[2]].severity_rank : r \in L}
      <4>1. PICK r \in L : finding[r[1]][r[2]].severity_rank = finding[i][k].severity_rank
        BY <3>2, <3>4
      <4> QED
        BY <4>1
    <3> QED
      BY <3>3, <3>4, Zenon
  <2>2. \A x : x \in S <=>
            \E i \in Images : \E k \in current_rows(finding, image, i) :
                k[1] = c /\ x = finding[i][k].severity_rank
    BY OfCve, ShownFacts
  <2> HIDE DEF S
  <2> QED
    BY <2>1, <2>2
<1>4. S \subseteq 0..4
  BY <1>1, OfCve, ShownFacts
<1>5. I \subseteq Images /\ IsFiniteSet(I)
  <2>1. I \subseteq Images
    BY OfCve, ShownFacts
  <2> QED
    BY <2>1, ApiAssumption, FS_Subset
<1>6. (I = {} <=> rows = {}) /\ (S = {} <=> rows = {})
  OBVIOUS
<1>7. rows # {} => c \in DOMAIN cve
  BY <1>1, OfCve
<1>8. c \in DOMAIN cve => /\ cve[c].max_severity_rank = Max({0} \cup S)
                          /\ cve[c].affected_image_count = Cardinality(I)
  <2>1. c \in DOMAIN cve => cve[c] = rollup_row(c, finding, image)
    BY DEF CveInv
  <2>2. rollup_row(c, finding, image) =
            [max_severity_rank |-> Max({0} \cup S), affected_image_count |-> Cardinality(I)]
    BY <1>2, <1>3 DEF rollup_row, L
  <2> HIDE DEF S, I
  <2> QED
    BY <2>1, <2>2
<1> HIDE DEF S, I
<1>9. listed = IF c \in DOMAIN cve /\ cve[c].affected_image_count > 0
               THEN {[cve |-> c, rank |-> cve[c].max_severity_rank,
                      images |-> cve[c].affected_image_count]}
               ELSE {}
  BY DEF list_cves_rows, wanted
<1>10. CASE rows = {}
  <2>1. Cardinality(I) = 0
    BY <1>6, <1>10, FS_EmptySet
  <2> QED
    BY <1>8, <1>9, <1>10, <2>1
<1>11. CASE rows # {}
  <2>1. Cardinality(I) \in Nat /\ Cardinality(I) # 0
    BY <1>5, <1>6, <1>11, FS_EmptySet, FS_CardinalityType
  <2>2. Max({0} \cup S) = Max(S)
    BY <1>4, <1>6, <1>11, MaxOverZero
  <2>3. listed = {[cve |-> c, rank |-> Max(S), images |-> Cardinality(I)]}
    BY <1>7, <1>8, <1>9, <1>11, <2>1, <2>2
  <2> QED
    BY <1>11, <2>3 DEF S, I
<1> QED
  BY <1>10, <1>11

\* As many lines as findings.
LEMMA ShownOnce ==
    ASSUME TablesInv, NEW i \in Images, NEW K, K \subseteq DOMAIN finding[i], IsFiniteSet(K)
    PROVE  /\ Cardinality({shown(i, k) : k \in K}) = Cardinality(K)
           /\ IsFiniteSet({shown(i, k) : k \in K})
<1> DEFINE T == {shown(i, k) : k \in K}
           f == [k \in K |-> shown(i, k)]
<1>1. f \in [K -> T] /\ \A t \in T : \E k \in K : f[k] = t
  OBVIOUS
<1>2. \A k1, k2 \in K : f[k1] = f[k2] => k1 = k2
  <2>1. ASSUME NEW k1 \in K, NEW k2 \in K, shown(i, k1) = shown(i, k2)
        PROVE  k1 = k2
    <3>1. k1[1] = k2[1] /\ k1[2] = k2[2]
      BY <2>1, ShownFacts
    <3>2. k1 = <<k1[1], k1[2]>> /\ k2 = <<k2[1], k2[2]>>
      BY FindingFacts
    <3> QED
      BY <3>1, <3>2
  <2> QED
    BY <2>1
<1> HIDE DEF f, T
<1>3. ExistsBijection(K, T)
  BY <1>1, <1>2 DEF ExistsBijection, Bijection, Injection, Surjection, IsInjective
<1> QED
  BY <1>3, FS_Bijection DEF T

\* An image's counts are those of its lines.
LEMMA CountsAgree ==
    ASSUME TablesInv, NEW i \in Images, NEW rank \in 0..4,
           NEW lines, lines = {shown(i, k) : k \in current_rows(finding, image, i)}
    PROVE  severity_counts(i).severity_counts[rank] = Cardinality({r \in lines : r.rank = rank})
<1> DEFINE p == image[i].current_scan_run_id
           K == {k \in current_rows(finding, image, i) : finding[i][k].severity_rank = rank}
<1>1. {r \in lines : r.rank = rank} = {shown(i, k) : k \in K}
  BY ShownFacts
<1>2. /\ as_reported(i, finding[i], scan_run) /\ is_whole(i, finding[i], p, scan_run)
      /\ scan_run \in Seq(Run)
  BY DEF TablesInv, FindingsInv, RunsInv
<1>3. current_rows(finding, image, i) = IF p = NULL THEN {} ELSE DOMAIN scan_run[p].report
  BY <1>2, CurrentRows
<1>4. K \subseteq DOMAIN finding[i]
  BY DEF current_rows
<1>5. CASE p = NULL
  <2>1. severity_counts(i).severity_counts = counts(<<>>)
    BY <1>5 DEF severity_counts
  <2>2. counts(<<>>)[rank] = Cardinality({})
    <3>1. {k \in DOMAIN <<>> : <<>>[k] = rank} = {}
      OBVIOUS
    <3> QED
      BY <3>1 DEF counts
  <2>3. {r \in lines : r.rank = rank} = {}
    BY <1>3, <1>5
  <2> QED
    BY <2>1, <2>2, <2>3
<1>6. CASE p # NULL
  <2>1. PICK report : report = scan_run[p].report
    OBVIOUS
  <2>2. p \in DOMAIN scan_run
    BY <1>2, <1>6 DEF is_whole
  <2>3. scan_run[p] \in Run /\ scan_run[p].finding_count = counts(report)
    BY <2>1, <2>2 DEF TablesInv, RunsInv
  <2>4. report \in AnyReport
    BY <2>1, <2>3 DEF Run
  <2>5. severity_counts(i).severity_counts = counts(report)
    BY <1>6, <2>3 DEF severity_counts
  <2>6. counts(report)[rank] = Cardinality({k \in DOMAIN report : report[k] = rank})
    BY DEF counts
  <2>7. \A k \in DOMAIN report : finding[i][k].severity_rank = report[k]
    <3>1. \A k \in DOMAIN report : k \in DOMAIN finding[i] /\ finding[i][k].last_seen_run_id = p
      BY <1>2, <1>6, <2>1 DEF is_whole
    <3> QED
      BY <1>2, <2>1, <3>1 DEF as_reported
  <2>8. K = {k \in DOMAIN report : report[k] = rank}
    BY <1>3, <1>6, <2>1, <2>7
  <2>9. IsFiniteSet(K)
    <3>1. IsFiniteSet(DOMAIN report) /\ K \in SUBSET DOMAIN report
      BY <2>4, <2>8, AnyReportFacts
    <3> QED
      BY <3>1, FS_Subset
  <2> HIDE DEF K
  <2>10. Cardinality({shown(i, k) : k \in K}) = Cardinality(K)
    BY <1>4, <2>9, ShownOnce
  <2> QED
    BY <1>1, <2>5, <2>6, <2>8, <2>10
<1> QED
  BY <1>5, <1>6

\* The endpoints tell one story in every state, whatever was scanned, failed or
\* skipped before, where scans that drop a CVE are written alone (list_images,
\* image_cves, list_cves, cve_images, _recompute_cve_rollup).
THEOREM EndpointsTellOneStory == ASSUME DropsAlone PROVE Spec => []EndpointsAgree
<1>1. ASSUME TablesInv, RollupInv
      PROVE  EndpointsAgree
  <2> DEFINE of_image(i) == image_cves_rows(i, image[i].current_scan_run_id, NULL)
  <2>1. ASSUME NEW c \in Cves
        PROVE  cve_images_rows(c) = {r \in UNION {of_image(i) : i \in Images} : r.cve = c}
    <3>1. \A i \in Images : of_image(i) = {shown(i, k) : k \in current_rows(finding, image, i)}
      BY OfImage
    <3> HIDE DEF of_image
    <3>2. \A r : r \in {x \in UNION {of_image(i) : i \in Images} : x.cve = c} <=>
              \E i \in Images : \E k \in current_rows(finding, image, i) : k[1] = c /\ r = shown(i, k)
      BY <3>1, ShownFacts
    <3> QED
      BY <3>2, OfCve
  <2>2. ASSUME NEW c \in Cves
        PROVE  LET rows == cve_images_rows(c)
                   listed == {r \in list_cves_rows(NULL) : r.cve = c}
               IN listed = IF rows = {} THEN {}
                           ELSE {[cve |-> c, rank |-> Max({r.rank : r \in rows}),
                                  images |-> Cardinality({r.image : r \in rows})]}
    BY <1>1, Listed DEF RollupInv
  <2>3. ASSUME NEW i \in Images, NEW rank \in 0..4
        PROVE  severity_counts(i).severity_counts[rank]
                   = Cardinality({r \in of_image(i) : r.rank = rank})
    <3>1. of_image(i) = {shown(i, k) : k \in current_rows(finding, image, i)}
      BY OfImage
    <3> HIDE DEF of_image
    <3> QED
      BY <1>1, <3>1, CountsAgree
  <2> QED
    BY <2>1, <2>2, <2>3 DEF EndpointsAgree
<1> QED
  BY <1>1, RollupHolds, PTL

-----------------------------------------------------------------------------
(* Requests.                                                               *)

REQUEST == {"step", "url", "etag", "found", "total"}

STEPS == {"validate", "images", "runs", "image", "known", "total", "rows"}

\* The fields of a request.
is_request(req) ==
    /\ DOMAIN req = REQUEST /\ req.step \in STEPS
    /\ req.url \in Urls /\ req.etag \in 0..now \cup {NULL}

\* What image_cves has read: a run of the image and, once there is a total, that
\* of its findings, unless the pointer has moved on.
is_paging(req) ==
    req.url.endpoint = "image_cves" /\ req.step \in {"total", "rows"} =>
        /\ req.url.subject \in Images
        /\ req.found \in DOMAIN scan_run
        /\ scan_run[req.found].image = req.url.subject
        /\ req.step = "rows" /\ image[req.url.subject].current_scan_run_id = req.found =>
              req.total = Cardinality(image_cves_rows(req.url.subject, req.found, req.url.severity))

\* What a request has read is what it would read now.
is_current(req) ==
    /\ req.url.endpoint = "list_images" /\ req.step = "runs" =>
          req.found = [n \in DOMAIN image_page(req.url) |-> summary(image_page(req.url)[n])]
    /\ req.url.endpoint = "image_cves" /\ req.step \in {"total", "rows"} =>
          req.found = image[req.url.subject].current_scan_run_id
    /\ req.url.endpoint = "list_cves" /\ req.step = "rows" =>
          req.total = Cardinality(list_cves_rows(req.url.severity))
    /\ req.url.endpoint = "cve_images" /\ req.step = "rows" =>
          req.total = Cardinality(cve_images_rows(req.url.subject))

\* The ETag of a request is no newer than the newest run, and if it is the ETag
\* of now then nothing has been committed since.
is_fresh(req) ==
    CommitsSpaced /\ req.etag # NULL =>
        /\ newest_completed # NULL
        /\ req.etag <= stamp(newest_completed)
        /\ req.etag = stamp(newest_completed) => is_current(req)

\* The same of the response that the client holds.
is_kept(response) ==
    /\ response.url \in Urls /\ response.etag \in 0..now \cup {NULL}
    /\ CommitsSpaced /\ response.etag # NULL =>
        /\ newest_completed # NULL
        /\ response.etag <= stamp(newest_completed)
        /\ response.etag = stamp(newest_completed) => response.body \in bodies(response.url)

ReadInv ==
    /\ request # NoRequest => is_request(request) /\ is_paging(request) /\ is_fresh(request)
    /\ cache # NoCache => is_kept(cache)

\* A request is not NoRequest.
LEMMA RequestIsOne == ASSUME request.step \in STEPS PROVE request # NoRequest
  BY DEF NoRequest, STEPS

\* The newest completion is one of the times.
LEMMA NewestFacts ==
    ASSUME NEW runs, has_newest(runs)
    PROVE  /\ Max(times(runs)) \in times(runs)
           /\ \A t \in times(runs) : Max(times(runs)) >= t
<1>1. \E t \in times(runs) : \A u \in times(runs) : t >= u
  BY DEF has_newest
<1> QED
  BY <1>1 DEF Max

\* newest_completed, as a maximum of times.
LEMMA NewestIsMax == newest_completed = Max(times(scan_run))
  BY DEF newest_completed, times

\* The newest completion is in the past.
LEMMA NewestType ==
    ASSUME TablesInv
    PROVE  newest_completed \in 0..now \cup {NULL}
<1>1. has_newest(scan_run)
  BY DEF TablesInv, RunsInv
<1>2. times(scan_run) \subseteq 0..now \cup {NULL}
  BY DEF TablesInv, RunsInv, times
<1> QED
  BY <1>1, <1>2, NewestFacts, NewestIsMax

\* What \div gives.
LEMMA StampFacts ==
    ASSUME NEW t \in Nat
    PROVE  /\ stamp(t) \in 0..t
           /\ \A s \in Nat : s <= t => stamp(s) <= stamp(t)
<1>1. TicksPerSecond \in Nat /\ TicksPerSecond >= 1
  BY ApiAssumption
<1>2. ASSUME NEW s \in Nat
      PROVE  /\ stamp(s) \in Nat
             /\ TicksPerSecond * stamp(s) <= s
             /\ s < TicksPerSecond * (stamp(s) + 1)
  BY <1>1 DEF stamp
<1>3. ASSUME NEW a \in Nat, NEW b \in Nat, a < b
      PROVE  TicksPerSecond * (a + 1) <= TicksPerSecond * b
  BY <1>1, <1>3
<1>4. ASSUME NEW a \in Nat
      PROVE  a <= TicksPerSecond * a
  BY <1>1
<1>5. stamp(t) \in 0..t
  <2>1. PICK q \in Nat : q = stamp(t)
    BY <1>2
  <2>2. q <= TicksPerSecond * q /\ TicksPerSecond * q <= t
    BY <1>2, <1>4, <2>1
  <2> QED
    BY <1>1, <2>1, <2>2
<1>6. ASSUME NEW s \in Nat, s <= t
      PROVE  stamp(s) <= stamp(t)
  <2>1. PICK p \in Nat, q \in Nat : p = stamp(s) /\ q = stamp(t)
    BY <1>2
  <2>2. TicksPerSecond * p <= s /\ t < TicksPerSecond * (q + 1)
    BY <1>2, <2>1
  <2>3. q < p => TicksPerSecond * (q + 1) <= TicksPerSecond * p
    BY <1>3
  <2>4. TicksPerSecond * (q + 1) \in Int /\ TicksPerSecond * p \in Int
    BY <1>1
  <2>5. ~(q < p)
    BY <1>6, <2>2, <2>3, <2>4
  <2> QED
    BY <2>1, <2>5
<1> QED
  BY <1>5, <1>6

\* What is said of requests and responses depends on the tables alone, but that
\* the clock has not passed an ETag.
LEMMA SameTables ==
    ASSUME UNCHANGED tables, \A t \in 0..now : t \in 0..now', NEW req
    PROVE  /\ is_request(req) => is_request(req)'
           /\ is_paging(req) => is_paging(req)'
           /\ is_fresh(req) => is_fresh(req)'
           /\ is_kept(req) => is_kept(req)'
<1>1. UNCHANGED <<image, finding, cve, scan_run>>
  BY DEF tables
<1>3. ASSUME NEW i, NEW run_id, NEW severity
      PROVE  image_cves_rows(i, run_id, severity)' = image_cves_rows(i, run_id, severity)
  BY <1>1 DEF image_cves_rows, shown
<1>4. ASSUME NEW c
      PROVE  cve_images_rows(c)' = cve_images_rows(c)
  BY <1>1 DEF cve_images_rows, shown
<1>5. ASSUME NEW severity
      PROVE  list_cves_rows(severity)' = list_cves_rows(severity)
  BY <1>1 DEF list_cves_rows
<1>6. newest_completed' = newest_completed
  BY <1>1 DEF newest_completed
<1>7. ASSUME NEW i
      PROVE  summary(i)' = summary(i) /\ severity_counts(i)' = severity_counts(i)
  BY <1>1 DEF summary, severity_counts
<1>9. bodies(req.url)' = bodies(req.url)
  BY <1>1 DEF bodies, image_cves_rows, cve_images_rows, list_cves_rows, shown, summary,
              with_counts, severity_counts
<1>10. is_request(req) => is_request(req)'
  BY DEF is_request
<1>11. is_paging(req) => is_paging(req)'
  BY <1>1, <1>3 DEF is_paging
<1>12. is_current(req) => is_current(req)'
  BY <1>1, <1>4, <1>5, <1>7 DEF is_current
<1>13. is_fresh(req) => is_fresh(req)'
  BY <1>6, <1>12 DEF is_fresh
<1>14. is_kept(req) => is_kept(req)'
  BY <1>6, <1>9 DEF is_kept
<1> QED
  BY <1>10, <1>11, <1>13, <1>14

\* The next statement of a request, or a 404.
LEMMA StatementStep ==
    ASSUME ReadInv, NEW changed, next_statement(changed),
           changed # NoRequest => is_request(changed) /\ is_paging(changed) /\ is_fresh(changed)
    PROVE  ReadInv'
<1>1. request' = changed /\ UNCHANGED <<now, tables, cache>>
  BY DEF next_statement
<1>2. request' # NoRequest => is_request(request)' /\ is_paging(request)' /\ is_fresh(request)'
  <2>1. changed # NoRequest => is_request(changed)' /\ is_paging(changed)' /\ is_fresh(changed)'
    BY <1>1, SameTables
  <2> QED
    BY <1>1, <2>1 DEF is_request, is_paging, is_fresh, is_current
<1>3. cache' # NoCache => is_kept(cache)'
  <2>1. PICK c : c = cache
    OBVIOUS
  <2>2. c # NoCache => is_kept(c)'
    BY <1>1, <2>1, SameTables DEF ReadInv
  <2> QED
    BY <1>1, <2>1, <2>2 DEF is_kept
<1> QED
  BY <1>2, <1>3 DEF ReadInv

\* The response.
LEMMA RespondStep ==
    ASSUME ReadInv, request # NoRequest, NEW total, NEW items, respond(total, items),
           CommitsSpaced /\ request.etag # NULL /\ request.etag = stamp(newest_completed) =>
               [total |-> total, items |-> items] \in bodies(request.url)
    PROVE  ReadInv'
<1>1. PICK c : c = [url |-> request.url, etag |-> request.etag,
                    body |-> [total |-> total, items |-> items]]
  OBVIOUS
<1>2. request' = NoRequest /\ cache' = c /\ UNCHANGED <<now, tables>>
  BY <1>1 DEF respond
<1>3. c.url = request.url /\ c.etag = request.etag /\ c.body = [total |-> total, items |-> items]
  BY <1>1
<1>4. is_kept(c)
  BY <1>3 DEF is_kept, ReadInv, is_request, is_fresh
<1>5. is_kept(c)'
  BY <1>2, <1>4, SameTables
<1> QED
  BY <1>2, <1>5 DEF ReadInv, is_kept

\* A request comes in.
LEMMA GetStep ==
    ASSUME TablesInv, ReadInv, NEW url \in Urls, get(url)
    PROVE  ReadInv'
<1>1. PICK req : req = [step |-> "validate", url |-> url, etag |-> NULL, found |-> NULL, total |-> 0]
  OBVIOUS
<1>2. /\ request' = req /\ cache' \in {cache, NoCache} /\ UNCHANGED <<now, tables>>
  BY <1>1 DEF get
<1>3. DOMAIN req = REQUEST /\ req.step = "validate" /\ req.url = url /\ req.etag = NULL
  BY <1>1 DEF REQUEST
<1>4. is_request(req) /\ is_paging(req) /\ is_fresh(req)
  BY <1>3 DEF is_request, is_paging, is_fresh, STEPS
<1>5. is_request(req)' /\ is_paging(req)' /\ is_fresh(req)'
  BY <1>2, <1>4, SameTables
<1>6. is_request(request)' /\ is_paging(request)' /\ is_fresh(request)'
  BY <1>2, <1>5 DEF is_request, is_paging, is_fresh, is_current
<1>7. cache' # NoCache => is_kept(cache)'
  <2>1. PICK c : c = cache
    OBVIOUS
  <2>2. c # NoCache => is_kept(c)'
    BY <1>2, <2>1, SameTables DEF ReadInv
  <2> QED
    BY <1>2, <2>1, <2>2 DEF is_kept
<1> QED
  BY <1>6, <1>7 DEF ReadInv

\* The validator: 304, or on to the first statement.
LEMMA FreshnessStep ==
    ASSUME TablesInv, ReadInv, apply_freshness
    PROVE  ReadInv'
<1>1. PICK etag : etag = IF newest_completed = NULL THEN NULL ELSE stamp(newest_completed)
  OBVIOUS
<1>2. /\ request.step = "validate" /\ UNCHANGED <<now, tables>>
      /\ \/ request' = NoRequest /\ UNCHANGED cache
         \/ /\ request' = [request EXCEPT !.etag = etag,
                                          !.step = first_statement[request.url.endpoint]]
            /\ cache' = NoCache
  BY <1>1 DEF apply_freshness
<1>3. request # NoRequest /\ is_request(request)
  BY <1>2 DEF NoRequest, ReadInv
<1>4. CASE request' = NoRequest /\ UNCHANGED cache
  <2>1. PICK c : c = cache
    OBVIOUS
  <2>2. c # NoCache => is_kept(c)'
    BY <1>2, <2>1, SameTables DEF ReadInv
  <2> QED
    BY <1>4, <2>1, <2>2 DEF is_kept, ReadInv
<1>5. CASE /\ request' = [request EXCEPT !.etag = etag,
                                         !.step = first_statement[request.url.endpoint]]
           /\ cache' = NoCache
  <2>1. PICK req : req = [request EXCEPT !.etag = etag,
                                         !.step = first_statement[request.url.endpoint]]
    OBVIOUS
  <2>2. DOMAIN request = REQUEST /\ request.url \in Urls
    BY <1>3 DEF is_request
  <2>3. /\ DOMAIN req = REQUEST /\ req.url = request.url /\ req.etag = etag
        /\ req.step = first_statement[req.url.endpoint]
    BY <2>1, <2>2 DEF REQUEST
  <2>4. /\ req.url.endpoint \in {"list_images", "image_cves", "list_cves", "cve_images"}
        /\ req.url \in Urls
    BY <2>2, <2>3, ApiAssumption
  <2>5. /\ req.url.endpoint = "list_images" => req.step = "images"
        /\ req.url.endpoint = "image_cves" => req.step = "image"
        /\ req.url.endpoint = "list_cves" => req.step = "total"
        /\ req.url.endpoint = "cve_images" => req.step = "known"
    BY <2>3, <2>4 DEF first_statement
  <2>6. etag \in 0..now \cup {NULL}
    <3>1. newest_completed \in 0..now \cup {NULL} /\ now \in Nat
      BY NewestType, ApiAssumption DEF TablesInv, RunsInv
    <3>2. CASE newest_completed = NULL
      BY <1>1, <3>2
    <3>3. CASE newest_completed # NULL
      <4>1. newest_completed \in Nat /\ newest_completed <= now
        BY <3>1, <3>3
      <4>2. stamp(newest_completed) \in 0..newest_completed
        BY <4>1, StampFacts
      <4> QED
        BY <1>1, <3>1, <3>3, <4>1, <4>2
    <3> QED
      BY <3>2, <3>3
  <2>7. is_request(req)
    BY <2>3, <2>4, <2>5, <2>6 DEF is_request, STEPS
  <2>8. is_paging(req)
    BY <2>5 DEF is_paging
  <2>9. is_current(req)
    BY <2>5 DEF is_current
  <2>10. is_fresh(req)
    <3>1. etag # NULL => newest_completed # NULL /\ etag = stamp(newest_completed) /\ etag \in Int
      BY <1>1, <2>6
    <3> QED
      BY <2>3, <2>9, <3>1 DEF is_fresh
  <2>11. is_request(req)' /\ is_paging(req)' /\ is_fresh(req)'
    BY <1>2, <2>7, <2>8, <2>10, SameTables
  <2>12. request' = req
    BY <1>5, <2>1
  <2> QED
    BY <1>5, <2>11, <2>12 DEF ReadInv, is_request, is_paging, is_fresh, is_current
<1> QED
  BY <1>2, <1>4, <1>5

-----------------------------------------------------------------------------
(* The handlers.                                                           *)

\* What an uninterrupted request would get, endpoint by endpoint.
LEMMA BodyFacts ==
    ASSUME NEW url
    PROVE  /\ url.endpoint = "list_images" =>
                 [total |-> Cardinality(Images),
                  items |-> with_counts([n \in DOMAIN image_page(url) |-> summary(image_page(url)[n])])]
                     \in bodies(url)
           /\ url.endpoint = "image_cves" =>
                 LET rows == image_cves_rows(url.subject, image[url.subject].current_scan_run_id,
                                             url.severity)
                 IN \A s \in by_cve(rows) :
                       [total |-> Cardinality(rows), items |-> page(s, url)] \in bodies(url)
           /\ url.endpoint = "list_cves" =>
                 LET rows == list_cves_rows(url.severity)
                 IN \A s \in by_cve(rows) :
                       [total |-> Cardinality(rows), items |-> page(s, url)] \in bodies(url)
           /\ url.endpoint = "cve_images" =>
                 LET rows == cve_images_rows(url.subject)
                 IN \A s \in by_image(rows) :
                       [total |-> Cardinality(rows), items |-> page(s, url)] \in bodies(url)
  BY DEF bodies

\* The lower of two numbers.
LEMMA MinOfTwo ==
    ASSUME NEW a \in Int, NEW b \in Int
    PROVE  Min({a, b}) \in {a, b} /\ Min({a, b}) <= a /\ Min({a, b}) <= b
<1>1. \E x \in {a, b} : \A y \in {a, b} : x <= y
  OBVIOUS
<1>2. Min({a, b}) \in {a, b} /\ \A y \in {a, b} : Min({a, b}) <= y
  BY <1>1 DEF Min
<1> QED
  BY <1>2

\* A page holds rows of the listing.
LEMMA PageFacts ==
    ASSUME NEW url \in Urls, NEW rows, NEW s \in Seq(rows)
    PROVE  /\ \A n \in DOMAIN page(s, url) : page(s, url)[n] \in rows
           /\ s = <<>> => page(s, url) = <<>>
<1> DEFINE first == url.offset + 1
           last == Min({url.offset + page_params(url.limit), Len(s)})
<1>1. url.offset \in Nat /\ page_params(url.limit) \in Nat
  <2>1. url.offset \in Nat /\ url.limit \in (Nat \ {0}) \cup {NULL}
    BY ApiAssumption
  <2>2. PageSizeDefault \in Nat /\ PageSizeMax \in Nat
    BY ApiAssumption
  <2>3. PICK limit \in Nat : limit = IF url.limit = NULL THEN PageSizeDefault ELSE url.limit
    BY <2>1, <2>2
  <2>i. limit \in Int /\ PageSizeMax \in Int
    BY <2>2
  <2>4. Min({limit, PageSizeMax}) \in {limit, PageSizeMax}
    BY <2>i, MinOfTwo, Zenon
  <2> QED
    BY <2>1, <2>2, <2>3, <2>4 DEF page_params
<1>2. Len(s) \in Nat
  OBVIOUS
<1>3. /\ first \in Nat /\ first >= 1 /\ last \in Int /\ last <= Len(s)
  <2>1. PICK a \in Int, b \in Int : a = url.offset + page_params(url.limit) /\ b = Len(s)
    BY <1>1, <1>2
  <2>2. Min({a, b}) \in {a, b} /\ Min({a, b}) <= b
    BY MinOfTwo, Zenon
  <2> QED
    BY <1>1, <2>1, <2>2
<1>4. page(s, url) = SubSeq(s, first, last)
  BY DEF page
<1> HIDE DEF first, last
<1>5. \A n \in DOMAIN SubSeq(s, first, last) : SubSeq(s, first, last)[n] \in rows
  BY <1>2, <1>3
<1>6. s = <<>> => SubSeq(s, first, last) = <<>>
  BY <1>2, <1>3
<1> QED
  BY <1>4, <1>5, <1>6

\* A listing of some rows is a sequence of them; of no rows there is one.
LEMMA ListingFacts ==
    ASSUME NEW rows, IsFiniteSet(rows), NEW id
    PROVE  /\ \A s \in listings(rows, id) : s \in Seq(rows)
           /\ rows = {} => <<>> \in listings(rows, id)
<1>1. Cardinality(rows) \in Nat
  BY FS_CardinalityType
<1>2. \A s \in listings(rows, id) : s \in [1..Cardinality(rows) -> rows]
  BY DEF listings, SetToSeqs
<1>3. ASSUME rows = {}
      PROVE  <<>> \in listings(rows, id)
  <2>1. Cardinality(rows) = 0
    BY <1>3, FS_EmptySet
  <2>2. 1..Cardinality(rows) = {} /\ DOMAIN <<>> = {}
    BY <2>1
  <2>3. <<>> \in [1..Cardinality(rows) -> rows]
    BY <2>1
  <2> QED
    BY <2>2, <2>3 DEF listings, SetToSeqs
<1> QED
  BY <1>1, <1>2, <1>3

\* list_images.
LEMMA ListImagesStep ==
    ASSUME TablesInv, ReadInv, list_images
    PROVE  ReadInv'
<1>1. /\ request # NoRequest /\ request.url.endpoint = "list_images"
      /\ is_request(request) /\ is_paging(request) /\ is_fresh(request)
  BY DEF list_images, at, NoRequest, ReadInv
<1>2. ASSUME request.step = "images",
             respond(Cardinality(Images), <<>>), image_page(request.url) = <<>>
      PROVE  ReadInv'
  <2>1. with_counts([n \in DOMAIN image_page(request.url) |-> summary(image_page(request.url)[n])]) = <<>>
    <3>1. DOMAIN image_page(request.url) = {}
      BY <1>2
    <3>2. PICK f : f = [n \in DOMAIN image_page(request.url) |-> summary(image_page(request.url)[n])]
      OBVIOUS
    <3>3. DOMAIN f = {}
      BY <3>1, <3>2
    <3>4. with_counts(f) = <<>>
      BY <3>3 DEF with_counts
    <3> QED
      BY <3>2, <3>4
  <2>2. [total |-> Cardinality(Images), items |-> <<>>] \in bodies(request.url)
    BY <1>1, <2>1, BodyFacts
  <2> QED
    BY <1>1, <1>2, <2>2, RespondStep
<1>3. ASSUME NEW summaries,
             summaries = [n \in DOMAIN image_page(request.url) |-> summary(image_page(request.url)[n])],
             next_statement([request EXCEPT !.step = "runs", !.found = summaries])
      PROVE  ReadInv'
  <2>1. PICK req : req = [request EXCEPT !.step = "runs", !.found = summaries]
    OBVIOUS
  <2>2. DOMAIN request = REQUEST
    BY <1>1 DEF is_request
  <2>3. /\ DOMAIN req = REQUEST /\ req.step = "runs" /\ req.found = summaries
        /\ req.url = request.url /\ req.etag = request.etag
    BY <2>1, <2>2 DEF REQUEST
  <2>4. is_request(req)
    BY <1>1, <2>3 DEF is_request, STEPS
  <2>5. is_paging(req) /\ is_current(req)
    BY <1>1, <1>3, <2>3 DEF is_paging, is_current
  <2>6. is_fresh(req)
    BY <1>1, <2>3, <2>5 DEF is_fresh
  <2> QED
    BY <1>3, <2>1, <2>4, <2>5, <2>6, StatementStep
<1>4. ASSUME request.step = "runs", respond(Cardinality(Images), with_counts(request.found))
      PROVE  ReadInv'
  <2>1. ASSUME CommitsSpaced, request.etag # NULL, request.etag = stamp(newest_completed)
        PROVE  [total |-> Cardinality(Images), items |-> with_counts(request.found)]
                   \in bodies(request.url)
    <3>1. is_current(request)
      BY <1>1, <2>1 DEF is_fresh
    <3>2. request.found = [n \in DOMAIN image_page(request.url) |-> summary(image_page(request.url)[n])]
      BY <1>1, <1>4, <3>1 DEF is_current
    <3> QED
      BY <1>1, <3>2, BodyFacts
  <2> QED
    BY <1>1, <1>4, <2>1, RespondStep
<1> QED
  BY <1>2, <1>3, <1>4 DEF list_images, at

\* No finding was last seen by no run.
LEMMA NoRowsOfNull ==
    ASSUME TablesInv, NEW i \in Images, NEW severity
    PROVE  image_cves_rows(i, NULL, severity) = {}
<1>1. NULL \notin DOMAIN scan_run
  BY DEF TablesInv, RunsInv, NULL
<1>2. \A k \in DOMAIN finding[i] : finding[i][k].last_seen_run_id # NULL
  BY <1>1, FindingFacts
<1> QED
  BY <1>2 DEF image_cves_rows

\* The answer for an image that was never scanned with success.
LEMMA NeverScanned ==
    ASSUME TablesInv, NEW url \in Urls, url.endpoint = "image_cves", url.subject \in Images,
           image[url.subject].current_scan_run_id = NULL
    PROVE  [total |-> 0, items |-> <<>>] \in bodies(url)
<1>1. image_cves_rows(url.subject, NULL, url.severity) = {}
  BY NoRowsOfNull
<1>2. <<>> \in by_cve({}) /\ Cardinality({}) = 0
  <2>1. IsFiniteSet({}) /\ Cardinality({}) = 0
    BY FS_EmptySet
  <2> QED
    BY <2>1, ListingFacts DEF by_cve
<1>3. page(<<>>, url) = <<>>
  <2>1. <<>> \in Seq({})
    OBVIOUS
  <2> QED
    BY <2>1, PageFacts
<1>4. \A s \in by_cve({}) : [total |-> Cardinality({}), items |-> page(s, url)] \in bodies(url)
  BY <1>1, BodyFacts
<1> QED
  BY <1>2, <1>3, <1>4

\* image_cves.
LEMMA ImageCvesStep ==
    ASSUME TablesInv, ReadInv, image_cves
    PROVE  ReadInv'
<1>1. /\ request # NoRequest /\ request.url.endpoint = "image_cves"
      /\ is_request(request) /\ is_paging(request) /\ is_fresh(request)
  BY DEF image_cves, at, NoRequest, ReadInv
<1>2. /\ DOMAIN request = REQUEST /\ request.url \in Urls
      /\ request.etag \in 0..now \cup {NULL}
  BY <1>1 DEF is_request
<1>3. PICK i : i = request.url.subject
  OBVIOUS
<1>4. PICK rows : rows = image_cves_rows(i, request.found, request.url.severity)
  OBVIOUS
<1>5. CASE next_statement(NoRequest)
  BY <1>5, StatementStep
<1>6. ASSUME i \in Images, image[i].current_scan_run_id = NULL, respond(0, <<>>)
      PROVE  ReadInv'
  <2>1. [total |-> 0, items |-> <<>>] \in bodies(request.url)
    BY <1>1, <1>2, <1>3, <1>6, NeverScanned
  <2> QED
    BY <1>1, <1>6, <2>1, RespondStep
<1>7. ASSUME i \in Images, image[i].current_scan_run_id # NULL,
             next_statement([request EXCEPT !.step = "total",
                                            !.found = image[i].current_scan_run_id])
      PROVE  ReadInv'
  <2>1. PICK req : req = [request EXCEPT !.step = "total", !.found = image[i].current_scan_run_id]
    OBVIOUS
  <2>2. /\ DOMAIN req = REQUEST /\ req.step = "total" /\ req.found = image[i].current_scan_run_id
        /\ req.url = request.url /\ req.etag = request.etag
    BY <1>2, <2>1 DEF REQUEST
  <2>3. is_request(req)
    BY <1>1, <2>2 DEF is_request, STEPS
  <2>4. req.found \in DOMAIN scan_run /\ scan_run[req.found].image = i
    BY <1>7, <2>2 DEF TablesInv, FindingsInv, is_whole
  <2>5. is_paging(req) /\ is_current(req)
    BY <1>1, <1>3, <1>7, <2>2, <2>4 DEF is_paging, is_current
  <2>6. is_fresh(req)
    BY <1>1, <2>2, <2>5 DEF is_fresh
  <2> QED
    BY <1>7, <2>1, <2>3, <2>5, <2>6, StatementStep
<1>8. ASSUME request.step = "total",
             next_statement([request EXCEPT !.step = "rows", !.total = Cardinality(rows)])
      PROVE  ReadInv'
  <2>1. PICK req : req = [request EXCEPT !.step = "rows", !.total = Cardinality(rows)]
    OBVIOUS
  <2>2. /\ DOMAIN req = REQUEST /\ req.step = "rows" /\ req.total = Cardinality(rows)
        /\ req.found = request.found /\ req.url = request.url /\ req.etag = request.etag
    BY <1>2, <2>1 DEF REQUEST
  <2>3. is_request(req)
    BY <1>1, <2>2 DEF is_request, STEPS
  <2>4. is_paging(req)
    BY <1>1, <1>3, <1>4, <1>8, <2>2 DEF is_paging
  <2>5. is_current(request) => is_current(req)
    BY <1>1, <1>8, <2>2 DEF is_current
  <2>6. is_fresh(req)
    BY <1>1, <2>2, <2>5 DEF is_fresh
  <2> QED
    BY <1>8, <2>1, <2>3, <2>4, <2>6, StatementStep
<1>9. ASSUME request.step = "rows", NEW s \in by_cve(rows),
             respond(request.total, page(s, request.url))
      PROVE  ReadInv'
  <2>1. ASSUME CommitsSpaced, request.etag # NULL, request.etag = stamp(newest_completed)
        PROVE  [total |-> request.total, items |-> page(s, request.url)] \in bodies(request.url)
    <3>1. request.found = image[i].current_scan_run_id
      BY <1>1, <1>3, <1>9, <2>1 DEF is_fresh, is_current
    <3>2. request.total = Cardinality(rows)
      BY <1>1, <1>3, <1>4, <1>9, <3>1 DEF is_paging
    <3>3. \A t \in by_cve(rows) :
              [total |-> Cardinality(rows), items |-> page(t, request.url)] \in bodies(request.url)
      BY <1>1, <1>3, <1>4, <3>1, BodyFacts
    <3> QED
      BY <1>9, <3>2, <3>3
  <2> QED
    BY <1>1, <1>9, <2>1, RespondStep
<1> QED
  BY <1>3, <1>4, <1>5, <1>6, <1>7, <1>8, <1>9 DEF image_cves, at

\* The statements of list_cves and cve_images: a total, then a page of the rows
\* that were counted.
LEMMA TotalStep ==
    ASSUME ReadInv, request # NoRequest, request.url.endpoint \in {"list_cves", "cve_images"},
           NEW total, NEW step \in {"total", "rows"},
           \/ step = "total" /\ next_statement([request EXCEPT !.step = step])
           \/ /\ next_statement([request EXCEPT !.step = step, !.total = total])
              /\ request.url.endpoint = "list_cves" =>
                     total = Cardinality(list_cves_rows(request.url.severity))
              /\ request.url.endpoint = "cve_images" =>
                     total = Cardinality(cve_images_rows(request.url.subject))
    PROVE  ReadInv'
<1>1. is_request(request) /\ is_fresh(request) /\ DOMAIN request = REQUEST
  BY DEF ReadInv, is_request
<1>2. ASSUME NEW req, next_statement(req),
             DOMAIN req = REQUEST, req.step = step, req.url = request.url,
             req.etag = request.etag, is_current(req)
      PROVE  ReadInv'
  <2>1. is_request(req)
    BY <1>1, <1>2 DEF is_request, STEPS
  <2>2. is_paging(req)
    BY <1>2 DEF is_paging
  <2>3. is_fresh(req)
    BY <1>1, <1>2 DEF is_fresh
  <2> QED
    BY <1>2, <2>1, <2>2, <2>3, StatementStep
<1>3. CASE step = "total" /\ next_statement([request EXCEPT !.step = step])
  <2>1. PICK req : req = [request EXCEPT !.step = step]
    OBVIOUS
  <2>2. /\ DOMAIN req = REQUEST /\ req.step = step /\ req.url = request.url
        /\ req.etag = request.etag
    BY <1>1, <2>1 DEF REQUEST
  <2>3. is_current(req)
    BY <1>3, <2>2 DEF is_current
  <2> QED
    BY <1>2, <1>3, <2>1, <2>2, <2>3
<1>4. CASE /\ next_statement([request EXCEPT !.step = step, !.total = total])
           /\ request.url.endpoint = "list_cves" =>
                  total = Cardinality(list_cves_rows(request.url.severity))
           /\ request.url.endpoint = "cve_images" =>
                  total = Cardinality(cve_images_rows(request.url.subject))
  <2>1. PICK req : req = [request EXCEPT !.step = step, !.total = total]
    OBVIOUS
  <2>2. /\ DOMAIN req = REQUEST /\ req.step = step /\ req.url = request.url
        /\ req.etag = request.etag /\ req.total = total
    BY <1>1, <2>1 DEF REQUEST
  <2>3. is_current(req)
    BY <1>4, <2>2 DEF is_current
  <2> QED
    BY <1>2, <1>4, <2>1, <2>2, <2>3
<1> QED
  BY <1>3, <1>4

\* list_cves.
LEMMA ListCvesStep ==
    ASSUME ReadInv, list_cves
    PROVE  ReadInv'
<1>1. /\ request # NoRequest /\ request.url.endpoint = "list_cves" /\ is_fresh(request)
  BY DEF list_cves, at, NoRequest, ReadInv
<1>2. PICK rows : rows = list_cves_rows(request.url.severity)
  OBVIOUS
<1>3. PICK total : total = Cardinality(rows)
  OBVIOUS
<1>4. CASE next_statement([request EXCEPT !.step = "rows", !.total = Cardinality(rows)])
  <2>1. next_statement([request EXCEPT !.step = "rows", !.total = total])
    BY <1>3, <1>4
  <2> QED
    BY <1>1, <1>2, <1>3, <2>1, TotalStep
<1>5. ASSUME request.step = "rows", NEW s \in by_cve(rows),
             respond(request.total, page(s, request.url))
      PROVE  ReadInv'
  <2>1. ASSUME CommitsSpaced, request.etag # NULL, request.etag = stamp(newest_completed)
        PROVE  [total |-> request.total, items |-> page(s, request.url)] \in bodies(request.url)
    <3>1. request.total = Cardinality(rows)
      BY <1>1, <1>2, <1>5, <2>1 DEF is_fresh, is_current
    <3>2. \A t \in by_cve(rows) :
              [total |-> Cardinality(rows), items |-> page(t, request.url)] \in bodies(request.url)
      BY <1>1, <1>2, BodyFacts
    <3> QED
      BY <1>5, <3>1, <3>2
  <2> QED
    BY <1>1, <1>5, <2>1, RespondStep
<1> QED
  BY <1>2, <1>4, <1>5 DEF list_cves, at

\* cve_images.
LEMMA CveImagesStep ==
    ASSUME ReadInv, cve_images
    PROVE  ReadInv'
<1>1. /\ request # NoRequest /\ request.url.endpoint = "cve_images" /\ is_fresh(request)
  BY DEF cve_images, at, NoRequest, ReadInv
<1>2. PICK rows : rows = cve_images_rows(request.url.subject)
  OBVIOUS
<1>3. PICK total : total = Cardinality(rows)
  OBVIOUS
<1>4. CASE next_statement(NoRequest)
  BY <1>4, StatementStep
<1>5. CASE next_statement([request EXCEPT !.step = "total"])
  BY <1>1, <1>5, TotalStep
<1>6. CASE next_statement([request EXCEPT !.step = "rows", !.total = Cardinality(rows)])
  <2>1. next_statement([request EXCEPT !.step = "rows", !.total = total])
    BY <1>3, <1>6
  <2> QED
    BY <1>1, <1>2, <1>3, <2>1, TotalStep
<1>7. ASSUME request.step = "rows", NEW s \in by_image(rows),
             respond(request.total, page(s, request.url))
      PROVE  ReadInv'
  <2>1. ASSUME CommitsSpaced, request.etag # NULL, request.etag = stamp(newest_completed)
        PROVE  [total |-> request.total, items |-> page(s, request.url)] \in bodies(request.url)
    <3>1. request.total = Cardinality(rows)
      BY <1>1, <1>2, <1>7, <2>1 DEF is_fresh, is_current
    <3>2. \A t \in by_image(rows) :
              [total |-> Cardinality(rows), items |-> page(t, request.url)] \in bodies(request.url)
      BY <1>1, <1>2, BodyFacts
    <3> QED
      BY <1>7, <3>1, <3>2
  <2> QED
    BY <1>1, <1>7, <2>1, RespondStep
<1> QED
  BY <1>2, <1>4, <1>5, <1>6, <1>7 DEF cve_images, at

-----------------------------------------------------------------------------
(* The writers, as requests see them.                                      *)

\* The clock, results that are not committed, and no step at all.
LEMMA UnseenStep ==
    ASSUME TablesInv, ReadInv, UNCHANGED <<tables, request, cache>>, now' \in {now, now + 1}
    PROVE  ReadInv'
<1>1. \A t \in 0..now : t \in 0..now'
  BY ApiAssumption DEF TablesInv, RunsInv
<1>2. PICK req, c : req = request /\ c = cache
  OBVIOUS
<1>3. req # NoRequest => is_request(req)' /\ is_paging(req)' /\ is_fresh(req)'
  BY <1>1, <1>2, SameTables DEF ReadInv
<1>4. c # NoCache => is_kept(c)'
  BY <1>1, <1>2, SameTables DEF ReadInv
<1>5. request' = req /\ cache' = c
  BY <1>2
<1> QED
  BY <1>3, <1>4, <1>5 DEF ReadInv, is_request, is_paging, is_fresh, is_current, is_kept

\* The stamp of the newest run grows with every commit.
LEMMA StampGrows ==
    ASSUME TablesInv, CommitsSpaced, NEW i \in Images, NEW time, NEW result, NEW run, NEW l,
           commits(i, time, result, run, l), newest_completed # NULL
    PROVE  /\ newest_completed' # NULL
           /\ stamp(newest_completed) \in Int /\ stamp(newest_completed') \in Int
           /\ stamp(newest_completed) < stamp(newest_completed')
<1>0. inserts(i, time, result, run, l)
  BY CommitRun
<1>1. /\ run.completed_at = time /\ result.completed_at = time /\ time \in 0..now /\ now \in Nat
      /\ DOMAIN scan_run' = DOMAIN scan_run \cup {l}
      /\ scan_run'[l] = run /\ \A n \in DOMAIN scan_run : scan_run'[n] = scan_run[n]
  BY <1>0 DEF inserts
<1>2. \A n \in DOMAIN scan_run : stamp(scan_run[n].completed_at) < stamp(time)
  BY <1>1 DEF commits, spaced
<1>3. has_newest(scan_run) /\ \A n \in DOMAIN scan_run : scan_run[n].completed_at \in 0..now
  BY DEF TablesInv, RunsInv
<1>4. newest_completed \in times(scan_run)
  BY <1>3, NewestFacts, NewestIsMax
<1>5. PICK n \in DOMAIN scan_run : newest_completed = scan_run[n].completed_at
  BY <1>4 DEF times
<1>6. newest_completed \in Nat /\ time \in Nat
  BY <1>1, <1>3, <1>5
<1>7. PICK newest : newest = newest_completed'
  OBVIOUS
<1>8. newest \in times(scan_run') /\ \A t \in times(scan_run') : newest >= t
  <2>1. RunsInv'
    BY CommitRuns
  <2>2. has_newest(scan_run')
    BY <2>1 DEF RunsInv
  <2>3. newest = Max(times(scan_run'))
    BY <1>7 DEF newest_completed, times
  <2> QED
    BY <2>2, <2>3, NewestFacts
<1>9. times(scan_run') = times(scan_run) \cup {time}
  BY <1>1 DEF times
<1>10. newest >= time /\ newest \in Nat
  <2>1. newest >= time
    BY <1>8, <1>9
  <2>2. newest \in Int
    BY <1>1, <1>3, <1>8, <1>9 DEF times, NULL
  <2> QED
    BY <1>6, <2>1, <2>2
<1>11. stamp(time) <= stamp(newest)
  BY <1>6, <1>10, StampFacts
<1>12. stamp(newest_completed) < stamp(time)
  BY <1>2, <1>5
<1>13. stamp(newest_completed) \in Int /\ stamp(time) \in Int /\ stamp(newest) \in Int
  BY <1>6, <1>10, StampFacts
<1>14. newest # NULL
  BY <1>10 DEF NULL
<1> QED
  BY <1>7, <1>11, <1>12, <1>13, <1>14

\* A commit does not touch what the current run of a request's image reported.
LEMMA CommitPaging ==
    ASSUME TablesInv, NEW i \in Images, NEW time, NEW result, NEW run, NEW l,
           commits(i, time, result, run, l), NEW req, is_paging(req)
    PROVE  is_paging(req)'
<1> SUFFICES ASSUME req.url.endpoint = "image_cves", req.step \in {"total", "rows"}
             PROVE  is_paging(req)'
  BY DEF is_paging
<1>1. PICK j, p : j = req.url.subject /\ p = req.found
  OBVIOUS
<1>2. /\ j \in Images /\ p \in DOMAIN scan_run /\ scan_run[p].image = j
      /\ req.step = "rows" /\ image[j].current_scan_run_id = p =>
             req.total = Cardinality(image_cves_rows(j, p, req.url.severity))
  BY <1>1 DEF is_paging
<1>3. inserts(i, time, result, run, l)
  BY CommitRun
<1>4. /\ DOMAIN scan_run' = DOMAIN scan_run \cup {l} /\ l \notin DOMAIN scan_run
      /\ \A n \in DOMAIN scan_run : scan_run'[n] = scan_run[n]
  BY <1>3 DEF inserts
<1>5. ASSUME image'[j].current_scan_run_id = p
      PROVE  /\ image[j].current_scan_run_id = p
             /\ image_cves_rows(j, p, req.url.severity)' = image_cves_rows(j, p, req.url.severity)
  <2>1. j # i \/ result.status # "success"
    BY <1>2, <1>4, <1>5, CommitPointer
  <2>2. image[j].current_scan_run_id = p
    BY <1>2, <1>5, <2>1, CommitPointer
  <2>3. DOMAIN finding'[j] = DOMAIN finding[j] /\ \A k \in DOMAIN finding[j] : finding'[j][k] = finding[j][k]
    <3>1. CASE j # i
      BY <1>2, <3>1 DEF commits
    <3>2. CASE j = i
      BY <2>1, <3>2, CommitCurrentRows
    <3> QED
      BY <3>1, <3>2
  <2>4. \A k \in DOMAIN finding[j] : shown(j, k)' = shown(j, k)
    <3>1. \A k \in DOMAIN finding[j] : finding[j][k].last_seen_run_id \in DOMAIN scan_run
      BY <1>2, FindingFacts
    <3> QED
      BY <1>4, <2>3, <3>1 DEF shown
  <2>5. PICK K : K = {k \in DOMAIN finding[j] : /\ finding[j][k].last_seen_run_id = p
                                                /\ wanted(finding[j][k].severity_rank, req.url.severity)}
    OBVIOUS
  <2>6. image_cves_rows(j, p, req.url.severity) = {shown(j, k) : k \in K}
    BY <2>5 DEF image_cves_rows
  <2>7. image_cves_rows(j, p, req.url.severity)' = {shown(j, k)' : k \in K}
    <3>1. K = {k \in DOMAIN finding'[j] : /\ finding'[j][k].last_seen_run_id = p
                                          /\ wanted(finding'[j][k].severity_rank, req.url.severity)}
      BY <2>3, <2>5
    <3> QED
      BY <3>1 DEF image_cves_rows, wanted
  <2>8. {shown(j, k)' : k \in K} = {shown(j, k) : k \in K}
    BY <2>4, <2>5
  <2> QED
    BY <2>2, <2>6, <2>7, <2>8
<1> QED
  BY <1>1, <1>2, <1>4, <1>5 DEF is_paging

\* A commit makes every ETag stale.
LEMMA CommitRead ==
    ASSUME TablesInv, ReadInv, NEW i \in Images, commit(i)
    PROVE  ReadInv'
<1>1. PICK time, result, run, l : commits(i, time, result, run, l)
  BY CommitFacts
<1>2. PICK req, c : req = request /\ c = cache
  OBVIOUS
<1>3. request' = req /\ cache' = c /\ now' = now
  BY <1>1, <1>2 DEF commits
<1>4. CommitsSpaced /\ newest_completed # NULL =>
          /\ newest_completed' # NULL
          /\ stamp(newest_completed) \in Int /\ stamp(newest_completed') \in Int
          /\ stamp(newest_completed) < stamp(newest_completed')
  BY <1>1, StampGrows
<1>5. now \in Nat
  BY ApiAssumption DEF TablesInv, RunsInv
<1>6. req # NoRequest => is_request(req)' /\ is_paging(req)' /\ is_fresh(req)'
  <2> SUFFICES ASSUME req # NoRequest
               PROVE  is_request(req)' /\ is_paging(req)' /\ is_fresh(req)'
    OBVIOUS
  <2>1. is_request(req) /\ is_paging(req) /\ is_fresh(req)
    BY <1>2 DEF ReadInv
  <2>2. is_request(req)'
    BY <1>3, <2>1 DEF is_request
  <2>3. is_paging(req)'
    BY <1>1, <2>1, CommitPaging
  <2>4. is_fresh(req)'
    <3>1. req.etag # NULL => req.etag \in Int
      BY <1>5, <2>1 DEF is_request
    <3> QED
      BY <1>4, <2>1, <3>1 DEF is_fresh
  <2> QED
    BY <2>2, <2>3, <2>4
<1>7. c # NoCache => is_kept(c)'
  <2> SUFFICES ASSUME c # NoCache
               PROVE  is_kept(c)'
    OBVIOUS
  <2>1. is_kept(c)
    BY <1>2 DEF ReadInv
  <2>2. c.etag # NULL => c.etag \in Int
    BY <1>5, <2>1 DEF is_kept
  <2> QED
    BY <1>3, <1>4, <2>1, <2>2 DEF is_kept
<1> QED
  BY <1>3, <1>6, <1>7 DEF ReadInv, is_request, is_paging, is_fresh, is_current, is_kept

-----------------------------------------------------------------------------
(* The theorems about requests.                                            *)

\* Every step keeps what is said of requests.
LEMMA ReadStep == TablesInv /\ ReadInv /\ [Next]_vars => ReadInv'
<1> SUFFICES ASSUME TablesInv, ReadInv, [Next]_vars PROVE ReadInv'
  OBVIOUS
<1>1. CASE \/ tick \/ UNCHANGED vars
           \/ \E i \in Images : complete(i) \/ record_success(i) \/ roll_back(i)
  <2>1. UNCHANGED <<tables, request, cache>> /\ now' \in {now, now + 1}
    BY <1>1 DEF tick, complete, record_success, roll_back, vars, tables
  <2> QED
    BY <2>1, UnseenStep
<1> QED
  BY <1>1, CommitRead, GetStep, FreshnessStep, ListImagesStep, ImageCvesStep, ListCvesStep,
     CveImagesStep DEF Next

\* What is said of requests holds in every state.
LEMMA ReadHolds == Spec => [](TablesInv /\ ReadInv)
<1>1. Init => TablesInv /\ ReadInv
  BY TablesInit DEF Init, ReadInv
<1>2. TablesInv /\ ReadInv /\ [Next]_vars => TablesInv' /\ ReadInv'
  BY TablesStep, ReadStep
<1> QED
  BY <1>1, <1>2, PTL DEF Spec

\* Pointers and last_seen_run_id name runs that exist, times are past (models.py).
THEOREM ApiTypes == Spec => []TypeOK
<1>1. ASSUME TablesInv, ReadInv
      PROVE  TypeOK
  <2>1. ASSUME NEW i \in Images
        PROVE  /\ image[i].current_scan_run_id \in DOMAIN scan_run \cup {NULL}
               /\ image[i].last_scan_at \in 0..now \cup {NULL}
               /\ image[i].consecutive_failures \in 0..Len(scan_run)
               /\ \A k \in DOMAIN finding[i] :
                     /\ finding[i][k].severity_rank \in 0..4
                     /\ finding[i][k].last_seen_run_id \in DOMAIN scan_run
    <3>1. image[i].current_scan_run_id \in DOMAIN scan_run \cup {NULL}
      BY <1>1 DEF TablesInv, FindingsInv, is_whole
    <3> QED
      BY <1>1, <3>1, FindingFacts DEF TablesInv, ImagesInv
  <2>2. now \in 0..MaxTime /\ DOMAIN cve \subseteq Cves
    BY <1>1 DEF TablesInv, RunsInv, TxnInv
  <2>3. \A i \in Images : txn[i].open =>
            scanning[i].status = "success" /\ DOMAIN txn[i].rollup \subseteq affected(i)
    BY <1>1 DEF TablesInv, TxnInv
  <2> QED
    BY <1>1, <2>1, <2>2, <2>3 DEF TypeOK, ReadInv, is_request, is_kept
<1> QED
  BY <1>1, ReadHolds, PTL

\* A step that ends a request is its validator or its last statement.
LEMMA RequestEnds ==
    ASSUME [Next]_vars, request # NoRequest, request' = NoRequest
    PROVE  apply_freshness \/ list_images \/ image_cves \/ list_cves \/ cve_images
  BY DEF Next, vars, tick, complete, record_success, commit, roll_back, get

\* A 304 confirms what the client would get without If-None-Match, where runs
\* commit in the order of their completion, each in a second of its own
\* (apply_freshness).
THEOREM NotModifiedConfirms == ASSUME CommitsSpaced PROVE Spec => NotModifiedIsCurrent
<1>1. TablesInv /\ ReadInv /\ [Next]_vars =>
        [request.step = "validate" /\ request' = NoRequest => cache.body \in bodies(cache.url)]_vars
  <2> SUFFICES ASSUME ReadInv, [Next]_vars, request.step = "validate", request' = NoRequest
               PROVE  cache.body \in bodies(cache.url)
    OBVIOUS
  <2>1. request # NoRequest
    BY DEF NoRequest
  <2>2. apply_freshness
    BY <2>1, RequestEnds DEF list_images, image_cves, list_cves, cve_images, at
  <2>3. PICK etag : etag = IF newest_completed = NULL THEN NULL ELSE stamp(newest_completed)
    OBVIOUS
  <2>4. \/ etag # NULL /\ cache.etag = etag
        \/ request' = [request EXCEPT !.etag = etag, !.step = first_statement[request.url.endpoint]]
    BY <2>2, <2>3 DEF apply_freshness
  <2>5. DOMAIN request = REQUEST
    BY <2>1 DEF ReadInv, is_request
  <2>6. request' # [request EXCEPT !.etag = etag, !.step = first_statement[request.url.endpoint]]
    <3>1. PICK req : req = [request EXCEPT !.etag = etag, !.step = first_statement[request.url.endpoint]]
      OBVIOUS
    <3>2. DOMAIN req = REQUEST /\ DOMAIN NoRequest = {"step"}
      BY <2>5, <3>1 DEF NoRequest
    <3>3. "url" \in REQUEST /\ "url" \notin {"step"}
      BY DEF REQUEST
    <3>4. req # NoRequest
      BY <3>2, <3>3
    <3> QED
      BY <3>1, <3>4
  <2>7. etag # NULL /\ cache.etag = etag /\ newest_completed # NULL
    BY <2>3, <2>4, <2>6
  <2>8. cache # NoCache
    BY <2>7 DEF NoCache
  <2>9. cache.etag = stamp(newest_completed)
    BY <2>3, <2>7
  <2> QED
    BY <2>7, <2>8, <2>9 DEF ReadInv, is_kept
<1> QED
  BY <1>1, ReadHolds, PTL DEF Spec, NotModifiedIsCurrent

\* A line of a page, as the run reported it.
line(run, k) ==
    [image |-> run.image, cve |-> k[1], package |-> k[2],
     rank |-> run.report[k], last_seen_at |-> run.completed_at]

wanted_keys(run, severity) == {k \in DOMAIN run.report : wanted(run.report[k], severity)}

lines_of(run, severity) == {line(run, k) : k \in wanted_keys(run, severity)}

\* The rows of a request are what the run that it found reported: some of it, and
\* all of it while that run is current.
LEMMA RowsAreReported ==
    ASSUME TablesInv, NEW i \in Images, NEW p \in DOMAIN scan_run, scan_run[p].image = i,
           NEW severity
    PROVE  /\ image_cves_rows(i, p, severity) \subseteq lines_of(scan_run[p], severity)
           /\ image[i].current_scan_run_id = p =>
                  image_cves_rows(i, p, severity) = lines_of(scan_run[p], severity)
           /\ IsFiniteSet(image_cves_rows(i, p, severity))
<1>r. PICK run, rows, keys : /\ run = scan_run[p] /\ rows = image_cves_rows(i, p, severity)
                             /\ keys = wanted_keys(run, severity)
  OBVIOUS
<1>k. keys = {k \in DOMAIN run.report : wanted(run.report[k], severity)}
  BY <1>r DEF wanted_keys
<1> DEFINE K == {k \in DOMAIN finding[i] : /\ finding[i][k].last_seen_run_id = p
                                           /\ wanted(finding[i][k].severity_rank, severity)}
<1>1. rows = {shown(i, k) : k \in K}
  BY <1>r DEF image_cves_rows
<1>2. ASSUME NEW k \in K
      PROVE  k \in keys /\ shown(i, k) = line(run, k)
  <2>1. /\ k \in DOMAIN run.report /\ finding[i][k].severity_rank = run.report[k]
        /\ finding[i][k].last_seen_run_id = p
    BY <1>r, FindingFacts
  <2> QED
    BY <1>r, <1>k, <2>1 DEF shown, line
<1>3. K \subseteq DOMAIN finding[i]
  OBVIOUS
<1>4. IsFiniteSet(K)
  <2>1. run \in Run
    BY <1>r DEF TablesInv, RunsInv
  <2>2. run.report \in AnyReport
    BY <2>1 DEF Run
  <2>3. IsFiniteSet(DOMAIN run.report)
    BY <2>2, AnyReportFacts
  <2>4. K \in SUBSET DOMAIN run.report
    BY <1>k, <1>2
  <2> QED
    BY <2>3, <2>4, FS_Subset
<1>5. ASSUME image[i].current_scan_run_id = p
      PROVE  keys \subseteq K
  <2>1. p # NULL
    BY DEF TablesInv, RunsInv, NULL
  <2>2. \A k \in DOMAIN run.report : k \in DOMAIN finding[i] /\ finding[i][k].last_seen_run_id = p
    BY <1>r, <1>5, <2>1 DEF TablesInv, FindingsInv, is_whole
  <2>3. \A k \in DOMAIN run.report : finding[i][k].severity_rank = run.report[k]
    BY <1>r, <2>2, FindingFacts
  <2> QED
    BY <1>k, <2>2, <2>3
<1> HIDE DEF K
<1>6. IsFiniteSet(rows)
  BY <1>1, <1>3, <1>4, ShownOnce
<1>7. /\ rows \subseteq {line(run, k) : k \in keys}
      /\ image[i].current_scan_run_id = p => rows = {line(run, k) : k \in keys}
  BY <1>1, <1>2, <1>5
<1> QED
  BY <1>r, <1>6, <1>7 DEF lines_of

\* A page never mixes two scans, and is complete while its scan is the current
\* one (image_cves).
THEOREM PagesAreOfOneScan == Spec => PageIsOfOneScan
<1>1. TablesInv /\ ReadInv /\ [Next]_vars =>
      [at("image_cves", "rows") /\ request' = NoRequest =>
        LET run == scan_run[request.found]
            keys == {k \in DOMAIN run.report : wanted(run.report[k], request.url.severity)}
            reported == {[image |-> run.image, cve |-> k[1], package |-> k[2],
                          rank |-> run.report[k], last_seen_at |-> run.completed_at] : k \in keys}
            body == cache'.body
        IN /\ Range(body.items) \subseteq reported
           /\ image[request.url.subject].current_scan_run_id = request.found =>
                /\ body.total = Cardinality(reported)
                /\ \E s \in by_cve(reported) : body.items = page(s, request.url)]_vars
  <2> SUFFICES ASSUME TablesInv, ReadInv, [Next]_vars, at("image_cves", "rows"), request' = NoRequest
               PROVE  LET run == scan_run[request.found]
                          keys == {k \in DOMAIN run.report : wanted(run.report[k], request.url.severity)}
                          reported == {[image |-> run.image, cve |-> k[1], package |-> k[2],
                                        rank |-> run.report[k], last_seen_at |-> run.completed_at] : k \in keys}
                          body == cache'.body
                      IN /\ Range(body.items) \subseteq reported
                         /\ image[request.url.subject].current_scan_run_id = request.found =>
                              /\ body.total = Cardinality(reported)
                              /\ \E s \in by_cve(reported) : body.items = page(s, request.url)
    OBVIOUS
  <2>1. /\ request # NoRequest /\ request.step = "rows" /\ request.url.endpoint = "image_cves"
    BY DEF at, NoRequest
  <2>2. is_request(request) /\ is_paging(request)
    BY <2>1 DEF ReadInv
  <2>3. PICK i, p, url : i = request.url.subject /\ p = request.found /\ url = request.url
    OBVIOUS
  <2>4. /\ i \in Images /\ p \in DOMAIN scan_run /\ scan_run[p].image = i /\ url \in Urls
        /\ image[i].current_scan_run_id = p =>
               request.total = Cardinality(image_cves_rows(i, p, url.severity))
    BY <2>1, <2>2, <2>3 DEF is_paging, is_request
  <2>5. PICK rows : rows = image_cves_rows(i, p, url.severity)
    OBVIOUS
  <2>6. image_cves
    BY <2>1, RequestEnds DEF apply_freshness, list_images, list_cves, cve_images, at
  <2>7. PICK s \in by_cve(rows) : respond(request.total, page(s, url))
    BY <2>1, <2>3, <2>5, <2>6 DEF image_cves, at
  <2>8. PICK body : body = cache'.body
    OBVIOUS
  <2>9. body.total = request.total /\ body.items = page(s, url)
    BY <2>7, <2>8 DEF respond
  <2>10. PICK run : run = scan_run[p]
    OBVIOUS
  <2>11. PICK severity : severity = url.severity
    OBVIOUS
  <2>12. PICK reported : reported = lines_of(run, severity)
    OBVIOUS
  <2>13. /\ rows \subseteq reported /\ IsFiniteSet(rows)
         /\ image[i].current_scan_run_id = p => rows = reported
    BY <2>4, <2>5, <2>10, <2>11, <2>12, RowsAreReported
  <2>14. Range(body.items) \subseteq reported
    <3>1. s \in Seq(rows)
      BY <2>7, <2>13, ListingFacts DEF by_cve
    <3>2. \A n \in DOMAIN page(s, url) : page(s, url)[n] \in rows
      BY <2>4, <3>1, PageFacts
    <3> QED
      BY <2>9, <2>13, <3>2 DEF Range
  <2>15. ASSUME image[i].current_scan_run_id = p
         PROVE  /\ body.total = Cardinality(reported)
                /\ \E t \in by_cve(reported) : body.items = page(t, url)
    BY <2>4, <2>5, <2>7, <2>9, <2>13, <2>15
  <2>16. reported = {[image |-> run.image, cve |-> k[1], package |-> k[2],
                      rank |-> run.report[k], last_seen_at |-> run.completed_at] :
                         k \in {k \in DOMAIN run.report : wanted(run.report[k], severity)}}
    BY <2>12 DEF lines_of, wanted_keys, line
  <2> QED
    BY <2>3, <2>8, <2>10, <2>11, <2>14, <2>15, <2>16
<1> QED
  BY <1>1, ReadHolds, PTL DEF Spec, PageIsOfOneScan

-----------------------------------------------------------------------------
(* What the endpoints read from.                                           *)

in_force == [i \in Images |-> report_in_force(i)]

\* The report in force is the current findings of the image.
LEMMA InForce ==
    ASSUME NEW i \in Images
    PROVE  /\ in_force[i] = [k \in current_rows(finding, image, i) |-> finding[i][k].severity_rank]
           /\ DOMAIN in_force[i] = current_rows(finding, image, i)
           /\ \A k \in DOMAIN in_force[i] : in_force[i][k] = finding[i][k].severity_rank
  BY DEF in_force, report_in_force

\* The worst of some ranks is their maximum.
LEMMA WorstIsMax ==
    ASSUME NEW S, S \subseteq 0..4, S # {}
    PROVE  Served!worst(S) = Max(S)
<1>1. PICK a : a = Max(S)
  OBVIOUS
<1>2. a \in S /\ \A y \in S : y <= a
  BY <1>1, MaxOfRanks
<1>3. Served!worst(S) \in S /\ \A y \in S : y <= Served!worst(S)
  BY <1>2 DEF Served!worst
<1>4. Served!worst(S) <= a /\ a <= Served!worst(S) /\ a \in 0..4 /\ Served!worst(S) \in 0..4
  BY <1>2, <1>3
<1> QED
  BY <1>1, <1>4

\* The rows that the rollup joins are the images that carry the CVE in force.
LEMMA RollupOfForce ==
    ASSUME TablesInv, NEW c
    PROVE  /\ {r[1] : r \in live(c, finding, image)} = Served!carriers(in_force, c)
           /\ {finding[r[1]][r[2]].severity_rank : r \in live(c, finding, image)}
                 = Served!severities(in_force, c)
           /\ Served!severities(in_force, c) \subseteq 0..4
           /\ Served!carriers(in_force, c) # {} <=> Served!severities(in_force, c) # {}
<1> DEFINE L == live(c, finding, image)
           hit == {r[1] : r \in L}
           ranks == {finding[r[1]][r[2]].severity_rank : r \in L}
           of(i) == {k \in DOMAIN in_force[i] : k[1] = c}
<1>1. ASSUME NEW i \in Images, NEW k \in of(i)
      PROVE  /\ <<i, k>> \in L /\ in_force[i][k] = finding[i][k].severity_rank
             /\ in_force[i][k] \in 0..4
  <2>1. k \in current_rows(finding, image, i) /\ k[1] = c /\ in_force[i][k] = finding[i][k].severity_rank
    BY InForce
  <2>2. finding[i][k].severity_rank \in 0..4
    BY <2>1, FindingFacts DEF current_rows
  <2>3. <<i, k>> \in L
    BY <2>1, LiveRow
  <2> QED
    BY <2>1, <2>2, <2>3
<1>2. ASSUME NEW r \in L
      PROVE  /\ r[1] \in Images /\ r[2] \in of(r[1])
             /\ in_force[r[1]][r[2]] = finding[r[1]][r[2]].severity_rank
  <2>1. PICK i \in Images : \E k \in current_rows(finding, image, i) : k[1] = c /\ r = <<i, k>>
    BY LiveRow
  <2>2. r[1] = i /\ r[2] \in current_rows(finding, image, i) /\ r[2][1] = c
    BY <2>1
  <2> QED
    BY <2>2, InForce
<1> HIDE DEF L, of
<1>3. hit = Served!carriers(in_force, c)
  <2>1. \A i : i \in Served!carriers(in_force, c) <=> i \in Images /\ \E k : k \in of(i)
    BY DEF Served!carriers, of
  <2>2. ASSUME NEW i \in Images, NEW k \in of(i) PROVE i \in hit
    <3>1. <<i, k>> \in L /\ <<i, k>>[1] = i
      BY <1>1
    <3> QED
      BY <3>1
  <2>3. \A i \in hit : i \in Images /\ \E k : k \in of(i)
    BY <1>2
  <2> QED
    BY <2>1, <2>2, <2>3
<1>4. ranks = Served!severities(in_force, c)
  <2>1. \A r : r \in Served!severities(in_force, c) <=>
                 \E i \in Images : \E k \in of(i) : r = in_force[i][k]
    BY DEF Served!severities, of
  <2>2. ASSUME NEW i \in Images, NEW k \in of(i) PROVE in_force[i][k] \in ranks
    <3> DEFINE x == <<i, k>>
    <3>1. x \in L /\ x[1] = i /\ x[2] = k
      BY <1>1
    <3>2. in_force[i][k] = finding[x[1]][x[2]].severity_rank
      BY <1>1, <3>1
    <3> HIDE DEF x
    <3> QED
      BY <3>1, <3>2
  <2>3. \A r \in Served!severities(in_force, c) : r \in ranks
    <3> HIDE DEF ranks
    <3> QED
      BY <2>1, <2>2
  <2>4. \A r \in ranks : r \in Served!severities(in_force, c)
    BY <1>2, <2>1
  <2> HIDE DEF ranks
  <2> QED
    BY <2>3, <2>4
<1>5. Served!severities(in_force, c) \subseteq 0..4
  <2>1. \A r \in Served!severities(in_force, c) :
            \E i \in Images : \E k \in of(i) : r = in_force[i][k]
    BY DEF Served!severities, of
  <2> QED
    BY <1>1, <2>1
<1>6. Served!carriers(in_force, c) # {} <=> Served!severities(in_force, c) # {}
  <2>1. (hit # {} <=> L # {}) /\ (ranks # {} <=> L # {})
    OBVIOUS
  <2> HIDE DEF hit, ranks
  <2> QED
    BY <1>3, <1>4, <2>1
<1> QED
  BY <1>3, <1>4, <1>5, <1>6 DEF L

\* GET /api/cves lists what the reports in force make.
LEMMA ListingIsExact ==
    ASSUME TablesInv, CveInv
    PROVE  list_cves_rows(NULL) = Served!listing_of(in_force)
<1> DEFINE sev(c) == Served!severities(in_force, c)
           car(c) == Served!carriers(in_force, c)
           listed == {c \in DOMAIN cve : cve[c].affected_image_count > 0}
<1>1. ASSUME NEW c
      PROVE  Cardinality(car(c)) \in Nat /\ (Cardinality(car(c)) > 0 <=> car(c) # {})
  <2>1. car(c) \subseteq Images
    BY DEF Served!carriers
  <2> HIDE DEF car
  <2>2. IsFiniteSet(car(c))
    BY <2>1, ApiAssumption, FS_Subset
  <2> QED
    BY <2>2, FS_CardinalityType, FS_EmptySet
<1>2. ASSUME NEW c \in DOMAIN cve
      PROVE  /\ cve[c].max_severity_rank = Max({0} \cup sev(c))
             /\ cve[c].affected_image_count = Cardinality(car(c))
  <2>1. cve[c] = rollup_row(c, finding, image)
    BY DEF CveInv
  <2>2. rollup_row(c, finding, image) =
            [max_severity_rank |-> Max({0} \cup sev(c)), affected_image_count |-> Cardinality(car(c))]
    BY RollupOfForce DEF rollup_row
  <2> HIDE DEF sev, car
  <2> QED
    BY <2>1, <2>2
<1>3. ASSUME NEW c \in Served!carried(in_force) PROVE c \in DOMAIN cve /\ car(c) # {}
  <2>1. PICK i \in Images : \E k \in DOMAIN in_force[i] : c = k[1]
    BY DEF Served!carried
  <2>2. c \in DOMAIN cve
    <3>1. PICK k \in current_rows(finding, image, i) : c = k[1]
      BY <2>1, InForce
    <3> QED
      BY <3>1 DEF CveInv
  <2>3. i \in car(c)
    BY <2>1 DEF Served!carriers
  <2> QED
    BY <2>2, <2>3
<1>4. ASSUME NEW c, car(c) # {} PROVE c \in Served!carried(in_force)
  BY <1>4 DEF Served!carriers, Served!carried
<1>5. listed = Served!carried(in_force)
  <2> HIDE DEF car, sev
  <2>1. ASSUME NEW c \in listed PROVE c \in Served!carried(in_force)
    BY <1>1, <1>2, <1>4
  <2>2. ASSUME NEW c \in Served!carried(in_force) PROVE c \in listed
    BY <1>1, <1>2, <1>3
  <2> QED
    BY <2>1, <2>2
<1>6. ASSUME NEW c \in listed
      PROVE  [cve |-> c, rank |-> cve[c].max_severity_rank, images |-> cve[c].affected_image_count]
             = [cve |-> c, rank |-> Served!worst(sev(c)), images |-> Cardinality(car(c))]
  <2>1. c \in DOMAIN cve /\ car(c) # {}
    BY <1>3, <1>5
  <2>2. sev(c) \subseteq 0..4 /\ sev(c) # {}
    BY <2>1, RollupOfForce
  <2> HIDE DEF sev, car
  <2>3. Max({0} \cup sev(c)) = Served!worst(sev(c))
    BY <2>2, WorstIsMax, MaxOverZero
  <2> QED
    BY <1>2, <2>1, <2>3
<1>7. list_cves_rows(NULL) =
          {[cve |-> c, rank |-> cve[c].max_severity_rank, images |-> cve[c].affected_image_count] :
              c \in listed}
  BY DEF list_cves_rows, wanted
<1>8. Served!listing_of(in_force) =
          {[cve |-> c, rank |-> Served!worst(sev(c)), images |-> Cardinality(car(c))] :
              c \in Served!carried(in_force)}
  BY DEF Served!listing_of, Served!Cardinality, Cardinality
<1> DEFINE shown_line(c) == [cve |-> c, rank |-> cve[c].max_severity_rank,
                             images |-> cve[c].affected_image_count]
           said(c) == [cve |-> c, rank |-> Served!worst(sev(c)), images |-> Cardinality(car(c))]
<1>9. \A c \in listed : shown_line(c) = said(c)
  BY <1>6
<1>10. {shown_line(c) : c \in listed} = {said(c) : c \in listed}
  <2> HIDE DEF listed, shown_line, said
  <2> QED
    BY <1>9
<1> HIDE DEF listed, sev, car
<1> QED
  BY <1>5, <1>7, <1>8, <1>10

\* The same of every state, so that it can be said of the next one.
LEMMA ListingHolds == TablesInv /\ CveInv => list_cves_rows(NULL) = Served!listing_of(in_force)
  BY ListingIsExact

\* A step that leaves findings, images and table cve leaves what is read.
LEMMA NothingIsServed ==
    ASSUME UNCHANGED <<finding, cve, image>>
    PROVE  UNCHANGED <<in_force, list_cves_rows(NULL)>>
<1>1. \A i \in Images : report_in_force(i)' = report_in_force(i)
  BY DEF report_in_force, current_rows
<1> QED
  BY <1>1 DEF in_force, list_cves_rows

\* A commit leaves the reports of the other images.
LEMMA CommitElsewhere ==
    ASSUME TablesInv, NEW i \in Images, NEW time, NEW result, NEW run, NEW l,
           commits(i, time, result, run, l), NEW j \in Images, j # i
    PROVE  in_force'[j] = in_force[j]
<1>1. /\ current_rows(finding', image', j) = current_rows(finding, image, j)
      /\ finding'[j] = finding[j]
  BY CommitCurrentRows DEF commits
<1>2. in_force'[j] = [k \in current_rows(finding', image', j) |-> finding'[j][k].severity_rank]
  BY DEF in_force, report_in_force, current_rows
<1> QED
  BY <1>1, <1>2, InForce

\* commit puts a report in the place of another, or leaves what is read.
LEMMA CommitServes ==
    ASSUME TablesInv, TablesInv', CveInv', NEW i \in Images, commit(i)
    PROVE  \/ UNCHANGED <<in_force, list_cves_rows(NULL)>>
           \/ \E report \in Reports :
                /\ in_force' = [in_force EXCEPT ![i] = report]
                /\ list_cves_rows(NULL)' = Served!listing_of(in_force')
<1>1. PICK time, result, run, l : commits(i, time, result, run, l)
  BY CommitFacts
<1>2. inserts(i, time, result, run, l)
  BY <1>1, CommitRun
<1>3. \A j \in Images : j # i => in_force'[j] = in_force[j]
  BY <1>1, CommitElsewhere
<1>4. in_force'[i] = [k \in current_rows(finding', image', i) |-> finding'[i][k].severity_rank]
  BY DEF in_force, report_in_force, current_rows
<1>5. DOMAIN in_force = Images /\ in_force = [j \in Images |-> in_force[j]]
      /\ in_force' = [j \in Images |-> in_force'[j]]
  BY DEF in_force
<1>6. CASE result.status = "success"
  <2>1. result.report \in Reports
    <3>1. scanning[i] = result /\ result \in Results(time)
      BY <1>1 DEF commits
    <3> QED
      BY <1>6, <3>1 DEF Results
  <2>2. /\ current_rows(finding', image', i) = DOMAIN result.report
        /\ \A k \in DOMAIN result.report : finding'[i][k].severity_rank = result.report[k]
    <3>1. is_upsert(finding'[i], finding[i], result.report, l)
      BY <1>1 DEF commits
    <3>2. current_rows(finding', image', i) = DOMAIN result.report
      BY <1>1, <1>6, CommitCurrentRows
    <3> QED
      BY <3>1, <3>2 DEF is_upsert
  <2>3. in_force'[i] = result.report
    <3>1. result.report = [k \in DOMAIN result.report |-> result.report[k]]
      BY <2>1, ApiAssumption
    <3> QED
      BY <1>4, <2>2, <3>1
  <2>4. (TablesInv /\ CveInv => list_cves_rows(NULL) = Served!listing_of(in_force))'
    BY ListingHolds, PTL
  <2>5. in_force' = [in_force EXCEPT ![i] = result.report]
    BY <1>3, <1>5, <2>3
  <2> QED
    BY <2>1, <2>4, <2>5
<1>7. CASE result.status # "success"
  <2>1. /\ current_rows(finding', image', i) = current_rows(finding, image, i)
        /\ \A k \in DOMAIN finding[i] : finding'[i][k] = finding[i][k]
    BY <1>1, <1>7, CommitCurrentRows
  <2>2. \A k \in current_rows(finding, image, i) : k \in DOMAIN finding[i]
    BY DEF current_rows
  <2>3. in_force'[i] = in_force[i]
    BY <1>4, <2>1, <2>2, InForce
  <2>4. in_force' = in_force
    BY <1>3, <1>5, <2>3
  <2>5. DOMAIN cve' = DOMAIN cve /\ \A c \in DOMAIN cve : cve'[c] = cve[c]
    BY <1>1, <1>7, CommitCve
  <2> QED
    BY <2>4, <2>5 DEF list_cves_rows
<1> QED
  BY <1>6, <1>7

\* What the endpoints read from implements Inventory, whenever runs commit, where
\* scans that drop a CVE are written alone:
\* each step replaces one image's whole report, and the list of CVEs with it,
\* or shows a reader nothing (commit, list_cves; failures and skips leave all
\* findings current).
THEOREM EndpointsReadInventory == ASSUME DropsAlone PROVE Spec => ImplementsInventory
<1>1. Init => Served!Init
  <2> SUFFICES ASSUME Init PROVE Served!Init
    OBVIOUS
  <2>1. ASSUME NEW i \in Images PROVE report_in_force(i) = <<>>
    <3>1. current_rows(finding, image, i) = {}
      BY DEF Init, current_rows
    <3> QED
      BY <3>1 DEF report_in_force
  <2>2. list_cves_rows(NULL) = {}
    BY DEF Init, list_cves_rows
  <2> QED
    BY <2>1, <2>2 DEF Served!Init
<1>2. TablesInv /\ TablesInv' /\ RollupInv' /\ [Next]_vars => [Served!Next]_<<in_force, list_cves_rows(NULL)>>
  <2> SUFFICES ASSUME TablesInv, TablesInv', RollupInv', [Next]_vars
               PROVE  [Served!Next]_<<in_force, list_cves_rows(NULL)>>
    OBVIOUS
  <2>1. CASE UNCHANGED <<finding, cve, image>>
    BY <2>1, NothingIsServed
  <2>2. ASSUME NEW i \in Images, commit(i)
        PROVE  [Served!Next]_<<in_force, list_cves_rows(NULL)>>
    BY <2>2, CommitServes DEF RollupInv, Served!Next, Served!replace, in_force
  <2>3. \/ UNCHANGED <<finding, cve, image>>
        \/ \E i \in Images : commit(i)
    BY ReadersLeaveTables DEF Next, vars, tables, tick, complete, record_success, roll_back
  <2> QED
    BY <2>1, <2>2, <2>3
<1> QED
  BY <1>1, <1>2, RollupHolds, PTL DEF Spec, ImplementsInventory, Served!Spec, in_force
=============================================================================
