---------------------------- MODULE RollupProofs ----------------------------
(***************************************************************************)
(* The rollup on table cve (_recompute_cve_rollup) under the condition that *)
(* makes it right: a scan that drops a CVE of its image overlaps with no    *)
(* other (DropsAlone).  Then what a transaction holds locked covers         *)
(* everything it recomputes, its snapshot cannot grow stale, and the tables *)
(* implement Inventory.                                                     *)
(***************************************************************************)
EXTENDS PersistProofs

reported(t) == cves_in(DOMAIN t.report)

\* The rows of cve that transaction t holds: only such as it recomputes, and
\* once _upsert_cves is past them all that it reports.
locks(t) ==
    /\ DOMAIN t.cve \subseteq t.affected
    /\ t.phase = "cves" => reported(t) \ t.todo \subseteq DOMAIN t.cve
    /\ t.phase \in {"rollup_start", "rollup"} => reported(t) \subseteq DOMAIN t.cve

\* The sub-select of transaction i is what it would be now, and a row that the
\* UPDATE need not visit, or has visited, has its values.
recomputed(i) ==
    txn[i].phase = "rollup" =>
        \A c \in txn[i].affected :
            /\ txn[i].sub[c] = sub_select(i, c)
            /\ c \notin txn[i].todo => row_of(i, c) = txn[i].sub[c]

\* Two transactions have no locked row in common, and neither drops a CVE.
apart(t, u) ==
    /\ DOMAIN t.cve \cap DOMAIN u.cve = {}
    /\ ~drops(t.affected, t.report)
    /\ ~drops(u.affected, u.report)

RollupInv ==
    /\ PersistInv
    /\ \A i \in Images : open(i) => locks(txn[i])
    /\ \A i \in Images : open(i) => recomputed(i)
    /\ \A i, j \in Images : i # j /\ open(i) /\ open(j) => apart(txn[i], txn[j])
    /\ \A i \in Images : _current_cve_ids(i) \subseteq DOMAIN cve
    /\ RollupIsExact

-----------------------------------------------------------------------------
(* What the sub-select depends on.                                         *)

\* The rollup of c depends on which findings of c are current, and on their
\* severities.
LEMMA RollupSame ==
    ASSUME NEW f, NEW g, NEW m, NEW n, NEW c,
           \A i \in Images : \A p \in Packages :
               /\ is_current(f[i], m[i], <<c, p>>) <=> is_current(g[i], n[i], <<c, p>>)
               /\ is_current(f[i], m[i], <<c, p>>) =>
                     f[i][<<c, p>>].severity_rank = g[i][<<c, p>>].severity_rank
    PROVE  rollup(f, m, c) = rollup(g, n, c)
<1> DEFINE live(r, cur) == {x \in Images \X Packages :
                               is_current(r[x[1]], cur[x[1]], <<c, x[2]>>)}
           ranks(r, cur) == {r[x[1]][<<c, x[2]>>].severity_rank : x \in live(r, cur)}
<1>1. live(f, m) = live(g, n)
  OBVIOUS
<1>2. \A x \in live(f, m) :
          f[x[1]][<<c, x[2]>>].severity_rank = g[x[1]][<<c, x[2]>>].severity_rank
  OBVIOUS
<1> HIDE DEF live
<1>3. ranks(f, m) = ranks(g, n)
  BY <1>1, <1>2
<1>4. /\ rollup(f, m, c) = [max_severity_rank |-> highest(ranks(f, m)),
                            affected_image_count |-> Cardinality({x[1] : x \in live(f, m)})]
      /\ rollup(g, n, c) = [max_severity_rank |-> highest(ranks(g, n)),
                            affected_image_count |-> Cardinality({x[1] : x \in live(g, n)})]
  BY DEF rollup, live
<1> HIDE DEF ranks
<1> QED
  BY <1>1, <1>3, <1>4

\* A CVE that no current finding of the image names has no current finding: the
\* NULL pointer of an image without a success is no run's id.
LEMMA NoCurrentFinding ==
    ASSUME PersistInv, NEW i \in Images, NEW c, c \notin _current_cve_ids(i), NEW p
    PROVE  ~is_current(finding[i], image[i], <<c, p>>)
<1> SUFFICES ASSUME is_current(finding[i], image[i], <<c, p>>) PROVE FALSE
  OBVIOUS
<1> DEFINE k == <<c, p>>
<1>1. k \in DOMAIN finding[i] /\ finding[i][k].last_seen_run_id = image[i]
  BY DEF is_current
<1>2. image[i] \in seen(scan_run[i], k) /\ scan_run[i] \in Seq(ScanRun)
  BY <1>1 DEF PersistInv, TypeOK, is_history
<1>3. image[i] # NULL
  BY <1>2 DEF seen, succeeded, NULL
<1>4. k \in current_keys(finding[i], image[i]) /\ k[1] = c
  BY <1>1 DEF current_keys
<1> HIDE DEF k
<1> QED
  BY <1>3, <1>4 DEF _current_cve_ids, cves_in

\* A current finding's CVE is among the image's current CVEs.
LEMMA CurrentFinding ==
    ASSUME PersistInv, NEW i \in Images, NEW k \in current_keys(finding[i], image[i])
    PROVE  k[1] \in _current_cve_ids(i)
<1>1. k \in DOMAIN finding[i] /\ finding[i][k].last_seen_run_id = image[i]
  BY DEF current_keys
<1>2. image[i] \in seen(scan_run[i], k) /\ scan_run[i] \in Seq(ScanRun)
  BY <1>1 DEF PersistInv, TypeOK, is_history
<1>3. image[i] # NULL
  BY <1>2 DEF seen, succeeded, NULL
<1> QED
  BY <1>3 DEF _current_cve_ids, cves_in

-----------------------------------------------------------------------------
(* Steps.                                                                  *)

\* A step of transaction i that commits nothing.
LEMMA TxnRollupStep ==
    ASSUME RollupInv, PersistInv', NEW i \in Images, NEW t, txn' = [txn EXCEPT ![i] = t],
           t # Idle => locks(t),
           t # Idle => recomputed(i)',
           t # Idle => \A j \in Images : j # i /\ open(j) => apart(t, txn[j]),
           UNCHANGED <<finding, cve, package, image, scan_run>>
    PROVE  RollupInv'
<1>1. /\ txn'[i] = t
      /\ \A j \in Images : j # i => txn'[j] = txn[j]
  BY DEF RollupInv, PersistInv, TypeOK
<1>2. ASSUME NEW j \in Images, j # i, open(j)'
      PROVE  open(j) /\ locks(txn[j])' /\ recomputed(j)'
  <2>1. open(j) /\ txn'[j] = txn[j]
    BY <1>1, <1>2 DEF open
  <2>2. locks(txn[j]) /\ recomputed(j)
    BY <2>1 DEF RollupInv
  <2>3. \A c : row_of(j, c)' = row_of(j, c)
    BY <2>1 DEF row_of, holds, open
  <2>4. \A c : sub_select(j, c)' = sub_select(j, c)
    BY <2>1 DEF sub_select, run_id
  <2> QED
    BY <2>1, <2>2, <2>3, <2>4 DEF recomputed
<1>3. \A j \in Images : open(j)' => locks(txn[j])'
  BY <1>1, <1>2 DEF open
<1>4. \A j \in Images : open(j)' => recomputed(j)'
  BY <1>1, <1>2 DEF open
<1>5. ASSUME NEW j \in Images, NEW k \in Images, j # k, open(j)', open(k)'
      PROVE  apart(txn'[j], txn'[k])
  <2>1. CASE j = i
    BY <1>1, <1>2, <1>5, <2>1 DEF open
  <2>2. CASE k = i
    BY <1>1, <1>2, <1>5, <2>2 DEF open, apart
  <2>3. CASE j # i /\ k # i
    BY <1>1, <1>2, <1>5, <2>3 DEF RollupInv
  <2> QED
    BY <2>1, <2>2, <2>3
<1>6. \A j \in Images : (_current_cve_ids(j))' = _current_cve_ids(j)
  BY DEF _current_cve_ids
<1>7. RollupIsExact'
  BY DEF RollupInv, RollupIsExact
<1>8. \A j \in Images : (_current_cve_ids(j) \subseteq DOMAIN cve)'
  BY <1>6 DEF RollupInv
<1> QED
  BY <1>3, <1>4, <1>5, <1>7, <1>8 DEF RollupInv

\* The step begin: a scan that drops a CVE finds no transaction open, and no
\* scan begins while such a transaction is open.
LEMMA BeginRollup ==
    ASSUME DropsAlone, RollupInv, PersistInv', NEW i \in Images, NEW report \in ParsedReport,
           begin(i, report)
    PROVE  RollupInv'
<1> DEFINE t == [phase |-> "packages", report |-> report,
                 affected |-> _current_cve_ids(i) \cup cves_in(DOMAIN report),
                 package |-> {}, cve |-> <<>>, finding |-> <<>>,
                 count |-> [r \in Ranks |-> 0], sub |-> <<>>, todo |-> {}, want |-> nobody]
<1>1. may_begin(i, report)
  BY DEF begin
<1>2. txn' = [txn EXCEPT ![i] = t] /\ UNCHANGED <<finding, cve, package, image, scan_run>>
  BY DEF begin
<1>3. /\ t.phase = "packages" /\ t.report = report /\ t.cve = <<>>
      /\ t.affected = _current_cve_ids(i) \cup cves_in(DOMAIN report)
  OBVIOUS
<1> HIDE DEF t
<1>4. DOMAIN t.cve = {}
  BY <1>3
<1>5. locks(t)
  BY <1>3, <1>4 DEF locks
<1>6. ASSUME NEW j \in Images, j # i, open(j) PROVE apart(t, txn[j])
  BY <1>1, <1>3, <1>4, <1>6 DEF may_begin, drops, apart
<1>7. recomputed(i)'
  <2>1. txn'[i] = t
    BY <1>2 DEF RollupInv, PersistInv, TypeOK
  <2> QED
    BY <1>3, <2>1 DEF recomputed
<1> QED
  BY <1>2, <1>5, <1>6, <1>7, TxnRollupStep

\* A step of an open transaction that locks no row and commits nothing.
LEMMA NoLockStep ==
    ASSUME RollupInv, PersistInv', NEW i \in Images, open(i),
           NEW t, txn' = [txn EXCEPT ![i] = t],
           t.report = txn[i].report, t.affected = txn[i].affected, t.cve = txn[i].cve,
           locks(t), recomputed(i)',
           UNCHANGED <<finding, cve, package, image, scan_run>>
    PROVE  RollupInv'
<1>1. ASSUME NEW j \in Images, j # i, open(j) PROVE apart(t, txn[j])
  BY <1>1 DEF RollupInv, apart
<1> QED
  BY <1>1, TxnRollupStep

\* The packages are there.
LEMMA UpsertPackagesRollup ==
    ASSUME RollupInv, PersistInv', NEW i \in Images, _upsert_packages(i)
    PROVE  RollupInv'
<1> DEFINE t == [txn[i] EXCEPT !.phase = "cves",
                               !.package = packages_in(DOMAIN txn[i].report) \ package,
                               !.todo = cves_in(DOMAIN txn[i].report)]
<1>1. open(i) /\ txn[i] \in Txn /\ locks(txn[i]) /\ DOMAIN txn = Images
  BY DEF _upsert_packages, in_phase, RollupInv, PersistInv, sound, well_formed, TypeOK
<1>2. txn' = [txn EXCEPT ![i] = t] /\ UNCHANGED <<finding, cve, package, image, scan_run>>
  BY DEF _upsert_packages
<1>3. /\ t.phase = "cves" /\ t.report = txn[i].report /\ t.affected = txn[i].affected
      /\ t.todo = cves_in(DOMAIN txn[i].report) /\ t.cve = txn[i].cve
  BY <1>1 DEF Txn
<1> HIDE DEF t
<1>4. locks(t)
  BY <1>1, <1>3 DEF locks, reported
<1>5. recomputed(i)'
  BY <1>1, <1>2, <1>3 DEF recomputed
<1> QED
  BY <1>1, <1>2, <1>3, <1>4, <1>5, NoLockStep

\* A statement waits.
LEMMA WaitRollup ==
    ASSUME RollupInv, PersistInv', NEW i \in Images, NEW c \in Cves, wait_for_row(i, c)
    PROVE  RollupInv'
<1> DEFINE t == [txn[i] EXCEPT !.want = c]
<1>1. open(i) /\ txn[i] \in Txn /\ locks(txn[i]) /\ recomputed(i) /\ DOMAIN txn = Images
  BY DEF wait_for_row, next_row, RollupInv, PersistInv, sound, well_formed, TypeOK
<1>2. txn' = [txn EXCEPT ![i] = t] /\ UNCHANGED <<finding, cve, package, image, scan_run>>
  BY DEF wait_for_row
<1>3. /\ t.phase = txn[i].phase /\ t.report = txn[i].report /\ t.affected = txn[i].affected
      /\ t.todo = txn[i].todo /\ t.cve = txn[i].cve /\ t.sub = txn[i].sub
      /\ t.finding = txn[i].finding /\ t # Idle
  BY <1>1 DEF Txn, Idle
<1> HIDE DEF t
<1>4. locks(t)
  BY <1>1, <1>3 DEF locks, reported
<1>5. txn'[i] = t
  BY <1>1, <1>2
<1>6. \A d : row_of(i, d)' = row_of(i, d)
  BY <1>1, <1>2, <1>3, <1>5 DEF row_of, holds, open
<1>7. \A d : sub_select(i, d)' = sub_select(i, d)
  BY <1>2, <1>3, <1>5 DEF sub_select, run_id
<1>8. recomputed(i)'
  BY <1>1, <1>3, <1>5, <1>6, <1>7 DEF recomputed
<1> QED
  BY <1>1, <1>2, <1>3, <1>4, <1>8, NoLockStep

\* The findings are written: the UPDATE is still to come.
LEMMA UpsertFindingsRollup ==
    ASSUME RollupInv, PersistInv', NEW i \in Images, _upsert_findings(i)
    PROVE  RollupInv'
<1> DEFINE new == upserted(finding[i], written(i), txn[i].report, run_id(i))
           total == [r \in Ranks |-> Cardinality({k \in written(i) : txn[i].report[k] = r})]
           t == [txn[i] EXCEPT !.phase = "rollup_start", !.finding = new, !.count = total]
<1>1. /\ open(i) /\ txn[i] \in Txn /\ locks(txn[i]) /\ DOMAIN txn = Images
      /\ txn[i].phase = "cves" /\ txn[i].todo = {}
  BY DEF _upsert_findings, in_phase, RollupInv, PersistInv, sound, well_formed, TypeOK
<1>2. txn' = [txn EXCEPT ![i] = t] /\ UNCHANGED <<finding, cve, package, image, scan_run>>
  BY DEF _upsert_findings
<1> HIDE DEF new, total
<1>3. /\ t.phase = "rollup_start" /\ t.report = txn[i].report /\ t.affected = txn[i].affected
      /\ t.cve = txn[i].cve
  BY <1>1 DEF Txn
<1> HIDE DEF t
<1>4. locks(t)
  BY <1>1, <1>3 DEF locks, reported
<1>5. recomputed(i)'
  BY <1>1, <1>2, <1>3 DEF recomputed
<1> QED
  BY <1>1, <1>2, <1>3, <1>4, <1>5, NoLockStep

\* The sub-select is computed.
LEMMA StartRollupRollup ==
    ASSUME RollupInv, PersistInv', NEW i \in Images, start_rollup(i)
    PROVE  RollupInv'
<1> DEFINE sub == [c \in txn[i].affected |-> sub_select(i, c)]
           todo == {c \in txn[i].affected : row_of(i, c) # sub_select(i, c)}
           t == [txn[i] EXCEPT !.phase = "rollup", !.sub = sub, !.todo = todo]
<1>1. /\ open(i) /\ txn[i] \in Txn /\ locks(txn[i]) /\ DOMAIN txn = Images
      /\ txn[i].phase = "rollup_start"
  BY DEF start_rollup, in_phase, RollupInv, PersistInv, sound, well_formed, TypeOK
<1>2. txn' = [txn EXCEPT ![i] = t] /\ UNCHANGED <<finding, cve, package, image, scan_run>>
  BY DEF start_rollup
<1>3. \A c \in txn[i].affected : /\ sub[c] = sub_select(i, c)
                                 /\ c \notin todo => row_of(i, c) = sub[c]
  OBVIOUS
<1> HIDE DEF sub, todo
<1>4. /\ t.phase = "rollup" /\ t.report = txn[i].report /\ t.affected = txn[i].affected
      /\ t.cve = txn[i].cve /\ t.finding = txn[i].finding /\ t.sub = sub /\ t.todo = todo
      /\ t # Idle
  BY <1>1 DEF Txn, Idle
<1> HIDE DEF t
<1>5. locks(t)
  BY <1>1, <1>4 DEF locks, reported
<1>6. txn'[i] = t
  BY <1>1, <1>2
<1>7. \A d : row_of(i, d)' = row_of(i, d)
  BY <1>1, <1>2, <1>4, <1>6 DEF row_of, holds, open
<1>8. \A d : sub_select(i, d)' = sub_select(i, d)
  BY <1>2, <1>4, <1>6 DEF sub_select, run_id
<1>9. recomputed(i)'
  BY <1>3, <1>4, <1>6, <1>7, <1>8 DEF recomputed
<1> QED
  BY <1>1, <1>2, <1>4, <1>5, <1>9, NoLockStep

\* A row that no other transaction holds is locked, and the UPDATE gives it the
\* values of the sub-select.
LEMMA VisitRollup ==
    ASSUME RollupInv, PersistInv', NEW i \in Images, open(i), NEW c \in txn[i].todo,
           lock_free(i, c), NEW row \in Cve,
           txn[i].phase = "rollup" => row = txn[i].sub[c],
           txn' = [txn EXCEPT ![i] = visited(i, c, row)],
           UNCHANGED <<finding, cve, package, image, scan_run>>
    PROVE  RollupInv'
<1> DEFINE t == visited(i, c, row)
<1>1. /\ txn[i] \in Txn /\ locks(txn[i]) /\ recomputed(i) /\ DOMAIN txn = Images
      /\ txn[i].todo \subseteq txn[i].affected /\ c \in Cves
  BY DEF RollupInv, PersistInv, sound, well_formed, TypeOK, Txn
<1>2. /\ t.cve = put(txn[i].cve, c, row) /\ t.todo = txn[i].todo \ {c}
      /\ t.phase = txn[i].phase /\ t.report = txn[i].report
      /\ t.affected = txn[i].affected /\ t.finding = txn[i].finding /\ t.sub = txn[i].sub
      /\ t \in Txn
  BY <1>1, VisitedFacts
<1>3. t # Idle
  BY <1>2 DEF Txn, Idle
<1>4. txn'[i] = t
  BY <1>1
<1> HIDE DEF t
<1>5. /\ DOMAIN t.cve = DOMAIN txn[i].cve \cup {c}
      /\ t.cve[c] = row
      /\ \A d \in DOMAIN txn[i].cve : d # c => t.cve[d] = txn[i].cve[d]
  <2>1. txn[i].cve \in Rows(Cves, Cve)
    BY <1>1 DEF Txn
  <2>2. /\ DOMAIN put(txn[i].cve, c, row) = DOMAIN txn[i].cve \cup {c}
        /\ put(txn[i].cve, c, row)[c] = row
        /\ \A d \in DOMAIN txn[i].cve : d # c => put(txn[i].cve, c, row)[d] = txn[i].cve[d]
    BY <1>1, <2>1, PutType
  <2> QED
    BY <1>2, <2>2
<1>6. locks(t)
  BY <1>1, <1>2, <1>5 DEF locks, reported
<1>7. ASSUME NEW j \in Images, j # i, open(j) PROVE apart(t, txn[j])
  <2>1. apart(txn[i], txn[j]) /\ c \notin DOMAIN txn[j].cve
    BY <1>7 DEF RollupInv, lock_free, holds
  <2> QED
    BY <1>2, <1>5, <2>1 DEF apart
<1>8. \A d : sub_select(i, d)' = sub_select(i, d)
  BY <1>2, <1>4 DEF sub_select, run_id
<1>9. \A d : d # c => row_of(i, d)' = row_of(i, d)
  BY <1>3, <1>4, <1>5 DEF row_of, holds, open
<1>10. row_of(i, c)' = row
  BY <1>3, <1>4, <1>5 DEF row_of, holds, open
<1>11. recomputed(i)'
  BY <1>1, <1>2, <1>4, <1>8, <1>9, <1>10 DEF recomputed
<1>12. txn' = [txn EXCEPT ![i] = t]
  BY DEF t
<1> QED
  BY <1>6, <1>7, <1>11, <1>12, TxnRollupStep

\* The rows of _upsert_cves and of the UPDATE.
LEMMA RowsRollup ==
    ASSUME RollupInv, PersistInv', NEW i \in Images, NEW c \in Cves,
           _upsert_cves(i, c) \/ _recompute_cve_rollup(i, c)
    PROVE  RollupInv'
<1>1. PersistInv
  BY DEF RollupInv
<1>2. CASE _upsert_cves(i, c)
  <2> DEFINE row == IF c \in DOMAIN cve THEN cve[c] ELSE new_cve
  <2>1. row \in Cve
    BY <1>1 DEF PersistInv, TypeOK, partial, new_cve, Cve
  <2>2. txn' = [txn EXCEPT ![i] = visited(i, c, row)]
    BY <1>2 DEF _upsert_cves
  <2>3. /\ open(i) /\ c \in txn[i].todo /\ lock_free(i, c) /\ txn[i].phase = "cves"
        /\ UNCHANGED <<finding, cve, package, image, scan_run>>
    BY <1>2 DEF _upsert_cves, in_phase, next_row
  <2> HIDE DEF row
  <2> QED
    BY <2>1, <2>2, <2>3, VisitRollup
<1>3. CASE _recompute_cve_rollup(i, c)
  <2>1. /\ open(i) /\ c \in txn[i].todo /\ lock_free(i, c) /\ txn[i].phase = "rollup"
        /\ txn' = [txn EXCEPT ![i] = visited(i, c, txn[i].sub[c])]
        /\ UNCHANGED <<finding, cve, package, image, scan_run>>
    BY <1>3 DEF _recompute_cve_rollup, in_phase, next_row
  <2>2. c \in DOMAIN txn[i].sub /\ txn[i].sub \in Rows(Cves, Cve)
    BY <1>1, <2>1 DEF PersistInv, sound, well_formed, Txn
  <2>3. txn[i].sub[c] \in Cve
    BY <2>2, RowsPartial DEF partial
  <2> QED
    BY <2>1, <2>3, VisitRollup
<1> QED
  BY <1>2, <1>3

\* A transaction is undone.
LEMMA RollbackRollup ==
    ASSUME RollupInv, PersistInv', NEW i \in Images, rollback(i)
    PROVE  RollupInv'
  BY TxnRollupStep DEF rollback

\* The findings of an image that has no current finding of c, before or after,
\* do not enter the rollup of c.
LEMMA RollupElsewhere ==
    ASSUME NEW f, NEW g, NEW m, NEW n, NEW c, NEW i \in Images,
           \A j \in Images : j # i => f[j] = g[j] /\ m[j] = n[j],
           \A p : ~is_current(f[i], m[i], <<c, p>>) /\ ~is_current(g[i], n[i], <<c, p>>)
    PROVE  rollup(f, m, c) = rollup(g, n, c)
<1>1. ASSUME NEW j \in Images, NEW p \in Packages
      PROVE  /\ is_current(f[j], m[j], <<c, p>>) <=> is_current(g[j], n[j], <<c, p>>)
             /\ is_current(f[j], m[j], <<c, p>>) =>
                   f[j][<<c, p>>].severity_rank = g[j][<<c, p>>].severity_rank
  <2>1. CASE j = i
    BY <2>1
  <2>2. CASE j # i
    BY <2>2
  <2> QED
    BY <2>1, <2>2
<1> QED
  BY <1>1, RollupSame

\* commit: the rows it recomputed are exact, those it did not touch stay exact,
\* and the snapshots of the others stay those they would take now.
LEMMA CommitRollup ==
    ASSUME RollupInv, PersistInv', NEW i \in Images, commit(i)
    PROVE  RollupInv'
<1> DEFINE l == run_id(i)
           report == txn[i].report
           affected == txn[i].affected
<1>1. /\ PersistInv /\ sound(i, txn[i]) /\ open(i) /\ txn[i].phase = "rollup" /\ txn[i].todo = {}
      /\ locks(txn[i]) /\ recomputed(i)
      /\ affected = _current_cve_ids(i) \cup cves_in(DOMAIN report)
  BY DEF commit, in_phase, RollupInv, PersistInv, sound
<1>2. /\ DOMAIN finding = Images /\ DOMAIN image = Images /\ DOMAIN scan_run = Images
      /\ DOMAIN txn = Images /\ scan_run[i] \in Seq(ScanRun)
  BY <1>1 DEF PersistInv, TypeOK
<1>3. /\ finding' = [finding EXCEPT ![i] = txn[i].finding]
      /\ image' = [image EXCEPT ![i] = l]
      /\ scan_run' = [scan_run EXCEPT ![i] = Append(scan_run[i], success_run(i))]
      /\ txn' = [txn EXCEPT ![i] = Idle]
      /\ cve' = [c \in DOMAIN cve \cup DOMAIN txn[i].cve |-> row_of(i, c)]
  BY DEF commit
<1>4. /\ finding'[i] = txn[i].finding /\ image'[i] = l /\ txn'[i] = Idle
      /\ scan_run'[i] = Append(scan_run[i], success_run(i))
      /\ \A j \in Images : j # i => /\ finding'[j] = finding[j] /\ image'[j] = image[j]
                                    /\ scan_run'[j] = scan_run[j] /\ txn'[j] = txn[j]
  BY <1>2, <1>3
<1>5. l # NULL /\ scan_run'[i][l].report = report
  BY <1>2, <1>4 DEF run_id, NULL, success_run
<1>6. current_keys(finding'[i], l) = DOMAIN report
  <2>1. is_served(finding'[i], image'[i], scan_run'[i])
    BY DEF PersistInv
  <2> QED
    BY <1>4, <1>5, <2>1 DEF is_served
<1>7. DOMAIN cve' = DOMAIN cve \cup DOMAIN txn[i].cve /\ cves_in(DOMAIN report) \subseteq DOMAIN txn[i].cve
  BY <1>1, <1>3 DEF locks, reported
<1> HIDE DEF l, report, affected
<1>8. ASSUME NEW c, c \notin affected, NEW p
      PROVE  /\ ~is_current(finding[i], image[i], <<c, p>>)
             /\ ~is_current(finding'[i], image'[i], <<c, p>>)
  <2>1. c \notin _current_cve_ids(i) /\ c \notin cves_in(DOMAIN report)
    BY <1>1, <1>8
  <2>2. ~is_current(finding[i], image[i], <<c, p>>)
    BY <1>1, <2>1, NoCurrentFinding
  <2>3. <<c, p>> \notin DOMAIN report
    <3>1. <<c, p>>[1] = c
      OBVIOUS
    <3> QED
      BY <2>1, <3>1 DEF cves_in
  <2>4. ~is_current(finding'[i], image'[i], <<c, p>>)
    BY <1>4, <1>6, <2>3 DEF is_current, current_keys
  <2> QED
    BY <2>2, <2>4
<1>9. ASSUME NEW c \in DOMAIN cve' PROVE cve'[c] = rollup(finding', image', c)
  <2>1. cve'[c] = row_of(i, c)
    BY <1>3, <1>7
  <2>2. CASE c \in affected
    <3>1. row_of(i, c) = sub_select(i, c)
      BY <1>1, <2>2 DEF recomputed, affected
    <3> QED
      BY <1>3, <2>1, <3>1 DEF sub_select, l
  <2>3. CASE c \notin affected
    <3>1. c \notin DOMAIN txn[i].cve /\ c \in DOMAIN cve
      BY <1>1, <1>7, <2>3 DEF locks, affected
    <3>2. cve'[c] = rollup(finding, image, c)
      BY <2>1, <3>1 DEF row_of, holds, RollupInv, RollupIsExact
    <3>3. rollup(finding, image, c) = rollup(finding', image', c)
      <4>1. \A p : /\ ~is_current(finding[i], image[i], <<c, p>>)
                   /\ ~is_current(finding'[i], image'[i], <<c, p>>)
        BY <1>8, <2>3
      <4>2. \A j \in Images : j # i => finding[j] = finding'[j] /\ image[j] = image'[j]
        BY <1>4
      <4> QED
        BY <4>1, <4>2, RollupElsewhere
    <3> QED
      BY <3>2, <3>3
  <2> QED
    BY <2>2, <2>3
<1>10. ASSUME NEW j \in Images, open(j)'
       PROVE  j # i /\ open(j) /\ txn'[j] = txn[j] /\ locks(txn[j])
  BY <1>4, <1>10 DEF open, RollupInv
<1>11. ASSUME NEW j \in Images, open(j)', txn[j].phase = "rollup", NEW c \in txn[j].affected
       PROVE  /\ c \in DOMAIN txn[j].cve /\ c \notin affected
  <2>1. apart(txn[i], txn[j]) /\ locks(txn[j])
    BY <1>1, <1>10, <1>11 DEF RollupInv
  <2>2. c \in DOMAIN txn[j].cve
    BY <1>11, <2>1 DEF apart, drops, locks, reported
  <2>3. affected \subseteq DOMAIN txn[i].cve
    BY <1>7, <2>1 DEF apart, drops, affected, report
  <2> QED
    BY <2>1, <2>2, <2>3 DEF apart
<1>12. ASSUME NEW j \in Images, open(j)' PROVE recomputed(j)'
  <2> SUFFICES ASSUME txn'[j].phase = "rollup", NEW c \in txn'[j].affected
               PROVE  /\ txn'[j].sub[c] = sub_select(j, c)'
                      /\ c \notin txn'[j].todo => row_of(j, c)' = txn'[j].sub[c]
    BY DEF recomputed
  <2>1. /\ j # i /\ open(j) /\ txn'[j] = txn[j] /\ txn[j].phase = "rollup"
        /\ c \in txn[j].affected /\ c \in DOMAIN txn[j].cve /\ c \notin affected
    BY <1>10, <1>11, <1>12
  <2>2. recomputed(j)
    BY <2>1 DEF RollupInv
  <2>3. row_of(j, c)' = row_of(j, c)
    BY <2>1 DEF row_of, holds, open
  <2>4. sub_select(j, c)' = sub_select(j, c)
    <3> DEFINE f == [finding EXCEPT ![j] = txn[j].finding]
               g == [finding' EXCEPT ![j] = txn[j].finding]
               m == [image EXCEPT ![j] = run_id(j)]
               n == [image' EXCEPT ![j] = run_id(j)]
    <3>1. run_id(j)' = run_id(j)
      BY <1>4, <2>1 DEF run_id
    <3>2. sub_select(j, c) = rollup(f, m, c) /\ sub_select(j, c)' = rollup(g, n, c)
      BY <2>1, <3>1 DEF sub_select
    <3>3. \A k \in Images : k # i => f[k] = g[k] /\ m[k] = n[k]
      BY <1>2, <1>3, <1>4
    <3>4. /\ f[i] = finding[i] /\ g[i] = finding'[i] /\ m[i] = image[i] /\ n[i] = image'[i]
      BY <1>2, <1>3, <2>1
    <3> HIDE DEF f, g, m, n
    <3>5. \A p : ~is_current(f[i], m[i], <<c, p>>) /\ ~is_current(g[i], n[i], <<c, p>>)
      BY <1>8, <2>1, <3>4
    <3>6. rollup(f, m, c) = rollup(g, n, c)
      BY <3>3, <3>5, RollupElsewhere
    <3> QED
      BY <3>2, <3>6
  <2> QED
    BY <2>1, <2>2, <2>3, <2>4 DEF recomputed
<1>13. ASSUME NEW j \in Images, NEW k \in Images, j # k, open(j)', open(k)'
       PROVE  apart(txn'[j], txn'[k])
  BY <1>10, <1>13 DEF RollupInv
<1>14. ASSUME NEW j \in Images PROVE (_current_cve_ids(j) \subseteq DOMAIN cve)'
  <2>1. CASE j = i
    BY <1>4, <1>5, <1>6, <1>7, <2>1 DEF _current_cve_ids
  <2>2. CASE j # i
    BY <1>4, <1>7, <2>2 DEF _current_cve_ids, RollupInv
  <2> QED
    BY <2>1, <2>2
<1>15. \A j \in Images : open(j)' => locks(txn'[j])
  BY <1>10
<1>16. RollupIsExact'
  BY <1>9 DEF RollupIsExact
<1> QED
  BY <1>12, <1>13, <1>14, <1>15, <1>16 DEF RollupInv

\* record_skip and record_failure: a run of an image with no open transaction.
LEMMA OtherRunRollup ==
    ASSUME RollupInv, PersistInv', NEW i \in Images, record_skip(i) \/ record_failure(i)
    PROVE  RollupInv'
<1>1. UNCHANGED <<finding, cve, package, image, txn>> /\ ~open(i)
  BY DEF record_skip, record_failure
<1>2. \A j \in Images : j # i => scan_run'[j] = scan_run[j]
  <2>1. DOMAIN scan_run = Images
    BY DEF RollupInv, PersistInv, TypeOK
  <2> QED
    BY <2>1 DEF record_skip, record_failure
<1>3. ASSUME NEW j \in Images, open(j)' PROVE open(j) /\ recomputed(j)'
  <2>1. open(j) /\ j # i /\ recomputed(j)
    BY <1>1, <1>3 DEF open, RollupInv
  <2>2. \A c : row_of(j, c)' = row_of(j, c)
    BY <1>1 DEF row_of, holds, open
  <2>3. \A c : sub_select(j, c)' = sub_select(j, c)
    BY <1>1, <1>2, <2>1 DEF sub_select, run_id
  <2> QED
    BY <1>1, <2>1, <2>2, <2>3 DEF recomputed
<1>4. \A j \in Images : open(j)' => locks(txn'[j])
  BY <1>1, <1>3 DEF RollupInv
<1>5. \A j, k \in Images : j # k /\ open(j)' /\ open(k)' => apart(txn'[j], txn'[k])
  BY <1>1, <1>3 DEF RollupInv
<1>6. RollupIsExact' /\ \A j \in Images : (_current_cve_ids(j) \subseteq DOMAIN cve)'
  BY <1>1 DEF RollupInv, RollupIsExact, _current_cve_ids
<1> QED
  BY <1>3, <1>4, <1>5, <1>6 DEF RollupInv

-----------------------------------------------------------------------------
(* The theorems on the rollup.                                             *)

\* The empty tables.
LEMMA RollupInvInit == Init => RollupInv
<1> SUFFICES ASSUME Init PROVE RollupInv
  OBVIOUS
<1>1. PersistInv
  BY PersistInvInit
<1>2. \A i \in Images : ~open(i) /\ _current_cve_ids(i) = {}
  BY DEF Init, open, _current_cve_ids
<1>3. RollupIsExact
  BY DEF Init, RollupIsExact
<1> QED
  BY <1>1, <1>2, <1>3 DEF RollupInv

\* Every step keeps the inductive invariant of the rollup.
LEMMA RollupInvStep ==
    ASSUME DropsAlone
    PROVE  RollupInv /\ [Next]_vars => RollupInv'
<1> SUFFICES ASSUME RollupInv, [Next]_vars PROVE RollupInv'
  OBVIOUS
<1>1. PersistInv'
  BY PersistInvStep DEF RollupInv
<1>2. CASE UNCHANGED vars
  <2>1. UNCHANGED <<finding, cve, package, image, scan_run, txn>>
    BY <1>2 DEF vars
  <2>2. \A i \in Images : UNCHANGED <<open(i), _current_cve_ids(i)>>
    BY <2>1 DEF open, _current_cve_ids
  <2>3. \A i \in Images : \A c : UNCHANGED <<row_of(i, c), sub_select(i, c)>>
    BY <2>1 DEF row_of, holds, open, sub_select, run_id
  <2>4. \A i \in Images : open(i)' => recomputed(i)'
    BY <2>1, <2>2, <2>3 DEF recomputed, RollupInv
  <2>5. RollupIsExact'
    BY <2>1 DEF RollupInv, RollupIsExact
  <2> QED
    BY <1>1, <2>1, <2>2, <2>4, <2>5 DEF RollupInv
<1>3. ASSUME NEW i \in Images, NEW report \in ParsedReport, begin(i, report) PROVE RollupInv'
  BY <1>1, <1>3, BeginRollup
<1>4. ASSUME NEW i \in Images, _upsert_packages(i) PROVE RollupInv'
  BY <1>1, <1>4, UpsertPackagesRollup
<1>5. ASSUME NEW i \in Images, NEW c \in Cves, wait_for_row(i, c) PROVE RollupInv'
  BY <1>1, <1>5, WaitRollup
<1>6. ASSUME NEW i \in Images, NEW c \in Cves, _upsert_cves(i, c) PROVE RollupInv'
  BY <1>1, <1>6, RowsRollup
<1>7. ASSUME NEW i \in Images, NEW c \in Cves, _recompute_cve_rollup(i, c) PROVE RollupInv'
  BY <1>1, <1>7, RowsRollup
<1>8. ASSUME NEW i \in Images, _upsert_findings(i) PROVE RollupInv'
  BY <1>1, <1>8, UpsertFindingsRollup
<1>9. ASSUME NEW i \in Images, start_rollup(i) PROVE RollupInv'
  BY <1>1, <1>9, StartRollupRollup
<1>10. ASSUME NEW i \in Images, commit(i) PROVE RollupInv'
  BY <1>1, <1>10, CommitRollup
<1>11. ASSUME NEW i \in Images, rollback(i) PROVE RollupInv'
  BY <1>1, <1>11, RollbackRollup
<1>12. ASSUME NEW i \in Images, record_skip(i) \/ record_failure(i) PROVE RollupInv'
  BY <1>1, <1>12, OtherRunRollup
<1> QED
  BY <1>2, <1>3, <1>4, <1>5, <1>6, <1>7, <1>8, <1>9, <1>10, <1>11, <1>12 DEF Next

\* If scans that drop a CVE are written alone, max_severity_rank and
\* affected_image_count of every CVE are at all times what a recompute over the
\* current findings would give (_recompute_cve_rollup), for any number of
\* images, CVEs and packages, in whatever order rows are visited and locked and
\* wherever transactions roll back.
THEOREM RollupExact ==
    ASSUME DropsAlone
    PROVE  Spec => []RollupIsExact
<1>1. Init => RollupInv
  BY RollupInvInit
<1>2. RollupInv /\ [Next]_vars => RollupInv'
  BY RollupInvStep
<1>3. RollupInv => RollupIsExact
  BY DEF RollupInv
<1> QED
  BY <1>1, <1>2, <1>3, PTL DEF Spec

\* Under the same condition no CVE that an image currently carries is missing
\* from the listing of GET /api/cves, which shows those with
\* affected_image_count > 0.
THEOREM LiveCvesListed ==
    ASSUME DropsAlone
    PROVE  Spec => []LiveCvesAreListed
<1>1. Init => RollupInv
  BY RollupInvInit
<1>2. RollupInv /\ [Next]_vars => RollupInv'
  BY RollupInvStep
<1>3. RollupInv => LiveCvesAreListed
  <2> SUFFICES ASSUME RollupInv, NEW i \in Images,
                      NEW k \in current_keys(finding[i], image[i])
               PROVE  cve[k[1]].affected_image_count > 0
    BY DEF LiveCvesAreListed
  <2>1. k \in Key /\ k \in DOMAIN finding[i] /\ finding[i][k].last_seen_run_id = image[i]
    BY DEF RollupInv, PersistInv, TypeOK, partial, current_keys
  <2>2. PICK c \in Cves, p \in Packages : k = <<c, p>>
    BY <2>1 DEF Key
  <2>3. c \in DOMAIN cve
    BY <2>2, CurrentFinding DEF RollupInv
  <2> DEFINE live == {x \in Images \X Packages :
                         is_current(finding[x[1]], image[x[1]], <<c, x[2]>>)}
             hit == {x[1] : x \in live}
  <2>4. cve[c].affected_image_count = Cardinality(hit)
    <3>1. cve[c] = rollup(finding, image, c)
      BY <2>3 DEF RollupInv, RollupIsExact
    <3>2. rollup(finding, image, c).affected_image_count = Cardinality(hit)
      BY DEF rollup
    <3> QED
      BY <3>1, <3>2
  <2>5. i \in hit /\ hit \subseteq Images
    <3>1. <<i, p>> \in live
      BY <2>1, <2>2 DEF is_current
    <3>2. <<i, p>>[1] = i
      OBVIOUS
    <3> QED
      BY <3>1, <3>2
  <2> HIDE DEF live, hit
  <2>6. IsFiniteSet(hit)
    BY <2>5, PersistAssumption, FS_Subset
  <2>7. Cardinality(hit) \in Nat /\ Cardinality(hit) # 0
    BY <2>5, <2>6, FS_CardinalityType, FS_EmptySet
  <2> QED
    BY <2>2, <2>4, <2>7
<1> QED
  BY <1>1, <1>2, <1>3, PTL DEF Spec

-----------------------------------------------------------------------------
(* What readers see.                                                       *)

in_force == [i \in Images |-> report_in_force(i)]

\* A set of ranks that is not empty has a worst one, and the rollup finds it.
LEMMA HighestIsWorst ==
    ASSUME NEW ranks \in SUBSET (0..4), ranks # {}
    PROVE  highest(ranks) = Served!worst(ranks)
<1>1. PICK r \in ranks : \A s \in ranks : s <= r
  <2>1. CASE 4 \in ranks
    BY <2>1
  <2>2. CASE 4 \notin ranks /\ 3 \in ranks
    BY <2>2
  <2>3. CASE 4 \notin ranks /\ 3 \notin ranks /\ 2 \in ranks
    BY <2>3
  <2>4. CASE 4 \notin ranks /\ 3 \notin ranks /\ 2 \notin ranks /\ 1 \in ranks
    BY <2>4
  <2>5. CASE 4 \notin ranks /\ 3 \notin ranks /\ 2 \notin ranks /\ 1 \notin ranks
    <3>1. \A s \in ranks : s \in 0..4 /\ s \notin {1, 2, 3, 4}
      BY <2>5
    <3>2. \A s \in ranks : s = 0
      BY <3>1
    <3>3. PICK r \in ranks : TRUE
      OBVIOUS
    <3>4. \A s \in ranks : s <= r
      BY <3>2
    <3> QED
      BY <3>4
  <2> QED
    BY <2>1, <2>2, <2>3, <2>4, <2>5
<1>2. Served!worst(ranks) \in ranks /\ \A s \in ranks : s <= Served!worst(ranks)
  BY <1>1 DEF Served!worst
<1>3. /\ highest(ranks) \in ranks \cup {0}
      /\ \A s \in ranks : s <= highest(ranks)
  BY <1>1 DEF highest
<1>4. Served!worst(ranks) <= highest(ranks) /\ Served!worst(ranks) \in 0..4
  BY <1>2, <1>3
<1>5. highest(ranks) <= Served!worst(ranks) /\ highest(ranks) \in 0..4
  <2>1. CASE highest(ranks) \in ranks
    BY <1>2, <2>1
  <2>2. CASE highest(ranks) = 0
    BY <1>4, <2>2
  <2> QED
    BY <1>3, <2>1, <2>2
<1> QED
  BY <1>4, <1>5

\* The current findings of an image are the report in force.
LEMMA InForce ==
    ASSUME PersistInv, NEW i \in Images
    PROVE  /\ in_force[i] \in [current_keys(finding[i], image[i]) -> Ranks]
           /\ DOMAIN in_force[i] = current_keys(finding[i], image[i])
           /\ DOMAIN in_force[i] \subseteq Key
           /\ \A k \in DOMAIN in_force[i] : in_force[i][k] = finding[i][k].severity_rank
<1>1. \A k \in DOMAIN finding[i] : k \in Key /\ finding[i][k] \in Finding
  BY DEF PersistInv, TypeOK, partial
<1>2. in_force[i] = [k \in current_keys(finding[i], image[i]) |-> finding[i][k].severity_rank]
  BY DEF in_force, report_in_force
<1>3. \A k \in current_keys(finding[i], image[i]) :
          k \in Key /\ finding[i][k].severity_rank \in Ranks
  BY <1>1 DEF current_keys, Finding
<1> QED
  BY <1>2, <1>3

\* The rollup of c is over the images that carry c in force.
LEMMA RollupOfForce ==
    ASSUME PersistInv, NEW c \in Cves
    PROVE  /\ Served!severities(in_force, c) \subseteq 0..4
           /\ Served!carriers(in_force, c) # {} <=> Served!severities(in_force, c) # {}
           /\ rollup(finding, image, c) =
                 [max_severity_rank |-> highest(Served!severities(in_force, c)),
                  affected_image_count |-> Cardinality(Served!carriers(in_force, c))]
<1> DEFINE live == {x \in Images \X Packages :
                       is_current(finding[x[1]], image[x[1]], <<c, x[2]>>)}
           ranks == {finding[x[1]][<<c, x[2]>>].severity_rank : x \in live}
           hit == {x[1] : x \in live}
           of(i) == {k \in DOMAIN in_force[i] : k[1] = c}
<1>1. rollup(finding, image, c) =
          [max_severity_rank |-> highest(ranks), affected_image_count |-> Cardinality(hit)]
  BY DEF rollup
<1>2. ASSUME NEW i \in Images, NEW k \in of(i)
      PROVE  /\ <<i, k[2]>> \in live /\ k = <<c, k[2]>>
             /\ in_force[i][k] = finding[i][<<c, k[2]>>].severity_rank
             /\ in_force[i][k] \in 0..4
  <2>1. /\ k \in Key /\ k[1] = c /\ k \in current_keys(finding[i], image[i])
        /\ in_force[i][k] = finding[i][k].severity_rank /\ in_force[i][k] \in Ranks
    BY InForce
  <2>2. k = <<c, k[2]>> /\ k[2] \in Packages
    BY <2>1 DEF Key
  <2>3. is_current(finding[i], image[i], <<c, k[2]>>)
    BY <2>1, <2>2 DEF is_current, current_keys
  <2>4. <<i, k[2]>> \in live
    BY <2>2, <2>3
  <2> QED
    BY <2>1, <2>2, <2>4, PersistAssumption
<1>3. ASSUME NEW x \in live
      PROVE  /\ x[1] \in Images /\ <<c, x[2]>> \in of(x[1])
             /\ in_force[x[1]][<<c, x[2]>>] = finding[x[1]][<<c, x[2]>>].severity_rank
  <2>1. x[1] \in Images /\ is_current(finding[x[1]], image[x[1]], <<c, x[2]>>)
    OBVIOUS
  <2>2. <<c, x[2]>> \in DOMAIN in_force[x[1]]
    BY <2>1, InForce DEF is_current, current_keys
  <2> QED
    BY <2>1, <2>2, InForce
<1> HIDE DEF live, of
<1>4. hit = Served!carriers(in_force, c)
  <2>1. \A i : i \in Served!carriers(in_force, c) <=> i \in Images /\ \E k : k \in of(i)
    BY DEF Served!carriers, of
  <2>2. ASSUME NEW i \in Images, NEW k \in of(i) PROVE i \in hit
    <3>1. <<i, k[2]>> \in live /\ <<i, k[2]>>[1] = i
      BY <1>2
    <3> QED
      BY <3>1
  <2>3. \A i \in hit : i \in Images /\ \E k : k \in of(i)
    BY <1>3
  <2> QED
    BY <2>1, <2>2, <2>3
<1>5. ranks = Served!severities(in_force, c)
  <2>1. \A r : r \in Served!severities(in_force, c) <=>
                 \E i \in Images : \E k \in of(i) : r = in_force[i][k]
    BY DEF Served!severities, of
  <2>2. ASSUME NEW i \in Images, NEW k \in of(i) PROVE in_force[i][k] \in ranks
    <3> DEFINE x == <<i, k[2]>>
    <3>1. x \in live /\ x[1] = i /\ x[2] = k[2]
      BY <1>2
    <3>2. in_force[i][k] = finding[x[1]][<<c, x[2]>>].severity_rank
      BY <1>2, <3>1
    <3> HIDE DEF x
    <3> QED
      BY <3>1, <3>2
  <2>3. ASSUME NEW x \in live
        PROVE  finding[x[1]][<<c, x[2]>>].severity_rank \in Served!severities(in_force, c)
    BY <1>3, <2>1
  <2>4. \A r \in Served!severities(in_force, c) : r \in ranks
    <3> HIDE DEF ranks
    <3> QED
      BY <2>1, <2>2
  <2>5. \A r \in ranks : r \in Served!severities(in_force, c)
    BY <2>3
  <2> HIDE DEF ranks
  <2> QED
    BY <2>4, <2>5
<1>6. Served!severities(in_force, c) \subseteq 0..4
  <2>1. \A r \in Served!severities(in_force, c) :
            \E i \in Images : \E k \in of(i) : r = in_force[i][k]
    BY DEF Served!severities, of
  <2> QED
    BY <1>2, <2>1
<1>7. Served!carriers(in_force, c) # {} <=> Served!severities(in_force, c) # {}
  BY <1>4, <1>5
<1> QED
  BY <1>1, <1>4, <1>5, <1>6, <1>7

\* The list is the one that the reports in force make.
LEMMA ListingIsExact ==
    ASSUME RollupInv
    PROVE  listed_cves = Served!listing_of(in_force)
<1> DEFINE sev(c) == Served!severities(in_force, c)
           car(c) == Served!carriers(in_force, c)
           shown == {c \in DOMAIN cve : cve[c].affected_image_count > 0}
<1>1. PersistInv /\ DOMAIN cve \subseteq Cves
  BY DEF RollupInv, PersistInv, TypeOK, partial
<1>2. ASSUME NEW c \in Cves
      PROVE  /\ IsFiniteSet(car(c)) /\ Cardinality(car(c)) \in Nat
             /\ Cardinality(car(c)) > 0 <=> car(c) # {}
  <2>1. car(c) \subseteq Images
    BY DEF Served!carriers
  <2> HIDE DEF car
  <2>2. IsFiniteSet(car(c))
    BY <2>1, PersistAssumption, FS_Subset
  <2> QED
    BY <2>2, FS_CardinalityType, FS_EmptySet
<1>3. ASSUME NEW c \in DOMAIN cve
      PROVE  /\ cve[c].max_severity_rank = highest(sev(c))
             /\ cve[c].affected_image_count = Cardinality(car(c))
  <2>1. cve[c] = rollup(finding, image, c) /\ c \in Cves
    BY <1>1 DEF RollupInv, RollupIsExact
  <2>2. rollup(finding, image, c) =
            [max_severity_rank |-> highest(sev(c)), affected_image_count |-> Cardinality(car(c))]
    BY <1>1, <2>1, RollupOfForce
  <2> HIDE DEF sev, car
  <2> QED
    BY <2>1, <2>2
<1>4. ASSUME NEW c \in Served!carried(in_force) PROVE c \in DOMAIN cve /\ car(c) # {}
  <2>0. PICK i \in Images : \E k \in DOMAIN in_force[i] : c = k[1]
    BY DEF Served!carried
  <2>1. PICK k \in DOMAIN in_force[i] : c = k[1]
    BY <2>0
  <2>2. k \in current_keys(finding[i], image[i])
    BY <1>1, InForce
  <2>3. c \in DOMAIN cve
    BY <1>1, <2>1, <2>2, CurrentFinding DEF RollupInv
  <2>4. i \in car(c)
    BY <2>1 DEF Served!carriers
  <2> QED
    BY <2>3, <2>4
<1>5. ASSUME NEW c, car(c) # {} PROVE c \in Served!carried(in_force)
  BY <1>5 DEF Served!carriers, Served!carried
<1>6. shown = Served!carried(in_force)
  <2> HIDE DEF car, sev
  <2>1. ASSUME NEW c \in shown PROVE c \in Served!carried(in_force)
    BY <1>1, <1>2, <1>3, <1>5
  <2>2. ASSUME NEW c \in Served!carried(in_force) PROVE c \in shown
    BY <1>1, <1>2, <1>3, <1>4
  <2> QED
    BY <2>1, <2>2
<1>7. ASSUME NEW c \in shown
      PROVE  [cve |-> c, rank |-> cve[c].max_severity_rank, images |-> cve[c].affected_image_count]
             = [cve |-> c, rank |-> Served!worst(sev(c)), images |-> Cardinality(car(c))]
  <2>1. c \in Cves /\ c \in DOMAIN cve /\ car(c) # {}
    BY <1>1, <1>4, <1>6
  <2>2. sev(c) \subseteq 0..4 /\ sev(c) # {}
    BY <1>1, <2>1, RollupOfForce
  <2> HIDE DEF sev, car
  <2>3. highest(sev(c)) = Served!worst(sev(c))
    BY <2>2, HighestIsWorst
  <2> QED
    BY <1>3, <2>1, <2>3
<1>8. listed_cves = {[cve |-> c, rank |-> cve[c].max_severity_rank,
                      images |-> cve[c].affected_image_count] : c \in shown}
  BY DEF listed_cves
<1>9. Served!listing_of(in_force) =
          {[cve |-> c, rank |-> Served!worst(sev(c)), images |-> Cardinality(car(c))] :
              c \in Served!carried(in_force)}
  BY DEF Served!listing_of, Served!Cardinality, Cardinality
<1> HIDE DEF shown, sev, car
<1> QED
  BY <1>6, <1>7, <1>8, <1>9

reports_in_force == \A i \in Images : in_force[i] \in ParsedReport

\* The same of every state, so that it can be said of the next one.
LEMMA SeenHolds ==
    /\ RollupInv => listed_cves = Served!listing_of(in_force)
    /\ PersistInv => reports_in_force
<1>1. ASSUME PersistInv, NEW i \in Images PROVE in_force[i] \in ParsedReport
  BY <1>1, InForce DEF ParsedReport
<1> QED
  BY <1>1, ListingIsExact DEF reports_in_force

\* A step that leaves findings, pointers and table cve leaves what is seen.
LEMMA NothingIsSeen ==
    ASSUME UNCHANGED <<finding, cve, image>>
    PROVE  UNCHANGED <<in_force, listed_cves>>
<1>1. \A i \in Images : report_in_force(i)' = report_in_force(i)
  BY DEF report_in_force
<1> QED
  BY <1>1 DEF in_force, listed_cves

\* A step that commits puts one report in the place of another.
LEMMA CommitReplaces ==
    ASSUME RollupInv, RollupInv', NEW i \in Images, commit(i)
    PROVE  \E report \in ParsedReport :
               /\ in_force' = [in_force EXCEPT ![i] = report]
               /\ listed_cves' = Served!listing_of(in_force')
<1>1. PersistInv /\ PersistInv'
  BY DEF RollupInv
<1>2. listed_cves' = Served!listing_of(in_force')
  <2>1. (RollupInv => listed_cves = Served!listing_of(in_force))'
    BY SeenHolds, PTL
  <2> QED
    BY <2>1
<1>3. ASSUME NEW j \in Images, j # i PROVE in_force'[j] = in_force[j]
  <2>1. DOMAIN finding = Images /\ DOMAIN image = Images
    BY <1>1 DEF PersistInv, TypeOK
  <2>2. finding'[j] = finding[j] /\ image'[j] = image[j]
    BY <1>3, <2>1 DEF commit
  <2> QED
    BY <2>2 DEF in_force, report_in_force
<1>4. in_force'[i] \in ParsedReport
  <2>1. (PersistInv => reports_in_force)'
    BY SeenHolds, PTL
  <2> QED
    BY <1>1, <2>1 DEF reports_in_force
<1>5. in_force' = [in_force EXCEPT ![i] = in_force'[i]]
  <2>1. DOMAIN in_force = Images /\ in_force' = [j \in Images |-> in_force'[j]]
    BY DEF in_force
  <2> HIDE DEF in_force
  <2> QED
    BY <1>3, <2>1
<1> QED
  BY <1>2, <1>4, <1>5

\* If scans that drop a CVE are written alone, the tables implement Inventory:
\* every step of every worker either shows nothing to a reader or replaces one
\* image's whole report, with the list of CVEs that goes with it
\* (record_success, _recompute_cve_rollup, list_cves).
THEOREM TablesImplementInventory ==
    ASSUME DropsAlone
    PROVE  Spec => ImplementsInventory
<1>1. Init => RollupInv
  BY RollupInvInit
<1>2. RollupInv /\ [Next]_vars => RollupInv'
  BY RollupInvStep
<1>3. Init => Served!Init
  <2> SUFFICES ASSUME Init PROVE Served!Init
    OBVIOUS
  <2>1. ASSUME NEW i \in Images PROVE report_in_force(i) = <<>>
    <3>1. current_keys(finding[i], image[i]) = {}
      BY DEF Init, current_keys
    <3> QED
      BY <3>1 DEF report_in_force
  <2>2. listed_cves = {}
    BY DEF Init, listed_cves
  <2> QED
    BY <2>1, <2>2 DEF Served!Init
<1>4. RollupInv /\ RollupInv' /\ [Next]_vars => [Served!Next]_<<in_force, listed_cves>>
  <2> SUFFICES ASSUME RollupInv, RollupInv', [Next]_vars
               PROVE  [Served!Next]_<<in_force, listed_cves>>
    OBVIOUS
  <2>1. CASE UNCHANGED <<finding, cve, image>>
    BY <2>1, NothingIsSeen
  <2>2. ASSUME NEW i \in Images, commit(i) PROVE Served!Next
    BY <2>2, CommitReplaces DEF Served!Next, Served!replace, in_force
  <2>3. \/ UNCHANGED <<finding, cve, image>>
        \/ \E i \in Images : commit(i)
    BY DEF Next, vars, begin, _upsert_packages, wait_for_row, _upsert_cves,
           _recompute_cve_rollup, _upsert_findings, start_rollup, rollback,
           record_skip, record_failure
  <2> QED
    BY <2>1, <2>2, <2>3
<1>5. <<in_force, listed_cves>> = <<[i \in Images |-> report_in_force(i)], listed_cves>>
  BY DEF in_force
<1> QED
  BY <1>1, <1>2, <1>3, <1>4, <1>5, PTL DEF Spec, ImplementsInventory, Served!Spec, in_force
=============================================================================
