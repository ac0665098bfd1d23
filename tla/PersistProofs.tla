--------------------------- MODULE PersistProofs ---------------------------
(***************************************************************************)
(* What the transactions of persist.py keep, for any number of images,     *)
(* CVEs and packages and however they interleave: the finding table is     *)
(* the history of the successful scans, and an image's current findings    *)
(* are its last one.                                                       *)
(***************************************************************************)
EXTENDS Persist, FiniteSetTheorems, TLAPS

-----------------------------------------------------------------------------
(* One image's findings, pointer and runs.                                 *)

succeeded(runs) == {r \in DOMAIN runs : runs[r].status = "success"}

seen(runs, k) == {r \in succeeded(runs) : k \in DOMAIN runs[r].report}

\* The findings are the history of the runs.
is_history(rows, runs) ==
    /\ DOMAIN rows = {k \in Key : seen(runs, k) # {}}
    /\ \A k \in DOMAIN rows :
          /\ rows[k].first_seen_run_id \in seen(runs, k)
          /\ rows[k].last_seen_run_id \in seen(runs, k)
          /\ \A r \in seen(runs, k) :
                rows[k].first_seen_run_id <= r /\ r <= rows[k].last_seen_run_id
          /\ rows[k].severity_rank = runs[rows[k].last_seen_run_id].report[k]

\* run is the last success, or NULL if there is none.
is_last(run, runs) ==
    \/ run = NULL /\ succeeded(runs) = {}
    \/ run \in succeeded(runs) /\ \A s \in succeeded(runs) : s <= run

counts_of(keys, rows, count) ==
    \A r \in Ranks : count[r] = Cardinality({k \in keys : rows[k].severity_rank = r})

\* The current findings and the counts are those of the last success.
is_served(rows, run, runs) ==
    /\ is_last(run, runs)
    /\ run # NULL => /\ current_keys(rows, run) = DOMAIN runs[run].report
                     /\ counts_of(current_keys(rows, run), rows, runs[run].finding_count)

\* Appending to a sequence of runs.
LEMMA AppendFacts ==
    ASSUME NEW runs \in Seq(ScanRun), NEW run \in ScanRun
    PROVE  /\ Append(runs, run) \in Seq(ScanRun)
           /\ Len(runs) + 1 \in Nat /\ Len(runs) + 1 # NULL
           /\ DOMAIN Append(runs, run) = DOMAIN runs \cup {Len(runs) + 1}
           /\ Len(runs) + 1 \notin DOMAIN runs
           /\ \A r \in DOMAIN runs : /\ Append(runs, run)[r] = runs[r]
                                     /\ r \in Nat /\ r # NULL /\ r < Len(runs) + 1
           /\ Append(runs, run)[Len(runs) + 1] = run
  BY DEF NULL

\* A run that is not a success changes nothing that was said of the findings.
LEMMA OtherRunKeeps ==
    ASSUME NEW runs \in Seq(ScanRun), NEW run \in ScanRun, run.status # "success",
           NEW rows, NEW current, is_history(rows, runs), is_served(rows, current, runs)
    PROVE  is_history(rows, Append(runs, run)) /\ is_served(rows, current, Append(runs, run))
<1> DEFINE more == Append(runs, run)
           l == Len(runs) + 1
<1>1. /\ DOMAIN more = DOMAIN runs \cup {l}
      /\ \A r \in DOMAIN runs : more[r] = runs[r]
      /\ more[l] = run
  BY AppendFacts
<1> HIDE DEF more, l
<1>2. succeeded(more) = succeeded(runs)
  BY <1>1 DEF succeeded
<1>3. \A k : seen(more, k) = seen(runs, k)
  BY <1>1, <1>2 DEF seen, succeeded
<1>4. \A r \in succeeded(runs) : more[r] = runs[r]
  BY <1>1 DEF succeeded
<1>5. is_history(rows, more)
  <2>1. \A k \in DOMAIN rows : rows[k].last_seen_run_id \in succeeded(runs)
    BY DEF is_history, seen
  <2> QED
    BY <1>3, <1>4, <2>1 DEF is_history
<1>6. is_served(rows, current, more)
  <2>1. is_last(current, more)
    BY <1>2 DEF is_served, is_last
  <2>2. current # NULL => more[current] = runs[current]
    BY <1>4 DEF is_served, is_last
  <2> QED
    BY <2>1, <2>2 DEF is_served
<1> QED
  BY <1>5, <1>6 DEF more

\* _upsert_findings for a whole report, and the run with the counts of it: the
\* findings are the history of one more run, which is now the one served.
LEMMA SuccessKeeps ==
    ASSUME NEW runs \in Seq(ScanRun), NEW run \in ScanRun, run.status = "success",
           NEW rows, NEW current, is_history(rows, runs), is_served(rows, current, runs),
           DOMAIN run.report \subseteq Key,
           \A r \in Ranks : run.finding_count[r] =
               Cardinality({k \in DOMAIN run.report : run.report[k] = r}),
           NEW next, next = upserted(rows, DOMAIN run.report, run.report, Len(runs) + 1)
    PROVE  /\ is_history(next, Append(runs, run))
           /\ is_served(next, Len(runs) + 1, Append(runs, run))
<1> DEFINE more == Append(runs, run)
           l == Len(runs) + 1
           D == DOMAIN run.report
<1>1. /\ DOMAIN more = DOMAIN runs \cup {l}
      /\ l \in Nat /\ l # NULL /\ l \notin DOMAIN runs
      /\ \A r \in DOMAIN runs : more[r] = runs[r] /\ r \in Nat /\ r < l
      /\ more[l] = run
  BY AppendFacts
<1>2. /\ DOMAIN next = DOMAIN rows \cup D
      /\ \A k \in DOMAIN rows : k \notin D => next[k] = rows[k]
      /\ \A k \in D : /\ next[k].severity_rank = run.report[k]
                      /\ next[k].last_seen_run_id = l
                      /\ k \in DOMAIN rows =>
                            next[k].first_seen_run_id = rows[k].first_seen_run_id
                      /\ k \notin DOMAIN rows => next[k].first_seen_run_id = l
  BY DEF upserted
<1> HIDE DEF more, l
<1>3. succeeded(more) = succeeded(runs) \cup {l}
  BY <1>1 DEF succeeded
<1>4. /\ \A k \in D : seen(more, k) = seen(runs, k) \cup {l}
      /\ \A k : k \notin D => seen(more, k) = seen(runs, k)
  BY <1>1, <1>3 DEF seen, succeeded
<1>5. \A k : \A r \in seen(runs, k) : r \in DOMAIN runs /\ r \in Nat /\ r < l /\ more[r] = runs[r]
  BY <1>1 DEF seen, succeeded
<1>6. \A k \in DOMAIN rows :
          /\ rows[k].first_seen_run_id \in seen(runs, k)
          /\ rows[k].last_seen_run_id \in seen(runs, k)
          /\ \A r \in seen(runs, k) :
                rows[k].first_seen_run_id <= r /\ r <= rows[k].last_seen_run_id
          /\ rows[k].severity_rank = runs[rows[k].last_seen_run_id].report[k]
  BY DEF is_history
<1>7. DOMAIN rows = {k \in Key : seen(runs, k) # {}}
  BY DEF is_history
<1> HIDE DEF D
<1>8. D \subseteq Key
  BY DEF D
<1>9. is_history(next, more)
  <2>1. DOMAIN next = {k \in Key : seen(more, k) # {}}
    BY <1>2, <1>4, <1>7, <1>8
  <2>2. ASSUME NEW k \in D
        PROVE  /\ next[k].first_seen_run_id \in seen(more, k)
               /\ next[k].last_seen_run_id \in seen(more, k)
               /\ \A r \in seen(more, k) :
                     next[k].first_seen_run_id <= r /\ r <= next[k].last_seen_run_id
               /\ next[k].severity_rank = more[next[k].last_seen_run_id].report[k]
    <3>1. CASE k \in DOMAIN rows
      BY <1>1, <1>2, <1>4, <1>5, <1>6, <2>2, <3>1
    <3>2. CASE k \notin DOMAIN rows
      <4>1. seen(runs, k) = {}
        BY <1>7, <1>8, <2>2, <3>2
      <4> QED
        BY <1>1, <1>2, <1>4, <2>2, <3>2, <4>1
    <3> QED
      BY <3>1, <3>2
  <2>3. ASSUME NEW k \in DOMAIN rows, k \notin D
        PROVE  /\ next[k].first_seen_run_id \in seen(more, k)
               /\ next[k].last_seen_run_id \in seen(more, k)
               /\ \A r \in seen(more, k) :
                     next[k].first_seen_run_id <= r /\ r <= next[k].last_seen_run_id
               /\ next[k].severity_rank = more[next[k].last_seen_run_id].report[k]
    BY <1>2, <1>4, <1>5, <1>6, <2>3
  <2> QED
    BY <1>2, <2>1, <2>2, <2>3 DEF is_history
<1>10. current_keys(next, l) = D
  <2>1. \A k \in DOMAIN rows : rows[k].last_seen_run_id # l
    BY <1>1, <1>5, <1>6
  <2> QED
    BY <1>2, <2>1 DEF current_keys
<1>11. is_served(next, l, more)
  <2>1. is_last(l, more)
    <3>1. \A s \in succeeded(more) : s <= l
      BY <1>1, <1>3 DEF succeeded
    <3> QED
      BY <1>3, <3>1 DEF is_last
  <2>2. counts_of(D, next, run.finding_count)
    <3>1. ASSUME NEW r PROVE {k \in D : next[k].severity_rank = r} = {k \in D : run.report[k] = r}
      BY <1>2
    <3> QED
      BY <3>1 DEF counts_of, D
  <2> QED
    BY <1>1, <1>10, <2>1, <2>2 DEF is_served, D
<1> QED
  BY <1>9, <1>11 DEF more, l

-----------------------------------------------------------------------------
(* The open transactions.                                                  *)

\* The tables of some of S with rows in T.
Rows(S, T) == UNION {[D -> T] : D \in SUBSET S}

Txn == [phase: {"packages", "cves", "rollup_start", "rollup"},
        report: ParsedReport,
        affected: SUBSET Cves,
        package: SUBSET Packages,
        cve: Rows(Cves, Cve),
        finding: Rows(Key, Finding),
        count: [Ranks -> Nat],
        sub: Rows(Cves, Cve),
        todo: SUBSET Cves,
        want: Cves \cup {nobody}]

well_formed(t) ==
    /\ t \in Txn
    /\ t.todo \subseteq t.affected
    /\ t.want \in t.todo \cup {nobody}
    /\ t.phase \in {"packages", "rollup_start"} => t.todo = {}
    /\ t.phase = "rollup" => DOMAIN t.sub = t.affected

\* What is known of transaction t on image i: it recomputes the CVEs the image
\* had and those it reports; once past the packages it finds all of them; and
\* the findings it is about to commit are the whole report.
sound(i, t) ==
    /\ well_formed(t)
    /\ t.affected = _current_cve_ids(i) \cup cves_in(DOMAIN t.report)
    /\ t.phase # "packages" => packages_in(DOMAIN t.report) \subseteq package \cup t.package
    /\ t.phase \in {"rollup_start", "rollup"} =>
          /\ t.finding = upserted(finding[i], DOMAIN t.report, t.report, run_id(i))
          /\ \A r \in Ranks :
                t.count[r] = Cardinality({k \in DOMAIN t.report : t.report[k] = r})

PersistInv ==
    /\ TypeOK
    /\ \A i \in Images : open(i) => sound(i, txn[i])
    /\ \A i \in Images : is_history(finding[i], scan_run[i])
    /\ \A i \in Images : is_served(finding[i], image[i], scan_run[i])

\* A table of some of S is a partial function.
LEMMA RowsPartial ==
    ASSUME NEW S, NEW T, NEW f
    PROVE  f \in Rows(S, T) <=> partial(f, S, T)
  BY DEF Rows, partial

\* The keys and the severities of a report.
LEMMA ReportType ==
    ASSUME NEW report \in ParsedReport
    PROVE  /\ DOMAIN report \subseteq Key
           /\ \A k \in DOMAIN report : report[k] \in Ranks
  BY DEF ParsedReport

\* What TypeOK says of an open transaction.
LEMMA OpenType ==
    ASSUME NEW t, well_formed(t)
    PROVE  OpenTxn(t)
<1>1. /\ t.phase \in {"packages", "cves", "rollup_start", "rollup"}
      /\ t.report \in ParsedReport
      /\ t.affected \subseteq Cves
      /\ t.package \subseteq Packages
      /\ t.cve \in Rows(Cves, Cve)
      /\ t.finding \in Rows(Key, Finding)
      /\ t.count \in [Ranks -> Nat]
      /\ t.sub \in Rows(Cves, Cve)
      /\ t.todo \subseteq t.affected
      /\ t.want \in t.todo \cup {nobody}
  BY DEF well_formed, Txn
<1>2. partial(t.report, Key, Ranks)
  BY <1>1, RowsPartial DEF ParsedReport, Rows
<1>3. partial(t.cve, Cves, Cve) /\ partial(t.finding, Key, Finding) /\ partial(t.sub, Cves, Cve)
  BY <1>1, RowsPartial
<1> QED
  BY <1>1, <1>2, <1>3 DEF OpenTxn

\* The CVEs and the packages of a set of keys.
LEMMA KeyParts ==
    ASSUME NEW keys, keys \subseteq Key
    PROVE  cves_in(keys) \subseteq Cves /\ packages_in(keys) \subseteq Packages
  BY DEF Key, cves_in, packages_in

\* The CVEs an image currently has are CVEs.
LEMMA CurrentCves ==
    ASSUME TypeOK, NEW i \in Images
    PROVE  _current_cve_ids(i) \subseteq Cves
<1>1. current_keys(finding[i], image[i]) \subseteq Key
  BY DEF TypeOK, partial, current_keys
<1> QED
  BY <1>1, KeyParts DEF _current_cve_ids

\* What is known of a transaction depends on the rows of its own image, and on
\* the packages only growing.
LEMMA SoundKept ==
    ASSUME NEW j \in Images, sound(j, txn[j]), txn'[j] = txn[j], finding'[j] = finding[j],
           image'[j] = image[j], scan_run'[j] = scan_run[j], package \subseteq package'
    PROVE  sound(j, txn[j])'
<1>1. (_current_cve_ids(j))' = _current_cve_ids(j)
  BY DEF _current_cve_ids
<1>2. run_id(j)' = run_id(j)
  BY DEF run_id
<1> QED
  BY <1>1, <1>2 DEF sound

\* A step of one open transaction that commits nothing.
LEMMA TxnStep ==
    ASSUME PersistInv, NEW i \in Images, NEW t, txn' = [txn EXCEPT ![i] = t],
           t # Idle => sound(i, t), UNCHANGED <<finding, cve, package, image, scan_run>>
    PROVE  PersistInv'
<1>1. /\ DOMAIN txn = Images /\ DOMAIN txn' = Images
      /\ txn'[i] = t
      /\ \A j \in Images : j # i => txn'[j] = txn[j]
  BY DEF PersistInv, TypeOK
<1>2. ASSUME NEW j \in Images, open(j)' PROVE sound(j, txn[j])'
  <2>1. CASE j = i
    <3>1. sound(i, t)
      BY <1>1, <1>2, <2>1 DEF open
    <3>2. (_current_cve_ids(i))' = _current_cve_ids(i)
      BY DEF _current_cve_ids
    <3>3. run_id(i)' = run_id(i)
      BY DEF run_id
    <3> QED
      BY <1>1, <2>1, <3>1, <3>2, <3>3 DEF sound
  <2>2. CASE j # i
    <3>1. sound(j, txn[j]) /\ txn'[j] = txn[j]
      BY <1>1, <1>2, <2>2 DEF PersistInv, open
    <3> QED
      BY <3>1, SoundKept
  <2> QED
    BY <2>1, <2>2
<1>3. \A j \in Images : open(j)' => OpenTxn(txn[j])'
  <2>1. \A j \in Images : open(j)' => OpenTxn(txn'[j])
    BY <1>2, OpenType DEF sound
  <2> QED
    BY <2>1 DEF OpenTxn
<1>4. TypeOK'
  BY <1>1, <1>3 DEF PersistInv, TypeOK
<1> QED
  BY <1>2, <1>4 DEF PersistInv

\* Keys are finitely many, and so are those of a report.
LEMMA KeysFinite ==
    ASSUME NEW keys, keys \subseteq Key
    PROVE  IsFiniteSet(keys) /\ Cardinality(keys) \in Nat
<1>1. IsFiniteSet(Key)
  BY PersistAssumption, FS_Product DEF Key
<1>2. IsFiniteSet(keys)
  BY <1>1, FS_Subset
<1> QED
  BY <1>2, FS_CardinalityType

\* highest is the largest rank, and 0 where there is none.
LEMMA HighestType ==
    ASSUME NEW ranks, ranks \subseteq 0..4
    PROVE  highest(ranks) \in 0..4
<1>1. ranks \subseteq {0, 1, 2, 3, 4}
  OBVIOUS
<1>2. \E r \in ranks \cup {0} : \A s \in ranks : s <= r
  BY <1>1
<1>3. highest(ranks) \in ranks \cup {0}
  BY <1>2 DEF highest
<1>4. \A r \in ranks \cup {0} : r \in 0..4
  OBVIOUS
<1> QED
  BY <1>3, <1>4, Zenon

\* What the sub-select returns is a row of table cve.
LEMMA RollupType ==
    ASSUME NEW rows, NEW current, NEW c \in Cves,
           \A i \in Images : \A k \in DOMAIN rows[i] : rows[i][k].severity_rank \in Ranks
    PROVE  rollup(rows, current, c) \in Cve
<1> DEFINE live == {x \in Images \X Packages :
                        is_current(rows[x[1]], current[x[1]], <<c, x[2]>>)}
           ranks == {rows[x[1]][<<c, x[2]>>].severity_rank : x \in live}
           hit == {x[1] : x \in live}
<1>1. rollup(rows, current, c) =
          [max_severity_rank |-> highest(ranks), affected_image_count |-> Cardinality(hit)]
  BY DEF rollup
<1>2. ranks \subseteq 0..4
  <2>1. \A x \in live : x[1] \in Images /\ <<c, x[2]>> \in DOMAIN rows[x[1]]
    BY DEF is_current
  <2> QED
    BY <2>1, PersistAssumption
<1>3. highest(ranks) \in 0..4
  BY <1>2, HighestType
<1>4. hit \in SUBSET Images
  OBVIOUS
<1> HIDE DEF live, ranks, hit
<1>5. Cardinality(hit) \in Nat
  BY <1>4, PersistAssumption, FS_Subset, FS_CardinalityType
<1> QED
  BY <1>1, <1>3, <1>5 DEF Cve

\* The row a transaction sees is put among those it holds.
LEMMA PutType ==
    ASSUME NEW f \in Rows(Cves, Cve), NEW c \in Cves, NEW row \in Cve
    PROVE  /\ put(f, c, row) \in Rows(Cves, Cve)
           /\ DOMAIN put(f, c, row) = DOMAIN f \cup {c}
           /\ put(f, c, row)[c] = row
           /\ \A d \in DOMAIN f : d # c => put(f, c, row)[d] = f[d]
<1>1. DOMAIN f \subseteq Cves /\ \A d \in DOMAIN f : f[d] \in Cve
  BY DEF Rows
<1>2. put(f, c, row) \in [DOMAIN f \cup {c} -> Cve]
  BY <1>1 DEF put
<1>3. DOMAIN f \cup {c} \in SUBSET Cves
  BY <1>1
<1> QED
  BY <1>2, <1>3 DEF Rows, put

\* A transaction that wrote or locked row c.
LEMMA VisitedFacts ==
    ASSUME NEW i, txn[i] \in Txn, NEW c \in Cves, NEW row \in Cve
    PROVE  /\ visited(i, c, row) \in Txn
           /\ visited(i, c, row).cve = put(txn[i].cve, c, row)
           /\ visited(i, c, row).todo = txn[i].todo \ {c}
           /\ visited(i, c, row).want = nobody
           /\ visited(i, c, row).phase = txn[i].phase
           /\ visited(i, c, row).report = txn[i].report
           /\ visited(i, c, row).affected = txn[i].affected
           /\ visited(i, c, row).package = txn[i].package
           /\ visited(i, c, row).finding = txn[i].finding
           /\ visited(i, c, row).count = txn[i].count
           /\ visited(i, c, row).sub = txn[i].sub
<1>1. txn[i].cve \in Rows(Cves, Cve) /\ txn[i].todo \subseteq Cves
  BY DEF Txn
<1>2. put(txn[i].cve, c, row) \in Rows(Cves, Cve)
  BY <1>1, PutType
<1>3. /\ visited(i, c, row).cve = put(txn[i].cve, c, row)
      /\ visited(i, c, row).todo = txn[i].todo \ {c}
      /\ visited(i, c, row).want = nobody
      /\ visited(i, c, row).phase = txn[i].phase
      /\ visited(i, c, row).report = txn[i].report
      /\ visited(i, c, row).affected = txn[i].affected
      /\ visited(i, c, row).package = txn[i].package
      /\ visited(i, c, row).finding = txn[i].finding
      /\ visited(i, c, row).count = txn[i].count
      /\ visited(i, c, row).sub = txn[i].sub
  BY DEF visited, Txn
<1>4. visited(i, c, row) \in Txn
  BY <1>1, <1>2 DEF visited, Txn
<1> QED
  BY <1>3, <1>4

\* A sound transaction that visits a row it had to visit is sound.
LEMMA VisitSound ==
    ASSUME NEW i, sound(i, txn[i]), NEW c \in txn[i].todo, NEW row \in Cve
    PROVE  sound(i, visited(i, c, row))
<1>1. txn[i] \in Txn /\ c \in Cves
  BY DEF sound, well_formed, Txn
<1> DEFINE t == visited(i, c, row)
<1>2. /\ t \in Txn
      /\ t.todo = txn[i].todo \ {c} /\ t.want = nobody
      /\ t.phase = txn[i].phase /\ t.report = txn[i].report
      /\ t.affected = txn[i].affected /\ t.package = txn[i].package
      /\ t.finding = txn[i].finding /\ t.count = txn[i].count /\ t.sub = txn[i].sub
  BY <1>1, VisitedFacts
<1> HIDE DEF t
<1>3. well_formed(t)
  BY <1>2 DEF sound, well_formed
<1>4. sound(i, t)
  BY <1>2, <1>3 DEF sound
<1> QED
  BY <1>4 DEF t

\* record_success begins.
LEMMA BeginStep ==
    ASSUME PersistInv, NEW i \in Images, NEW report \in ParsedReport, begin(i, report)
    PROVE  PersistInv'
<1> DEFINE t == [phase |-> "packages", report |-> report,
                 affected |-> _current_cve_ids(i) \cup cves_in(DOMAIN report),
                 package |-> {}, cve |-> <<>>, finding |-> <<>>,
                 count |-> [r \in Ranks |-> 0], sub |-> <<>>, todo |-> {}, want |-> nobody]
<1>1. _current_cve_ids(i) \cup cves_in(DOMAIN report) \subseteq Cves
  BY CurrentCves, ReportType, KeyParts DEF PersistInv
<1>2. <<>> \in Rows(Cves, Cve) /\ <<>> \in Rows(Key, Finding)
  <2>1. partial(<<>>, Cves, Cve) /\ partial(<<>>, Key, Finding)
    BY DEF partial
  <2> QED
    BY <2>1, RowsPartial
<1>3. [r \in Ranks |-> 0] \in [Ranks -> Nat]
  OBVIOUS
<1>4. t \in Txn
  BY <1>1, <1>2, <1>3 DEF Txn
<1>5. sound(i, t)
  BY <1>4 DEF sound, well_formed
<1>6. txn' = [txn EXCEPT ![i] = t] /\ UNCHANGED <<finding, cve, package, image, scan_run>>
  BY DEF begin
<1> HIDE DEF t
<1> QED
  BY <1>5, <1>6, TxnStep

\* The packages are there, the CVEs of the report are to be visited.
LEMMA UpsertPackagesStep ==
    ASSUME PersistInv, NEW i \in Images, _upsert_packages(i)
    PROVE  PersistInv'
<1> DEFINE t == [txn[i] EXCEPT !.phase = "cves",
                               !.package = packages_in(DOMAIN txn[i].report) \ package,
                               !.todo = cves_in(DOMAIN txn[i].report)]
<1>1. sound(i, txn[i]) /\ txn[i] \in Txn /\ txn[i].phase = "packages" /\ i \in DOMAIN txn
  BY DEF _upsert_packages, in_phase, PersistInv, sound, well_formed, TypeOK
<1>2. /\ txn[i].report \in ParsedReport
      /\ txn[i].affected = _current_cve_ids(i) \cup cves_in(DOMAIN txn[i].report)
      /\ txn[i].want \in txn[i].todo \cup {nobody}
      /\ txn[i].todo = {}
  BY <1>1 DEF sound, well_formed, Txn
<1>3. /\ cves_in(DOMAIN txn[i].report) \subseteq Cves
      /\ packages_in(DOMAIN txn[i].report) \subseteq Packages
  BY <1>2, ReportType, KeyParts
<1>4. /\ t.phase = "cves" /\ t.report = txn[i].report /\ t.affected = txn[i].affected
      /\ t.package = packages_in(DOMAIN txn[i].report) \ package
      /\ t.todo = cves_in(DOMAIN txn[i].report) /\ t.want = txn[i].want
  BY <1>1 DEF Txn
<1>5. t \in Txn
  BY <1>1, <1>3 DEF Txn
<1>6. txn' = [txn EXCEPT ![i] = t] /\ UNCHANGED <<finding, cve, package, image, scan_run>>
  BY DEF _upsert_packages
<1> HIDE DEF t
<1>7. sound(i, t)
  BY <1>2, <1>3, <1>4, <1>5 DEF sound, well_formed
<1> QED
  BY <1>6, <1>7, TxnStep

\* A statement waits for a row that another transaction has locked.
LEMMA WaitStep ==
    ASSUME PersistInv, NEW i \in Images, NEW c \in Cves, wait_for_row(i, c)
    PROVE  PersistInv'
<1> DEFINE t == [txn[i] EXCEPT !.want = c]
<1>1. sound(i, txn[i]) /\ txn[i] \in Txn /\ c \in txn[i].todo
  BY DEF wait_for_row, next_row, PersistInv, sound, well_formed
<1>2. /\ t \in Txn
      /\ t.phase = txn[i].phase /\ t.report = txn[i].report
      /\ t.affected = txn[i].affected /\ t.package = txn[i].package
      /\ t.finding = txn[i].finding /\ t.count = txn[i].count /\ t.sub = txn[i].sub
      /\ t.todo = txn[i].todo /\ t.want = c
  BY <1>1 DEF Txn
<1>3. txn' = [txn EXCEPT ![i] = t] /\ UNCHANGED <<finding, cve, package, image, scan_run>>
  BY DEF wait_for_row
<1> HIDE DEF t
<1>4. sound(i, t)
  BY <1>1, <1>2 DEF sound, well_formed
<1> QED
  BY <1>3, <1>4, TxnStep

\* INSERT ... ON CONFLICT DO UPDATE of one CVE.
LEMMA UpsertCvesStep ==
    ASSUME PersistInv, NEW i \in Images, NEW c \in Cves, _upsert_cves(i, c)
    PROVE  PersistInv'
<1> DEFINE row == IF c \in DOMAIN cve THEN cve[c] ELSE new_cve
<1>1. sound(i, txn[i]) /\ c \in txn[i].todo
  BY DEF _upsert_cves, next_row, PersistInv
<1>2. row \in Cve
  BY DEF PersistInv, TypeOK, partial, new_cve, Cve
<1>3. txn' = [txn EXCEPT ![i] = visited(i, c, row)]
  BY DEF _upsert_cves
<1>4. UNCHANGED <<finding, cve, package, image, scan_run>>
  BY DEF _upsert_cves
<1> HIDE DEF row
<1>5. sound(i, visited(i, c, row))
  BY <1>1, <1>2, VisitSound
<1> QED
  BY <1>3, <1>4, <1>5, TxnStep

\* The UPDATE of one row of the rollup.
LEMMA RecomputeStep ==
    ASSUME PersistInv, NEW i \in Images, NEW c \in Cves, _recompute_cve_rollup(i, c)
    PROVE  PersistInv'
<1>1. sound(i, txn[i]) /\ c \in txn[i].todo /\ txn[i].phase = "rollup"
  BY DEF _recompute_cve_rollup, in_phase, next_row, PersistInv
<1>2. txn[i].sub[c] \in Cve
  <2>1. c \in DOMAIN txn[i].sub /\ txn[i].sub \in Rows(Cves, Cve)
    BY <1>1 DEF sound, well_formed, Txn
  <2> QED
    BY <2>1, RowsPartial DEF partial
<1>3. sound(i, visited(i, c, txn[i].sub[c]))
  BY <1>1, <1>2, VisitSound
<1> QED
  BY <1>3, TxnStep DEF _recompute_cve_rollup

\* Rows of table finding after an upsert of a report are rows of that table.
LEMMA UpsertedType ==
    ASSUME NEW rows \in Rows(Key, Finding), NEW report \in ParsedReport, NEW run \in Nat
    PROVE  upserted(rows, DOMAIN report, report, run) \in Rows(Key, Finding)
<1> DEFINE next == upserted(rows, DOMAIN report, report, run)
<1>1. /\ DOMAIN rows \subseteq Key /\ \A k \in DOMAIN rows : rows[k] \in Finding
      /\ DOMAIN report \subseteq Key /\ \A k \in DOMAIN report : report[k] \in Ranks
  BY ReportType DEF Rows
<1>2. next \in [DOMAIN rows \cup DOMAIN report -> Finding]
  <2>1. ASSUME NEW k \in DOMAIN report
        PROVE  [severity_rank |-> report[k],
                first_seen_run_id |-> IF k \in DOMAIN rows THEN rows[k].first_seen_run_id
                                                           ELSE run,
                last_seen_run_id |-> run] \in Finding
    <3>1. k \in DOMAIN rows => rows[k].first_seen_run_id \in Nat
      BY <1>1 DEF Finding
    <3> QED
      BY <1>1, <3>1 DEF Finding
  <2> QED
    BY <1>1, <2>1 DEF upserted
<1> QED
  BY <1>1, <1>2 DEF Rows

\* The findings are written, with their counts.
LEMMA UpsertFindingsStep ==
    ASSUME PersistInv, NEW i \in Images, _upsert_findings(i)
    PROVE  PersistInv'
<1> DEFINE new == upserted(finding[i], written(i), txn[i].report, run_id(i))
           total == [r \in Ranks |-> Cardinality({k \in written(i) : txn[i].report[k] = r})]
           t == [txn[i] EXCEPT !.phase = "rollup_start", !.finding = new, !.count = total]
<1>1. /\ sound(i, txn[i]) /\ txn[i] \in Txn /\ txn[i].phase = "cves" /\ txn[i].todo = {}
      /\ txn[i].report \in ParsedReport
  BY DEF _upsert_findings, in_phase, PersistInv, sound, well_formed, Txn
<1>2. written(i) = DOMAIN txn[i].report
  <2>1. packages_in(DOMAIN txn[i].report) \subseteq package \cup txn[i].package
    BY <1>1 DEF sound
  <2> QED
    BY <2>1 DEF written, package_ids, packages_in
<1>3. new \in Rows(Key, Finding)
  <2>1. finding[i] \in Rows(Key, Finding)
    BY RowsPartial DEF PersistInv, TypeOK
  <2>2. run_id(i) \in Nat
    BY DEF PersistInv, TypeOK, run_id
  <2> QED
    BY <1>1, <1>2, <2>1, <2>2, UpsertedType
<1>4. total \in [Ranks -> Nat]
  <2>1. \A r : {k \in written(i) : txn[i].report[k] = r} \subseteq Key
    BY <1>1, <1>2, ReportType
  <2>2. \A r : Cardinality({k \in written(i) : txn[i].report[k] = r}) \in Nat
    BY <2>1, KeysFinite
  <2> QED
    BY <2>2
<1>5. txn' = [txn EXCEPT ![i] = t] /\ UNCHANGED <<finding, cve, package, image, scan_run>>
  BY DEF _upsert_findings
<1>6. \A r \in Ranks : total[r] = Cardinality({k \in DOMAIN txn[i].report : txn[i].report[k] = r})
  BY <1>2
<1>7. new = upserted(finding[i], DOMAIN txn[i].report, txn[i].report, run_id(i))
  BY <1>2
<1> HIDE DEF new, total
<1>8. /\ t \in Txn
      /\ t.phase = "rollup_start" /\ t.report = txn[i].report
      /\ t.affected = txn[i].affected /\ t.package = txn[i].package
      /\ t.finding = new /\ t.count = total /\ t.sub = txn[i].sub
      /\ t.todo = txn[i].todo /\ t.want = txn[i].want
  BY <1>1, <1>3, <1>4 DEF Txn
<1> HIDE DEF t
<1>9. well_formed(t)
  BY <1>1, <1>8 DEF sound, well_formed
<1>10. sound(i, t)
  BY <1>1, <1>6, <1>7, <1>8, <1>9 DEF sound
<1> QED
  BY <1>5, <1>10, TxnStep

\* What the sub-select of an open transaction returns are rows of table cve.
LEMMA SubSelectType ==
    ASSUME PersistInv, NEW i \in Images, open(i), NEW c \in Cves
    PROVE  sub_select(i, c) \in Cve
<1>1. ASSUME NEW f, f \in Rows(Key, Finding), NEW k \in DOMAIN f
      PROVE  f[k].severity_rank \in Ranks
  BY <1>1 DEF Rows, Finding
<1>2. txn[i].finding \in Rows(Key, Finding)
  BY DEF PersistInv, sound, well_formed, Txn
<1>3. \A j \in Images : finding[j] \in Rows(Key, Finding)
  BY RowsPartial DEF PersistInv, TypeOK
<1> DEFINE rows == [finding EXCEPT ![i] = txn[i].finding]
<1>4. \A j \in Images : rows[j] \in Rows(Key, Finding)
  BY <1>2, <1>3 DEF PersistInv, TypeOK
<1> HIDE DEF rows
<1>5. \A j \in Images : \A k \in DOMAIN rows[j] : rows[j][k].severity_rank \in Ranks
  BY <1>1, <1>4
<1> QED
  BY <1>5, RollupType DEF sub_select, rows

\* The sub-select is computed.
LEMMA StartRollupStep ==
    ASSUME PersistInv, NEW i \in Images, start_rollup(i)
    PROVE  PersistInv'
<1> DEFINE sub == [c \in txn[i].affected |-> sub_select(i, c)]
           todo == {c \in txn[i].affected : row_of(i, c) # sub_select(i, c)}
           t == [txn[i] EXCEPT !.phase = "rollup", !.sub = sub, !.todo = todo]
<1>1. /\ sound(i, txn[i]) /\ txn[i] \in Txn /\ txn[i].phase = "rollup_start" /\ open(i)
      /\ txn[i].affected \subseteq Cves /\ txn[i].want = nobody
  BY DEF start_rollup, in_phase, PersistInv, sound, well_formed, Txn
<1>2. sub \in Rows(Cves, Cve) /\ DOMAIN sub = txn[i].affected
  <2>1. partial(sub, Cves, Cve)
    BY <1>1, SubSelectType DEF partial
  <2> QED
    BY <2>1, RowsPartial
<1>3. todo \subseteq txn[i].affected /\ todo \subseteq Cves
  BY <1>1
<1>4. txn' = [txn EXCEPT ![i] = t] /\ UNCHANGED <<finding, cve, package, image, scan_run>>
  BY DEF start_rollup
<1> HIDE DEF sub, todo
<1>5. /\ t \in Txn
      /\ t.phase = "rollup" /\ t.report = txn[i].report
      /\ t.affected = txn[i].affected /\ t.package = txn[i].package
      /\ t.finding = txn[i].finding /\ t.count = txn[i].count /\ t.sub = sub
      /\ t.todo = todo /\ t.want = txn[i].want
  BY <1>1, <1>2, <1>3 DEF Txn
<1> HIDE DEF t
<1>6. well_formed(t)
  BY <1>1, <1>2, <1>3, <1>5 DEF sound, well_formed
<1>7. sound(i, t)
  BY <1>1, <1>5, <1>6 DEF sound
<1> QED
  BY <1>4, <1>7, TxnStep

\* A statement raised, a deadlock was broken or the worker died.
LEMMA RollbackStep ==
    ASSUME PersistInv, NEW i \in Images, rollback(i)
    PROVE  PersistInv'
  BY TxnStep DEF rollback

\* A run of one image whose transaction is closed, or closes with it: the other
\* images keep what was known of them.
LEMMA RunStep ==
    ASSUME PersistInv, NEW i \in Images, NEW run \in ScanRun, NEW rows, NEW current \in Nat,
           scan_run' = [scan_run EXCEPT ![i] = Append(@, run)],
           image' = [image EXCEPT ![i] = current],
           DOMAIN finding' = Images, finding'[i] = rows,
           \A j \in Images : j # i => finding'[j] = finding[j],
           partial(rows, Key, Finding),
           is_history(rows, Append(scan_run[i], run)),
           is_served(rows, current, Append(scan_run[i], run)),
           partial(cve', Cves, Cve), package \subseteq package', package' \subseteq Packages,
           DOMAIN txn' = Images, txn'[i] = Idle,
           \A j \in Images : j # i => txn'[j] = txn[j]
    PROVE  PersistInv'
<1>1. /\ DOMAIN finding = Images /\ DOMAIN image = Images /\ DOMAIN scan_run = Images
      /\ image \in [Images -> Nat] /\ scan_run \in [Images -> Seq(ScanRun)]
  BY DEF PersistInv, TypeOK
<1>2. /\ finding'[i] = rows /\ image'[i] = current /\ scan_run'[i] = Append(scan_run[i], run)
      /\ \A j \in Images : j # i => /\ finding'[j] = finding[j]
                                    /\ image'[j] = image[j]
                                    /\ scan_run'[j] = scan_run[j]
  BY <1>1
<1>3. ASSUME NEW j \in Images, open(j)' PROVE j # i /\ sound(j, txn[j])'
  <2>1. j # i /\ txn'[j] = txn[j]
    BY <1>3 DEF open
  <2>2. sound(j, txn[j])
    BY <1>3, <2>1 DEF PersistInv, open
  <2> QED
    BY <1>2, <2>1, <2>2, SoundKept
<1>4. \A j \in Images : open(j)' => OpenTxn(txn[j])'
  <2>1. \A j \in Images : open(j)' => OpenTxn(txn'[j])
    BY <1>3, OpenType DEF sound
  <2> QED
    BY <2>1 DEF OpenTxn
<1>5. /\ DOMAIN finding' = Images
      /\ \A j \in Images : partial(finding'[j], Key, Finding)
  BY <1>1, <1>2 DEF PersistInv, TypeOK
<1>6. image' \in [Images -> Nat] /\ scan_run' \in [Images -> Seq(ScanRun)]
  <2>1. Append(scan_run[i], run) \in Seq(ScanRun)
    BY <1>1, AppendFacts
  <2> QED
    BY <1>1, <2>1
<1>7. TypeOK'
  <2>1. \A j \in Images : partial(finding[j], Key, Finding)'
    BY <1>5 DEF partial
  <2>2. partial(cve, Cves, Cve)'
    BY DEF partial
  <2> QED
    BY <1>4, <1>5, <1>6, <2>1, <2>2 DEF TypeOK
<1>8. \A j \in Images : /\ is_history(finding'[j], scan_run'[j])
                        /\ is_served(finding'[j], image'[j], scan_run'[j])
  BY <1>2 DEF PersistInv
<1> QED
  BY <1>3, <1>7, <1>8 DEF PersistInv

\* A run without findings is a run.
LEMMA OtherRunType ==
    ASSUME NEW status \in {"failed", "skipped"}
    PROVE  run_without_findings(status) \in ScanRun /\ run_without_findings(status).status # "success"
<1>1. <<>> \in ParsedReport
  <2>1. partial(<<>>, Key, Ranks)
    BY DEF partial
  <2> QED
    BY <2>1, RowsPartial DEF ParsedReport, Rows
<1>2. no_counts \in [Ranks -> Nat \cup {-1}]
  BY DEF no_counts
<1> QED
  BY <1>1, <1>2 DEF run_without_findings, ScanRun

\* record_skip and record_failure.
LEMMA OtherRunStep ==
    ASSUME PersistInv, NEW i \in Images, record_skip(i) \/ record_failure(i)
    PROVE  PersistInv'
<1>1. PICK status \in {"failed", "skipped"} :
          scan_run' = [scan_run EXCEPT ![i] = Append(@, run_without_findings(status))]
  BY DEF record_skip, record_failure
<1>2. UNCHANGED <<finding, cve, package, image, txn>> /\ ~open(i)
  BY DEF record_skip, record_failure
<1>3. /\ DOMAIN finding = Images /\ partial(finding[i], Key, Finding)
      /\ image \in [Images -> Nat] /\ scan_run[i] \in Seq(ScanRun)
      /\ partial(cve, Cves, Cve) /\ package \subseteq Packages /\ DOMAIN txn = Images
      /\ is_history(finding[i], scan_run[i]) /\ is_served(finding[i], image[i], scan_run[i])
  BY DEF PersistInv, TypeOK
<1> DEFINE run == run_without_findings(status)
<1>4. run \in ScanRun /\ run.status # "success"
  BY OtherRunType
<1> HIDE DEF run
<1>5. /\ is_history(finding[i], Append(scan_run[i], run))
      /\ is_served(finding[i], image[i], Append(scan_run[i], run))
  BY <1>3, <1>4, OtherRunKeeps
<1>6. /\ DOMAIN finding' = Images /\ finding'[i] = finding[i]
      /\ \A j \in Images : j # i => finding'[j] = finding[j]
      /\ image' = [image EXCEPT ![i] = image[i]] /\ image[i] \in Nat
  BY <1>2, <1>3
<1>7. scan_run' = [scan_run EXCEPT ![i] = Append(@, run)]
  BY <1>1 DEF run
<1>8. /\ txn'[i] = Idle /\ DOMAIN txn' = Images
      /\ \A j \in Images : j # i => txn'[j] = txn[j]
      /\ partial(cve', Cves, Cve) /\ package \subseteq package' /\ package' \subseteq Packages
  BY <1>2, <1>3 DEF open
<1> QED
  BY <1>3, <1>4, <1>5, <1>6, <1>7, <1>8, RunStep

\* The commit of record_success.
LEMMA CommitStep ==
    ASSUME PersistInv, NEW i \in Images, commit(i)
    PROVE  PersistInv'
<1> DEFINE run == success_run(i)
           next == txn[i].finding
<1>1. /\ sound(i, txn[i]) /\ txn[i] \in Txn /\ txn[i].phase = "rollup" /\ open(i)
      /\ txn[i].report \in ParsedReport /\ txn[i].count \in [Ranks -> Nat]
      /\ txn[i].cve \in Rows(Cves, Cve) /\ next \in Rows(Key, Finding)
      /\ txn[i].package \subseteq Packages
  BY DEF commit, in_phase, PersistInv, sound, well_formed, Txn
<1>2. /\ partial(finding[i], Key, Finding) /\ scan_run[i] \in Seq(ScanRun)
      /\ partial(cve, Cves, Cve) /\ package \subseteq Packages /\ DOMAIN txn = Images
      /\ is_history(finding[i], scan_run[i]) /\ is_served(finding[i], image[i], scan_run[i])
  BY DEF PersistInv, TypeOK
<1>3. /\ run \in ScanRun /\ run.status = "success"
      /\ run.report = txn[i].report /\ run.finding_count = txn[i].count
  BY <1>1 DEF success_run, ScanRun
<1>4. /\ next = upserted(finding[i], DOMAIN run.report, run.report, Len(scan_run[i]) + 1)
      /\ \A r \in Ranks : run.finding_count[r] =
              Cardinality({k \in DOMAIN run.report : run.report[k] = r})
      /\ DOMAIN run.report \subseteq Key
  BY <1>1, <1>3, ReportType DEF sound, run_id
<1>5. partial(next, Key, Finding)
  BY <1>1, RowsPartial
<1>6. /\ finding' = [finding EXCEPT ![i] = next]
      /\ image' = [image EXCEPT ![i] = run_id(i)]
      /\ scan_run' = [scan_run EXCEPT ![i] = Append(@, run)]
      /\ txn' = [txn EXCEPT ![i] = Idle]
      /\ cve' = [c \in DOMAIN cve \cup DOMAIN txn[i].cve |-> row_of(i, c)]
      /\ package' = package \cup txn[i].package
  BY DEF commit
<1> HIDE DEF run, next
<1>7. /\ is_history(next, Append(scan_run[i], run))
      /\ is_served(next, run_id(i), Append(scan_run[i], run))
  BY <1>2, <1>3, <1>4, SuccessKeeps DEF run_id
<1>8. partial(cve', Cves, Cve)
  <2>1. DOMAIN txn[i].cve \subseteq Cves /\ \A c \in DOMAIN txn[i].cve : txn[i].cve[c] \in Cve
    BY <1>1 DEF Rows
  <2>2. \A c \in DOMAIN cve \cup DOMAIN txn[i].cve : row_of(i, c) \in Cve
    BY <1>1, <1>2, <2>1 DEF row_of, holds, partial
  <2> QED
    BY <1>2, <1>6, <2>1, <2>2 DEF partial
<1>9. run_id(i) \in Nat
  BY <1>2 DEF run_id
<1>10. /\ DOMAIN finding' = Images /\ finding'[i] = next
       /\ \A j \in Images : j # i => finding'[j] = finding[j]
  BY <1>6 DEF PersistInv, TypeOK
<1>11. /\ package \subseteq package' /\ package' \subseteq Packages
       /\ DOMAIN txn' = Images /\ txn'[i] = Idle
       /\ \A j \in Images : j # i => txn'[j] = txn[j]
  BY <1>1, <1>2, <1>6
<1> QED
  BY <1>3, <1>5, <1>6, <1>7, <1>8, <1>9, <1>10, <1>11, RunStep

-----------------------------------------------------------------------------
(* The theorems on the finding table.                                      *)

\* The empty tables.
LEMMA PersistInvInit == Init => PersistInv
<1> SUFFICES ASSUME Init PROVE PersistInv
  OBVIOUS
<1>1. /\ partial(<<>>, Key, Finding) /\ partial(<<>>, Cves, Cve)
      /\ <<>> \in Seq(ScanRun) /\ NULL \in Nat
  BY DEF partial, NULL
<1>2. is_history(<<>>, <<>>) /\ is_served(<<>>, NULL, <<>>)
  BY DEF is_history, is_served, is_last, succeeded, seen
<1>3. \A i \in Images : ~open(i) /\ finding[i] = <<>> /\ image[i] = NULL /\ scan_run[i] = <<>>
  BY DEF Init, open
<1>4. TypeOK
  BY <1>1, <1>3 DEF Init, TypeOK
<1> QED
  BY <1>2, <1>3, <1>4 DEF PersistInv

\* Every step keeps the inductive invariant.
LEMMA PersistInvStep == PersistInv /\ [Next]_vars => PersistInv'
<1> SUFFICES ASSUME PersistInv, [Next]_vars PROVE PersistInv'
  OBVIOUS
<1>1. CASE UNCHANGED vars
  <2>1. UNCHANGED <<finding, cve, package, image, scan_run, txn>>
    BY <1>1 DEF vars
  <2>2. \A i \in Images : UNCHANGED <<_current_cve_ids(i), run_id(i), open(i)>>
    BY <2>1 DEF _current_cve_ids, run_id, open
  <2>3. TypeOK'
    BY <2>1 DEF PersistInv, TypeOK, open, OpenTxn, partial
  <2>4. \A i \in Images : open(i)' => sound(i, txn[i])'
    BY <2>1, <2>2, SoundKept DEF PersistInv
  <2> QED
    BY <2>1, <2>3, <2>4 DEF PersistInv
<1>2. ASSUME NEW i \in Images, NEW report \in ParsedReport, begin(i, report) PROVE PersistInv'
  BY <1>2, BeginStep
<1>3. ASSUME NEW i \in Images, _upsert_packages(i) PROVE PersistInv'
  BY <1>3, UpsertPackagesStep
<1>4. ASSUME NEW i \in Images, NEW c \in Cves, wait_for_row(i, c) PROVE PersistInv'
  BY <1>4, WaitStep
<1>5. ASSUME NEW i \in Images, NEW c \in Cves, _upsert_cves(i, c) PROVE PersistInv'
  BY <1>5, UpsertCvesStep
<1>6. ASSUME NEW i \in Images, NEW c \in Cves, _recompute_cve_rollup(i, c) PROVE PersistInv'
  BY <1>6, RecomputeStep
<1>7. ASSUME NEW i \in Images, _upsert_findings(i) PROVE PersistInv'
  BY <1>7, UpsertFindingsStep
<1>8. ASSUME NEW i \in Images, start_rollup(i) PROVE PersistInv'
  BY <1>8, StartRollupStep
<1>9. ASSUME NEW i \in Images, commit(i) PROVE PersistInv'
  BY <1>9, CommitStep
<1>10. ASSUME NEW i \in Images, rollback(i) PROVE PersistInv'
  BY <1>10, RollbackStep
<1>11. ASSUME NEW i \in Images, record_skip(i) \/ record_failure(i) PROVE PersistInv'
  BY <1>11, OtherRunStep
<1> QED
  BY <1>1, <1>2, <1>3, <1>4, <1>5, <1>6, <1>7, <1>8, <1>9, <1>10, <1>11 DEF Next

\* The inductive invariant of the finding table holds in every state.
LEMMA PersistInvHolds == Spec => []PersistInv
  BY PersistInvInit, PersistInvStep, PTL DEF Spec

\* The tables and the open transactions of persist.py keep their types.
THEOREM TablesWellFormed == Spec => []TypeOK
<1>1. PersistInv => TypeOK
  BY DEF PersistInv
<1> QED
  BY <1>1, PersistInvHolds, PTL

\* Findings are never deleted, and first and last seen are the first and the
\* last scan that reported them (_upsert_findings), however the transactions of
\* any number of images interleave and wherever they roll back.
THEOREM FindingsKeepHistory == Spec => []FindingsAreHistory
<1>1. PersistInv => FindingsAreHistory
  <2> SUFFICES ASSUME PersistInv, NEW i \in Images
               PROVE  /\ DOMAIN finding[i] = {k \in Key : sightings(i, k) # {}}
                      /\ \A k \in DOMAIN finding[i] :
                            LET row == finding[i][k]
                            IN /\ {row.first_seen_run_id, row.last_seen_run_id}
                                     \subseteq sightings(i, k)
                               /\ \A r \in sightings(i, k) :
                                     row.first_seen_run_id <= r /\ r <= row.last_seen_run_id
                               /\ row.severity_rank =
                                     scan_run[i][row.last_seen_run_id].report[k]
    BY DEF FindingsAreHistory
  <2>1. \A k : sightings(i, k) = seen(scan_run[i], k)
    BY DEF sightings, successes, seen, succeeded
  <2>2. is_history(finding[i], scan_run[i])
    BY DEF PersistInv
  <2> QED
    BY <2>1, <2>2 DEF is_history
<1> QED
  BY <1>1, PersistInvHolds, PTL

\* What the API serves of an image is the whole report of its last successful
\* scan, with the counts of that run (record_success, record_skip,
\* record_failure), for every interleaving.
THEOREM CurrentFindingsAreLastSuccess == Spec => []CurrentIsLastSuccess
<1>1. PersistInv => CurrentIsLastSuccess
  <2> SUFFICES ASSUME PersistInv, NEW i \in Images
               PROVE  /\ image[i] = last_success(i)
                      /\ image[i] # NULL =>
                            LET run == scan_run[i][image[i]]
                                keys == current_keys(finding[i], image[i])
                            IN /\ keys = DOMAIN run.report
                               /\ \A r \in Ranks :
                                     run.finding_count[r] =
                                       Cardinality({k \in keys :
                                                      finding[i][k].severity_rank = r})
    BY DEF CurrentIsLastSuccess
  <2>1. is_served(finding[i], image[i], scan_run[i]) /\ scan_run[i] \in Seq(ScanRun)
    BY DEF PersistInv, TypeOK
  <2>2. successes(i) = succeeded(scan_run[i])
    BY DEF successes, succeeded
  <2>3. \A s \in successes(i) : s \in Nat /\ s # NULL
    BY <2>1 DEF successes, NULL
  <2>4. image[i] = last_success(i)
    <3>1. CASE successes(i) = {}
      BY <2>1, <2>2, <3>1 DEF is_served, is_last, last_success
    <3>2. CASE successes(i) # {}
      <4>1. image[i] \in successes(i) /\ \A s \in successes(i) : s <= image[i]
        BY <2>1, <2>2, <3>2 DEF is_served, is_last
      <4>2. ASSUME NEW r \in successes(i), \A s \in successes(i) : s <= r
            PROVE  r = image[i]
        BY <2>3, <4>1, <4>2
      <4> QED
        BY <3>2, <4>1, <4>2 DEF last_success
    <3> QED
      BY <3>1, <3>2
  <2> QED
    BY <2>1, <2>4 DEF is_served, counts_of
<1> QED
  BY <1>1, PersistInvHolds, PTL

=============================================================================
