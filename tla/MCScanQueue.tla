---------------------------- MODULE MCScanQueue ----------------------------
(* Instances of ScanQueue for TLC. *)
EXTENDS ScanQueue, TLC

CONSTANTS i1, i2, w1, w2

\* Workers are interchangeable.
WorkerSymmetry == Permutations(Workers)

\* image.scan_interval_seconds is not set.
IntervalDefault == [i \in Images |-> NULL]
=============================================================================
