----------------------------- MODULE MCPersist -----------------------------
(* Instances of Persist for TLC. *)
EXTENDS Persist, TLC

CONSTANTS i1, i2, c1, c2, p1, p2

TableSymmetry ==
    Permutations(Images) \cup Permutations(Cves) \cup Permutations(Packages)
=============================================================================
