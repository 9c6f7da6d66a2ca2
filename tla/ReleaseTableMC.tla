-------------------------- MODULE ReleaseTableMC --------------------------
(* Instances of ReleaseTable for TLC. *)
EXTENDS ReleaseTable, TLC

CONSTANTS c1, c2, f1, k1, k2

\* Both candidates were proposed against the same findings.
SameTargets == [c \in Candidates |-> Findings]
Alike == Permutations(Keys) \cup Permutations(Candidates)
============================================================================
