----------------------------- MODULE ReleaseMC -----------------------------
(* Instances of Release for TLC. *)
EXTENDS Release, TLC

CONSTANTS c1, i1, k1, k2

OneInitiative == [c \in Candidates |-> i1]
NoTargets == [c \in Candidates |-> {}]
Alike == Permutations(Keys)

\* A plugin that is not of the catalog.
OutsideInit == Init /\ declared = 0
OutsideSpec == OutsideInit /\ [][Next]_vars
============================================================================
