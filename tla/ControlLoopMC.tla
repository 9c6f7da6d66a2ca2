--------------------------- MODULE ControlLoopMC ---------------------------
(* Instances of ControlLoop for TLC. *)
EXTENDS ControlLoop, TLC

CONSTANTS spec, review, r1, c1, c2

\* Write and audit the spec, then write the review and close on it.
Delivery == <<Writes(spec), Audits(spec), Writes(review)>>

\* Both documents and a close; or one document, changed twice.
Calling == {[o \in Ops |-> IF o \in {"write", "approve"} THEN 2 ELSE 1],
            [o \in Ops |-> CASE o \in {"edit", "approve"} -> 2
                             [] o = "close" -> 0 [] OTHER -> 1]}

Alike == Permutations(Calls)
============================================================================
