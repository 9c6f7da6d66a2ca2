----------------------------- MODULE UploadsMC -----------------------------
(* Instances of Uploads for TLC. *)
EXTENDS Uploads, TLC

CONSTANTS u1, u2, o1, f1, f2, s1, s2, w1, w2, d1, r1

OneOwner == [u \in Uploads |-> o1]
SizeOne == [f \in Files |-> 1]
AlikeStagers == Permutations(Stagers)
AlikeWrites ==
  Permutations(Writers) \cup Permutations(Uploads) \cup Permutations(Files)
============================================================================
