------------------------- MODULE AttemptRegister -------------------------
(***************************************************************************)
(* What zz.release_attempt promises its readers (the table's own comment,  *)
(* gateway/migrations/001_init.sql): an attempt is prepared, applied and   *)
(* released or failed, or is refused; a release may be rolled back.  One   *)
(* attempt is applied at a time, a version is released once and for good,  *)
(* and a finding is closed by a release, one at a time, until that is      *)
(* rolled back.  Who calls what, and what is read before it is written, is *)
(* no part of this.                                                        *)
(***************************************************************************)
CONSTANTS Attempts, Versions, Findings

VARIABLES
  status,    \* attempt -> where it is
  released,  \* attempt -> the version it released, 0 if none
  closer     \* finding -> the attempt whose release closed it, 0 if none

vars == <<status, released, closer>>

Init ==
  /\ status = [a \in Attempts |-> "unmade"]
  /\ released = [a \in Attempts |-> 0]
  /\ closer = [f \in Findings |-> 0]

Goes(a, from, to) ==
  /\ status[a] = from
  /\ status' = [status EXCEPT ![a] = to]

Prepare(a) == Goes(a, "unmade", "prepared") /\ UNCHANGED <<released, closer>>
Refuse(a)  == Goes(a, "prepared", "refused") /\ UNCHANGED <<released, closer>>
Fail(a)    == Goes(a, "applying", "failed") /\ UNCHANGED <<released, closer>>

Begin(a) ==
  /\ \A b \in Attempts : status[b] # "applying"
  /\ Goes(a, "prepared", "applying")
  /\ UNCHANGED <<released, closer>>

\* The version is nobody's at the very moment it becomes a's, and what a closes is
\* closed by no other release.
Land(a, v) ==
  /\ \A b \in Attempts : released[b] # v
  /\ Goes(a, "applying", "released")
  /\ released' = [released EXCEPT ![a] = v]
  /\ \E fs \in SUBSET {f \in Findings : closer[f] = 0} :
       closer' = [f \in Findings |-> IF f \in fs THEN a ELSE closer[f]]

TakeBack(a) ==
  /\ Goes(a, "released", "rolled_back")
  /\ closer' = [f \in Findings |-> IF closer[f] = a THEN 0 ELSE closer[f]]
  /\ UNCHANGED released

Next ==
  \E a \in Attempts :
    \/ Prepare(a) \/ Refuse(a) \/ Begin(a) \/ Fail(a) \/ TakeBack(a)
    \/ \E v \in Versions : Land(a, v)

Spec == Init /\ [][Next]_vars
============================================================================
