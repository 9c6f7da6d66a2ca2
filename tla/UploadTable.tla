---------------------------- MODULE UploadTable ----------------------------
(***************************************************************************)
(* The table zz.upload: one row per file on its way into a document or a   *)
(* source.  upload_start mints the row, the gateway binds a file's bytes   *)
(* to it (UploadStaging), a write uses it (UploadConsumption), and an      *)
(* hourly sweep in the gateway clears what was never used.                 *)
(*                                                                         *)
(* Time is what the code compares with it: a row's window of fifteen       *)
(* minutes is open, over, or over by more than a day.                      *)
(***************************************************************************)
EXTENDS Integers, FiniteSets, FiniteSetsExt

CONSTANTS
  Uploads,  \* upload ids
  Owners,   \* principals that start uploads
  OwnerOf,  \* OwnerOf[u]: who starts u
  Files,    \* the contents a caller may send
  Size,     \* Size[f]: the bytes of f
  None      \* the absent value

ASSUME TableAssumption ==
  /\ OwnerOf \in [Uploads -> Owners]
  /\ Size \in [Files -> Nat \ {0}]
  /\ None \notin Files

VARIABLES
  row,      \* the rows of zz.upload, by id
  sweeping  \* a sweep has taken the bodies and not yet deleted the rows

tableVars == <<row, sweeping>>

Lives == {"unminted", "open", "over", "old", "deleted"}

\* bytes: the file whose sha256, byte_count and staged_via are bound; body:
\* the column holds those bytes; used: consumed_at is set.
UploadRow == [life: Lives, bytes: Files \cup {None}, body: BOOLEAN,
              used: BOOLEAN]

Blank(life) == [life |-> life, bytes |-> None, body |-> FALSE, used |-> FALSE]

TableTypeOK ==
  /\ row \in [Uploads -> UploadRow]
  /\ sweeping \in BOOLEAN

TableInit ==
  /\ row = [u \in Uploads |-> Blank("unminted")]
  /\ sweeping = FALSE

There(u)   == row[u].life \in {"open", "over", "old"}
Expired(u) == row[u].life \in {"over", "old"}

\* The uploads whose bytes count against their owner.
HeldOf(o) == {u \in Uploads : /\ OwnerOf[u] = o
                              /\ row[u].body
                              /\ row[u].life = "open"}

Bytes(us) == MapThenSumSet(LAMBDA u : Size[row[u].bytes], us)

----------------------------------------------------------------------------
\* upload_start.
Mint(u) ==
  /\ row[u].life = "unminted"
  /\ row' = [row EXCEPT ![u] = Blank("open")]
  /\ UNCHANGED sweeping

WindowEnds(u) ==
  /\ row[u].life = "open"
  /\ row' = [row EXCEPT ![u].life = "over"]
  /\ UNCHANGED sweeping

DayPasses(u) ==
  /\ row[u].life = "over"
  /\ row' = [row EXCEPT ![u].life = "old"]
  /\ UNCHANGED sweeping

\* (A fault: the sweep takes every body.)
SweptAlways(u) == row[u].body

\* (A fault: the sweep forgets a body once its window is over a day.)
SweptYoung(u) == row[u].body /\ row[u].life = "over"

Swept(u) == row[u].body /\ Expired(u)

SweepBodies ==
  /\ ~sweeping
  /\ row' = [u \in Uploads |-> IF Swept(u) THEN [row[u] EXCEPT !.body = FALSE]
                                           ELSE row[u]]
  /\ sweeping' = TRUE

Dropped(u) == row[u].life = "old" /\ ~row[u].used

SweepRows ==
  /\ sweeping
  /\ row' = [u \in Uploads |-> IF Dropped(u) THEN Blank("deleted") ELSE row[u]]
  /\ sweeping' = FALSE

TableNext ==
  \/ \E u \in Uploads : Mint(u) \/ WindowEnds(u) \/ DayPasses(u)
  \/ SweepBodies
  \/ SweepRows
============================================================================
