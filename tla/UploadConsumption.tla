------------------------- MODULE UploadConsumption -------------------------
(***************************************************************************)
(* Writes that take their body from an upload (upload-consume.ts), in      *)
(* zz-core: document_write, document_edit and source_add.  A write looks   *)
(* its request key up, reads the staged row and its body, plans, and then  *)
(* in ONE transaction looks the key up again, marks the upload used and    *)
(* writes.  The transaction compares the window with the time it BEGAN;    *)
(* it may wait for the document's lock before it goes on.                  *)
(***************************************************************************)
EXTENDS UploadTable, Sequences

CONSTANTS
  Writers,     \* slots for calls in flight
  Docs,        \* documents
  RequestIds,  \* request keys, of one principal
  MaxAttempts  \* how often document_edit computes a change (3 in the code)

ASSUME ConsumptionAssumption ==
  /\ None \notin Docs
  /\ None \notin RequestIds
  /\ MaxAttempts \in Nat \ {0}

VARIABLES
  writer,   \* the calls in flight
  doc,      \* zz.doc with its current text
  commits   \* the uploads written, in commit order: zz.doc_revision rows and
            \* the keys in zz.doc_request

consumptionVars == <<writer, doc, commits>>

Tools == {"document_write", "document_edit", "source_add"}

\* A call: what is sent.  A source has no document; its name is chosen free.
Call == [tool: Tools, doc: Docs \cup {None}, upload: Uploads,
         rid: RequestIds \cup {None}]

Calls == {c \in Call : (c.tool = "source_add") = (c.doc = None)}

Commit == [call: Calls, file: Files]

Resting == [at |-> "resting"]

\* gen: the document's generation when it was planned from; inTime: the window
\* was open when the transaction began.
Writing == [at: {"asking", "planning", "planned", "inside", "answered"},
            call: Calls, att: 1..MaxAttempts, file: Files \cup {None},
            gen: Nat, inTime: BOOLEAN,
            said: {"none", "written", "replayed"}]

ConsumptionTypeOK ==
  /\ writer \in [Writers -> Writing \cup {Resting}]
  /\ doc \in [Docs -> [gen: Nat, text: Files \cup {None}]]
  /\ commits \in Seq(Commit)

ConsumptionInit ==
  /\ writer = [w \in Writers |-> Resting]
  /\ doc \in [Docs -> [gen: {0}, text: Files \cup {None}]]
  /\ commits = <<>>

Doing(w, where) == writer[w].at = where
Goes(w, k)      == writer' = [writer EXCEPT ![w] = k]
Store           == <<row, doc, commits>>

\* An attempt at a call, from its start.
Attempt(c, n) == [at |-> "asking", call |-> c, att |-> n, file |-> None,
                  gen |-> 0, inTime |-> FALSE, said |-> "none"]

Says(w, what) == Goes(w, [Attempt(writer[w].call, 1) EXCEPT !.at = "answered",
                                                            !.said = what])

\* A refusal is sent; nothing of the call is kept.
Refused(w) == Goes(w, Resting)

----------------------------------------------------------------------------
(* Request keys: held per document, those of sources per initiative.       *)

SameKey(c, d) ==
  /\ c.rid # None
  /\ c.rid = d.rid
  /\ c.doc = d.doc

KeyHolders(c) == {i \in 1..Len(commits) : SameKey(c, commits[i].call)}

Taken(c) == KeyHolders(c) # {}

\* (A fault: the key alone decides.)
KeyDecides(c) == Taken(c)

Committed(c) == \E i \in KeyHolders(c) : commits[i].call = c

\* The receipt, if the call is the one that was committed; else a conflict.
Replay(w) ==
  IF Committed(writer[w].call) THEN Says(w, "replayed") ELSE Refused(w)

----------------------------------------------------------------------------
(* Before the transaction.                                                 *)

Begin(w, c) ==
  /\ Doing(w, "resting")
  /\ Goes(w, Attempt(c, 1))
  /\ UNCHANGED Store

LookUp(w) ==
  LET k == writer[w]
  IN /\ Doing(w, "asking")
     /\ IF Taken(k.call) THEN Replay(w)
                         ELSE Goes(w, [k EXCEPT !.at = "planning"])
     /\ UNCHANGED Store

\* The body can be read: staged, not used, in its window, not yet swept.  The
\* code reads the row and then the body; what may change between is tested
\* again in the transaction.
Usable(u) ==
  /\ row[u].bytes # None
  /\ ~row[u].used
  /\ row[u].life = "open"
  /\ row[u].body

Gen(c)  == IF c.doc = None THEN 0 ELSE doc[c.doc].gen
Text(c) == IF c.doc = None THEN None ELSE doc[c.doc].text

\* The change sends what the document already says.
Same(k) == k.call.tool = "document_edit" /\ Text(k.call) = k.file

\* The upload read and the write planned.  A change that changes nothing and
\* has no key is answered here.
Plan(w) ==
  LET k == writer[w]
      planned == [k EXCEPT !.at = "planned", !.gen = Gen(k.call),
                           !.file = row[k.call.upload].bytes]
  IN /\ Doing(w, "planning")
     /\ Usable(k.call.upload)
     /\ k.call.tool = "document_edit" => Text(k.call) # None
     /\ k.call.tool = "document_write" => Text(k.call) = None
     /\ IF Same(planned) /\ k.call.rid = None
        THEN Goes(w, Resting)
        ELSE Goes(w, planned)
     /\ UNCHANGED Store

\* Any rule refuses; of the upload: not staged, used, expired.
RefusePlan(w) ==
  /\ Doing(w, "planning")
  /\ Refused(w)
  /\ UNCHANGED Store

----------------------------------------------------------------------------
(* The transaction.                                                        *)

Enter(w) ==
  LET k == writer[w]
  IN /\ Doing(w, "planned")
     /\ Goes(w, [k EXCEPT !.at = "inside",
                          !.inTime = row[k.call.upload].life = "open"])
     /\ UNCHANGED Store

\* (A fault: the key is not looked up again under the lock.)
NeverTaken(c) == FALSE

TakenNow(c) == Taken(c)

ReplayInside(w) ==
  LET k == writer[w]
  IN /\ Doing(w, "inside")
     /\ TakenNow(k.call)
     /\ Replay(w)
     /\ UNCHANGED Store

\* (A fault: that the upload is used is read before, not under the lock.)
StillStaged(k) == row[k.call.upload].bytes = k.file /\ k.inTime

\* The row, locked and tested again.
Consumable(k) ==
  /\ row[k.call.upload].bytes = k.file
  /\ ~row[k.call.upload].used
  /\ k.inTime

Inside(w) == Doing(w, "inside") /\ ~TakenNow(writer[w].call)

RefuseUpload(w) ==
  LET k == writer[w]
  IN /\ Inside(w)
     /\ ~Consumable(k)
     /\ Refused(w)
     /\ UNCHANGED Store

Used(k) == [row EXCEPT ![k.call.upload].used = TRUE, ![k.call.upload].body = FALSE]

\* (A fault: the upload is marked used in a transaction of its own.)
StaysUsed(k) == IF Consumable(k) THEN Used(k) ELSE row

RolledBack(k) == row

\* The document is not what the change was computed from, or what a create
\* needs to be absent is there: the transaction is rolled back.
Moved(k) ==
  \/ k.call.tool = "document_edit" /\ Gen(k.call) # k.gen
  \/ k.call.tool = "document_write" /\ Text(k.call) # None

MayRetry(k) == k.call.tool = "document_edit" /\ k.att < MaxAttempts

Retry(w) ==
  LET k == writer[w]
  IN /\ Inside(w)
     /\ Consumable(k)
     /\ Moved(k)
     /\ MayRetry(k)
     /\ Goes(w, Attempt(k.call, k.att + 1))
     /\ row' = RolledBack(k)
     /\ UNCHANGED <<doc, commits>>

RefuseWrite(w) ==
  LET k == writer[w]
  IN /\ Inside(w)
     /\ Consumable(k)
     /\ Moved(k)
     /\ ~MayRetry(k)
     /\ Refused(w)
     /\ row' = RolledBack(k)
     /\ UNCHANGED <<doc, commits>>

\* A keyed change that changes nothing uses the upload and keeps the request.
Keep(w) ==
  LET k == writer[w]
  IN /\ Inside(w)
     /\ Consumable(k)
     /\ ~Moved(k)
     /\ Same(k)
     /\ row' = Used(k)
     /\ commits' = Append(commits, [call |-> k.call, file |-> k.file])
     /\ Says(w, "written")
     /\ UNCHANGED doc

Land(w) ==
  LET k == writer[w]
      d == k.call.doc
  IN /\ Inside(w)
     /\ Consumable(k)
     /\ ~Moved(k)
     /\ ~Same(k)
     /\ row' = Used(k)
     /\ commits' = Append(commits, [call |-> k.call, file |-> k.file])
     /\ doc' = IF d = None THEN doc
               ELSE [doc EXCEPT ![d] =
                       [gen |-> IF @.text = None THEN 0 ELSE @.gen + 1,
                        text |-> k.file]]
     /\ Says(w, "written")

\* A statement fails, before the commit: nothing is left of the write.
Fault(w) ==
  LET k == writer[w]
  IN /\ k.at \in {"asking", "planning", "planned", "inside"}
     /\ Refused(w)
     /\ row' = IF Inside(w) THEN RolledBack(k) ELSE row
     /\ UNCHANGED <<doc, commits>>

\* The answer is sent, or lost.
Return(w) ==
  /\ Doing(w, "answered")
  /\ Goes(w, Resting)
  /\ UNCHANGED Store

ConsumptionNext ==
  /\ \E w \in Writers :
       \/ \E c \in Calls : Begin(w, c)
       \/ LookUp(w) \/ Plan(w) \/ RefusePlan(w) \/ Enter(w)
       \/ ReplayInside(w) \/ RefuseUpload(w) \/ Retry(w) \/ RefuseWrite(w)
       \/ Keep(w) \/ Land(w) \/ Fault(w) \/ Return(w)
  /\ UNCHANGED sweeping
============================================================================
