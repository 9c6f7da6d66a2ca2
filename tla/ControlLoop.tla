---------------------------- MODULE ControlLoop ----------------------------
(***************************************************************************)
(* The control loop of zz-core: the run of the reviewed module that        *)
(* governs one initiative, and the log of facts it is judged by.           *)
(*                                                                         *)
(* Every act on a document commits first, in a transaction of its own.     *)
(* Only then, in statements that share no transaction with it or with each *)
(* other, the same call tells the loop (host/observe.ts): it reads what    *)
(* the run holds and inserts one entry.  Acts and tellings of other calls  *)
(* come in between, and a call may end anywhere.                           *)
(*                                                                         *)
(* The log only grows.  A change that displaces an approved snapshot says  *)
(* in its own entry which approval it withdraws; what was withdrawn is not *)
(* counted when the run is judged (contracts/host.ts).                     *)
(***************************************************************************)
EXTENDS Naturals, Sequences, FiniteSets

CONSTANTS
  Docs,        \* documents of the initiative
  Gated,       \* those the flow asks an approval of
  Procedure,   \* the steps of the reviewed module, each following the one before
  ClosingDoc,  \* the document a close is recorded on
  Rounds,      \* the files audit rounds may be recorded in
  Calls,       \* slots for calls in flight
  Budgets,     \* bounds: for one b of them, b[o] calls of operation o are begun
  None         \* the absent value

Ops == {"write", "edit", "approve", "audit", "close"}

\* A step writes one document, or audits one.
Step == [does: {"writes", "audits"}, doc: Docs]

Writes(d) == [does |-> "writes", doc |-> d]
Audits(d) == [does |-> "audits", doc |-> d]
Steps == {Procedure[i] : i \in 1..Len(Procedure)}

\* Which snapshot of a document: its public version, and the row within it.
Snapshot == [version: Nat, revision: Nat]
First == [version |-> 1, revision |-> 1]

\* The id one fact is recorded under, derived from the fact alone.
DocumentId(d, at) == [of |-> "document", doc |-> d, at |-> at]
ApprovalId(d, at) == [of |-> "approval", doc |-> d, at |-> at]
AuditId(r) == [of |-> "audit", round |-> r]
Id == [of: {"document", "approval"}, doc: Docs, at: Snapshot]
        \cup [of: {"audit"}, round: Rounds]

ASSUME ProcedureAssumption ==
  /\ Gated \subseteq Docs
  /\ ClosingDoc \in Docs
  /\ Procedure \in Seq(Step)
  /\ Budgets \subseteq [Ops -> Nat]
  /\ None \notin Rounds \cup Docs \cup Snapshot \cup Id

VARIABLES
  doc,       \* zz.doc: each document's current snapshot and what is approved
  rounds,    \* per file, the document its audit round supports; None: not filed
  enrolled,  \* the initiative has a run
  log,       \* zz.control_evidence of that run, in the order of seq
  closed,    \* the initiative is closed as finished
  call,      \* the call each slot runs
  left,      \* the calls of each operation still to begin
  lost,      \* documents a fact about which was never recorded
  missed,    \* documents of which an approval was to be withdrawn and was not
  judged     \* the run was judged for the close

vars == <<doc, rounds, enrolled, log, closed, call, left, lost, missed, judged>>

store == <<doc, rounds, closed, judged>>
loop  == <<enrolled, log, lost, missed>>

----------------------------------------------------------------------------
(* Snapshots, facts and entries.                                           *)

\* revision 0: the document does not exist; approved 0: never approved.
Document == [at: Snapshot, approved: Nat]

Held(d) == doc[d].at.revision # 0
Approved(d) == Held(d) /\ doc[d].approved = doc[d].at.revision

\* One fact: of its document and, but for an audit, the snapshot the act made
\* or sealed; replaced is the approved snapshot a change displaced.
Fact == [kind: {"document", "approval", "audit"}, doc: Docs,
         at: Snapshot \cup {None}, round: Rounds \cup {None},
         replaced: Snapshot \cup {None}]

\* One row of the log.  Its step is the one its kind and document name.
Entry == [id: Id, kind: {"document", "approval", "audit"}, doc: Docs,
          about: Id \cup {None}, supersedes: Id \cup {None}]

Idle == [op |-> "idle"]
Call == {Idle} \cup [op: {"tell"}, fact: Fact]
               \cup [op: {"insert"}, entry: Entry]
               \cup [op: {"close"}, judged: BOOLEAN]

TypeOK ==
  /\ doc \in [Docs -> Document]
  /\ rounds \in [Rounds -> Docs \cup {None}]
  /\ enrolled \in BOOLEAN
  /\ log \in Seq(Entry)
  /\ closed \in BOOLEAN
  /\ call \in [Calls -> Call]
  /\ left \in [Ops -> Nat]
  /\ lost \in SUBSET Docs
  /\ missed \in SUBSET Docs
  /\ judged \in BOOLEAN

Ids == {log[i].id : i \in 1..Len(log)}

----------------------------------------------------------------------------
(* Judging a run.                                                          *)

\* An entry withdraws the entries carrying an id that were recorded before it.
Withdrawn ==
  {i \in 1..Len(log) : \E j \in (i + 1)..Len(log) : log[j].supersedes = log[i].id}

Standing(kind, d) ==
  {i \in (1..Len(log)) \ Withdrawn : log[i].kind = kind /\ log[i].doc = d}

\* Those that are about a document entry that stands.
Counted(kind, d) ==
  {i \in Standing(kind, d) :
     \E p \in (1..Len(log)) \ Withdrawn :
       log[p].kind = "document" /\ log[p].id = log[i].about}

Met(step) ==
  IF step.does = "audits" THEN Counted("audit", step.doc) # {}
  ELSE /\ Standing("document", step.doc) # {}
       /\ step.doc \in Gated => Counted("approval", step.doc) # {}

\* (A fault: only the closing step's own rules are asked.)
GrantedByLast == Met(Procedure[Len(Procedure)])

\* A step has not completed while anything behind it is outstanding, however
\* far back: the closing step grants once every step is met.
Granted == \A step \in Steps : Met(step)

----------------------------------------------------------------------------
(* The acts: one transaction each, and then a fact to tell.                *)

Init ==
  /\ doc = [d \in Docs |-> [at |-> [version |-> 0, revision |-> 0], approved |-> 0]]
  /\ rounds = [r \in Rounds |-> None]
  /\ enrolled = FALSE
  /\ log = <<>>
  /\ closed = FALSE
  /\ call = [c \in Calls |-> Idle]
  /\ left \in Budgets
  /\ lost = {}
  /\ missed = {}
  /\ judged = FALSE

Begin(c, o, k) ==
  /\ call[c] = Idle
  /\ left[o] > 0
  /\ left' = [left EXCEPT ![o] = left[o] - 1]
  /\ call' = [call EXCEPT ![c] = k]

Proceed(c, k) == call' = [call EXCEPT ![c] = k] /\ UNCHANGED left

\* The step a fact is evidence for.
StepOf(fact) == IF fact.kind = "audit" THEN Audits(fact.doc) ELSE Writes(fact.doc)

\* The call an act leaves: nothing to tell when the flow declares no such step.
Telling(fact) ==
  IF StepOf(fact) \in Steps THEN [op |-> "tell", fact |-> fact] ELSE Idle

\* document_write: the document's first row.  That a closed initiative takes none
\* is asked before the transaction, so one may still commit after the close.
Write(c, d) ==
  /\ ~Held(d)
  /\ doc' = [doc EXCEPT ![d].at = First]
  /\ Begin(c, "write", Telling([kind |-> "document", doc |-> d, at |-> First,
                                round |-> None, replaced |-> None]))
  /\ UNCHANGED <<rounds, closed, judged, loop>>

\* Where a change lands: on a new version, on a new row of the same version, or
\* on the row itself; never on an approved one.
Landed(at, mode) ==
  [version  |-> IF mode = "append" THEN at.version + 1 ELSE at.version,
   revision |-> IF mode = "rewrite" THEN at.revision ELSE at.revision + 1]

\* (A fault: only a new version withdraws the approval it displaced.)
DisplacedByVersion(d, mode) == IF Approved(d) /\ mode = "append" THEN doc[d].at ELSE None

\* The approved snapshot a change displaces: the current one, if it is approved.
Displaced(d, mode) == IF Approved(d) THEN doc[d].at ELSE None

\* document_edit: the comparison under the lock makes what the change was
\* planned from what it lands on.
Edit(c, d, mode) ==
  /\ Held(d)
  /\ mode = "rewrite" => ~Approved(d)
  /\ LET at == Landed(doc[d].at, mode)
     IN /\ doc' = [doc EXCEPT ![d].at = at]
        /\ Begin(c, "edit", Telling([kind |-> "document", doc |-> d, at |-> at,
                                     round |-> None,
                                     replaced |-> Displaced(d, mode)]))
  /\ UNCHANGED <<rounds, closed, judged, loop>>

\* document_approve: the seal is on the current row, approved before or not.
Approve(c, d) ==
  /\ d \in Gated
  /\ Held(d)
  /\ doc' = [doc EXCEPT ![d].approved = doc[d].at.revision]
  /\ Begin(c, "approve", Telling([kind |-> "approval", doc |-> d, at |-> doc[d].at,
                                  round |-> None, replaced |-> None]))
  /\ UNCHANGED <<rounds, closed, judged, loop>>

\* source_add: an audit round, naming its stage and the document that audits.
AddAudit(c, r, d) ==
  /\ Audits(d) \in Steps
  /\ rounds[r] = None
  /\ rounds' = [rounds EXCEPT ![r] = d]
  /\ Begin(c, "audit", Telling([kind |-> "audit", doc |-> d, at |-> None,
                                round |-> r, replaced |-> None]))
  /\ UNCHANGED <<doc, closed, judged, loop>>

----------------------------------------------------------------------------
(* Telling the loop.                                                       *)

IdOf(fact) ==
  IF fact.kind = "audit" THEN AuditId(fact.round)
  ELSE IF fact.kind = "approval" THEN ApprovalId(fact.doc, fact.at)
  ELSE DocumentId(fact.doc, fact.at)

\* The snapshot an audit is about is read now; that of no document is the first.
ReadNow(d) == IF Held(d) THEN doc[d].at ELSE First

\* What a fact points at: an approval and an audit, a document entry.
About(fact) ==
  IF fact.kind = "document" THEN None
  ELSE DocumentId(fact.doc, IF fact.kind = "audit" THEN ReadNow(fact.doc) ELSE fact.at)

\* (A fault: a change withdraws the document entry it displaced.)
WithdrawnEntry(fact) ==
  IF fact.replaced # None /\ DocumentId(fact.doc, fact.replaced) \in Ids
  THEN DocumentId(fact.doc, fact.replaced) ELSE None

\* (A fault: the approval withdrawn is found when it is told.)
WithdrawnLatest(fact) ==
  IF fact.replaced # None /\ \E a \in Ids : a.of = "approval" /\ a.doc = fact.doc
  THEN log[CHOOSE i \in 1..Len(log) :
             /\ log[i].kind = "approval" /\ log[i].doc = fact.doc
             /\ \A j \in (i + 1)..Len(log) :
                  ~(log[j].kind = "approval" /\ log[j].doc = fact.doc)].id
  ELSE None

\* The approval of the snapshot its act displaced, when the run holds it.
Supersedes(fact) ==
  IF fact.replaced # None /\ ApprovalId(fact.doc, fact.replaced) \in Ids
  THEN ApprovalId(fact.doc, fact.replaced) ELSE None

EntryOf(fact) ==
  [id |-> IdOf(fact), kind |-> fact.kind, doc |-> fact.doc,
   about |-> About(fact), supersedes |-> Supersedes(fact)]

\* The run is opened if it is not there, and read.  A fact it holds already is
\* not recorded again -- and with it nothing that it was to withdraw.
Look(c) ==
  /\ call[c].op = "tell"
  /\ LET fact == call[c].fact
     IN /\ enrolled' = TRUE
        /\ Proceed(c, IF IdOf(fact) \in Ids THEN Idle
                      ELSE [op |-> "insert", entry |-> EntryOf(fact)])
        /\ missed' = IF /\ fact.replaced # None
                         /\ (IdOf(fact) \in Ids \/ Supersedes(fact) = None)
                      THEN missed \cup {fact.doc} ELSE missed
  /\ UNCHANGED <<store, log, lost>>

\* The insert.  A twin may have recorded the fact since: the unique key refuses
\* it, and the call fails.
Insert(c) ==
  /\ call[c].op = "insert"
  /\ log' = IF call[c].entry.id \in Ids THEN log ELSE Append(log, call[c].entry)
  /\ missed' = IF call[c].entry.id \in Ids /\ call[c].entry.supersedes # None
               THEN missed \cup {call[c].entry.doc} ELSE missed
  /\ Proceed(c, Idle)
  /\ UNCHANGED <<store, enrolled, lost>>

\* The process stops, or a statement fails, after the act has committed.
Lose(c) ==
  /\ call[c].op \in {"tell", "insert"}
  /\ lost' = lost \cup {IF call[c].op = "tell" THEN call[c].fact.doc
                                               ELSE call[c].entry.doc}
  /\ Proceed(c, Idle)
  /\ UNCHANGED <<store, enrolled, log, missed>>

----------------------------------------------------------------------------
(* initiative_close(finished)                                              *)

\* The claim, on the log as it stands.  No run is no refusal.
Claim(c) ==
  /\ ~closed
  /\ Held(ClosingDoc)
  /\ enrolled => Granted
  /\ Begin(c, "close", [op |-> "close", judged |-> enrolled])
  /\ UNCHANGED <<store, loop>>

\* The guards ask the documents themselves; then the close commits.
Close(c) ==
  /\ call[c].op = "close"
  /\ ~closed
  /\ \A d \in Gated : Held(d) => Approved(d)
  /\ closed' = TRUE
  /\ judged' = call[c].judged
  /\ Proceed(c, Idle)
  /\ UNCHANGED <<doc, rounds, loop>>

Refuse(c) ==
  /\ call[c].op = "close"
  /\ Proceed(c, Idle)
  /\ UNCHANGED <<store, loop>>

----------------------------------------------------------------------------

Act(c) ==
  \/ \E d \in Docs : \/ Write(c, d) \/ Approve(c, d)
                     \/ \E mode \in {"append", "pinned", "rewrite"} : Edit(c, d, mode)
                     \/ \E r \in Rounds : AddAudit(c, r, d)
  \/ Claim(c) \/ Close(c) \/ Refuse(c)

Tell(c) == Look(c) \/ Insert(c) \/ Lose(c)

Next == \E c \in Calls : Act(c) \/ Tell(c)

Spec == Init /\ [][Next]_vars

----------------------------------------------------------------------------

\* A fact about d is on its way to the log.
Pending(d) ==
  \E c \in Calls : \/ call[c].op = "tell" /\ call[c].fact.doc = d
                   \/ call[c].op = "insert" /\ call[c].entry.doc = d

\* observe.ts, noteRevision: the log says of a document what the document says,
\* once every fact about it is told: an approval counts if and only if the
\* current snapshot is approved, and a document entry stands, and an audit
\* counts, if and only if there is one.  Exempt are a document about which a
\* fact was lost, and one whose approval was not withdrawn when the change that
\* displaced it was told: because the approval was not told yet, or because a
\* later change had recorded the same snapshot first.
LogAgrees ==
  \A d \in Docs :
    (~Pending(d) /\ d \notin lost \cup missed) =>
      /\ Writes(d) \in Steps =>
           /\ Standing("document", d) # {} <=> Held(d)
           /\ Counted("approval", d) # {} <=> Approved(d)
           /\ \A i \in Counted("approval", d) : log[i].id = ApprovalId(d, doc[d].at)
      /\ {Writes(d), Audits(d)} \subseteq Steps =>
           (Counted("audit", d) # {} <=> Held(d) /\ \E r \in Rounds : rounds[r] = d)

\* observe.ts, evidenceEntryId: the approval of the snapshot approved now is
\* withdrawn by nothing, however late the change that displaced an earlier one
\* is told.
ApprovalOfCurrentStands ==
  \A d \in Docs : Approved(d) =>
    \A i \in Withdrawn : log[i].id # ApprovalId(d, doc[d].at)

\* store.ts, judgeClaim: a close the run was judged for is of a procedure that
\* was gone through: what its steps write was written, and what they audit was
\* audited.
JudgedCloseWasEarned ==
  (closed /\ judged) =>
    /\ \A d \in Docs : Writes(d) \in Steps => Held(d)
    /\ \A d \in Docs : Audits(d) \in Steps => \E r \in Rounds : rounds[r] = d

\* observe.ts, noteRevision: a change withdraws an approval and nothing else: a
\* step that waits for none, once met, stays met.
MetStays ==
  [][\A step \in Steps :
       (Met(step) /\ ~(step.does = "writes" /\ step.doc \in Gated)) => Met(step)']_vars
=============================================================================
