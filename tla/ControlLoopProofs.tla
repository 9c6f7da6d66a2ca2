------------------------- MODULE ControlLoopProofs -------------------------
(***************************************************************************)
(* Proofs about ControlLoop, for every set of documents, every procedure   *)
(* and any number of calls.                                                *)
(***************************************************************************)
EXTENDS ControlLoop, TLAPS

\* Call c carries the fact, or the entry, that is recorded under id.
Carries(c, id) == \/ call[c].op = "tell" /\ IdOf(call[c].fact) = id
                  \/ call[c].op = "insert" /\ call[c].entry.id = id

\* Call c is to say something of document d.
Concerns(c, d) == \/ call[c].op = "tell" /\ call[c].fact.doc = d
                  \/ call[c].op = "insert" /\ call[c].entry.doc = d

\* A fact about d is recorded under id, or will be, or one about d was lost.
Accounted(id, d) == \/ id \in Ids
                    \/ \E c \in Calls : Carries(c, id) /\ Concerns(c, d)
                    \/ d \in lost

\* What an approval or an audit of d points at.
Grounded(id, d) ==
  \E S \in Snapshot :
    /\ id = DocumentId(d, S)
    /\ Writes(d) \in Steps => Accounted(id, d) \/ (~Held(d) /\ S = First)

\* The approval of snapshot S of d was given.
Sealed(d, S) == \/ ApprovalId(d, S) \in Ids
                \/ \E c \in Calls : Carries(c, ApprovalId(d, S))

\* Call c is to withdraw the approval of snapshot S of d.
Withdraws(c, d, S) ==
  /\ Concerns(c, d)
  /\ \/ call[c].op = "tell" /\ call[c].fact.replaced = S
     \/ call[c].op = "insert" /\ call[c].entry.supersedes = ApprovalId(d, S)

\* That approval is withdrawn, or will be, or is known not to have been.
Cleared(d, S) == \/ \E j \in 1..Len(log) : log[j].supersedes = ApprovalId(d, S)
                 \/ \E c \in Calls : Withdraws(c, d, S)
                 \/ d \in lost \cup missed

Past(S, d) == S \in Snapshot /\ S.revision < doc[d].at.revision

FactSound(f) ==
  /\ StepOf(f) \in Steps
  /\ IF f.kind = "audit" THEN f.round \in Rounds /\ rounds[f.round] = f.doc
                         ELSE f.at \in Snapshot /\ Held(f.doc)
  /\ f.kind = "approval" => Grounded(DocumentId(f.doc, f.at), f.doc)
  /\ f.replaced # None => Past(f.replaced, f.doc)

EntrySound(e) ==
  /\ e.kind = e.id.of
  /\ IF e.kind = "audit" THEN rounds[e.id.round] = e.doc
                         ELSE e.id.doc = e.doc /\ Held(e.doc)
  /\ e.kind # "document" => Grounded(e.about, e.doc)
  /\ e.supersedes # None =>
       /\ e.supersedes \in Ids
       /\ \E S \in Snapshot : e.supersedes = ApprovalId(e.doc, S) /\ Past(S, e.doc)

\* Call c is to tell fact f; the log holds entry e, or a call is to insert it.
Tells(c, f) == call[c].op = "tell" /\ call[c].fact = f
Inserts(c, e) == call[c].op = "insert" /\ call[c].entry = e
Logged(e) == \E i \in 1..Len(log) : log[i] = e

Sound == /\ \A f \in Fact : (\E c \in Calls : Tells(c, f)) => FactSound(f)
         /\ \A e \in Entry :
              (Logged(e) \/ \E c \in Calls : Inserts(c, e)) => EntrySound(e)

\* The ids of the log are unique, and an entry withdraws earlier ones only.
LogOrdered ==
  \A j \in 1..Len(log) :
    /\ \A i \in 1..Len(log) : log[i].id = log[j].id => i = j
    /\ log[j].supersedes # None =>
         \E i \in 1..(j - 1) : log[i].id = log[j].supersedes

\* Nothing that was done is forgotten.
AllTold ==
  \A d \in Docs :
    /\ \A S \in Snapshot : (Writes(d) \in Steps /\ doc[d].at = S) =>
         /\ Held(d) => Accounted(DocumentId(d, S), d)
         /\ Approved(d) => Accounted(ApprovalId(d, S), d)
    /\ Audits(d) \in Steps =>
         \A r \in Rounds : rounds[r] = d => Accounted(AuditId(r), d)

\* No approval is of a row that is yet to come.
NotAhead == \A d \in Docs : doc[d].approved <= doc[d].at.revision

\* An approval that was given stands for the current snapshot, or is cleared.
AllCleared ==
  \A d \in Docs, S \in Snapshot :
    (Writes(d) \in Steps /\ Sealed(d, S)) =>
      (Approved(d) /\ S = doc[d].at) \/ Cleared(d, S)

Earned == /\ \A d \in Docs : Writes(d) \in Steps => Held(d)
          /\ \A d \in Docs : Audits(d) \in Steps => \E r \in Rounds : rounds[r] = d

ClosesEarned == /\ closed /\ judged => Earned
                /\ \A c \in Calls : (call[c].op = "close" /\ call[c].judged) => Earned

LoopInv == /\ TypeOK /\ Sound /\ LogOrdered /\ NotAhead /\ AllTold /\ AllCleared
           /\ ClosesEarned

----------------------------------------------------------------------------
(* Ids and calls.                                                          *)

\* None is none of what may be absent.
LEMMA NoneApart == None \notin Rounds /\ None \notin Docs /\ None \notin Snapshot
                     /\ None \notin Id
  BY ProcedureAssumption

\* An id names one fact.
LEMMA IdsApart ==
  /\ \A d, S : ApprovalId(d, S).of = "approval" /\ ApprovalId(d, S).doc = d
                 /\ ApprovalId(d, S).at = S
  /\ \A d, S : DocumentId(d, S).of = "document" /\ DocumentId(d, S).doc = d
                 /\ DocumentId(d, S).at = S
  /\ \A r : AuditId(r).of = "audit" /\ AuditId(r).round = r
  /\ \A d, S, e, T : DocumentId(d, S) # ApprovalId(e, T)
  /\ \A d, S, r : DocumentId(d, S) # AuditId(r) /\ ApprovalId(d, S) # AuditId(r)
  <1>1. \A d, S : ApprovalId(d, S).of = "approval" /\ ApprovalId(d, S).doc = d
                 /\ ApprovalId(d, S).at = S
    BY DEF ApprovalId
  <1>2. \A d, S : DocumentId(d, S).of = "document" /\ DocumentId(d, S).doc = d
                 /\ DocumentId(d, S).at = S
    BY DEF DocumentId
  <1>3. \A r : AuditId(r).of = "audit" /\ AuditId(r).round = r
    BY DEF AuditId
  <1>4. \A d, S, e, T : DocumentId(d, S) # ApprovalId(e, T)
    <2>1. SUFFICES ASSUME NEW d, NEW S, NEW e, NEW T, DocumentId(d, S) = ApprovalId(e, T)
                   PROVE FALSE
      OBVIOUS
    <2>2. DocumentId(d, S).of = ApprovalId(e, T).of
      BY <2>1
    <2>3. QED BY <1>1, <1>2, <2>2
  <1>5. \A d, S, r : DocumentId(d, S) # AuditId(r) /\ ApprovalId(d, S) # AuditId(r)
    <2>1. SUFFICES ASSUME NEW d, NEW S, NEW r,
                          DocumentId(d, S) = AuditId(r) \/ ApprovalId(d, S) = AuditId(r)
                   PROVE FALSE
      OBVIOUS
    <2>2. DocumentId(d, S).of = AuditId(r).of \/ ApprovalId(d, S).of = AuditId(r).of
      BY <2>1
    <2>3. QED BY <1>1, <1>2, <1>3, <2>2
  <1>6. QED BY <1>1, <1>2, <1>3, <1>4, <1>5

\* Ids are of their type.
LEMMA IdsTyped ==
  /\ \A d \in Docs, S \in Snapshot : DocumentId(d, S) \in Id /\ ApprovalId(d, S) \in Id
  /\ \A r \in Rounds : AuditId(r) \in Id
  BY DEF DocumentId, ApprovalId, AuditId, Id

\* What a call carries, by what it does.
LEMMA CallsTyped ==
  ASSUME NEW k \in Call
  PROVE  /\ k.op \in {"idle", "tell", "insert", "close"}
         /\ k.op = "tell" => k.fact \in Fact
         /\ k.op = "insert" => k.entry \in Entry
         /\ k.op = "close" => k.judged \in BOOLEAN
  BY DEF Call, Idle

\* A fact's parts.
LEMMA FactsTyped ==
  ASSUME NEW f \in Fact
  PROVE  /\ f.kind \in {"document", "approval", "audit"} /\ f.doc \in Docs
         /\ f.at \in Snapshot \cup {None} /\ f.round \in Rounds \cup {None}
         /\ f.replaced \in Snapshot \cup {None}
  BY DEF Fact

\* An entry's parts.
LEMMA EntriesTyped ==
  ASSUME NEW e \in Entry
  PROVE  /\ e.id \in Id /\ e.kind \in {"document", "approval", "audit"} /\ e.doc \in Docs
         /\ e.about \in Id \cup {None} /\ e.supersedes \in Id \cup {None}
  BY DEF Entry

\* Where a change lands, after where it was.
LEMMA LandedTyped ==
  ASSUME NEW at \in Snapshot, NEW mode
  PROVE  /\ Landed(at, mode) \in Snapshot
         /\ Landed(at, mode).revision >= at.revision
         /\ mode # "rewrite" => Landed(at, mode).revision > at.revision
         /\ mode = "rewrite" => Landed(at, mode) = at
  BY DEF Landed, Snapshot

\* What an act leaves to tell is a call.
LEMMA TellingTyped ==
  ASSUME NEW f \in Fact
  PROVE  /\ Telling(f) \in Call
         /\ Telling(f).op \in {"idle", "tell"}
         /\ Telling(f).op = "tell" => Telling(f).fact = f /\ StepOf(f) \in Steps
         /\ StepOf(f) \in Steps => Telling(f).op = "tell"
  BY DEF Telling, Call, Idle

----------------------------------------------------------------------------
(* What every step keeps.                                                  *)

\* A call that has something to tell is moved by telling only.
LEMMA TellingMoves ==
  ASSUME NEW c \in Calls, Act(c) \/ Tell(c), TypeOK
  PROVE  /\ \A k \in Calls : k # c => call'[k] = call[k]
         /\ call[c].op \in {"tell", "insert"} => Tell(c)
  <1>1. ASSUME Act(c)
        PROVE  /\ \A k \in Calls : k # c => call'[k] = call[k]
               /\ call[c].op \in {"idle", "close"}
    <2>1. \/ \E o, k : Begin(c, o, k)
          \/ call[c].op = "close" /\ \E k : Proceed(c, k)
      BY <1>1 DEF Act, Write, Edit, Approve, AddAudit, Claim, Close, Refuse
    <2>2. \E k : call' = [call EXCEPT ![c] = k]
      BY <2>1 DEF Begin, Proceed
    <2>3. call[c].op \in {"idle", "close"}
      BY <2>1 DEF Begin, Idle
    <2>4. QED BY <2>2, <2>3 DEF TypeOK
  <1>2. ASSUME Tell(c)
        PROVE  \A k \in Calls : k # c => call'[k] = call[k]
    BY <1>2 DEF TypeOK, Tell, Look, Insert, Lose, Proceed
  <1>3. QED BY <1>1, <1>2

\* One document, moved to another snapshot.
LEMMA DocumentMoved ==
  ASSUME NEW x \in Document, NEW S \in Snapshot
  PROVE  /\ [x EXCEPT !.at = S] \in Document /\ [x EXCEPT !.at = S].at = S
         /\ [x EXCEPT !.at = S].approved = x.approved
         /\ x.at \in Snapshot /\ x.at.revision \in Nat /\ x.approved \in Nat
  BY DEF Document, Snapshot

\* One document, approved.
LEMMA DocumentApproved ==
  ASSUME NEW x \in Document
  PROVE  LET y == [x EXCEPT !.approved = x.at.revision]
         IN  y \in Document /\ y.at = x.at /\ y.approved = x.at.revision
  BY DEF Document, Snapshot

\* A document grows older.
LEMMA DocumentsGrow ==
  ASSUME TypeOK, [Next]_vars
  PROVE  /\ doc' \in [Docs -> Document]
         /\ \A d \in Docs : /\ doc[d].at.revision \in Nat /\ doc'[d].at.revision \in Nat
                            /\ doc'[d].at.revision >= doc[d].at.revision
                            /\ Held(d) => Held(d)'
  <1>a. doc \in [Docs -> Document]
    BY DEF TypeOK
  <1>b. \A d \in Docs : doc[d] \in Document /\ doc[d].at \in Snapshot
                         /\ doc[d].at.revision \in Nat
    BY <1>a DEF Document, Snapshot
  <1>1. ASSUME NEW d \in Docs, NEW x \in Document, doc' = [doc EXCEPT ![d] = x],
               x.at.revision >= doc[d].at.revision
        PROVE  /\ doc' \in [Docs -> Document]
               /\ \A e \in Docs : doc'[e].at.revision >= doc[e].at.revision
    BY <1>1, <1>a, <1>b
  <1>2. ASSUME NEW c \in Calls, NEW d \in Docs, Write(c, d)
        PROVE  \E x \in Document : /\ doc' = [doc EXCEPT ![d] = x]
                                  /\ x.at.revision >= doc[d].at.revision
    <2>1. First \in Snapshot
      BY DEF First, Snapshot
    <2> DEFINE x == [doc[d] EXCEPT !.at = First]
    <2>2. doc[d].at.revision = 0 /\ doc' = [doc EXCEPT ![d] = x]
      BY <1>2 DEF Write, Held
    <2>3. x \in Document /\ x.at = First
      BY <1>b, <2>1, DocumentMoved
    <2> HIDE DEF x
    <2>4. x.at.revision >= doc[d].at.revision
      BY <2>2, <2>3 DEF First
    <2>5. QED BY <2>2, <2>3, <2>4
  <1>3. ASSUME NEW c \in Calls, NEW d \in Docs, NEW mode, Edit(c, d, mode)
        PROVE  \E x \in Document : /\ doc' = [doc EXCEPT ![d] = x]
                                  /\ x.at.revision >= doc[d].at.revision
    <2> DEFINE x == [doc[d] EXCEPT !.at = Landed(doc[d].at, mode)]
    <2>1. doc' = [doc EXCEPT ![d] = x]
      BY <1>3 DEF Edit
    <2>2. /\ Landed(doc[d].at, mode) \in Snapshot
          /\ Landed(doc[d].at, mode).revision >= doc[d].at.revision
      BY LandedTyped, <1>b
    <2>3. x \in Document /\ x.at = Landed(doc[d].at, mode)
      BY <1>b, <2>2, DocumentMoved
    <2> HIDE DEF x
    <2>4. QED BY <2>1, <2>2, <2>3
  <1>4. ASSUME NEW c \in Calls, NEW d \in Docs, Approve(c, d)
        PROVE  \E x \in Document : /\ doc' = [doc EXCEPT ![d] = x]
                                  /\ x.at.revision >= doc[d].at.revision
    <2> DEFINE x == [doc[d] EXCEPT !.approved = doc[d].at.revision]
    <2>1. doc' = [doc EXCEPT ![d] = x]
      BY <1>4 DEF Approve
    <2>2. x \in Document /\ x.at = doc[d].at
      BY <1>b, DocumentApproved
    <2> HIDE DEF x
    <2>3. x.at.revision >= doc[d].at.revision
      BY <1>b, <2>2
    <2>4. QED BY <2>1, <2>2, <2>3
  <1>5. \/ UNCHANGED doc
        \/ \E c \in Calls, d \in Docs : \/ Write(c, d) \/ Approve(c, d)
                                        \/ \E mode : Edit(c, d, mode)
    BY DEF Next, Act, Tell, Look, Insert, Lose, Claim, Close, Refuse, AddAudit, store, vars
  <1>6. /\ doc' \in [Docs -> Document]
        /\ \A e \in Docs : doc'[e].at.revision >= doc[e].at.revision
    BY <1>a, <1>b, <1>1, <1>2, <1>3, <1>4, <1>5
  <1>7. \A d \in Docs : doc'[d].at.revision \in Nat
    BY <1>6 DEF Document, Snapshot
  <1>8. QED BY <1>b, <1>6, <1>7 DEF Held

\* A filed round stays filed, and what is lost or missed is so for good.
LEMMA MarksStay ==
  ASSUME TypeOK, [Next]_vars
  PROVE  /\ \A r \in Rounds : rounds[r] # None => rounds'[r] = rounds[r]
         /\ rounds' \in [Rounds -> Docs \cup {None}]
         /\ lost \subseteq lost' /\ missed \subseteq missed'
  <1>1. CASE UNCHANGED <<rounds, lost, missed>>
    BY <1>1 DEF TypeOK
  <1>2. ASSUME NEW c \in Calls, NEW d \in Docs, NEW r \in Rounds, AddAudit(c, r, d)
        PROVE  /\ \A s \in Rounds : rounds[s] # None => rounds'[s] = rounds[s]
               /\ rounds' \in [Rounds -> Docs \cup {None}]
               /\ UNCHANGED <<lost, missed>>
    BY <1>2 DEF AddAudit, TypeOK, loop
  <1>3. ASSUME NEW c \in Calls, Tell(c)
        PROVE  UNCHANGED rounds /\ lost \subseteq lost' /\ missed \subseteq missed'
    BY <1>3 DEF Tell, Look, Insert, Lose, store
  <1>4. QED
    BY <1>1, <1>2, <1>3 DEF TypeOK, Next, Act, Write, Edit, Approve, Claim, Close, Refuse,
                            loop, store, vars

\* The log keeps its entries where they are; it grows by the entry of a call.
LEMMA LogGrows ==
  ASSUME TypeOK, [Next]_vars
  PROVE  /\ \/ log' = log
            \/ \E c \in Calls : /\ call[c].op = "insert" /\ Insert(c)
                                /\ call[c].entry \in Entry /\ call[c].entry.id \notin Ids
                                /\ log' = Append(log, call[c].entry)
         /\ log' \in Seq(Entry)
         /\ Len(log') >= Len(log)
         /\ \A i \in 1..Len(log) : log'[i] = log[i]
  <1>1. ASSUME log' = log
        PROVE  /\ log' \in Seq(Entry)
               /\ Len(log') >= Len(log)
               /\ \A i \in 1..Len(log) : log'[i] = log[i]
    BY <1>1 DEF TypeOK
  <1>2. ASSUME NEW e \in Entry, log' = Append(log, e)
        PROVE  /\ log' \in Seq(Entry)
               /\ Len(log') >= Len(log)
               /\ \A i \in 1..Len(log) : log'[i] = log[i]
    BY <1>2 DEF TypeOK
  <1>3. ASSUME NEW c \in Calls, Insert(c)
        PROVE  \/ log' = log
               \/ /\ call[c].op = "insert" /\ Insert(c)
                  /\ call[c].entry \in Entry /\ call[c].entry.id \notin Ids
                  /\ log' = Append(log, call[c].entry)
    <2>1. call[c] \in Call
      BY DEF TypeOK
    <2>2. QED BY <1>3, <2>1, CallsTyped DEF Insert
  <1>4. \/ log' = log
        \/ \E c \in Calls : Insert(c)
    BY DEF Next, Act, Tell, Look, Lose, Write, Edit, Approve, AddAudit, Claim, Close, Refuse,
           loop, vars
  <1>5. QED BY <1>1, <1>2, <1>3, <1>4

\* So what the log holds it keeps.
LEMMA IdsGrow ==
  ASSUME TypeOK, [Next]_vars
  PROVE  Ids \subseteq Ids'
  <1>1. /\ Len(log') >= Len(log) /\ Len(log) \in Nat /\ Len(log') \in Nat
        /\ \A i \in 1..Len(log) : log'[i] = log[i]
    BY LogGrows DEF TypeOK
  <1>2. QED BY <1>1 DEF Ids

\* What telling does with what a call carries: it goes on as an entry, or the
\* log holds it, or it is lost.
LEMMA LookPasses ==
  ASSUME TypeOK, NEW c \in Calls, Look(c)
  PROVE  /\ call[c].op = "tell" /\ call[c].fact \in Fact
         /\ \/ IdOf(call[c].fact) \in Ids /\ call'[c] = Idle
            \/ /\ IdOf(call[c].fact) \notin Ids
               /\ call'[c] = [op |-> "insert", entry |-> EntryOf(call[c].fact)]
  <1>1. call[c] \in Call
    BY DEF TypeOK
  <1>2. QED BY <1>1, CallsTyped DEF Look, Proceed, TypeOK

LEMMA InsertRecords ==
  ASSUME TypeOK, NEW c \in Calls, Insert(c)
  PROVE  /\ call[c].op = "insert" /\ call[c].entry \in Entry
         /\ call[c].entry.id \in Ids'
         /\ call'[c] = Idle
  <1>1. call[c] \in Call
    BY DEF TypeOK
  <1>2. call[c].op = "insert" /\ call[c].entry \in Entry /\ call'[c] = Idle
    BY <1>1, CallsTyped DEF Insert, Proceed, TypeOK
  <1>3. CASE call[c].entry.id \in Ids
    <2>1. Next
      BY DEF Next, Tell
    <2>2. QED BY <1>2, <1>3, <2>1, IdsGrow
  <1>4. CASE call[c].entry.id \notin Ids
    <2>1. log' = Append(log, call[c].entry)
      BY <1>4 DEF Insert
    <2>2. Len(log) + 1 \in 1..Len(log') /\ log'[Len(log) + 1] = call[c].entry
      BY <2>1, <1>2 DEF TypeOK
    <2>3. log'[Len(log) + 1].id \in {log'[i].id : i \in 1..Len(log')}
      BY <2>2
    <2>4. QED BY <1>2, <2>2, <2>3 DEF Ids
  <1>5. QED BY <1>2, <1>3, <1>4

LEMMA AccountedStays ==
  ASSUME TypeOK, [Next]_vars, NEW id, NEW d \in Docs, Accounted(id, d)
  PROVE  Accounted(id, d)'
  <1>1. CASE id \in Ids
    BY <1>1, IdsGrow DEF Accounted
  <1>2. CASE d \in lost
    BY <1>2, MarksStay DEF Accounted
  <1>3. CASE \E c \in Calls : Carries(c, id) /\ Concerns(c, d)
    <2>1. PICK c \in Calls : Carries(c, id) /\ Concerns(c, d)
      BY <1>3
    <2>2. CASE call'[c] = call[c]
      BY <2>1, <2>2 DEF Accounted, Carries, Concerns
    <2>3. CASE Look(c)
      <3>1. IdOf(call[c].fact) = id /\ call[c].fact.doc = d
        BY <2>1, <2>3 DEF Carries, Concerns, Look
      <3>2. CASE id \in Ids
        BY <3>2, <1>1
      <3>3. CASE call'[c] = [op |-> "insert", entry |-> EntryOf(call[c].fact)]
        BY <3>1, <3>3 DEF Accounted, Carries, Concerns, EntryOf
      <3>4. QED BY <2>3, <3>1, <3>2, <3>3, LookPasses
    <2>4. CASE Insert(c)
      <3>1. call[c].entry.id = id
        BY <2>1, <2>4 DEF Carries, Insert
      <3>2. QED BY <2>4, <3>1, InsertRecords DEF Accounted
    <2>5. CASE Lose(c)
      BY <2>1, <2>5 DEF Lose, Concerns, Accounted
    <2>6. QED
      BY <2>1, <2>2, <2>3, <2>4, <2>5, TellingMoves DEF Next, Tell, Carries, vars
  <1>4. QED BY <1>1, <1>2, <1>3 DEF Accounted

LEMMA ClearedStays ==
  ASSUME TypeOK, [Next]_vars, NEW d \in Docs, NEW S \in Snapshot, Cleared(d, S)
  PROVE  Cleared(d, S)'
  <1>a. S # None
    BY NoneApart
  <1>b. ApprovalId(d, S) # None
    BY NoneApart, IdsTyped
  <1>1. CASE \E j \in 1..Len(log) : log[j].supersedes = ApprovalId(d, S)
    <2>1. PICK j \in 1..Len(log) : log[j].supersedes = ApprovalId(d, S)
      BY <1>1
    <2>2. j \in 1..Len(log') /\ log'[j] = log[j]
      BY LogGrows DEF TypeOK
    <2>3. QED BY <2>1, <2>2 DEF Cleared, ApprovalId
  <1>2. CASE d \in lost \cup missed
    BY <1>2, MarksStay DEF Cleared
  <1>3. CASE \E c \in Calls : Withdraws(c, d, S)
    <2>1. PICK c \in Calls : Withdraws(c, d, S)
      BY <1>3
    <2>2. CASE call'[c] = call[c]
      BY <2>1, <2>2 DEF Cleared, Withdraws, Concerns, ApprovalId
    <2>3. CASE Look(c)
      <3>1. call[c].fact.doc = d /\ call[c].fact.replaced = S
        BY <2>1, <2>3 DEF Withdraws, Concerns, Look
      <3>2. CASE IdOf(call[c].fact) \in Ids \/ Supersedes(call[c].fact) = None
        <4>1. d \in missed'
          BY <2>3, <3>1, <3>2, <1>a DEF Look
        <4>2. QED BY <4>1 DEF Cleared
      <3>3. CASE IdOf(call[c].fact) \notin Ids /\ Supersedes(call[c].fact) # None
        <4>1. Supersedes(call[c].fact) = ApprovalId(d, S)
          BY <3>1, <3>3 DEF Supersedes
        <4>2. call'[c] = [op |-> "insert", entry |-> EntryOf(call[c].fact)]
          BY <2>3, <3>3, LookPasses
        <4>3. /\ call'[c].op = "insert" /\ call'[c].entry.doc = d
              /\ call'[c].entry.supersedes = ApprovalId(d, S)
          BY <4>1, <4>2, <3>1 DEF EntryOf
        <4>4. QED BY <4>3 DEF Cleared, Withdraws, Concerns, ApprovalId
      <3>4. QED BY <3>2, <3>3
    <2>4. CASE Insert(c)
      <3>1. call[c].entry.doc = d /\ call[c].entry.supersedes = ApprovalId(d, S)
        BY <2>1, <2>4 DEF Withdraws, Concerns, Insert
      <3>2. CASE call[c].entry.id \in Ids
        <4>1. d \in missed'
          BY <2>4, <3>1, <3>2, <1>b DEF Insert
        <4>2. QED BY <4>1 DEF Cleared
      <3>3. CASE call[c].entry.id \notin Ids
        <4>1. call[c].entry \in Entry
          BY <2>4, InsertRecords
        <4>2. log' = Append(log, call[c].entry)
          BY <2>4, <3>3 DEF Insert
        <4>3. /\ Len(log) + 1 \in 1..Len(log')
              /\ log'[Len(log) + 1].supersedes = ApprovalId(d, S)
          BY <3>1, <4>1, <4>2 DEF TypeOK
        <4>4. QED BY <4>3 DEF Cleared, ApprovalId
      <3>4. QED BY <3>2, <3>3
    <2>5. CASE Lose(c)
      <3>1. d \in lost'
        BY <2>1, <2>5 DEF Lose, Withdraws, Concerns
      <3>2. QED BY <3>1 DEF Cleared
    <2>6. QED
      BY <2>1, <2>2, <2>3, <2>4, <2>5, TellingMoves DEF Next, Tell, Withdraws, Concerns, vars
  <1>4. QED BY <1>1, <1>2, <1>3 DEF Cleared

----------------------------------------------------------------------------
(* What is told is sound, and stays so.                                    *)

\* A document comes to be by being written.
LEMMA HeldByWriting ==
  ASSUME TypeOK, [Next]_vars, NEW d \in Docs, ~Held(d), Held(d)'
  PROVE  \E c \in Calls : Write(c, d)
  <1>1. ASSUME NEW e \in Docs, doc' = [doc EXCEPT ![e].approved = doc[e].at.revision]
        PROVE  doc'[d].at = doc[d].at
    BY <1>1 DEF TypeOK, Document
  <1>2. ASSUME NEW e \in Docs, e # d, NEW S, doc' = [doc EXCEPT ![e].at = S]
        PROVE  doc'[d] = doc[d]
    BY <1>2 DEF TypeOK
  <1>3. ASSUME NEW c \in Calls, NEW e \in Docs, NEW mode, Edit(c, e, mode)
        PROVE  e # d /\ doc' = [doc EXCEPT ![e].at = Landed(doc[e].at, mode)]
    BY <1>3 DEF Edit
  <1>4. ASSUME NEW c \in Calls, NEW e \in Docs, Approve(c, e)
        PROVE  FALSE
    BY <1>1, <1>4 DEF Approve, Held
  <1>5. ASSUME NEW c \in Calls, NEW e \in Docs, e # d, Write(c, e)
        PROVE  FALSE
    BY <1>2, <1>5 DEF Write, Held
  <1>6. ASSUME NEW c \in Calls, NEW e \in Docs, NEW mode, Edit(c, e, mode)
        PROVE  FALSE
    BY <1>2, <1>3, <1>6 DEF Held
  <1>7. doc' # doc
    BY DEF Held
  <1>8. \E c \in Calls, e \in Docs : \/ Write(c, e) \/ Approve(c, e)
                                     \/ \E mode : Edit(c, e, mode)
    BY <1>7 DEF Next, Act, Tell, Look, Insert, Lose, Claim, Close, Refuse, AddAudit, store, vars
  <1>9. QED BY <1>4, <1>5, <1>6, <1>8

\* The document's first entry is on its way from then on.
LEMMA WritingTells ==
  ASSUME TypeOK, NEW c \in Calls, NEW d \in Docs, Write(c, d), Writes(d) \in Steps
  PROVE  Accounted(DocumentId(d, First), d)'
  <1> DEFINE f == [kind |-> "document", doc |-> d, at |-> First, round |-> None,
                   replaced |-> None]
  <1>1. call'[c] = Telling(f)
    BY DEF Write, Begin, TypeOK
  <1>2. Telling(f) = [op |-> "tell", fact |-> f]
    BY DEF Telling, StepOf
  <1>3. IdOf(f) = DocumentId(d, First) /\ f.doc = d
    BY DEF IdOf
  <1> HIDE DEF f
  <1>4. call'[c].op = "tell" /\ IdOf(call'[c].fact) = DocumentId(d, First)
          /\ call'[c].fact.doc = d
    BY <1>1, <1>2, <1>3
  <1>5. QED BY <1>4 DEF Accounted, Carries, Concerns, IdOf, DocumentId, ApprovalId, AuditId

LEMMA PastStays ==
  ASSUME TypeOK, [Next]_vars, NEW d \in Docs, NEW S, Past(S, d)
  PROVE  Past(S, d)'
  BY DocumentsGrow DEF Past, Snapshot

LEMMA GroundedStays ==
  ASSUME TypeOK, [Next]_vars, NEW d \in Docs, NEW id, Grounded(id, d)
  PROVE  Grounded(id, d)'
  <1>1. PICK S \in Snapshot :
          /\ id = DocumentId(d, S)
          /\ Writes(d) \in Steps => Accounted(id, d) \/ (~Held(d) /\ S = First)
    BY DEF Grounded
  <1>2. CASE Writes(d) \in Steps
    <2>1. CASE Accounted(id, d)
      BY <1>1, <2>1, AccountedStays DEF Grounded, DocumentId
    <2>2. CASE ~Held(d) /\ S = First
      <3>1. CASE Held(d)'
        BY <1>1, <1>2, <2>2, <3>1, HeldByWriting, WritingTells DEF Grounded, DocumentId
      <3>2. CASE ~Held(d)'
        BY <1>1, <2>2, <3>2 DEF Grounded, DocumentId
      <3>3. QED BY <3>1, <3>2
    <2>3. QED BY <1>1, <1>2, <2>1, <2>2
  <1>3. CASE Writes(d) \notin Steps
    BY <1>1, <1>3 DEF Grounded, DocumentId, Writes, Steps
  <1>4. QED BY <1>2, <1>3

LEMMA FactSoundStays ==
  ASSUME TypeOK, [Next]_vars, NEW f \in Fact, FactSound(f)
  PROVE  FactSound(f)'
  <1>1. f.doc \in Docs
    BY FactsTyped
  <1>2. f.doc # None
    BY <1>1, NoneApart
  <1>3. f.kind = "audit" => rounds'[f.round] = f.doc
    BY <1>2, MarksStay DEF FactSound
  <1>4. f.kind # "audit" => f.at \in Snapshot /\ Held(f.doc)'
    BY <1>1, DocumentsGrow DEF FactSound
  <1>5. f.kind = "approval" => Grounded(DocumentId(f.doc, f.at), f.doc)'
    BY <1>1, GroundedStays DEF FactSound
  <1>6. f.replaced # None => Past(f.replaced, f.doc)'
    BY <1>1, PastStays DEF FactSound
  <1>7. QED BY <1>3, <1>4, <1>5, <1>6 DEF FactSound, StepOf, Steps, Writes, Audits

LEMMA EntrySoundStays ==
  ASSUME TypeOK, [Next]_vars, NEW e \in Entry, EntrySound(e)
  PROVE  EntrySound(e)'
  <1>1. e.doc \in Docs /\ e.doc # None
    BY EntriesTyped, NoneApart
  <1>2. e.kind = "audit" => rounds'[e.id.round] = e.doc
    <2>1. e.kind = "audit" => e.id.round \in Rounds
      BY EntriesTyped DEF EntrySound, Id
    <2>2. QED BY <1>1, <2>1, MarksStay DEF EntrySound
  <1>3. e.kind # "audit" => e.id.doc = e.doc /\ Held(e.doc)'
    BY <1>1, DocumentsGrow DEF EntrySound
  <1>4. e.kind # "document" => Grounded(e.about, e.doc)'
    BY <1>1, GroundedStays DEF EntrySound
  <1>5. e.supersedes # None =>
          /\ e.supersedes \in Ids'
          /\ \E S \in Snapshot : e.supersedes = ApprovalId(e.doc, S) /\ Past(S, e.doc)'
    BY <1>1, IdsGrow, PastStays DEF EntrySound
  <1>6. QED BY <1>2, <1>3, <1>4, <1>5 DEF EntrySound, ApprovalId

\* What looking makes of a fact.
LEMMA LookSound ==
  ASSUME TypeOK, AllTold, NEW f \in Fact, FactSound(f)
  PROVE  EntryOf(f) \in Entry /\ EntrySound(EntryOf(f))
  <1> DEFINE e == EntryOf(f)
  <1>a. /\ e.id = IdOf(f) /\ e.kind = f.kind /\ e.doc = f.doc
        /\ e.about = About(f) /\ e.supersedes = Supersedes(f)
    BY DEF EntryOf
  <1>b. f.kind \in {"document", "approval", "audit"} /\ f.doc \in Docs
    BY FactsTyped
  <1>c. ReadNow(f.doc) \in Snapshot
    BY <1>b DEF ReadNow, First, Snapshot, TypeOK, Document
  <1>1. IdOf(f) \in Id /\ IdOf(f).of = f.kind
    BY <1>b, IdsApart, IdsTyped DEF IdOf, FactSound
  <1>2. About(f) \in Id \cup {None}
    BY <1>b, <1>c, IdsTyped DEF About, FactSound
  <1>3. Supersedes(f) # None =>
          /\ Supersedes(f) \in Ids
          /\ f.replaced \in Snapshot /\ Past(f.replaced, f.doc)
          /\ Supersedes(f) = ApprovalId(f.doc, f.replaced)
    BY DEF Supersedes, FactSound, Past
  <1>4. Supersedes(f) \in Id \cup {None}
    BY <1>b, <1>3, IdsTyped
  <1>5. e \in Entry
    BY <1>b, <1>1, <1>2, <1>4 DEF EntryOf, Entry
  <1>6. f.kind = "audit" => rounds[IdOf(f).round] = f.doc
    BY IdsApart DEF IdOf, FactSound
  <1>7. f.kind # "audit" => IdOf(f).doc = f.doc /\ Held(f.doc)
    BY <1>b, IdsApart DEF IdOf, FactSound
  <1>8. f.kind # "document" => Grounded(About(f), f.doc)
    <2>1. CASE f.kind = "approval"
      BY <2>1 DEF About, FactSound
    <2>2. CASE f.kind = "audit"
      <3>1. About(f) = DocumentId(f.doc, ReadNow(f.doc))
        BY <2>2 DEF About
      <3>2. CASE Held(f.doc)
        BY <1>b, <1>c, <3>1, <3>2 DEF AllTold, Grounded, ReadNow
      <3>3. CASE ~Held(f.doc)
        BY <1>b, <1>c, <3>1, <3>3 DEF Grounded, ReadNow
      <3>4. QED BY <3>2, <3>3
    <2>3. QED BY <1>b, <2>1, <2>2
  <1>9. EntrySound(e)
    BY <1>a, <1>1, <1>3, <1>6, <1>7, <1>8 DEF EntrySound
  <1>10. QED BY <1>5, <1>9

\* The fact an act leaves to tell is sound once the act is done.
LEMMA WriteSound ==
  ASSUME TypeOK, NEW c \in Calls, NEW d \in Docs, Write(c, d)
  PROVE  /\ call'[c] \in Call /\ call'[c].op \in {"idle", "tell"}
         /\ \A f \in Fact : Tells(c, f)' => FactSound(f)'
  <1> DEFINE g == [kind |-> "document", doc |-> d, at |-> First, round |-> None,
                   replaced |-> None]
  <1>1. g \in Fact /\ First \in Snapshot
    BY DEF Fact, First, Snapshot
  <1>2. call'[c] = Telling(g)
    BY DEF Write, Begin, TypeOK
  <1>3. Held(d)'
    BY DEF Write, Held, TypeOK, Document, First
  <1>4. g.kind = "document" /\ g.doc = d /\ g.at = First /\ g.replaced = None
    OBVIOUS
  <1> HIDE DEF g
  <1>5. ASSUME NEW f \in Fact, Tells(c, f)'
        PROVE  FactSound(f)'
    <2>1. f = g /\ StepOf(g) \in Steps
      BY <1>1, <1>2, <1>5, TellingTyped DEF Tells
    <2>2. QED BY <1>1, <1>3, <1>4, <2>1 DEF FactSound, StepOf, Steps, Writes, Audits
  <1>6. QED BY <1>1, <1>2, <1>5, TellingTyped

LEMMA EditSound ==
  ASSUME TypeOK, NEW c \in Calls, NEW d \in Docs,
         NEW mode \in {"append", "pinned", "rewrite"}, Edit(c, d, mode)
  PROVE  /\ call'[c] \in Call /\ call'[c].op \in {"idle", "tell"}
         /\ \A f \in Fact : Tells(c, f)' => FactSound(f)'
  <1> DEFINE at == Landed(doc[d].at, mode)
             g == [kind |-> "document", doc |-> d, at |-> at, round |-> None,
                   replaced |-> Displaced(d, mode)]
  <1>1. doc[d].at \in Snapshot /\ doc[d].at.revision # 0 /\ doc[d].at.revision \in Nat
    BY DEF Edit, Held, TypeOK, Document, Snapshot
  <1>2. /\ at \in Snapshot /\ at.revision >= doc[d].at.revision
        /\ mode # "rewrite" => at.revision > doc[d].at.revision
    BY <1>1, LandedTyped
  <1>3. doc'[d].at = at
    BY DEF Edit, TypeOK, Document
  <1>4. Held(d)'
    BY <1>1, <1>2, <1>3 DEF Held, Snapshot
  <1>5. Displaced(d, mode) \in Snapshot \cup {None}
    BY <1>1 DEF Displaced
  <1>6. ASSUME NEW S, S = Displaced(d, mode), S # None
        PROVE  Past(S, d)'
    <2>1. Approved(d) /\ S = doc[d].at
      BY <1>6 DEF Displaced
    <2>2. mode # "rewrite"
      BY <2>1 DEF Edit
    <2>3. QED BY <1>1, <1>2, <1>3, <2>1, <2>2 DEF Past
  <1>7. g \in Fact /\ g.kind = "document" /\ g.doc = d /\ g.at = at
          /\ g.replaced = Displaced(d, mode)
    BY <1>2, <1>5 DEF Fact
  <1>8. call'[c] = Telling(g)
    BY DEF Edit, Begin, TypeOK
  <1> HIDE DEF g, at
  <1>9. ASSUME NEW f \in Fact, Tells(c, f)'
        PROVE  FactSound(f)'
    <2>1. f = g /\ StepOf(g) \in Steps
      BY <1>7, <1>8, <1>9, TellingTyped DEF Tells
    <2>2. f.kind = "document" /\ f.doc = d /\ f.at \in Snapshot /\ StepOf(f) \in Steps
      BY <1>2, <1>7, <2>1
    <2>3. f.replaced # None => Past(f.replaced, f.doc)'
      BY <1>6, <1>7, <2>1
    <2>4. QED BY <1>4, <2>2, <2>3 DEF FactSound, StepOf, Steps, Writes, Audits
  <1>10. QED BY <1>7, <1>8, <1>9, TellingTyped

LEMMA ApproveSound ==
  ASSUME TypeOK, AllTold, [Next]_vars, NEW c \in Calls, NEW d \in Docs, Approve(c, d)
  PROVE  /\ call'[c] \in Call /\ call'[c].op \in {"idle", "tell"}
         /\ \A f \in Fact : Tells(c, f)' => FactSound(f)'
  <1> DEFINE g == [kind |-> "approval", doc |-> d, at |-> doc[d].at,
                   round |-> None, replaced |-> None]
  <1>1. doc[d].at \in Snapshot
    BY DEF TypeOK, Document
  <1>2. g \in Fact /\ g.kind = "approval" /\ g.doc = d /\ g.at = doc[d].at
          /\ g.replaced = None
    BY <1>1 DEF Fact
  <1>3. call'[c] = Telling(g)
    BY DEF Approve, Begin, TypeOK
  <1> HIDE DEF g
  <1>4. Held(d)
    BY DEF Approve
  <1>5. Grounded(DocumentId(d, doc[d].at), d)
    BY <1>1, <1>4 DEF AllTold, Grounded
  <1>6. ASSUME NEW f \in Fact, Tells(c, f)'
        PROVE  FactSound(f)'
    <2>1. f = g /\ StepOf(g) \in Steps
      BY <1>2, <1>3, <1>6, TellingTyped DEF Tells
    <2>2. FactSound(f)
      BY <1>1, <1>2, <1>4, <1>5, <2>1 DEF FactSound
    <2>3. QED BY <2>2, FactSoundStays
  <1>7. QED BY <1>2, <1>3, <1>6, TellingTyped

LEMMA AuditSound ==
  ASSUME TypeOK, NEW c \in Calls, NEW d \in Docs, NEW r \in Rounds, AddAudit(c, r, d)
  PROVE  /\ call'[c] \in Call /\ call'[c].op \in {"idle", "tell"}
         /\ \A f \in Fact : Tells(c, f)' => FactSound(f)'
  <1> DEFINE g == [kind |-> "audit", doc |-> d, at |-> None, round |-> r,
                   replaced |-> None]
  <1>1. g \in Fact /\ g.kind = "audit" /\ g.doc = d /\ g.round = r /\ g.replaced = None
    BY DEF Fact
  <1>2. call'[c] = Telling(g)
    BY DEF AddAudit, Begin, TypeOK
  <1>3. rounds'[r] = d
    BY DEF AddAudit, TypeOK
  <1> HIDE DEF g
  <1>4. ASSUME NEW f \in Fact, Tells(c, f)'
        PROVE  FactSound(f)'
    <2>1. f = g /\ StepOf(g) \in Steps
      BY <1>1, <1>2, <1>4, TellingTyped DEF Tells
    <2>2. QED BY <1>1, <1>3, <2>1 DEF FactSound, StepOf, Steps, Writes, Audits
  <1>5. QED BY <1>1, <1>2, <1>4, TellingTyped

\* Whatever the step, its calls carry sound facts and entries.
LEMMA CallsSound ==
  ASSUME TypeOK, Sound, AllTold, [Next]_vars, NEW c \in Calls
  PROVE  /\ call'[c] \in Call
         /\ \A f \in Fact : Tells(c, f)' => FactSound(f)'
         /\ \A e \in Entry : Inserts(c, e)' => EntrySound(e)'
  <1>1. call[c] \in Call
    BY DEF TypeOK
  <1>2. CASE call'[c] = call[c]
    <2>1. ASSUME NEW f \in Fact, Tells(c, f)'
          PROVE  FactSound(f)'
      BY <1>2, <2>1, FactSoundStays DEF Sound, Tells
    <2>2. ASSUME NEW e \in Entry, Inserts(c, e)'
          PROVE  EntrySound(e)'
      BY <1>2, <2>2, EntrySoundStays DEF Sound, Inserts
    <2>3. QED BY <1>1, <1>2, <2>1, <2>2
  <1>3. CASE \E d \in Docs : \/ Write(c, d) \/ Approve(c, d)
                             \/ \E mode \in {"append", "pinned", "rewrite"} : Edit(c, d, mode)
                             \/ \E r \in Rounds : AddAudit(c, r, d)
    <2>1. /\ call'[c] \in Call /\ call'[c].op \in {"idle", "tell"}
          /\ \A f \in Fact : Tells(c, f)' => FactSound(f)'
      BY <1>3, WriteSound, EditSound, ApproveSound, AuditSound
    <2>2. QED BY <2>1 DEF Inserts
  <1>4. CASE Look(c)
    <2>1. call[c].op = "tell" /\ call[c].fact \in Fact /\ FactSound(call[c].fact)
      BY <1>4, LookPasses DEF Sound, Tells
    <2>2. EntryOf(call[c].fact) \in Entry /\ EntrySound(EntryOf(call[c].fact))
      BY <2>1, LookSound
    <2>3. CASE call'[c] = Idle
      BY <2>3 DEF Idle, Call, Tells, Inserts
    <2>4. CASE call'[c] = [op |-> "insert", entry |-> EntryOf(call[c].fact)]
      <3>1. call'[c] \in Call /\ call'[c].op = "insert"
              /\ call'[c].entry = EntryOf(call[c].fact)
        BY <2>2, <2>4 DEF Call
      <3>2. ASSUME NEW e \in Entry, Inserts(c, e)'
            PROVE  EntrySound(e)'
        <4>1. EntrySound(e)
          BY <2>2, <3>1, <3>2 DEF Inserts
        <4>2. QED BY <4>1, EntrySoundStays
      <3>3. QED BY <3>1, <3>2 DEF Tells
    <2>5. QED BY <1>4, <2>3, <2>4, LookPasses
  <1>5. CASE Insert(c) \/ Lose(c) \/ Close(c) \/ Refuse(c)
    <2>1. call'[c] = Idle
      BY <1>5 DEF Insert, Lose, Close, Refuse, Proceed, TypeOK
    <2>2. QED BY <2>1 DEF Idle, Call, Tells, Inserts
  <1>6. CASE Claim(c)
    <2>1. call'[c] = [op |-> "close", judged |-> enrolled] /\ enrolled \in BOOLEAN
      BY <1>6 DEF Claim, Begin, TypeOK
    <2>2. QED BY <2>1 DEF Call, Tells, Inserts
  <1>7. CASE \E k \in Calls : k # c /\ (Act(k) \/ Tell(k))
    BY <1>2, <1>7, TellingMoves
  <1>8. CASE UNCHANGED vars
    BY <1>2, <1>8 DEF vars
  <1>9. QED BY <1>3, <1>4, <1>5, <1>6, <1>7, <1>8 DEF Next, Act, Tell

LEMMA SoundStep ==
  ASSUME TypeOK, Sound, AllTold, [Next]_vars
  PROVE  Sound'
  <1>1. ASSUME NEW f \in Fact, NEW c \in Calls, Tells(c, f)'
        PROVE  FactSound(f)'
    BY <1>1, CallsSound
  <1>2. ASSUME NEW e \in Entry, NEW c \in Calls, Inserts(c, e)'
        PROVE  EntrySound(e)'
    BY <1>2, CallsSound
  <1>3. ASSUME NEW e \in Entry, Logged(e)'
        PROVE  EntrySound(e)'
    <2>1. Logged(e) \/ \E c \in Calls : Inserts(c, e)
      <3>1. PICK i \in 1..Len(log') : log'[i] = e
        BY <1>3 DEF Logged
      <3>2. CASE log' = log
        BY <3>1, <3>2 DEF Logged
      <3>3. ASSUME NEW c \in Calls, call[c].op = "insert", call[c].entry \in Entry,
                   log' = Append(log, call[c].entry)
            PROVE  Logged(e) \/ Inserts(c, e)
        <4>1. \/ i \in 1..Len(log) /\ log'[i] = log[i]
              \/ log'[i] = call[c].entry
          BY <3>1, <3>3 DEF TypeOK
        <4>2. QED BY <3>1, <3>3, <4>1 DEF Logged, Inserts
      <3>4. QED BY <3>2, <3>3, LogGrows
    <2>2. EntrySound(e)
      BY <2>1 DEF Sound
    <2>3. QED BY <2>2, EntrySoundStays
  <1>4. QED BY <1>1, <1>2, <1>3 DEF Sound

LEMMA TypeStep ==
  ASSUME TypeOK, Sound, AllTold, [Next]_vars
  PROVE  TypeOK'
  <1>1. doc' \in [Docs -> Document] /\ rounds' \in [Rounds -> Docs \cup {None}]
    BY DocumentsGrow, MarksStay
  <1>2. log' \in Seq(Entry)
    BY LogGrows
  <1>3. call' \in [Calls -> Call]
    <2>1. \A c \in Calls : call'[c] \in Call
      BY CallsSound
    <2>2. \/ call' = call
          \/ \E c \in Calls : \E k : call' = [call EXCEPT ![c] = k]
      BY DEF Next, Act, Tell, Write, Edit, Approve, AddAudit, Claim, Close, Refuse,
             Look, Insert, Lose, Begin, Proceed, vars
    <2>3. QED BY <2>1, <2>2 DEF TypeOK
  <1>4. left' \in [Ops -> Nat]
    <2>1. left' = left \/ \E o \in Ops : left[o] > 0 /\ left' = [left EXCEPT ![o] = left[o] - 1]
      BY DEF Next, Act, Tell, Write, Edit, Approve, AddAudit, Claim, Close, Refuse,
             Look, Insert, Lose, Begin, Proceed, vars, Ops
    <2>2. ASSUME NEW o \in Ops, left[o] > 0
          PROVE  left[o] - 1 \in Nat
      BY <2>2 DEF TypeOK
    <2>3. QED BY <2>1, <2>2 DEF TypeOK
  <1>5. enrolled' \in BOOLEAN /\ closed' \in BOOLEAN /\ judged' \in BOOLEAN
    <2>1. ASSUME NEW c \in Calls, Close(c)
          PROVE  enrolled' \in BOOLEAN /\ closed' \in BOOLEAN /\ judged' \in BOOLEAN
      <3>1. call[c] \in Call
        BY DEF TypeOK
      <3>2. QED BY <2>1, <3>1, CallsTyped DEF Close, TypeOK, loop
    <2>2. \/ \E c \in Calls : Close(c)
          \/ UNCHANGED <<closed, judged>> /\ enrolled' \in {enrolled, TRUE}
      BY DEF Next, Act, Tell, Write, Edit, Approve, AddAudit, Claim, Refuse,
             Look, Insert, Lose, vars, store, loop
    <2>3. QED BY <2>1, <2>2 DEF TypeOK
  <1>6. lost' \in SUBSET Docs /\ missed' \in SUBSET Docs
    <2>1. ASSUME NEW c \in Calls, Tell(c)
          PROVE  lost' \in SUBSET Docs /\ missed' \in SUBSET Docs
      <3>1. call[c] \in Call
        BY DEF TypeOK
      <3>2. /\ call[c].op = "tell" => call[c].fact.doc \in Docs
            /\ call[c].op = "insert" => call[c].entry.doc \in Docs
        BY <3>1, CallsTyped, FactsTyped, EntriesTyped
      <3>3. QED BY <2>1, <3>2 DEF Tell, Look, Insert, Lose, TypeOK
    <2>2. QED
      BY <2>1 DEF Next, Act, Write, Edit, Approve, AddAudit, Claim, Close, Refuse,
                  loop, vars, TypeOK
  <1>7. QED BY <1>1, <1>2, <1>3, <1>4, <1>5, <1>6 DEF TypeOK

----------------------------------------------------------------------------
(* The rest of the invariant, step by step.                                *)

\* A new entry has a new id, and withdraws an id that is there.
LEMMA OrderStep ==
  ASSUME TypeOK, Sound, LogOrdered, [Next]_vars
  PROVE  LogOrdered'
  <1>1. CASE log' = log
    BY <1>1 DEF LogOrdered
  <1>2. ASSUME NEW c \in Calls, call[c].op = "insert", call[c].entry \in Entry,
               call[c].entry.id \notin Ids, log' = Append(log, call[c].entry)
        PROVE  LogOrdered'
    <2> DEFINE e == call[c].entry
    <2>1. /\ Len(log') = Len(log) + 1 /\ log'[Len(log) + 1] = e /\ Len(log) \in Nat
          /\ \A i \in 1..Len(log) : log'[i] = log[i]
      BY <1>2 DEF TypeOK
    <2>2. \A i \in 1..Len(log) : log[i].id # e.id
      BY <1>2 DEF Ids
    <2>3. e.supersedes # None => \E i \in 1..Len(log) : log[i].id = e.supersedes
      BY <1>2 DEF Sound, Inserts, EntrySound, Ids
    <2> HIDE DEF e
    <2>4. ASSUME NEW j \in 1..Len(log')
          PROVE  /\ \A i \in 1..Len(log') : log'[i].id = log'[j].id => i = j
                 /\ log'[j].supersedes # None =>
                      \E i \in 1..(j - 1) : log'[i].id = log'[j].supersedes
      <3>1. CASE j \in 1..Len(log)
        <4>1. \A i \in 1..Len(log') : log'[i].id = log'[j].id => i = j
          BY <2>1, <2>2, <3>1 DEF LogOrdered
        <4>2. log[j].supersedes # None => \E i \in 1..(j - 1) : log[i].id = log[j].supersedes
          BY <3>1 DEF LogOrdered
        <4>3. \A i \in 1..(j - 1) : log'[i] = log[i]
          BY <2>1, <3>1
        <4>4. log'[j] = log[j]
          BY <2>1, <3>1
        <4>5. QED BY <4>1, <4>2, <4>3, <4>4
      <3>2. CASE j = Len(log) + 1
        <4>1. \A i \in 1..Len(log') : log'[i].id = log'[j].id => i = j
          BY <2>1, <2>2, <3>2
        <4>2. log'[j].supersedes # None =>
                \E i \in 1..(j - 1) : log'[i].id = log'[j].supersedes
          BY <2>1, <2>3, <3>2
        <4>3. QED BY <4>1, <4>2
      <3>3. QED BY <2>1, <3>1, <3>2
    <2>5. QED BY <2>4 DEF LogOrdered
  <1>3. QED BY <1>1, <1>2, LogGrows

\* A call that has a fact to tell accounts for it.
LEMMA TellingAccounts ==
  ASSUME NEW c \in Calls, NEW f, NEW id, NEW d, Tells(c, f)', IdOf(f) = id, f.doc = d
  PROVE  Accounted(id, d)'
  <1>1. call'[c].op = "tell" /\ IdOf(call'[c].fact) = id /\ call'[c].fact.doc = d
    BY DEF Tells
  <1>2. QED BY <1>1 DEF Accounted, Carries, Concerns, IdOf, DocumentId, ApprovalId, AuditId

\* An edit leaves to tell where the document is now, and what it displaced.
LEMMA EditTells ==
  ASSUME TypeOK, NEW c \in Calls, NEW d \in Docs,
         NEW mode \in {"append", "pinned", "rewrite"}, Edit(c, d, mode),
         Writes(d) \in Steps
  PROVE  /\ \A S : doc'[d].at = S => Accounted(DocumentId(d, S), d)'
         /\ \A S \in Snapshot : (Approved(d) /\ doc[d].at = S) => Cleared(d, S)'
  <1> DEFINE g == [kind |-> "document", doc |-> d, at |-> Landed(doc[d].at, mode),
                   round |-> None, replaced |-> Displaced(d, mode)]
  <1>1. doc'[d].at = Landed(doc[d].at, mode)
    BY DEF Edit, TypeOK, Document
  <1>2. call'[c] = Telling(g)
    BY DEF Edit, Begin, TypeOK
  <1>3. Telling(g) = [op |-> "tell", fact |-> g]
    BY DEF Telling, StepOf
  <1>4. IdOf(g) = DocumentId(d, doc'[d].at) /\ g.doc = d /\ g.replaced = Displaced(d, mode)
    BY <1>1 DEF IdOf
  <1> HIDE DEF g
  <1>5. call'[c].op = "tell" /\ call'[c].fact = g
    BY <1>2, <1>3
  <1>6. ASSUME NEW S, doc'[d].at = S
        PROVE  Accounted(DocumentId(d, S), d)'
    <2>1. ASSUME NEW f, f = g
          PROVE  Accounted(DocumentId(d, S), d)'
      BY <1>4, <1>5, <1>6, <2>1, TellingAccounts DEF Tells
    <2>2. QED BY <2>1
  <1>7. ASSUME NEW S \in Snapshot, Approved(d), doc[d].at = S
        PROVE  Cleared(d, S)'
    <2>1. call'[c].op = "tell" /\ call'[c].fact.doc = d /\ call'[c].fact.replaced = S
      BY <1>4, <1>5, <1>7 DEF Displaced
    <2>2. QED BY <2>1 DEF Cleared, Withdraws, Concerns, ApprovalId
  <1>8. QED BY <1>6, <1>7

\* A seal leaves itself to tell.
LEMMA ApproveTells ==
  ASSUME TypeOK, NEW c \in Calls, NEW d \in Docs, Approve(c, d), Writes(d) \in Steps
  PROVE  /\ doc'[d].at = doc[d].at /\ doc'[d].approved = doc[d].at.revision
         /\ \A S : doc[d].at = S => Accounted(ApprovalId(d, S), d)'
  <1> DEFINE g == [kind |-> "approval", doc |-> d, at |-> doc[d].at,
                   round |-> None, replaced |-> None]
  <1>1. doc'[d].at = doc[d].at /\ doc'[d].approved = doc[d].at.revision
    BY DEF Approve, TypeOK, Document
  <1>2. call'[c] = Telling(g)
    BY DEF Approve, Begin, TypeOK
  <1>3. Telling(g) = [op |-> "tell", fact |-> g]
    BY DEF Telling, StepOf
  <1>4. IdOf(g) = ApprovalId(d, doc[d].at) /\ g.doc = d
    BY DEF IdOf
  <1> HIDE DEF g
  <1>5. call'[c].op = "tell" /\ call'[c].fact = g
    BY <1>2, <1>3
  <1>6. ASSUME NEW S, doc[d].at = S
        PROVE  Accounted(ApprovalId(d, S), d)'
    <2>1. ASSUME NEW f, f = g
          PROVE  Accounted(ApprovalId(d, S), d)'
      BY <1>4, <1>5, <1>6, <2>1, TellingAccounts DEF Tells
    <2>2. QED BY <2>1
  <1>7. QED BY <1>1, <1>6

\* An audit round that is filed leaves itself to tell.
LEMMA AuditTells ==
  ASSUME TypeOK, NEW c \in Calls, NEW d \in Docs, NEW r \in Rounds, AddAudit(c, r, d)
  PROVE  Accounted(AuditId(r), d)' /\ \A s \in Rounds \ {r} : rounds'[s] = rounds[s]
  <1> DEFINE g == [kind |-> "audit", doc |-> d, at |-> None, round |-> r,
                   replaced |-> None]
  <1>1. call'[c] = Telling(g)
    BY DEF AddAudit, Begin, TypeOK
  <1>2. Telling(g) = [op |-> "tell", fact |-> g]
    BY DEF Telling, StepOf, AddAudit
  <1>3. IdOf(g) = AuditId(r) /\ g.doc = d
    BY DEF IdOf
  <1> HIDE DEF g
  <1>4. Tells(c, g)'
    BY <1>1, <1>2 DEF Tells
  <1>5. Accounted(AuditId(r), d)'
    BY <1>3, <1>4, TellingAccounts
  <1>6. QED BY <1>5 DEF AddAudit, TypeOK

\* What a document is, a step leaves, or an act on it makes anew.
LEMMA DocumentSteps ==
  ASSUME TypeOK, [Next]_vars, NEW d \in Docs
  PROVE  \/ doc'[d] = doc[d]
         \/ \E c \in Calls : \/ Write(c, d) \/ Approve(c, d)
                             \/ \E mode \in {"append", "pinned", "rewrite"} : Edit(c, d, mode)
  <1>1. ASSUME NEW c \in Calls, NEW e \in Docs, e # d,
               \/ Write(c, e) \/ Approve(c, e)
               \/ \E mode \in {"append", "pinned", "rewrite"} : Edit(c, e, mode)
        PROVE  doc'[d] = doc[d]
    BY <1>1 DEF Write, Approve, Edit, TypeOK
  <1>2. \/ UNCHANGED doc
        \/ \E c \in Calls, e \in Docs :
             \/ Write(c, e) \/ Approve(c, e)
             \/ \E mode \in {"append", "pinned", "rewrite"} : Edit(c, e, mode)
    BY DEF Next, Act, Tell, Look, Insert, Lose, Claim, Close, Refuse, AddAudit, store, vars
  <1>3. QED BY <1>1, <1>2

\* What an act on a document makes of it.
LEMMA DocumentsMove ==
  ASSUME TypeOK, NEW c \in Calls, NEW d \in Docs
  PROVE  /\ Write(c, d) =>
              doc'[d].at = First /\ doc'[d].approved = doc[d].approved /\ ~Held(d)
         /\ Approve(c, d) =>
              /\ doc'[d].at = doc[d].at /\ doc'[d].approved = doc[d].at.revision /\ Held(d)
         /\ \A mode \in {"append", "pinned", "rewrite"} : Edit(c, d, mode) =>
              /\ doc'[d].approved = doc[d].approved /\ Held(d)
              /\ \/ doc'[d].at = doc[d].at /\ ~Approved(d)
                 \/ doc'[d].at.revision = doc[d].at.revision + 1
  <1>1. Write(c, d) => doc'[d].at = First /\ doc'[d].approved = doc[d].approved /\ ~Held(d)
    BY DEF Write, TypeOK, Document
  <1>2. Approve(c, d) => /\ doc'[d].at = doc[d].at /\ doc'[d].approved = doc[d].at.revision
                         /\ Held(d)
    BY DEF Approve, TypeOK, Document
  <1>3. ASSUME NEW mode \in {"append", "pinned", "rewrite"}, Edit(c, d, mode)
        PROVE  /\ doc'[d].approved = doc[d].approved /\ Held(d)
               /\ \/ doc'[d].at = doc[d].at /\ ~Approved(d)
                  \/ doc'[d].at.revision = doc[d].at.revision + 1
    <2>1. /\ doc'[d].approved = doc[d].approved /\ doc'[d].at = Landed(doc[d].at, mode)
          /\ Held(d) /\ (mode = "rewrite" => ~Approved(d))
      BY <1>3 DEF Edit, TypeOK, Document
    <2>2. doc[d].at \in Snapshot
      BY DEF TypeOK, Document
    <2>3. CASE mode = "rewrite"
      BY <2>1, <2>2, <2>3, LandedTyped
    <2>4. CASE mode # "rewrite"
      BY <2>1, <2>4 DEF Landed
    <2>5. QED BY <2>1, <2>3, <2>4
  <1>4. QED BY <1>1, <1>2, <1>3

LEMMA AheadStep ==
  ASSUME TypeOK, NotAhead, [Next]_vars
  PROVE  NotAhead'
  <1>1. ASSUME NEW d \in Docs
        PROVE  doc'[d].approved <= doc'[d].at.revision
    <2>1. /\ doc[d].approved \in Nat /\ doc[d].at.revision \in Nat
          /\ doc[d].approved <= doc[d].at.revision
      BY DEF TypeOK, Document, Snapshot, NotAhead
    <2>2. CASE doc'[d] = doc[d]
      BY <2>1, <2>2
    <2>3. ASSUME NEW c \in Calls, Write(c, d)
          PROVE  doc'[d].approved <= doc'[d].at.revision
      <3>1. doc'[d].approved = doc[d].approved /\ doc'[d].at.revision = 1 /\ ~Held(d)
        BY <2>3, DocumentsMove DEF First
      <3>2. QED BY <2>1, <3>1 DEF Held
    <2>4. ASSUME NEW c \in Calls, Approve(c, d)
          PROVE  doc'[d].approved <= doc'[d].at.revision
      BY <2>1, <2>4, DocumentsMove
    <2>5. ASSUME NEW c \in Calls, NEW mode \in {"append", "pinned", "rewrite"},
                 Edit(c, d, mode)
          PROVE  doc'[d].approved <= doc'[d].at.revision
      <3>1. /\ doc'[d].approved = doc[d].approved
            /\ \/ doc'[d].at = doc[d].at
               \/ doc'[d].at.revision = doc[d].at.revision + 1
        BY <2>5, DocumentsMove
      <3>2. QED BY <2>1, <3>1
    <2>6. QED BY <2>2, <2>3, <2>4, <2>5, DocumentSteps
  <1>2. QED BY <1>1 DEF NotAhead

LEMMA ToldStep ==
  ASSUME TypeOK, NotAhead, AllTold, [Next]_vars
  PROVE  AllTold'
  <1>1. ASSUME NEW d \in Docs, NEW S \in Snapshot, Writes(d) \in Steps, doc'[d].at = S,
               Held(d)'
        PROVE  /\ Accounted(DocumentId(d, S), d)'
               /\ Approved(d)' => Accounted(ApprovalId(d, S), d)'
    <2>a. /\ doc[d].approved \in Nat /\ doc[d].at.revision \in Nat
          /\ doc[d].approved <= doc[d].at.revision
      BY DEF TypeOK, Document, Snapshot, NotAhead
    <2>1. CASE doc'[d].at = doc[d].at /\ doc'[d].approved = doc[d].approved /\ Held(d)
      <3>1. doc[d].at = S /\ (Approved(d)' => Approved(d))
        BY <1>1, <2>1 DEF Held, Approved
      <3>2. QED BY <1>1, <2>1, <3>1, AccountedStays DEF AllTold
    <2>2. ASSUME NEW c \in Calls, Write(c, d)
          PROVE  Accounted(DocumentId(d, S), d)' /\ ~Approved(d)'
      <3>1. S = First /\ doc'[d].approved = 0 /\ doc'[d].at.revision = 1
        BY <1>1, <2>a, <2>2, DocumentsMove DEF Held, First
      <3>2. QED BY <1>1, <2>2, <3>1, WritingTells DEF Approved
    <2>3. ASSUME NEW c \in Calls, Approve(c, d)
          PROVE  Accounted(DocumentId(d, S), d)' /\ Accounted(ApprovalId(d, S), d)'
      <3>1. Held(d) /\ doc[d].at = S
        BY <1>1, <2>3, DocumentsMove
      <3>2. Accounted(DocumentId(d, S), d)
        BY <1>1, <3>1 DEF AllTold
      <3>3. QED BY <1>1, <2>3, <3>1, <3>2, ApproveTells, AccountedStays
    <2>4. ASSUME NEW c \in Calls, NEW mode \in {"append", "pinned", "rewrite"},
                 Edit(c, d, mode)
          PROVE  /\ Accounted(DocumentId(d, S), d)'
                 /\ ~Approved(d)' \/ (doc'[d].at = doc[d].at /\ ~Approved(d)
                                       /\ doc'[d].approved = doc[d].approved)
      <3>1. Accounted(DocumentId(d, S), d)'
        BY <1>1, <2>4, EditTells
      <3>2. /\ doc'[d].approved = doc[d].approved
            /\ \/ doc'[d].at = doc[d].at /\ ~Approved(d)
               \/ doc'[d].at.revision = doc[d].at.revision + 1
        BY <2>4, DocumentsMove
      <3>3. QED BY <2>a, <3>1, <3>2 DEF Approved
    <2>5. ASSUME doc'[d].at = doc[d].at, ~Approved(d), doc'[d].approved = doc[d].approved
          PROVE  ~Approved(d)'
      BY <2>5 DEF Approved, Held
    <2>6. CASE doc'[d] = doc[d]
      BY <1>1, <2>1, <2>6 DEF Held
    <2>7. QED BY <2>2, <2>3, <2>4, <2>5, <2>6, DocumentSteps
  <1>2. ASSUME NEW d \in Docs, Audits(d) \in Steps, NEW r \in Rounds, rounds'[r] = d
        PROVE  Accounted(AuditId(r), d)'
    <2>1. CASE rounds[r] = d
      BY <1>2, <2>1, AccountedStays DEF AllTold
    <2>2. CASE rounds[r] # d
      <3>1. rounds' # rounds
        BY <1>2, <2>2
      <3>2. PICK c \in Calls, e \in Docs, s \in Rounds : AddAudit(c, s, e)
        BY <3>1 DEF Next, Act, Tell, Write, Edit, Approve, Claim, Close, Refuse, Look, Insert,
                    Lose, store, vars
      <3>3. r = s /\ e = d
        BY <1>2, <2>2, <3>2 DEF AddAudit, TypeOK
      <3>4. QED BY <3>2, <3>3, AuditTells
    <2>3. QED BY <2>1, <2>2
  <1>3. ASSUME NEW d \in Docs, NEW S \in Snapshot, Writes(d) \in Steps, doc'[d].at = S
        PROVE  /\ Held(d)' => Accounted(DocumentId(d, S), d)'
               /\ Approved(d)' => Accounted(ApprovalId(d, S), d)'
    BY <1>1, <1>3 DEF Approved, Held
  <1>4. QED BY <1>2, <1>3 DEF AllTold, Writes, Audits, Steps

\* An approval is given by approving.
LEMMA SealedByApproving ==
  ASSUME TypeOK, [Next]_vars, NEW d \in Docs, NEW S \in Snapshot, Sealed(d, S)'
  PROVE  Sealed(d, S) \/ \E c \in Calls : Approve(c, d) /\ doc[d].at = S
  <1> DEFINE id == ApprovalId(d, S)
  <1>1. CASE id \in Ids'
    <2>1. CASE log' = log
      BY <1>1, <2>1 DEF Ids, Sealed
    <2>2. ASSUME NEW c \in Calls, call[c].op = "insert", call[c].entry \in Entry,
                 log' = Append(log, call[c].entry)
          PROVE  Sealed(d, S)
      <3>1. \A i \in 1..Len(log') : \/ i \in 1..Len(log) /\ log'[i] = log[i]
                                    \/ log'[i] = call[c].entry
        BY <2>2 DEF TypeOK
      <3>2. id \in Ids \/ call[c].entry.id = id
        BY <1>1, <3>1 DEF Ids
      <3>3. QED BY <2>2, <3>2 DEF Sealed, Carries
    <2>3. QED BY <2>1, <2>2, LogGrows
  <1>2. ASSUME NEW c \in Calls, Carries(c, id)'
        PROVE  Carries(c, id) \/ (Approve(c, d) /\ doc[d].at = S)
    <2>a. \/ call'[c].op = "tell" /\ IdOf(call'[c].fact) = id
          \/ call'[c].op = "insert" /\ call'[c].entry.id = id
      BY <1>2 DEF Carries, IdOf, DocumentId, ApprovalId, AuditId
    <2>b. \A f : f \in Fact => (f.kind # "approval" => IdOf(f) # id)
      BY IdsApart DEF IdOf
    <2>1. CASE call'[c] = call[c]
      BY <2>a, <2>1 DEF Carries
    <2>2. ASSUME NEW e \in Docs, Write(c, e)
          PROVE  FALSE
      <3> DEFINE g == [kind |-> "document", doc |-> e, at |-> First, round |-> None,
                       replaced |-> None]
      <3>1. call'[c] = Telling(g)
        BY <2>2 DEF Write, Begin, TypeOK
      <3>2. IdOf(g) # id
        BY IdsApart DEF IdOf
      <3> HIDE DEF g
      <3>3. QED BY <2>a, <3>1, <3>2 DEF Telling, Idle
    <2>3. ASSUME NEW e \in Docs, NEW mode \in {"append", "pinned", "rewrite"}, Edit(c, e, mode)
          PROVE  FALSE
      <3> DEFINE g == [kind |-> "document", doc |-> e, at |-> Landed(doc[e].at, mode),
                       round |-> None, replaced |-> Displaced(e, mode)]
      <3>1. call'[c] = Telling(g)
        BY <2>3 DEF Edit, Begin, TypeOK
      <3>2. IdOf(g) # id
        BY IdsApart DEF IdOf
      <3> HIDE DEF g
      <3>3. QED BY <2>a, <3>1, <3>2 DEF Telling, Idle
    <2>4. ASSUME NEW e \in Docs, NEW r \in Rounds, AddAudit(c, r, e)
          PROVE  FALSE
      <3> DEFINE g == [kind |-> "audit", doc |-> e, at |-> None, round |-> r,
                       replaced |-> None]
      <3>1. call'[c] = Telling(g)
        BY <2>4 DEF AddAudit, Begin, TypeOK
      <3>2. IdOf(g) # id
        BY IdsApart DEF IdOf
      <3> HIDE DEF g
      <3>3. QED BY <2>a, <3>1, <3>2 DEF Telling, Idle
    <2>5. ASSUME NEW e \in Docs, Approve(c, e)
          PROVE  Approve(c, d) /\ doc[d].at = S
      <3> DEFINE g == [kind |-> "approval", doc |-> e, at |-> doc[e].at,
                       round |-> None, replaced |-> None]
      <3>1. call'[c] = Telling(g)
        BY <2>5 DEF Approve, Begin, TypeOK
      <3>2. IdOf(g) = ApprovalId(e, doc[e].at)
        BY DEF IdOf
      <3> HIDE DEF g
      <3>3. IdOf(g) = id
        BY <2>a, <3>1 DEF Telling, Idle
      <3>4. ApprovalId(e, doc[e].at) = ApprovalId(d, S)
        BY <3>2, <3>3
      <3>5. e = d /\ doc[e].at = S
        BY <3>4 DEF ApprovalId
      <3>6. QED BY <2>5, <3>5
    <2>6. CASE Look(c)
      <3>1. call[c].op = "tell" /\ (\/ call'[c] = Idle
                                    \/ call'[c] = [op |-> "insert",
                                                   entry |-> EntryOf(call[c].fact)])
        BY <2>6, LookPasses
      <3>2. IdOf(call[c].fact) = id
        BY <2>a, <3>1 DEF Idle, EntryOf
      <3>3. QED BY <3>1, <3>2 DEF Carries
    <2>7. CASE Insert(c) \/ Lose(c) \/ Close(c) \/ Refuse(c)
      <3>1. call'[c] = Idle
        BY <2>7 DEF Insert, Lose, Close, Refuse, Proceed, TypeOK
      <3>2. QED BY <2>a, <3>1 DEF Idle
    <2>8. CASE Claim(c)
      <3>1. call'[c] = [op |-> "close", judged |-> enrolled]
        BY <2>8 DEF Claim, Begin, TypeOK
      <3>2. QED BY <2>a, <3>1
    <2>9. ASSUME NEW k \in Calls, k # c, Act(k) \/ Tell(k)
          PROVE  call'[c] = call[c]
      BY <2>9, TellingMoves
    <2>10. QED
      BY <2>1, <2>2, <2>3, <2>4, <2>5, <2>6, <2>7, <2>8, <2>9 DEF Next, Act, Tell, vars
  <1>3. id \in Ids' \/ \E c \in Calls : Carries(c, id)'
    BY DEF Sealed, ApprovalId
  <1>4. QED BY <1>1, <1>2, <1>3 DEF Sealed

LEMMA ClearedStep ==
  ASSUME TypeOK, AllCleared, [Next]_vars
  PROVE  AllCleared'
  <1>1. ASSUME NEW d \in Docs, NEW S \in Snapshot, Writes(d) \in Steps, Sealed(d, S)'
        PROVE  (Approved(d)' /\ S = doc'[d].at) \/ Cleared(d, S)'
    <2>1. ASSUME NEW c \in Calls, Approve(c, d), doc[d].at = S
          PROVE  Approved(d)' /\ S = doc'[d].at
      BY <2>1, DocumentsMove DEF Approved, Held
    <2>2. CASE Cleared(d, S)
      BY <2>2, ClearedStays
    <2>3. CASE Approved(d) /\ S = doc[d].at
      <3>1. CASE doc'[d] = doc[d]
        BY <2>3, <3>1 DEF Approved, Held
      <3>2. ASSUME NEW c \in Calls, Write(c, d)
            PROVE  FALSE
        BY <2>3, <3>2 DEF Write, Approved
      <3>3. ASSUME NEW c \in Calls, NEW mode \in {"append", "pinned", "rewrite"},
                   Edit(c, d, mode)
            PROVE  Cleared(d, S)'
        BY <1>1, <2>3, <3>3, EditTells
      <3>4. QED BY <2>1, <2>3, <3>1, <3>2, <3>3, DocumentSteps
    <2>4. QED BY <1>1, <2>1, <2>2, <2>3, SealedByApproving DEF AllCleared
  <1>2. QED BY <1>1 DEF AllCleared, Writes, Steps

\* What the log shows was done, was done.
LEMMA GrantedIsEarned ==
  ASSUME TypeOK, Sound, Granted
  PROVE  Earned
  <1>1. ASSUME NEW i \in 1..Len(log)
        PROVE  log[i] \in Entry /\ EntrySound(log[i])
    BY DEF TypeOK, Sound, Logged
  <1>2. ASSUME NEW d \in Docs, Writes(d) \in Steps
        PROVE  Held(d)
    <2>1. Standing("document", d) # {}
      BY <1>2 DEF Granted, Met, Writes
    <2>2. PICK i \in 1..Len(log) : log[i].kind = "document" /\ log[i].doc = d
      BY <2>1 DEF Standing
    <2>3. QED BY <1>1, <2>2 DEF EntrySound
  <1>3. ASSUME NEW d \in Docs, Audits(d) \in Steps
        PROVE  \E r \in Rounds : rounds[r] = d
    <2>1. Counted("audit", d) # {}
      BY <1>3 DEF Granted, Met, Audits
    <2>2. PICK i \in 1..Len(log) : log[i].kind = "audit" /\ log[i].doc = d
      BY <2>1 DEF Counted, Standing
    <2>3. log[i].id.round \in Rounds /\ rounds[log[i].id.round] = d
      BY <1>1, <2>2, EntriesTyped DEF EntrySound, Id
    <2>4. QED BY <2>3
  <1>4. QED BY <1>2, <1>3 DEF Earned

LEMMA EarnedStays ==
  ASSUME TypeOK, [Next]_vars, Earned
  PROVE  Earned'
  <1>1. \A d \in Docs : Held(d) => Held(d)'
    BY DocumentsGrow
  <1>2. \A d \in Docs, r \in Rounds : rounds[r] = d => rounds'[r] = d
    BY MarksStay, NoneApart
  <1>3. QED BY <1>1, <1>2 DEF Earned, Steps, Writes, Audits

LEMMA ClosesStep ==
  ASSUME TypeOK, Sound, ClosesEarned, [Next]_vars
  PROVE  ClosesEarned'
  <1>1. ASSUME closed', judged'
        PROVE  Earned'
    <2>1. CASE UNCHANGED <<closed, judged>>
      BY <1>1, <2>1, EarnedStays DEF ClosesEarned
    <2>2. ASSUME NEW c \in Calls, Close(c)
          PROVE  Earned'
      BY <1>1, <2>2, EarnedStays DEF ClosesEarned, Close
    <2>3. QED BY <2>1, <2>2 DEF Next, Act, Tell, Write, Edit, Approve, AddAudit, Claim, Refuse,
                              Look, Insert, Lose, vars, store
  <1>2. ASSUME NEW c \in Calls, call'[c].op = "close", call'[c].judged
        PROVE  Earned'
    <2>1. CASE call'[c] = call[c]
      BY <1>2, <2>1, EarnedStays DEF ClosesEarned
    <2>2. CASE Claim(c)
      <3>1. call'[c] = [op |-> "close", judged |-> enrolled]
        BY <2>2 DEF Claim, Begin, TypeOK
      <3>2. Granted
        BY <1>2, <2>2, <3>1 DEF Claim
      <3>3. QED BY <3>2, GrantedIsEarned, EarnedStays
    <2>3. CASE Insert(c) \/ Lose(c) \/ Close(c) \/ Refuse(c)
      <3>1. call'[c] = Idle
        BY <2>3 DEF Insert, Lose, Close, Refuse, Proceed, TypeOK
      <3>2. QED BY <1>2, <3>1 DEF Idle
    <2>4. CASE Look(c)
      <3>1. \/ call'[c] = Idle
            \/ call'[c] = [op |-> "insert", entry |-> EntryOf(call[c].fact)]
        BY <2>4, LookPasses
      <3>2. QED BY <1>2, <3>1 DEF Idle
    <2>5. CASE \E f : call'[c] = Telling(f)
      BY <1>2, <2>5 DEF Telling, Idle
    <2>6. ASSUME NEW d \in Docs, \/ Write(c, d) \/ Approve(c, d)
                                 \/ \E mode : Edit(c, d, mode)
                                 \/ \E r \in Rounds : AddAudit(c, r, d)
          PROVE  \E f : call'[c] = Telling(f)
      BY <2>6 DEF Write, Approve, Edit, AddAudit, Begin, TypeOK
    <2>7. ASSUME NEW k \in Calls, k # c, Act(k) \/ Tell(k)
          PROVE  call'[c] = call[c]
      BY <2>7, TellingMoves
    <2>8. QED BY <2>1, <2>2, <2>3, <2>4, <2>5, <2>6, <2>7 DEF Next, Act, Tell, vars
  <1>3. QED BY <1>1, <1>2 DEF ClosesEarned

----------------------------------------------------------------------------
(* The inductive invariant.                                                *)

LEMMA LoopInitially == Init => LoopInv
  <1> SUFFICES ASSUME Init PROVE LoopInv
    OBVIOUS
  <1>1. TypeOK
    <2>1. doc \in [Docs -> Document]
      BY DEF Init, Document, Snapshot
    <2>2. log \in Seq(Entry)
      BY DEF Init
    <2>3. call \in [Calls -> Call]
      BY DEF Init, Call
    <2>4. left \in [Ops -> Nat]
      BY ProcedureAssumption DEF Init
    <2>5. rounds \in [Rounds -> Docs \cup {None}]
      BY DEF Init
    <2>6. QED BY <2>1, <2>2, <2>3, <2>4, <2>5 DEF Init, TypeOK
  <1>2. log = <<>> /\ Len(log) = 0 /\ (\A c \in Calls : call[c].op = "idle") /\ closed = FALSE
    BY DEF Init, Idle
  <1>3. \A d \in Docs : doc[d].at.revision = 0 /\ doc[d].approved = 0 /\ ~Held(d)
    BY DEF Init, Held
  <1>4. \A r \in Rounds, d \in Docs : rounds[r] # d
    BY NoneApart DEF Init
  <1>5. Sound
    BY <1>2 DEF Sound, Tells, Inserts, Logged
  <1>6. LogOrdered
    BY <1>2 DEF LogOrdered
  <1>7. NotAhead
    BY <1>3 DEF NotAhead
  <1>8. AllTold
    BY <1>3, <1>4 DEF AllTold, Approved
  <1>9. AllCleared
    BY <1>2 DEF AllCleared, Sealed, Ids, Carries
  <1>10. ClosesEarned
    BY <1>2 DEF ClosesEarned
  <1>11. QED BY <1>1, <1>5, <1>6, <1>7, <1>8, <1>9, <1>10 DEF LoopInv

LEMMA LoopStep == LoopInv /\ [Next]_vars => LoopInv'
  <1> SUFFICES ASSUME LoopInv, [Next]_vars PROVE LoopInv'
    OBVIOUS
  <1>1. TypeOK /\ Sound /\ LogOrdered /\ NotAhead /\ AllTold /\ AllCleared /\ ClosesEarned
    BY DEF LoopInv
  <1>2. TypeOK' /\ Sound'
    BY <1>1, TypeStep, SoundStep
  <1>3. LogOrdered' /\ NotAhead' /\ AllTold'
    BY <1>1, OrderStep, AheadStep, ToldStep
  <1>4. AllCleared' /\ ClosesEarned'
    BY <1>1, ClearedStep, ClosesStep
  <1>5. QED BY <1>2, <1>3, <1>4 DEF LoopInv

\* The inductive invariant of the loop: what is told is sound; the log is in
\* order; nothing done is forgotten unless it was lost; every approval stands
\* for the current snapshot or is cleared; a judged close was earned.
THEOREM LoopInvariant == Spec => []LoopInv
  <1>1. QED BY LoopInitially, LoopStep, PTL DEF Spec

\* Documents, log and calls are of their types.
THEOREM LoopTypeCorrect == Spec => []TypeOK
  <1>1. LoopInv => TypeOK
    BY DEF LoopInv
  <1>2. QED BY LoopInvariant, <1>1, PTL

----------------------------------------------------------------------------
(* What the log says.                                                      *)

LEMMA LogSound ==
  ASSUME TypeOK, Sound, NEW i \in 1..Len(log)
  PROVE  log[i] \in Entry /\ EntrySound(log[i])
  BY DEF TypeOK, Sound, Logged

\* Only approvals are withdrawn, and only those of snapshots now past.
LEMMA WithdrawnPast ==
  ASSUME TypeOK, Sound, NEW i \in Withdrawn
  PROVE  /\ i \in 1..Len(log) /\ log[i].kind = "approval"
         /\ \E d \in Docs, S \in Snapshot : log[i].id = ApprovalId(d, S) /\ Past(S, d)
  <1>1. PICK j \in (i + 1)..Len(log) : log[j].supersedes = log[i].id
    BY DEF Withdrawn
  <1>2. i \in 1..Len(log) /\ j \in 1..Len(log)
    BY <1>1 DEF Withdrawn, TypeOK
  <1>3. log[i] \in Entry /\ EntrySound(log[i]) /\ log[j] \in Entry /\ EntrySound(log[j])
    BY <1>2, LogSound
  <1>4. log[i].id # None /\ log[j].doc \in Docs
    BY <1>3, EntriesTyped, NoneApart
  <1>5. PICK S \in Snapshot : log[j].supersedes = ApprovalId(log[j].doc, S) /\ Past(S, log[j].doc)
    BY <1>1, <1>3, <1>4 DEF EntrySound
  <1>6. log[i].kind = "approval"
    BY <1>1, <1>3, <1>5, IdsApart DEF EntrySound
  <1>7. QED BY <1>1, <1>2, <1>4, <1>5, <1>6

\* So every other entry stands.
LEMMA OthersStand ==
  TypeOK /\ Sound =>
    \A i \in 1..Len(log) : log[i].kind # "approval" => i \notin Withdrawn
  BY WithdrawnPast

LEMMA CurrentStands == LoopInv => ApprovalOfCurrentStands
  <1> SUFFICES ASSUME LoopInv, NEW d \in Docs, NEW i \in Withdrawn,
                      log[i].id = ApprovalId(d, doc[d].at)
               PROVE  FALSE
    BY DEF ApprovalOfCurrentStands
  <1>1. TypeOK /\ Sound
    BY DEF LoopInv
  <1>2. PICK e \in Docs, S \in Snapshot : log[i].id = ApprovalId(e, S) /\ Past(S, e)
    BY <1>1, WithdrawnPast
  <1>3. e = d /\ S = doc[d].at
    BY <1>2 DEF ApprovalId
  <1>4. doc[d].at.revision \in Nat
    BY <1>1 DEF TypeOK, Document, Snapshot
  <1>5. QED BY <1>2, <1>3, <1>4 DEF Past

\* The approval of what is approved now is withdrawn by nothing: a change
\* withdraws the approval of a snapshot its document has left for good.
THEOREM ApprovalsStand == Spec => []ApprovalOfCurrentStands
  <1>1. QED BY LoopInvariant, CurrentStands, PTL

\* A close the run was judged for is of work that was done, though the log is
\* judged before the close commits and told after every act.
THEOREM ClosesWereEarned == Spec => []JudgedCloseWasEarned
  <1>1. LoopInv => JudgedCloseWasEarned
    BY DEF LoopInv, ClosesEarned, Earned, JudgedCloseWasEarned
  <1>2. QED BY LoopInvariant, <1>1, PTL

\* Steps that wait for no approval stay met.
LEMMA MetKept ==
  ASSUME LoopInv, LoopInv', [Next]_vars, NEW step \in Steps, Met(step),
         ~(step.does = "writes" /\ step.doc \in Gated)
  PROVE  Met(step)'
  <1>1. /\ TypeOK /\ Sound /\ TypeOK' /\ Sound'
        /\ \A i \in 1..Len(log) : i \in 1..Len(log') /\ log'[i] = log[i]
    BY LogGrows DEF LoopInv, TypeOK
  <1>2. (TypeOK /\ Sound =>
           \A i \in 1..Len(log) : log[i].kind # "approval" => i \notin Withdrawn)'
    BY OthersStand, PTL
  <1>3. ASSUME NEW i \in 1..Len(log), log[i].kind # "approval"
        PROVE  i \in (1..Len(log')) \ Withdrawn' /\ log'[i] = log[i]
    BY <1>1, <1>2, <1>3
  <1>4. \A i \in 1..Len(log) : \A d :
         (log[i].kind = "document" /\ log[i].doc = d) => i \in Standing("document", d)'
    BY <1>3 DEF Standing
  <1>5. CASE step.does = "audits"
    <2>1. PICK i \in Counted("audit", step.doc) : TRUE
      BY <1>5 DEF Met
    <2>2. /\ i \in 1..Len(log) /\ log[i].kind = "audit" /\ log[i].doc = step.doc
          /\ \E p \in 1..Len(log) : log[p].kind = "document" /\ log[p].id = log[i].about
      BY <2>1 DEF Counted, Standing
    <2>3. i \in Counted("audit", step.doc)'
      BY <1>3, <2>2 DEF Counted, Standing
    <2>4. QED BY <1>5, <2>3 DEF Met
  <1>6. CASE step.does # "audits"
    <2>1. step.does = "writes" /\ step.doc \notin Gated
      <3>1. \A i \in 1..Len(Procedure) : Procedure[i] \in Step
        BY ProcedureAssumption
      <3>2. step \in Step
        BY <3>1 DEF Steps
      <3>3. QED BY <1>6, <3>2 DEF Step
    <2>2. PICK i \in Standing("document", step.doc) : TRUE
      BY <1>6 DEF Met
    <2>3. i \in Standing("document", step.doc)'
      BY <1>3, <2>2 DEF Standing
    <2>4. QED BY <1>6, <2>1, <2>3 DEF Met
  <1>7. QED BY <1>5, <1>6

\* What has been gone through stays so, but for approvals that are displaced.
THEOREM MetForGood == Spec => MetStays
  <1>1. LoopInv /\ LoopInv' /\ [Next]_vars =>
          [\A step \in Steps :
             (Met(step) /\ ~(step.does = "writes" /\ step.doc \in Gated)) => Met(step)']_vars
    BY MetKept
  <1>2. QED BY LoopInvariant, <1>1, PTL DEF Spec, MetStays

\* Once every fact about d is told, what is accounted for is in the log.
LEMMA ToldIsLogged ==
  ASSUME NEW d \in Docs, ~Pending(d), d \notin lost, NEW id, Accounted(id, d)
  PROVE  \E i \in 1..Len(log) : log[i].id = id
  BY DEF Accounted, Concerns, Pending, Ids

LEMMA LogTrue == LoopInv => LogAgrees
  <1> SUFFICES ASSUME LoopInv, NEW d \in Docs, ~Pending(d), d \notin lost \cup missed,
                      Writes(d) \in Steps
               PROVE  /\ Standing("document", d) # {} <=> Held(d)
                      /\ Counted("approval", d) # {} <=> Approved(d)
                      /\ \A i \in Counted("approval", d) : log[i].id = ApprovalId(d, doc[d].at)
                      /\ Audits(d) \in Steps =>
                           (Counted("audit", d) # {} <=>
                              Held(d) /\ \E r \in Rounds : rounds[r] = d)
    BY DEF LogAgrees
  <1>1. TypeOK /\ Sound /\ LogOrdered /\ AllTold /\ AllCleared /\ d \notin lost
    BY DEF LoopInv
  <1>2. \A i \in 1..Len(log) : log[i] \in Entry /\ EntrySound(log[i])
    BY <1>1, LogSound
  <1>3. \A i \in 1..Len(log) : log[i].kind # "approval" => i \notin Withdrawn
    BY <1>1, OthersStand
  <1>4. doc[d].at \in Snapshot
    BY <1>1 DEF TypeOK, Document
  \* What a logged id says of its entry.
  <1>5. ASSUME NEW i \in 1..Len(log), NEW S, log[i].id = DocumentId(d, S)
        PROVE  log[i].kind = "document" /\ log[i].doc = d
    BY <1>2, <1>5, IdsApart DEF EntrySound
  <1>6. ASSUME NEW i \in 1..Len(log), NEW S, log[i].id = ApprovalId(d, S)
        PROVE  log[i].kind = "approval" /\ log[i].doc = d
    BY <1>2, <1>6, IdsApart DEF EntrySound
  <1>7. ASSUME NEW i \in 1..Len(log), NEW r, log[i].id = AuditId(r)
        PROVE  log[i].kind = "audit" /\ rounds[r] = log[i].doc
    BY <1>2, <1>7, IdsApart DEF EntrySound
  \* What an approval or an audit points at is logged, once there is a document.
  <1>8. ASSUME NEW i \in 1..Len(log), log[i].kind # "document", log[i].doc = d, Held(d)
        PROVE  \E p \in (1..Len(log)) \ Withdrawn :
                 log[p].kind = "document" /\ log[p].id = log[i].about
    <2>1. Grounded(log[i].about, d)
      BY <1>2, <1>8 DEF EntrySound
    <2>2. PICK S \in Snapshot : log[i].about = DocumentId(d, S) /\ Accounted(log[i].about, d)
      BY <1>8, <2>1 DEF Grounded
    <2>3. PICK p \in 1..Len(log) : log[p].id = DocumentId(d, S)
      BY <1>1, <2>2, ToldIsLogged
    <2>4. QED BY <1>3, <1>5, <2>2, <2>3
  <1>9. Standing("document", d) # {} <=> Held(d)
    <2>1. ASSUME NEW i \in Standing("document", d)
          PROVE  Held(d)
      BY <1>2 DEF Standing, EntrySound
    <2>2. ASSUME Held(d)
          PROVE  Standing("document", d) # {}
      <3>1. PICK i \in 1..Len(log) : log[i].id = DocumentId(d, doc[d].at)
        BY <1>1, <1>4, <2>2, ToldIsLogged DEF AllTold
      <3>2. QED BY <1>3, <1>5, <3>1 DEF Standing
    <2>3. QED BY <2>1, <2>2
  <1>10. ASSUME NEW i \in Counted("approval", d)
         PROVE  Approved(d) /\ log[i].id = ApprovalId(d, doc[d].at)
    <2>1. i \in 1..Len(log) /\ i \notin Withdrawn /\ log[i].kind = "approval" /\ log[i].doc = d
      BY DEF Counted, Standing
    <2>2. PICK S \in Snapshot : log[i].id = ApprovalId(d, S)
      <3>1. log[i].id \in Id /\ log[i].id.of = "approval" /\ log[i].id.doc = d
        BY <1>2, <2>1, EntriesTyped DEF EntrySound
      <3>2. QED BY <3>1 DEF Id, ApprovalId
    <2>3. Sealed(d, S)
      BY <2>1, <2>2 DEF Sealed, Ids
    <2>4. CASE Cleared(d, S)
      <3>1. PICK j \in 1..Len(log) : log[j].supersedes = ApprovalId(d, S)
        BY <2>4 DEF Cleared, Withdraws, Concerns, Pending
      <3>2. ApprovalId(d, S) # None
        BY IdsTyped, NoneApart
      <3>3. PICK k \in 1..(j - 1) : log[k].id = ApprovalId(d, S)
        BY <1>1, <3>1, <3>2 DEF LogOrdered
      <3>4. k \in 1..Len(log) /\ Len(log) \in Nat
        BY <1>1, <3>3 DEF TypeOK
      <3>5. k = i
        BY <1>1, <2>1, <2>2, <3>3, <3>4 DEF LogOrdered
      <3>6. i \in Withdrawn
        BY <2>1, <2>2, <3>1, <3>3, <3>4, <3>5 DEF Withdrawn
      <3>7. QED BY <2>1, <3>6
    <2>5. QED BY <1>1, <2>2, <2>3, <2>4 DEF AllCleared
  <1>11. ASSUME Approved(d)
         PROVE  Counted("approval", d) # {}
    <2>1. PICK i \in 1..Len(log) : log[i].id = ApprovalId(d, doc[d].at)
      BY <1>1, <1>4, <1>11, ToldIsLogged DEF AllTold
    <2>2. i \notin Withdrawn
      BY <1>11, <2>1, CurrentStands DEF ApprovalOfCurrentStands
    <2>3. log[i].kind = "approval" /\ log[i].doc = d /\ Held(d)
      BY <1>6, <1>11, <2>1 DEF Approved
    <2>4. QED BY <1>8, <2>2, <2>3 DEF Counted, Standing
  <1>12. ASSUME Audits(d) \in Steps
         PROVE  Counted("audit", d) # {} <=> Held(d) /\ \E r \in Rounds : rounds[r] = d
    <2>1. ASSUME NEW i \in Counted("audit", d)
          PROVE  Held(d) /\ \E r \in Rounds : rounds[r] = d
      <3>1. /\ i \in 1..Len(log) /\ log[i].kind = "audit" /\ log[i].doc = d
            /\ \E p \in 1..Len(log) : log[p].kind = "document" /\ log[p].id = log[i].about
        BY DEF Counted, Standing
      <3>2. log[i].id.round \in Rounds /\ rounds[log[i].id.round] = d
        BY <1>2, <3>1, EntriesTyped DEF EntrySound, Id
      <3>3. PICK p \in 1..Len(log) : log[p].kind = "document" /\ log[p].id = log[i].about
        BY <3>1
      <3>4. PICK S \in Snapshot : log[i].about = DocumentId(d, S)
        BY <1>2, <3>1 DEF EntrySound, Grounded
      <3>5. Held(d)
        BY <1>2, <1>5, <3>3, <3>4 DEF EntrySound
      <3>6. QED BY <3>2, <3>5
    <2>2. ASSUME Held(d), NEW r \in Rounds, rounds[r] = d
          PROVE  Counted("audit", d) # {}
      <3>1. PICK i \in 1..Len(log) : log[i].id = AuditId(r)
        BY <1>1, <1>12, <2>2, ToldIsLogged DEF AllTold
      <3>2. log[i].kind = "audit" /\ log[i].doc = d
        BY <1>7, <2>2, <3>1
      <3>3. QED BY <1>3, <1>8, <2>2, <3>2 DEF Counted, Standing
    <2>3. QED BY <2>1, <2>2
  <1>13. QED BY <1>9, <1>10, <1>11, <1>12

\* Once every fact about a document is told, the log says of it what the
\* document says, whatever the order the facts were told in; but for facts
\* that were lost, and withdrawals that were told too early or not at all.
THEOREM LogSaysWhatIs == Spec => []LogAgrees
  <1>1. QED BY LoopInvariant, LogTrue, PTL
=============================================================================
