------------------------ MODULE DocumentChangeProofs ------------------------
(***************************************************************************)
(* What a change may do: edits apply to what is there, versions open on a  *)
(* new cause, a keyed request lands once, and the documents agree with the *)
(* close.                                                                  *)
(*                                                                         *)
(* A change is planned on a document read outside any transaction and      *)
(* lands under a compare-and-swap.  The argument is one invariant of the   *)
(* calls in flight: while a document is in the state a call noted, what    *)
(* the call planned is true of that document.  The stamp of the row        *)
(* carries it over the steps of other calls: it grows with every write, so *)
(* a document in the state noted was not written since, and what was       *)
(* planned on a later document than the one noted never lands at all.      *)
(***************************************************************************)
EXTENDS DocumentStoreProofs

----------------------------------------------------------------------------
(* The invariant.                                                          *)

\* One document, and the same with other writes of its rows' marks only: a row's
\* generation and whether it was presented may differ, nothing a plan reads.
SameContent(x, y) ==
  /\ StateOf(y) = StateOf(x)
  /\ y.status = x.status
  /\ y.approved = x.approved
  /\ \A i \in 1..Len(x.rows) :
       /\ y.rows[i].text = x.rows[i].text
       /\ y.rows[i].version = x.rows[i].version
       /\ y.rows[i].cites = x.rows[i].cites
       /\ y.rows[i].outcome = x.rows[i].outcome

\* What a planned write says of document x while x is in the state it was
\* planned on.
EditPlan(k, x) ==
  LET w == k.write
      r == Current(x)
  IN /\ w.text = Changed(k.ask, k.by, r.text)
     /\ w.status = IF x.status = "approved" THEN Draft(k.doc) ELSE x.status
     /\ w.outcome = r.outcome
     /\ w.causes \cap CitedBy(x, r.version) = {}
     /\ k.base # None => k.base = x.gen
     /\ (x.status = "approved" /\ w.text.body # r.text.body) => w.next

SealText(k, x) ==
  k.write.text = Current(x).text /\ k.write.outcome = Current(x).outcome

CloseText(k, x) ==
  /\ k.write.text = Current(x).text
  /\ k.write.status = x.status
  /\ Current(x).outcome = None

Fits(k, x) ==
  /\ k.op = "edit" => EditPlan(k, x)
  /\ k.op = "approve" => SealText(k, x)
  /\ k.op = "close" => CloseText(k, x)

\* What it says whatever the state.
Sound(k) ==
  /\ k.op = "edit" /\ k.write # None =>
       /\ k.write.causes \subseteq Filed
       /\ k.write.next => k.write.capture \/ k.write.causes # {}
  /\ k.op = "create" =>
       /\ k.write.text.body = <<<<k.by, k.ask.rid>>>>
       /\ k.write.causes \subseteq Filed
  /\ k.op = "approve" => k.doc \in Gated
  /\ k.op = "close" /\ k.to = "finished" => k.doc = ClosingDoc
  /\ k.op = "close" /\ k.write # None => k.write.outcome = k.to

Planned(k) ==
  k.op \in {"edit", "approve", "close"} =>
    /\ k.st.stamp <= doc[k.doc].stamp
    /\ (k.write # None /\ StateOf(doc[k.doc]) = k.st) => Fits(k, doc[k.doc])

PlansHold == \A c \in Calls : Sound(call[c]) /\ Planned(call[c])

\* A document is approved, or a source cited, only where that can be asked for.
ApprovedIsGated == \A d \in Docs : doc[d].status = "approved" => d \in Gated

CitedIsFiled ==
  \A d \in Docs : \A i \in 1..Len(doc[d].rows) : doc[d].rows[i].cites \subseteq Filed

\* The current row's version is the latest.
LatestIsCurrent ==
  \A d \in Docs : \A i \in 1..Len(doc[d].rows) :
    doc[d].rows[i].version <= Current(doc[d]).version

ChangeInv == DocsInv /\ PlansHold

----------------------------------------------------------------------------
(* What a write leaves of the rows' versions, citations and outcomes.      *)

\* The row a rewrite leaves.
LEMMA RewrittenRow ==
  ASSUME NEW x \in Document, x.rows # <<>>, NEW w \in Write,
         NEW causes \in SUBSET Sources
  PROVE  LET y == Saved(x, w, causes, "rewrite")
             n == Len(x.rows)
         IN /\ y.rows[n].version = x.rows[n].version
            /\ y.rows[n].cites = x.rows[n].cites \cup causes
            /\ y.rows[n].outcome = w.outcome
<1> DEFINE n == Len(x.rows)
           r == x.rows[n]
           gen == IF w.text = Current(x).text THEN x.gen ELSE x.gen + 1
           new == [r EXCEPT !.text = w.text, !.gen = gen,
                            !.cites = r.cites \cup causes,
                            !.sealed = IF w.seal # None THEN w.seal ELSE r.sealed,
                            !.outcome = w.outcome]
           y == Saved(x, w, causes, "rewrite")
<1>1. n \in Nat \ {0} /\ n \in 1..Len(x.rows) /\ r \in Row /\ x.rows \in Seq(Row)
  BY CurrentType, RowType DEF Document
<1>2. /\ new.version = r.version /\ new.cites = r.cites \cup causes
      /\ new.outcome = w.outcome
  BY <1>1 DEF Row
<1>3. y = [gen |-> gen, stamp |-> x.stamp + 1, status |-> w.status,
           approved |-> ApprovedRevision(x, w, n),
           rows |-> [x.rows EXCEPT ![n] = new]]
  BY DEF Saved, Rewritten
<1> HIDE DEF new, y
<1>4. y.rows = [x.rows EXCEPT ![n] = new]
  BY <1>3
<1>5. y.rows[n] = new
  BY <1>1, <1>4
<1> QED
  BY <1>2, <1>5 DEF y

\* The row a write appends, and the one it supersedes.
Follows(y, x, w, causes, mode) ==
  LET n == Len(x.rows)
  IN /\ y.rows[n].text = x.rows[n].text
     /\ y.rows[n].version = x.rows[n].version
     /\ y.rows[n].cites = x.rows[n].cites
     /\ y.rows[n].outcome = x.rows[n].outcome
     /\ mode = "append" => y.rows[n + 1].version = x.rows[n].version + 1
     /\ mode # "append" => y.rows[n + 1].version = x.rows[n].version
     /\ mode = "pinned" => y.rows[n + 1].cites = x.rows[n].cites \cup causes
     /\ mode # "pinned" => y.rows[n + 1].cites = causes
     /\ y.rows[n + 1].outcome = w.outcome

LEMMA AppendedRow ==
  ASSUME NEW x \in Document, x.rows # <<>>, NEW w \in Write,
         NEW causes \in SUBSET Sources, NEW mode, mode # "rewrite"
  PROVE  /\ Supersedes(Saved(x, w, causes, mode), x, w)
         /\ Follows(Saved(x, w, causes, mode), x, w, causes, mode)
<1> DEFINE n == Len(x.rows)
           r == x.rows[n]
           gen == IF w.text = Current(x).text THEN x.gen ELSE x.gen + 1
           new == [text |-> w.text, gen |-> gen,
                   version |-> IF mode = "append" THEN r.version + 1 ELSE r.version,
                   cites |-> IF mode = "pinned" THEN r.cites \cup causes ELSE causes,
                   sealed |-> w.seal, presented |-> FALSE, outcome |-> w.outcome]
           y == Saved(x, w, causes, mode)
<1>1. n \in Nat \ {0} /\ r \in Row /\ x.rows \in Seq(Row) /\ Supersedes(y, x, w)
  BY CurrentType, RowType, AppendedRows DEF Document
<1>2. y.rows[n] = [r EXCEPT !.gen = GenOf(x, n)]
  BY <1>1 DEF Supersedes
<1>3. /\ y.rows[n].text = r.text /\ y.rows[n].version = r.version
      /\ y.rows[n].cites = r.cites /\ y.rows[n].outcome = r.outcome
  <2> HIDE DEF r, y
  <2> QED
    BY <1>1, <1>2 DEF Row
<1>4. Len(Stamped(x)) = n /\ Stamped(x) \in Seq(Row)
  <2>1. GenOf(x, n) \in Nat /\ n \in 1..Len(x.rows)
    BY <1>1, RowType
  <2>2. [r EXCEPT !.gen = GenOf(x, n)] \in Row
    <3> HIDE DEF r
    <3> QED
      BY <1>1, <2>1 DEF Row
  <2> QED
    BY <1>1, <2>1, <2>2 DEF Stamped
<1>5. y.rows = Append(Stamped(x), new)
  BY DEF Saved, Appended
<1> HIDE DEF new
<1>6. y.rows[n + 1] = new
  <2> HIDE DEF y
  <2> QED
    BY <1>1, <1>4, <1>5
<1>7. /\ new.version = IF mode = "append" THEN r.version + 1 ELSE r.version
      /\ new.cites = IF mode = "pinned" THEN r.cites \cup causes ELSE causes
      /\ new.outcome = w.outcome
  BY DEF new
<1> QED
  BY <1>1, <1>3, <1>6, <1>7 DEF Follows

\* A presentation leaves all of them.
LEMMA MarkedContent ==
  ASSUME NEW x \in Document, x.rows # <<>>, NEW done \in BOOLEAN
  PROVE  SameContent(x, Marked(x, done)) /\ Len(Marked(x, done).rows) = Len(x.rows)
<1> DEFINE n == Len(x.rows)
           r == x.rows[n]
           new == [r EXCEPT !.gen = GenOf(x, n), !.presented = r.presented \/ done]
           rows == [x.rows EXCEPT ![n] = new]
           y == Marked(x, done)
<1>1. n \in Nat \ {0} /\ n \in 1..Len(x.rows) /\ r \in Row /\ x.rows \in Seq(Row)
  BY CurrentType, RowType DEF Document
<1>2. /\ new.text = r.text /\ new.version = r.version /\ new.cites = r.cites
      /\ new.outcome = r.outcome
  BY <1>1 DEF Row
<1>3. y = [x EXCEPT !.rows = rows]
  BY DEF Marked
<1> HIDE DEF new
<1>4. Len(rows) = n /\ rows[n] = new /\ \A i \in 1..(n - 1) : rows[i] = x.rows[i]
  BY <1>1
<1> HIDE DEF rows, y
<1>5. /\ y.rows = rows /\ y.gen = x.gen /\ y.stamp = x.stamp
      /\ y.status = x.status /\ y.approved = x.approved
  BY <1>3 DEF Document
<1>6. \A i \in 1..n : /\ y.rows[i].text = x.rows[i].text
                      /\ y.rows[i].version = x.rows[i].version
                      /\ y.rows[i].cites = x.rows[i].cites
                      /\ y.rows[i].outcome = x.rows[i].outcome
  <2> TAKE i \in 1..n
  <2>1. i = n \/ i \in 1..(n - 1)
    BY <1>1
  <2> QED
    BY <1>2, <1>4, <1>5, <2>1
<1>7. StateOf(y) = StateOf(x) /\ Len(y.rows) = n
  BY <1>4, <1>5 DEF StateOf
<1> QED
  BY <1>5, <1>6, <1>7 DEF SameContent, y

\* What is so planned, and the same content, read alike.
LEMMA AlikeRead ==
  ASSUME NEW x \in Document, x.rows # <<>>, NEW y, SameContent(x, y)
  PROVE  /\ Len(y.rows) = Len(x.rows) /\ y.gen = x.gen /\ y.stamp = x.stamp
         /\ y.status = x.status /\ y.approved = x.approved
         /\ Current(y).text = Current(x).text
         /\ Current(y).version = Current(x).version
         /\ Current(y).cites = Current(x).cites
         /\ Current(y).outcome = Current(x).outcome
         /\ \A v : CitedBy(y, v) = CitedBy(x, v)
<1>1. Len(y.rows) = Len(x.rows) /\ y.gen = x.gen /\ y.stamp = x.stamp
  BY DEF SameContent, StateOf
<1>2. Len(x.rows) \in 1..Len(x.rows)
  BY CurrentType
<1>3. ASSUME NEW v PROVE CitedBy(y, v) = CitedBy(x, v)
  <2> DEFINE J == {j \in 1..Len(x.rows) : x.rows[j].version = v}
  <2>1. {j \in 1..Len(y.rows) : y.rows[j].version = v} = J
    BY <1>1 DEF SameContent
  <2>2. \A i \in J : y.rows[i].cites = x.rows[i].cites
    BY DEF SameContent
  <2>3. {y.rows[i].cites : i \in J} = {x.rows[i].cites : i \in J}
    BY <2>2
  <2> QED
    BY <2>1, <2>3 DEF CitedBy
<1> QED
  BY <1>1, <1>2, <1>3 DEF SameContent, Current

\* A plan that fits a document fits the same content.
LEMMA AlikeFits ==
  ASSUME NEW x \in Document, x.rows # <<>>, NEW y, SameContent(x, y), NEW k, Fits(k, x)
  PROVE  Fits(k, y)
BY AlikeRead DEF Fits, EditPlan, SealText, CloseText

\* The stamp of a row tells whether its document was written since.
LEMMA StampKeeps ==
  ASSUME DocsInv, [Next]_vars, NEW d \in Docs, Held(d)
  PROVE  /\ doc[d].stamp \in Nat /\ doc'[d].stamp \in Nat
         /\ doc'[d].stamp >= doc[d].stamp
         /\ doc'[d].stamp = doc[d].stamp => SameContent(doc[d], doc'[d])
<1> DEFINE x == doc[d]
           y == doc'[d]
<1>1. /\ doc \in [Docs -> Document] /\ x \in Document /\ x.rows # <<>>
      /\ x.stamp \in Nat
  BY DEF DocsInv, RowsInv, TypeInv, TypeOK, Held, Document
<1>2. CASE y = x
  BY <1>1, <1>2 DEF SameContent
<1>3. ASSUME NEW w \in Write, NEW causes \in SUBSET Sources, NEW mode,
             y = Saved(x, w, causes, mode)
      PROVE  y.stamp = x.stamp + 1
  <2>1. CASE mode = "rewrite"
    <3>1. Saved(x, w, causes, "rewrite").stamp = x.stamp + 1
      BY <1>1, RewrittenRows
    <3> QED
      BY <1>3, <2>1, <3>1
  <2>2. CASE mode # "rewrite"
    <3>1. Supersedes(Saved(x, w, causes, mode), x, w)
      BY <1>1, <2>2, AppendedRows
    <3> QED
      BY <1>3, <3>1 DEF Supersedes
  <2> QED
    BY <2>1, <2>2
<1>4. ASSUME NEW done \in BOOLEAN, y = Marked(x, done)
      PROVE  y.stamp = x.stamp /\ SameContent(x, y)
  BY <1>1, <1>4, MarkedRows, MarkedContent
<1>5. ASSUME NEW e \in Docs, Written(e) PROVE y = x \/ y.stamp = x.stamp + 1
  BY <1>1, <1>3, <1>5 DEF Written
<1>6. ASSUME NEW e \in Docs, Drafted(e) PROVE y = x
  BY <1>1, <1>6 DEF Drafted
<1>7. ASSUME NEW e \in Docs, Recalled(e)
      PROVE  y = x \/ (y.stamp = x.stamp /\ SameContent(x, y))
  BY <1>1, <1>4, <1>7 DEF Recalled
<1> HIDE DEF x, y
<1>8. CASE y.stamp = x.stamp + 1
  BY <1>1, <1>8 DEF x, y
<1>9. CASE y.stamp = x.stamp /\ SameContent(x, y)
  BY <1>1, <1>9 DEF x, y
<1> QED
  BY <1>2, <1>5, <1>6, <1>7, <1>8, <1>9, DocSteps DEF DocsInv, x, y

----------------------------------------------------------------------------
(* What a call planned goes on holding.                                    *)

\* What the lemmas below read off the invariant.
LEMMA ChangeTypes ==
  ASSUME ChangeInv
  PROVE  /\ DocsInv /\ RowsInv /\ TypeInv /\ TypeOK
         /\ doc \in [Docs -> Document] /\ call \in [Calls -> Call]
BY DEF ChangeInv, DocsInv, RowsInv, TypeInv, TypeOK

\* Source material is filed for good.
LEMMA FiledStays ==
  ASSUME TypeOK, [Next]_vars
  PROVE  Filed \subseteq Filed'
<1>1. CASE supports' = supports
  BY <1>1 DEF Filed
<1>2. ASSUME NEW cap, NEW D, cap \cap Filed = {}, supports' = Filing(cap, D)
      PROVE  Filed \subseteq Filed'
  BY <1>2 DEF Filed, Filing
<1>3. ASSUME NEW b, NEW cap \in Captures(b) PROVE cap \cap Filed = {}
  BY <1>3 DEF Captures
<1>4. CASE UNCHANGED vars
  BY <1>1, <1>4 DEF vars
<1>5. ASSUME NEW c \in Calls, Edit(c) PROVE Filed \subseteq Filed'
  <2>1. CASE SaveEdit(c)
    BY <1>2, <1>3, <2>1 DEF SaveEdit
  <2> QED
    BY <1>1, <1>5, <2>1 DEF Edit, BeginEdit, PlanEdit, RetryEdit, SaveNoChange, store
<1>6. ASSUME NEW c \in Calls, Create(c) PROVE Filed \subseteq Filed'
  <2>1. CASE SaveCreate(c)
    BY <1>2, <1>3, <2>1 DEF SaveCreate
  <2> QED
    BY <1>1, <1>6, <2>1 DEF Create, BeginCreate, store
<1>7. ASSUME NEW c \in Calls, Present(c) PROVE supports' = supports
  <2>1. ASSUME NEW d, NEW page, Showing(c, d, page) PROVE supports' = supports
    BY <2>1 DEF Showing, store
  <2>2. ASSUME NEW v, NEW d, NEW span, BeginPresent(c, v, d, span)
        PROVE  supports' = supports
    BY <2>1, <2>2 DEF BeginPresent, PresentFresh, PresentWhole, PresentDelta,
                      PresentOn, PresentRead
  <2> QED
    BY <1>7, <2>2 DEF Present, SavePresent
<1>8. ASSUME NEW c \in Calls, Approve(c) PROVE supports' = supports
  BY <1>8 DEF Approve, BeginApprove, PlanApprove, SaveApprove, store
<1>9. ASSUME NEW c \in Calls, Close(c) PROVE supports' = supports
  BY <1>9 DEF Close, BeginClose, PlanClose, RetryClose, SaveClose, BeginAbandon,
              SaveAbandon, store
<1>10. ASSUME NEW c \in Calls, GiveUp(c) PROVE supports' = supports
  BY <1>10 DEF GiveUp, store
<1>11. ASSUME NEW s, NEW D, AddSource(s, D) PROVE Filed \subseteq Filed'
  <2>1. {s} \cap Filed = {} /\ supports' = Filing({s}, D)
    BY <1>11 DEF AddSource, Filed
  <2> QED
    BY <1>2, <2>1
<1> QED
  BY <1>1, <1>4, <1>5, <1>6, <1>7, <1>8, <1>9, <1>10, <1>11 DEF Next

\* A call that has a plan keeps it, whatever step another one takes.
LEMMA PlannedStays ==
  ASSUME ChangeInv, [Next]_vars, NEW k \in Call, Sound(k), Planned(k),
         k.op \in {"edit", "approve", "close"} => Held(k.doc)
  PROVE  Sound(k)' /\ Planned(k)'
<1>1. Sound(k)'
  BY FiledStays, ChangeTypes DEF Sound
<1>2. CASE k.op \in {"edit", "approve", "close"}
  <2>1. k.doc \in Docs /\ k.st \in DocumentState
    BY <1>2, CallKind DEF EditCall, ApproveCall, CloseCall
  <2>2. k.st.stamp \in Nat
    BY <2>1 DEF DocumentState
  <2> PICK x : x = doc[k.doc]
    OBVIOUS
  <2> PICK y : y = doc'[k.doc]
    OBVIOUS
  <2>3. /\ x.stamp \in Nat /\ y.stamp \in Nat /\ y.stamp >= x.stamp
        /\ y.stamp = x.stamp => SameContent(x, y)
        /\ x \in Document /\ x.rows # <<>>
    BY <1>2, <2>1, StampKeeps, ChangeTypes DEF Held
  <2>4. /\ k.st.stamp <= x.stamp
        /\ (k.write # None /\ StateOf(x) = k.st) => Fits(k, x)
    BY <1>2 DEF Planned
  <2>5. ASSUME k.write # None, StateOf(y) = k.st PROVE Fits(k, y)
    <3>1. y.stamp = k.st.stamp
      BY <2>5 DEF StateOf
    <3>2. y.stamp = x.stamp
      BY <2>2, <2>3, <2>4, <3>1
    <3>3. StateOf(x) = k.st
      BY <2>3, <2>5, <3>2 DEF SameContent
    <3> QED
      BY <2>3, <2>4, <2>5, <3>2, <3>3, AlikeFits
  <2>6. k.st.stamp <= y.stamp
    BY <2>2, <2>3, <2>4
  <2> QED
    BY <1>1, <2>5, <2>6 DEF Planned
<1>3. CASE k.op \notin {"edit", "approve", "close"}
  BY <1>1, <1>3 DEF Planned
<1> QED
  BY <1>1, <1>2, <1>3

\* One slot filled with a sound plan leaves all plans sound.
LEMMA SlotHolds ==
  ASSUME ChangeInv, [Next]_vars, NEW c \in Calls, NEW r, Sound(r)', Planned(r)',
         call' = [call EXCEPT ![c] = r]
  PROVE  PlansHold'
<1> SUFFICES ASSUME NEW b \in Calls PROVE (Sound(call[b]) /\ Planned(call[b]))'
  BY DEF PlansHold
<1>1. call'[b] = IF b = c THEN r ELSE call[b]
  BY ChangeTypes
<1> PICK k : k = call[b]
  OBVIOUS
<1>2. /\ k \in Call /\ Sound(k) /\ Planned(k)
      /\ k.op \in {"edit", "approve", "close"} => Held(k.doc)
  BY ChangeTypes DEF ChangeInv, PlansHold, TypeInv, CallsHeld, CallHeld, Held
<1>3. Sound(k)' /\ Planned(k)'
  BY <1>2, PlannedStays
<1>4. ASSUME NEW j, Sound(j)', Planned(j)', call'[b] = j
      PROVE  (Sound(call[b]) /\ Planned(call[b]))'
  BY <1>4 DEF Sound, Planned
<1> QED
  BY <1>1, <1>3, <1>4

\* A call that ends holds no plan.
LEMMA EndHolds ==
  ASSUME ChangeInv, [Next]_vars, NEW c \in Calls, End(c)
  PROVE  PlansHold'
<1>1. Sound(Idle)' /\ Planned(Idle)'
  BY DEF Sound, Planned, Idle
<1> QED
  BY <1>1, SlotHolds DEF End, Proceed

\* A call begins, or begins again, on the state it reads, with no plan yet.
LEMMA FreshHolds ==
  ASSUME ChangeInv, NEW r, r.op \in {"edit", "approve", "close"}, r.doc \in Docs,
         Held(r.doc), r.st = StateOf(doc[r.doc]), r.write = None, doc' = doc,
         r.op = "approve" => r.doc \in Gated,
         r.op = "close" /\ r.to = "finished" => r.doc = ClosingDoc
  PROVE  Sound(r)' /\ Planned(r)'
<1>1. doc[r.doc].stamp \in Nat
  BY ChangeTypes DEF Document
<1>2. r.st.stamp = doc[r.doc].stamp
  BY DEF StateOf
<1> QED
  BY <1>1, <1>2 DEF Sound, Planned

\* The plan of an edit fits the document it is computed on, and rests on filed
\* sources.
LEMMA EditOfFits ==
  ASSUME NEW d, NEW ask, NEW v, ask.named \subseteq Filed
  PROVE  LET w == EditOf(d, ask, v)
             x == doc[d]
             r == Current(x)
         IN /\ w.text = Changed(ask, v, r.text)
            /\ w.status = IF x.status = "approved" THEN Draft(d) ELSE x.status
            /\ w.outcome = r.outcome
            /\ w.seal = None
            /\ w.causes \cap CitedBy(x, r.version) = {}
            /\ w.causes \subseteq Filed
            /\ w.next => w.capture \/ w.causes # {}
<1> DEFINE x == doc[d]
           r == Current(x)
           new == Changed(ask, v, r.text)
           causes == IF new = r.text THEN {} ELSE Causes(d, ask, new.body # r.text.body)
           captures == ask.capture /\ new # r.text
           w == EditOf(d, ask, v)
<1>1. Owed(d) \subseteq Filed /\ Owed(d) \cap CitedBy(x, r.version) = {}
  BY DEF Owed, Filed, CitedBy
<1>2. causes \subseteq Filed /\ causes \cap CitedBy(x, r.version) = {}
  BY <1>1 DEF Causes
<1>3. w = [text |-> new, status |-> Unsealed(d), outcome |-> Carried(d), seal |-> None,
           next |-> new.body # r.text.body /\ (captures \/ causes # {}),
           causes |-> causes, capture |-> captures]
  BY DEF EditOf
<1>4. Unsealed(d) = (IF x.status = "approved" THEN Draft(d) ELSE x.status)
      /\ Carried(d) = r.outcome
  BY DEF Unsealed, Carried
<1> HIDE DEF new, causes, captures, w
<1>5. /\ w.text = new /\ w.status = Unsealed(d) /\ w.outcome = Carried(d)
      /\ w.seal = None /\ w.causes = causes /\ w.capture = captures
      /\ w.next = (new.body # r.text.body /\ (captures \/ causes # {}))
  BY <1>3
<1> QED
  BY <1>2, <1>4, <1>5 DEF new, w

\* document_edit plans what fits.
LEMMA EditHolds ==
  ASSUME ChangeInv, [Next]_vars, NEW c \in Calls, Edit(c)
  PROVE  PlansHold'
<1>1. call[c] \in Call
  BY ChangeTypes
<1>2. ASSUME NEW v \in Viewers, NEW d \in Docs, NEW ask \in Asks, NEW base,
             BeginEdit(c, v, d, ask, base)
      PROVE  PlansHold'
  <2> PICK r : r = [op |-> "edit", by |-> v, doc |-> d, ask |-> ask, base |-> base,
                    att |-> 1, st |-> StateOf(doc[d]), write |-> None]
    OBVIOUS
  <2>1. call' = [call EXCEPT ![c] = r] /\ doc' = doc /\ Held(d)
    BY <1>2 DEF BeginEdit, Begin, store
  <2>2. r.op = "edit" /\ r.doc = d /\ r.st = StateOf(doc[d]) /\ r.write = None
    OBVIOUS
  <2>3. Sound(r)' /\ Planned(r)'
    BY <2>1, <2>2, FreshHolds
  <2> QED
    BY <2>1, <2>3, SlotHolds
<1>3. CASE PlanEdit(c)
  <2> PICK k : k = call[c]
    OBVIOUS
  <2> DEFINE w == EditOf(k.doc, k.ask, k.by)
             r == [k EXCEPT !.write = w]
             x == doc[k.doc]
  <2>1. /\ k.op = "edit" /\ k.ask.named \subseteq Filed
        /\ k.base # None => k.base = x.gen
        /\ CauseGiven(k.doc, w)
        /\ End(c) \/ call' = [call EXCEPT ![c] = r]
        /\ doc' = doc /\ supports' = supports
    BY <1>3 DEF PlanEdit, Proceed, store
  <2>2. k \in EditCall
    BY <1>1, <2>1, CallKind
  <2>3. /\ w.text = Changed(k.ask, k.by, Current(x).text)
        /\ w.status = IF x.status = "approved" THEN Draft(k.doc) ELSE x.status
        /\ w.outcome = Current(x).outcome
        /\ w.causes \cap CitedBy(x, Current(x).version) = {}
        /\ w.causes \subseteq Filed
        /\ w.next => w.capture \/ w.causes # {}
    BY <2>1, EditOfFits
  <2>4. (x.status = "approved" /\ w.text.body # Current(x).text.body) => w.next
    BY <2>1 DEF CauseGiven
  <2> HIDE DEF w
  <2> PICK j : j = r
    OBVIOUS
  <2>5. /\ j.op = "edit" /\ j.doc = k.doc /\ j.by = k.by /\ j.ask = k.ask
        /\ j.base = k.base /\ j.st = k.st /\ j.write = w
    BY <2>1, <2>2 DEF EditCall
  <2>6. k.st.stamp <= x.stamp
    BY <2>1 DEF ChangeInv, PlansHold, Planned
  <2>7. EditPlan(j, x)
    BY <2>1, <2>3, <2>4, <2>5 DEF EditPlan
  <2>8. Filed' = Filed
    BY <2>1 DEF Filed
  <2>9. Sound(j)'
    BY <2>3, <2>5, <2>8 DEF Sound
  <2>10. Planned(j)'
    BY <2>1, <2>5, <2>6, <2>7 DEF Planned, Fits
  <2>11. End(c) \/ call' = [call EXCEPT ![c] = j]
    BY <2>1
  <2> QED
    BY <2>9, <2>10, <2>11, SlotHolds, EndHolds
<1>4. CASE RetryEdit(c)
  <2> PICK k : k = call[c]
    OBVIOUS
  <2> DEFINE q == [k EXCEPT !.att = k.att + 1, !.st = StateOf(doc[k.doc]),
                            !.write = None]
  <2> PICK r : r = q
    OBVIOUS
  <2>1. k.op = "edit" /\ call' = [call EXCEPT ![c] = r] /\ doc' = doc
    BY <1>4 DEF RetryEdit, Proceed, store
  <2>2. k \in EditCall
    BY <1>1, <2>1, CallKind
  <2>3. k.doc \in Docs /\ Held(k.doc)
    BY <2>1, <2>2, ChangeTypes DEF EditCall, TypeInv, CallsHeld, CallHeld, Held
  <2>4. r.op = "edit" /\ r.doc = k.doc /\ r.st = StateOf(doc[k.doc]) /\ r.write = None
    BY <2>1, <2>2 DEF EditCall
  <2> HIDE DEF q
  <2>5. r.doc \in Docs /\ Held(r.doc) /\ r.st = StateOf(doc[r.doc])
    BY <2>3, <2>4
  <2>6. Sound(r)' /\ Planned(r)'
    BY <2>1, <2>4, <2>5, FreshHolds
  <2> QED
    BY <2>1, <2>6, SlotHolds
<1>5. CASE SaveNoChange(c) \/ SaveEdit(c)
  BY <1>5, EndHolds DEF SaveNoChange, SaveEdit
<1> QED
  BY <1>2, <1>3, <1>4, <1>5 DEF Edit

\* document_write plans a first text, on filed sources.
LEMMA CreateHolds ==
  ASSUME ChangeInv, [Next]_vars, NEW c \in Calls, Create(c)
  PROVE  PlansHold'
<1>1. ASSUME NEW v, NEW d, NEW ask, BeginCreate(c, v, d, ask)
      PROVE  PlansHold'
  <2> DEFINE w == [text |-> [body |-> <<<<v, ask.rid>>>>, title |-> None],
                   status |-> Draft(d), outcome |-> None, seal |-> None,
                   next |-> FALSE, causes |-> ask.named \cup Owed(d),
                   capture |-> ask.capture]
  <2> PICK r : r = [op |-> "create", by |-> v, doc |-> d, ask |-> ask, write |-> w]
    OBVIOUS
  <2>1. /\ call' = [call EXCEPT ![c] = r] /\ ask.named \subseteq Filed
        /\ supports' = supports
    BY <1>1 DEF BeginCreate, Begin, store
  <2>2. w.text.body = <<<<v, ask.rid>>>> /\ w.causes = ask.named \cup Owed(d)
    OBVIOUS
  <2> HIDE DEF w
  <2>3. r.op = "create" /\ r.by = v /\ r.ask = ask /\ r.write = w
    OBVIOUS
  <2>4. Owed(d) \subseteq Filed /\ Filed' = Filed
    BY <2>1 DEF Owed, Filed
  <2>5. Sound(r)' /\ Planned(r)'
    BY <2>1, <2>2, <2>3, <2>4 DEF Sound, Planned
  <2> QED
    BY <2>1, <2>5, SlotHolds
<1>2. CASE SaveCreate(c)
  BY <1>2, EndHolds DEF SaveCreate
<1> QED
  BY <1>1, <1>2 DEF Create

\* document_present plans nothing.
LEMMA PresentHolds ==
  ASSUME ChangeInv, [Next]_vars, NEW c \in Calls, Present(c)
  PROVE  PlansHold'
<1>1. ASSUME NEW d, NEW page, Showing(c, d, page) PROVE PlansHold'
  <2> PICK r : r = [op |-> "present", page |-> page, rev |-> Len(doc[d].rows),
                    current |-> page.target = Now(doc[d])]
    OBVIOUS
  <2>1. call' = [call EXCEPT ![c] = r]
    BY <1>1 DEF Showing, Begin
  <2>2. r.op = "present"
    OBVIOUS
  <2>3. Sound(r)' /\ Planned(r)'
    BY <2>2 DEF Sound, Planned
  <2> QED
    BY <2>1, <2>3, SlotHolds
<1>2. ASSUME NEW v, NEW d, NEW span, BeginPresent(c, v, d, span) PROVE PlansHold'
  BY <1>1, <1>2 DEF BeginPresent, PresentFresh, PresentWhole, PresentDelta,
                    PresentOn, PresentRead
<1>3. CASE SavePresent(c)
  BY <1>3, EndHolds DEF SavePresent
<1> QED
  BY <1>2, <1>3 DEF Present

\* document_approve plans to seal the text it finds.
LEMMA ApproveHolds ==
  ASSUME ChangeInv, [Next]_vars, NEW c \in Calls, Approve(c)
  PROVE  PlansHold'
<1>1. call[c] \in Call
  BY ChangeTypes
<1>2. ASSUME NEW v \in Viewers, NEW d \in Docs, BeginApprove(c, v, d)
      PROVE  PlansHold'
  <2> PICK r : r = [op |-> "approve", by |-> v, doc |-> d, st |-> StateOf(doc[d]),
                    ctx |-> 0, write |-> None]
    OBVIOUS
  <2>1. call' = [call EXCEPT ![c] = r] /\ doc' = doc /\ Held(d) /\ d \in Gated
    BY <1>2 DEF BeginApprove, Begin, store
  <2>2. r.op = "approve" /\ r.doc = d /\ r.st = StateOf(doc[d]) /\ r.write = None
    OBVIOUS
  <2>3. Sound(r)' /\ Planned(r)'
    BY <2>1, <2>2, FreshHolds
  <2> QED
    BY <2>1, <2>3, SlotHolds
<1>3. ASSUME NEW x \in 1..MaxContexts, PlanApprove(c, x) PROVE PlansHold'
  <2> PICK k : k = call[c]
    OBVIOUS
  <2> DEFINE w == SealOf(k.doc, k.by)
  <2> PICK j : j = [k EXCEPT !.ctx = x, !.write = w]
    OBVIOUS
  <2>1. k.op = "approve" /\ call' = [call EXCEPT ![c] = j] /\ doc' = doc
    BY <1>3 DEF PlanApprove, Proceed, store
  <2>2. k \in ApproveCall
    BY <1>1, <2>1, CallKind
  <2>3. /\ w.text = Current(doc[k.doc]).text
        /\ w.outcome = Current(doc[k.doc]).outcome
    BY DEF SealOf
  <2> HIDE DEF w
  <2>4. j.op = "approve" /\ j.doc = k.doc /\ j.st = k.st /\ j.write = w
    BY <2>1, <2>2 DEF ApproveCall
  <2>5. k.st.stamp <= doc[k.doc].stamp /\ k.doc \in Gated
    BY <2>1 DEF ChangeInv, PlansHold, Planned, Sound
  <2>6. Sound(j)' /\ Planned(j)'
    BY <2>1, <2>3, <2>4, <2>5 DEF Sound, Planned, Fits, SealText
  <2> QED
    BY <2>1, <2>6, SlotHolds
<1>4. CASE SaveApprove(c)
  BY <1>4, EndHolds DEF SaveApprove
<1> QED
  BY <1>2, <1>3, <1>4 DEF Approve

\* initiative_close plans to close the text it finds, once, and a finished close
\* on the closing document.
LEMMA CloseHolds ==
  ASSUME ChangeInv, [Next]_vars, NEW c \in Calls, Close(c)
  PROVE  PlansHold'
<1>1. call[c] \in Call
  BY ChangeTypes
<1>2. ASSUME NEW v \in Viewers, NEW d \in Docs, NEW to \in Dispositions,
             BeginClose(c, v, d, to)
      PROVE  PlansHold'
  <2> PICK r : r = [op |-> "close", by |-> v, doc |-> d, to |-> to, att |-> 1,
                    st |-> StateOf(doc[d]), write |-> None]
    OBVIOUS
  <2>1. call' = [call EXCEPT ![c] = r] /\ doc' = doc /\ LandsOn(to, d)
    BY <1>2 DEF BeginClose, Begin, store
  <2>2. /\ r.op = "close" /\ r.doc = d /\ r.to = to /\ r.st = StateOf(doc[d])
        /\ r.write = None
    OBVIOUS
  <2>3. Held(d) /\ (to = "finished" => d = ClosingDoc)
    BY <2>1 DEF LandsOn
  <2>4. Sound(r)' /\ Planned(r)'
    BY <2>1, <2>2, <2>3, FreshHolds
  <2> QED
    BY <2>1, <2>4, SlotHolds
<1>3. CASE PlanClose(c)
  <2> PICK k : k = call[c]
    OBVIOUS
  <2> DEFINE w == CloseOf(k.doc, k.to)
  <2> PICK j : j = [k EXCEPT !.write = w]
    OBVIOUS
  <2>1. /\ k.op = "close" /\ call' = [call EXCEPT ![c] = j] /\ doc' = doc
        /\ Current(doc[k.doc]).outcome = None
    BY <1>3 DEF PlanClose, Proceed, store
  <2>2. k \in CloseCall
    BY <1>1, <2>1, CallKind
  <2>3. /\ w.text = Current(doc[k.doc]).text /\ w.status = doc[k.doc].status
        /\ w.outcome = k.to
    BY DEF CloseOf
  <2> HIDE DEF w
  <2>4. /\ j.op = "close" /\ j.doc = k.doc /\ j.st = k.st /\ j.write = w
        /\ j.to = k.to
    BY <2>1, <2>2 DEF CloseCall
  <2>5. /\ k.st.stamp <= doc[k.doc].stamp
        /\ k.to = "finished" => k.doc = ClosingDoc
    BY <2>1 DEF ChangeInv, PlansHold, Planned, Sound
  <2>6. Sound(j)' /\ Planned(j)'
    BY <2>1, <2>3, <2>4, <2>5 DEF Sound, Planned, Fits, CloseText
  <2> QED
    BY <2>1, <2>6, SlotHolds
<1>4. CASE RetryClose(c)
  <2> PICK k : k = call[c]
    OBVIOUS
  <2> DEFINE q == [k EXCEPT !.att = k.att + 1, !.st = StateOf(doc[k.doc]),
                            !.write = None]
  <2> PICK r : r = q
    OBVIOUS
  <2>1. k.op = "close" /\ call' = [call EXCEPT ![c] = r] /\ doc' = doc
    BY <1>4 DEF RetryClose, Proceed, store
  <2>2. k \in CloseCall
    BY <1>1, <2>1, CallKind
  <2>3. /\ k.doc \in Docs /\ Held(k.doc)
        /\ k.to = "finished" => k.doc = ClosingDoc
    BY <2>1, <2>2, ChangeTypes
       DEF CloseCall, TypeInv, CallsHeld, CallHeld, Held, ChangeInv, PlansHold, Sound
  <2>4. /\ r.op = "close" /\ r.doc = k.doc /\ r.to = k.to
        /\ r.st = StateOf(doc[k.doc]) /\ r.write = None
    BY <2>1, <2>2 DEF CloseCall
  <2> HIDE DEF q
  <2>5. /\ r.doc \in Docs /\ Held(r.doc) /\ r.st = StateOf(doc[r.doc])
        /\ r.to = "finished" => r.doc = ClosingDoc
    BY <2>3, <2>4
  <2>6. Sound(r)' /\ Planned(r)'
    BY <2>1, <2>4, <2>5, FreshHolds
  <2> QED
    BY <2>1, <2>6, SlotHolds
<1>5. CASE BeginAbandon(c)
  <2> PICK r : r = [op |-> "abandon"]
    OBVIOUS
  <2>1. call' = [call EXCEPT ![c] = r]
    BY <1>5 DEF BeginAbandon, Begin
  <2>2. r.op = "abandon"
    OBVIOUS
  <2>3. Sound(r)' /\ Planned(r)'
    BY <2>2 DEF Sound, Planned
  <2> QED
    BY <2>1, <2>3, SlotHolds
<1>6. CASE SaveClose(c) \/ SaveAbandon(c)
  BY <1>6, EndHolds DEF SaveClose, SaveAbandon
<1> QED
  BY <1>2, <1>3, <1>4, <1>5, <1>6 DEF Close

\* Every step leaves every plan sound.
LEMMA NextChange == ChangeInv /\ [Next]_vars => ChangeInv'
<1> SUFFICES ASSUME ChangeInv, [Next]_vars PROVE ChangeInv'
  OBVIOUS
<1>1. DocsInv'
  BY NextDocs DEF ChangeInv
<1>2. ASSUME doc' = doc, call' = call PROVE PlansHold'
  <2> SUFFICES ASSUME NEW b \in Calls PROVE (Sound(call[b]) /\ Planned(call[b]))'
    BY DEF PlansHold
  <2>1. Sound(call[b]) /\ Planned(call[b]) /\ Filed \subseteq Filed'
    BY FiledStays, ChangeTypes DEF ChangeInv, PlansHold
  <2> QED
    BY <1>2, <2>1 DEF Sound, Planned
<1>3. ASSUME UNCHANGED vars PROVE PlansHold'
  BY <1>2, <1>3 DEF vars
<1>4. ASSUME NEW c \in Calls, GiveUp(c) PROVE PlansHold'
  BY <1>4, EndHolds DEF GiveUp
<1>5. ASSUME NEW s, NEW D, AddSource(s, D) PROVE PlansHold'
  BY <1>2, <1>5 DEF AddSource
<1>6. PlansHold'
  BY <1>3, <1>4, <1>5, EditHolds, CreateHolds, PresentHolds, ApproveHolds, CloseHolds
     DEF Next
<1> QED
  BY <1>1, <1>6 DEF ChangeInv

\* No call is in flight when the system starts.
LEMMA InitChange == Init => ChangeInv
<1> SUFFICES ASSUME Init PROVE ChangeInv
  OBVIOUS
<1>1. DocsInv
  BY InitDocs
<1>2. PlansHold
  BY DEF Init, PlansHold, Sound, Planned, Idle
<1> QED
  BY <1>1, <1>2 DEF ChangeInv

\* In every reachable state, whatever a call planned is true of the document it
\* was planned on while that document is in the state the call noted.
THEOREM ChangeInvariant == Spec => []ChangeInv
BY InitChange, NextChange, PTL DEF Spec

----------------------------------------------------------------------------
(* What each transaction does to the document it writes.                   *)

\* A write keeps the content of the rows it does not rewrite, and carries its
\* own into the current one.
SavedAs(y, x, w, causes, mode) ==
  /\ mode = "rewrite" => Len(y.rows) = Len(x.rows)
  /\ mode # "rewrite" => Len(y.rows) = Len(x.rows) + 1
  /\ \A i \in 1..Len(x.rows) :
       i = Len(y.rows) \/ /\ y.rows[i].text = x.rows[i].text
                          /\ y.rows[i].version = x.rows[i].version
                          /\ y.rows[i].cites = x.rows[i].cites
                          /\ y.rows[i].outcome = x.rows[i].outcome
  /\ Current(y).text = w.text
  /\ Current(y).outcome = w.outcome
  /\ mode = "append" => /\ Current(y).version = Current(x).version + 1
                        /\ Current(y).cites = causes
  /\ mode # "append" => /\ Current(y).version = Current(x).version
                        /\ Current(y).cites = Current(x).cites \cup causes
  /\ y.status = w.status

LEMMA SavedContent ==
  ASSUME NEW x \in Document, x.rows # <<>>, NEW w \in Write,
         NEW causes \in SUBSET Sources, NEW mode \in {"append", "pinned", "rewrite"},
         NEW y, y = Saved(x, w, causes, mode)
  PROVE  SavedAs(y, x, w, causes, mode)
<1> DEFINE n == Len(x.rows)
<1>1. n \in Nat \ {0}
  BY CurrentType
<1>2. CASE mode = "rewrite"
  <2>1. /\ Len(y.rows) = n
        /\ \A i \in 1..(n - 1) : y.rows[i] = x.rows[i]
        /\ y.rows[n].text = w.text /\ y.status = w.status
    BY <1>2, RewrittenRows
  <2>2. /\ y.rows[n].version = x.rows[n].version
        /\ y.rows[n].cites = x.rows[n].cites \cup causes
        /\ y.rows[n].outcome = w.outcome
    BY <1>2, RewrittenRow
  <2>3. \A i \in 1..n : i = n \/ i \in 1..(n - 1)
    BY <1>1
  <2> QED
    BY <1>1, <1>2, <2>1, <2>2, <2>3 DEF Current, SavedAs
<1>3. CASE mode # "rewrite"
  <2>1. Supersedes(y, x, w) /\ Follows(y, x, w, causes, mode)
    BY <1>3, AppendedRow
  <2>2. /\ Len(y.rows) = n + 1
        /\ \A i \in 1..(n - 1) : y.rows[i] = x.rows[i]
        /\ y.rows[n + 1].text = w.text /\ y.status = w.status
    BY <2>1 DEF Supersedes
  <2>3. \A i \in 1..n : i = n \/ i \in 1..(n - 1)
    BY <1>1
  <2>4. Current(y) = y.rows[n + 1] /\ Current(x) = x.rows[n]
    BY <2>2 DEF Current
  <2> QED
    BY <1>1, <1>3, <2>1, <2>2, <2>3, <2>4 DEF Follows, SavedAs
<1> QED
  BY <1>2, <1>3

\* The transaction of an edit writes what it planned, on the document it planned
\* it on, and files what it captured.
LEMMA SaveEditDoes ==
  ASSUME ChangeInv, NEW c \in Calls, SaveEdit(c)
  PROVE  LET k == call[c]
             d == k.doc
             w == k.write
         IN /\ k \in EditCall /\ k.op = "edit" /\ d \in Docs /\ Held(d)
            /\ doc[d] \in Document /\ doc[d].rows # <<>>
            /\ w \in Write /\ w # None /\ EditPlan(k, doc[d]) /\ Sound(k)
            /\ ~Stored(k.by, d, k.ask.rid)
            /\ requests' = Recorded(k, k.base)
            /\ call'[c] = Idle
            /\ anchor' = anchor
            /\ \E cap \in Captures(w.capture) :
                 /\ w.causes \cup cap \in SUBSET Sources
                 /\ doc' = [doc EXCEPT ![d] =
                              Saved(doc[d], w, w.causes \cup cap, LandsAs(d, w))]
                 /\ supports' = Filing(cap, {d})
<1> DEFINE k == call[c]
           d == k.doc
           w == k.write
<1>1. /\ k.op = "edit" /\ w # None /\ StateOf(doc[d]) = k.st
      /\ ~Stored(k.by, d, k.ask.rid) /\ requests' = Recorded(k, k.base)
      /\ call' = [call EXCEPT ![c] = Idle] /\ anchor' = anchor
  BY DEF SaveEdit, Commits, Moved, End, Proceed
<1>2. k \in EditCall
  BY <1>1, CallKind, ChangeTypes
<1>3. d \in Docs /\ Held(d) /\ w \in Write /\ doc[d] \in Document
  BY <1>1, WriterType, ChangeTypes
<1>4. Sound(k) /\ EditPlan(k, doc[d])
  BY <1>1 DEF ChangeInv, PlansHold, Planned, Fits
<1>5. ASSUME NEW cap \in Captures(w.capture) PROVE w.causes \cup cap \in SUBSET Sources
  BY <1>3, <1>5, CapturesType DEF Write
<1>6. \E cap \in Captures(w.capture) :
        /\ doc' = [doc EXCEPT ![d] =
                     Saved(doc[d], w, w.causes \cup cap, LandsAs(d, w))]
        /\ supports' = Filing(cap, {d})
  BY DEF SaveEdit
<1>7. call'[c] = Idle
  BY <1>1, ChangeTypes
<1> HIDE DEF k
<1> QED
  BY <1>1, <1>2, <1>3, <1>4, <1>5, <1>6, <1>7 DEF k, Held

\* The transaction of an approval or of a close rewrites the current row with
\* the text it has.
LEMMA SaveSealDoes ==
  ASSUME ChangeInv, NEW c \in Calls, SaveApprove(c) \/ SaveClose(c)
  PROVE  LET k == call[c]
             d == k.doc
             w == k.write
         IN /\ d \in Docs /\ Held(d)
            /\ doc[d] \in Document /\ doc[d].rows # <<>>
            /\ w \in Write /\ w # None /\ Fits(k, doc[d]) /\ Sound(k)
            /\ w.text = Current(doc[d]).text
            /\ requests' = requests /\ supports' = supports
            /\ doc' = [doc EXCEPT ![d] = Saved(doc[d], w, {}, "rewrite")]
<1> DEFINE k == call[c]
           d == k.doc
           w == k.write
<1>1. /\ k.op \in {"approve", "close"} /\ w # None /\ StateOf(doc[d]) = k.st
      /\ requests' = requests /\ supports' = supports
      /\ doc' = [doc EXCEPT ![d] = Saved(doc[d], w, {}, LandsAs(d, w))]
  BY DEF SaveApprove, SaveClose, Moved
<1>2. d \in Docs /\ Held(d) /\ w \in Write /\ doc[d] \in Document /\ ~w.next
  BY <1>1, WriterType, ChangeTypes
<1>3. Sound(k) /\ Fits(k, doc[d])
  BY <1>1 DEF ChangeInv, PlansHold, Planned
<1>4. w.text = Current(doc[d]).text
  BY <1>1, <1>3 DEF Fits, SealText, CloseText
<1>5. LandsAs(d, w) = "rewrite"
  BY <1>2, <1>4, SameRewrites
<1> HIDE DEF k
<1> QED
  BY <1>1, <1>2, <1>3, <1>4, <1>5 DEF k, Held

\* The transaction of a create leaves a document of one row where there was none.
LEMMA SaveCreateDoes ==
  ASSUME ChangeInv, NEW c \in Calls, SaveCreate(c)
  PROVE  LET k == call[c]
             d == k.doc
             w == k.write
         IN /\ d \in Docs /\ ~Held(d) /\ k \in CreateCall /\ w \in Write /\ Sound(k)
            /\ w.status # "approved"
            /\ k.op = "create"
            /\ ~Stored(k.by, d, k.ask.rid)
            /\ requests' = Recorded(k, None)
            /\ anchor' = anchor
            /\ \E cap \in Captures(w.capture) :
                 /\ w.causes \cup cap \in SUBSET Sources
                 /\ doc' = [doc EXCEPT ![d] = Created(w, w.causes \cup cap)]
                 /\ supports' = Filing(cap, {d})
<1> DEFINE k == call[c]
           d == k.doc
           w == k.write
<1>1. /\ k.op = "create" /\ ~Held(d) /\ ~Stored(k.by, d, k.ask.rid)
      /\ requests' = Recorded(k, None) /\ anchor' = anchor
  BY DEF SaveCreate
<1>2. k \in CreateCall
  BY <1>1, CallKind, ChangeTypes
<1>3. d \in Docs /\ w \in Write
  BY <1>2 DEF CreateCall
<1>4. Sound(k) /\ w.status # "approved"
  BY <1>1, ChangeTypes DEF ChangeInv, PlansHold, RowsInv, CallPlans, CallPlan
<1>5. ASSUME NEW cap \in Captures(w.capture) PROVE w.causes \cup cap \in SUBSET Sources
  BY <1>3, <1>5, CapturesType DEF Write
<1>6. \E cap \in Captures(w.capture) :
        /\ doc' = [doc EXCEPT ![d] = Created(w, w.causes \cup cap)]
        /\ supports' = Filing(cap, {d})
  BY DEF SaveCreate
<1> HIDE DEF k
<1> QED
  BY <1>1, <1>2, <1>3, <1>4, <1>5, <1>6 DEF k

\* The row a create leaves.
LEMMA CreatedRow ==
  ASSUME NEW w, NEW causes
  PROVE  LET y == Created(w, causes)
         IN /\ Len(y.rows) = 1 /\ y.status = w.status
            /\ y.rows[1].text = w.text /\ y.rows[1].version = 1
            /\ y.rows[1].cites = causes /\ y.rows[1].outcome = None
            /\ Current(y) = y.rows[1]
<1> DEFINE r == [text |-> w.text, gen |-> 0, version |-> 1, cites |-> causes,
                 sealed |-> None, presented |-> FALSE, outcome |-> None]
<1>1. Created(w, causes).rows = <<r>> /\ Created(w, causes).status = w.status
  BY DEF Created
<1>2. r.text = w.text /\ r.version = 1 /\ r.cites = causes /\ r.outcome = None
  OBVIOUS
<1> HIDE DEF r
<1> QED
  BY <1>1, <1>2 DEF Current

\* Any other step leaves the content of every document as it was.
LEMMA ContentSteps ==
  ASSUME ChangeInv, [Next]_vars
  PROVE  \/ \A d \in Docs : SameContent(doc[d], doc'[d])
         \/ \E c \in Calls : SaveEdit(c) \/ SaveCreate(c) \/ SaveApprove(c) \/ SaveClose(c)
<1>1. \A d \in Docs : SameContent(doc[d], doc[d])
  BY DEF SameContent
<1>2. CASE doc' = doc
  BY <1>1, <1>2
<1>3. ASSUME NEW c \in Calls, SavePresent(c)
      PROVE  \A d \in Docs : SameContent(doc[d], doc'[d])
  <2> PICK e : e = call[c].page.doc
    OBVIOUS
  <2>1. e \in Docs /\ (doc' = doc \/ Recalled(e))
    BY <1>3, SavePresentMarks, ChangeTypes
  <2>2. ASSUME Recalled(e) PROVE \A d \in Docs : SameContent(doc[d], doc'[d])
    <3>1. PICK done \in BOOLEAN :
            Held(e) /\ doc' = [doc EXCEPT ![e] = Marked(doc[e], done)]
      BY <2>2 DEF Recalled
    <3>2. SameContent(doc[e], Marked(doc[e], done))
      BY <2>1, <3>1, MarkedContent, ChangeTypes DEF Held
    <3> QED
      BY <1>1, <2>1, <3>1, <3>2, ChangeTypes
  <2> QED
    BY <1>1, <2>1, <2>2
<1> QED
  BY <1>2, <1>3, SavingSteps

----------------------------------------------------------------------------
(* Edits apply to what is there.                                           *)

\* How a write lands.
LEMMA LandsMode ==
  ASSUME NEW d, NEW w
  PROVE  /\ LandsAs(d, w) \in {"append", "pinned", "rewrite"}
         /\ LandsAs(d, w) = "append" <=> w.next
BY DEF LandsAs, Landing

\* No lost update: content changes only as one edit asked, applied to what the
\* document held at that very moment, however many edits were computed at once.
THEOREM EditsApply == Spec => EditsApplyToCurrent
<1> DEFINE Asked(d) ==
             \E c \in Calls :
               /\ call[c].op = "edit" /\ call[c].doc = d /\ call'[c] = Idle
               /\ Current(doc'[d]).text = Changed(call[c].ask, call[c].by, Current(doc[d]).text)
               /\ call[c].base # None => call[c].base = doc[d].gen
           Apply == \A d \in Docs :
             LET old == Current(doc[d]).text
                 new == Current(doc'[d]).text
             IN (Held(d) /\ new # old) =>
                  \E c \in Calls :
                    LET k == call[c]
                    IN /\ k.op = "edit" /\ k.doc = d /\ call'[c] = Idle
                       /\ new = Changed(k.ask, k.by, old)
                       /\ k.base # None => k.base = doc[d].gen
<1>1. ChangeInv /\ [Next]_vars => [Apply]_vars
  <2> SUFFICES ASSUME ChangeInv, [Next]_vars, NEW d \in Docs, Held(d),
                      Current(doc'[d]).text # Current(doc[d]).text
               PROVE  Asked(d)
    OBVIOUS
  <2>1. doc \in [Docs -> Document] /\ doc[d] \in Document /\ doc[d].rows # <<>>
    BY ChangeTypes DEF Held
  <2>2. ~SameContent(doc[d], doc'[d])
    BY <2>1, AlikeRead
  <2>3. ASSUME NEW c \in Calls, SaveEdit(c) PROVE Asked(d)
    <3> PICK k : k = call[c]
      OBVIOUS
    <3> DEFINE w == k.write
    <3>1. /\ k.op = "edit" /\ k.doc \in Docs /\ w \in Write /\ call'[c] = Idle
          /\ doc[k.doc] \in Document /\ doc[k.doc].rows # <<>>
          /\ EditPlan(k, doc[k.doc])
      BY <2>3, SaveEditDoes
    <3>2. PICK causes \in SUBSET Sources :
            doc' = [doc EXCEPT ![k.doc] =
                      Saved(doc[k.doc], w, causes, LandsAs(k.doc, w))]
      BY <2>3, SaveEditDoes
    <3>3. k.doc = d
      BY <2>1, <2>2, <3>2 DEF SameContent
    <3>4. Current(doc'[d]).text = w.text
      BY <2>1, <3>1, <3>2, <3>3, SavedContent, LandsMode DEF SavedAs
    <3>5. /\ w.text = Changed(k.ask, k.by, Current(doc[d]).text)
          /\ k.base # None => k.base = doc[d].gen
      BY <3>1, <3>3 DEF EditPlan
    <3> HIDE DEF w
    <3> QED
      BY <3>1, <3>3, <3>4, <3>5
  <2>4. ASSUME NEW c \in Calls, SaveApprove(c) \/ SaveClose(c) PROVE FALSE
    <3> PICK k : k = call[c]
      OBVIOUS
    <3> DEFINE w == k.write
    <3>1. /\ k.doc \in Docs /\ w \in Write
          /\ doc[k.doc] \in Document /\ doc[k.doc].rows # <<>>
          /\ w.text = Current(doc[k.doc]).text
          /\ doc' = [doc EXCEPT ![k.doc] = Saved(doc[k.doc], w, {}, "rewrite")]
      BY <2>4, SaveSealDoes
    <3>2. k.doc = d
      BY <2>1, <2>2, <3>1 DEF SameContent
    <3>3. {} \in SUBSET Sources
      OBVIOUS
    <3>4. Current(doc'[d]).text = w.text
      BY <2>1, <3>1, <3>2, <3>3, SavedContent DEF SavedAs
    <3> QED
      BY <3>1, <3>2, <3>4
  <2>5. ASSUME NEW c \in Calls, SaveCreate(c) PROVE FALSE
    <3>1. ~Held(call[c].doc) /\ \E y : doc' = [doc EXCEPT ![call[c].doc] = y]
      BY <2>5, SaveCreateDoes
    <3> QED
      BY <2>1, <2>2, <3>1 DEF SameContent
  <2> QED
    BY <2>2, <2>3, <2>4, <2>5, ContentSteps
<1> QED
  BY <1>1, ChangeInvariant, PTL DEF Spec, EditsApplyToCurrent

----------------------------------------------------------------------------
(* What is cited, and what a version opens on.                             *)

\* The rows of a document cite what was filed, its current row is of the latest
\* version, and it is approved only if it is gated.
CausesStand(d) ==
  /\ doc[d].status = "approved" => d \in Gated
  /\ \A i \in 1..Len(doc[d].rows) :
       /\ doc[d].rows[i].cites \subseteq Filed
       /\ doc[d].rows[i].version <= Current(doc[d]).version

CauseInv == ChangeInv /\ ApprovedIsGated /\ CitedIsFiled /\ LatestIsCurrent

LEMMA CausesEach ==
  /\ CauseInv => \A d \in Docs : CausesStand(d)
  /\ (ChangeInv /\ \A d \in Docs : CausesStand(d)) => CauseInv
BY DEF CauseInv, ApprovedIsGated, CitedIsFiled, LatestIsCurrent, CausesStand

\* A document whose content a step leaves keeps its own.
LEMMA AlikeCauses ==
  ASSUME CauseInv, [Next]_vars, NEW d \in Docs, SameContent(doc[d], doc'[d])
  PROVE  CausesStand(d)'
<1> PICK x : x = doc[d]
  OBVIOUS
<1> PICK y : y = doc'[d]
  OBVIOUS
<1>1. /\ x \in Document /\ SameContent(x, y) /\ Filed \subseteq Filed'
      /\ Len(y.rows) = Len(x.rows) /\ y.status = x.status
  BY ChangeTypes, FiledStays DEF CauseInv, SameContent, StateOf
<1>2. /\ x.status = "approved" => d \in Gated
      /\ \A i \in 1..Len(x.rows) : /\ x.rows[i].cites \subseteq Filed
                                    /\ x.rows[i].version <= Current(x).version
  BY CausesEach DEF CausesStand
<1>3. ASSUME NEW i \in 1..Len(y.rows)
      PROVE  /\ y.rows[i].cites \subseteq Filed'
             /\ y.rows[i].version <= Current(y).version
  <2>1. i \in 1..Len(x.rows) /\ x.rows # <<>>
    BY <1>1
  <2>2. y.rows[i].cites = x.rows[i].cites /\ y.rows[i].version = x.rows[i].version
    BY <1>1, <2>1 DEF SameContent
  <2>3. Current(y).version = Current(x).version
    BY <1>1, <2>1, AlikeRead
  <2> QED
    BY <1>1, <1>2, <2>1, <2>2, <2>3
<1> QED
  BY <1>1, <1>2, <1>3 DEF CausesStand

\* A write on filed causes leaves rows that cite what is filed, the latest last.
LEMMA SavedCauses ==
  ASSUME CauseInv, [Next]_vars, NEW d \in Docs, Held(d), NEW w \in Write,
         NEW causes \in SUBSET Sources, causes \subseteq Filed',
         NEW mode \in {"append", "pinned", "rewrite"},
         doc' = [doc EXCEPT ![d] = Saved(doc[d], w, causes, mode)],
         w.status = "approved" => d \in Gated
  PROVE  CausesStand(d)'
<1> PICK x : x = doc[d]
  OBVIOUS
<1> PICK y : y = Saved(x, w, causes, mode)
  OBVIOUS
<1>1. /\ x \in Document /\ x.rows # <<>> /\ Filed \subseteq Filed' /\ doc'[d] = y
  BY ChangeTypes, FiledStays DEF CauseInv, Held
<1>2. /\ Len(x.rows) \in Nat \ {0} /\ Len(x.rows) \in 1..Len(x.rows)
      /\ \A i \in 1..Len(x.rows) : x.rows[i].version \in Nat
  BY <1>1, CurrentType, RowType DEF Row
<1>3. \A i \in 1..Len(x.rows) : /\ x.rows[i].cites \subseteq Filed'
                                /\ x.rows[i].version <= Current(x).version
  BY <1>1, CausesEach DEF CausesStand
<1>4. SavedAs(y, x, w, causes, mode)
  BY <1>1, SavedContent
<1>5. /\ Current(x).version \in Nat /\ Current(x).cites \subseteq Filed'
      /\ Current(y).version \in Nat /\ Current(y).version >= Current(x).version
  <2>1. Current(x) = x.rows[Len(x.rows)]
    BY DEF Current
  <2>2. Current(x).version \in Nat /\ Current(x).cites \subseteq Filed'
    BY <1>2, <1>3, <2>1
  <2>3. Current(y).version = Current(x).version + 1
        \/ Current(y).version = Current(x).version
    BY <1>4 DEF SavedAs
  <2> QED
    BY <2>2, <2>3
<1>6. Current(y).cites \subseteq Filed'
  BY <1>4, <1>5 DEF SavedAs
<1>7. Len(y.rows) \in {Len(x.rows), Len(x.rows) + 1} /\ y.status = w.status
  BY <1>4 DEF SavedAs
<1>8. ASSUME NEW i \in 1..Len(y.rows)
      PROVE  y.rows[i].cites \subseteq Filed' /\ y.rows[i].version <= Current(y).version
  <2>1. CASE i = Len(y.rows)
    <3>1. y.rows[i] = Current(y)
      BY <2>1 DEF Current
    <3> QED
      BY <1>5, <1>6, <3>1
  <2>2. CASE i # Len(y.rows)
    <3>1. i \in 1..Len(x.rows)
      BY <1>2, <1>7, <2>2
    <3>2. y.rows[i].cites = x.rows[i].cites /\ y.rows[i].version = x.rows[i].version
      BY <1>4, <2>2, <3>1 DEF SavedAs
    <3> QED
      BY <1>2, <1>3, <1>5, <3>1, <3>2
  <2> QED
    BY <2>1, <2>2
<1> QED
  BY <1>1, <1>7, <1>8 DEF CausesStand

\* What a change captures is filed with it.
LEMMA CapturedFiled ==
  ASSUME NEW b, NEW cap \in Captures(b), NEW d \in Docs, supports' = Filing(cap, {d})
  PROVE  cap \subseteq Filed' /\ cap \cap Filed = {}
<1>1. cap \subseteq Sources /\ cap \cap Filed = {}
  BY DEF Captures, Filed
<1>2. {d} # None
  BY NoneAssumption
<1>3. \A s \in cap : supports'[s] = {d}
  BY <1>1 DEF Filing
<1> QED
  BY <1>1, <1>2, <1>3 DEF Filed

LEMMA CapturesSome ==
  ASSUME NEW cap \in Captures(TRUE) PROVE cap # {}
BY DEF Captures

\* The causes an edit lands with.
LEMMA EditCauses ==
  ASSUME CauseInv, [Next]_vars, NEW k, NEW d \in Docs, NEW cap \in Captures(k.write.capture),
         k.op = "edit", k.write # None, Sound(k), supports' = Filing(cap, {d})
  PROVE  k.write.causes \cup cap \subseteq Filed'
<1>1. k.write.causes \subseteq Filed /\ Filed \subseteq Filed'
  BY ChangeTypes, FiledStays DEF Sound, CauseInv
<1>2. cap \subseteq Filed'
  BY CapturedFiled
<1> QED
  BY <1>1, <1>2

\* The transaction of an edit keeps them.
LEMMA EditStands ==
  ASSUME CauseInv, [Next]_vars, NEW c \in Calls, SaveEdit(c)
  PROVE  \A d \in Docs : doc'[d] = doc[d] \/ CausesStand(d)'
<1> PICK k : k = call[c]
  OBVIOUS
<1> DEFINE w == k.write
<1>1. ChangeInv /\ doc \in [Docs -> Document]
  BY ChangeTypes DEF CauseInv
<1>2. /\ k.op = "edit" /\ k.doc \in Docs /\ Held(k.doc) /\ w \in Write /\ w # None
      /\ EditPlan(k, doc[k.doc]) /\ Sound(k)
  BY <1>1, SaveEditDoes
<1>3. PICK cap \in Captures(w.capture) :
        /\ w.causes \cup cap \in SUBSET Sources
        /\ doc' = [doc EXCEPT ![k.doc] =
                     Saved(doc[k.doc], w, w.causes \cup cap, LandsAs(k.doc, w))]
        /\ supports' = Filing(cap, {k.doc})
  BY <1>1, SaveEditDoes
<1>4. w.causes \cup cap \subseteq Filed'
  BY <1>2, <1>3, EditCauses
<1>5. w.status # "approved"
  BY <1>2 DEF EditPlan, Draft
<1>6. LandsAs(k.doc, w) \in {"append", "pinned", "rewrite"}
  BY LandsMode
<1> HIDE DEF w
<1>7. CausesStand(k.doc)'
  BY <1>2, <1>3, <1>4, <1>5, <1>6, SavedCauses
<1> QED
  BY <1>1, <1>2, <1>3, <1>7

\* The transaction of an approval or a close does.
LEMMA SealStands ==
  ASSUME CauseInv, [Next]_vars, NEW c \in Calls, SaveApprove(c) \/ SaveClose(c)
  PROVE  \A d \in Docs : doc'[d] = doc[d] \/ CausesStand(d)'
<1> PICK k : k = call[c]
  OBVIOUS
<1> DEFINE w == k.write
<1>1. ChangeInv /\ doc \in [Docs -> Document]
  BY ChangeTypes DEF CauseInv
<1>2. /\ k.doc \in Docs /\ Held(k.doc) /\ w \in Write
      /\ Fits(k, doc[k.doc]) /\ Sound(k)
      /\ doc' = [doc EXCEPT ![k.doc] = Saved(doc[k.doc], w, {}, "rewrite")]
  BY <1>1, SaveSealDoes
<1>3. k.op \in {"approve", "close"}
  BY DEF SaveApprove, SaveClose
<1>4. w.status = "approved" => k.doc \in Gated
  BY <1>2, <1>3, CausesEach DEF Fits, CloseText, Sound, CausesStand
<1>5. {} \in SUBSET Sources /\ {} \subseteq Filed'
  OBVIOUS
<1> HIDE DEF w
<1>6. CausesStand(k.doc)'
  BY <1>2, <1>4, <1>5, SavedCauses
<1> QED
  BY <1>1, <1>2, <1>6

LEMMA OneOnly == ASSUME NEW n, n = 1 PROVE \A i \in 1..n : i = 1
OBVIOUS

\* The transaction of a create does.
LEMMA CreateStands ==
  ASSUME CauseInv, [Next]_vars, NEW c \in Calls, SaveCreate(c)
  PROVE  \A d \in Docs : doc'[d] = doc[d] \/ CausesStand(d)'
<1> PICK k : k = call[c]
  OBVIOUS
<1> DEFINE w == k.write
<1>1. ChangeInv /\ doc \in [Docs -> Document] /\ Filed \subseteq Filed'
  BY ChangeTypes, FiledStays DEF CauseInv
<1>2. /\ k.op = "create" /\ k.doc \in Docs /\ w \in Write
      /\ Sound(k) /\ w.status # "approved"
  BY <1>1, SaveCreateDoes
<1>3. PICK cap \in Captures(w.capture) :
        /\ doc' = [doc EXCEPT ![k.doc] = Created(w, w.causes \cup cap)]
        /\ supports' = Filing(cap, {k.doc})
  BY <1>1, SaveCreateDoes
<1>4. w.causes \cup cap \subseteq Filed'
  <2>1. cap \subseteq Filed'
    BY <1>2, <1>3, CapturedFiled
  <2> QED
    BY <1>1, <1>2, <2>1 DEF Sound
<1> PICK y : y = Created(w, w.causes \cup cap)
  OBVIOUS
<1>5. /\ Len(y.rows) = 1 /\ y.status = w.status
      /\ y.rows[1].version = 1 /\ y.rows[1].cites = w.causes \cup cap
      /\ Current(y) = y.rows[1]
  BY CreatedRow
<1>6. \A i \in 1..Len(y.rows) : i = 1
  BY <1>5, OneOnly
<1>7. doc'[k.doc] = y /\ \A e \in Docs \ {k.doc} : doc'[e] = doc[e]
  BY <1>1, <1>2, <1>3
<1> HIDE DEF w
<1>8. CausesStand(k.doc)'
  <2>1. \A i \in 1..Len(y.rows) : /\ y.rows[i].cites \subseteq Filed'
                                  /\ y.rows[i].version <= Current(y).version
    <3>1. y.rows[1].cites \subseteq Filed' /\ y.rows[1].version <= Current(y).version
      <4>1. y.rows[1].version <= y.rows[1].version
        <5>1. 1 <= 1
          OBVIOUS
        <5> QED
          BY <1>5, <5>1
      <4> QED
        BY <1>4, <1>5, <4>1
    <3> QED
      BY <1>6, <3>1
  <2>2. y.status # "approved"
    BY <1>2, <1>5
  <2> QED
    BY <1>2, <1>7, <2>1, <2>2 DEF CausesStand
<1> QED
  BY <1>7, <1>8

\* Every step keeps them.
LEMMA NextCauses == CauseInv /\ [Next]_vars => CauseInv'
<1> SUFFICES ASSUME CauseInv, [Next]_vars, NEW d \in Docs PROVE CausesStand(d)'
  <2>1. CauseInv /\ [Next]_vars => ChangeInv'
    BY NextChange DEF CauseInv
  <2>2. (ChangeInv' /\ \A d \in Docs : CausesStand(d)') => CauseInv'
    BY DEF CauseInv, ApprovedIsGated, CitedIsFiled, LatestIsCurrent, CausesStand
  <2> QED
    BY <2>1, <2>2
<1>1. ChangeInv
  BY DEF CauseInv
<1>2. ASSUME doc'[d] = doc[d]
      PROVE  CausesStand(d)'
  <2>1. SameContent(doc[d], doc'[d])
    BY <1>2 DEF SameContent
  <2> QED
    BY <2>1, AlikeCauses
<1>3. ASSUME NEW c \in Calls,
             SaveEdit(c) \/ SaveCreate(c) \/ SaveApprove(c) \/ SaveClose(c)
      PROVE  CausesStand(d)'
  <2>1. doc'[d] = doc[d] \/ CausesStand(d)'
    BY <1>3, EditStands, CreateStands, SealStands
  <2> QED
    BY <1>2, <2>1
<1> QED
  BY <1>1, <1>3, AlikeCauses, ContentSteps

\* The documents an initiative starts with have one version, on no cause.
LEMMA InitCauses == Init => CauseInv
<1> SUFFICES ASSUME Init, NEW d \in Docs PROVE CausesStand(d)
  BY CausesEach, InitChange
<1>1. PICK s : s \in Starts[d] /\ doc[d] = Born(d, s)
  BY DEF Init
<1>2. s \in Standings
  BY <1>1, FlowAssumption
<1>3. doc[d].status = "approved" => s = "signed"
  BY <1>1, <1>2 DEF Born, Draft, Standings
<1>4. doc[d].status = "approved" => d \in Gated
  BY <1>1, <1>3, FlowAssumption
<1>5. CASE s = "absent"
  BY <1>1, <1>4, <1>5 DEF Born, CausesStand
<1>6. CASE s # "absent"
  <2> DEFINE r == [text |-> [body |-> <<>>, title |-> None], gen |-> None,
                   version |-> 1, cites |-> {}, sealed |-> None,
                   presented |-> FALSE, outcome |-> None]
  <2>1. Born(d, s).rows = <<r>>
    BY <1>6 DEF Born
  <2>2. r.version = 1 /\ r.cites = {}
    OBVIOUS
  <2> HIDE DEF r
  <2>3. Len(doc[d].rows) = 1 /\ doc[d].rows[1] = r /\ Current(doc[d]) = r
    BY <1>1, <2>1 DEF Current
  <2> QED
    BY <1>4, <2>2, <2>3 DEF CausesStand
<1> QED
  BY <1>5, <1>6

THEOREM CauseInvariant == Spec => []CauseInv
BY InitCauses, NextCauses, PTL DEF Spec

\* The body of an approved document changes on a new version.
LEMMA CitedFiled ==
  ASSUME CauseInv, NEW d \in Docs, NEW v PROVE CitedBy(doc[d], v) \subseteq Filed
BY DEF CauseInv, CitedIsFiled, CitedBy

\* A version opens on a cause the one before it does not cite.
LEMMA EditOpens ==
  ASSUME CauseInv, NEW c \in Calls, SaveEdit(c)
  PROVE  LET k == call[c]
             d == k.doc
             w == k.write
         IN \E causes \in SUBSET Sources :
              /\ doc' = [doc EXCEPT ![d] = Saved(doc[d], w, causes, LandsAs(d, w))]
              /\ w.next => ~(causes \subseteq CitedBy(doc[d], Current(doc[d]).version))
<1> PICK k : k = call[c]
  OBVIOUS
<1> DEFINE w == k.write
           cited == CitedBy(doc[k.doc], Current(doc[k.doc]).version)
<1>1. ChangeInv
  BY DEF CauseInv
<1>2. /\ k.op = "edit" /\ k.doc \in Docs /\ w # None
      /\ EditPlan(k, doc[k.doc]) /\ Sound(k)
  BY <1>1, SaveEditDoes
<1>3. PICK cap \in Captures(w.capture) :
        /\ w.causes \cup cap \in SUBSET Sources
        /\ doc' = [doc EXCEPT ![k.doc] =
                     Saved(doc[k.doc], w, w.causes \cup cap, LandsAs(k.doc, w))]
        /\ supports' = Filing(cap, {k.doc})
  BY <1>1, SaveEditDoes
<1>4. w.causes \cap cited = {} /\ (w.next => w.capture \/ w.causes # {})
  BY <1>2 DEF EditPlan, Sound
<1>5. cited \subseteq Filed
  BY <1>2, CitedFiled
<1>6. cap \cap Filed = {}
  BY <1>2, <1>3, CapturedFiled
<1>7. w.capture => cap # {}
  BY CapturesSome DEF Captures
<1>8. w.next => ~(w.causes \cup cap \subseteq cited)
  <2> HIDE DEF w, cited
  <2> QED
    BY <1>4, <1>5, <1>6, <1>7
<1> QED
  BY <1>3, <1>8

\* A change to the body of an approved document opens a new version, as a draft,
\* on a cause its version had not cited; the approved revision stays recorded.
OpensVersion(x, y) ==
  /\ y.status = "draft"
  /\ y.approved = x.approved
  /\ Len(y.rows) = Len(x.rows) + 1
  /\ Current(y).version = Current(x).version + 1
  /\ ~(Current(y).cites \subseteq CitedBy(x, Current(x).version))

LEMMA OpensAtEdit ==
  ASSUME CauseInv, [Next]_vars, NEW c \in Calls, SaveEdit(c), NEW d \in Docs,
         doc[d].status = "approved",
         Current(doc'[d]).text.body # Current(doc[d]).text.body
  PROVE  OpensVersion(doc[d], doc'[d])
<1> PICK k : k = call[c]
  OBVIOUS
<1> PICK w : w = k.write
  OBVIOUS
<1> PICK x : x = doc[d]
  OBVIOUS
<1> PICK y : y = doc'[d]
  OBVIOUS
<1>1. ChangeInv /\ doc \in [Docs -> Document]
  BY ChangeTypes DEF CauseInv
<1>2. PICK causes \in SUBSET Sources :
        /\ doc' = [doc EXCEPT ![k.doc] =
                     Saved(doc[k.doc], w, causes, LandsAs(k.doc, w))]
        /\ w.next => ~(causes \subseteq CitedBy(doc[k.doc], Current(doc[k.doc]).version))
  BY EditOpens
<1>3. k.doc = d
  BY <1>1, <1>2
<1>4. /\ d \in Docs /\ w \in Write /\ x \in Document /\ x.rows # <<>>
      /\ EditPlan(k, x)
  BY <1>1, <1>3, SaveEditDoes
<1>5. y = Saved(x, w, causes, LandsAs(d, w))
  BY <1>1, <1>2, <1>3
<1>6. SavedAs(y, x, w, causes, LandsAs(d, w))
  BY <1>4, <1>5, SavedContent, LandsMode
<1>7. w.next
  BY <1>4, <1>6 DEF EditPlan, SavedAs
<1>8. LandsAs(d, w) = "append"
  BY <1>7, LandsMode
<1>9. d \in Gated
  BY DEF CauseInv, ApprovedIsGated
<1>10. y.status = "draft" /\ w.status = "draft"
  <2>1. x.status = "approved" /\ Draft(d) = "draft"
    BY <1>9 DEF Draft
  <2>2. w.status = Draft(d)
    BY <1>3, <1>4, <2>1 DEF EditPlan
  <2>3. y.status = w.status
    BY <1>6 DEF SavedAs
  <2> QED
    BY <2>1, <2>2, <2>3
<1>11. Supersedes(Saved(x, w, causes, "append"), x, w)
  BY <1>4, AppendedRows
<1>12. y.approved = x.approved
  BY <1>5, <1>8, <1>10, <1>11 DEF Supersedes
<1>13. ~(causes \subseteq CitedBy(x, Current(x).version))
  BY <1>2, <1>3, <1>7
<1> QED
  BY <1>6, <1>8, <1>10, <1>12, <1>13 DEF SavedAs, OpensVersion

\* The body of an approved document never changes under its approval: it takes a
\* new version, a draft, on a cause the approved one had not cited, whatever
\* edits, approvals and closes are in flight.
THEOREM ApprovedOpens == Spec => ApprovedChangeOpensVersion
<1> DEFINE Opens == \A d \in Docs :
             LET x == doc[d]
                 y == doc'[d]
             IN (x.status = "approved" /\ Current(y).text.body # Current(x).text.body) =>
                  /\ y.status = "draft"
                  /\ y.approved = x.approved
                  /\ Len(y.rows) = Len(x.rows) + 1
                  /\ Current(y).version = Current(x).version + 1
                  /\ ~(Current(y).cites \subseteq CitedBy(x, Current(x).version))
<1>1. CauseInv /\ [Next]_vars => [Opens]_vars
  <2> SUFFICES ASSUME CauseInv, [Next]_vars, NEW d \in Docs, doc[d].status = "approved",
                      Current(doc'[d]).text.body # Current(doc[d]).text.body
               PROVE  OpensVersion(doc[d], doc'[d])
    BY DEF OpensVersion
  <2>1. ChangeInv /\ doc \in [Docs -> Document] /\ DocsInv
    BY ChangeTypes DEF CauseInv
  <2>2. doc[d] \in Document /\ doc[d].rows # <<>> /\ Held(d)
    BY <2>1 DEF DocsInv, DocsAgree, SealAgrees, Held
  <2>3. ~SameContent(doc[d], doc'[d])
    BY <2>2, AlikeRead
  <2>4. ASSUME NEW c \in Calls, SaveApprove(c) \/ SaveClose(c) PROVE FALSE
    <3> PICK k : k = call[c]
      OBVIOUS
    <3> PICK w : w = k.write
      OBVIOUS
    <3>1. /\ k.doc \in Docs /\ w \in Write
          /\ doc[k.doc] \in Document /\ doc[k.doc].rows # <<>>
          /\ w.text = Current(doc[k.doc]).text
          /\ doc' = [doc EXCEPT ![k.doc] = Saved(doc[k.doc], w, {}, "rewrite")]
      BY <2>1, <2>4, SaveSealDoes
    <3>2. k.doc = d
      BY <3>1
    <3>3. {} \in SUBSET Sources
      OBVIOUS
    <3>4. doc'[d] = Saved(doc[d], w, {}, "rewrite")
      BY <2>1, <3>1, <3>2
    <3>5. SavedAs(doc'[d], doc[d], w, {}, "rewrite")
      BY <3>1, <3>2, <3>3, <3>4, SavedContent
    <3> QED
      BY <3>1, <3>2, <3>5 DEF SavedAs
  <2>5. ASSUME NEW c \in Calls, SaveCreate(c) PROVE FALSE
    <3>1. ~Held(call[c].doc) /\ \E y : doc' = [doc EXCEPT ![call[c].doc] = y]
      BY <2>1, <2>5, SaveCreateDoes
    <3> QED
      BY <2>1, <2>2, <3>1
  <2> QED
    BY <2>1, <2>3, <2>4, <2>5, OpensAtEdit, ContentSteps
<1> QED
  BY <1>1, CauseInvariant, PTL DEF Spec, ApprovedChangeOpensVersion

----------------------------------------------------------------------------
(* Every version is explained.                                             *)

Explained(x) ==
  \A i \in 1..Len(x.rows) :
    x.rows[i].version > 1 =>
      ~(CitedBy(x, x.rows[i].version) \subseteq CitedBy(x, x.rows[i].version - 1))

\* A version cites what one of its snapshots does.
LEMMA CitedAt ==
  ASSUME NEW x, NEW v, NEW s
  PROVE  s \in CitedBy(x, v) <=>
           \E j \in 1..Len(x.rows) : x.rows[j].version = v /\ s \in x.rows[j].cites
BY DEF CitedBy

\* A write changes what the version of the current row cites, and no other's.
LEMMA SavedCites ==
  ASSUME NEW x \in Document, x.rows # <<>>, NEW y, NEW w, NEW causes, NEW mode,
         SavedAs(y, x, w, causes, mode)
  PROVE  /\ \A v : CitedBy(x, v) \subseteq CitedBy(y, v)
         /\ \A v : v # Current(y).version => CitedBy(y, v) \subseteq CitedBy(x, v)
         /\ Current(y).cites \subseteq CitedBy(y, Current(y).version)
<1> DEFINE n == Len(x.rows)
           m == Len(y.rows)
<1>1. n \in Nat \ {0} /\ n \in 1..n /\ m \in Nat \ {0} /\ m \in {n, n + 1} /\ m \in 1..m
  <2>1. n \in Nat \ {0}
    BY CurrentType
  <2>2. m \in {n, n + 1}
    BY DEF SavedAs
  <2> HIDE DEF n, m
  <2> QED
    BY <2>1, <2>2
<1>2. \A i \in 1..n : i # m => /\ y.rows[i].version = x.rows[i].version
                             /\ y.rows[i].cites = x.rows[i].cites
  BY DEF SavedAs
<1>3. Current(y) = y.rows[m] /\ Current(x) = x.rows[n]
  BY DEF Current
<1>4. m = n => /\ y.rows[n].version = x.rows[n].version
              /\ x.rows[n].cites \subseteq y.rows[n].cites
  <2>1. m = n => mode = "rewrite"
    <3>1. mode # "rewrite" => m = n + 1
      BY DEF SavedAs
    <3> HIDE DEF m, n
    <3> QED
      BY <1>1, <3>1
  <2>2. mode = "rewrite" => /\ Current(y).version = Current(x).version
                            /\ Current(x).cites \subseteq Current(y).cites
    BY DEF SavedAs
  <2> QED
    BY <1>3, <2>1, <2>2
<1> HIDE DEF n, m
<1>5. ASSUME NEW v, NEW s \in CitedBy(x, v) PROVE s \in CitedBy(y, v)
  <2>1. PICK j \in 1..n : x.rows[j].version = v /\ s \in x.rows[j].cites
    BY <1>5, CitedAt DEF n
  <2>2. j \in 1..m /\ y.rows[j].version = v /\ s \in y.rows[j].cites
    <3>1. CASE j = m
      <4>1. j = n
        BY <1>1, <3>1
      <4> QED
        BY <1>1, <1>4, <2>1, <3>1, <4>1
    <3>2. CASE j # m
      BY <1>1, <1>2, <2>1, <3>2
    <3> QED
      BY <3>1, <3>2
  <2> QED
    BY <2>2, CitedAt DEF m
<1>6. ASSUME NEW v, v # Current(y).version, NEW s \in CitedBy(y, v)
      PROVE  s \in CitedBy(x, v)
  <2>1. PICK j \in 1..m : y.rows[j].version = v /\ s \in y.rows[j].cites
    BY <1>6, CitedAt DEF m
  <2>2. j # m
    BY <1>3, <1>6, <2>1
  <2>3. j \in 1..n
    BY <1>1, <2>2
  <2>4. x.rows[j].version = v /\ s \in x.rows[j].cites
    BY <1>2, <2>1, <2>2, <2>3
  <2> QED
    BY <2>3, <2>4, CitedAt DEF n
<1>7. ASSUME NEW s \in Current(y).cites PROVE s \in CitedBy(y, Current(y).version)
  BY <1>1, <1>3, <1>7, CitedAt DEF m
<1> QED
  BY <1>5, <1>6, <1>7

\* A write leaves every version explained when a version it opens is.
LEMMA SavedExplained ==
  ASSUME NEW x \in Document, x.rows # <<>>, Explained(x),
         \A i \in 1..Len(x.rows) : x.rows[i].version <= Current(x).version,
         NEW y, NEW w, NEW causes, NEW mode, SavedAs(y, x, w, causes, mode),
         mode = "append" => ~(causes \subseteq CitedBy(x, Current(x).version))
  PROVE  Explained(y)
<1> DEFINE n == Len(x.rows)
           m == Len(y.rows)
           cur == Current(x).version
           new == Current(y).version
<1>1. n \in Nat \ {0} /\ n \in 1..n /\ \A i \in 1..n : x.rows[i].version \in Nat
  BY CurrentType, RowType DEF Row
<1>2. /\ m \in {n, n + 1}
      /\ \A i \in 1..n : i # m => y.rows[i].version = x.rows[i].version
      /\ Current(y) = y.rows[m] /\ Current(x) = x.rows[n]
      /\ mode = "append" => new = cur + 1 /\ Current(y).cites = causes
      /\ mode # "append" => new = cur
  BY DEF SavedAs, Current
<1>3. /\ \A v : CitedBy(x, v) \subseteq CitedBy(y, v)
      /\ \A v : v # new => CitedBy(y, v) \subseteq CitedBy(x, v)
      /\ Current(y).cites \subseteq CitedBy(y, new)
  BY SavedCites
<1>4. \A i \in 1..n : x.rows[i].version <= cur
  OBVIOUS
<1>5. cur \in Nat /\ cur = x.rows[n].version
  BY <1>1, <1>2
<1>6. \A i \in 1..n : x.rows[i].version > 1 =>
        ~(CitedBy(x, x.rows[i].version) \subseteq CitedBy(x, x.rows[i].version - 1))
  BY DEF Explained
<1> SUFFICES ASSUME NEW i \in 1..m, y.rows[i].version > 1
             PROVE  ~(CitedBy(y, y.rows[i].version)
                        \subseteq CitedBy(y, y.rows[i].version - 1))
  BY DEF Explained
<1> HIDE DEF n, m, cur, new
<1>7. ASSUME NEW j \in 1..n, x.rows[j].version = y.rows[i].version
      PROVE  ~(CitedBy(y, y.rows[i].version) \subseteq CitedBy(y, y.rows[i].version - 1))
  <2> PICK v : v = x.rows[j].version
    OBVIOUS
  <2>1. v \in Nat /\ v > 1 /\ v <= cur /\ v = y.rows[i].version
    BY <1>1, <1>4, <1>7
  <2>2. v - 1 # new
    BY <1>2, <1>5, <2>1
  <2>3. ~(CitedBy(x, v) \subseteq CitedBy(x, v - 1))
    BY <1>6, <2>1
  <2> QED
    BY <1>3, <2>1, <2>2, <2>3
<1>8. CASE i # m
  <2>1. i \in 1..n
    BY <1>1, <1>2, <1>8
  <2> QED
    BY <1>2, <1>7, <1>8, <2>1
<1>9. CASE i = m /\ mode # "append"
  <2>1. x.rows[n].version = y.rows[i].version
    BY <1>2, <1>5, <1>9 DEF new
  <2> QED
    BY <1>1, <1>7, <2>1
<1>10. CASE i = m /\ mode = "append"
  <2>1. y.rows[i].version = new /\ new = cur + 1
    BY <1>2, <1>10 DEF new
  <2>2. new - 1 = cur /\ cur # new
    BY <1>5, <2>1
  <2>3. CitedBy(y, cur) \subseteq CitedBy(x, cur) /\ causes \subseteq CitedBy(y, new)
    BY <1>2, <1>3, <1>10, <2>2
  <2>4. ~(causes \subseteq CitedBy(x, cur))
    BY <1>10 DEF cur
  <2> QED
    BY <2>1, <2>2, <2>3, <2>4
<1> QED
  BY <1>8, <1>9, <1>10

\* The same content is as well explained.
LEMMA AlikeExplained ==
  ASSUME NEW x \in Document, NEW y, SameContent(x, y), Explained(x)
  PROVE  Explained(y)
<1> SUFFICES ASSUME NEW i \in 1..Len(y.rows), y.rows[i].version > 1
             PROVE  ~(CitedBy(y, y.rows[i].version)
                        \subseteq CitedBy(y, y.rows[i].version - 1))
  BY DEF Explained
<1>1. Len(y.rows) = Len(x.rows)
  BY DEF SameContent, StateOf
<1>2. i \in 1..Len(x.rows) /\ x.rows # <<>>
  BY <1>1
<1>3. \A v : CitedBy(y, v) = CitedBy(x, v)
  BY <1>2, AlikeRead
<1>4. y.rows[i].version = x.rows[i].version
  BY <1>2 DEF SameContent
<1> QED
  BY <1>2, <1>3, <1>4 DEF Explained

VersionInv == CauseInv /\ \A d \in Docs : Explained(doc[d])

LEMMA WrittenExplained ==
  ASSUME VersionInv, NEW d \in Docs, Held(d), NEW w \in Write,
         NEW causes \in SUBSET Sources, NEW mode \in {"append", "pinned", "rewrite"},
         mode = "append" => ~(causes \subseteq CitedBy(doc[d], Current(doc[d]).version)),
         doc' = [doc EXCEPT ![d] = Saved(doc[d], w, causes, mode)],
         NEW e \in Docs
  PROVE  Explained(doc'[e])
<1>1. CauseInv /\ ChangeInv /\ doc \in [Docs -> Document]
  BY ChangeTypes DEF VersionInv, CauseInv
<1>2. CASE e # d
  BY <1>1, <1>2 DEF VersionInv
<1>3. CASE e = d
  <2> PICK x : x = doc[d]
    OBVIOUS
  <2> PICK y : y = Saved(x, w, causes, mode)
    OBVIOUS
  <2>1. x \in Document /\ x.rows # <<>> /\ Explained(x) /\ doc'[d] = y
    BY <1>1 DEF VersionInv, Held
  <2>2. SavedAs(y, x, w, causes, mode)
    BY <2>1, SavedContent
  <2>3. \A i \in 1..Len(x.rows) : x.rows[i].version <= Current(x).version
    BY <1>1 DEF CauseInv, LatestIsCurrent
  <2>4. Explained(y)
    BY <2>1, <2>2, <2>3, SavedExplained
  <2> QED
    BY <1>3, <2>1, <2>4
<1> QED
  BY <1>2, <1>3

\* Every step leaves every version explained.
LEMMA NextVersions == VersionInv /\ [Next]_vars => VersionInv'
<1> SUFFICES ASSUME VersionInv, [Next]_vars, NEW d \in Docs PROVE Explained(doc'[d])
  BY NextCauses DEF VersionInv
<1>1. CauseInv /\ ChangeInv /\ doc \in [Docs -> Document] /\ Explained(doc[d])
  BY ChangeTypes DEF VersionInv, CauseInv
<1>2. CASE SameContent(doc[d], doc'[d])
  BY <1>1, <1>2, AlikeExplained
<1>3. ASSUME NEW c \in Calls, SaveEdit(c) PROVE Explained(doc'[d])
  <2> PICK k : k = call[c]
    OBVIOUS
  <2> PICK w : w = k.write
    OBVIOUS
  <2>1. k.doc \in Docs /\ Held(k.doc) /\ w \in Write
    BY <1>1, <1>3, SaveEditDoes
  <2>2. PICK causes \in SUBSET Sources :
          /\ doc' = [doc EXCEPT ![k.doc] =
                       Saved(doc[k.doc], w, causes, LandsAs(k.doc, w))]
          /\ w.next => ~(causes \subseteq CitedBy(doc[k.doc], Current(doc[k.doc]).version))
    BY <1>1, <1>3, EditOpens
  <2>3. /\ LandsAs(k.doc, w) \in {"append", "pinned", "rewrite"}
        /\ LandsAs(k.doc, w) = "append" => w.next
    BY LandsMode
  <2> QED
    BY <2>1, <2>2, <2>3, WrittenExplained
<1>4. ASSUME NEW c \in Calls, SaveApprove(c) \/ SaveClose(c) PROVE Explained(doc'[d])
  <2> PICK k : k = call[c]
    OBVIOUS
  <2> PICK w : w = k.write
    OBVIOUS
  <2>1. /\ k.doc \in Docs /\ Held(k.doc) /\ w \in Write
        /\ doc' = [doc EXCEPT ![k.doc] = Saved(doc[k.doc], w, {}, "rewrite")]
    BY <1>1, <1>4, SaveSealDoes
  <2>2. {} \in SUBSET Sources /\ "rewrite" \in {"append", "pinned", "rewrite"}
        /\ "rewrite" # "append"
    OBVIOUS
  <2> QED
    BY <2>1, <2>2, WrittenExplained
<1>5. ASSUME NEW c \in Calls, SaveCreate(c) PROVE Explained(doc'[d])
  <2> PICK k : k = call[c]
    OBVIOUS
  <2> PICK w : w = k.write
    OBVIOUS
  <2>1. k.doc \in Docs
    BY <1>1, <1>5, SaveCreateDoes
  <2>2. PICK cap \in Captures(w.capture) :
          doc' = [doc EXCEPT ![k.doc] = Created(w, w.causes \cup cap)]
    BY <1>1, <1>5, SaveCreateDoes
  <2> PICK y : y = Created(w, w.causes \cup cap)
    OBVIOUS
  <2>3. Len(y.rows) = 1 /\ y.rows[1].version = 1
    BY CreatedRow
  <2>4. \A i \in 1..Len(y.rows) : i = 1
    BY <2>3, OneOnly
  <2>5. Explained(y)
    <3>1. ~(1 > 1)
      OBVIOUS
    <3> QED
      BY <2>3, <2>4, <3>1 DEF Explained
  <2>6. doc'[d] = y \/ doc'[d] = doc[d]
    BY <1>1, <2>1, <2>2
  <2> QED
    BY <1>1, <2>5, <2>6
<1> QED
  BY <1>1, <1>2, <1>3, <1>4, <1>5, ContentSteps

LEMMA InitVersions == Init => VersionInv
<1> SUFFICES ASSUME Init, NEW d \in Docs PROVE Explained(doc[d])
  BY InitCauses DEF VersionInv
<1>1. PICK s : doc[d] = Born(d, s)
  BY DEF Init
<1>2. CASE s = "absent"
  BY <1>1, <1>2 DEF Born, Explained
<1>3. CASE s # "absent"
  <2> DEFINE r == [text |-> [body |-> <<>>, title |-> None], gen |-> None,
                   version |-> 1, cites |-> {}, sealed |-> None,
                   presented |-> FALSE, outcome |-> None]
  <2>1. Born(d, s).rows = <<r>>
    BY <1>3 DEF Born
  <2>2. r.version = 1
    OBVIOUS
  <2> HIDE DEF r
  <2>3. Len(doc[d].rows) = 1 /\ doc[d].rows[1] = r
    BY <1>1, <2>1
  <2>4. \A i \in 1..Len(doc[d].rows) : i = 1
    BY <2>3, OneOnly
  <2>5. ~(1 > 1)
    OBVIOUS
  <2> QED
    BY <2>2, <2>3, <2>4, <2>5 DEF Explained
<1> QED
  BY <1>2, <1>3

\* Every version after the first cites a source the version before it does not,
\* however many changes were computed at once.
THEOREM VersionsExplained == Spec => []VersionsHaveNewCause
<1>1. VersionInv => VersionsHaveNewCause
  BY DEF VersionInv, VersionsHaveNewCause, Explained
<1> QED
  BY <1>1, InitVersions, NextVersions, PTL DEF Spec

----------------------------------------------------------------------------
(* The documents agree with the close.                                     *)

\* A document's rows carry the outcome a, from the first that carries one on.
Carries(x, a) ==
  \A i \in 1..Len(x.rows) :
    x.rows[i].outcome # None =>
      /\ x.rows[i].outcome = a
      /\ \A j \in i..Len(x.rows) : x.rows[j].outcome = x.rows[i].outcome

ClosedOn(x) == x.rows # <<>> /\ Current(x).outcome # None

OutcomesStand ==
  /\ \A d \in Docs : Carries(doc[d], anchor)
  /\ \A d, e \in Docs : (d # e /\ ClosedOn(doc[d])) => ~ClosedOn(doc[e])
  /\ anchor = "finished" =>
       ClosedOn(doc[ClosingDoc]) /\ Current(doc[ClosingDoc]).outcome = anchor

OutcomeInv == ChangeInv /\ OutcomesStand

\* What the invariant says of the rows is what is promised of them.
LEMMA OutcomesAgree == OutcomeInv => OutcomeAgrees
<1> SUFFICES ASSUME OutcomeInv PROVE OutcomeAgrees
  OBVIOUS
<1>1. anchor = "finished" =>
        Held(ClosingDoc) /\ Current(doc[ClosingDoc]).outcome = anchor
  BY DEF OutcomeInv, OutcomesStand, ClosedOn, Held
<1>2. ASSUME NEW d \in Docs, NEW i \in 1..Len(doc[d].rows),
             doc[d].rows[i].outcome # None
      PROVE  /\ doc[d].rows[i].outcome = anchor
             /\ \A j \in i..Len(doc[d].rows) :
                  doc[d].rows[j].outcome = doc[d].rows[i].outcome
             /\ \A e \in Docs \ {d} : Held(e) => Current(doc[e]).outcome = None
  <2> PICK x : x = doc[d]
    OBVIOUS
  <2>1. x \in Document /\ Len(x.rows) \in Nat /\ Carries(x, anchor)
    BY ChangeTypes DEF OutcomeInv, OutcomesStand, Document
  <2>2. /\ x.rows[i].outcome = anchor
        /\ \A j \in i..Len(x.rows) : x.rows[j].outcome = x.rows[i].outcome
    BY <1>2, <2>1 DEF Carries
  <2>3. Len(x.rows) \in i..Len(x.rows) /\ x.rows # <<>>
    BY <2>1
  <2>4. ClosedOn(x)
    BY <1>2, <2>2, <2>3 DEF ClosedOn, Current
  <2> QED
    BY <2>2, <2>4 DEF OutcomeInv, OutcomesStand, ClosedOn, Held
<1> QED
  BY <1>1, <1>2 DEF OutcomeAgrees

\* A write that carries the outcome on leaves the rows as they carried it.
LEMMA SavedCarries ==
  ASSUME NEW x \in Document, x.rows # <<>>, NEW a, Carries(x, a),
         NEW y, NEW w, NEW causes, NEW mode, SavedAs(y, x, w, causes, mode),
         w.outcome = Current(x).outcome
  PROVE  Carries(y, a) /\ Current(y).outcome = Current(x).outcome /\ y.rows # <<>>
<1> DEFINE n == Len(x.rows)
           m == Len(y.rows)
<1>1. n \in Nat \ {0} /\ m \in {n, n + 1}
  BY CurrentType DEF SavedAs
<1>2. Current(y).outcome = Current(x).outcome
  BY DEF SavedAs
<1>3. \A i \in 1..n : i # m => y.rows[i].outcome = x.rows[i].outcome
  BY DEF SavedAs
<1>4. y.rows[m].outcome = x.rows[n].outcome
  BY <1>2 DEF Current
<1>5. \A i \in 1..n : x.rows[i].outcome # None =>
        /\ x.rows[i].outcome = a
        /\ \A j \in i..n : x.rows[j].outcome = x.rows[i].outcome
  BY DEF Carries
<1> HIDE DEF n, m
<1>6. \A i \in 1..m : y.rows[i].outcome = IF i = m THEN x.rows[n].outcome
                                         ELSE x.rows[i].outcome
  BY <1>1, <1>3, <1>4
<1>7. ASSUME NEW i \in 1..m, y.rows[i].outcome # None, NEW j \in i..m
      PROVE  y.rows[i].outcome = a /\ y.rows[j].outcome = y.rows[i].outcome
  <2>1. CASE i = m
    <3>1. j = m /\ n \in 1..n
      BY <1>1, <2>1
    <3> QED
      BY <1>5, <1>4, <1>7, <2>1, <3>1
  <2>2. CASE i # m
    <3>1. i \in 1..n /\ n \in i..n /\ j \in 1..m
      BY <1>1, <2>2
    <3>2. y.rows[i].outcome = x.rows[i].outcome /\ x.rows[i].outcome = a
          /\ x.rows[n].outcome = x.rows[i].outcome
      BY <1>3, <1>5, <1>7, <2>2, <3>1
    <3>3. CASE j = m
      BY <1>4, <3>2, <3>3
    <3>4. CASE j # m
      <4>1. j \in i..n /\ j \in 1..n
        BY <1>1, <3>4
      <4> QED
        BY <1>3, <1>5, <1>7, <3>1, <3>2, <3>4, <4>1
    <3> QED
      BY <3>2, <3>3, <3>4
  <2> QED
    BY <2>1, <2>2
<1>8. Carries(y, a)
  <2>1. \A i \in 1..m : i \in i..m
    BY <1>1
  <2> QED
    BY <1>7, <2>1 DEF Carries, m
<1>9. y.rows # <<>>
  BY <1>1 DEF m
<1> QED
  BY <1>2, <1>8, <1>9

\* The rows of an open initiative carry none, and a close puts it on the last.
LEMMA ClosedCarries ==
  ASSUME NEW x \in Document, x.rows # <<>>, Carries(x, None), NEW a,
         NEW y, NEW w, NEW causes, SavedAs(y, x, w, causes, "rewrite"), w.outcome = a
  PROVE  Carries(y, a) /\ Current(y).outcome = a /\ y.rows # <<>>
<1> DEFINE n == Len(x.rows)
<1>1. n \in Nat \ {0} /\ Len(y.rows) = n
  BY CurrentType DEF SavedAs
<1>2. Current(y).outcome = a /\ y.rows[n].outcome = a
  BY <1>1 DEF SavedAs, Current
<1>3. \A i \in 1..n : i # n => y.rows[i].outcome = x.rows[i].outcome
  BY <1>1 DEF SavedAs
<1>4. \A i \in 1..n : x.rows[i].outcome = None
  BY DEF Carries
<1> HIDE DEF n
<1>5. \A i \in 1..n : y.rows[i].outcome # None => i = n
  BY <1>3, <1>4
<1>6. \A j \in n..n : j = n
  BY <1>1
<1>7. Carries(y, a)
  BY <1>1, <1>2, <1>5, <1>6 DEF Carries
<1>8. y.rows # <<>>
  BY <1>1
<1> QED
  BY <1>2, <1>7, <1>8

\* The same content carries it as well.
LEMMA AlikeCarries ==
  ASSUME NEW x \in Document, NEW y \in Document, SameContent(x, y), NEW a,
         Carries(x, a)
  PROVE  /\ Carries(y, a) /\ (ClosedOn(y) <=> ClosedOn(x))
         /\ x.rows # <<>> => Current(y).outcome = Current(x).outcome
<1> DEFINE n == Len(x.rows)
<1>1. n \in Nat /\ Len(y.rows) = n
  BY DEF Document, SameContent, StateOf
<1>2. \A i \in 1..n : y.rows[i].outcome = x.rows[i].outcome
  BY DEF SameContent
<1>3. \A i \in 1..n : x.rows[i].outcome # None =>
        /\ x.rows[i].outcome = a
        /\ \A j \in i..n : x.rows[j].outcome = x.rows[i].outcome
  BY DEF Carries
<1>4. x.rows # <<>> => Current(y).outcome = Current(x).outcome /\ y.rows # <<>>
  BY <1>1, AlikeRead
<1>5. x.rows = <<>> => n = 0
  OBVIOUS
<1>6. n = 0 => \A i \in 1..n : FALSE
  BY <1>1
<1> HIDE DEF n
<1>7. Carries(y, a)
  <2>1. \A i \in 1..n : \A j \in i..n : j \in 1..n
    BY <1>1
  <2> QED
    BY <1>1, <1>2, <1>3, <2>1 DEF Carries
<1>8. Len(y.rows) = Len(x.rows)
  BY <1>1 DEF n
<1> QED
  BY <1>4, <1>7, <1>8 DEF ClosedOn

\* The anchor's row changes as an initiative closes, and then only.
LEMMA AnchorSteps ==
  ASSUME [Next]_vars
  PROVE  \/ anchor' = anchor
         \/ \E c \in Calls : SaveClose(c)
         \/ anchor = None /\ anchor' = "abandoned" /\ doc' = doc
<1>1. CASE UNCHANGED vars
  BY <1>1 DEF vars
<1>2. ASSUME NEW c \in Calls, Edit(c) PROVE anchor' = anchor
  BY <1>2 DEF Edit, BeginEdit, PlanEdit, RetryEdit, SaveNoChange, SaveEdit, store
<1>3. ASSUME NEW c \in Calls, Create(c) PROVE anchor' = anchor
  BY <1>3 DEF Create, BeginCreate, SaveCreate, store
<1>4. ASSUME NEW c \in Calls, Present(c) PROVE anchor' = anchor
  <2>1. ASSUME NEW d, NEW page, Showing(c, d, page) PROVE anchor' = anchor
    BY <2>1 DEF Showing, store
  <2>2. ASSUME NEW v, NEW d, NEW span, BeginPresent(c, v, d, span)
        PROVE  anchor' = anchor
    BY <2>1, <2>2 DEF BeginPresent, PresentFresh, PresentWhole, PresentDelta,
                      PresentOn, PresentRead
  <2> QED
    BY <1>4, <2>2 DEF Present, SavePresent
<1>5. ASSUME NEW c \in Calls, Approve(c) PROVE anchor' = anchor
  BY <1>5 DEF Approve, BeginApprove, PlanApprove, SaveApprove, store
<1>6. ASSUME NEW c \in Calls, Close(c), ~SaveClose(c)
      PROVE  anchor' = anchor \/ (anchor = None /\ anchor' = "abandoned" /\ doc' = doc)
  BY <1>6 DEF Close, BeginClose, PlanClose, RetryClose, BeginAbandon, SaveAbandon,
              StillOpen, store
<1>7. ASSUME NEW c \in Calls, GiveUp(c) PROVE anchor' = anchor
  BY <1>7 DEF GiveUp, store
<1>8. ASSUME NEW s, NEW D, AddSource(s, D) PROVE anchor' = anchor
  BY <1>8 DEF AddSource
<1> QED
  BY <1>1, <1>2, <1>3, <1>4, <1>5, <1>6, <1>7, <1>8 DEF Next

\* A step that carries each document's outcome, and the anchor's, agrees.
LEMMA CarriedOn ==
  ASSUME OutcomesStand, anchor' = anchor, ClosingDoc \in Docs,
         \A d \in Docs : /\ Carries(doc'[d], anchor)
                         /\ ClosedOn(doc'[d]) <=> ClosedOn(doc[d])
                         /\ ClosedOn(doc[d]) =>
                              Current(doc'[d]).outcome = Current(doc[d]).outcome
  PROVE  OutcomesStand'
<1>1. \A d \in Docs : Carries(doc[d], anchor)'
  BY DEF Carries
<1>2. \A d, e \in Docs : (d # e /\ ClosedOn(doc'[d])) => ~ClosedOn(doc'[e])
  BY DEF OutcomesStand
<1>3. anchor' = "finished" =>
        ClosedOn(doc'[ClosingDoc]) /\ Current(doc'[ClosingDoc]).outcome = anchor'
  BY DEF OutcomesStand
<1> QED
  BY <1>1, <1>2, <1>3 DEF OutcomesStand

\* A write of one document that carries its outcome on does.
LEMMA WriteCarries ==
  ASSUME OutcomeInv, NEW d \in Docs, Held(d), NEW w \in Write,
         NEW causes \in SUBSET Sources, NEW mode \in {"append", "pinned", "rewrite"},
         doc' = [doc EXCEPT ![d] = Saved(doc[d], w, causes, mode)],
         w.outcome = Current(doc[d]).outcome, anchor' = anchor
  PROVE  OutcomesStand'
<1>1. doc \in [Docs -> Document] /\ ClosingDoc \in Docs /\ OutcomesStand
  BY ChangeTypes, FlowAssumption DEF OutcomeInv
<1> PICK x : x = doc[d]
  OBVIOUS
<1> PICK y : y = Saved(x, w, causes, mode)
  OBVIOUS
<1>2. x \in Document /\ x.rows # <<>> /\ doc' = [doc EXCEPT ![d] = y] /\ Carries(x, anchor)
  BY <1>1 DEF Held, OutcomesStand
<1>3. SavedAs(y, x, w, causes, mode)
  BY <1>2, SavedContent
<1>4. Carries(y, anchor) /\ Current(y).outcome = Current(x).outcome /\ y.rows # <<>>
  BY <1>2, <1>3, SavedCarries
<1>5. ASSUME NEW e \in Docs
      PROVE  /\ Carries(doc'[e], anchor)
             /\ ClosedOn(doc'[e]) <=> ClosedOn(doc[e])
             /\ ClosedOn(doc[e]) => Current(doc'[e]).outcome = Current(doc[e]).outcome
  <2>1. CASE e = d
    BY <1>1, <1>2, <1>4, <2>1 DEF ClosedOn
  <2>2. CASE e # d
    BY <1>1, <1>2, <2>2 DEF OutcomesStand
  <2> QED
    BY <2>1, <2>2
<1> QED
  BY <1>1, <1>5, CarriedOn

\* The transaction of a close puts the anchor's outcome on one document.
LEMMA CloseCarries ==
  ASSUME OutcomeInv, NEW c \in Calls, SaveClose(c)
  PROVE  OutcomesStand'
<1> PICK k : k = call[c]
  OBVIOUS
<1> PICK w : w = k.write
  OBVIOUS
<1> PICK x : x = doc[k.doc]
  OBVIOUS
<1> PICK y : y = Saved(x, w, {}, "rewrite")
  OBVIOUS
<1>1. /\ doc \in [Docs -> Document] /\ ClosingDoc \in Docs /\ OutcomesStand /\ ChangeInv
      /\ call \in [Calls -> Call]
  BY ChangeTypes, FlowAssumption DEF OutcomeInv
<1>2. /\ k.doc \in Docs /\ w \in Write /\ w # None /\ x \in Document /\ x.rows # <<>>
      /\ Sound(k) /\ doc' = [doc EXCEPT ![k.doc] = y]
  BY <1>1, SaveSealDoes
<1>3. anchor = None /\ anchor' = k.to /\ k.op = "close"
  BY DEF SaveClose, StillOpen
<1>4. k.to \in Dispositions /\ k.to # None
  BY <1>1, <1>3, CallKind, NoneAssumption DEF CloseCall
<1>5. w.outcome = k.to /\ (k.to = "finished" => k.doc = ClosingDoc)
  BY <1>2, <1>3 DEF Sound
<1>6. \A e \in Docs : Carries(doc[e], None)
  BY <1>1, <1>3 DEF OutcomesStand
<1>7. SavedAs(y, x, w, {}, "rewrite")
  <2>1. {} \in SUBSET Sources
    OBVIOUS
  <2> QED
    BY <1>2, <2>1, SavedContent
<1>8. Carries(y, k.to) /\ Current(y).outcome = k.to /\ y.rows # <<>>
  BY <1>2, <1>5, <1>6, <1>7, ClosedCarries
<1>9. doc'[k.doc] = y /\ \A e \in Docs : e # k.doc => doc'[e] = doc[e]
  BY <1>1, <1>2
<1>10. ASSUME NEW e \in Docs, e # k.doc
       PROVE  Carries(doc'[e], k.to) /\ ~ClosedOn(doc'[e])
  <2> PICK z : z = doc[e]
    OBVIOUS
  <2>1. z \in Document /\ Carries(z, None)
    BY <1>1, <1>6
  <2>2. Len(z.rows) \in Nat /\ (z.rows # <<>> => Len(z.rows) \in 1..Len(z.rows))
    BY <2>1, CurrentType DEF Document
  <2>3. \A i \in 1..Len(z.rows) : z.rows[i].outcome = None
    BY <2>1 DEF Carries
  <2>4. Carries(z, k.to)
    BY <2>3 DEF Carries
  <2>5. ~ClosedOn(z)
    BY <2>2, <2>3 DEF ClosedOn, Current
  <2> QED
    BY <1>9, <1>10, <2>4, <2>5
<1>11. \A d \in Docs : Carries(doc[d], anchor)'
  <2>1. \A d \in Docs : Carries(doc'[d], k.to)
    BY <1>8, <1>9, <1>10
  <2> QED
    BY <1>3, <2>1 DEF Carries
<1>12. \A d, e \in Docs : (d # e /\ ClosedOn(doc'[d])) => ~ClosedOn(doc'[e])
  BY <1>10
<1>13. anchor' = "finished" =>
         ClosedOn(doc'[ClosingDoc]) /\ Current(doc'[ClosingDoc]).outcome = anchor'
  BY <1>3, <1>4, <1>5, <1>8, <1>9 DEF ClosedOn
<1> QED
  BY <1>11, <1>12, <1>13 DEF OutcomesStand

\* A document is created with no outcome, whatever the anchor's.
LEMMA CreateCarries ==
  ASSUME OutcomeInv, NEW c \in Calls, SaveCreate(c)
  PROVE  OutcomesStand'
<1> PICK k : k = call[c]
  OBVIOUS
<1> PICK w : w = k.write
  OBVIOUS
<1>1. /\ doc \in [Docs -> Document] /\ ClosingDoc \in Docs /\ OutcomesStand /\ ChangeInv
  BY ChangeTypes, FlowAssumption DEF OutcomeInv
<1>2. k.doc \in Docs /\ ~Held(k.doc) /\ anchor' = anchor
  BY <1>1, SaveCreateDoes
<1>3. PICK cap \in Captures(w.capture) :
        doc' = [doc EXCEPT ![k.doc] = Created(w, w.causes \cup cap)]
  BY <1>1, SaveCreateDoes
<1> PICK y : y = Created(w, w.causes \cup cap)
  OBVIOUS
<1>4. Len(y.rows) = 1 /\ y.rows[1].outcome = None /\ Current(y) = y.rows[1]
  BY CreatedRow
<1>5. \A i \in 1..Len(y.rows) : i = 1
  BY <1>4, OneOnly
<1>6. Carries(y, anchor) /\ ~ClosedOn(y)
  BY <1>4, <1>5 DEF Carries, ClosedOn
<1>7. ~ClosedOn(doc[k.doc])
  BY <1>2 DEF Held, ClosedOn
<1>8. ASSUME NEW e \in Docs
      PROVE  /\ Carries(doc'[e], anchor)
             /\ ClosedOn(doc'[e]) <=> ClosedOn(doc[e])
             /\ ClosedOn(doc[e]) => Current(doc'[e]).outcome = Current(doc[e]).outcome
  <2>1. CASE e = k.doc
    BY <1>1, <1>2, <1>3, <1>6, <1>7, <2>1
  <2>2. CASE e # k.doc
    BY <1>1, <1>3, <2>2 DEF OutcomesStand
  <2> QED
    BY <2>1, <2>2
<1> QED
  BY <1>1, <1>2, <1>8, CarriedOn

\* An initiative that is open carries none anywhere, so one abandoned on its
\* anchor's row agrees with its documents.
LEMMA AbandonCarries ==
  ASSUME OutcomeInv, anchor = None, anchor' = "abandoned", doc' = doc
  PROVE  OutcomesStand'
<1>1. \A d \in Docs : \A i \in 1..Len(doc[d].rows) : doc[d].rows[i].outcome = None
  BY DEF OutcomeInv, OutcomesStand, Carries
<1>2. \A d \in Docs : Carries(doc[d], anchor)'
  BY <1>1 DEF Carries
<1>3. \A d, e \in Docs : (d # e /\ ClosedOn(doc'[d])) => ~ClosedOn(doc'[e])
  BY DEF OutcomeInv, OutcomesStand
<1> QED
  BY <1>2, <1>3 DEF OutcomesStand

\* Every step keeps documents and anchor in agreement.
LEMMA NextOutcomes == OutcomeInv /\ [Next]_vars => OutcomeInv'
<1> SUFFICES ASSUME OutcomeInv, [Next]_vars PROVE OutcomesStand'
  BY NextChange DEF OutcomeInv
<1>1. /\ ChangeInv /\ doc \in [Docs -> Document] /\ doc' \in [Docs -> Document]
      /\ ClosingDoc \in Docs /\ OutcomesStand
  <2>1. ChangeInv /\ ChangeInv'
    BY NextChange DEF OutcomeInv
  <2>2. doc' \in [Docs -> Document]
    BY <2>1 DEF ChangeInv, DocsInv, RowsInv, TypeInv, TypeOK
  <2> QED
    BY <2>1, <2>2, ChangeTypes, FlowAssumption DEF OutcomeInv
<1>2. ASSUME NEW c \in Calls, SaveEdit(c) PROVE OutcomesStand'
  <2> PICK k : k = call[c]
    OBVIOUS
  <2> PICK w : w = k.write
    OBVIOUS
  <2>1. /\ k.doc \in Docs /\ Held(k.doc) /\ w \in Write /\ EditPlan(k, doc[k.doc])
        /\ anchor' = anchor
    BY <1>1, <1>2, SaveEditDoes
  <2>2. PICK cap \in Captures(w.capture) :
          /\ w.causes \cup cap \in SUBSET Sources
          /\ doc' = [doc EXCEPT ![k.doc] =
                       Saved(doc[k.doc], w, w.causes \cup cap, LandsAs(k.doc, w))]
    BY <1>1, <1>2, SaveEditDoes
  <2>3. w.outcome = Current(doc[k.doc]).outcome
    BY <2>1 DEF EditPlan
  <2>4. LandsAs(k.doc, w) \in {"append", "pinned", "rewrite"}
    BY LandsMode
  <2> QED
    BY <2>1, <2>2, <2>3, <2>4, WriteCarries
<1>3. ASSUME NEW c \in Calls, SaveApprove(c) PROVE OutcomesStand'
  <2> PICK k : k = call[c]
    OBVIOUS
  <2> PICK w : w = k.write
    OBVIOUS
  <2>1. /\ k.doc \in Docs /\ Held(k.doc) /\ w \in Write /\ Fits(k, doc[k.doc])
        /\ doc' = [doc EXCEPT ![k.doc] = Saved(doc[k.doc], w, {}, "rewrite")]
    BY <1>1, <1>3, SaveSealDoes
  <2>2. k.op = "approve" /\ anchor' = anchor
    BY <1>3 DEF SaveApprove
  <2>3. w.outcome = Current(doc[k.doc]).outcome
    BY <2>1, <2>2 DEF Fits, SealText
  <2>4. {} \in SUBSET Sources
    OBVIOUS
  <2> QED
    BY <2>1, <2>2, <2>3, <2>4, WriteCarries
<1>4. ASSUME anchor' = anchor, \A d \in Docs : SameContent(doc[d], doc'[d])
      PROVE  OutcomesStand'
  <2>1. ASSUME NEW d \in Docs
        PROVE  /\ Carries(doc'[d], anchor)
               /\ ClosedOn(doc'[d]) <=> ClosedOn(doc[d])
               /\ ClosedOn(doc[d]) => Current(doc'[d]).outcome = Current(doc[d]).outcome
    <3>1. doc[d] \in Document /\ doc'[d] \in Document /\ Carries(doc[d], anchor)
      BY <1>1 DEF OutcomesStand
    <3> QED
      BY <1>4, <3>1, AlikeCarries DEF ClosedOn
  <2> QED
    BY <1>1, <1>4, <2>1, CarriedOn
<1> QED
  BY <1>1, <1>2, <1>3, <1>4, CloseCarries, CreateCarries, AbandonCarries,
     AnchorSteps, ContentSteps

\* An initiative starts open.
LEMMA InitOutcomes == Init => OutcomeInv
<1> SUFFICES ASSUME Init PROVE OutcomesStand
  BY InitChange DEF OutcomeInv
<1>1. ASSUME NEW d \in Docs
      PROVE  /\ \A i \in 1..Len(doc[d].rows) : doc[d].rows[i].outcome = None
             /\ ~ClosedOn(doc[d])
  <2>1. PICK s : doc[d] = Born(d, s)
    BY DEF Init
  <2>2. CASE s = "absent"
    BY <2>1, <2>2 DEF Born, ClosedOn
  <2>3. CASE s # "absent"
    <3> DEFINE r == [text |-> [body |-> <<>>, title |-> None], gen |-> None,
                     version |-> 1, cites |-> {}, sealed |-> None,
                     presented |-> FALSE, outcome |-> None]
    <3>1. Born(d, s).rows = <<r>>
      BY <2>3 DEF Born
    <3>2. r.outcome = None
      OBVIOUS
    <3> HIDE DEF r
    <3>3. Len(doc[d].rows) = 1 /\ doc[d].rows[1] = r /\ Current(doc[d]) = r
      BY <2>1, <3>1 DEF Current
    <3>4. \A i \in 1..Len(doc[d].rows) : i = 1
      BY <3>3, OneOnly
    <3> QED
      BY <3>2, <3>3, <3>4 DEF ClosedOn
  <2> QED
    BY <2>2, <2>3
<1>2. anchor = None /\ anchor # "finished"
  BY NoneAssumption DEF Init, Dispositions
<1> QED
  BY <1>1, <1>2 DEF OutcomesStand, Carries

\* Documents and anchor row agree on how the initiative closed, whatever
\* corrections, closes and creates race.
THEOREM OutcomesStayAgreed == Spec => []OutcomeAgrees
BY OutcomesAgree, InitOutcomes, NextOutcomes, PTL DEF Spec

----------------------------------------------------------------------------
(* A keyed request lands once.                                             *)

\* A request of R has the key a token of document d's body carries.
Named(R, d, t) == \E q \in R : q.by = t[1] /\ q.doc = d /\ q.rid = t[2]

\* The keyed tokens of a body stand in it once, their requests in R.
LandedOnce(R, d, body) ==
  \A i \in 1..Len(body) :
    body[i][2] # None =>
      /\ \A j \in 1..Len(body) : body[j] = body[i] => j = i
      /\ Named(R, d, body[i])

KeysUnique(R) ==
  \A q, r \in R : (q.by = r.by /\ q.doc = r.doc /\ q.rid = r.rid) => q = r

LandsInv ==
  /\ ChangeInv
  /\ KeysUnique(requests)
  /\ \A d \in Docs : Held(d) => LandedOnce(requests, d, Current(doc[d]).text.body)

LEMMA LandsOnce == LandsInv => RequestLandsOnce
BY DEF LandsInv, RequestLandsOnce, LandedOnce, KeysUnique, Named

\* What a change makes of a body.
Extended(new, old, t) == new = old \/ new = Append(old, t) \/ new = <<t>>

LEMMA ChangedBody ==
  ASSUME NEW text \in Text, NEW ask \in Ask, NEW v
  PROVE  Extended(Changed(ask, v, text).body, text.body, <<v, ask.rid>>)
<1>1. ask.kind \in {"patch", "whole", "title"}
  BY DEF Ask
<1>2. CASE ask.kind = "patch"
  <2> DEFINE b == Append(text.body, <<v, ask.rid>>)
  <2>1. Changed(ask, v, text) = [text EXCEPT !.body = b]
    BY <1>2 DEF Changed
  <2> HIDE DEF b
  <2>2. Changed(ask, v, text).body = b
    BY <2>1 DEF Text
  <2> QED
    BY <2>2 DEF b, Extended
<1>3. CASE ask.kind = "whole"
  <2> DEFINE b == <<<<v, ask.rid>>>>
  <2>1. Changed(ask, v, text) = [text EXCEPT !.body = b]
    BY <1>3 DEF Changed
  <2> HIDE DEF b
  <2>2. Changed(ask, v, text).body = b
    BY <2>1 DEF Text
  <2> QED
    BY <2>2 DEF b, Extended
<1>4. CASE ask.kind = "title"
  <2>1. Changed(ask, v, text) = [text EXCEPT !.title = v]
    BY <1>4 DEF Changed
  <2> QED
    BY <2>1 DEF Text, Extended
<1> QED
  BY <1>1, <1>2, <1>3, <1>4

\* More requests name no fewer tokens.
LEMMA LandedMore ==
  ASSUME NEW R, NEW S, R \subseteq S, NEW d, NEW body, LandedOnce(R, d, body)
  PROVE  LandedOnce(S, d, body)
BY DEF LandedOnce, Named

\* A token no request of R named lands once.
LEMMA LandedAppend ==
  ASSUME NEW R, NEW S, R \subseteq S, NEW d, NEW body \in Seq(Token),
         LandedOnce(R, d, body), NEW t \in Token,
         t[2] # None => ~Named(R, d, t) /\ Named(S, d, t)
  PROVE  LandedOnce(S, d, Append(body, t))
<1> DEFINE n == Len(body)
           new == Append(body, t)
<1>1. /\ n \in Nat /\ Len(new) = n + 1 /\ new[n + 1] = t
      /\ \A i \in 1..n : new[i] = body[i]
  OBVIOUS
<1>2. \A i \in 1..n : body[i][2] # None =>
        /\ \A j \in 1..n : body[j] = body[i] => j = i
        /\ Named(R, d, body[i])
  BY DEF LandedOnce
<1>3. \A i \in 1..n : body[i] = t => t[2] = None
  BY <1>2
<1> HIDE DEF n, new
<1>4. ASSUME NEW i \in 1..(n + 1), new[i][2] # None, NEW j \in 1..(n + 1), new[j] = new[i]
      PROVE  j = i
  <2>1. CASE i = n + 1 /\ j \in 1..n
    BY <1>1, <1>3, <1>4, <2>1
  <2>2. CASE j = n + 1 /\ i \in 1..n
    BY <1>1, <1>3, <1>4, <2>2
  <2>3. CASE i \in 1..n /\ j \in 1..n
    BY <1>1, <1>2, <1>4, <2>3
  <2> QED
    BY <1>1, <2>1, <2>2, <2>3
<1>5. ASSUME NEW i \in 1..(n + 1), new[i][2] # None
      PROVE  Named(S, d, new[i])
  <2>1. CASE i \in 1..n
    <3>1. Named(R, d, new[i])
      BY <1>1, <1>2, <1>5, <2>1
    <3> QED
      BY <3>1 DEF Named
  <2>2. CASE i = n + 1
    BY <1>1, <1>5, <2>2
  <2> QED
    BY <1>1, <2>1, <2>2
<1> QED
  BY <1>1, <1>4, <1>5 DEF LandedOnce, new

LEMMA LandedAlone ==
  ASSUME NEW S, NEW d, NEW t, t[2] # None => Named(S, d, t)
  PROVE  LandedOnce(S, d, <<t>>)
<1> DEFINE new == <<t>>
<1>1. Len(new) = 1 /\ new[1] = t
  OBVIOUS
<1> HIDE DEF new
<1>2. \A i \in 1..Len(new) : i = 1
  BY <1>1, OneOnly
<1> QED
  BY <1>1, <1>2 DEF LandedOnce, new

\* The request a change records: its key is new and its token is named.
LEMMA RecordedKeys ==
  ASSUME NEW k, NEW base, ~Stored(k.by, k.doc, k.ask.rid), KeysUnique(requests),
         NEW S, S = Recorded(k, base)
  PROVE  /\ requests \subseteq S /\ KeysUnique(S)
         /\ k.ask.rid # None =>
              ~Named(requests, k.doc, <<k.by, k.ask.rid>>)
              /\ Named(S, k.doc, <<k.by, k.ask.rid>>)
<1>1. CASE k.ask.rid = None
  BY <1>1 DEF Recorded
<1>2. CASE k.ask.rid # None
  <2> DEFINE new == [by |-> k.by, doc |-> k.doc, rid |-> k.ask.rid,
                     tool |-> k.op, ask |-> k.ask, base |-> base]
  <2>1. S = requests \cup {new}
    BY <1>2 DEF Recorded
  <2>2. new.by = k.by /\ new.doc = k.doc /\ new.rid = k.ask.rid
    OBVIOUS
  <2>3. ~\E q \in requests : q.by = k.by /\ q.doc = k.doc /\ q.rid = k.ask.rid
    BY <1>2 DEF Stored
  <2> HIDE DEF new
  <2>4. KeysUnique(S)
    BY <2>1, <2>2, <2>3 DEF KeysUnique
  <2>5. /\ ~Named(requests, k.doc, <<k.by, k.ask.rid>>)
        /\ Named(S, k.doc, <<k.by, k.ask.rid>>)
    BY <2>1, <2>2, <2>3 DEF Named
  <2> QED
    BY <2>1, <2>4, <2>5
<1> QED
  BY <1>1, <1>2

\* Requests are recorded by the transactions of edits and creates alone.
LEMMA RequestSteps ==
  ASSUME [Next]_vars
  PROVE  \/ requests' = requests
         \/ \E c \in Calls : SaveEdit(c) \/ SaveCreate(c) \/ SaveNoChange(c)
<1>1. CASE UNCHANGED vars
  BY <1>1 DEF vars
<1>2. ASSUME NEW c \in Calls, Edit(c), ~SaveEdit(c), ~SaveNoChange(c)
      PROVE  requests' = requests
  BY <1>2 DEF Edit, BeginEdit, PlanEdit, RetryEdit, store
<1>3. ASSUME NEW c \in Calls, Create(c), ~SaveCreate(c) PROVE requests' = requests
  BY <1>3 DEF Create, BeginCreate, store
<1>4. ASSUME NEW c \in Calls, Present(c) PROVE requests' = requests
  <2>1. ASSUME NEW d, NEW page, Showing(c, d, page) PROVE requests' = requests
    BY <2>1 DEF Showing, store
  <2>2. ASSUME NEW v, NEW d, NEW span, BeginPresent(c, v, d, span)
        PROVE  requests' = requests
    BY <2>1, <2>2 DEF BeginPresent, PresentFresh, PresentWhole, PresentDelta,
                      PresentOn, PresentRead
  <2> QED
    BY <1>4, <2>2 DEF Present, SavePresent
<1>5. ASSUME NEW c \in Calls, Approve(c) PROVE requests' = requests
  BY <1>5 DEF Approve, BeginApprove, PlanApprove, SaveApprove, store
<1>6. ASSUME NEW c \in Calls, Close(c) PROVE requests' = requests
  BY <1>6 DEF Close, BeginClose, PlanClose, RetryClose, SaveClose, BeginAbandon,
              SaveAbandon, store
<1>7. ASSUME NEW c \in Calls, GiveUp(c) PROVE requests' = requests
  BY <1>7 DEF GiveUp, store
<1>8. ASSUME NEW s, NEW D, AddSource(s, D) PROVE requests' = requests
  BY <1>8 DEF AddSource
<1> QED
  BY <1>1, <1>2, <1>3, <1>4, <1>5, <1>6, <1>7, <1>8 DEF Next

\* A document left as it was, or whose text is kept, keeps its body.
LEMMA BodyStays ==
  ASSUME LandsInv, NEW S, requests \subseteq S, NEW d \in Docs,
         \/ doc'[d] = doc[d]
         \/ Held(d) /\ Current(doc'[d]).text = Current(doc[d]).text,
         doc'[d].rows # <<>>
  PROVE  LandedOnce(S, d, Current(doc'[d]).text.body)
<1>1. Held(d) /\ Current(doc'[d]).text = Current(doc[d]).text
  BY DEF Held
<1>2. LandedOnce(requests, d, Current(doc[d]).text.body)
  BY <1>1 DEF LandsInv
<1> QED
  BY <1>1, <1>2, LandedMore

\* The transaction of an edit lands its request with its words.
LEMMA EditLands ==
  ASSUME LandsInv, NEW c \in Calls, SaveEdit(c), NEW d \in Docs, doc'[d].rows # <<>>
  PROVE  LandedOnce(requests', d, Current(doc'[d]).text.body)
<1> PICK k : k = call[c]
  OBVIOUS
<1> PICK w : w = k.write
  OBVIOUS
<1> PICK S : S = requests'
  OBVIOUS
<1>1. ChangeInv /\ doc \in [Docs -> Document] /\ KeysUnique(requests)
  BY ChangeTypes DEF LandsInv
<1>2. /\ k \in EditCall /\ k.doc \in Docs /\ w \in Write /\ Held(k.doc)
      /\ doc[k.doc] \in Document /\ doc[k.doc].rows # <<>>
      /\ EditPlan(k, doc[k.doc])
      /\ ~Stored(k.by, k.doc, k.ask.rid) /\ S = Recorded(k, k.base)
  BY <1>1, SaveEditDoes
<1>3. PICK cap \in Captures(w.capture) :
        /\ w.causes \cup cap \in SUBSET Sources
        /\ doc' = [doc EXCEPT ![k.doc] =
                     Saved(doc[k.doc], w, w.causes \cup cap, LandsAs(k.doc, w))]
  BY <1>1, SaveEditDoes
<1>4. /\ requests \subseteq S /\ KeysUnique(S)
      /\ k.ask.rid # None => /\ ~Named(requests, k.doc, <<k.by, k.ask.rid>>)
                             /\ Named(S, k.doc, <<k.by, k.ask.rid>>)
  BY <1>1, <1>2, RecordedKeys
<1>5. CASE d # k.doc
  BY <1>1, <1>3, <1>4, <1>5, BodyStays
<1>6. CASE d = k.doc
  <2> PICK x : x = doc[d]
    OBVIOUS
  <2> PICK y : y = doc'[d]
    OBVIOUS
  <2> PICK old : old = Current(x).text
    OBVIOUS
  <2> PICK t : t = <<k.by, k.ask.rid>>
    OBVIOUS
  <2>1. /\ y = Saved(x, w, w.causes \cup cap, LandsAs(d, w))
        /\ x \in Document /\ x.rows # <<>>
    BY <1>1, <1>2, <1>3, <1>6
  <2>2. SavedAs(y, x, w, w.causes \cup cap, LandsAs(d, w))
    BY <1>2, <1>3, <2>1, SavedContent, LandsMode
  <2>3. Current(y).text = w.text /\ w.text = Changed(k.ask, k.by, old)
    BY <1>2, <1>6, <2>2 DEF SavedAs, EditPlan
  <2>4. k.ask \in Ask /\ k.by \in Viewers /\ t[1] = k.by /\ t[2] = k.ask.rid
    BY <1>2 DEF EditCall
  <2>5. old \in Text /\ old.body \in Seq(Token) /\ t \in Token
    <3>1. old \in Text
      BY <2>1, CurrentType DEF Current, Row
    <3> QED
      BY <2>4, <3>1 DEF Text, Token, Ask
  <2>6. LandedOnce(requests, d, old.body)
    BY <1>2, <1>6 DEF LandsInv
  <2>7. t[2] # None => ~Named(requests, d, t) /\ Named(S, d, t)
    BY <1>4, <1>6, <2>4
  <2>8. LandedOnce(S, d, old.body)
    BY <1>4, <2>6, LandedMore
  <2>9. LandedOnce(S, d, Append(old.body, t))
    BY <1>4, <2>5, <2>6, <2>7, LandedAppend
  <2>10. LandedOnce(S, d, <<t>>)
    BY <2>7, LandedAlone
  <2>11. Extended(w.text.body, old.body, t)
    BY <2>3, <2>4, <2>5, ChangedBody
  <2> QED
    BY <1>4, <2>3, <2>8, <2>9, <2>10, <2>11 DEF Extended
<1> QED
  BY <1>5, <1>6

\* And the transaction of a create.
LEMMA CreateLands ==
  ASSUME LandsInv, NEW c \in Calls, SaveCreate(c), NEW d \in Docs, doc'[d].rows # <<>>
  PROVE  LandedOnce(requests', d, Current(doc'[d]).text.body)
<1> PICK k : k = call[c]
  OBVIOUS
<1> PICK w : w = k.write
  OBVIOUS
<1> PICK S : S = requests'
  OBVIOUS
<1>1. ChangeInv /\ doc \in [Docs -> Document] /\ KeysUnique(requests)
  BY ChangeTypes DEF LandsInv
<1>2. /\ k.op = "create" /\ k.doc \in Docs /\ Sound(k)
      /\ ~Stored(k.by, k.doc, k.ask.rid) /\ S = Recorded(k, None)
  BY <1>1, SaveCreateDoes
<1>3. PICK cap \in Captures(w.capture) :
        doc' = [doc EXCEPT ![k.doc] = Created(w, w.causes \cup cap)]
  BY <1>1, SaveCreateDoes
<1>4. /\ requests \subseteq S /\ KeysUnique(S)
      /\ k.ask.rid # None => Named(S, k.doc, <<k.by, k.ask.rid>>)
  BY <1>1, <1>2, RecordedKeys
<1>5. CASE d # k.doc
  BY <1>1, <1>3, <1>4, <1>5, BodyStays
<1>6. CASE d = k.doc
  <2> PICK y : y = Created(w, w.causes \cup cap)
    OBVIOUS
  <2> PICK t : t = <<k.by, k.ask.rid>>
    OBVIOUS
  <2>1. Current(y).text = w.text /\ doc'[d] = y
    BY <1>1, <1>2, <1>3, <1>6, CreatedRow
  <2>2. w.text.body = <<t>> /\ t[2] = k.ask.rid
    BY <1>2 DEF Sound
  <2>3. LandedOnce(S, d, <<t>>)
    BY <1>4, <1>6, <2>2, LandedAlone
  <2> QED
    BY <1>4, <2>1, <2>2, <2>3
<1> QED
  BY <1>5, <1>6

\* A request's key is new when it is recorded.
LEMMA KeysStay ==
  ASSUME LandsInv, [Next]_vars
  PROVE  KeysUnique(requests') /\ requests \subseteq requests'
<1>1. ASSUME NEW c \in Calls, SaveEdit(c) \/ SaveCreate(c) \/ SaveNoChange(c)
      PROVE  KeysUnique(requests') /\ requests \subseteq requests'
  <2> PICK k : k = call[c]
    OBVIOUS
  <2> PICK S : S = requests'
    OBVIOUS
  <2>1. ~Stored(k.by, k.doc, k.ask.rid) /\ \E base : S = Recorded(k, base)
    BY <1>1 DEF SaveEdit, SaveNoChange, Commits, SaveCreate
  <2>2. KeysUnique(S) /\ requests \subseteq S
    BY <2>1, RecordedKeys DEF LandsInv
  <2> QED
    BY <2>2
<1>2. ASSUME requests' = requests
      PROVE  KeysUnique(requests') /\ requests \subseteq requests'
  BY <1>2 DEF LandsInv
<1> QED
  BY <1>1, <1>2, RequestSteps

\* Every step lands every request once.
LEMMA NextLands == LandsInv /\ [Next]_vars => LandsInv'
<1> SUFFICES ASSUME LandsInv, [Next]_vars
             PROVE  /\ KeysUnique(requests')
                    /\ \A d \in Docs : doc'[d].rows # <<>> =>
                         LandedOnce(requests', d, Current(doc'[d]).text.body)
  BY NextChange DEF LandsInv, Held
<1>1. /\ ChangeInv /\ doc \in [Docs -> Document]
      /\ KeysUnique(requests') /\ requests \subseteq requests'
  BY KeysStay, ChangeTypes DEF LandsInv
<1> PICK S : S = requests'
  OBVIOUS
<1> DEFINE Goal == \A d \in Docs : doc'[d].rows # <<>> =>
                     LandedOnce(S, d, Current(doc'[d]).text.body)
<1>2. ASSUME NEW c \in Calls, SaveEdit(c) PROVE Goal
  BY <1>2, EditLands
<1>3. ASSUME NEW c \in Calls, SaveCreate(c) PROVE Goal
  BY <1>3, CreateLands
<1>4. ASSUME NEW c \in Calls, SaveNoChange(c) PROVE Goal
  <2>1. doc' = doc
    BY <1>4 DEF SaveNoChange
  <2> QED
    BY <1>1, <2>1, BodyStays
<1>5. ASSUME requests' = requests, NEW c \in Calls, SaveApprove(c) \/ SaveClose(c)
      PROVE  Goal
  <2> PICK k : k = call[c]
    OBVIOUS
  <2> PICK w : w = k.write
    OBVIOUS
  <2>1. /\ k.doc \in Docs /\ Held(k.doc) /\ w \in Write
        /\ doc[k.doc] \in Document /\ doc[k.doc].rows # <<>>
        /\ w.text = Current(doc[k.doc]).text
        /\ doc' = [doc EXCEPT ![k.doc] = Saved(doc[k.doc], w, {}, "rewrite")]
    BY <1>1, <1>5, SaveSealDoes
  <2>2. {} \in SUBSET Sources
    OBVIOUS
  <2>3. doc'[k.doc] = Saved(doc[k.doc], w, {}, "rewrite")
    BY <1>1, <2>1
  <2>4. SavedAs(doc'[k.doc], doc[k.doc], w, {}, "rewrite")
    BY <2>1, <2>2, <2>3, SavedContent
  <2>5. Current(doc'[k.doc]).text = Current(doc[k.doc]).text
    BY <2>1, <2>4 DEF SavedAs
  <2>6. \A d \in Docs : doc'[d] = doc[d] \/ d = k.doc
    BY <1>1, <2>1
  <2>7. requests \subseteq S
    BY <1>5
  <2>8. ASSUME NEW d \in Docs, doc'[d].rows # <<>>
        PROVE  LandedOnce(S, d, Current(doc'[d]).text.body)
    BY <2>1, <2>5, <2>6, <2>7, <2>8, BodyStays
  <2> QED
    BY <1>1, <1>5, <2>8
<1>6. ASSUME requests' = requests, \A d \in Docs : SameContent(doc[d], doc'[d])
      PROVE  Goal
  <2>1. ASSUME NEW d \in Docs, doc'[d].rows # <<>>
        PROVE  LandedOnce(S, d, Current(doc'[d]).text.body)
    <3>1. CASE Held(d)
      <4>1. Current(doc'[d]).text = Current(doc[d]).text
        BY <1>1, <1>6, <3>1, AlikeRead DEF Held
      <4> QED
        BY <1>6, <2>1, <3>1, <4>1, BodyStays
    <3>2. CASE ~Held(d)
      <4>1. doc'[d] \in Document
        BY NextChange DEF LandsInv, ChangeInv, DocsInv, RowsInv, TypeInv, TypeOK
      <4>2. Len(doc'[d].rows) = Len(doc[d].rows) /\ doc[d].rows = <<>>
        BY <1>6, <3>2 DEF SameContent, StateOf, Held
      <4> QED
        BY <2>1, <4>1, <4>2 DEF Document
    <3> QED
      BY <3>1, <3>2
  <2> QED
    BY <1>1, <1>6, <2>1
<1>7. Goal
  <2> HIDE DEF Goal
  <2> QED
    BY <1>1, <1>2, <1>3, <1>4, <1>5, <1>6, RequestSteps, ContentSteps
<1> QED
  BY <1>1, <1>7

LEMMA InitLands == Init => LandsInv
<1> SUFFICES ASSUME Init
             PROVE  /\ KeysUnique(requests)
                    /\ \A d \in Docs : Held(d) =>
                         LandedOnce(requests, d, Current(doc[d]).text.body)
  BY InitChange DEF LandsInv
<1>1. KeysUnique(requests)
  BY DEF Init, KeysUnique
<1>2. ASSUME NEW d \in Docs, Held(d)
      PROVE  LandedOnce(requests, d, Current(doc[d]).text.body)
  <2>1. PICK s : doc[d] = Born(d, s)
    BY DEF Init
  <2>2. s # "absent"
    BY <1>2, <2>1 DEF Born, Held
  <2> DEFINE text == [body |-> <<>>, title |-> None]
             r == [text |-> text, gen |-> None, version |-> 1, cites |-> {},
                   sealed |-> None, presented |-> FALSE, outcome |-> None]
  <2>3. Born(d, s).rows = <<r>>
    BY <2>2 DEF Born
  <2>4. r.text = text /\ text.body = <<>>
    OBVIOUS
  <2> HIDE DEF r, text
  <2>5. Current(doc[d]) = r
    BY <2>1, <2>3 DEF Current
  <2>6. Current(doc[d]).text.body = <<>>
    BY <2>4, <2>5
  <2>7. LandedOnce(requests, d, <<>>)
    BY DEF LandedOnce
  <2> QED
    BY <2>6, <2>7
<1> QED
  BY <1>1, <1>2

\* A keyed request commits once, whatever its client repeats and however its
\* calls race: one digest to a key, its words at most once in the body, and never
\* without the request's own row.
THEOREM RequestsLandOnce == Spec => []RequestLandsOnce
BY LandsOnce, InitLands, NextLands, PTL DEF Spec
=============================================================================
