------------------------- MODULE DocumentStoreProofs -------------------------
(***************************************************************************)
(* Theorems of DocumentStore, for every value of its constants.            *)
(***************************************************************************)
EXTENDS DocumentStore, TLAPS

----------------------------------------------------------------------------
(* The shape of the values the actions read and write.                     *)

\* Every row of a document is a Row, and the generation it goes by a number.
LEMMA RowType ==
  ASSUME NEW x \in Document
  PROVE  \A i \in 1..Len(x.rows) : x.rows[i] \in Row /\ GenOf(x, i) \in Nat
<1>1. x.rows \in Seq(Row) /\ x.gen \in Nat
  BY DEF Document
<1> TAKE i \in 1..Len(x.rows)
<1>2. x.rows[i] \in Row
  BY <1>1
<1>3. x.rows[i].gen \in Nat \cup {None}
  BY <1>2 DEF Row
<1> QED
  BY <1>1, <1>2, <1>3 DEF GenOf

\* A document that exists has a current row, named by a generation.
LEMMA CurrentType ==
  ASSUME NEW x \in Document, x.rows # <<>>
  PROVE  /\ Len(x.rows) \in Nat \ {0}
         /\ Len(x.rows) \in 1..Len(x.rows)
         /\ Current(x) \in Row
         /\ Now(x) \in Nat
<1>1. x.rows \in Seq(Row)
  BY DEF Document
<1>2. Len(x.rows) \in Nat \ {0}
  BY <1>1
<1>3. Len(x.rows) \in 1..Len(x.rows)
  BY <1>2
<1> QED
  BY <1>2, <1>3, RowType DEF Current, Now

\* A retained generation has a text.
LEMMA TextAtType ==
  ASSUME NEW x \in Document, NEW g, Retained(x, g) # {}
  PROVE  TextAt(x, g) \in Text
<1>1. (CHOOSE i \in Retained(x, g) : TRUE) \in Retained(x, g)
  OBVIOUS
<1>2. (CHOOSE i \in Retained(x, g) : TRUE) \in 1..Len(x.rows)
  BY <1>1 DEF Retained
<1> QED
  BY <1>2, RowType DEF TextAt, Row

\* The current snapshot's generation is retained.
LEMMA NowRetained ==
  ASSUME NEW x \in Document, x.rows # <<>>
  PROVE  Retained(x, Now(x)) # {}
BY CurrentType DEF Retained, Now

\* A change makes a text of a text.
LEMMA ChangedType ==
  ASSUME NEW ask \in Ask, NEW v \in Viewers, NEW text \in Text
  PROVE  Changed(ask, v, text) \in Text
<1>1. <<v, ask.rid>> \in Token
  BY DEF Ask, Token
<1>2. text.body \in Seq(Token) /\ text.title \in Viewers \cup {None}
  BY DEF Text
<1>3. Append(text.body, <<v, ask.rid>>) \in Seq(Token)
  BY <1>1, <1>2
<1>4. <<<<v, ask.rid>>>> \in Seq(Token)
  BY <1>1
<1>5. ask.kind \in {"patch", "whole", "title"}
  BY DEF Ask
<1>6. CASE ask.kind = "patch"
  BY <1>3, <1>6 DEF Changed, Text
<1>7. CASE ask.kind = "whole"
  BY <1>4, <1>7 DEF Changed, Text
<1>8. CASE ask.kind = "title"
  BY <1>8 DEF Changed, Text
<1> QED
  BY <1>5, <1>6, <1>7, <1>8

\* A write leaves a document, wherever it lands.
LEMMA SavedType ==
  ASSUME NEW x \in Document, x.rows # <<>>, NEW w \in Write,
         NEW causes \in SUBSET Sources, NEW mode
  PROVE  /\ Saved(x, w, causes, mode) \in Document
         /\ Saved(x, w, causes, mode).rows # <<>>
<1> DEFINE n == Len(x.rows)
           r == x.rows[n]
           gen == IF w.text = Current(x).text THEN x.gen ELSE x.gen + 1
<1>1. n \in 1..Len(x.rows) /\ n \in Nat \ {0} /\ r \in Row /\ GenOf(x, n) \in Nat
  BY CurrentType, RowType
<1>2. gen \in Nat
  BY DEF Document
<1>3. /\ x.rows \in Seq(Row) /\ x.stamp \in Nat /\ x.approved \in Nat
  BY DEF Document
<1>4. /\ w.text \in Text /\ w.status \in {"none", "draft", "approved"}
      /\ w.outcome \in Outcome /\ w.seal \in Signer
  BY DEF Write
<1>5. Rewritten(x, w, gen, causes) \in Document
      /\ Rewritten(x, w, gen, causes).rows # <<>>
  <2> DEFINE new == [r EXCEPT !.text = w.text, !.gen = gen,
                              !.cites = r.cites \cup causes,
                              !.sealed = IF w.seal # None THEN w.seal ELSE r.sealed,
                              !.outcome = w.outcome]
  <2>1. new \in Row
    BY <1>1, <1>2, <1>4 DEF Row
  <2>2. [x.rows EXCEPT ![n] = new] \in Seq(Row) /\ [x.rows EXCEPT ![n] = new] # <<>>
    BY <2>1, <1>1, <1>3
  <2>3. ApprovedRevision(x, w, n) \in Nat
    BY <1>1, <1>3 DEF ApprovedRevision
  <2> HIDE DEF new, gen
  <2>4. Rewritten(x, w, gen, causes) =
          [gen |-> gen, stamp |-> x.stamp + 1, status |-> w.status,
           approved |-> ApprovedRevision(x, w, n),
           rows |-> [x.rows EXCEPT ![n] = new]]
    BY DEF Rewritten, new
  <2> QED
    BY <2>2, <2>3, <2>4, <1>2, <1>3, <1>4 DEF Document
<1>6. Appended(x, w, gen, causes, mode) \in Document
      /\ Appended(x, w, gen, causes, mode).rows # <<>>
  <2> DEFINE new == [text |-> w.text, gen |-> gen,
                     version |-> IF mode = "append" THEN r.version + 1 ELSE r.version,
                     cites |-> IF mode = "pinned" THEN r.cites \cup causes ELSE causes,
                     sealed |-> w.seal, presented |-> FALSE, outcome |-> w.outcome]
  <2>1. new \in Row
    BY <1>1, <1>2, <1>4 DEF Row
  <2>2. [r EXCEPT !.gen = GenOf(x, n)] \in Row
    BY <1>1 DEF Row
  <2>3. Stamped(x) \in Seq(Row)
    BY <2>2, <1>1, <1>3 DEF Stamped
  <2>4. Append(Stamped(x), new) \in Seq(Row) /\ Append(Stamped(x), new) # <<>>
    BY <2>1, <2>3
  <2>5. ApprovedRevision(x, w, n + 1) \in Nat
    BY <1>1, <1>3 DEF ApprovedRevision
  <2> HIDE DEF new, gen
  <2>6. Appended(x, w, gen, causes, mode) =
          [gen |-> gen, stamp |-> x.stamp + 1, status |-> w.status,
           approved |-> ApprovedRevision(x, w, n + 1),
           rows |-> Append(Stamped(x), new)]
    BY DEF Appended, new
  <2> QED
    BY <2>4, <2>5, <2>6, <1>2, <1>3, <1>4 DEF Document
<1> QED
  BY <1>5, <1>6 DEF Saved

\* A create leaves a document of one row.
LEMMA CreatedType ==
  ASSUME NEW w \in Write, NEW causes \in SUBSET Sources
  PROVE  Created(w, causes) \in Document
<1> DEFINE r == [text |-> w.text, gen |-> 0, version |-> 1, cites |-> causes,
                 sealed |-> None, presented |-> FALSE, outcome |-> None]
<1>1. r \in Row
  BY DEF Row, Write, Signer, Outcome
<1>2. <<r>> \in Seq(Row)
  BY <1>1
<1> HIDE DEF r
<1>3. Created(w, causes) = [gen |-> 0, stamp |-> 1, status |-> w.status,
                            approved |-> 0, rows |-> <<r>>]
  BY DEF Created, r
<1> QED
  BY <1>2, <1>3 DEF Document, Write

----------------------------------------------------------------------------
(* Calls in flight.                                                        *)

\* A call is of the kind its operation says.
LEMMA CallKind ==
  ASSUME NEW k \in Call
  PROVE  /\ k.op = "edit" => k \in EditCall
         /\ k.op = "create" => k \in CreateCall
         /\ k.op = "present" => k \in PresentCall
         /\ k.op = "approve" => k \in ApproveCall
         /\ k.op = "close" => k \in CloseCall
BY DEF Call, Idle, EditCall, CreateCall, PresentCall, ApproveCall, CloseCall,
       AbandonCall

\* The document a call works on exists, and goes on existing: what a call reads
\* of it at any step is there.
CallHeld(k, D) ==
  /\ k.op \in {"edit", "approve", "close"} => D[k.doc].rows # <<>>
  /\ k.op = "present" => D[k.page.doc].rows # <<>>

CallsHeld == \A c \in Calls : CallHeld(call[c], doc)

TypeInv == TypeOK /\ CallsHeld

\* Slots take typed calls, and end them.
LEMMA ProceedType ==
  ASSUME TypeOK, NEW c \in Calls, NEW r \in Call, Proceed(c, r)
  PROVE  call' \in [Calls -> Call] /\ left' \in [Ops -> Nat]
BY DEF TypeOK, Proceed

\* A call begins in a slot, and uses up one of its operation.
LEMMA BeginType ==
  ASSUME TypeOK, NEW c \in Calls, NEW o \in Ops, NEW r \in Call, Begin(c, o, r)
  PROVE  call' \in [Calls -> Call] /\ left' \in [Ops -> Nat]
<1>1. left[o] \in Nat /\ left[o] > 0
  BY DEF TypeOK, Begin
<1>2. left[o] - 1 \in Nat
  BY <1>1
<1> QED
  BY <1>2 DEF TypeOK, Begin

\* A slot that falls idle holds a call.
LEMMA EndType ==
  ASSUME TypeOK, NEW c \in Calls, End(c)
  PROVE  call' \in [Calls -> Call] /\ left' \in [Ops -> Nat]
<1>1. Idle \in Call
  BY DEF Call
<1> QED
  BY <1>1, ProceedType DEF End

\* A step that fills one slot and takes no document away keeps CallsHeld.
LEMMA HeldStays ==
  ASSUME TypeInv, NEW c \in Calls, NEW r,
         call' = [call EXCEPT ![c] = r],
         CallHeld(r, doc'),
         \A d \in Docs : doc[d].rows # <<>> => doc'[d].rows # <<>>
  PROVE  CallsHeld'
<1> SUFFICES ASSUME NEW b \in Calls PROVE CallHeld(call'[b], doc')
  BY DEF CallsHeld
<1>1. call \in [Calls -> Call]
  BY DEF TypeInv, TypeOK
<1>2. CASE b = c
  BY <1>1, <1>2
<1>3. CASE b # c
  <2>1. call'[b] = call[b] /\ call[b] \in Call
    BY <1>1, <1>3
  <2>2. CallHeld(call[b], doc)
    BY DEF TypeInv, CallsHeld
  <2>3. call[b].op \in {"edit", "approve", "close"} => call[b].doc \in Docs
    BY <2>1, CallKind DEF EditCall, ApproveCall, CloseCall
  <2>4. call[b].op = "present" => call[b].page.doc \in Docs
    BY <2>1, CallKind DEF PresentCall, Page
  <2> QED
    BY <2>1, <2>2, <2>3, <2>4 DEF CallHeld
<1> QED
  BY <1>2, <1>3

\* The same when the slot falls idle.
LEMMA HeldAtEnd ==
  ASSUME TypeInv, NEW c \in Calls, End(c),
         \A d \in Docs : doc[d].rows # <<>> => doc'[d].rows # <<>>
  PROVE  CallsHeld'
<1>1. CallHeld(Idle, doc')
  BY DEF CallHeld, Idle
<1> QED
  BY <1>1, HeldStays DEF End, Proceed

----------------------------------------------------------------------------
(* What the actions compute is typed.                                      *)

\* A document that is there, as the actions read it.
LEMMA HeldType ==
  ASSUME TypeOK, NEW d \in Docs, Held(d)
  PROVE  /\ doc[d] \in Document
         /\ Current(doc[d]) \in Row
         /\ Current(doc[d]).text \in Text
         /\ Current(doc[d]).outcome \in Outcome
         /\ doc[d].status \in {"none", "draft", "approved"}
         /\ Now(doc[d]) \in Nat
         /\ StateOf(doc[d]) \in DocumentState
<1>1. doc[d] \in Document /\ doc[d].rows # <<>>
  BY DEF TypeOK, Held
<1>2. Current(doc[d]) \in Row /\ Now(doc[d]) \in Nat /\ Len(doc[d].rows) \in Nat
  BY <1>1, CurrentType
<1>3. doc[d].gen \in Nat /\ doc[d].stamp \in Nat
      /\ doc[d].status \in {"none", "draft", "approved"}
  BY <1>1 DEF Document
<1>4. StateOf(doc[d]) \in DocumentState
  BY <1>2, <1>3 DEF StateOf, DocumentState
<1> QED
  BY <1>1, <1>2, <1>3, <1>4 DEF Row

\* What a document owes is source material.
LEMMA OwedType ==
  ASSUME NEW d
  PROVE  Owed(d) \in SUBSET Sources
BY DEF Owed

\* What document_edit plans is a write.
LEMMA EditOfType ==
  ASSUME TypeOK, NEW d \in Docs, Held(d), NEW ask \in Ask, NEW v \in Viewers
  PROVE  EditOf(d, ask, v) \in Write
<1> DEFINE old == Current(doc[d]).text
           new == Changed(ask, v, old)
           causes == IF new = old THEN {} ELSE Causes(d, ask, new.body # old.body)
           captures == ask.capture /\ new # old
<1>1. new \in Text
  BY HeldType, ChangedType
<1>2. causes \in SUBSET Sources
  <2>1. ask.named \in SUBSET Sources
    BY DEF Ask
  <2> QED
    BY <2>1, OwedType DEF Causes
<1>3. captures \in BOOLEAN
  OBVIOUS
<1>4. (new.body # old.body /\ (captures \/ causes # {})) \in BOOLEAN
  OBVIOUS
<1>5. Unsealed(d) \in {"none", "draft", "approved"}
  BY HeldType DEF Unsealed, Draft
<1>6. Carried(d) \in Outcome
  BY HeldType DEF Carried
<1> HIDE DEF new, causes, captures
<1>7. EditOf(d, ask, v) =
        [text |-> new, status |-> Unsealed(d), outcome |-> Carried(d),
         seal |-> None, next |-> new.body # old.body /\ (captures \/ causes # {}),
         causes |-> causes, capture |-> captures]
  BY DEF EditOf, new, causes, captures
<1> QED
  BY <1>1, <1>2, <1>3, <1>4, <1>5, <1>6, <1>7 DEF Write, Signer

\* What document_approve plans is a write.
LEMMA SealOfType ==
  ASSUME TypeOK, NEW d \in Docs, Held(d), NEW v \in Viewers
  PROVE  SealOf(d, v) \in Write
BY HeldType DEF SealOf, Write, Signer

\* What initiative_close plans is a write.
LEMMA CloseOfType ==
  ASSUME TypeOK, NEW d \in Docs, Held(d), NEW to \in Dispositions
  PROVE  CloseOf(d, to) \in Write
BY HeldType DEF CloseOf, Write, Signer, Outcome

\* Pages are typed, of whatever retained generation they are drawn.
LEMMA FullPageType ==
  ASSUME TypeOK, NEW d \in Docs, NEW x \in 0..MaxContexts, NEW v \in Viewers,
         NEW g \in Nat, Retained(doc[d], g) # {}, NEW span \in SUBSET (1..Parts)
  PROVE  FullPage(x, v, d, g, span) \in Page
<1>1. TextAt(doc[d], g) \in Text
  BY TextAtType DEF TypeOK
<1> QED
  BY <1>1 DEF FullPage, Page

\* A delta is drawn from two retained generations.
LEMMA DeltaPageType ==
  ASSUME TypeOK, NEW d \in Docs, NEW x \in 0..MaxContexts, NEW v \in Viewers,
         NEW b \in Nat, Retained(doc[d], b) # {},
         NEW g \in Nat, Retained(doc[d], g) # {}, NEW span \in SUBSET (1..Parts)
  PROVE  DeltaPage(x, v, d, b, g, span) \in Page
<1>1. TextAt(doc[d], g) \in Text /\ TextAt(doc[d], b) \in Text
  BY TextAtType DEF TypeOK
<1> QED
  BY <1>1 DEF DeltaPage, Page

\* Filing source material, captured or not, keeps the record of it typed.
LEMMA FilingType ==
  ASSUME TypeOK, NEW cap \in SUBSET Sources, NEW D \in SUBSET Docs
  PROVE  Filing(cap, D) \in [Sources -> (SUBSET Docs) \cup {None}]
BY DEF TypeOK, Filing

\* What a change captures is source material.
LEMMA CapturesType ==
  ASSUME NEW b, NEW cap \in Captures(b)
  PROVE  cap \in SUBSET Sources
BY DEF Captures, Filed

\* Recording a request keeps the requests typed.
LEMMA RecordedType ==
  ASSUME TypeOK, NEW k \in EditCall \cup CreateCall, NEW base \in Nat \cup {None}
  PROVE  Recorded(k, base) \subseteq Request
<1>1. requests \subseteq Request
  BY DEF TypeOK
<1>2. CASE k.ask.rid = None
  BY <1>1, <1>2 DEF Recorded
<1>3. CASE k.ask.rid # None
  <2>1. /\ k.by \in Viewers /\ k.doc \in Docs /\ k.op \in {"edit", "create"}
        /\ k.ask \in Ask
    BY DEF EditCall, CreateCall
  <2>2. k.ask.rid \in RequestIds
    BY <2>1, <1>3 DEF Ask
  <2>3. [by |-> k.by, doc |-> k.doc, rid |-> k.ask.rid, tool |-> k.op,
         ask |-> k.ask, base |-> base] \in Request
    BY <2>1, <2>2 DEF Request
  <2> QED
    BY <1>1, <1>3, <2>3 DEF Recorded
<1> QED
  BY <1>2, <1>3

----------------------------------------------------------------------------
(* Every step keeps the types, and the documents of the calls in flight.   *)

\* A step that touches neither the store nor the reviews.
LEMMA QuietType ==
  ASSUME TypeInv, call' \in [Calls -> Call], left' \in [Ops -> Nat],
         UNCHANGED <<store, reviews>>
  PROVE  /\ TypeOK'
         /\ \A d \in Docs : doc[d].rows # <<>> => doc'[d].rows # <<>>
BY DEF TypeInv, TypeOK, store, reviews

\* A call gives up: the store and the reviews stay.
LEMMA GiveUpType ==
  ASSUME TypeInv, NEW c \in Calls, GiveUp(c)
  PROVE  TypeInv'
<1>1. End(c) /\ UNCHANGED <<store, reviews>>
  BY DEF GiveUp
<1>2. TypeOK' /\ \A d \in Docs : doc[d].rows # <<>> => doc'[d].rows # <<>>
  BY <1>1, EndType, QuietType DEF TypeInv
<1> QED
  BY <1>1, <1>2, HeldAtEnd DEF TypeInv

\* document_edit reads the state of a document that is there.
LEMMA BeginEditType ==
  ASSUME TypeInv, NEW c \in Calls, NEW v \in Viewers, NEW d \in Docs,
         NEW ask \in Asks, NEW base \in Nat \cup {None},
         BeginEdit(c, v, d, ask, base)
  PROVE  TypeInv'
<1> DEFINE r == [op |-> "edit", by |-> v, doc |-> d, ask |-> ask, base |-> base,
                 att |-> 1, st |-> StateOf(doc[d]), write |-> None]
<1>1. Held(d) /\ Begin(c, "edit", r) /\ UNCHANGED <<store, reviews>>
  BY DEF BeginEdit
<1>2. StateOf(doc[d]) \in DocumentState
  BY <1>1, HeldType DEF TypeInv
<1>3. r \in EditCall
  BY <1>2, BoundAssumption DEF EditCall
<1>4. r \in Call /\ "edit" \in Ops
  BY <1>3 DEF Call, Ops
<1> HIDE DEF r
<1>5. TypeOK' /\ \A e \in Docs : doc[e].rows # <<>> => doc'[e].rows # <<>>
  BY <1>1, <1>4, BeginType, QuietType DEF TypeInv
<1>6. CallHeld(r, doc')
  BY <1>1, <1>5 DEF CallHeld, Held, r
<1> QED
  BY <1>1, <1>5, <1>6, HeldStays DEF TypeInv, Begin

\* document_edit plans its write, or ends.
LEMMA PlanEditType ==
  ASSUME TypeInv, NEW c \in Calls, PlanEdit(c)
  PROVE  TypeInv'
<1> DEFINE k == call[c]
           w == EditOf(k.doc, k.ask, k.by)
           r == [k EXCEPT !.write = w]
<1>1. k.op = "edit" /\ (End(c) \/ Proceed(c, r)) /\ UNCHANGED <<store, reviews>>
  BY DEF PlanEdit
<1>2. k \in EditCall
  BY <1>1, CallKind DEF TypeInv, TypeOK
<1>3. k.doc \in Docs /\ k.ask \in Ask /\ k.by \in Viewers /\ Held(k.doc)
  BY <1>1, <1>2 DEF EditCall, TypeInv, CallsHeld, CallHeld, Held
<1>4. w \in Write
  BY <1>3, EditOfType DEF TypeInv
<1>5. r \in EditCall /\ r.op = "edit" /\ r.doc = k.doc
  BY <1>2, <1>4 DEF EditCall
<1>6. r \in Call
  BY <1>5 DEF Call
<1>7. CASE End(c)
  <2>1. TypeOK' /\ \A d \in Docs : doc[d].rows # <<>> => doc'[d].rows # <<>>
    BY <1>1, <1>7, EndType, QuietType DEF TypeInv
  <2> QED
    BY <1>7, <2>1, HeldAtEnd DEF TypeInv
<1>8. CASE Proceed(c, r)
  <2>1. TypeOK' /\ \A d \in Docs : doc[d].rows # <<>> => doc'[d].rows # <<>>
    BY <1>1, <1>6, <1>8, ProceedType, QuietType DEF TypeInv
  <2>2. CallHeld(r, doc')
    BY <1>3, <1>5, <2>1 DEF CallHeld, Held
  <2> QED
    BY <1>8, <2>1, <2>2, HeldStays DEF TypeInv, Proceed
<1> QED
  BY <1>1, <1>7, <1>8

\* document_edit reads the state anew, within its attempts.
LEMMA RetryEditType ==
  ASSUME TypeInv, NEW c \in Calls, RetryEdit(c)
  PROVE  TypeInv'
<1> DEFINE k == call[c]
           r == [k EXCEPT !.att = k.att + 1, !.st = StateOf(doc[k.doc]),
                          !.write = None]
<1>1. k.op = "edit" /\ MayRetry(k) /\ Proceed(c, r) /\ UNCHANGED <<store, reviews>>
  BY DEF RetryEdit
<1>2. k \in EditCall
  BY <1>1, CallKind DEF TypeInv, TypeOK
<1>3. k.doc \in Docs /\ Held(k.doc) /\ k.att \in 1..MaxAttempts
  BY <1>1, <1>2 DEF EditCall, TypeInv, CallsHeld, CallHeld, Held
<1>4. StateOf(doc[k.doc]) \in DocumentState
  BY <1>3, HeldType DEF TypeInv
<1>5. k.att + 1 \in 1..MaxAttempts
  BY <1>1, <1>3, BoundAssumption DEF MayRetry
<1>6. r \in EditCall /\ r.op = "edit" /\ r.doc = k.doc
  BY <1>2, <1>4, <1>5 DEF EditCall
<1>7. r \in Call
  BY <1>6 DEF Call
<1>8. TypeOK' /\ \A d \in Docs : doc[d].rows # <<>> => doc'[d].rows # <<>>
  BY <1>1, <1>7, ProceedType, QuietType DEF TypeInv
<1>9. CallHeld(r, doc')
  BY <1>3, <1>6, <1>8 DEF CallHeld, Held
<1> QED
  BY <1>1, <1>8, <1>9, HeldStays DEF TypeInv, Proceed

\* A write keeps the documents typed and takes none away.
LEMMA WriteType ==
  ASSUME TypeInv, NEW d \in Docs, NEW w \in Write, NEW causes \in SUBSET Sources,
         NEW mode, Held(d),
         doc' = [doc EXCEPT ![d] = Saved(doc[d], w, causes, mode)]
  PROVE  /\ doc' \in [Docs -> Document]
         /\ \A e \in Docs : doc[e].rows # <<>> => doc'[e].rows # <<>>
<1>1. doc[d] \in Document /\ doc[d].rows # <<>>
  BY DEF TypeInv, TypeOK, Held
<1>2. /\ Saved(doc[d], w, causes, mode) \in Document
      /\ Saved(doc[d], w, causes, mode).rows # <<>>
  BY <1>1, SavedType
<1> QED
  BY <1>2 DEF TypeInv, TypeOK

\* A keyed change without effect commits its request.
LEMMA SaveNoChangeType ==
  ASSUME TypeInv, NEW c \in Calls, SaveNoChange(c)
  PROVE  TypeInv'
<1> DEFINE k == call[c]
<1>1. /\ k.op = "edit" /\ requests' = Recorded(k, k.base) /\ End(c)
      /\ UNCHANGED <<doc, anchor, approvals, supports, reviews>>
  BY DEF SaveNoChange, Commits
<1>2. k \in EditCall
  BY <1>1, CallKind DEF TypeInv, TypeOK
<1>3. requests' \subseteq Request
  BY <1>1, <1>2, RecordedType DEF TypeInv, EditCall
<1>4. TypeOK'
  BY <1>1, <1>3, EndType DEF TypeInv, TypeOK, reviews
<1> QED
  BY <1>1, <1>4, HeldAtEnd DEF TypeInv

\* A change commits its rows, its source and its request.
LEMMA SaveEditType ==
  ASSUME TypeInv, NEW c \in Calls, SaveEdit(c)
  PROVE  TypeInv'
<1> DEFINE k == call[c]
           w == k.write
           mode == LandsAs(k.doc, w)
<1>1. /\ k.op = "edit" /\ w # None
      /\ requests' = Recorded(k, k.base) /\ End(c)
      /\ UNCHANGED <<anchor, approvals, reviews>>
  BY DEF SaveEdit, Commits
<1>2. PICK cap \in Captures(w.capture) :
        /\ doc' = [doc EXCEPT ![k.doc] =
                      Saved(doc[k.doc], w, w.causes \cup cap, mode)]
        /\ supports' = Filing(cap, {k.doc})
  BY DEF SaveEdit
<1>3. k \in EditCall
  BY <1>1, CallKind DEF TypeInv, TypeOK
<1>4. k.doc \in Docs /\ w \in Write /\ Held(k.doc) /\ k.base \in Nat \cup {None}
  BY <1>1, <1>3 DEF EditCall, TypeInv, CallsHeld, CallHeld, Held
<1>5. cap \in SUBSET Sources /\ w.causes \cup cap \in SUBSET Sources
  BY <1>2, <1>4, CapturesType DEF Write
<1>6. /\ doc' \in [Docs -> Document]
      /\ \A e \in Docs : doc[e].rows # <<>> => doc'[e].rows # <<>>
  BY <1>2, <1>4, <1>5, WriteType
<1>7. supports' \in [Sources -> (SUBSET Docs) \cup {None}]
  BY <1>2, <1>4, <1>5, FilingType DEF TypeInv
<1>8. requests' \subseteq Request
  BY <1>1, <1>3, <1>4, RecordedType DEF TypeInv
<1>9. TypeOK'
  BY <1>1, <1>6, <1>7, <1>8, EndType DEF TypeInv, TypeOK, reviews
<1> QED
  BY <1>1, <1>6, <1>9, HeldAtEnd DEF TypeInv

\* A create plans a draft that cites what it names and what is owed.
LEMMA BeginCreateType ==
  ASSUME TypeInv, NEW c \in Calls, NEW v \in Viewers, NEW d \in Docs,
         NEW ask \in Asks, BeginCreate(c, v, d, ask)
  PROVE  TypeInv'
<1> DEFINE w == [text |-> [body |-> <<<<v, ask.rid>>>>, title |-> None],
                 status |-> Draft(d), outcome |-> None, seal |-> None,
                 next |-> FALSE, causes |-> ask.named \cup Owed(d),
                 capture |-> ask.capture]
           r == [op |-> "create", by |-> v, doc |-> d, ask |-> ask, write |-> w]
<1>1. Begin(c, "create", r) /\ UNCHANGED <<store, reviews>>
  BY DEF BeginCreate
<1>2. ask \in Ask
  BY BoundAssumption
<1>3. [body |-> <<<<v, ask.rid>>>>, title |-> None] \in Text
  <2>1. <<v, ask.rid>> \in Token
    BY <1>2 DEF Ask, Token
  <2>2. <<<<v, ask.rid>>>> \in Seq(Token)
    BY <2>1
  <2> QED
    BY <2>2 DEF Text
<1>4. Draft(d) \in {"none", "draft", "approved"}
  BY DEF Draft
<1>5. ask.named \cup Owed(d) \in SUBSET Sources /\ ask.capture \in BOOLEAN
  BY <1>2, OwedType DEF Ask
<1>6. w \in Write
  BY <1>3, <1>4, <1>5 DEF Write, Outcome, Signer
<1> HIDE DEF w
<1>7. r \in CreateCall
  BY <1>2, <1>6 DEF CreateCall
<1>8. r \in Call /\ "create" \in Ops
  BY <1>7 DEF Call, Ops
<1>9. CallHeld(r, doc')
  BY DEF CallHeld
<1> HIDE DEF r
<1>10. TypeOK' /\ \A e \in Docs : doc[e].rows # <<>> => doc'[e].rows # <<>>
  BY <1>1, <1>8, BeginType, QuietType DEF TypeInv
<1> QED
  BY <1>1, <1>9, <1>10, HeldStays DEF TypeInv, Begin

\* A create commits the document, its source and its request.
LEMMA SaveCreateType ==
  ASSUME TypeInv, NEW c \in Calls, SaveCreate(c)
  PROVE  TypeInv'
<1> DEFINE k == call[c]
<1>1. /\ k.op = "create" /\ ~Held(k.doc)
      /\ requests' = Recorded(k, None) /\ End(c)
      /\ UNCHANGED <<anchor, approvals, reviews>>
  BY DEF SaveCreate
<1>2. PICK cap \in Captures(k.write.capture) :
        /\ doc' = [doc EXCEPT ![k.doc] = Created(k.write, k.write.causes \cup cap)]
        /\ supports' = Filing(cap, {k.doc})
  BY DEF SaveCreate
<1>3. k \in CreateCall
  BY <1>1, CallKind DEF TypeInv, TypeOK
<1>4. k.doc \in Docs /\ k.write \in Write
  BY <1>3 DEF CreateCall
<1>5. cap \in SUBSET Sources /\ k.write.causes \cup cap \in SUBSET Sources
  BY <1>2, <1>4, CapturesType DEF Write
<1>6. Created(k.write, k.write.causes \cup cap) \in Document
  BY <1>4, <1>5, CreatedType
<1>7. doc' \in [Docs -> Document]
  BY <1>2, <1>6 DEF TypeInv, TypeOK
<1>8. \A e \in Docs : doc[e].rows # <<>> => doc'[e].rows # <<>>
  BY <1>1, <1>2 DEF TypeInv, TypeOK, Held
<1>9. supports' \in [Sources -> (SUBSET Docs) \cup {None}]
  BY <1>2, <1>4, <1>5, FilingType DEF TypeInv
<1>10. requests' \subseteq Request
  BY <1>1, <1>3, RecordedType DEF TypeInv
<1>11. TypeOK'
  BY <1>1, <1>7, <1>9, <1>10, EndType DEF TypeInv, TypeOK, reviews
<1> QED
  BY <1>1, <1>8, <1>11, HeldAtEnd DEF TypeInv

\* Source material is filed.
LEMMA AddSourceType ==
  ASSUME TypeInv, NEW s \in Sources, NEW D \in SUBSET Docs, AddSource(s, D)
  PROVE  TypeInv'
<1>1. left["source"] \in Nat /\ left["source"] > 0 /\ left["source"] - 1 \in Nat
  <2>1. left["source"] \in Nat /\ left["source"] > 0
    BY DEF AddSource, TypeInv, TypeOK, Ops
  <2> QED
    BY <2>1
<1>2. left' \in [Ops -> Nat]
  BY <1>1 DEF AddSource, TypeInv, TypeOK
<1>3. supports' \in [Sources -> (SUBSET Docs) \cup {None}]
  BY FilingType DEF AddSource, TypeInv
<1>4. TypeOK'
  BY <1>2, <1>3 DEF AddSource, TypeInv, TypeOK, reviews
<1> QED
  BY <1>4 DEF AddSource, TypeInv, CallsHeld, CallHeld

\* A presentation of a document that is there takes a slot.
LEMMA ShowingType ==
  ASSUME TypeInv, NEW c \in Calls, NEW d \in Docs, Held(d),
         NEW page \in Page, page.doc = d, Showing(c, d, page),
         minted' \in 0..MaxContexts
  PROVE  TypeInv'
<1> DEFINE r == [op |-> "present", page |-> page, rev |-> Len(doc[d].rows),
                 current |-> page.target = Now(doc[d])]
<1>1. Begin(c, "present", r) /\ UNCHANGED <<store, pages, covered, open>>
  BY DEF Showing
<1>2. Len(doc[d].rows) \in Nat
  BY CurrentType DEF TypeInv, TypeOK, Held
<1>3. (page.target = Now(doc[d])) \in BOOLEAN
  OBVIOUS
<1>4. r \in PresentCall
  BY <1>2, <1>3 DEF PresentCall
<1>5. r \in Call /\ "present" \in Ops
  BY <1>4 DEF Call, Ops
<1>6. r.op = "present" /\ r.page = page
  OBVIOUS
<1> HIDE DEF r
<1>7. TypeOK'
  BY <1>1, <1>5, BeginType DEF TypeInv, TypeOK, store
<1>8. doc' = doc
  BY <1>1 DEF store
<1>9. CallHeld(r, doc')
  BY <1>6, <1>8 DEF CallHeld, Held
<1> QED
  BY <1>1, <1>7, <1>8, <1>9, HeldStays DEF TypeInv, Begin

\* The parts a page spans are parts of the text.
LEMMA SpansType == Spans \subseteq SUBSET (1..Parts)
<1> SUFFICES ASSUME NEW a \in 1..Parts, NEW b \in 1..Parts PROVE a..b \subseteq 1..Parts
  BY DEF Spans
<1> QED
  BY BoundAssumption

\* A context covers generations; its baseline is one of them.
LEMMA BaselineType ==
  ASSUME TypeOK, NEW x \in 1..MaxContexts, covered[x] # <<>>
  PROVE  /\ Baseline(x) \in Nat
         /\ Len(covered[x]) \in 1..Len(covered[x])
         /\ \A i \in 1..Len(covered[x]) : covered[x][i] \in Nat
<1>1. covered[x] \in Seq(Nat)
  BY DEF TypeOK
<1>2. Len(covered[x]) \in Nat /\ Len(covered[x]) # 0
  BY <1>1
<1> QED
  BY <1>1, <1>2 DEF Baseline

\* Each way of presenting serves a page.
LEMMA BeginPresentType ==
  ASSUME TypeInv, NEW c \in Calls, NEW v \in Viewers, NEW d \in Docs,
         NEW span \in Spans, BeginPresent(c, v, d, span)
  PROVE  TypeInv'
<1>1. span \in SUBSET (1..Parts)
  BY SpansType
<1>2. minted \in 0..MaxContexts /\ MaxContexts \in Nat
  BY BoundAssumption DEF TypeInv, TypeOK
<1>3. Held(d) => Now(doc[d]) \in Nat /\ Retained(doc[d], Now(doc[d])) # {}
  BY HeldType, NowRetained DEF TypeInv, Held
<1>4. CASE PresentFresh(c, v, d, span)
  <2>1. minted + 1 \in 0..MaxContexts
    BY <1>2, <1>4 DEF PresentFresh
  <2>2. FullPage(minted + 1, v, d, Now(doc[d]), span) \in Page
    BY <1>1, <1>3, <1>4, <2>1, FullPageType DEF PresentFresh, TypeInv
  <2> QED
    BY <1>4, <2>1, <2>2, ShowingType DEF PresentFresh, FullPage
<1>5. ASSUME NEW x \in 1..minted, PresentWhole(c, v, d, x, span)
      PROVE  TypeInv'
  <2>1. FullPage(x, v, d, Now(doc[d]), span) \in Page
    BY <1>1, <1>2, <1>3, <1>5, FullPageType DEF PresentWhole, TypeInv
  <2> QED
    BY <1>2, <1>5, <2>1, ShowingType DEF PresentWhole, FullPage
<1>6. ASSUME NEW x \in 1..minted, PresentDelta(c, v, d, x, span)
      PROVE  TypeInv'
  <2> DEFINE shown == IF Baseline(x) = Now(doc[d]) THEN {} ELSE span
  <2>1. /\ Held(d) /\ covered[x] # <<>> /\ Retained(doc[d], Baseline(x)) # {}
        /\ Showing(c, d, DeltaPage(x, v, d, Baseline(x), Now(doc[d]), shown))
        /\ UNCHANGED minted
    BY <1>6 DEF PresentDelta
  <2>2. Baseline(x) \in Nat
    BY <1>2, <2>1, BaselineType DEF TypeInv
  <2>3. shown \in SUBSET (1..Parts)
    BY <1>1
  <2> HIDE DEF shown
  <2>4. DeltaPage(x, v, d, Baseline(x), Now(doc[d]), shown) \in Page
    BY <1>2, <1>3, <2>1, <2>2, <2>3, DeltaPageType DEF TypeInv
  <2> QED
    BY <1>2, <2>1, <2>4, ShowingType DEF DeltaPage
<1>7. ASSUME NEW x \in 1..minted, PresentOn(c, v, d, x, span)
      PROVE  TypeInv'
  <2> DEFINE p == open[x]
  <2>1. p \in Page
    BY <1>2, <1>7 DEF PresentOn, Own, TypeInv, TypeOK
  <2>2. p.target \in Nat /\ p.base \in Nat \cup {None} /\ p.kind \in {"full", "delta"}
    BY <2>1 DEF Page
  <2>3. Held(d) /\ Retained(doc[d], p.target) # {} /\ UNCHANGED minted
    BY <1>7 DEF PresentOn
  <2>4. CASE p.kind = "full"
    <3>1. FullPage(x, v, d, p.target, span) \in Page
      BY <1>1, <1>2, <2>2, <2>3, FullPageType DEF TypeInv
    <3>2. Showing(c, d, FullPage(x, v, d, p.target, span))
      BY <1>7, <2>4 DEF PresentOn
    <3> QED
      BY <1>2, <2>3, <3>1, <3>2, ShowingType DEF FullPage
  <2>5. CASE p.kind # "full"
    <3>1. /\ Retained(doc[d], p.base) # {}
          /\ Showing(c, d, DeltaPage(x, v, d, p.base, p.target, span))
      BY <1>7, <2>2, <2>5 DEF PresentOn
    <3>2. p.base \in Nat
      <4>1. PICK i \in 1..Len(doc[d].rows) : GenOf(doc[d], i) = p.base
        BY <3>1 DEF Retained
      <4> QED
        BY <4>1, RowType DEF TypeInv, TypeOK
    <3>3. x \in 0..MaxContexts
      BY <1>2
    <3> HIDE DEF p
    <3>4. DeltaPage(x, v, d, p.base, p.target, span) \in Page
      BY <1>1, <2>2, <2>3, <3>1, <3>2, <3>3, DeltaPageType DEF TypeInv
    <3> QED
      BY <1>2, <2>3, <3>1, <3>4, ShowingType DEF DeltaPage
  <2> QED
    BY <2>4, <2>5
<1>8. CASE PresentRead(c, v, d, span)
  <2>1. FullPage(0, v, d, Now(doc[d]), span) \in Page
    BY <1>1, <1>2, <1>3, <1>8, FullPageType DEF PresentRead, TypeInv
  <2> QED
    BY <1>2, <1>8, <2>1, ShowingType DEF PresentRead, FullPage
<1> QED
  BY <1>4, <1>5, <1>6, <1>7, <1>8 DEF BeginPresent

\* The page a call records is of a document that is there.
LEMMA PresentCallType ==
  ASSUME TypeInv, NEW c \in Calls, call[c].op = "present"
  PROVE  LET k == call[c]
         IN /\ k \in PresentCall /\ k.page \in Page /\ k.rev \in Nat
            /\ k.current \in BOOLEAN /\ k.page.doc \in Docs
            /\ k.page.ctx \in 0..MaxContexts /\ k.page.target \in Nat
            /\ doc[k.page.doc] \in Document /\ Held(k.page.doc)
<1>1. call[c] \in PresentCall
  BY CallKind DEF TypeInv, TypeOK
<1>2. call[c].page \in Page
  BY <1>1 DEF PresentCall
<1>3. CallHeld(call[c], doc)
  BY DEF TypeInv, CallsHeld
<1> QED
  BY <1>1, <1>2, <1>3 DEF PresentCall, Page, CallHeld, Held, TypeInv, TypeOK

\* The row a page of the current snapshot is recorded on: the last one.
LEMMA SavePresentRow ==
  ASSUME TypeInv, NEW c \in Calls, SavePresent(c), call[c].current
  PROVE  LET k == call[c]
             x == doc[k.page.doc]
         IN /\ k.rev \in 1..Len(x.rows) /\ k.rev = Len(x.rows)
            /\ GenOf(x, k.rev) = k.page.target
            /\ x.rows[k.rev] \in Row
            /\ GenOf(x, k.rev) \in Nat
<1>1. call[c].op = "present"
  BY DEF SavePresent
<1>2. doc[call[c].page.doc] \in Document /\ doc[call[c].page.doc].rows # <<>>
  BY <1>1, PresentCallType DEF Held
<1>3. StillHeld(call[c])
  BY DEF SavePresent
<1> QED
  BY <1>2, <1>3, CurrentType, RowType DEF StillHeld

\* A recorded page leaves every document a document.
LEMMA SavePresentDoc ==
  ASSUME TypeInv, NEW c \in Calls, SavePresent(c)
  PROVE  /\ doc' \in [Docs -> Document]
         /\ \A e \in Docs : doc[e].rows # <<>> => doc'[e].rows # <<>>
<1> DEFINE k == call[c]
           p == k.page
           x == doc[p.doc]
           done == Completes(p) \/ (p.ctx # 0 /\ Covers(p.ctx, p.target))
           row == [x.rows[k.rev] EXCEPT
                     !.gen = GenOf(x, k.rev),
                     !.presented = x.rows[k.rev].presented \/ done]
<1>1. k.op = "present" /\ (k.current => StillHeld(k))
  BY DEF SavePresent
<1>2. doc' = IF k.current THEN [doc EXCEPT ![p.doc].rows[k.rev] = row] ELSE doc
  BY DEF SavePresent
<1>3. CASE ~k.current
  BY <1>2, <1>3 DEF TypeInv, TypeOK
<1>4. CASE k.current
  <2>1. /\ k.rev \in 1..Len(x.rows) /\ x.rows[k.rev] \in Row
        /\ GenOf(x, k.rev) \in Nat
    BY <1>4, SavePresentRow
  <2>2. x \in Document /\ x.rows \in Seq(Row) /\ p.doc \in Docs /\ x.rows # <<>>
    BY <1>1, PresentCallType DEF Document, Held
  <2>3. (x.rows[k.rev].presented \/ done) \in BOOLEAN
    BY <2>1 DEF Row
  <2> HIDE DEF done
  <2>4. row \in Row
    BY <2>1, <2>3 DEF Row
  <2> HIDE DEF row
  <2> DEFINE rows == [x.rows EXCEPT ![k.rev] = row]
  <2>5. rows \in Seq(Row) /\ rows # <<>>
    BY <2>1, <2>2, <2>4
  <2>6. doc' = [doc EXCEPT ![p.doc] = [x EXCEPT !.rows = rows]]
    BY <1>2, <1>4, <2>2 DEF TypeInv, TypeOK
  <2> HIDE DEF rows, x, p
  <2>7. [x EXCEPT !.rows = rows] \in Document
        /\ [x EXCEPT !.rows = rows].rows # <<>>
    BY <2>2, <2>5 DEF Document
  <2> QED
    BY <2>2, <2>6, <2>7 DEF TypeInv, TypeOK
<1> QED
  BY <1>3, <1>4

\* A recorded page is typed, and so are the contexts it is kept in.
LEMMA SavePresentType ==
  ASSUME TypeInv, NEW c \in Calls, SavePresent(c)
  PROVE  TypeInv'
<1> DEFINE p == call[c].page
<1>1. /\ call[c].op = "present"
      /\ pages' = pages \cup {p}
      /\ open' = IF p.ctx = 0 THEN open ELSE [open EXCEPT ![p.ctx] = p]
      /\ covered' = IF Completes(p) /\ ~Covers(p.ctx, p.target)
                     THEN [covered EXCEPT ![p.ctx] = Append(covered[p.ctx], p.target)]
                     ELSE covered
      /\ End(c)
      /\ UNCHANGED <<anchor, approvals, requests, supports, minted>>
  BY DEF SavePresent
<1>2. p \in Page /\ p.ctx \in 0..MaxContexts /\ p.target \in Nat
  BY <1>1, PresentCallType
<1>3. /\ doc' \in [Docs -> Document]
      /\ \A e \in Docs : doc[e].rows # <<>> => doc'[e].rows # <<>>
  BY SavePresentDoc
<1>4. pages' \subseteq Page
  BY <1>1, <1>2 DEF TypeInv, TypeOK
<1>5. open' \in [1..MaxContexts -> Page \cup {None}]
  BY <1>1, <1>2 DEF TypeInv, TypeOK
<1>6. covered' \in [1..MaxContexts -> Seq(Nat)]
  <2>1. CASE Completes(p) /\ ~Covers(p.ctx, p.target)
    <3>1. p.ctx \in 1..MaxContexts
      BY <2>1, <1>2, BoundAssumption DEF Completes
    <3>2. Append(covered[p.ctx], p.target) \in Seq(Nat)
      BY <1>2, <3>1 DEF TypeInv, TypeOK
    <3> QED
      BY <1>1, <2>1, <3>2 DEF TypeInv, TypeOK
  <2>2. CASE ~(Completes(p) /\ ~Covers(p.ctx, p.target))
    BY <1>1, <2>2 DEF TypeInv, TypeOK
  <2> QED
    BY <2>1, <2>2
<1>7. TypeOK'
  BY <1>1, <1>3, <1>4, <1>5, <1>6, EndType DEF TypeInv, TypeOK
<1> QED
  BY <1>1, <1>3, <1>7, HeldAtEnd DEF TypeInv

\* document_approve reads the state of a document that is there.
LEMMA BeginApproveType ==
  ASSUME TypeInv, NEW c \in Calls, NEW v \in Viewers, NEW d \in Docs,
         BeginApprove(c, v, d)
  PROVE  TypeInv'
<1> DEFINE r == [op |-> "approve", by |-> v, doc |-> d, st |-> StateOf(doc[d]),
                 ctx |-> 0, write |-> None]
<1>1. Held(d) /\ Begin(c, "approve", r) /\ UNCHANGED <<store, reviews>>
  BY DEF BeginApprove
<1>2. StateOf(doc[d]) \in DocumentState
  BY <1>1, HeldType DEF TypeInv
<1>3. r \in ApproveCall
  BY <1>2, BoundAssumption DEF ApproveCall
<1>4. r \in Call /\ "approve" \in Ops
  BY <1>3 DEF Call, Ops
<1>5. r.op = "approve" /\ r.doc = d
  OBVIOUS
<1> HIDE DEF r
<1>6. TypeOK' /\ \A e \in Docs : doc[e].rows # <<>> => doc'[e].rows # <<>>
  BY <1>1, <1>4, BeginType, QuietType DEF TypeInv
<1>7. CallHeld(r, doc')
  BY <1>1, <1>5, <1>6 DEF CallHeld, Held
<1> QED
  BY <1>1, <1>6, <1>7, HeldStays DEF TypeInv, Begin

\* document_approve plans its seal, on a context.
LEMMA PlanApproveType ==
  ASSUME TypeInv, NEW c \in Calls, NEW x \in 1..MaxContexts, PlanApprove(c, x)
  PROVE  TypeInv'
<1> DEFINE k == call[c]
           r == [k EXCEPT !.ctx = x, !.write = SealOf(k.doc, k.by)]
<1>1. k.op = "approve" /\ Proceed(c, r) /\ UNCHANGED <<store, reviews>>
  BY DEF PlanApprove
<1>2. k \in ApproveCall
  BY <1>1, CallKind DEF TypeInv, TypeOK
<1>3. k.doc \in Docs /\ k.by \in Viewers /\ Held(k.doc)
  BY <1>1, <1>2 DEF ApproveCall, TypeInv, CallsHeld, CallHeld, Held
<1>4. SealOf(k.doc, k.by) \in Write
  BY <1>3, SealOfType DEF TypeInv
<1>5. r \in ApproveCall /\ r.op = "approve" /\ r.doc = k.doc
  <2>1. x \in 0..MaxContexts /\ x # 0
    BY BoundAssumption
  <2> QED
    BY <1>2, <1>4, <2>1 DEF ApproveCall
<1>6. r \in Call
  BY <1>5 DEF Call
<1>7. TypeOK' /\ \A d \in Docs : doc[d].rows # <<>> => doc'[d].rows # <<>>
  BY <1>1, <1>6, ProceedType, QuietType DEF TypeInv
<1>8. CallHeld(r, doc')
  BY <1>3, <1>5, <1>7 DEF CallHeld, Held
<1> QED
  BY <1>1, <1>7, <1>8, HeldStays DEF TypeInv, Proceed

\* A seal commits with its act.
LEMMA SaveApproveType ==
  ASSUME TypeInv, NEW c \in Calls, SaveApprove(c)
  PROVE  TypeInv'
<1> DEFINE k == call[c]
           w == k.write
           mode == LandsAs(k.doc, w)
           a == [doc |-> k.doc, gen |-> k.st.gen, ctx |-> k.ctx, by |-> k.by]
<1>1. /\ k.op = "approve" /\ w # None
      /\ doc' = [doc EXCEPT ![k.doc] = Saved(doc[k.doc], w, {}, mode)]
      /\ approvals' = approvals \cup {a}
      /\ End(c)
      /\ UNCHANGED <<anchor, requests, supports, reviews>>
  BY DEF SaveApprove
<1>2. k \in ApproveCall
  BY <1>1, CallKind DEF TypeInv, TypeOK
<1>3. k.doc \in Docs /\ w \in Write /\ Held(k.doc)
  BY <1>1, <1>2 DEF ApproveCall, TypeInv, CallsHeld, CallHeld, Held
<1>4. /\ doc' \in [Docs -> Document]
      /\ \A e \in Docs : doc[e].rows # <<>> => doc'[e].rows # <<>>
  BY <1>1, <1>3, WriteType
<1>5. a \in Approval
  <2>1. k.ctx \in 1..MaxContexts
    BY <1>1, <1>2, BoundAssumption DEF ApproveCall
  <2>2. k.st.gen \in Nat
    BY <1>2 DEF ApproveCall, DocumentState
  <2> QED
    BY <1>2, <2>1, <2>2 DEF ApproveCall, Approval
<1>6. TypeOK'
  BY <1>1, <1>4, <1>5, EndType DEF TypeInv, TypeOK, reviews
<1> QED
  BY <1>1, <1>4, <1>6, HeldAtEnd DEF TypeInv

\* initiative_close reads the state of the document it lands on.
LEMMA BeginCloseType ==
  ASSUME TypeInv, NEW c \in Calls, NEW v \in Viewers, NEW d \in Docs,
         NEW to \in Dispositions, BeginClose(c, v, d, to)
  PROVE  TypeInv'
<1> DEFINE r == [op |-> "close", by |-> v, doc |-> d, to |-> to, att |-> 1,
                 st |-> StateOf(doc[d]), write |-> None]
<1>1. Held(d) /\ Begin(c, "close", r) /\ UNCHANGED <<store, reviews>>
  BY DEF BeginClose, LandsOn
<1>2. StateOf(doc[d]) \in DocumentState
  BY <1>1, HeldType DEF TypeInv
<1>3. r \in CloseCall
  BY <1>2 DEF CloseCall
<1>4. r \in Call /\ "close" \in Ops
  BY <1>3 DEF Call, Ops
<1>5. r.op = "close" /\ r.doc = d
  OBVIOUS
<1> HIDE DEF r
<1>6. TypeOK' /\ \A e \in Docs : doc[e].rows # <<>> => doc'[e].rows # <<>>
  BY <1>1, <1>4, BeginType, QuietType DEF TypeInv
<1>7. CallHeld(r, doc')
  BY <1>1, <1>5, <1>6 DEF CallHeld, Held
<1> QED
  BY <1>1, <1>6, <1>7, HeldStays DEF TypeInv, Begin

\* initiative_close plans its write, or reads the state anew once.
LEMMA PlanCloseType ==
  ASSUME TypeInv, NEW c \in Calls, PlanClose(c) \/ RetryClose(c)
  PROVE  TypeInv'
<1> DEFINE k == call[c]
           planned == [k EXCEPT !.write = CloseOf(k.doc, k.to)]
           again == [k EXCEPT !.att = k.att + 1, !.st = StateOf(doc[k.doc]),
                              !.write = None]
<1>1. /\ k.op = "close" /\ UNCHANGED <<store, reviews>>
      /\ Proceed(c, planned) \/ (k.att < 2 /\ Proceed(c, again))
  BY DEF PlanClose, RetryClose
<1>2. k \in CloseCall
  BY <1>1, CallKind DEF TypeInv, TypeOK
<1>3. k.doc \in Docs /\ k.to \in Dispositions /\ k.att \in 1..2 /\ Held(k.doc)
  BY <1>1, <1>2 DEF CloseCall, TypeInv, CallsHeld, CallHeld, Held
<1>4. CloseOf(k.doc, k.to) \in Write /\ StateOf(doc[k.doc]) \in DocumentState
  BY <1>3, CloseOfType, HeldType DEF TypeInv
<1>5. planned \in CloseCall /\ planned.op = "close" /\ planned.doc = k.doc
  BY <1>2, <1>4 DEF CloseCall
<1>6. ASSUME k.att < 2
      PROVE  again \in CloseCall /\ again.op = "close" /\ again.doc = k.doc
  <2>1. k.att + 1 \in 1..2
    BY <1>3, <1>6
  <2> QED
    BY <1>2, <1>4, <2>1 DEF CloseCall
<1> HIDE DEF planned, again
<1>7. PICK r \in CloseCall : Proceed(c, r) /\ r.op = "close" /\ r.doc = k.doc
  BY <1>1, <1>5, <1>6
<1>8. TypeOK' /\ \A d \in Docs : doc[d].rows # <<>> => doc'[d].rows # <<>>
  BY <1>1, <1>7, ProceedType, QuietType DEF TypeInv, Call
<1>9. CallHeld(r, doc')
  BY <1>3, <1>7, <1>8 DEF CallHeld, Held
<1> QED
  BY <1>7, <1>8, <1>9, HeldStays DEF TypeInv, Proceed

\* A close commits the document and the anchor row.
LEMMA SaveCloseType ==
  ASSUME TypeInv, NEW c \in Calls, SaveClose(c)
  PROVE  TypeInv'
<1> DEFINE k == call[c]
           w == k.write
           mode == LandsAs(k.doc, w)
<1>1. /\ k.op = "close" /\ w # None
      /\ doc' = [doc EXCEPT ![k.doc] = Saved(doc[k.doc], w, {}, mode)]
      /\ anchor' = k.to
      /\ End(c)
      /\ UNCHANGED <<approvals, requests, supports, reviews>>
  BY DEF SaveClose
<1>2. k \in CloseCall
  BY <1>1, CallKind DEF TypeInv, TypeOK
<1>3. k.doc \in Docs /\ w \in Write /\ k.to \in Dispositions /\ Held(k.doc)
  BY <1>1, <1>2 DEF CloseCall, TypeInv, CallsHeld, CallHeld, Held
<1>4. /\ doc' \in [Docs -> Document]
      /\ \A e \in Docs : doc[e].rows # <<>> => doc'[e].rows # <<>>
  BY <1>1, <1>3, WriteType
<1>5. TypeOK'
  BY <1>1, <1>3, <1>4, EndType DEF TypeInv, TypeOK, reviews, Outcome
<1> QED
  BY <1>1, <1>4, <1>5, HeldAtEnd DEF TypeInv

\* An initiative without documents is abandoned on its anchor row.
LEMMA AbandonType ==
  ASSUME TypeInv, NEW c \in Calls, BeginAbandon(c) \/ SaveAbandon(c)
  PROVE  TypeInv'
<1>1. CASE BeginAbandon(c)
  <2> DEFINE r == [op |-> "abandon"]
  <2>1. Begin(c, "close", r) /\ UNCHANGED <<store, reviews>>
    BY <1>1 DEF BeginAbandon
  <2>2. r \in Call /\ "close" \in Ops
    BY DEF Call, AbandonCall, Ops
  <2>3. CallHeld(r, doc')
    BY DEF CallHeld
  <2>4. TypeOK' /\ \A e \in Docs : doc[e].rows # <<>> => doc'[e].rows # <<>>
    BY <2>1, <2>2, BeginType, QuietType DEF TypeInv
  <2> QED
    BY <2>1, <2>3, <2>4, HeldStays DEF TypeInv, Begin
<1>2. CASE SaveAbandon(c)
  <2>1. /\ anchor' = "abandoned" /\ End(c)
        /\ UNCHANGED <<doc, approvals, requests, supports, reviews>>
    BY <1>2 DEF SaveAbandon
  <2>2. TypeOK'
    BY <2>1, EndType DEF TypeInv, TypeOK, reviews, Outcome, Dispositions
  <2> QED
    BY <2>1, <2>2, HeldAtEnd DEF TypeInv
<1> QED
  BY <1>1, <1>2

\* The system starts typed, with no call in flight.
LEMMA InitType == Init => TypeInv
<1> SUFFICES ASSUME Init PROVE TypeInv
  OBVIOUS
<1>1. PICK f \in [Docs -> Standings] : doc = [d \in Docs |-> Born(d, f[d])]
  BY DEF Init
<1>2. ASSUME NEW d \in Docs, NEW s \in Standings
      PROVE  Born(d, s) \in Document
  <2> DEFINE r == [text |-> [body |-> <<>>, title |-> None], gen |-> None,
                   version |-> 1, cites |-> {}, sealed |-> None,
                   presented |-> FALSE, outcome |-> None]
             rows == IF s = "absent" THEN <<>> ELSE <<r>>
             status == CASE s = "absent" -> "none" [] s = "draft" -> Draft(d)
                         [] s = "signed" -> "approved"
  <2>1. r \in Row
    BY DEF Row, Text, Signer, Outcome
  <2> HIDE DEF r
  <2>2. rows \in Seq(Row)
    BY <2>1
  <2>3. status \in {"none", "draft", "approved"}
    BY DEF Standings, Draft
  <2> HIDE DEF rows, status
  <2>4. Born(d, s) = [gen |-> 0, stamp |-> 0, status |-> status,
                      approved |-> IF s = "signed" THEN 1 ELSE 0, rows |-> rows]
    BY DEF Born, rows, status, r
  <2> QED
    BY <2>2, <2>3, <2>4 DEF Document
<1>3. doc \in [Docs -> Document]
  BY <1>1, <1>2
<1>4. call \in [Calls -> Call] /\ \A c \in Calls : call[c] = Idle
  BY DEF Init, Call
<1>5. TypeOK
  <2>1. <<>> \in Seq(Nat)
    OBVIOUS
  <2>2. covered \in [1..MaxContexts -> Seq(Nat)]
    BY <2>1 DEF Init
  <2>3. open \in [1..MaxContexts -> Page \cup {None}]
    BY DEF Init
  <2>4. supports \in [Sources -> (SUBSET Docs) \cup {None}]
    BY DEF Init
  <2>5. minted \in 0..MaxContexts /\ left \in [Ops -> Nat]
    BY BoundAssumption DEF Init
  <2>6. anchor \in Outcome /\ pages \subseteq Page /\ approvals \subseteq Approval
        /\ requests \subseteq Request
    BY DEF Init, Outcome
  <2> QED
    BY <1>3, <1>4, <2>2, <2>3, <2>4, <2>5, <2>6 DEF TypeOK
<1>6. CallsHeld
  BY <1>4 DEF CallsHeld, CallHeld, Idle
<1> QED
  BY <1>5, <1>6 DEF TypeInv

\* Every step keeps them.
LEMMA NextType == TypeInv /\ [Next]_vars => TypeInv'
<1> SUFFICES ASSUME TypeInv, [Next]_vars PROVE TypeInv'
  OBVIOUS
<1>1. CASE UNCHANGED vars
  BY <1>1 DEF vars, TypeInv, TypeOK, CallsHeld, CallHeld
<1>2. ASSUME NEW c \in Calls, Edit(c) PROVE TypeInv'
  <2>1. ASSUME NEW v \in Viewers, NEW d \in Docs, NEW ask \in Asks,
               NEW base \in IF ask.based THEN 0..doc[d].gen ELSE {None},
               BeginEdit(c, v, d, ask, base)
        PROVE  TypeInv'
    <3>1. doc[d].gen \in Nat
      BY DEF TypeInv, TypeOK, Document
    <3>2. base \in Nat \cup {None}
      BY <3>1
    <3> QED
      BY <2>1, <3>2, BeginEditType
  <2> QED
    BY <1>2, <2>1, PlanEditType, RetryEditType, SaveNoChangeType, SaveEditType
       DEF Edit
<1>3. ASSUME NEW c \in Calls, Create(c) PROVE TypeInv'
  BY <1>3, BeginCreateType, SaveCreateType DEF Create
<1>4. ASSUME NEW c \in Calls, Present(c) PROVE TypeInv'
  BY <1>4, BeginPresentType, SavePresentType DEF Present
<1>5. ASSUME NEW c \in Calls, Approve(c) PROVE TypeInv'
  BY <1>5, BeginApproveType, PlanApproveType, SaveApproveType DEF Approve
<1>6. ASSUME NEW c \in Calls, Close(c) PROVE TypeInv'
  BY <1>6, BeginCloseType, PlanCloseType, SaveCloseType, AbandonType DEF Close
<1> QED
  BY <1>1, <1>2, <1>3, <1>4, <1>5, <1>6, GiveUpType, AddSourceType DEF Next

\* Every reachable state has the types the store declares, and every call in
\* flight works on a document that is there.
THEOREM TypeInvariant == Spec => []TypeInv
BY InitType, NextType, PTL DEF Spec

\* The type invariant, for any number of documents, viewers, calls and bounds.
THEOREM TypeCorrect == Spec => []TypeOK
<1>1. TypeInv => TypeOK
  BY DEF TypeInv
<1> QED
  BY <1>1, TypeInvariant, PTL

----------------------------------------------------------------------------
(***************************************************************************)
(* What the rows of a document keep, whatever is written to it: a seal is  *)
(* on the current row, generations ascend, and a row somebody relied on    *)
(* stands.  Every step changes a document in one of three ways, so each    *)
(* theorem is about those three, never about the calls that interleave.    *)
(***************************************************************************)

\* The row a presentation is recorded on: stamped with its generation and,
\* once the snapshot was shown in full, presented.
Marked(x, done) ==
  LET n == Len(x.rows)
  IN [x EXCEPT !.rows = [x.rows EXCEPT ![n] =
        [x.rows[n] EXCEPT !.gen = GenOf(x, n),
                          !.presented = x.rows[n].presented \/ done]]]

\* How a step may change document d, and nothing else of any document.
Written(d) ==
  \E w \in Write, causes \in SUBSET Sources :
    LET mode == LandsAs(d, w)
    IN /\ Held(d)
       /\ doc' = [doc EXCEPT ![d] = Saved(doc[d], w, causes, mode)]
       /\ Admitted(doc[d], w, mode)
       /\ mode # "rewrite" => w.text # Current(doc[d]).text
       /\ UNCHANGED reviews

Drafted(d) ==
  \E w \in Write, causes \in SUBSET Sources :
    /\ ~Held(d)
    /\ doc' = [doc EXCEPT ![d] = Created(w, causes)]
    /\ w.status # "approved"
    /\ UNCHANGED reviews

Recalled(d) ==
  \E done \in BOOLEAN :
    /\ Held(d)
    /\ doc' = [doc EXCEPT ![d] = Marked(doc[d], done)]

----------------------------------------------------------------------------
(* What the writes in flight carry.                                        *)

\* A create plans a draft; a seal and a close plan no new version.
CallPlan(k) ==
  /\ k.op = "create" => k.write.status # "approved"
  /\ k.op \in {"approve", "close"} => (k.write # None => ~k.write.next)
  /\ k.op = "approve" => (k.write # None => k.write.status = "approved")

CallPlans == \A c \in Calls : CallPlan(call[c])

RowsInv == TypeInv /\ CallPlans

\* Filling one slot with a well planned call keeps them so.
LEMMA PlansStay ==
  ASSUME RowsInv, NEW c \in Calls, NEW r, CallPlan(r),
         call' = [call EXCEPT ![c] = r]
  PROVE  CallPlans'
BY DEF RowsInv, TypeInv, TypeOK, CallPlans

\* A call that ends carries no write.
LEMMA PlansAtEnd ==
  ASSUME RowsInv, NEW c \in Calls, End(c)
  PROVE  CallPlans'
<1>1. CallPlan(Idle)
  BY DEF CallPlan, Idle
<1> QED
  BY <1>1, PlansStay DEF End, Proceed

\* Every step plans well.
LEMMA PlansType == RowsInv /\ [Next]_vars => CallPlans'
<1> SUFFICES ASSUME RowsInv, [Next]_vars PROVE CallPlans'
  OBVIOUS
<1>1. CASE UNCHANGED vars
  BY <1>1 DEF vars, RowsInv, CallPlans
<1>2. ASSUME NEW c \in Calls, Edit(c) PROVE CallPlans'
  <2>1. ASSUME NEW v, NEW d, NEW ask, NEW base, BeginEdit(c, v, d, ask, base)
        PROVE  CallPlans'
    BY <2>1, PlansStay DEF BeginEdit, Begin, CallPlan
  <2>2. call[c] \in Call
    BY DEF RowsInv, TypeInv, TypeOK
  <2>3. CASE PlanEdit(c)
    <3> DEFINE r == [call[c] EXCEPT !.write =
                       EditOf(call[c].doc, call[c].ask, call[c].by)]
    <3>1. call[c].op = "edit" /\ (End(c) \/ call' = [call EXCEPT ![c] = r])
      BY <2>3 DEF PlanEdit, Proceed
    <3>2. r.op = "edit"
      BY <2>2, <3>1, CallKind DEF EditCall
    <3> QED
      BY <3>1, <3>2, PlansStay, PlansAtEnd DEF CallPlan
  <2>4. CASE RetryEdit(c)
    <3> DEFINE r == [call[c] EXCEPT !.att = call[c].att + 1,
                       !.st = StateOf(doc[call[c].doc]), !.write = None]
    <3>1. call[c].op = "edit" /\ call' = [call EXCEPT ![c] = r]
      BY <2>4 DEF RetryEdit, Proceed
    <3>2. r.op = "edit"
      BY <2>2, <3>1, CallKind DEF EditCall
    <3> QED
      BY <3>1, <3>2, PlansStay DEF CallPlan
  <2> QED
    BY <1>2, <2>1, <2>3, <2>4, PlansAtEnd DEF Edit, SaveNoChange, SaveEdit
<1>3. ASSUME NEW c \in Calls, Create(c) PROVE CallPlans'
  <2>1. ASSUME NEW v, NEW d, NEW ask, BeginCreate(c, v, d, ask)
        PROVE  CallPlans'
    <3>1. Draft(d) # "approved"
      BY DEF Draft
    <3> QED
      BY <2>1, <3>1, PlansStay DEF BeginCreate, Begin, CallPlan
  <2> QED
    BY <1>3, <2>1, PlansAtEnd DEF Create, SaveCreate
<1>4. ASSUME NEW c \in Calls, Present(c) PROVE CallPlans'
  <2>1. ASSUME NEW d, NEW page, Showing(c, d, page)
        PROVE  CallPlans'
    <3> DEFINE r == [op |-> "present", page |-> page, rev |-> Len(doc[d].rows),
                     current |-> page.target = Now(doc[d])]
    <3>1. call' = [call EXCEPT ![c] = r]
      BY <2>1 DEF Showing, Begin
    <3>2. r.op = "present"
      OBVIOUS
    <3> HIDE DEF r
    <3> QED
      BY <3>1, <3>2, PlansStay DEF CallPlan
  <2>2. ASSUME NEW v, NEW d, NEW span, BeginPresent(c, v, d, span)
        PROVE  \E page : Showing(c, d, page)
    <3>1. CASE PresentFresh(c, v, d, span)
      BY <3>1 DEF PresentFresh
    <3>2. CASE \E x \in 1..minted : PresentWhole(c, v, d, x, span)
      BY <3>2 DEF PresentWhole
    <3>3. CASE \E x \in 1..minted : PresentDelta(c, v, d, x, span)
      BY <3>3 DEF PresentDelta
    <3>4. CASE \E x \in 1..minted : PresentOn(c, v, d, x, span)
      BY <3>4 DEF PresentOn
    <3>5. CASE PresentRead(c, v, d, span)
      BY <3>5 DEF PresentRead
    <3> QED
      BY <2>2, <3>1, <3>2, <3>3, <3>4, <3>5 DEF BeginPresent
  <2>3. ASSUME NEW v, NEW d, NEW span, BeginPresent(c, v, d, span)
        PROVE  CallPlans'
    BY <2>1, <2>2, <2>3
  <2> QED
    BY <1>4, <2>3, PlansAtEnd DEF Present, SavePresent
<1>5. ASSUME NEW c \in Calls, Approve(c) PROVE CallPlans'
  <2>1. ASSUME NEW v, NEW d, BeginApprove(c, v, d) PROVE CallPlans'
    BY <2>1, PlansStay DEF BeginApprove, Begin, CallPlan
  <2>2. ASSUME NEW x, PlanApprove(c, x) PROVE CallPlans'
    <3> DEFINE w == SealOf(call[c].doc, call[c].by)
               r == [call[c] EXCEPT !.ctx = x, !.write = w]
    <3>1. call[c].op = "approve" /\ call' = [call EXCEPT ![c] = r]
      BY <2>2 DEF PlanApprove, Proceed
    <3>2. call[c] \in ApproveCall
      BY <3>1, CallKind DEF RowsInv, TypeInv, TypeOK
    <3>3. r.op = "approve" /\ r.write = w
      BY <3>1, <3>2 DEF ApproveCall
    <3>4. ~w.next /\ w.status = "approved"
      BY DEF SealOf
    <3> QED
      BY <3>1, <3>3, <3>4, PlansStay DEF CallPlan
  <2> QED
    BY <1>5, <2>1, <2>2, PlansAtEnd DEF Approve, SaveApprove
<1>6. ASSUME NEW c \in Calls, Close(c) PROVE CallPlans'
  <2>1. ASSUME NEW v, NEW d, NEW to, BeginClose(c, v, d, to) PROVE CallPlans'
    BY <2>1, PlansStay DEF BeginClose, Begin, CallPlan
  <2>2. CASE PlanClose(c)
    <3> DEFINE w == CloseOf(call[c].doc, call[c].to)
               r == [call[c] EXCEPT !.write = w]
    <3>1. call[c].op = "close" /\ call' = [call EXCEPT ![c] = r]
      BY <2>2 DEF PlanClose, Proceed
    <3>2. call[c] \in CloseCall
      BY <3>1, CallKind DEF RowsInv, TypeInv, TypeOK
    <3>3. r.op = "close" /\ r.write = w
      BY <3>1, <3>2 DEF CloseCall
    <3>4. ~w.next
      BY DEF CloseOf
    <3> QED
      BY <3>1, <3>3, <3>4, PlansStay DEF CallPlan
  <2>3. CASE RetryClose(c)
    <3> DEFINE r == [call[c] EXCEPT !.att = call[c].att + 1,
                       !.st = StateOf(doc[call[c].doc]), !.write = None]
    <3>1. call[c].op = "close" /\ call' = [call EXCEPT ![c] = r]
      BY <2>3 DEF RetryClose, Proceed
    <3>2. call[c] \in CloseCall
      BY <3>1, CallKind DEF RowsInv, TypeInv, TypeOK
    <3>3. r.op = "close" /\ r.write = None
      BY <3>1, <3>2 DEF CloseCall
    <3> QED
      BY <3>1, <3>3, PlansStay DEF CallPlan
  <2>4. CASE BeginAbandon(c)
    BY <2>4, PlansStay DEF BeginAbandon, Begin, CallPlan
  <2> QED
    BY <1>6, <2>1, <2>2, <2>3, <2>4, PlansAtEnd DEF Close, SaveClose, SaveAbandon
<1>7. ASSUME NEW c \in Calls, GiveUp(c) PROVE CallPlans'
  BY <1>7, PlansAtEnd DEF GiveUp
<1>8. ASSUME NEW s, NEW D, AddSource(s, D) PROVE CallPlans'
  BY <1>8 DEF AddSource, RowsInv, CallPlans
<1> QED
  BY <1>1, <1>2, <1>3, <1>4, <1>5, <1>6, <1>7, <1>8 DEF Next

----------------------------------------------------------------------------
(* The ways a step changes a document.                                     *)

\* A call in flight on a document, and the write it carries.
LEMMA WriterType ==
  ASSUME RowsInv, NEW c \in Calls, call[c].op \in {"edit", "approve", "close"},
         call[c].write # None
  PROVE  /\ call[c].doc \in Docs /\ call[c].write \in Write /\ Held(call[c].doc)
         /\ doc[call[c].doc] \in Document
         /\ call[c].op \in {"approve", "close"} => ~call[c].write.next
<1>1. call[c] \in EditCall \cup ApproveCall \cup CloseCall
  BY CallKind DEF RowsInv, TypeInv, TypeOK
<1>2. call[c].doc \in Docs /\ call[c].write \in Write
  BY <1>1 DEF EditCall, ApproveCall, CloseCall
<1>3. Held(call[c].doc)
  BY DEF RowsInv, TypeInv, CallsHeld, CallHeld, Held
<1> QED
  BY <1>2, <1>3 DEF RowsInv, TypeInv, TypeOK, CallPlans, CallPlan

\* A write that opens no version and changes no content rewrites the row.
LEMMA SameRewrites ==
  ASSUME NEW d, NEW w, ~w.next, LandsAs(d, w) # "rewrite"
  PROVE  w.text # Current(doc[d]).text
BY DEF LandsAs, Landing

\* The transaction of a presentation marks the row it showed, if that is current.
LEMMA SavePresentMarks ==
  ASSUME RowsInv, NEW c \in Calls, SavePresent(c)
  PROVE  /\ call[c].page.doc \in Docs
         /\ ~call[c].current => doc' = doc
         /\ call[c].current => Recalled(call[c].page.doc)
<1> DEFINE k == call[c]
           p == k.page
           x == doc[p.doc]
           done == Completes(p) \/ (p.ctx # 0 /\ Covers(p.ctx, p.target))
<1>1. /\ k.op = "present"
      /\ doc' = IF k.current
                THEN [doc EXCEPT ![p.doc].rows[k.rev] =
                        [x.rows[k.rev] EXCEPT
                           !.gen = GenOf(x, k.rev),
                           !.presented = x.rows[k.rev].presented \/ done]]
                ELSE doc
  BY DEF SavePresent
<1>2. p.doc \in Docs /\ Held(p.doc) /\ x \in Document
  BY <1>1, PresentCallType DEF RowsInv
<1>3. ASSUME k.current PROVE Recalled(p.doc)
  <2>1. k.rev = Len(x.rows)
    BY <1>3, SavePresentRow DEF RowsInv
  <2>2. done \in BOOLEAN
    BY DEF Completes, Covers
  <2> HIDE DEF done
  <2>3. doc' = [doc EXCEPT ![p.doc] = Marked(x, done)]
    BY <1>1, <1>2, <1>3, <2>1 DEF Marked, RowsInv, TypeInv, TypeOK
  <2> QED
    BY <1>2, <2>2, <2>3 DEF Recalled
<1> QED
  BY <1>1, <1>2, <1>3

\* Only five transactions write a document.
LEMMA SavingSteps ==
  ASSUME [Next]_vars
  PROVE  \/ doc' = doc
         \/ \E c \in Calls : \/ SaveEdit(c) \/ SaveCreate(c) \/ SavePresent(c)
                             \/ SaveApprove(c) \/ SaveClose(c)
<1>1. CASE UNCHANGED vars
  BY <1>1 DEF vars
<1>2. ASSUME NEW c \in Calls,
             Edit(c) \/ Create(c) \/ Present(c) \/ Approve(c) \/ Close(c)
               \/ GiveUp(c)
      PROVE  \/ doc' = doc
             \/ SaveEdit(c) \/ SaveCreate(c) \/ SavePresent(c) \/ SaveApprove(c)
             \/ SaveClose(c)
  <2>1. CASE Edit(c)
    BY <2>1 DEF Edit, BeginEdit, PlanEdit, RetryEdit, SaveNoChange, store
  <2>2. CASE Create(c)
    BY <2>2 DEF Create, BeginCreate, store
  <2>3. CASE Present(c)
    <3>1. ASSUME NEW v, NEW d, NEW span, BeginPresent(c, v, d, span)
          PROVE  doc' = doc
      BY <3>1 DEF BeginPresent, PresentFresh, PresentWhole, PresentDelta,
                  PresentOn, PresentRead, Showing, store
    <3> QED
      BY <2>3, <3>1 DEF Present
  <2>4. CASE Approve(c)
    BY <2>4 DEF Approve, BeginApprove, PlanApprove, store
  <2>5. CASE Close(c)
    BY <2>5 DEF Close, BeginClose, PlanClose, RetryClose, BeginAbandon,
                SaveAbandon, store
  <2>6. CASE GiveUp(c)
    BY <2>6 DEF GiveUp, store
  <2> QED
    BY <1>2, <2>1, <2>2, <2>3, <2>4, <2>5, <2>6
<1>3. ASSUME NEW s, NEW D, AddSource(s, D) PROVE doc' = doc
  BY <1>3 DEF AddSource
<1> QED
  BY <1>1, <1>2, <1>3 DEF Next

\* Every step leaves the documents alone, or changes one in one of those ways.
LEMMA DocSteps ==
  ASSUME RowsInv, [Next]_vars
  PROVE  \/ doc' = doc
         \/ \E d \in Docs : Written(d) \/ Drafted(d) \/ Recalled(d)
<1>1. ASSUME NEW c \in Calls, SaveEdit(c)
      PROVE  Written(call[c].doc) /\ call[c].doc \in Docs
  <2> DEFINE k == call[c]
             w == k.write
             mode == LandsAs(k.doc, w)
  <2>1. /\ k.op = "edit" /\ w # None /\ w.text # Current(doc[k.doc]).text
        /\ Admitted(doc[k.doc], w, mode)
        /\ UNCHANGED <<anchor, approvals, reviews>>
    BY <1>1 DEF SaveEdit, Commits
  <2>2. k.doc \in Docs /\ w \in Write /\ Held(k.doc)
    BY <2>1, WriterType
  <2>3. PICK cap \in Captures(w.capture) :
          doc' = [doc EXCEPT ![k.doc] =
                    Saved(doc[k.doc], w, w.causes \cup cap, mode)]
    BY <1>1 DEF SaveEdit
  <2>4. w.causes \cup cap \in SUBSET Sources
    BY <2>2, <2>3, CapturesType DEF Write
  <2> QED
    BY <2>1, <2>2, <2>3, <2>4 DEF Written
<1>2. ASSUME NEW c \in Calls, SaveApprove(c) \/ SaveClose(c)
      PROVE  Written(call[c].doc) /\ call[c].doc \in Docs
  <2> DEFINE k == call[c]
             w == k.write
             mode == LandsAs(k.doc, w)
  <2>1. /\ k.op \in {"approve", "close"} /\ w # None
        /\ Admitted(doc[k.doc], w, mode)
        /\ doc' = [doc EXCEPT ![k.doc] = Saved(doc[k.doc], w, {}, mode)]
        /\ UNCHANGED reviews
    BY <1>2 DEF SaveApprove, SaveClose
  <2>2. k.doc \in Docs /\ w \in Write /\ Held(k.doc) /\ ~w.next
    BY <2>1, WriterType
  <2>3. mode # "rewrite" => w.text # Current(doc[k.doc]).text
    BY <2>2, SameRewrites
  <2>4. {} \in SUBSET Sources
    OBVIOUS
  <2> QED
    BY <2>1, <2>2, <2>3, <2>4 DEF Written
<1>3. ASSUME NEW c \in Calls, SaveCreate(c)
      PROVE  Drafted(call[c].doc) /\ call[c].doc \in Docs
  <2> DEFINE k == call[c]
             w == k.write
  <2>1. k.op = "create" /\ ~Held(k.doc) /\ UNCHANGED reviews
    BY <1>3 DEF SaveCreate
  <2>2. k \in CreateCall
    BY <2>1, CallKind DEF RowsInv, TypeInv, TypeOK
  <2>3. k.doc \in Docs /\ w \in Write /\ w.status # "approved"
    BY <2>1, <2>2 DEF CreateCall, RowsInv, CallPlans, CallPlan
  <2>4. PICK cap \in Captures(w.capture) :
          doc' = [doc EXCEPT ![k.doc] = Created(w, w.causes \cup cap)]
    BY <1>3 DEF SaveCreate
  <2>5. w.causes \cup cap \in SUBSET Sources
    BY <2>3, <2>4, CapturesType DEF Write
  <2> QED
    BY <2>1, <2>3, <2>4, <2>5 DEF Drafted
<1>4. ASSUME NEW c \in Calls, SavePresent(c)
      PROVE  doc' = doc \/ (Recalled(call[c].page.doc) /\ call[c].page.doc \in Docs)
  BY <1>4, SavePresentMarks
<1> QED
  BY <1>1, <1>2, <1>3, <1>4, SavingSteps

----------------------------------------------------------------------------
(* The rows each way leaves.                                               *)

\* A rewrite leaves every earlier row alone.
LEMMA RewrittenRows ==
  ASSUME NEW x \in Document, x.rows # <<>>, NEW w \in Write,
         NEW causes \in SUBSET Sources
  PROVE  LET y == Saved(x, w, causes, "rewrite")
             n == Len(x.rows)
         IN /\ Len(y.rows) = n
            /\ \A i \in 1..(n - 1) : y.rows[i] = x.rows[i]
            /\ y.rows[n].text = w.text
            /\ y.rows[n].sealed = IF w.seal # None THEN w.seal ELSE x.rows[n].sealed
            /\ y.rows[n].gen = y.gen
            /\ y.gen = IF w.text = Current(x).text THEN x.gen ELSE x.gen + 1
            /\ y.stamp = x.stamp + 1
            /\ y.status = w.status
            /\ y.approved = IF w.status = "approved" THEN n ELSE x.approved
<1> DEFINE n == Len(x.rows)
           r == x.rows[n]
           gen == IF w.text = Current(x).text THEN x.gen ELSE x.gen + 1
           new == [r EXCEPT !.text = w.text, !.gen = gen,
                            !.cites = r.cites \cup causes,
                            !.sealed = IF w.seal # None THEN w.seal ELSE r.sealed,
                            !.outcome = w.outcome]
           y == Saved(x, w, causes, "rewrite")
<1>1. n \in Nat \ {0} /\ n \in 1..Len(x.rows) /\ r \in Row /\ x.rows \in Seq(Row)
  BY CurrentType, RowType DEF Document
<1>2. /\ new.text = w.text /\ new.gen = gen
      /\ new.sealed = IF w.seal # None THEN w.seal ELSE r.sealed
  BY <1>1 DEF Row
<1>3. y = [gen |-> gen, stamp |-> x.stamp + 1, status |-> w.status,
           approved |-> ApprovedRevision(x, w, n),
           rows |-> [x.rows EXCEPT ![n] = new]]
  BY DEF Saved, Rewritten
<1> HIDE DEF new, y
<1>4. /\ y.gen = gen /\ y.stamp = x.stamp + 1 /\ y.status = w.status
      /\ y.rows = [x.rows EXCEPT ![n] = new]
      /\ y.approved = IF w.status = "approved" THEN n ELSE x.approved
  BY <1>3 DEF ApprovedRevision
<1>5. Len(y.rows) = n /\ y.rows[n] = new /\ \A i \in 1..(n - 1) : y.rows[i] = x.rows[i]
  BY <1>1, <1>4
<1> QED
  BY <1>2, <1>4, <1>5 DEF y

\* A new row leaves the row it supersedes as it was, stamped.
Supersedes(y, x, w) ==
  LET n == Len(x.rows)
  IN /\ Len(y.rows) = n + 1
     /\ \A i \in 1..(n - 1) : y.rows[i] = x.rows[i]
     /\ y.rows[n] = [x.rows[n] EXCEPT !.gen = GenOf(x, n)]
     /\ y.rows[n + 1].text = w.text
     /\ y.rows[n + 1].gen = y.gen
     /\ y.rows[n + 1].sealed = w.seal
     /\ y.stamp = x.stamp + 1
     /\ y.gen = IF w.text = Current(x).text THEN x.gen ELSE x.gen + 1
     /\ y.status = w.status
     /\ y.approved = IF w.status = "approved" THEN n + 1 ELSE x.approved

\* A write that is no rewrite supersedes the current row.
LEMMA AppendedRows ==
  ASSUME NEW x \in Document, x.rows # <<>>, NEW w \in Write,
         NEW causes \in SUBSET Sources, NEW mode, mode # "rewrite"
  PROVE  Supersedes(Saved(x, w, causes, mode), x, w)
<1> DEFINE n == Len(x.rows)
           r == x.rows[n]
           gen == IF w.text = Current(x).text THEN x.gen ELSE x.gen + 1
           new == [text |-> w.text, gen |-> gen,
                   version |-> IF mode = "append" THEN r.version + 1 ELSE r.version,
                   cites |-> IF mode = "pinned" THEN r.cites \cup causes ELSE causes,
                   sealed |-> w.seal, presented |-> FALSE, outcome |-> w.outcome]
           old == [r EXCEPT !.gen = GenOf(x, n)]
           rows == [x.rows EXCEPT ![n] = old]
           y == Saved(x, w, causes, mode)
<1>1. n \in Nat \ {0} /\ n \in 1..Len(x.rows) /\ r \in Row /\ x.rows \in Seq(Row)
      /\ GenOf(x, n) \in Nat /\ x.gen \in Nat
  BY CurrentType, RowType DEF Document
<1>2. new.text = w.text /\ new.gen = gen /\ new.sealed = w.seal
  OBVIOUS
<1>3. old \in Row
  BY <1>1 DEF Row
<1>4. new \in Row
  <2>1. w.text \in Text /\ w.outcome \in Outcome /\ w.seal \in Signer
    BY DEF Write
  <2>2. gen \in Nat
    BY <1>1
  <2>3. r.version \in Nat /\ r.cites \in SUBSET Sources
    BY <1>1 DEF Row
  <2> HIDE DEF gen, r
  <2> QED
    BY <2>1, <2>2, <2>3 DEF Row
<1> HIDE DEF old, new
<1>5. rows \in Seq(Row) /\ Len(rows) = n /\ rows[n] = old
      /\ \A i \in 1..(n - 1) : rows[i] = x.rows[i]
  BY <1>1, <1>3
<1>6. y = [gen |-> gen, stamp |-> x.stamp + 1, status |-> w.status,
           approved |-> ApprovedRevision(x, w, n + 1),
           rows |-> Append(rows, new)]
  BY DEF Saved, Appended, Stamped, old, new
<1> HIDE DEF y, rows
<1>7. /\ y.gen = gen /\ y.stamp = x.stamp + 1 /\ y.status = w.status
      /\ y.rows = Append(rows, new)
      /\ y.approved = IF w.status = "approved" THEN n + 1 ELSE x.approved
  BY <1>6 DEF ApprovedRevision
<1>8. /\ Len(y.rows) = n + 1 /\ y.rows[n + 1] = new
      /\ \A i \in 1..n : y.rows[i] = rows[i]
  BY <1>1, <1>4, <1>5, <1>7
<1>9. y.rows[n] = old /\ \A i \in 1..(n - 1) : y.rows[i] = x.rows[i]
  BY <1>1, <1>5, <1>8
<1> QED
  BY <1>2, <1>7, <1>8, <1>9 DEF y, old, Supersedes

\* A presentation leaves every row its text and its name.
LEMMA MarkedRows ==
  ASSUME NEW x \in Document, x.rows # <<>>, NEW done \in BOOLEAN
  PROVE  LET y == Marked(x, done)
             n == Len(x.rows)
         IN /\ y.gen = x.gen /\ y.stamp = x.stamp
            /\ y.status = x.status /\ y.approved = x.approved
            /\ Len(y.rows) = n
            /\ \A i \in 1..(n - 1) : y.rows[i] = x.rows[i]
            /\ y.rows[n].text = x.rows[n].text
            /\ y.rows[n].sealed = x.rows[n].sealed
            /\ y.rows[n].gen = GenOf(x, n)
<1> DEFINE n == Len(x.rows)
           r == x.rows[n]
           new == [r EXCEPT !.gen = GenOf(x, n), !.presented = r.presented \/ done]
           rows == [x.rows EXCEPT ![n] = new]
           y == Marked(x, done)
<1>1. n \in Nat \ {0} /\ n \in 1..Len(x.rows) /\ r \in Row /\ x.rows \in Seq(Row)
  BY CurrentType, RowType DEF Document
<1>2. new.text = r.text /\ new.sealed = r.sealed /\ new.gen = GenOf(x, n)
  BY <1>1 DEF Row
<1> HIDE DEF new
<1>3. Len(rows) = n /\ rows[n] = new /\ \A i \in 1..(n - 1) : rows[i] = x.rows[i]
  BY <1>1
<1>4. y = [x EXCEPT !.rows = rows]
  BY DEF Marked, new
<1> HIDE DEF rows, y
<1>5. /\ y.rows = rows /\ y.gen = x.gen /\ y.stamp = x.stamp
      /\ y.status = x.status /\ y.approved = x.approved
  BY <1>4 DEF Document
<1> QED
  BY <1>2, <1>3, <1>5 DEF y

----------------------------------------------------------------------------
(* One document at a time: its status is its seal, its generations ascend. *)

SealAgrees(x) ==
  /\ x.approved <= Len(x.rows)
  /\ x.status = "approved" <=> x.rows # <<>> /\ x.approved = Len(x.rows)

GensAscend(x) ==
  x.rows # <<>> =>
    /\ x.rows[Len(x.rows)].gen \in {None, x.gen}
    /\ \A i \in 1..(Len(x.rows) - 1) : x.rows[i].gen \in Nat /\ x.rows[i].gen < x.gen
    /\ \A i, j \in 1..(Len(x.rows) - 1) : i < j => x.rows[i].gen < x.rows[j].gen

\* The current snapshot goes by the document's own generation.
LEMMA NowIsGen ==
  ASSUME NEW x \in Document, x.rows # <<>>, GensAscend(x)
  PROVE  Now(x) = x.gen
BY DEF GensAscend, Now, GenOf

\* Ascending rows are named apart.
LEMMA AscendNames ==
  ASSUME NEW x \in Document, GensAscend(x)
  PROVE  \A i, j \in 1..Len(x.rows) : i < j => GenOf(x, i) < GenOf(x, j)
<1> SUFFICES ASSUME NEW i \in 1..Len(x.rows), NEW j \in 1..Len(x.rows), i < j
             PROVE  GenOf(x, i) < GenOf(x, j)
  OBVIOUS
<1>1. Len(x.rows) \in Nat /\ x.rows # <<>>
  BY DEF Document
<1>2. i \in 1..(Len(x.rows) - 1)
  BY <1>1
<1>3. x.rows[i].gen \in Nat /\ x.rows[i].gen < x.gen
  BY <1>1, <1>2 DEF GensAscend
<1>4. GenOf(x, i) = x.rows[i].gen
  BY <1>3, NoneAssumption DEF GenOf
<1>5. CASE j = Len(x.rows)
  <2>1. GenOf(x, j) = x.gen
    BY <1>1, <1>5, NowIsGen DEF Now
  <2> QED
    BY <1>3, <1>4, <2>1
<1>6. CASE j # Len(x.rows)
  <2>1. j \in 1..(Len(x.rows) - 1)
    BY <1>1, <1>6
  <2>2. x.rows[j].gen \in Nat /\ x.rows[i].gen < x.rows[j].gen
    BY <1>1, <1>2, <2>1 DEF GensAscend
  <2>3. GenOf(x, j) = x.rows[j].gen
    BY <2>2, NoneAssumption DEF GenOf
  <2> QED
    BY <1>4, <2>2, <2>3
<1> QED
  BY <1>5, <1>6

\* A write keeps both, wherever it lands: a seal written into the current row
\* makes it the approved revision, and any other write of it is refused while
\* it is; a new row is named by the generation after.
LEMMA SavedAgrees ==
  ASSUME NEW x \in Document, x.rows # <<>>, NEW w \in Write,
         NEW causes \in SUBSET Sources, NEW mode,
         (mode = "rewrite" /\ x.approved = Len(x.rows)) => w.status = "approved",
         SealAgrees(x)
  PROVE  SealAgrees(Saved(x, w, causes, mode))
<1> DEFINE n == Len(x.rows)
           y == Saved(x, w, causes, mode)
<1>1. n \in Nat \ {0} /\ x.approved \in Nat /\ x.approved <= n
  BY CurrentType DEF Document, SealAgrees
<1>2. y.rows # <<>>
  BY SavedType
<1> SUFFICES SealAgrees(y)
  OBVIOUS
<1>3. CASE mode = "rewrite"
  <2>1. /\ Len(y.rows) = n /\ y.status = w.status
        /\ y.approved = IF w.status = "approved" THEN n ELSE x.approved
    BY <1>3, RewrittenRows
  <2>2. x.approved = n => w.status = "approved"
    BY <1>3
  <2> HIDE DEF y
  <2> QED
    BY <1>1, <1>2, <2>1, <2>2 DEF SealAgrees
<1>4. CASE mode # "rewrite"
  <2>1. Supersedes(y, x, w)
    BY <1>4, AppendedRows
  <2> HIDE DEF y
  <2>2. /\ Len(y.rows) = n + 1 /\ y.status = w.status
        /\ y.approved = IF w.status = "approved" THEN n + 1 ELSE x.approved
    BY <2>1 DEF Supersedes
  <2> QED
    BY <1>1, <1>2, <2>2 DEF SealAgrees
<1> QED
  BY <1>3, <1>4

\* A new row is named by the generation after the one it supersedes.
LEMMA SavedAscends ==
  ASSUME NEW x \in Document, x.rows # <<>>, NEW w \in Write,
         NEW causes \in SUBSET Sources, NEW mode,
         mode # "rewrite" => w.text # Current(x).text, GensAscend(x)
  PROVE  GensAscend(Saved(x, w, causes, mode))
<1> DEFINE n == Len(x.rows)
           y == Saved(x, w, causes, mode)
<1>1. n \in Nat \ {0} /\ x.gen \in Nat /\ GenOf(x, n) = x.gen /\ x.rows[n] \in Row
  BY CurrentType, NowIsGen DEF Document, Now, Current
<1>2. \A i \in 1..(n - 1) : x.rows[i].gen \in Nat /\ x.rows[i].gen < x.gen
  BY DEF GensAscend
<1>3. \A i, j \in 1..(n - 1) : i < j => x.rows[i].gen < x.rows[j].gen
  BY DEF GensAscend
<1> SUFFICES GensAscend(y)
  OBVIOUS
<1>4. CASE mode = "rewrite"
  <2>1. /\ Len(y.rows) = n /\ \A i \in 1..(n - 1) : y.rows[i] = x.rows[i]
        /\ y.rows[n].gen = y.gen
        /\ y.gen = x.gen \/ y.gen = x.gen + 1
    BY <1>4, RewrittenRows
  <2> HIDE DEF y
  <2>2. y.rows[Len(y.rows)].gen \in {None, y.gen}
    BY <2>1
  <2>3. ASSUME NEW i \in 1..(Len(y.rows) - 1)
        PROVE  y.rows[i].gen \in Nat /\ y.rows[i].gen < y.gen
    <3>1. i \in 1..(n - 1) /\ y.rows[i] = x.rows[i]
      BY <2>1
    <3>2. x.rows[i].gen \in Nat /\ x.rows[i].gen < x.gen
      BY <1>2, <3>1
    <3> QED
      BY <1>1, <2>1, <3>1, <3>2
  <2>4. ASSUME NEW i \in 1..(Len(y.rows) - 1), NEW j \in 1..(Len(y.rows) - 1), i < j
        PROVE  y.rows[i].gen < y.rows[j].gen
    BY <1>3, <2>1, <2>4
  <2> QED
    BY <2>2, <2>3, <2>4 DEF GensAscend
<1>5. CASE mode # "rewrite"
  <2>1. /\ Len(y.rows) = n + 1 /\ \A i \in 1..(n - 1) : y.rows[i] = x.rows[i]
        /\ y.rows[n] = [x.rows[n] EXCEPT !.gen = GenOf(x, n)]
        /\ y.rows[n + 1].gen = y.gen
        /\ y.gen = x.gen + 1
    <3>1. Supersedes(y, x, w)
      BY <1>5, AppendedRows
    <3> QED
      BY <1>5, <3>1 DEF Supersedes
  <2>2. y.rows[n].gen = x.gen
    BY <1>1, <2>1 DEF Row
  <2> HIDE DEF y
  <2>3. ASSUME NEW i \in 1..n
        PROVE  y.rows[i].gen \in Nat /\ y.rows[i].gen < y.gen
    <3>1. CASE i = n
      <4>1. y.rows[i].gen = x.gen /\ y.gen = x.gen + 1
        BY <2>1, <2>2, <3>1
      <4>2. x.gen \in Nat
        BY <1>1
      <4> QED
        BY <4>1, <4>2
    <3>2. CASE i # n
      <4>1. i \in 1..(n - 1) /\ y.rows[i] = x.rows[i]
        BY <1>1, <2>1, <3>2
      <4>2. x.rows[i].gen \in Nat /\ x.rows[i].gen < x.gen
        BY <1>2, <4>1
      <4> QED
        BY <1>1, <2>1, <4>1, <4>2
    <3> QED
      BY <3>1, <3>2
  <2>4. ASSUME NEW i \in 1..n, NEW j \in 1..n, i < j
        PROVE  y.rows[i].gen < y.rows[j].gen
    <3>1. i \in 1..(n - 1) /\ y.rows[i].gen = x.rows[i].gen
      BY <1>1, <2>1, <2>4
    <3>2. CASE j = n
      BY <1>2, <2>2, <3>1, <3>2
    <3>3. CASE j # n
      <4>1. j \in 1..(n - 1) /\ y.rows[j].gen = x.rows[j].gen
        BY <1>1, <2>1, <3>3
      <4> QED
        BY <1>3, <2>4, <3>1, <4>1
    <3> QED
      BY <3>2, <3>3
  <2> QED
    BY <1>1, <2>1, <2>3, <2>4 DEF GensAscend
<1> QED
  BY <1>4, <1>5

\* A create and a presentation keep both.
LEMMA CreatedAgrees ==
  ASSUME NEW w \in Write, NEW causes \in SUBSET Sources, w.status # "approved"
  PROVE  SealAgrees(Created(w, causes)) /\ GensAscend(Created(w, causes))
<1> DEFINE r == [text |-> w.text, gen |-> 0, version |-> 1, cites |-> causes,
                 sealed |-> None, presented |-> FALSE, outcome |-> None]
           y == Created(w, causes)
<1>1. y = [gen |-> 0, stamp |-> 1, status |-> w.status, approved |-> 0, rows |-> <<r>>]
  BY DEF Created
<1>2. r.gen = 0
  OBVIOUS
<1> HIDE DEF r, y
<1>3. y.rows = <<r>> /\ y.gen = 0 /\ y.approved = 0 /\ y.status # "approved"
  BY <1>1
<1> QED
  BY <1>2, <1>3 DEF SealAgrees, GensAscend, y

\* A presentation moves neither the seal nor a generation.
LEMMA MarkedAgrees ==
  ASSUME NEW x \in Document, x.rows # <<>>, NEW done \in BOOLEAN,
         SealAgrees(x), GensAscend(x)
  PROVE  SealAgrees(Marked(x, done)) /\ GensAscend(Marked(x, done))
<1> DEFINE n == Len(x.rows)
           y == Marked(x, done)
<1>1. n \in Nat \ {0} /\ GenOf(x, n) = x.gen
  BY CurrentType, NowIsGen DEF Now
<1>2. /\ y.gen = x.gen /\ y.status = x.status /\ y.approved = x.approved
      /\ Len(y.rows) = n
      /\ \A i \in 1..(n - 1) : y.rows[i] = x.rows[i]
      /\ y.rows[n].gen = x.gen
  BY <1>1, MarkedRows
<1> SUFFICES SealAgrees(y) /\ GensAscend(y)
  OBVIOUS
<1> HIDE DEF y
<1>3. SealAgrees(y)
  BY <1>1, <1>2 DEF SealAgrees
<1>4. GensAscend(y)
  BY <1>1, <1>2 DEF GensAscend
<1> QED
  BY <1>3, <1>4

----------------------------------------------------------------------------
(* The invariant, and the theorems it carries.                             *)

DocsAgree == \A d \in Docs : SealAgrees(doc[d]) /\ GensAscend(doc[d])

DocsInv == RowsInv /\ DocsAgree

\* The documents the system starts with agree with their rows.
LEMMA InitDocs == Init => DocsInv
<1> SUFFICES ASSUME Init PROVE DocsInv
  OBVIOUS
<1>1. TypeInv
  BY InitType
<1>2. CallPlans
  BY DEF Init, CallPlans, CallPlan, Idle
<1>3. PICK f \in [Docs -> Standings] :
        /\ \A d \in Docs : f[d] \in Starts[d]
        /\ doc = [d \in Docs |-> Born(d, f[d])]
  BY DEF Init
<1>4. ASSUME NEW d \in Docs, NEW s \in Standings
      PROVE  SealAgrees(Born(d, s)) /\ GensAscend(Born(d, s))
  <2> DEFINE r == [text |-> [body |-> <<>>, title |-> None], gen |-> None,
                   version |-> 1, cites |-> {}, sealed |-> None,
                   presented |-> FALSE, outcome |-> None]
             y == Born(d, s)
  <2>1. Draft(d) # "approved"
    BY DEF Draft
  <2>2. /\ y.rows = IF s = "absent" THEN <<>> ELSE <<r>>
        /\ y.status = CASE s = "absent" -> "none" [] s = "draft" -> Draft(d)
                         [] s = "signed" -> "approved"
        /\ y.approved = IF s = "signed" THEN 1 ELSE 0
        /\ y.gen = 0
    BY DEF Born
  <2>3. r.gen = None
    OBVIOUS
  <2> SUFFICES SealAgrees(y) /\ GensAscend(y)
    OBVIOUS
  <2> HIDE DEF y, r
  <2>4. CASE s = "absent"
    BY <2>2, <2>4 DEF SealAgrees, GensAscend
  <2>5. CASE s = "draft"
    BY <2>1, <2>2, <2>3, <2>5 DEF SealAgrees, GensAscend
  <2>6. CASE s = "signed"
    BY <2>2, <2>3, <2>6 DEF SealAgrees, GensAscend
  <2> QED
    BY <2>4, <2>5, <2>6 DEF Standings
<1>5. DocsAgree
  BY <1>3, <1>4 DEF DocsAgree
<1> QED
  BY <1>1, <1>2, <1>5 DEF DocsInv, RowsInv

\* Every step keeps them so.
LEMMA NextDocs == DocsInv /\ [Next]_vars => DocsInv'
<1> SUFFICES ASSUME DocsInv, [Next]_vars PROVE DocsInv'
  OBVIOUS
<1>1. RowsInv'
  BY NextType, PlansType DEF DocsInv, RowsInv
<1>2. doc \in [Docs -> Document]
  BY DEF DocsInv, RowsInv, TypeInv, TypeOK
<1>3. ASSUME NEW d \in Docs, NEW y, doc' = [doc EXCEPT ![d] = y],
             SealAgrees(y), GensAscend(y)
      PROVE  DocsAgree'
  BY <1>2, <1>3 DEF DocsInv, DocsAgree
<1>4. ASSUME doc' = doc PROVE DocsAgree'
  BY <1>4 DEF DocsInv, DocsAgree
<1>5. ASSUME NEW d \in Docs, Written(d) PROVE DocsAgree'
  <2>1. PICK w \in Write, causes \in SUBSET Sources :
          /\ Held(d)
          /\ doc' = [doc EXCEPT ![d] = Saved(doc[d], w, causes, LandsAs(d, w))]
          /\ Admitted(doc[d], w, LandsAs(d, w))
          /\ LandsAs(d, w) # "rewrite" => w.text # Current(doc[d]).text
    BY <1>5 DEF Written
  <2>2. doc[d] \in Document /\ doc[d].rows # <<>> /\ SealAgrees(doc[d])
        /\ GensAscend(doc[d])
    BY <1>2, <2>1 DEF Held, DocsInv, DocsAgree
  <2>3. (LandsAs(d, w) = "rewrite" /\ doc[d].approved = Len(doc[d].rows))
          => w.status = "approved"
    BY <2>1 DEF Admitted
  <2>4. /\ SealAgrees(Saved(doc[d], w, causes, LandsAs(d, w)))
        /\ GensAscend(Saved(doc[d], w, causes, LandsAs(d, w)))
    BY <2>1, <2>2, <2>3, SavedAgrees, SavedAscends
  <2> QED
    BY <1>3, <2>1, <2>4
<1>6. ASSUME NEW d \in Docs, Drafted(d) PROVE DocsAgree'
  BY <1>3, <1>6, CreatedAgrees DEF Drafted
<1>7. ASSUME NEW d \in Docs, Recalled(d) PROVE DocsAgree'
  <2>1. PICK done \in BOOLEAN :
          Held(d) /\ doc' = [doc EXCEPT ![d] = Marked(doc[d], done)]
    BY <1>7 DEF Recalled
  <2>2. doc[d] \in Document /\ doc[d].rows # <<>> /\ SealAgrees(doc[d])
        /\ GensAscend(doc[d])
    BY <1>2, <2>1 DEF Held, DocsInv, DocsAgree
  <2> QED
    BY <1>3, <2>1, <2>2, MarkedAgrees
<1>8. \/ doc' = doc
      \/ \E d \in Docs : Written(d) \/ Drafted(d) \/ Recalled(d)
  BY DocSteps DEF DocsInv
<1>9. DocsAgree'
  BY <1>4, <1>5, <1>6, <1>7, <1>8
<1> QED
  BY <1>1, <1>9 DEF DocsInv

\* In every reachable state the documents agree with their rows.
THEOREM DocsInvariant == Spec => []DocsInv
BY InitDocs, NextDocs, PTL DEF Spec

\* A document is approved exactly when its approved revision is its current one:
\* what the CHECK of the schema refuses, no call ever asks of it.
THEOREM ApprovedIsSealed == Spec => []StatusIsSeal
<1>1. DocsInv => StatusIsSeal
  BY DEF DocsInv, DocsAgree, SealAgrees, StatusIsSeal, Held
<1> QED
  BY <1>1, DocsInvariant, PTL

\* A content revision names one snapshot for good, however edits, seals, closes
\* and presentations rewrite the current row or supersede it.
THEOREM GenerationsNameOnce == Spec => []GenerationNamesOneSnapshot
<1>1. DocsInv => GenerationNamesOneSnapshot
  BY AscendNames
     DEF DocsInv, RowsInv, TypeInv, TypeOK, DocsAgree, GenerationNamesOneSnapshot
<1> QED
  BY <1>1, DocsInvariant, PTL

\* A write leaves the text of a kept row: it rewrites none but the current row,
\* and that one only with the text it has, or when nothing pins it.
LEMMA SavedKeeps ==
  ASSUME DocsInv, NEW d \in Docs, Held(d), NEW w \in Write,
         NEW causes \in SUBSET Sources,
         NEW i \in 1..Len(doc[d].rows), KeptRow(doc[d], i)
  PROVE  Saved(doc[d], w, causes, LandsAs(d, w)).rows[i].text = doc[d].rows[i].text
<1> DEFINE x == doc[d]
           n == Len(x.rows)
           mode == LandsAs(d, w)
           y == Saved(x, w, causes, mode)
<1>1. x \in Document /\ x.rows # <<>>
  BY DEF DocsInv, RowsInv, TypeInv, TypeOK, Held
<1>2. n \in Nat \ {0} /\ x.rows[n] \in Row
  BY <1>1, CurrentType, RowType
<1>3. i = n => Pinned(d)
  BY DEF KeptRow, Pinned
<1> SUFFICES y.rows[i].text = x.rows[i].text
  OBVIOUS
<1>4. CASE mode = "rewrite"
  <2>1. i = n => w.text = x.rows[n].text
    BY <1>3, <1>4 DEF LandsAs, Landing, Current
  <2>2. /\ \A j \in 1..(n - 1) : y.rows[j] = x.rows[j]
        /\ y.rows[n].text = w.text
    BY <1>1, <1>4, RewrittenRows
  <2>3. i \in 1..(n - 1) \/ i = n
    BY <1>2
  <2> HIDE DEF y
  <2> QED
    BY <2>1, <2>2, <2>3
<1>5. CASE mode # "rewrite"
  <2>1. Supersedes(y, x, w)
    BY <1>1, <1>5, AppendedRows
  <2>2. /\ \A j \in 1..(n - 1) : y.rows[j] = x.rows[j]
        /\ y.rows[n] = [x.rows[n] EXCEPT !.gen = GenOf(x, n)]
    BY <2>1 DEF Supersedes
  <2>3. y.rows[n].text = x.rows[n].text
    BY <1>2, <2>2 DEF Row
  <2>4. i \in 1..(n - 1) \/ i = n
    BY <1>2
  <2> HIDE DEF y
  <2> QED
    BY <2>2, <2>3, <2>4
<1> QED
  BY <1>4, <1>5

\* The text of a row that was signed, shown in full or closed on never changes.
THEOREM KeptStands == Spec => KeptRowsStand
<1> DEFINE Stands == \A d \in Docs : \A i \in 1..Len(doc[d].rows) :
             KeptRow(doc[d], i) => doc'[d].rows[i].text = doc[d].rows[i].text
<1>1. DocsInv /\ [Next]_vars => [Stands]_vars
  <2> SUFFICES ASSUME DocsInv, [Next]_vars,
                      NEW d \in Docs, NEW i \in 1..Len(doc[d].rows),
                      KeptRow(doc[d], i)
               PROVE  doc'[d].rows[i].text = doc[d].rows[i].text
    OBVIOUS
  <2>1. doc \in [Docs -> Document]
    BY DEF DocsInv, RowsInv, TypeInv, TypeOK
  <2>2. CASE doc' = doc
    BY <2>2
  <2>3. ASSUME NEW e \in Docs, Written(e)
        PROVE  doc'[d].rows[i].text = doc[d].rows[i].text
    BY <2>1, <2>3, SavedKeeps DEF Written
  <2>4. ASSUME NEW e \in Docs, Drafted(e)
        PROVE  doc'[d].rows[i].text = doc[d].rows[i].text
    BY <2>1, <2>4 DEF Drafted, Held
  <2>5. ASSUME NEW e \in Docs, Recalled(e)
        PROVE  doc'[d].rows[i].text = doc[d].rows[i].text
    <3>1. PICK done \in BOOLEAN :
            Held(e) /\ doc' = [doc EXCEPT ![e] = Marked(doc[e], done)]
      BY <2>5 DEF Recalled
    <3>2. CASE e # d
      BY <2>1, <3>1, <3>2
    <3>3. CASE e = d
      <4> DEFINE n == Len(doc[d].rows)
      <4>1. doc[d] \in Document /\ doc[d].rows # <<>> /\ n \in Nat \ {0}
        BY <2>1, <3>1, <3>3, CurrentType DEF Held
      <4>2. /\ \A j \in 1..(n - 1) :
                  Marked(doc[d], done).rows[j] = doc[d].rows[j]
            /\ Marked(doc[d], done).rows[n].text = doc[d].rows[n].text
        BY <4>1, MarkedRows
      <4> QED
        BY <2>1, <3>1, <3>3, <4>1, <4>2
    <3> QED
      BY <3>2, <3>3
  <2> QED
    BY <2>2, <2>3, <2>4, <2>5, DocSteps DEF DocsInv
<1> QED
  BY <1>1, DocsInvariant, PTL DEF Spec, KeptRowsStand
=============================================================================
