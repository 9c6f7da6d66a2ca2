----------------------- MODULE DocumentReviewProofs ------------------------
(***************************************************************************)
(* What was shown is retained: a snapshot any page of which was put before *)
(* a viewer stays, under the generation it was named by, while edits,      *)
(* seals and closes race the presentations that show it.                   *)
(*                                                                         *)
(* A shown snapshot is held FAST when no write can reach its row: the row  *)
(* is superseded, or a page pins it.  A page in flight is not recorded     *)
(* yet, so nothing pins its row: the invariant says what the recording     *)
(* transaction will find if it finds the generation it looks for.          *)
(***************************************************************************)
EXTENDS DocumentStoreProofs

PageOf(d, g) == \E q \in pages : q.doc = d /\ q.target = g

Fast(d, g, t) ==
  \E i \in 1..Len(doc[d].rows) :
    /\ GenOf(doc[d], i) = g
    /\ doc[d].rows[i].text = t
    /\ i < Len(doc[d].rows) \/ PageOf(d, g)

\* Row i of x is, by name and by text, row i of y.
RowStays(x, y, i) ==
  /\ i \in 1..Len(y.rows)
  /\ GenOf(y, i) = GenOf(x, i)
  /\ y.rows[i].text = x.rows[i].text

----------------------------------------------------------------------------
(* How rows fare when a document changes.                                  *)

\* The rows below the current one are named by themselves.
LEMMA OldNames ==
  ASSUME NEW x \in Document, GensAscend(x), NEW i \in 1..(Len(x.rows) - 1)
  PROVE  x.rows[i].gen \in Nat /\ GenOf(x, i) = x.rows[i].gen
<1>1. Len(x.rows) \in Nat /\ x.rows # <<>>
  BY DEF Document
<1>2. x.rows[i].gen \in Nat
  BY <1>1 DEF GensAscend
<1> QED
  BY <1>2, NoneAssumption DEF GenOf

\* A write leaves the rows below the current one, and a pinned current one.
LEMMA WriteLeaves ==
  ASSUME DocsInv, NEW d \in Docs, Held(d), NEW w \in Write,
         NEW causes \in SUBSET Sources, NEW i \in 1..Len(doc[d].rows),
         i < Len(doc[d].rows) \/ Pinned(d)
  PROVE  RowStays(doc[d], Saved(doc[d], w, causes, LandsAs(d, w)), i)
<1> DEFINE x == doc[d]
           n == Len(x.rows)
           mode == LandsAs(d, w)
           y == Saved(x, w, causes, mode)
<1>1. x \in Document /\ x.rows # <<>> /\ GensAscend(x)
  BY DEF DocsInv, DocsAgree, RowsInv, TypeInv, TypeOK, Held
<1>2. n \in Nat \ {0} /\ x.rows[n] \in Row /\ GenOf(x, n) = x.gen /\ x.gen \in Nat
  BY <1>1, CurrentType, RowType, NowIsGen DEF Now, Document
<1>3. i \in 1..(n - 1) \/ i = n
  BY <1>2
<1>4. i \in 1..(n - 1) => x.rows[i].gen \in Nat /\ GenOf(x, i) = x.rows[i].gen
  BY <1>1, OldNames
<1> SUFFICES RowStays(x, y, i)
  OBVIOUS
<1>5. CASE mode = "rewrite"
  <2>1. i = n => w.text = Current(x).text
    BY <1>2, <1>5 DEF LandsAs, Landing
  <2>2. /\ Len(y.rows) = n
        /\ \A j \in 1..(n - 1) : y.rows[j] = x.rows[j]
        /\ y.rows[n].text = w.text
        /\ y.rows[n].gen = y.gen
        /\ y.gen = IF w.text = Current(x).text THEN x.gen ELSE x.gen + 1
    BY <1>1, <1>5, RewrittenRows
  <2> HIDE DEF y
  <2>3. CASE i = n
    BY <1>2, <2>1, <2>2, <2>3, NoneAssumption DEF RowStays, GenOf, Current
  <2>4. CASE i \in 1..(n - 1)
    BY <1>2, <1>4, <2>2, <2>4, NoneAssumption DEF RowStays, GenOf
  <2> QED
    BY <1>3, <2>3, <2>4
<1>6. CASE mode # "rewrite"
  <2>1. Supersedes(y, x, w)
    BY <1>1, <1>6, AppendedRows
  <2>2. /\ Len(y.rows) = n + 1
        /\ \A j \in 1..(n - 1) : y.rows[j] = x.rows[j]
        /\ y.rows[n] = [x.rows[n] EXCEPT !.gen = GenOf(x, n)]
    BY <2>1 DEF Supersedes
  <2>3. y.rows[n].text = x.rows[n].text /\ y.rows[n].gen = x.gen
    BY <1>2, <2>2 DEF Row
  <2> HIDE DEF y
  <2>4. CASE i = n
    <3>1. GenOf(y, n) = x.gen
      BY <1>2, <2>3, NoneAssumption DEF GenOf
    <3>2. n \in 1..Len(y.rows)
      BY <1>2, <2>2
    <3> QED
      BY <1>2, <2>3, <2>4, <3>1, <3>2 DEF RowStays
  <2>5. CASE i \in 1..(n - 1)
    BY <1>2, <1>4, <2>2, <2>5, NoneAssumption DEF RowStays, GenOf
  <2> QED
    BY <1>3, <2>4, <2>5
<1> QED
  BY <1>5, <1>6

\* A presentation leaves them all.
LEMMA MarkLeaves ==
  ASSUME NEW x \in Document, x.rows # <<>>, GensAscend(x), NEW done \in BOOLEAN,
         NEW i \in 1..Len(x.rows)
  PROVE  RowStays(x, Marked(x, done), i)
<1> DEFINE n == Len(x.rows)
           y == Marked(x, done)
<1>1. n \in Nat \ {0} /\ GenOf(x, n) \in Nat
  BY CurrentType, RowType
<1>2. i \in 1..(n - 1) \/ i = n
  BY <1>1
<1>3. i \in 1..(n - 1) => x.rows[i].gen \in Nat /\ GenOf(x, i) = x.rows[i].gen
  BY OldNames
<1>4. /\ Len(y.rows) = n /\ \A j \in 1..(n - 1) : y.rows[j] = x.rows[j]
      /\ y.rows[n].text = x.rows[n].text /\ y.rows[n].gen = GenOf(x, n)
  BY MarkedRows
<1> SUFFICES RowStays(x, y, i)
  OBVIOUS
<1> HIDE DEF y
<1>5. CASE i = n
  BY <1>1, <1>4, <1>5, NoneAssumption DEF RowStays, GenOf
<1>6. CASE i \in 1..(n - 1)
  BY <1>1, <1>3, <1>4, <1>6, NoneAssumption DEF RowStays, GenOf
<1> QED
  BY <1>2, <1>5, <1>6

\* What one step does to document d: its rows do not grow fewer, nor its
\* generation less; a row no write can reach stays; and while the rows are as
\* many and the current one is named by a generation reached before, the
\* current text is what it was.
Keeps(x, y, fast) ==
  /\ y.rows # <<>>
  /\ Len(y.rows) >= Len(x.rows)
  /\ y.gen >= x.gen
  /\ \A i \in 1..Len(x.rows) :
       i < Len(x.rows) \/ fast => RowStays(x, y, i)
  /\ (Len(y.rows) = Len(x.rows) /\ Now(y) <= x.gen)
       => Current(y).text = Current(x).text

\* A document nothing was done to is kept.
LEMMA SameKeeps ==
  ASSUME NEW x \in Document, x.rows # <<>>, NEW fast
  PROVE  Keeps(x, x, fast)
<1>1. Len(x.rows) \in Nat /\ x.gen \in Nat
  BY DEF Document
<1> QED
  BY <1>1 DEF Keeps, RowStays

\* A write that keeps the generation keeps the current text.
LEMMA WriteKeeps ==
  ASSUME DocsInv, NEW d \in Docs, Held(d), NEW w \in Write,
         NEW causes \in SUBSET Sources
  PROVE  Keeps(doc[d], Saved(doc[d], w, causes, LandsAs(d, w)), Pinned(d))
<1> DEFINE x == doc[d]
           n == Len(x.rows)
           mode == LandsAs(d, w)
           y == Saved(x, w, causes, mode)
<1>1. x \in Document /\ x.rows # <<>>
  BY DEF DocsInv, RowsInv, TypeInv, TypeOK, Held
<1>2. n \in Nat \ {0} /\ x.gen \in Nat
  BY <1>1, CurrentType DEF Document
<1>3. y.rows # <<>> /\ y \in Document
  BY <1>1, SavedType
<1>4. \A i \in 1..n : i < n \/ Pinned(d) => RowStays(x, y, i)
  BY WriteLeaves
<1> SUFFICES Keeps(x, y, Pinned(d))
  OBVIOUS
<1>5. CASE mode = "rewrite"
  <2>1. /\ Len(y.rows) = n
        /\ y.rows[n].text = w.text
        /\ y.rows[n].gen = y.gen
        /\ y.gen = IF w.text = Current(x).text THEN x.gen ELSE x.gen + 1
    BY <1>1, <1>5, RewrittenRows
  <2> HIDE DEF y
  <2>2. Now(y) = y.gen /\ Current(y).text = w.text
    BY <2>1 DEF Now, GenOf, Current
  <2>3. y.gen >= x.gen
    BY <1>2, <2>1
  <2>4. Now(y) <= x.gen => Current(y).text = Current(x).text
    BY <1>2, <2>1, <2>2
  <2> QED
    BY <1>2, <1>3, <1>4, <2>1, <2>3, <2>4 DEF Keeps
<1>6. CASE mode # "rewrite"
  <2>1. Supersedes(y, x, w)
    BY <1>1, <1>6, AppendedRows
  <2>2. /\ Len(y.rows) = n + 1
        /\ y.gen = IF w.text = Current(x).text THEN x.gen ELSE x.gen + 1
    BY <2>1 DEF Supersedes
  <2> HIDE DEF y
  <2>3. y.gen >= x.gen /\ Len(y.rows) >= n /\ Len(y.rows) # n
    BY <1>2, <2>2
  <2> QED
    BY <1>3, <1>4, <2>3 DEF Keeps
<1> QED
  BY <1>5, <1>6

\* A presentation keeps every row.
LEMMA MarkKeeps ==
  ASSUME NEW x \in Document, x.rows # <<>>, GensAscend(x), NEW done \in BOOLEAN,
         NEW fast
  PROVE  Keeps(x, Marked(x, done), fast)
<1> DEFINE n == Len(x.rows)
           y == Marked(x, done)
<1>1. n \in Nat \ {0} /\ x.gen \in Nat
  BY CurrentType DEF Document
<1>2. y.gen = x.gen /\ Len(y.rows) = n /\ y.rows[n].text = x.rows[n].text
  BY MarkedRows
<1>3. \A i \in 1..n : RowStays(x, y, i)
  BY MarkLeaves
<1> SUFFICES Keeps(x, y, fast)
  OBVIOUS
<1> HIDE DEF y
<1>4. y.rows # <<>>
  BY <1>1, <1>2
<1>5. Current(y).text = Current(x).text
  BY <1>2 DEF Current
<1> QED
  BY <1>1, <1>2, <1>3, <1>4, <1>5 DEF Keeps

\* Every step keeps every document that is there.
LEMMA StepKeeps ==
  ASSUME DocsInv, [Next]_vars, NEW d \in Docs, Held(d)
  PROVE  Keeps(doc[d], doc'[d], Pinned(d))
<1>1. doc \in [Docs -> Document]
  BY DEF DocsInv, RowsInv, TypeInv, TypeOK
<1>2. doc[d] \in Document /\ doc[d].rows # <<>> /\ GensAscend(doc[d])
  BY <1>1 DEF Held, DocsInv, DocsAgree
<1>3. CASE doc'[d] = doc[d]
  BY <1>2, <1>3, SameKeeps
<1>4. ASSUME NEW e \in Docs, Written(e)
      PROVE  Keeps(doc[d], doc'[d], Pinned(d))
  BY <1>1, <1>3, <1>4, WriteKeeps DEF Written
<1>5. ASSUME NEW e \in Docs, Drafted(e)
      PROVE  Keeps(doc[d], doc'[d], Pinned(d))
  BY <1>1, <1>3, <1>5 DEF Drafted
<1>6. ASSUME NEW e \in Docs, Recalled(e)
      PROVE  Keeps(doc[d], doc'[d], Pinned(d))
  BY <1>1, <1>2, <1>3, <1>6, MarkKeeps DEF Recalled
<1> QED
  BY <1>3, <1>4, <1>5, <1>6, DocSteps DEF DocsInv

\* A snapshot held fast stays so, as long as no page is taken back.
LEMMA FastStays ==
  ASSUME DocsInv, [Next]_vars, pages \subseteq pages',
         NEW d \in Docs, NEW g, NEW t, Fast(d, g, t)
  PROVE  Fast(d, g, t)'
<1> DEFINE x == doc[d]
           y == doc'[d]
<1>1. PICK i \in 1..Len(x.rows) :
        /\ GenOf(x, i) = g
        /\ x.rows[i].text = t
        /\ i < Len(x.rows) \/ PageOf(d, g)
  BY DEF Fast
<1>2. x \in Document /\ Len(x.rows) \in Nat
  BY DEF DocsInv, RowsInv, TypeInv, TypeOK, Document
<1>3. Held(d)
  BY <1>1, <1>2 DEF Held
<1>4. Keeps(x, y, Pinned(d))
  BY <1>3, StepKeeps
<1>5. i < Len(x.rows) \/ Pinned(d)
  <2>1. CASE i < Len(x.rows)
    BY <2>1
  <2>2. CASE i = Len(x.rows) /\ PageOf(d, g)
    BY <1>1, <2>2 DEF PageOf, Pinned
  <2> QED
    BY <1>1, <1>2, <2>1, <2>2
<1>6. RowStays(x, y, i) /\ Len(y.rows) >= Len(x.rows)
  BY <1>4, <1>5 DEF Keeps
<1>7. y \in Document /\ Len(y.rows) \in Nat
  BY NextDocs DEF DocsInv, RowsInv, TypeInv, TypeOK, Document
<1>8. PageOf(d, g) => PageOf(d, g)'
  BY DEF PageOf
<1>9. i < Len(y.rows) \/ PageOf(d, g)'
  BY <1>1, <1>2, <1>6, <1>7, <1>8
<1> QED
  BY <1>1, <1>6, <1>9 DEF RowStays, Fast

----------------------------------------------------------------------------
(* The invariant of the reviews.                                           *)

Presenting == {c \in Calls : call[c].op = "present"}

\* The pages recorded, and those in flight.
Views == pages \cup {call[c].page : c \in Presenting}

\* A context is of one document, and is minted before it is used.
ContextsApart ==
  /\ \A p, q \in Views : (p.ctx # 0 /\ p.ctx = q.ctx) => p.doc = q.doc
  /\ \A p \in Views : p.ctx <= minted

\* What a context remembers was shown in it.
Remembered ==
  /\ \A x \in 1..MaxContexts : open[x] # None => open[x] \in pages /\ open[x].ctx = x
  /\ \A x \in 1..MaxContexts : \A i \in 1..Len(covered[x]) :
       \E q \in pages : q.ctx = x /\ q.target = covered[x][i]

PagesFast ==
  \A p \in pages :
    /\ Fast(p.doc, p.target, p.text)
    /\ p.kind = "delta" => Fast(p.doc, p.base, p.from)

\* What a page in flight may count on when it is recorded.
FlightFast(k) ==
  LET p == k.page
      x == doc[p.doc]
  IN /\ k.rev <= Len(x.rows)
     /\ p.target <= x.gen
     /\ (k.current /\ Len(x.rows) = k.rev /\ Now(x) = p.target)
          => Current(x).text = p.text
     /\ ~k.current => Fast(p.doc, p.target, p.text)
     /\ p.kind = "delta" => Fast(p.doc, p.base, p.from)

FlightsFast == \A c \in Presenting : FlightFast(call[c])

ShownInv ==
  DocsInv /\ ContextsApart /\ Remembered /\ PagesFast /\ FlightsFast

\* A step presents, records a page, or leaves the reviews and the
\* presentations in flight alone.
LEMMA ReviewSteps ==
  ASSUME RowsInv, [Next]_vars
  PROVE  \/ /\ UNCHANGED reviews
            /\ \A c \in Calls : call'[c].op = "present" => call'[c] = call[c]
         \/ \E c \in Calls, v \in Viewers, d \in Docs, span \in Spans :
              BeginPresent(c, v, d, span)
         \/ \E c \in Calls : SavePresent(c)
<1> DEFINE Quiet == /\ UNCHANGED reviews
                    /\ \A c \in Calls : call'[c].op = "present" => call'[c] = call[c]
<1>1. call \in [Calls -> Call]
  BY DEF RowsInv, TypeInv, TypeOK
<1>2. ASSUME NEW c \in Calls, NEW r, r.op # "present",
             call' = [call EXCEPT ![c] = r], UNCHANGED reviews
      PROVE  Quiet
  BY <1>1, <1>2
<1>3. ASSUME NEW c \in Calls, End(c), UNCHANGED reviews PROVE Quiet
  <2>1. Idle.op # "present"
    BY DEF Idle
  <2> QED
    BY <1>2, <1>3, <2>1 DEF End, Proceed
<1>4. CASE UNCHANGED vars
  BY <1>4 DEF vars, reviews
<1>5. ASSUME NEW c \in Calls, Edit(c) PROVE Quiet
  <2>1. ASSUME NEW v, NEW d, NEW ask, NEW base, BeginEdit(c, v, d, ask, base)
        PROVE  Quiet
    BY <1>2, <2>1 DEF BeginEdit, Begin
  <2>2. CASE PlanEdit(c)
    <3> DEFINE r == [call[c] EXCEPT !.write =
                       EditOf(call[c].doc, call[c].ask, call[c].by)]
    <3>1. /\ call[c].op = "edit" /\ UNCHANGED reviews
          /\ End(c) \/ call' = [call EXCEPT ![c] = r]
      BY <2>2 DEF PlanEdit, Proceed
    <3>2. r.op = "edit"
      BY <1>1, <3>1, CallKind DEF EditCall
    <3> QED
      BY <1>2, <1>3, <3>1, <3>2
  <2>3. CASE RetryEdit(c)
    <3> DEFINE r == [call[c] EXCEPT !.att = call[c].att + 1,
                       !.st = StateOf(doc[call[c].doc]), !.write = None]
    <3>1. call[c].op = "edit" /\ call' = [call EXCEPT ![c] = r] /\ UNCHANGED reviews
      BY <2>3 DEF RetryEdit, Proceed
    <3>2. r.op = "edit"
      BY <1>1, <3>1, CallKind DEF EditCall
    <3> QED
      BY <1>2, <3>1, <3>2
  <2>4. CASE SaveNoChange(c) \/ SaveEdit(c)
    BY <1>3, <2>4 DEF SaveNoChange, SaveEdit
  <2> QED
    BY <1>5, <2>1, <2>2, <2>3, <2>4 DEF Edit
<1>6. ASSUME NEW c \in Calls, Create(c) PROVE Quiet
  <2>1. ASSUME NEW v, NEW d, NEW ask, BeginCreate(c, v, d, ask) PROVE Quiet
    BY <1>2, <2>1 DEF BeginCreate, Begin
  <2>2. CASE SaveCreate(c)
    BY <1>3, <2>2 DEF SaveCreate
  <2> QED
    BY <1>6, <2>1, <2>2 DEF Create
<1>7. ASSUME NEW c \in Calls, Approve(c) PROVE Quiet
  <2>1. ASSUME NEW v, NEW d, BeginApprove(c, v, d) PROVE Quiet
    BY <1>2, <2>1 DEF BeginApprove, Begin
  <2>2. ASSUME NEW x, PlanApprove(c, x) PROVE Quiet
    <3> DEFINE r == [call[c] EXCEPT !.ctx = x,
                       !.write = SealOf(call[c].doc, call[c].by)]
    <3>1. call[c].op = "approve" /\ call' = [call EXCEPT ![c] = r]
          /\ UNCHANGED reviews
      BY <2>2 DEF PlanApprove, Proceed
    <3>2. r.op = "approve"
      BY <1>1, <3>1, CallKind DEF ApproveCall
    <3> QED
      BY <1>2, <3>1, <3>2
  <2>3. CASE SaveApprove(c)
    BY <1>3, <2>3 DEF SaveApprove
  <2> QED
    BY <1>7, <2>1, <2>2, <2>3 DEF Approve
<1>8. ASSUME NEW c \in Calls, Close(c) PROVE Quiet
  <2>1. ASSUME NEW v, NEW d, NEW to, BeginClose(c, v, d, to) PROVE Quiet
    BY <1>2, <2>1 DEF BeginClose, Begin
  <2>2. CASE PlanClose(c)
    <3> DEFINE r == [call[c] EXCEPT !.write = CloseOf(call[c].doc, call[c].to)]
    <3>1. call[c].op = "close" /\ call' = [call EXCEPT ![c] = r] /\ UNCHANGED reviews
      BY <2>2 DEF PlanClose, Proceed
    <3>2. r.op = "close"
      BY <1>1, <3>1, CallKind DEF CloseCall
    <3> QED
      BY <1>2, <3>1, <3>2
  <2>3. CASE RetryClose(c)
    <3> DEFINE r == [call[c] EXCEPT !.att = call[c].att + 1,
                       !.st = StateOf(doc[call[c].doc]), !.write = None]
    <3>1. call[c].op = "close" /\ call' = [call EXCEPT ![c] = r] /\ UNCHANGED reviews
      BY <2>3 DEF RetryClose, Proceed
    <3>2. r.op = "close"
      BY <1>1, <3>1, CallKind DEF CloseCall
    <3> QED
      BY <1>2, <3>1, <3>2
  <2>4. CASE BeginAbandon(c)
    BY <1>2, <2>4 DEF BeginAbandon, Begin
  <2>5. CASE SaveClose(c) \/ SaveAbandon(c)
    BY <1>3, <2>5 DEF SaveClose, SaveAbandon
  <2> QED
    BY <1>8, <2>1, <2>2, <2>3, <2>4, <2>5 DEF Close
<1>9. ASSUME NEW c \in Calls, GiveUp(c) PROVE Quiet
  BY <1>3, <1>9 DEF GiveUp
<1>10. ASSUME NEW s, NEW D, AddSource(s, D) PROVE Quiet
  BY <1>10 DEF AddSource
<1>11. CASE Next
  BY <1>5, <1>6, <1>7, <1>8, <1>9, <1>10, <1>11 DEF Next, Present
<1> QED
  BY <1>4, <1>11

----------------------------------------------------------------------------
(* Every step keeps the invariant.                                         *)

\* The generation after a step is no name for another text: what a page in
\* flight counts on holds after the step when it held before it.
LEMMA FlightStays ==
  ASSUME DocsInv, [Next]_vars, pages \subseteq pages',
         NEW k \in PresentCall, k.page.doc \in Docs, Held(k.page.doc), FlightFast(k)
  PROVE  FlightFast(k)'
<1> DEFINE p == k.page
           x == doc[p.doc]
           y == doc'[p.doc]
<1>1. Keeps(x, y, Pinned(p.doc))
  BY StepKeeps
<1>2. /\ x \in Document /\ Len(x.rows) \in Nat /\ x.gen \in Nat /\ GensAscend(x)
      /\ x.rows # <<>>
  BY DEF DocsInv, DocsAgree, RowsInv, TypeInv, TypeOK, Document, Held
<1>3. y \in Document /\ Len(y.rows) \in Nat /\ y.gen \in Nat /\ GensAscend(y)
  <2>1. DocsInv'
    BY NextDocs
  <2>2. y \in Document /\ GensAscend(y)
    BY <2>1 DEF DocsInv, DocsAgree, RowsInv, TypeInv, TypeOK
  <2> QED
    BY <2>2 DEF Document
<1>4. k.rev \in Nat /\ p.target \in Nat /\ k.current \in BOOLEAN
  BY DEF PresentCall, Page
<1>5. k.rev <= Len(x.rows) /\ p.target <= x.gen
  BY DEF FlightFast
<1>6. Len(y.rows) >= Len(x.rows) /\ y.gen >= x.gen /\ y.rows # <<>>
  BY <1>1 DEF Keeps
<1>7. k.rev <= Len(y.rows) /\ p.target <= y.gen
  BY <1>2, <1>3, <1>4, <1>5, <1>6
<1>8. ASSUME k.current, Len(y.rows) = k.rev, Now(y) = p.target
      PROVE  Current(y).text = p.text
  <2>1. Len(y.rows) = Len(x.rows) /\ Len(x.rows) = k.rev
    BY <1>2, <1>3, <1>4, <1>5, <1>6, <1>8
  <2>2. Current(y).text = Current(x).text
    BY <1>1, <1>5, <1>8, <2>1 DEF Keeps
  <2>3. Now(x) = x.gen /\ Now(y) = y.gen
    BY <1>2, <1>3, <1>6, NowIsGen
  <2>4. Now(x) = p.target
    BY <1>2, <1>3, <1>4, <1>5, <1>6, <1>8, <2>3
  <2> QED
    BY <1>8, <2>1, <2>2, <2>4 DEF FlightFast
<1>9. ~k.current => Fast(p.doc, p.target, p.text)'
  BY FastStays DEF FlightFast
<1>10. p.kind = "delta" => Fast(p.doc, p.base, p.from)'
  BY FastStays DEF FlightFast
<1> QED
  BY <1>7, <1>8, <1>9, <1>10 DEF FlightFast

\* A step that presents nothing and records no page.
LEMMA QuietShown ==
  ASSUME ShownInv, [Next]_vars, UNCHANGED reviews,
         \A c \in Calls : call'[c].op = "present" => call'[c] = call[c]
  PROVE  ShownInv'
<1>1. DocsInv'
  BY NextDocs DEF ShownInv
<1>2. pages' = pages /\ covered' = covered /\ open' = open /\ minted' = minted
  BY DEF reviews
<1>3. Presenting' \subseteq Presenting /\ \A c \in Presenting' : call'[c] = call[c]
  BY DEF Presenting
<1>4. Views' \subseteq Views
  BY <1>2, <1>3 DEF Views
<1>5. ContextsApart'
  BY <1>2, <1>4 DEF ContextsApart, ShownInv
<1>6. Remembered'
  BY <1>2 DEF Remembered, ShownInv
<1>7. PagesFast'
  <2> SUFFICES ASSUME NEW p \in pages
               PROVE  /\ Fast(p.doc, p.target, p.text)'
                      /\ p.kind = "delta" => Fast(p.doc, p.base, p.from)'
    BY <1>2 DEF PagesFast
  <2>1. p.doc \in Docs
    BY DEF ShownInv, DocsInv, RowsInv, TypeInv, TypeOK, Page
  <2> QED
    BY <1>2, <2>1, FastStays DEF ShownInv, PagesFast
<1>8. FlightsFast'
  <2> SUFFICES ASSUME NEW c \in Presenting' PROVE FlightFast(call[c])'
    BY DEF FlightsFast
  <2>1. c \in Presenting /\ call'[c] = call[c] /\ c \in Calls /\ call[c].op = "present"
    BY <1>3 DEF Presenting
  <2>2. /\ call[c] \in PresentCall /\ call[c].page.doc \in Docs
        /\ Held(call[c].page.doc)
    BY <2>1, PresentCallType DEF ShownInv, DocsInv, RowsInv
  <2>3. FlightFast(call[c])
    BY <2>1 DEF ShownInv, FlightsFast
  <2> DEFINE k == call[c]
  <2>4. ASSUME NEW j, j = k PROVE FlightFast(j)'
    <3>1. j \in PresentCall /\ j.page.doc \in Docs /\ Held(j.page.doc) /\ FlightFast(j)
      BY <2>2, <2>3, <2>4
    <3> QED
      BY <1>2, <3>1, FlightStays DEF ShownInv
  <2> QED
    BY <2>1, <2>4
<1> QED
  BY <1>1, <1>5, <1>6, <1>7, <1>8 DEF ShownInv

\* A page is begun: it is drawn from rows that are there.
LEMMA ShowingShown ==
  ASSUME ShownInv, [Next]_vars,
         NEW c \in Calls, NEW d \in Docs, Held(d), NEW page \in Page,
         Showing(c, d, page), page.doc = d,
         minted <= minted', page.ctx <= minted',
         \A q \in Views : (q.ctx # 0 /\ q.ctx = page.ctx) => q.doc = d,
         page.target = Now(doc[d]) => page.text = Current(doc[d]).text,
         page.target # Now(doc[d]) => Fast(d, page.target, page.text),
         page.target <= doc[d].gen,
         page.kind = "delta" => Fast(d, page.base, page.from)
  PROVE  ShownInv'
<1> DEFINE r == [op |-> "present", page |-> page, rev |-> Len(doc[d].rows),
                 current |-> page.target = Now(doc[d])]
<1>1. call' = [call EXCEPT ![c] = r] /\ UNCHANGED <<store, pages, covered, open>>
  BY DEF Showing, Begin
<1>2. /\ pages' = pages /\ covered' = covered /\ open' = open /\ doc' = doc
      /\ call \in [Calls -> Call]
  BY <1>1 DEF store, ShownInv, DocsInv, RowsInv, TypeInv, TypeOK
<1>3. DocsInv'
  BY NextDocs DEF ShownInv
<1>4. r.op = "present" /\ r.page = page /\ r.rev = Len(doc[d].rows)
      /\ (r.current <=> page.target = Now(doc[d]))
  OBVIOUS
<1> HIDE DEF r
<1>5. /\ call'[c] = r
      /\ \A b \in Presenting' : b = c \/ (b \in Presenting /\ call'[b] = call[b])
  BY <1>1, <1>2 DEF Presenting
<1>6. Views' \subseteq Views \cup {page}
  BY <1>2, <1>4, <1>5 DEF Views
<1>7. minted \in Nat /\ minted' \in Nat /\ pages \subseteq Page /\ call \in [Calls -> Call]
  BY <1>3, BoundAssumption DEF ShownInv, DocsInv, RowsInv, TypeInv, TypeOK
<1>8. \A q \in Views : q.ctx \in Nat
  <2>1. \A q \in pages : q.ctx \in Nat
    BY <1>7, BoundAssumption DEF Page
  <2>2. \A b \in Presenting : call[b].page.ctx \in Nat
    BY <1>7, CallKind, BoundAssumption DEF Presenting, PresentCall, Page
  <2> QED
    BY <2>1, <2>2 DEF Views
<1>9. ContextsApart'
  <2>1. ASSUME NEW p \in Views', NEW q \in Views', p.ctx # 0, p.ctx = q.ctx
        PROVE  p.doc = q.doc
    BY <1>6, <2>1 DEF ShownInv, ContextsApart
  <2>2. ASSUME NEW p \in Views' PROVE p.ctx <= minted'
    <3>1. CASE p = page
      BY <3>1
    <3>2. CASE p \in Views
      BY <1>7, <1>8, <3>2 DEF ShownInv, ContextsApart
    <3> QED
      BY <1>6, <2>2, <3>1, <3>2
  <2> QED
    BY <2>1, <2>2 DEF ContextsApart
<1>10. Remembered'
  BY <1>2 DEF Remembered, ShownInv
<1>11. PagesFast'
  BY <1>2 DEF PagesFast, ShownInv, Fast, PageOf
<1>12. FlightsFast'
  <2> SUFFICES ASSUME NEW b \in Presenting' PROVE FlightFast(call[b])'
    BY DEF FlightsFast
  <2>1. CASE b # c
    <3>1. b \in Presenting /\ call'[b] = call[b]
      BY <1>5, <2>1
    <3>2. FlightFast(call[b])
      BY <3>1 DEF ShownInv, FlightsFast
    <3> QED
      BY <1>2, <3>1, <3>2 DEF FlightFast, Fast, PageOf
  <2>2. CASE b = c
    <3>1. Len(doc[d].rows) \in Nat
      BY DEF ShownInv, DocsInv, RowsInv, TypeInv, TypeOK, Document
    <3>2. FlightFast(r)
      BY <1>4, <3>1 DEF FlightFast
    <3> QED
      BY <1>2, <1>5, <2>2, <3>2 DEF FlightFast, Fast, PageOf
  <2> QED
    BY <2>1, <2>2
<1> QED
  BY <1>3, <1>9, <1>10, <1>11, <1>12 DEF ShownInv

\* A generation names one row, no later than the document's own.
LEMMA NamedOnce ==
  ASSUME NEW x \in Document, GensAscend(x), NEW g, NEW i \in Retained(x, g)
  PROVE  TextAt(x, g) = x.rows[i].text /\ g <= x.gen
<1> DEFINE j == CHOOSE m \in Retained(x, g) : TRUE
<1>1. j \in Retained(x, g)
  OBVIOUS
<1> HIDE DEF j
<1>2. /\ i \in 1..Len(x.rows) /\ j \in 1..Len(x.rows)
      /\ GenOf(x, i) = g /\ GenOf(x, j) = g
  BY <1>1 DEF Retained
<1>3. /\ Len(x.rows) \in Nat /\ x.rows # <<>> /\ x.gen \in Nat
      /\ GenOf(x, i) \in Nat /\ Len(x.rows) \in 1..Len(x.rows)
  BY <1>2, RowType DEF Document
<1>4. ~(i < j) /\ ~(j < i)
  BY <1>2, <1>3, AscendNames
<1>5. i = j
  BY <1>2, <1>4
<1>6. GenOf(x, Len(x.rows)) = x.gen
  BY <1>3, NowIsGen DEF Now
<1>7. g <= x.gen
  <2>1. CASE i = Len(x.rows)
    BY <1>2, <1>3, <1>6, <2>1
  <2>2. CASE i # Len(x.rows)
    <3>1. i < Len(x.rows)
      BY <1>2, <1>3, <2>2
    <3>2. GenOf(x, i) < GenOf(x, Len(x.rows))
      BY <1>2, <1>3, <3>1, AscendNames
    <3> QED
      BY <1>2, <1>3, <1>6, <3>2
  <2> QED
    BY <2>1, <2>2
<1> QED
  BY <1>5, <1>7 DEF TextAt, j

\* The document a presentation reads.
LEMMA ReadType ==
  ASSUME ShownInv, NEW d \in Docs, Held(d)
  PROVE  LET x == doc[d]
         IN /\ x \in Document /\ GensAscend(x) /\ x.rows # <<>>
            /\ Len(x.rows) \in Nat \ {0} /\ Now(x) = x.gen /\ x.gen \in Nat
            /\ Retained(x, Now(x)) # {}
            /\ TextAt(x, Now(x)) = Current(x).text
<1> DEFINE x == doc[d]
<1>1. x \in Document /\ GensAscend(x) /\ x.rows # <<>>
  BY DEF ShownInv, DocsInv, DocsAgree, RowsInv, TypeInv, TypeOK, Held
<1>2. Len(x.rows) \in Nat \ {0} /\ Now(x) = x.gen /\ x.gen \in Nat
  BY <1>1, CurrentType, NowIsGen DEF Document
<1>3. Len(x.rows) \in Retained(x, Now(x))
  BY <1>2 DEF Retained, Now
<1> QED
  BY <1>1, <1>2, <1>3, NamedOnce DEF Current

\* What is read of a generation somebody saw, or that is superseded, is fast.
LEMMA SeenFast ==
  ASSUME ShownInv, NEW d \in Docs, Held(d), NEW g, Retained(doc[d], g) # {},
         PageOf(d, g)
  PROVE  Fast(d, g, TextAt(doc[d], g))
<1>1. PICK i \in Retained(doc[d], g) : TRUE
  OBVIOUS
<1>2. TextAt(doc[d], g) = doc[d].rows[i].text
  BY <1>1, ReadType, NamedOnce
<1> QED
  BY <1>1, <1>2 DEF Retained, Fast

\* What is read of a snapshot held fast is that snapshot.
LEMMA FastRead ==
  ASSUME ShownInv, NEW d \in Docs, Held(d), NEW g, NEW t, Fast(d, g, t)
  PROVE  Fast(d, g, TextAt(doc[d], g))
<1>1. PICK i \in 1..Len(doc[d].rows) :
        /\ GenOf(doc[d], i) = g /\ doc[d].rows[i].text = t
        /\ i < Len(doc[d].rows) \/ PageOf(d, g)
  BY DEF Fast
<1>2. i \in Retained(doc[d], g)
  BY <1>1 DEF Retained
<1>3. TextAt(doc[d], g) = t
  BY <1>1, <1>2, ReadType, NamedOnce
<1> QED
  BY <1>3

\* Whatever way a presentation begins, its page is drawn from rows that hold.
LEMMA BeginPresentShown ==
  ASSUME ShownInv, [Next]_vars, NEW c \in Calls, NEW v \in Viewers,
         NEW d \in Docs, NEW span \in Spans, BeginPresent(c, v, d, span)
  PROVE  ShownInv'
<1>1. TypeInv /\ TypeOK /\ minted \in 0..MaxContexts /\ minted' \in Nat /\ pages \subseteq Page
  <2>1. DocsInv /\ DocsInv'
    BY NextDocs DEF ShownInv
  <2> QED
    BY <2>1, BoundAssumption DEF DocsInv, RowsInv, TypeInv, TypeOK
<1>2. span \in SUBSET (1..Parts) /\ minted \in Nat /\ 1..minted \subseteq 1..MaxContexts
  BY <1>1, SpansType, BoundAssumption
<1>3. \A q \in Views : q.ctx <= minted
  BY DEF ShownInv, ContextsApart
<1>4. ASSUME NEW x \in Own(v, d)
      PROVE  /\ x \in 1..MaxContexts /\ x <= minted /\ x \in 0..MaxContexts
             /\ open[x] \in pages /\ open[x].doc = d /\ open[x].ctx = x
             /\ \A q \in Views : (q.ctx # 0 /\ q.ctx = x) => q.doc = d
  <2>1. x \in 1..MaxContexts /\ x <= minted /\ open[x] # None /\ open[x].doc = d
    BY <1>2 DEF Own
  <2>2. open[x] \in pages /\ open[x].ctx = x
    BY <2>1 DEF ShownInv, Remembered
  <2>3. open[x] \in Views /\ x # 0
    BY <2>1, <2>2 DEF Views
  <2> QED
    BY <2>1, <2>2, <2>3 DEF ShownInv, ContextsApart
<1> DEFINE x0 == doc[d]
           g0 == Now(x0)
<1>5. CASE Held(d)
  <2>1. /\ x0 \in Document /\ GensAscend(x0) /\ g0 = x0.gen /\ x0.gen \in Nat
        /\ Retained(x0, g0) # {} /\ TextAt(x0, g0) = Current(x0).text
        /\ g0 \in Nat /\ g0 <= x0.gen
    BY <1>5, ReadType
  <2> HIDE DEF g0
  <2>2. CASE PresentFresh(c, v, d, span)
    <3> DEFINE page == FullPage(minted + 1, v, d, g0, span)
    <3>1. minted' = minted + 1 /\ Showing(c, d, page) /\ minted + 1 \in 0..MaxContexts
      BY <1>1, <1>2, <2>2, BoundAssumption DEF PresentFresh, g0
    <3>2. page \in Page
      BY <1>1, <1>2, <2>1, <3>1, FullPageType
    <3>3. /\ page.doc = d /\ page.ctx = minted + 1 /\ page.target = g0
          /\ page.text = Current(x0).text /\ page.kind = "full"
      BY <2>1 DEF FullPage
    <3>4. \A q \in Views : (q.ctx # 0 /\ q.ctx = page.ctx) => q.doc = d
      BY <1>2, <1>3, <3>3
    <3> HIDE DEF page
    <3>5. minted <= minted' /\ page.ctx <= minted'
      BY <1>1, <1>2, <3>1, <3>3
    <3> QED
      BY <1>5, <2>1, <3>1, <3>2, <3>3, <3>4, <3>5, ShowingShown DEF g0
  <2>3. ASSUME NEW x \in 1..minted, PresentWhole(c, v, d, x, span) PROVE ShownInv'
    <3> DEFINE page == FullPage(x, v, d, g0, span)
    <3>1. minted' = minted /\ Showing(c, d, page) /\ x \in Own(v, d)
      BY <2>3 DEF PresentWhole, g0
    <3>2. page \in Page
      BY <1>1, <1>2, <1>4, <2>1, <3>1, FullPageType
    <3>3. /\ page.doc = d /\ page.ctx = x /\ page.target = g0
          /\ page.text = Current(x0).text /\ page.kind = "full"
      BY <2>1 DEF FullPage
    <3> HIDE DEF page
    <3>4. /\ minted <= minted' /\ page.ctx <= minted'
          /\ \A q \in Views : (q.ctx # 0 /\ q.ctx = page.ctx) => q.doc = d
      BY <1>2, <1>4, <3>1, <3>3
    <3> QED
      BY <1>5, <2>1, <3>1, <3>2, <3>3, <3>4, ShowingShown DEF g0
  <2>4. ASSUME NEW x \in 1..minted, PresentDelta(c, v, d, x, span) PROVE ShownInv'
    <3> DEFINE b == Baseline(x)
               part == IF b = g0 THEN {} ELSE span
               page == DeltaPage(x, v, d, b, g0, part)
    <3>1. /\ minted' = minted /\ Showing(c, d, page) /\ x \in Own(v, d)
          /\ covered[x] # <<>> /\ Retained(x0, b) # {}
      BY <2>4 DEF PresentDelta, g0
    <3>2. b \in Nat /\ part \in SUBSET (1..Parts)
      BY <1>1, <1>2, <1>4, <3>1, BaselineType
    <3>3. PageOf(d, b)
      <4>1. PICK q \in pages : q.ctx = x /\ q.target = b
        <5>1. Len(covered[x]) \in 1..Len(covered[x]) /\ x \in 1..MaxContexts
          BY <1>1, <1>4, <3>1, BaselineType
        <5> QED
          BY <5>1 DEF ShownInv, Remembered, Baseline
      <4>2. q \in Views /\ q.ctx # 0
        BY <4>1, <1>2 DEF Views
      <4> QED
        BY <1>4, <3>1, <4>1, <4>2 DEF PageOf
    <3>4. Fast(d, b, TextAt(x0, b))
      BY <1>5, <3>1, <3>3, SeenFast
    <3> HIDE DEF b, part
    <3>5. page \in Page
      BY <1>1, <1>4, <2>1, <3>1, <3>2, DeltaPageType
    <3>6. /\ page.doc = d /\ page.ctx = x /\ page.target = g0
          /\ page.text = Current(x0).text /\ page.base = b
          /\ page.from = TextAt(x0, b)
      BY <2>1 DEF DeltaPage
    <3> HIDE DEF page
    <3>7. /\ minted <= minted' /\ page.ctx <= minted'
          /\ \A q \in Views : (q.ctx # 0 /\ q.ctx = page.ctx) => q.doc = d
      BY <1>2, <1>4, <3>1, <3>6
    <3> QED
      BY <1>5, <2>1, <3>1, <3>4, <3>5, <3>6, <3>7, ShowingShown DEF g0
  <2>5. ASSUME NEW x \in 1..minted, PresentOn(c, v, d, x, span) PROVE ShownInv'
    <3> DEFINE p == open[x]
               g == p.target
               b == p.base
    <3>1. /\ minted' = minted /\ x \in Own(v, d) /\ Retained(x0, g) # {}
          /\ p.kind = "delta" => Retained(x0, b) # {}
          /\ Showing(c, d, IF p.kind = "full" THEN FullPage(x, v, d, g, span)
                           ELSE DeltaPage(x, v, d, b, g, span))
      BY <2>5 DEF PresentOn
    <3>2. p \in pages /\ p.doc = d /\ p \in Page
      BY <1>1, <1>4, <3>1
    <3>3. g \in Nat /\ p.kind \in {"full", "delta"} /\ PageOf(d, g)
      BY <3>2 DEF Page, PageOf
    <3>4. Fast(d, g, TextAt(x0, g)) /\ g <= x0.gen
      <4>1. PICK i \in Retained(x0, g) : TRUE
        BY <3>1
      <4>2. g <= x0.gen
        BY <2>1, <4>1, NamedOnce
      <4> QED
        BY <1>5, <3>1, <3>3, <4>2, SeenFast
    <3>5. g = g0 => TextAt(x0, g) = Current(x0).text
      BY <2>1
    <3>6. CASE p.kind = "full"
      <4> DEFINE page == FullPage(x, v, d, g, span)
      <4>1. Showing(c, d, page)
        BY <3>1, <3>6
      <4> HIDE DEF g, p
      <4>2. page \in Page
        BY <1>1, <1>2, <1>4, <3>1, <3>3, FullPageType
      <4>3. /\ page.doc = d /\ page.ctx = x /\ page.target = g
            /\ page.text = TextAt(x0, g) /\ page.kind = "full"
        BY DEF FullPage
      <4> HIDE DEF page
      <4>4. /\ minted <= minted' /\ page.ctx <= minted'
            /\ \A q \in Views : (q.ctx # 0 /\ q.ctx = page.ctx) => q.doc = d
        BY <1>2, <1>4, <3>1, <4>3
      <4> QED
        BY <1>5, <3>4, <3>5, <4>1, <4>2, <4>3, <4>4, ShowingShown DEF g0
    <3>7. CASE p.kind = "delta"
      <4> DEFINE page == DeltaPage(x, v, d, b, g, span)
      <4>1. Showing(c, d, page) /\ Retained(x0, b) # {}
        BY <3>1, <3>7
      <4>2. Fast(d, b, TextAt(x0, b))
        <5>1. Fast(d, b, p.from)
          BY <3>2, <3>7 DEF ShownInv, PagesFast
        <5> QED
          BY <1>5, <5>1, FastRead
      <4>3. b \in Nat
        <5>1. PICK i \in 1..Len(x0.rows) : GenOf(x0, i) = b
          BY <4>1 DEF Retained
        <5> QED
          BY <2>1, <5>1, RowType
      <4> HIDE DEF g, b, p
      <4>4. page \in Page
        BY <1>1, <1>2, <1>4, <3>1, <3>3, <4>1, <4>3, DeltaPageType
      <4>5. /\ page.doc = d /\ page.ctx = x /\ page.target = g
            /\ page.text = TextAt(x0, g) /\ page.base = b
            /\ page.from = TextAt(x0, b)
        BY DEF DeltaPage
      <4> HIDE DEF page
      <4>6. /\ minted <= minted' /\ page.ctx <= minted'
            /\ \A q \in Views : (q.ctx # 0 /\ q.ctx = page.ctx) => q.doc = d
        BY <1>2, <1>4, <3>1, <4>5
      <4> QED
        BY <1>5, <3>4, <3>5, <4>1, <4>2, <4>4, <4>5, <4>6, ShowingShown DEF g0
    <3> QED
      BY <3>3, <3>6, <3>7
  <2>6. CASE PresentRead(c, v, d, span)
    <3> DEFINE page == FullPage(0, v, d, g0, span)
    <3>1. minted' = minted /\ Showing(c, d, page) /\ 0 \in 0..MaxContexts
      BY <2>6, BoundAssumption DEF PresentRead, g0
    <3>2. page \in Page
      BY <1>1, <1>2, <2>1, <3>1, FullPageType
    <3>3. /\ page.doc = d /\ page.ctx = 0 /\ page.target = g0
          /\ page.text = Current(x0).text /\ page.kind = "full"
      BY <2>1 DEF FullPage
    <3> HIDE DEF page
    <3>4. minted <= minted' /\ page.ctx <= minted'
      BY <1>2, <3>1, <3>3
    <3> QED
      BY <1>5, <2>1, <3>1, <3>2, <3>3, <3>4, ShowingShown DEF g0
  <2> QED
    BY <2>2, <2>3, <2>4, <2>5, <2>6 DEF BeginPresent
<1>6. Held(d)
  BY DEF BeginPresent, PresentFresh, PresentWhole, PresentDelta, PresentOn, PresentRead
<1> QED
  BY <1>5, <1>6

\* A page is recorded: the row it shows, if it is the current one, is looked at
\* again, and its own page pins it from now on.
LEMMA SavePresentShown ==
  ASSUME ShownInv, [Next]_vars, NEW c \in Calls, SavePresent(c)
  PROVE  ShownInv'
<1> PICK k : k = call[c]
  OBVIOUS
<1> DEFINE p == k.page
           d == p.doc
<1>1. DocsInv /\ RowsInv /\ TypeInv /\ TypeOK /\ DocsInv'
  BY NextDocs DEF ShownInv, DocsInv, RowsInv, TypeInv
<1>2. /\ k.op = "present"
      /\ k.current => StillHeld(k)
      /\ pages' = pages \cup {p}
      /\ open' = IF p.ctx = 0 THEN open ELSE [open EXCEPT ![p.ctx] = p]
      /\ covered' = IF Completes(p) /\ ~Covers(p.ctx, p.target)
                     THEN [covered EXCEPT ![p.ctx] = Append(covered[p.ctx], p.target)]
                     ELSE covered
      /\ call' = [call EXCEPT ![c] = Idle]
      /\ minted' = minted
  BY DEF SavePresent, End, Proceed
<1>3. /\ k \in PresentCall /\ p \in Page /\ k.current \in BOOLEAN /\ d \in Docs
      /\ p.ctx \in 0..MaxContexts /\ p.target \in Nat /\ Held(d)
  BY <1>1, <1>2, PresentCallType
<1>4. c \in Presenting /\ p \in Views /\ FlightFast(k)
  BY <1>2 DEF Presenting, Views, ShownInv, FlightsFast
<1>5. /\ call \in [Calls -> Call]
      /\ \A b \in Presenting' : b \in Presenting /\ b # c /\ call'[b] = call[b]
  BY <1>1, <1>2 DEF TypeOK, Presenting, Idle
<1>6. Views' \subseteq Views
  BY <1>2, <1>4, <1>5 DEF Views
<1>7. ContextsApart'
  BY <1>2, <1>6 DEF ContextsApart, ShownInv
<1>8. Remembered'
  <2>1. ASSUME NEW x \in 1..MaxContexts, open'[x] # None
        PROVE  open'[x] \in pages' /\ open'[x].ctx = x
    <3>1. CASE p.ctx = x
      <4>1. open'[x] = p
        BY <1>1, <1>2, <2>1, <3>1 DEF TypeOK
      <4> QED
        BY <1>2, <3>1, <4>1
    <3>2. CASE p.ctx # x
      <4>1. open'[x] = open[x]
        BY <1>1, <1>2, <3>2 DEF TypeOK
      <4> QED
        BY <1>2, <2>1, <4>1 DEF ShownInv, Remembered
    <3> QED
      BY <3>1, <3>2
  <2>2. ASSUME NEW x \in 1..MaxContexts, NEW i \in 1..Len(covered'[x])
        PROVE  \E q \in pages' : q.ctx = x /\ q.target = covered'[x][i]
    <3>1. CASE covered'[x] = covered[x]
      BY <1>2, <2>2, <3>1 DEF ShownInv, Remembered
    <3>2. CASE covered'[x] # covered[x]
      <4>1. p.ctx = x /\ covered'[x] = Append(covered[x], p.target)
        BY <1>1, <1>2, <3>2 DEF TypeOK
      <4>2. covered[x] \in Seq(Nat)
        BY <1>1 DEF TypeOK
      <4>3. CASE i \in 1..Len(covered[x])
        <5>1. covered'[x][i] = covered[x][i]
          BY <1>3, <4>1, <4>2, <4>3
        <5> QED
          BY <1>2, <4>3, <5>1 DEF ShownInv, Remembered
      <4>4. CASE i \notin 1..Len(covered[x])
        <5>1. covered'[x][i] = p.target
          BY <1>3, <2>2, <4>1, <4>2, <4>4
        <5> QED
          BY <1>2, <4>1, <5>1
      <4> QED
        BY <4>3, <4>4
    <3> QED
      BY <3>1, <3>2
  <2> QED
    BY <2>1, <2>2 DEF Remembered
<1>9. pages \subseteq pages'
  BY <1>2
<1>10. ASSUME NEW e \in Docs, NEW g, NEW t, Fast(e, g, t) PROVE Fast(e, g, t)'
  BY <1>1, <1>9, <1>10, FastStays
<1>11. Fast(d, p.target, p.text)'
  <2>1. CASE ~k.current
    BY <1>3, <1>4, <1>10, <2>1 DEF FlightFast
  <2>2. CASE k.current
    <3> DEFINE x == doc[d]
               y == doc'[d]
               n == Len(x.rows)
    <3>1. /\ x \in Document /\ GensAscend(x) /\ x.rows # <<>> /\ n \in Nat \ {0}
          /\ doc \in [Docs -> Document]
      BY <1>1, <1>3, ReadType DEF TypeOK
    <3>2. n = k.rev /\ GenOf(x, n) = p.target
      BY <1>2, <2>2 DEF StillHeld
    <3>3. x.rows[n].text = p.text
      BY <1>4, <2>2, <3>2 DEF FlightFast, Now, Current
    <3>4. PICK done \in BOOLEAN : doc' = [doc EXCEPT ![d] = Marked(x, done)]
      BY <1>1, <2>2, SavePresentMarks DEF Recalled
    <3>5. RowStays(x, y, n)
      <4>1. y = Marked(x, done)
        BY <1>3, <3>1, <3>4
      <4> QED
        BY <3>1, <4>1, MarkLeaves
    <3>6. PageOf(d, p.target)'
      BY <1>2 DEF PageOf
    <3> QED
      BY <3>2, <3>3, <3>5, <3>6 DEF RowStays, Fast
  <2> QED
    BY <2>1, <2>2
<1>12. p.kind = "delta" => Fast(d, p.base, p.from)'
  BY <1>3, <1>4, <1>10 DEF FlightFast
<1>13. PagesFast'
  <2> SUFFICES ASSUME NEW q \in pages \cup {p}
               PROVE  /\ Fast(q.doc, q.target, q.text)'
                      /\ q.kind = "delta" => Fast(q.doc, q.base, q.from)'
    BY <1>2 DEF PagesFast
  <2>1. CASE q \in pages
    <3>1. q.doc \in Docs
      BY <1>1, <2>1 DEF TypeOK, Page
    <3> QED
      BY <1>10, <2>1, <3>1 DEF ShownInv, PagesFast
  <2>2. CASE q = p
    BY <1>11, <1>12, <2>2
  <2> QED
    BY <2>1, <2>2
<1>14. FlightsFast'
  <2> SUFFICES ASSUME NEW b \in Presenting' PROVE FlightFast(call[b])'
    BY DEF FlightsFast
  <2>1. b \in Presenting /\ call'[b] = call[b] /\ b \in Calls /\ call[b].op = "present"
    BY <1>5 DEF Presenting
  <2>2. /\ call[b] \in PresentCall /\ call[b].page.doc \in Docs
        /\ Held(call[b].page.doc) /\ FlightFast(call[b])
    BY <1>1, <2>1, PresentCallType DEF ShownInv, FlightsFast
  <2>3. ASSUME NEW j, j = call[b] PROVE FlightFast(j)'
    <3>1. j \in PresentCall /\ j.page.doc \in Docs /\ Held(j.page.doc) /\ FlightFast(j)
      BY <2>2, <2>3
    <3> QED
      BY <1>1, <1>9, <3>1, FlightStays
  <2> QED
    BY <2>1, <2>3
<1> QED
  BY <1>1, <1>7, <1>8, <1>13, <1>14 DEF ShownInv

\* No page is recorded, and none is in flight, when the system starts.
LEMMA InitShown == Init => ShownInv
<1> SUFFICES ASSUME Init PROVE ShownInv
  OBVIOUS
<1>1. DocsInv
  BY InitDocs
<1>2. pages = {} /\ Presenting = {}
  BY DEF Init, Presenting, Idle
<1>3. ContextsApart /\ PagesFast /\ FlightsFast
  BY <1>2 DEF ContextsApart, Views, PagesFast, FlightsFast
<1>4. Remembered
  BY DEF Init, Remembered
<1> QED
  BY <1>1, <1>3, <1>4 DEF ShownInv

\* In every reachable state what was shown is held fast.
THEOREM ShownInvariant == Spec => []ShownInv
<1>1. ShownInv /\ [Next]_vars => ShownInv'
  <2> SUFFICES ASSUME ShownInv, [Next]_vars PROVE ShownInv'
    OBVIOUS
  <2>1. RowsInv
    BY DEF ShownInv, DocsInv
  <2> QED
    BY <2>1, ReviewSteps, QuietShown, BeginPresentShown, SavePresentShown
<1> QED
  BY InitShown, <1>1, PTL DEF Spec

\* A snapshot any page of which was put in front of somebody is kept as it was
\* shown, under the generation it was named by, and so is the snapshot a delta
\* was drawn from: for any number of viewers, calls in flight and documents.
THEOREM ShownStays == Spec => []ShownIsRetained
<1>1. ShownInv => ShownIsRetained
  <2> SUFFICES ASSUME ShownInv, NEW p \in pages
               PROVE  LET x == doc[p.doc]
                      IN /\ \E i \in Retained(x, p.target) : x.rows[i].text = p.text
                         /\ p.kind = "delta" =>
                              \E i \in Retained(x, p.base) : x.rows[i].text = p.from
    BY DEF ShownIsRetained
  <2>1. ASSUME NEW d, NEW g, NEW t, Fast(d, g, t)
        PROVE  \E i \in Retained(doc[d], g) : doc[d].rows[i].text = t
    BY <2>1 DEF Fast, Retained
  <2> QED
    BY <2>1 DEF ShownInv, PagesFast
<1> QED
  BY <1>1, ShownInvariant, PTL

----------------------------------------------------------------------------
(***************************************************************************)
(* What was signed was shown: a seal stands only on a snapshot that was    *)
(* delivered, whole, to the one who approved it.                           *)
(*                                                                         *)
(* The argument has two halves.  A review context is one viewer's, its     *)
(* deltas go forward, and each generation it covers was delivered in it    *)
(* from generations it had covered before; so a context that covers a      *)
(* generation has it delivered, and goes on covering it.  And an approval  *)
(* is planned on such a context for the generation its state names, and    *)
(* seals that generation or nothing: the stamp of the row tells whether    *)
(* the text was written since.                                             *)
(***************************************************************************)

----------------------------------------------------------------------------
(* The invariant.                                                          *)

\* A context is one viewer's.
ViewersApart ==
  \A p, q \in Views : (p.ctx # 0 /\ p.ctx = q.ctx) => p.by = q.by

\* A delta leads from a generation to a later one, or shows nothing changed.
Forward ==
  \A p \in Views : p.kind = "delta" => p.base \in Nat /\ p.base <= p.target

\* Generation h of d was shown in context x: whole, or since one it covers.
Given(x, d, h) ==
  \/ ShownWhole(x, d, h)
  \/ \E j \in 1..Len(covered[x]) :
       covered[x][j] < h /\ ShownSince(x, d, covered[x][j], h)

CoverGiven ==
  \A x \in 1..MaxContexts : \A i \in 1..Len(covered[x]) :
    /\ open[x] # None
    /\ covered[x][i] <= doc[open[x].doc].gen
    /\ Given(x, open[x].doc, covered[x][i])

ViewInv == ShownInv /\ ViewersApart /\ Forward /\ CoverGiven

\* What a call in flight may seal.  An approval's write rests on a context of
\* its caller's that covers the generation its state names and, while the
\* document is in that state, holds the text it has; no other call seals.
SealPlan(k) ==
  /\ k.op \in {"edit", "close"} => (k.write # None => k.write.seal = None)
  /\ k.op = "approve" =>
       /\ k.st.stamp <= doc[k.doc].stamp
       /\ k.write # None =>
            /\ Basis(k.ctx, k.by, k.doc, k.st.gen)
            /\ k.write.seal = k.by
            /\ StateOf(doc[k.doc]) = k.st
                 => k.write.text = Current(doc[k.doc]).text

SealPlans == \A c \in Calls : SealPlan(call[c])

ApprovalsRest == \A a \in approvals : Basis(a.ctx, a.by, a.doc, a.gen)

SealRecorded(A, d, g, v) ==
  \E a \in A : a.doc = d /\ a.gen = g /\ a.by = v

SealsRecorded ==
  \A d \in Docs : \A i \in 1..Len(doc[d].rows) :
    doc[d].rows[i].sealed # None =>
      SealRecorded(approvals, d, GenOf(doc[d], i), doc[d].rows[i].sealed)

SignedInv == ViewInv /\ SealPlans /\ ApprovalsRest /\ SealsRecorded

----------------------------------------------------------------------------
(* Contexts are one viewer's, and what they cover was given.               *)

\* What the lemmas below read off the invariant.
LEMMA ViewTypes ==
  ASSUME ViewInv
  PROVE  /\ RowsInv /\ TypeInv /\ TypeOK /\ DocsInv
         /\ doc \in [Docs -> Document] /\ pages \subseteq Page
         /\ call \in [Calls -> Call]
         /\ minted \in Nat /\ 1..minted \subseteq 1..MaxContexts
<1>1. RowsInv /\ TypeInv /\ TypeOK /\ DocsInv /\ minted \in 0..MaxContexts
  BY DEF ViewInv, ShownInv, DocsInv, RowsInv, TypeInv, TypeOK
<1> QED
  BY <1>1, BoundAssumption DEF TypeOK

\* What a context covers is a generation.
LEMMA CoveredType ==
  ASSUME ViewInv, NEW x \in 1..MaxContexts
  PROVE  /\ covered[x] \in Seq(Nat) /\ Len(covered[x]) \in Nat
         /\ \A i \in 1..Len(covered[x]) : covered[x][i] \in Nat
<1>1. covered[x] \in Seq(Nat)
  BY ViewTypes DEF TypeOK
<1> QED
  BY <1>1

\* A document some page shows is there, and its generation never falls.
LEMMA GenGrows ==
  ASSUME ViewInv, [Next]_vars, NEW p \in pages
  PROVE  /\ p.doc \in Docs
         /\ doc[p.doc].gen \in Nat /\ doc'[p.doc].gen \in Nat
         /\ doc'[p.doc].gen >= doc[p.doc].gen
<1>1. p.doc \in Docs
  BY ViewTypes DEF Page
<1>2. doc[p.doc] \in Document /\ doc'[p.doc] \in Document
  BY <1>1, ViewTypes, NextDocs DEF DocsInv, RowsInv, TypeInv, TypeOK
<1>3. doc[p.doc].rows # <<>>
  <2>1. PICK i \in 1..Len(doc[p.doc].rows) : TRUE
    BY DEF ViewInv, ShownInv, PagesFast, Fast
  <2> QED
    BY <1>2, <2>1 DEF Document
<1>4. Keeps(doc[p.doc], doc'[p.doc], Pinned(p.doc))
  BY <1>1, <1>3, StepKeeps, ViewTypes DEF Held
<1> QED
  BY <1>1, <1>2, <1>4 DEF Keeps, Document

\* A step that presents nothing and records no page.
LEMMA QuietViews ==
  ASSUME ViewInv, [Next]_vars, UNCHANGED reviews,
         \A c \in Calls : call'[c].op = "present" => call'[c] = call[c]
  PROVE  ViewersApart' /\ Forward' /\ CoverGiven'
<1>1. pages' = pages /\ covered' = covered /\ open' = open
  BY DEF reviews
<1>2. Views' \subseteq Views
  BY <1>1 DEF Views, Presenting
<1>3. ViewersApart' /\ Forward'
  BY <1>2 DEF ViewInv, ViewersApart, Forward
<1>4. ASSUME NEW x \in 1..MaxContexts, NEW i \in 1..Len(covered[x])
      PROVE  /\ open[x] # None
             /\ covered[x][i] <= doc'[open[x].doc].gen
             /\ Given(x, open[x].doc, covered[x][i])
  <2>1. /\ open[x] # None /\ covered[x][i] <= doc[open[x].doc].gen
        /\ Given(x, open[x].doc, covered[x][i])
    BY <1>4 DEF ViewInv, CoverGiven
  <2>2. open[x] \in pages /\ covered[x][i] \in Nat
    BY <2>1, CoveredType DEF ViewInv, ShownInv, Remembered
  <2>3. /\ doc[open[x].doc].gen \in Nat /\ doc'[open[x].doc].gen \in Nat
        /\ doc'[open[x].doc].gen >= doc[open[x].doc].gen
    BY <2>2, GenGrows
  <2> QED
    BY <2>1, <2>2, <2>3
<1>5. \A x, d, h : Given(x, d, h) => Given(x, d, h)'
  BY <1>1 DEF Given, ShownWhole, ShownSince
<1> QED
  BY <1>1, <1>3, <1>4, <1>5 DEF CoverGiven

\* A page is begun, by its context's viewer and going forward.
LEMMA ShowingViews ==
  ASSUME ViewInv, NEW c \in Calls, NEW d, NEW page, Showing(c, d, page),
         \A q \in Views : (q.ctx # 0 /\ q.ctx = page.ctx) => q.by = page.by,
         page.kind = "delta" => page.base \in Nat /\ page.base <= page.target
  PROVE  ViewersApart' /\ Forward' /\ CoverGiven'
<1> DEFINE r == [op |-> "present", page |-> page, rev |-> Len(doc[d].rows),
                 current |-> page.target = Now(doc[d])]
<1>1. /\ call' = [call EXCEPT ![c] = r]
      /\ pages' = pages /\ covered' = covered /\ open' = open /\ doc' = doc
  BY DEF Showing, Begin, store
<1>2. r.page = page
  OBVIOUS
<1> HIDE DEF r
<1>3. \A b \in Calls : call'[b] = IF b = c THEN r ELSE call[b]
  BY <1>1, ViewTypes
<1>4. Views' \subseteq Views \cup {page}
  BY <1>1, <1>2, <1>3 DEF Views, Presenting
<1>5. ViewersApart'
  <2> SUFFICES ASSUME NEW p \in Views', NEW q \in Views', p.ctx # 0, p.ctx = q.ctx
               PROVE  p.by = q.by
    BY DEF ViewersApart
  <2> QED
    BY <1>4 DEF ViewInv, ViewersApart
<1>6. Forward'
  BY <1>4 DEF ViewInv, Forward
<1>7. CoverGiven'
  BY <1>1 DEF ViewInv, CoverGiven, Given, ShownWhole, ShownSince
<1> QED
  BY <1>5, <1>6, <1>7

\* Every way to begin a presentation does so.
LEMMA BeginPresentViews ==
  ASSUME ViewInv, NEW c \in Calls, NEW v \in Viewers,
         NEW d \in Docs, NEW span \in Spans, BeginPresent(c, v, d, span)
  PROVE  ViewersApart' /\ Forward' /\ CoverGiven'
<1> DEFINE Done == ViewersApart' /\ Forward' /\ CoverGiven'
<1>1. ASSUME NEW x \in Own(v, d)
      PROVE  /\ x \in 1..MaxContexts /\ open[x] \in Views /\ open[x].doc = d
             /\ \A q \in Views : (q.ctx # 0 /\ q.ctx = x) => q.by = v
  <2>1. x \in 1..MaxContexts /\ open[x] # None /\ open[x].by = v /\ open[x].doc = d
    BY ViewTypes DEF Own
  <2>2. open[x] \in Views /\ open[x].ctx = x
    BY <2>1 DEF ViewInv, ShownInv, Remembered, Views
  <2> QED
    BY <2>1, <2>2 DEF ViewInv, ViewersApart
<1>2. Held(d)
  BY DEF BeginPresent, PresentFresh, PresentWhole, PresentDelta, PresentOn, PresentRead
<1>3. Now(doc[d]) = doc[d].gen
  BY <1>2, ReadType DEF ViewInv
<1> DEFINE g0 == Now(doc[d])
<1>4. CASE PresentFresh(c, v, d, span)
  <2> DEFINE page == FullPage(minted + 1, v, d, g0, span)
  <2>1. Showing(c, d, page)
    BY <1>4 DEF PresentFresh
  <2>2. page.ctx = minted + 1 /\ page.kind = "full"
    BY DEF FullPage
  <2> HIDE DEF page
  <2>3. \A q \in Views : q.ctx # page.ctx
    <3>1. \A q \in Views : q.ctx <= minted
      BY DEF ViewInv, ShownInv, ContextsApart
    <3> QED
      BY <2>2, <3>1, ViewTypes
  <2> QED
    BY <2>1, <2>2, <2>3, ShowingViews
<1>5. ASSUME NEW x \in 1..minted, PresentWhole(c, v, d, x, span) PROVE Done
  <2> DEFINE page == FullPage(x, v, d, g0, span)
  <2>1. Showing(c, d, page) /\ x \in Own(v, d)
    BY <1>5 DEF PresentWhole
  <2>2. page.ctx = x /\ page.by = v /\ page.kind = "full"
    BY DEF FullPage
  <2> HIDE DEF page
  <2> QED
    BY <1>1, <2>1, <2>2, ShowingViews
<1>6. ASSUME NEW x \in 1..minted, PresentDelta(c, v, d, x, span) PROVE Done
  <2> DEFINE b == Baseline(x)
             part == IF b = g0 THEN {} ELSE span
             page == DeltaPage(x, v, d, b, g0, part)
  <2>1. Showing(c, d, page) /\ x \in Own(v, d) /\ covered[x] # <<>>
    BY <1>6 DEF PresentDelta
  <2>2. /\ page.ctx = x /\ page.by = v /\ page.kind = "delta"
        /\ page.base = b /\ page.target = g0
    BY DEF DeltaPage
  <2>3. b \in Nat /\ b <= g0
    <3>1. Len(covered[x]) \in 1..Len(covered[x]) /\ b \in Nat
      BY <1>1, <2>1, BaselineType, ViewTypes
    <3>2. b <= doc[open[x].doc].gen
      BY <1>1, <2>1, <3>1 DEF ViewInv, CoverGiven, Baseline
    <3> QED
      BY <1>1, <1>3, <2>1, <3>1, <3>2
  <2> HIDE DEF page, b, g0
  <2> QED
    BY <1>1, <2>1, <2>2, <2>3, ShowingViews
<1>7. ASSUME NEW x \in 1..minted, PresentOn(c, v, d, x, span) PROVE Done
  <2> DEFINE p == open[x]
  <2>1. /\ x \in Own(v, d)
        /\ Showing(c, d, IF p.kind = "full"
                         THEN FullPage(x, v, d, p.target, span)
                         ELSE DeltaPage(x, v, d, p.base, p.target, span))
    BY <1>7 DEF PresentOn
  <2>2. CASE p.kind = "full"
    <3> DEFINE page == FullPage(x, v, d, p.target, span)
    <3>1. Showing(c, d, page)
      BY <2>1, <2>2
    <3>2. page.ctx = x /\ page.by = v /\ page.kind = "full"
      BY DEF FullPage
    <3> HIDE DEF page
    <3> QED
      BY <1>1, <2>1, <3>1, <3>2, ShowingViews
  <2>3. CASE p.kind # "full"
    <3> DEFINE page == DeltaPage(x, v, d, p.base, p.target, span)
    <3>1. Showing(c, d, page)
      BY <2>1, <2>3
    <3>2. /\ page.ctx = x /\ page.by = v
          /\ page.base = p.base /\ page.target = p.target
      BY DEF DeltaPage
    <3> HIDE DEF page
    <3>3. p \in pages /\ p \in Views
      BY <1>1, <2>1 DEF Own, ViewInv, ShownInv, Remembered
    <3>4. p.kind = "delta"
      BY <2>3, <3>3, ViewTypes DEF Page
    <3>5. p.base \in Nat /\ p.base <= p.target
      BY <3>3, <3>4 DEF ViewInv, Forward
    <3> QED
      BY <1>1, <2>1, <3>1, <3>2, <3>5, ShowingViews
  <2> QED
    BY <2>2, <2>3
<1>8. CASE PresentRead(c, v, d, span)
  <2> DEFINE page == FullPage(0, v, d, g0, span)
  <2>1. Showing(c, d, page)
    BY <1>8 DEF PresentRead
  <2>2. page.ctx = 0 /\ page.kind = "full"
    BY DEF FullPage
  <2> HIDE DEF page
  <2> QED
    BY <2>1, <2>2, ShowingViews
<1> QED
  BY <1>4, <1>5, <1>6, <1>7, <1>8 DEF BeginPresent

\* Pages that show every part do so with more pages beside them.
LEMMA Unions ==
  ASSUME NEW A, NEW B, A \subseteq B, NEW S,
         \A q \in B : q.span \subseteq S, UNION {q.span : q \in A} = S
  PROVE  UNION {q.span : q \in B} = S
<1>1. ASSUME NEW s \in S PROVE \E q \in B : s \in q.span
  <2>1. s \in UNION {q.span : q \in A}
    OBVIOUS
  <2> QED
    BY <2>1
<1> QED
  BY <1>1

\* What was given stays given.
LEMMA GivenStays ==
  ASSUME pages \subseteq pages', pages' \subseteq Page, NEW x, NEW d, NEW h,
         \A j \in 1..Len(covered[x]) :
           j \in 1..Len(covered'[x]) /\ covered'[x][j] = covered[x][j],
         Given(x, d, h)
  PROVE  Given(x, d, h)'
<1>1. \A q \in pages' : q.span \subseteq 1..Parts
  BY DEF Page
<1>2. ShownWhole(x, d, h) => ShownWhole(x, d, h)'
  <2> SUFFICES ASSUME ShownWhole(x, d, h) PROVE ShownWhole(x, d, h)'
    OBVIOUS
  <2> DEFINE Of(P) == {q \in P : /\ q.ctx = x /\ q.doc = d
                                 /\ q.kind = "full" /\ q.target = h}
  <2>1. UNION {q.span : q \in Of(pages)} = 1..Parts
    BY DEF ShownWhole
  <2>2. Of(pages) \subseteq Of(pages')
    OBVIOUS
  <2>3. \A q \in Of(pages') : q.span \subseteq 1..Parts
    BY <1>1
  <2>4. UNION {q.span : q \in Of(pages')} = 1..Parts
    <3> HIDE DEF Of
    <3> QED
      BY <2>1, <2>2, <2>3, Unions
  <2> QED
    BY <2>4 DEF ShownWhole
<1>3. ASSUME NEW b, ShownSince(x, d, b, h) PROVE ShownSince(x, d, b, h)'
  <2> DEFINE Of(P) == {q \in P : /\ q.ctx = x /\ q.doc = d
                                 /\ q.kind = "delta" /\ q.base = b
                                 /\ q.target = h}
  <2>1. UNION {q.span : q \in Of(pages)} = 1..Parts
    BY <1>3 DEF ShownSince
  <2>2. Of(pages) \subseteq Of(pages')
    OBVIOUS
  <2>3. \A q \in Of(pages') : q.span \subseteq 1..Parts
    BY <1>1
  <2>4. UNION {q.span : q \in Of(pages')} = 1..Parts
    <3> HIDE DEF Of
    <3> QED
      BY <2>1, <2>2, <2>3, Unions
  <2> QED
    BY <2>4 DEF ShownSince
<1> QED
  BY <1>2, <1>3 DEF Given

\* The page that completes its target gives it.
LEMMA CompletesGiven ==
  ASSUME ViewInv, NEW p \in Views, pages' = pages \cup {p}, pages' \subseteq Page,
         p.ctx \in 1..MaxContexts, Completes(p), ~Covers(p.ctx, p.target)
  PROVE  \/ ShownWhole(p.ctx, p.doc, p.target)'
         \/ \E b \in Nat : /\ b < p.target /\ Covers(p.ctx, b)
                           /\ ShownSince(p.ctx, p.doc, b, p.target)'
<1> DEFINE Of == {r \in pages' : /\ r.ctx = p.ctx /\ r.by = p.by /\ r.doc = p.doc
                                 /\ r.kind = p.kind /\ r.base = p.base
                                 /\ r.target = p.target}
<1>1. \A q \in pages' : q.span \subseteq 1..Parts
  BY DEF Page
<1>2. p \in pages' /\ p \in Page /\ p.kind \in {"full", "delta"} /\ p.target \in Nat
  BY DEF Page
<1>3. Shown(p) = UNION {q.span : q \in Of}
  BY DEF Shown
<1>4. CASE p.kind = "full"
  <2> DEFINE Whole == {q \in pages' : /\ q.ctx = p.ctx /\ q.doc = p.doc
                                      /\ q.kind = "full" /\ q.target = p.target}
  <2>1. UNION {q.span : q \in Of} = 1..Parts
    BY <1>3, <1>4 DEF Completes
  <2>2. Of \subseteq Whole /\ \A q \in Whole : q.span \subseteq 1..Parts
    BY <1>1, <1>4
  <2>3. UNION {q.span : q \in Whole} = 1..Parts
    <3> HIDE DEF Of, Whole
    <3> QED
      BY <2>1, <2>2, Unions
  <2> QED
    BY <2>3 DEF ShownWhole
<1>5. CASE p.kind = "delta"
  <2> DEFINE Since == {q \in pages' : /\ q.ctx = p.ctx /\ q.doc = p.doc
                                      /\ q.kind = "delta" /\ q.base = p.base
                                      /\ q.target = p.target}
  <2>1. Covers(p.ctx, p.base)
    BY <1>5 DEF Completes, Covers
  <2>2. p.base # p.target
    BY <2>1
  <2>3. p.base \in Nat /\ p.base <= p.target
    BY <1>5 DEF ViewInv, Forward
  <2>4. UNION {q.span : q \in Of} = 1..Parts
    BY <1>3, <2>2 DEF Completes
  <2>5. Of \subseteq Since /\ \A q \in Since : q.span \subseteq 1..Parts
    BY <1>1, <1>5
  <2>6. UNION {q.span : q \in Since} = 1..Parts
    <3> HIDE DEF Of, Since
    <3> QED
      BY <2>4, <2>5, Unions
  <2>7. ShownSince(p.ctx, p.doc, p.base, p.target)'
    BY <2>6 DEF ShownSince
  <2>8. p.base < p.target
    BY <1>2, <2>2, <2>3
  <2> QED
    BY <2>1, <2>3, <2>7, <2>8
<1> QED
  BY <1>2, <1>4, <1>5

\* A page is recorded: its context goes on covering what it covered, and what it
\* covers besides was given.
LEMMA SavePresentViews ==
  ASSUME ViewInv, [Next]_vars, NEW c \in Calls, SavePresent(c)
  PROVE  ViewersApart' /\ Forward' /\ CoverGiven'
<1> PICK p : p = call[c].page
  OBVIOUS
<1>1. /\ call[c].op = "present"
      /\ pages' = pages \cup {p}
      /\ open' = IF p.ctx = 0 THEN open ELSE [open EXCEPT ![p.ctx] = p]
      /\ covered' = IF Completes(p) /\ ~Covers(p.ctx, p.target)
                     THEN [covered EXCEPT ![p.ctx] = Append(covered[p.ctx], p.target)]
                     ELSE covered
      /\ call' = [call EXCEPT ![c] = Idle]
  BY DEF SavePresent, End, Proceed
<1>2. /\ p \in Page /\ p.doc \in Docs /\ p.ctx \in 0..MaxContexts /\ p.target \in Nat
  BY <1>1, PresentCallType, ViewTypes
<1>3. p \in Views /\ p.target <= doc[p.doc].gen
  <2>1. c \in Presenting
    BY <1>1 DEF Presenting
  <2> QED
    BY <2>1 DEF Views, ViewInv, ShownInv, FlightsFast, FlightFast
<1>4. /\ pages \subseteq pages' /\ pages' \subseteq Page
      /\ covered \in [1..MaxContexts -> Seq(Nat)]
      /\ open \in [1..MaxContexts -> Page \cup {None}]
  BY <1>1, <1>2, ViewTypes DEF TypeOK
<1>5. Views' \subseteq Views
  <2>1. \A b \in Calls : call'[b] = IF b = c THEN Idle ELSE call[b]
    BY <1>1, ViewTypes
  <2> QED
    BY <1>1, <1>3, <2>1 DEF Views, Presenting, Idle
<1>6. ViewersApart' /\ Forward'
  BY <1>5 DEF ViewInv, ViewersApart, Forward
<1>7. ASSUME NEW x \in 1..MaxContexts
      PROVE  \A j \in 1..Len(covered[x]) :
               j \in 1..Len(covered'[x]) /\ covered'[x][j] = covered[x][j]
  <2>1. covered'[x] = covered[x] \/ covered'[x] = Append(covered[x], p.target)
    BY <1>1, <1>4
  <2>2. covered[x] \in Seq(Nat)
    BY <1>4
  <2> QED
    BY <1>2, <2>1, <2>2
<1>8. ASSUME NEW x \in 1..MaxContexts, NEW q \in pages, NEW i \in 1..Len(covered[x]),
             q = open[x]
      PROVE  /\ open'[x] # None /\ open'[x].doc = q.doc
             /\ covered[x][i] <= doc'[q.doc].gen
             /\ Given(x, q.doc, covered[x][i])
  <2>1. q.ctx = x /\ covered[x][i] <= doc[q.doc].gen /\ Given(x, q.doc, covered[x][i])
    BY <1>8 DEF ViewInv, CoverGiven, ShownInv, Remembered
  <2>2. open'[x] = q \/ (open'[x] = p /\ p.ctx = x)
    BY <1>1, <1>2, <1>4, <1>8
  <2>3. q \in Views /\ x # 0
    BY DEF Views
  <2>4. open'[x] # None /\ open'[x].doc = q.doc
    BY <1>2, <1>3, <1>8, <2>1, <2>2, <2>3, PageAssumption, ViewTypes
       DEF ViewInv, ShownInv, ContextsApart
  <2>5. covered[x][i] \in Nat
    BY CoveredType
  <2>6. covered[x][i] <= doc'[q.doc].gen
    BY <2>1, <2>5, GenGrows
  <2> QED
    BY <2>1, <2>4, <2>6
<1>9. ASSUME NEW x \in 1..MaxContexts, NEW i \in 1..Len(covered[x])
      PROVE  open[x] \in pages
  BY <1>9 DEF ViewInv, CoverGiven, ShownInv, Remembered
<1>10. ASSUME NEW x \in 1..MaxContexts, NEW i \in 1..Len(covered'[x]),
              i \in 1..Len(covered[x])
       PROVE  /\ open'[x] # None
              /\ covered'[x][i] <= doc'[open'[x].doc].gen
              /\ Given(x, open[x].doc, covered[x][i])'
  <2> PICK q : q = open[x]
    OBVIOUS
  <2> PICK h : h = covered[x][i]
    OBVIOUS
  <2>1. q \in pages
    BY <1>9, <1>10
  <2>2. /\ open'[x] # None /\ open'[x].doc = q.doc
        /\ h <= doc'[q.doc].gen /\ Given(x, q.doc, h)
    BY <1>8, <1>10, <2>1
  <2>3. covered'[x][i] = h
    BY <1>7, <1>10
  <2>4. Given(x, q.doc, h)'
    BY <1>4, <1>7, <2>2, GivenStays
  <2>5. Given(x, open[x].doc, covered[x][i])'
    BY <2>2, <2>3, <2>4 DEF Given, ShownWhole, ShownSince
  <2> QED
    BY <2>2, <2>3, <2>5
<1>11. ASSUME NEW x \in 1..MaxContexts, NEW i \in 1..Len(covered'[x]),
              i \notin 1..Len(covered[x])
       PROVE  /\ open'[x] # None
              /\ covered'[x][i] <= doc'[open'[x].doc].gen
              /\ Given(x, open[x].doc, covered[x][i])'
  <2>1. /\ x = p.ctx /\ covered'[x] = Append(covered[x], p.target)
        /\ Completes(p) /\ ~Covers(p.ctx, p.target)
    BY <1>1, <1>4, <1>11
  <2>2. covered[x] \in Seq(Nat)
    BY <1>4
  <2>3. covered'[x][i] = p.target
    BY <1>2, <1>11, <2>1, <2>2
  <2>4. open'[x] = p /\ p # None
    BY <1>1, <1>2, <1>4, <2>1, PageAssumption
  <2>5. p.target <= doc'[p.doc].gen
    <3>1. doc[p.doc].gen \in Nat /\ doc'[p.doc].gen \in Nat
      BY <1>2, ViewTypes, NextDocs DEF DocsInv, RowsInv, TypeInv, TypeOK, Document
    <3>2. Held(p.doc)
      BY <1>1, PresentCallType, ViewTypes
    <3>3. doc'[p.doc].gen >= doc[p.doc].gen
      BY <1>2, <3>2, StepKeeps, ViewTypes DEF Keeps
    <3> QED
      BY <1>2, <1>3, <3>1, <3>3
  <2>6. Given(x, p.doc, p.target)'
    <3>1. \/ ShownWhole(x, p.doc, p.target)'
          \/ \E b \in Nat : /\ b < p.target /\ Covers(x, b)
                            /\ ShownSince(x, p.doc, b, p.target)'
      BY <1>1, <1>3, <1>4, <2>1, CompletesGiven
    <3>2. ASSUME NEW b \in Nat, Covers(x, b)
          PROVE  \E j \in 1..Len(covered'[x]) : covered'[x][j] = b
      BY <1>7, <3>2 DEF Covers
    <3> QED
      BY <3>1, <3>2 DEF Given
  <2>7. Given(x, open[x].doc, covered[x][i])'
    BY <2>3, <2>4, <2>6 DEF Given, ShownWhole, ShownSince
  <2> QED
    BY <2>3, <2>4, <2>5, <2>7
<1>12. CoverGiven'
  BY <1>10, <1>11 DEF CoverGiven
<1> QED
  BY <1>6, <1>12

\* Every step keeps contexts so.
LEMMA NextViews == ViewInv /\ [Next]_vars => ViewInv'
<1> SUFFICES ASSUME ViewInv, [Next]_vars PROVE ViewInv'
  OBVIOUS
<1>1. ShownInv /\ RowsInv
  BY ViewTypes DEF ViewInv
<1>2. ShownInv'
  BY <1>1, ReviewSteps, QuietShown, BeginPresentShown, SavePresentShown
<1>3. ViewersApart' /\ Forward' /\ CoverGiven'
  BY <1>1, ReviewSteps, QuietViews, BeginPresentViews, SavePresentViews
<1> QED
  BY <1>2, <1>3 DEF ViewInv

----------------------------------------------------------------------------
(* The stamp of a row tells whether its text was written since.            *)

LEMMA StampTells ==
  ASSUME DocsInv, [Next]_vars, NEW d \in Docs, Held(d)
  PROVE  /\ doc[d].stamp \in Nat /\ doc'[d].stamp \in Nat
         /\ doc'[d].stamp >= doc[d].stamp
         /\ doc'[d].stamp = doc[d].stamp =>
              /\ StateOf(doc'[d]) = StateOf(doc[d])
              /\ Current(doc'[d]).text = Current(doc[d]).text
<1> DEFINE x == doc[d]
           y == doc'[d]
<1>1. /\ doc \in [Docs -> Document] /\ x \in Document /\ x.rows # <<>>
      /\ x.stamp \in Nat
  BY DEF DocsInv, RowsInv, TypeInv, TypeOK, Held, Document
<1>2. CASE y = x
  BY <1>1, <1>2
<1>3. ASSUME NEW w \in Write, NEW causes \in SUBSET Sources, NEW mode,
             y = Saved(x, w, causes, mode)
      PROVE  y.stamp = x.stamp + 1
  <2>1. CASE mode = "rewrite"
    <3>1. Saved(x, w, causes, "rewrite").stamp = x.stamp + 1
      BY <1>1, RewrittenRows
    <3> QED
      BY <1>3, <2>1, <3>1
  <2>2. CASE mode # "rewrite"
    <3>1. Supersedes(Saved(x, w, causes, mode), x, w)
      BY <1>1, <2>2, AppendedRows
    <3> QED
      BY <1>3, <3>1 DEF Supersedes
  <2> QED
    BY <2>1, <2>2
<1>4. ASSUME NEW done \in BOOLEAN, y = Marked(x, done)
      PROVE  /\ y.stamp = x.stamp /\ StateOf(y) = StateOf(x)
             /\ Current(y).text = Current(x).text
  BY <1>1, <1>4, MarkedRows DEF StateOf, Current
<1>5. ASSUME NEW e \in Docs, Written(e) PROVE y = x \/ y.stamp = x.stamp + 1
  BY <1>1, <1>3, <1>5 DEF Written
<1>6. ASSUME NEW e \in Docs, Drafted(e) PROVE y = x
  BY <1>1, <1>6 DEF Drafted
<1>7. ASSUME NEW e \in Docs, Recalled(e)
      PROVE  \/ y = x
             \/ /\ y.stamp = x.stamp /\ StateOf(y) = StateOf(x)
                /\ Current(y).text = Current(x).text
  BY <1>1, <1>4, <1>7 DEF Recalled
<1> HIDE DEF x, y
<1>8. CASE y.stamp = x.stamp + 1
  BY <1>1, <1>8 DEF x, y
<1>9. CASE /\ y.stamp = x.stamp /\ StateOf(y) = StateOf(x)
           /\ Current(y).text = Current(x).text
  BY <1>1, <1>9 DEF x, y
<1> QED
  BY <1>2, <1>5, <1>6, <1>7, <1>8, <1>9, DocSteps DEF DocsInv, x, y

\* A context that will do for an approval goes on doing.
LEMMA BasisStays ==
  ASSUME ViewInv, [Next]_vars, NEW x, NEW v, NEW d, NEW g, Basis(x, v, d, g)
  PROVE  Basis(x, v, d, g)'
<1>1. /\ x \in 1..minted /\ x \in 1..MaxContexts
      /\ open[x] # None /\ open[x].by = v /\ open[x].doc = d
  BY ViewTypes DEF Basis, Own
<1>2. PICK i \in 1..Len(covered[x]) : covered[x][i] = g
  BY DEF Basis, Covers
<1> DEFINE Kept == /\ x \in 1..minted'
                   /\ open'[x] # None /\ open'[x].by = v /\ open'[x].doc = d
                   /\ i \in 1..Len(covered'[x]) /\ covered'[x][i] = g
<1>4. ASSUME UNCHANGED reviews PROVE Kept
  <2>1. open' = open /\ covered' = covered /\ minted' = minted
    BY <1>4 DEF reviews
  <2> QED
    BY <1>1, <1>2, <2>1
<1>5. ASSUME NEW c \in Calls, NEW u \in Viewers, NEW e \in Docs, NEW span \in Spans,
             BeginPresent(c, u, e, span)
      PROVE  Kept
  <2>1. open' = open /\ covered' = covered
    BY <1>5 DEF BeginPresent, PresentFresh, PresentWhole, PresentDelta,
                PresentOn, PresentRead, Showing
  <2>2. minted' = minted \/ minted' = minted + 1
    BY <1>5 DEF BeginPresent, PresentFresh, PresentWhole, PresentDelta,
                PresentOn, PresentRead
  <2>3. x \in 1..minted'
    BY <1>1, <2>2, ViewTypes
  <2> QED
    BY <1>1, <1>2, <2>1, <2>3
<1>6. ASSUME NEW c \in Calls, SavePresent(c) PROVE Kept
  <2> PICK p : p = call[c].page
    OBVIOUS
  <2>1. /\ call[c].op = "present" /\ minted' = minted
        /\ open' = IF p.ctx = 0 THEN open ELSE [open EXCEPT ![p.ctx] = p]
        /\ covered' = IF Completes(p) /\ ~Covers(p.ctx, p.target)
                       THEN [covered EXCEPT ![p.ctx] = Append(covered[p.ctx], p.target)]
                       ELSE covered
    BY <1>6 DEF SavePresent
  <2>2. p \in Page /\ p.target \in Nat /\ p \in Views
    BY <2>1, PresentCallType, ViewTypes DEF Views, Presenting
  <2>3. /\ covered \in [1..MaxContexts -> Seq(Nat)]
        /\ open \in [1..MaxContexts -> Page \cup {None}]
    BY ViewTypes DEF TypeOK
  <2>4. i \in 1..Len(covered'[x]) /\ covered'[x][i] = g
    <3>1. covered'[x] = covered[x] \/ covered'[x] = Append(covered[x], p.target)
      BY <1>1, <2>1, <2>3
    <3>2. covered[x] \in Seq(Nat)
      BY <1>1, <2>3
    <3> QED
      BY <1>2, <2>2, <3>1, <3>2
  <2>5. CASE p.ctx = x
    <3>1. open[x] \in Views /\ open[x].ctx = x /\ x # 0
      BY <1>1 DEF ViewInv, ShownInv, Remembered, Views
    <3>2. p.by = open[x].by /\ p.doc = open[x].doc
      BY <2>2, <2>5, <3>1 DEF ViewInv, ViewersApart, ShownInv, ContextsApart
    <3>3. open'[x] = p
      BY <1>1, <2>1, <2>3, <2>5, <3>1
    <3> QED
      BY <1>1, <2>1, <2>2, <2>4, <3>2, <3>3, PageAssumption
  <2>6. CASE p.ctx # x
    <3>1. open'[x] = open[x]
      BY <1>1, <2>1, <2>3, <2>6
    <3> QED
      BY <1>1, <2>1, <2>4, <3>1
  <2> QED
    BY <2>5, <2>6
<1>7. Kept
  <2>1. RowsInv
    BY ViewTypes
  <2> HIDE DEF Kept
  <2> QED
    BY <1>4, <1>5, <1>6, <2>1, ReviewSteps
<1> QED
  BY <1>7 DEF Basis, Own, Covers

----------------------------------------------------------------------------
(* What is planned to be sealed.                                           *)

\* A call that has a plan keeps it, whatever step another one takes.
LEMMA PlanKept ==
  ASSUME ViewInv, [Next]_vars, NEW k \in Call, SealPlan(k),
         k.op = "approve" => Held(k.doc)
  PROVE  SealPlan(k)'
<1>1. CASE k.op = "approve"
  <2>1. k \in ApproveCall
    BY <1>1, CallKind
  <2>2. k.doc \in Docs /\ k.st \in DocumentState
    BY <2>1 DEF ApproveCall
  <2>3. k.st.stamp \in Nat
    BY <2>2 DEF DocumentState
  <2>4. /\ doc[k.doc].stamp \in Nat /\ doc'[k.doc].stamp \in Nat
        /\ doc'[k.doc].stamp >= doc[k.doc].stamp
        /\ doc'[k.doc].stamp = doc[k.doc].stamp =>
             /\ StateOf(doc'[k.doc]) = StateOf(doc[k.doc])
             /\ Current(doc'[k.doc]).text = Current(doc[k.doc]).text
    BY <1>1, <2>2, StampTells, ViewTypes
  <2>5. k.st.stamp <= doc[k.doc].stamp
    BY <1>1 DEF SealPlan
  <2>6. k.st.stamp <= doc'[k.doc].stamp
    BY <2>3, <2>4, <2>5
  <2>7. ASSUME StateOf(doc'[k.doc]) = k.st, k.write # None
        PROVE  k.write.text = Current(doc'[k.doc]).text
    <3>1. doc'[k.doc].stamp = k.st.stamp
      BY <2>7 DEF StateOf
    <3>2. doc'[k.doc].stamp = doc[k.doc].stamp
      BY <2>3, <2>4, <2>5, <3>1
    <3>3. StateOf(doc[k.doc]) = k.st
      BY <2>4, <2>7, <3>2
    <3> QED
      BY <1>1, <2>4, <2>7, <3>2, <3>3 DEF SealPlan
  <2>8. k.write # None => Basis(k.ctx, k.by, k.doc, k.st.gen)'
    BY <1>1, BasisStays DEF SealPlan
  <2>9. k.write # None => k.write.seal = k.by
    BY <1>1 DEF SealPlan
  <2> QED
    BY <1>1, <2>6, <2>7, <2>8, <2>9 DEF SealPlan
<1>2. CASE k.op # "approve"
  BY <1>2 DEF SealPlan
<1> QED
  BY <1>1, <1>2

\* One slot filled with a sound plan leaves all plans sound.
LEMMA SlotPlans ==
  ASSUME ViewInv, SealPlans, [Next]_vars, NEW c \in Calls, NEW r, SealPlan(r)',
         call' = [call EXCEPT ![c] = r]
  PROVE  SealPlans'
<1> SUFFICES ASSUME NEW b \in Calls PROVE SealPlan(call[b])'
  BY DEF SealPlans
<1>1. call'[b] = IF b = c THEN r ELSE call[b]
  BY ViewTypes
<1> PICK k : k = call[b]
  OBVIOUS
<1>2. k \in Call /\ SealPlan(k) /\ (k.op = "approve" => Held(k.doc))
  BY ViewTypes DEF SealPlans, TypeInv, CallsHeld, CallHeld, Held
<1>3. SealPlan(k)'
  BY <1>2, PlanKept
<1>4. ASSUME NEW j, SealPlan(j)', call'[b] = j PROVE SealPlan(call[b])'
  BY <1>4 DEF SealPlan
<1> QED
  BY <1>1, <1>3, <1>4

\* A plan of a call that seals nothing is sound.
LEMMA SealessPlan ==
  ASSUME NEW k, k.op # "approve",
         k.op \in {"edit", "close"} => (k.write # None => k.write.seal = None)
  PROVE  SealPlan(k)'
BY DEF SealPlan

\* A call that ends has none.
LEMMA EndPlans ==
  ASSUME ViewInv, SealPlans, [Next]_vars, NEW c \in Calls, End(c)
  PROVE  SealPlans'
<1>1. SealPlan(Idle)'
  BY DEF SealPlan, Idle
<1> QED
  BY <1>1, SlotPlans DEF End, Proceed

\* An approval notes the state it reads, and plans to seal the text it finds.
LEMMA ApprovePlans ==
  ASSUME ViewInv, SealPlans, [Next]_vars, NEW c \in Calls, Approve(c)
  PROVE  SealPlans'
<1>1. call[c] \in Call
  BY ViewTypes
<1>2. ASSUME NEW v \in Viewers, NEW d \in Docs, BeginApprove(c, v, d)
      PROVE  SealPlans'
  <2> DEFINE r == [op |-> "approve", by |-> v, doc |-> d, st |-> StateOf(doc[d]),
                   ctx |-> 0, write |-> None]
  <2>1. call' = [call EXCEPT ![c] = r] /\ doc' = doc /\ Held(d)
    BY <1>2 DEF BeginApprove, Begin, store
  <2> PICK k : k = r
    OBVIOUS
  <2>2. /\ k.op = "approve" /\ k.doc = d /\ k.write = None
        /\ k.st.stamp = doc[d].stamp
    BY DEF StateOf
  <2>3. doc[d].stamp \in Nat
    BY <2>1, StampTells, ViewTypes
  <2>4. SealPlan(k)'
    BY <2>1, <2>2, <2>3 DEF SealPlan
  <2>5. call' = [call EXCEPT ![c] = k]
    BY <2>1
  <2> QED
    BY <2>4, <2>5, SlotPlans
<1>3. ASSUME NEW x \in 1..MaxContexts, PlanApprove(c, x) PROVE SealPlans'
  <2> PICK k : k = call[c]
    OBVIOUS
  <2> DEFINE w == SealOf(k.doc, k.by)
             r == [k EXCEPT !.ctx = x, !.write = w]
  <2>1. /\ k.op = "approve" /\ Basis(x, k.by, k.doc, k.st.gen)
        /\ call' = [call EXCEPT ![c] = r] /\ doc' = doc
    BY <1>3 DEF PlanApprove, Proceed, store
  <2>2. k \in ApproveCall
    BY <1>1, <2>1, CallKind
  <2>3. w.seal = k.by /\ w.text = Current(doc[k.doc]).text
    BY DEF SealOf
  <2> HIDE DEF w
  <2> PICK j : j = r
    OBVIOUS
  <2>4. /\ j.op = "approve" /\ j.doc = k.doc /\ j.by = k.by /\ j.st = k.st
        /\ j.ctx = x /\ j.write = w
    BY <2>1, <2>2 DEF ApproveCall
  <2>5. Basis(x, k.by, k.doc, k.st.gen)'
    BY <2>1, BasisStays
  <2>6. k.st.stamp <= doc[k.doc].stamp
    BY <2>1 DEF SealPlans, SealPlan
  <2>7. SealPlan(j)'
    BY <2>1, <2>3, <2>4, <2>5, <2>6 DEF SealPlan
  <2>8. call' = [call EXCEPT ![c] = j]
    BY <2>1
  <2> QED
    BY <2>7, <2>8, SlotPlans
<1>4. CASE SaveApprove(c)
  BY <1>4, EndPlans DEF SaveApprove
<1> QED
  BY <1>2, <1>3, <1>4 DEF Approve

\* Every step plans only seals that rest on what was shown.
LEMMA NextPlans == ViewInv /\ SealPlans /\ [Next]_vars => SealPlans'
<1> SUFFICES ASSUME ViewInv, SealPlans, [Next]_vars PROVE SealPlans'
  OBVIOUS
<1>1. call \in [Calls -> Call]
  BY ViewTypes
<1>2. ASSUME NEW c \in Calls, NEW r, call' = [call EXCEPT ![c] = r],
             r.op # "approve",
             r.op \in {"edit", "close"} => (r.write # None => r.write.seal = None)
      PROVE  SealPlans'
  BY <1>2, SealessPlan, SlotPlans
<1>3. ASSUME doc' = doc, call' = call, reviews' = reviews PROVE SealPlans'
  BY <1>3 DEF SealPlans, SealPlan, Basis, Own, Covers, reviews
<1>4. CASE UNCHANGED vars
  BY <1>3, <1>4 DEF vars, reviews
<1>5. ASSUME NEW c \in Calls, Edit(c) PROVE SealPlans'
  <2>1. ASSUME NEW v, NEW d, NEW ask, NEW base, BeginEdit(c, v, d, ask, base)
        PROVE  SealPlans'
    <3> DEFINE r == [op |-> "edit", by |-> v, doc |-> d, ask |-> ask, base |-> base,
                     att |-> 1, st |-> StateOf(doc[d]), write |-> None]
    <3>1. call' = [call EXCEPT ![c] = r]
      BY <2>1 DEF BeginEdit, Begin
    <3>2. r.op = "edit" /\ r.write = None
      OBVIOUS
    <3> HIDE DEF r
    <3> QED
      BY <1>2, <3>1, <3>2
  <2>2. CASE PlanEdit(c)
    <3> DEFINE w == EditOf(call[c].doc, call[c].ask, call[c].by)
               r == [call[c] EXCEPT !.write = w]
    <3>1. call[c].op = "edit" /\ (End(c) \/ call' = [call EXCEPT ![c] = r])
      BY <2>2 DEF PlanEdit, Proceed
    <3>2. w.seal = None
      BY DEF EditOf
    <3> HIDE DEF w
    <3>3. r.op = "edit" /\ r.write = w
      BY <1>1, <3>1, CallKind DEF EditCall
    <3> QED
      BY <1>2, <3>1, <3>2, <3>3, EndPlans
  <2>3. CASE RetryEdit(c)
    <3> DEFINE r == [call[c] EXCEPT !.att = call[c].att + 1,
                       !.st = StateOf(doc[call[c].doc]), !.write = None]
    <3>1. call[c].op = "edit" /\ call' = [call EXCEPT ![c] = r]
      BY <2>3 DEF RetryEdit, Proceed
    <3>2. r.op = "edit" /\ r.write = None
      BY <1>1, <3>1, CallKind DEF EditCall
    <3> QED
      BY <1>2, <3>1, <3>2
  <2>4. CASE SaveNoChange(c) \/ SaveEdit(c)
    BY <2>4, EndPlans DEF SaveNoChange, SaveEdit
  <2> QED
    BY <1>5, <2>1, <2>2, <2>3, <2>4 DEF Edit
<1>6. ASSUME NEW c \in Calls, Create(c) PROVE SealPlans'
  <2>1. ASSUME NEW v, NEW d, NEW ask, BeginCreate(c, v, d, ask) PROVE SealPlans'
    <3> DEFINE r == [op |-> "create", by |-> v, doc |-> d, ask |-> ask,
                     write |-> [text |-> [body |-> <<<<v, ask.rid>>>>, title |-> None],
                                status |-> Draft(d), outcome |-> None, seal |-> None,
                                next |-> FALSE, causes |-> ask.named \cup Owed(d),
                                capture |-> ask.capture]]
    <3>1. call' = [call EXCEPT ![c] = r]
      BY <2>1 DEF BeginCreate, Begin
    <3>2. r.op = "create"
      OBVIOUS
    <3> HIDE DEF r
    <3> QED
      BY <1>2, <3>1, <3>2
  <2>2. CASE SaveCreate(c)
    BY <2>2, EndPlans DEF SaveCreate
  <2> QED
    BY <1>6, <2>1, <2>2 DEF Create
<1>7. ASSUME NEW c \in Calls, Present(c) PROVE SealPlans'
  <2>1. ASSUME NEW d, NEW page, Showing(c, d, page) PROVE SealPlans'
    <3> DEFINE r == [op |-> "present", page |-> page, rev |-> Len(doc[d].rows),
                     current |-> page.target = Now(doc[d])]
    <3>1. call' = [call EXCEPT ![c] = r]
      BY <2>1 DEF Showing, Begin
    <3>2. r.op = "present"
      OBVIOUS
    <3> HIDE DEF r
    <3> QED
      BY <1>2, <3>1, <3>2
  <2>2. ASSUME NEW v, NEW d, NEW span, BeginPresent(c, v, d, span) PROVE SealPlans'
    BY <2>1, <2>2 DEF BeginPresent, PresentFresh, PresentWhole, PresentDelta,
                      PresentOn, PresentRead
  <2>3. CASE SavePresent(c)
    BY <2>3, EndPlans DEF SavePresent
  <2> QED
    BY <1>7, <2>2, <2>3 DEF Present
<1>8. ASSUME NEW c \in Calls, Close(c) PROVE SealPlans'
  <2>1. ASSUME NEW v, NEW d, NEW to, BeginClose(c, v, d, to) PROVE SealPlans'
    <3> DEFINE r == [op |-> "close", by |-> v, doc |-> d, to |-> to, att |-> 1,
                     st |-> StateOf(doc[d]), write |-> None]
    <3>1. call' = [call EXCEPT ![c] = r]
      BY <2>1 DEF BeginClose, Begin
    <3>2. r.op = "close" /\ r.write = None
      OBVIOUS
    <3> HIDE DEF r
    <3> QED
      BY <1>2, <3>1, <3>2
  <2>2. CASE PlanClose(c)
    <3> DEFINE w == CloseOf(call[c].doc, call[c].to)
               r == [call[c] EXCEPT !.write = w]
    <3>1. call[c].op = "close" /\ call' = [call EXCEPT ![c] = r]
      BY <2>2 DEF PlanClose, Proceed
    <3>2. w.seal = None
      BY DEF CloseOf
    <3> HIDE DEF w
    <3>3. r.op = "close" /\ r.write = w
      BY <1>1, <3>1, CallKind DEF CloseCall
    <3> QED
      BY <1>2, <3>1, <3>2, <3>3
  <2>3. CASE RetryClose(c)
    <3> DEFINE r == [call[c] EXCEPT !.att = call[c].att + 1,
                       !.st = StateOf(doc[call[c].doc]), !.write = None]
    <3>1. call[c].op = "close" /\ call' = [call EXCEPT ![c] = r]
      BY <2>3 DEF RetryClose, Proceed
    <3>2. r.op = "close" /\ r.write = None
      BY <1>1, <3>1, CallKind DEF CloseCall
    <3> QED
      BY <1>2, <3>1, <3>2
  <2>4. CASE BeginAbandon(c)
    <3> DEFINE r == [op |-> "abandon"]
    <3>1. call' = [call EXCEPT ![c] = r]
      BY <2>4 DEF BeginAbandon, Begin
    <3>2. r.op = "abandon"
      OBVIOUS
    <3> HIDE DEF r
    <3> QED
      BY <1>2, <3>1, <3>2
  <2>5. CASE SaveClose(c) \/ SaveAbandon(c)
    BY <2>5, EndPlans DEF SaveClose, SaveAbandon
  <2> QED
    BY <1>8, <2>1, <2>2, <2>3, <2>4, <2>5 DEF Close
<1>9. ASSUME NEW c \in Calls, GiveUp(c) PROVE SealPlans'
  BY <1>9, EndPlans DEF GiveUp
<1>10. ASSUME NEW s, NEW D, AddSource(s, D) PROVE SealPlans'
  BY <1>3, <1>10 DEF AddSource, reviews
<1>11. CASE Next
  BY <1>5, <1>6, <1>7, <1>8, <1>9, <1>10, <1>11, ApprovePlans DEF Next
<1> QED
  BY <1>4, <1>11

----------------------------------------------------------------------------
(* What is sealed is on record.                                            *)

\* A write seals no row but the one it leaves current, and that with its own
\* seal; other seals stay, on rows that keep their names.
LEMMA WriteSeals ==
  ASSUME DocsInv, NEW d \in Docs, Held(d), NEW w \in Write,
         NEW causes \in SUBSET Sources, NEW y,
         y = Saved(doc[d], w, causes, LandsAs(d, w)),
         NEW i \in 1..Len(y.rows), y.rows[i].sealed # None
  PROVE  \/ /\ i \in 1..Len(doc[d].rows)
            /\ y.rows[i].sealed = doc[d].rows[i].sealed
            /\ GenOf(y, i) = GenOf(doc[d], i)
         \/ /\ w.seal # None /\ y.rows[i].sealed = w.seal
            /\ GenOf(y, i) = y.gen
<1> DEFINE x == doc[d]
           n == Len(x.rows)
           mode == LandsAs(d, w)
<1>1. x \in Document /\ x.rows # <<>>
  BY DEF DocsInv, RowsInv, TypeInv, TypeOK, Held
<1>2. n \in Nat \ {0} /\ x.rows[n] \in Row /\ y.gen \in Nat
  BY <1>1, CurrentType, RowType, SavedType DEF Document
<1>3. \A j \in 1..n : j < n \/ Pinned(d) => RowStays(x, y, j)
  BY WriteLeaves
<1>4. n \in 1..n /\ (x.rows[n].sealed # None => Pinned(d))
  BY <1>2 DEF Pinned
<1>5. CASE mode = "rewrite"
  <2>1. /\ Len(y.rows) = n
        /\ \A j \in 1..(n - 1) : y.rows[j] = x.rows[j]
        /\ y.rows[n].sealed = IF w.seal # None THEN w.seal ELSE x.rows[n].sealed
        /\ y.rows[n].gen = y.gen
    BY <1>1, <1>5, RewrittenRows
  <2>2. CASE i # n
    <3>1. i \in 1..(n - 1) /\ i < n
      BY <1>2, <2>1, <2>2
    <3> QED
      BY <1>3, <2>1, <3>1 DEF RowStays
  <2>3. CASE i = n /\ w.seal # None
    BY <1>2, <2>1, <2>3, NoneAssumption DEF GenOf
  <2>4. CASE i = n /\ w.seal = None
    BY <1>3, <1>4, <2>1, <2>4 DEF RowStays
  <2> QED
    BY <2>2, <2>3, <2>4
<1>6. CASE mode # "rewrite"
  <2>1. Supersedes(y, x, w)
    BY <1>1, <1>6, AppendedRows
  <2>2. /\ Len(y.rows) = n + 1
        /\ \A j \in 1..(n - 1) : y.rows[j] = x.rows[j]
        /\ y.rows[n] = [x.rows[n] EXCEPT !.gen = GenOf(x, n)]
        /\ y.rows[n + 1].sealed = w.seal
        /\ y.rows[n + 1].gen = y.gen
    BY <2>1 DEF Supersedes
  <2>3. y.rows[n].sealed = x.rows[n].sealed
    BY <1>2, <2>2 DEF Row
  <2>4. CASE i = n + 1
    BY <1>2, <2>2, <2>4, NoneAssumption DEF GenOf
  <2>5. CASE i = n
    BY <1>3, <1>4, <2>3, <2>5 DEF RowStays
  <2>6. CASE i \in 1..(n - 1)
    <3>1. i \in 1..n /\ i < n
      BY <1>2, <2>6
    <3> QED
      BY <1>3, <2>2, <2>6, <3>1 DEF RowStays
  <2> QED
    BY <1>2, <2>2, <2>4, <2>5, <2>6
<1> QED
  BY <1>5, <1>6

\* A presentation leaves every seal on its row.
LEMMA MarkSeals ==
  ASSUME NEW x \in Document, x.rows # <<>>, GensAscend(x), NEW done \in BOOLEAN,
         NEW y, y = Marked(x, done), NEW i \in 1..Len(y.rows)
  PROVE  /\ i \in 1..Len(x.rows)
         /\ y.rows[i].sealed = x.rows[i].sealed /\ GenOf(y, i) = GenOf(x, i)
<1> DEFINE n == Len(x.rows)
<1>1. /\ Len(y.rows) = n /\ y.rows[n].sealed = x.rows[n].sealed
      /\ \A j \in 1..(n - 1) : y.rows[j] = x.rows[j]
  BY MarkedRows
<1>2. RowStays(x, y, i)
  BY <1>1, MarkLeaves
<1>3. n \in Nat
  BY DEF Document
<1> QED
  BY <1>1, <1>2, <1>3 DEF RowStays

\* Only the transaction of an approval records one.
LEMMA ApprovalSteps ==
  ASSUME [Next]_vars
  PROVE  approvals' = approvals \/ \E c \in Calls : SaveApprove(c)
<1>1. CASE UNCHANGED vars
  BY <1>1 DEF vars
<1>2. ASSUME NEW c \in Calls, Edit(c) \/ Create(c) \/ Close(c) \/ GiveUp(c)
      PROVE  approvals' = approvals
  BY <1>2 DEF Edit, BeginEdit, PlanEdit, RetryEdit, SaveNoChange, SaveEdit,
              Create, BeginCreate, SaveCreate, Close, BeginClose, PlanClose,
              RetryClose, SaveClose, BeginAbandon, SaveAbandon, GiveUp, store
<1>3. ASSUME NEW c \in Calls, Present(c) PROVE approvals' = approvals
  <2>1. ASSUME NEW d, NEW page, Showing(c, d, page) PROVE approvals' = approvals
    BY <2>1 DEF Showing, store
  <2>2. ASSUME NEW v, NEW d, NEW span, BeginPresent(c, v, d, span)
        PROVE  approvals' = approvals
    BY <2>1, <2>2 DEF BeginPresent, PresentFresh, PresentWhole, PresentDelta,
                      PresentOn, PresentRead
  <2>3. CASE SavePresent(c)
    BY <2>3 DEF SavePresent
  <2> QED
    BY <1>3, <2>2, <2>3 DEF Present
<1>4. ASSUME NEW c \in Calls, Approve(c)
      PROVE  approvals' = approvals \/ SaveApprove(c)
  BY <1>4 DEF Approve, BeginApprove, PlanApprove, store
<1>5. ASSUME NEW s, NEW D, AddSource(s, D) PROVE approvals' = approvals
  BY <1>5 DEF AddSource
<1> QED
  BY <1>1, <1>2, <1>3, <1>4, <1>5 DEF Next

\* An approval's record rests on a context that will do, and goes on doing.
LEMMA NextApprovals ==
  SignedInv /\ [Next]_vars => ApprovalsRest' /\ approvals \subseteq approvals'
<1> SUFFICES ASSUME SignedInv, [Next]_vars
             PROVE  ApprovalsRest' /\ approvals \subseteq approvals'
  OBVIOUS
<1>1. ASSUME NEW a \in approvals PROVE Basis(a.ctx, a.by, a.doc, a.gen)'
  <2>1. Basis(a.ctx, a.by, a.doc, a.gen)
    BY DEF SignedInv, ApprovalsRest
  <2> QED
    BY <2>1, BasisStays DEF SignedInv
<1>2. CASE approvals' = approvals
  <2>1. ASSUME NEW a \in approvals' PROVE Basis(a.ctx, a.by, a.doc, a.gen)'
    BY <1>1, <1>2
  <2> QED
    BY <1>2, <2>1 DEF ApprovalsRest
<1>3. ASSUME NEW c \in Calls, SaveApprove(c)
      PROVE  ApprovalsRest' /\ approvals \subseteq approvals'
  <2> PICK k : k = call[c]
    OBVIOUS
  <2> DEFINE a == [doc |-> k.doc, gen |-> k.st.gen, ctx |-> k.ctx, by |-> k.by]
  <2>1. k.op = "approve" /\ k.write # None /\ approvals' = approvals \cup {a}
    BY <1>3 DEF SaveApprove
  <2>2. Basis(k.ctx, k.by, k.doc, k.st.gen)
    BY <2>1 DEF SignedInv, SealPlans, SealPlan
  <2>3. Basis(k.ctx, k.by, k.doc, k.st.gen)'
    BY <2>2, BasisStays DEF SignedInv
  <2>4. Basis(a.ctx, a.by, a.doc, a.gen)'
    BY <2>3
  <2> HIDE DEF a
  <2> QED
    BY <1>1, <2>1, <2>4 DEF ApprovalsRest
<1>4. approvals' = approvals \/ \E c \in Calls : SaveApprove(c)
  BY ApprovalSteps
<1> QED
  BY <1>2, <1>3, <1>4

\* Every seal a step leaves is on record after it.
LEMMA NextSeals == SignedInv /\ [Next]_vars => SealsRecorded'
<1> SUFFICES ASSUME SignedInv, [Next]_vars PROVE SealsRecorded'
  OBVIOUS
<1>1. /\ ViewInv /\ DocsInv /\ RowsInv /\ TypeInv
      /\ doc \in [Docs -> Document] /\ call \in [Calls -> Call]
      /\ \A e \in Docs : GensAscend(doc[e])
  BY ViewTypes DEF SignedInv, DocsInv, DocsAgree
<1>2. approvals \subseteq approvals'
  BY NextApprovals
<1> DEFINE Good(d, y) == \A i \in 1..Len(y.rows) : y.rows[i].sealed # None =>
             SealRecorded(approvals', d, GenOf(y, i), y.rows[i].sealed)
<1>3. ASSUME NEW d \in Docs, NEW i \in 1..Len(doc[d].rows),
             doc[d].rows[i].sealed # None
      PROVE  SealRecorded(approvals', d, GenOf(doc[d], i), doc[d].rows[i].sealed)
  BY <1>2, <1>3 DEF SignedInv, SealsRecorded, SealRecorded
<1>4. \A d \in Docs : Good(d, doc[d])
  BY <1>3
<1>5. ASSUME NEW d \in Docs, NEW w \in Write, NEW causes \in SUBSET Sources, Held(d),
             w.seal # None =>
               SealRecorded(approvals', d, Saved(doc[d], w, causes, LandsAs(d, w)).gen,
                            w.seal)
      PROVE  Good(d, Saved(doc[d], w, causes, LandsAs(d, w)))
  <2> PICK y : y = Saved(doc[d], w, causes, LandsAs(d, w))
    OBVIOUS
  <2> SUFFICES ASSUME NEW i \in 1..Len(y.rows), y.rows[i].sealed # None
               PROVE  SealRecorded(approvals', d, GenOf(y, i), y.rows[i].sealed)
    OBVIOUS
  <2>1. CASE /\ i \in 1..Len(doc[d].rows)
             /\ y.rows[i].sealed = doc[d].rows[i].sealed
             /\ GenOf(y, i) = GenOf(doc[d], i)
    BY <1>3, <2>1
  <2>2. CASE w.seal # None /\ y.rows[i].sealed = w.seal /\ GenOf(y, i) = y.gen
    BY <1>5, <2>2
  <2> QED
    BY <1>1, <1>5, <2>1, <2>2, WriteSeals
<1> HIDE DEF Good
<1>6. ASSUME NEW d \in Docs, NEW y, doc' = [doc EXCEPT ![d] = y], Good(d, y)
      PROVE  SealsRecorded'
  <2> SUFFICES ASSUME NEW e \in Docs PROVE Good(e, doc'[e])
    BY DEF SealsRecorded, Good
  <2> QED
    BY <1>1, <1>4, <1>6
<1>7. CASE doc' = doc
  <2>1. \A d \in Docs : Good(d, doc'[d])
    BY <1>4, <1>7
  <2> QED
    BY <2>1 DEF SealsRecorded, Good
<1>8. ASSUME NEW c \in Calls, SaveEdit(c) \/ SaveClose(c) PROVE SealsRecorded'
  <2> PICK k : k = call[c]
    OBVIOUS
  <2> DEFINE w == k.write
  <2>1. k.op \in {"edit", "close"} /\ w # None
    BY <1>8 DEF SaveEdit, SaveClose, Commits
  <2>2. k.doc \in Docs /\ w \in Write /\ Held(k.doc)
    BY <1>1, <2>1, WriterType
  <2>3. w.seal = None
    BY <2>1 DEF SignedInv, SealPlans, SealPlan
  <2>4. PICK causes \in SUBSET Sources :
          doc' = [doc EXCEPT ![k.doc] =
                    Saved(doc[k.doc], w, causes, LandsAs(k.doc, w))]
    <3>1. ASSUME NEW cap \in Captures(w.capture)
          PROVE  w.causes \cup cap \in SUBSET Sources
      BY <2>2, <3>1, CapturesType DEF Write
    <3> QED
      BY <1>8, <3>1 DEF SaveEdit, SaveClose
  <2> HIDE DEF w
  <2> QED
    BY <1>5, <1>6, <2>2, <2>3, <2>4
<1>9. ASSUME NEW c \in Calls, SaveApprove(c) PROVE SealsRecorded'
  <2> PICK k : k = call[c]
    OBVIOUS
  <2> DEFINE w == k.write
             x == doc[k.doc]
             y == Saved(x, w, {}, LandsAs(k.doc, w))
  <2>1. /\ k.op = "approve" /\ w # None /\ StateOf(x) = k.st
        /\ doc' = [doc EXCEPT ![k.doc] = y]
        /\ approvals' = approvals \cup {[doc |-> k.doc, gen |-> k.st.gen,
                                         ctx |-> k.ctx, by |-> k.by]}
    BY <1>9 DEF SaveApprove, Moved
  <2>2. k.doc \in Docs /\ w \in Write /\ Held(k.doc) /\ x \in Document /\ x.rows # <<>>
    BY <1>1, <2>1, WriterType DEF Held
  <2>3. w.seal = k.by /\ w.text = Current(x).text
    BY <2>1 DEF SignedInv, SealPlans, SealPlan
  <2>4. x.gen = k.st.gen
    BY <2>1 DEF StateOf
  <2>5. y.gen = x.gen
    <3>1. {} \in SUBSET Sources
      OBVIOUS
    <3>2. CASE LandsAs(k.doc, w) = "rewrite"
      BY <2>2, <2>3, <3>1, <3>2, RewrittenRows
    <3>3. CASE LandsAs(k.doc, w) # "rewrite"
      <4>1. Supersedes(y, x, w)
        BY <2>2, <3>1, <3>3, AppendedRows
      <4> QED
        BY <2>3, <4>1 DEF Supersedes
    <3> QED
      BY <3>2, <3>3
  <2> HIDE DEF w, x, y
  <2>6. SealRecorded(approvals', k.doc, k.st.gen, k.by)
    <3> DEFINE a == [doc |-> k.doc, gen |-> k.st.gen, ctx |-> k.ctx, by |-> k.by]
    <3>1. a \in approvals'
      BY <2>1
    <3>2. a.doc = k.doc /\ a.gen = k.st.gen /\ a.by = k.by
      OBVIOUS
    <3> HIDE DEF a
    <3> QED
      BY <3>1, <3>2 DEF SealRecorded
  <2>7. SealRecorded(approvals', k.doc, y.gen, w.seal)
    BY <2>3, <2>4, <2>5, <2>6
  <2>8. Good(k.doc, y)
    BY <1>5, <2>2, <2>7 DEF x, y
  <2> QED
    BY <1>6, <2>1, <2>2, <2>8 DEF x
<1>10. ASSUME NEW c \in Calls, SaveCreate(c) PROVE SealsRecorded'
  <2> DEFINE k == call[c]
  <2>1. k.op = "create"
    BY <1>10 DEF SaveCreate
  <2>2. k.doc \in Docs
    BY <1>1, <2>1, CallKind DEF CreateCall
  <2>3. PICK causes : doc' = [doc EXCEPT ![k.doc] = Created(k.write, causes)]
    BY <1>10 DEF SaveCreate
  <2>4. Good(k.doc, Created(k.write, causes))
    <3> DEFINE r == [text |-> k.write.text, gen |-> 0, version |-> 1,
                     cites |-> causes, sealed |-> None, presented |-> FALSE,
                     outcome |-> None]
    <3>1. Created(k.write, causes).rows = <<r>> /\ r.sealed = None
      BY DEF Created
    <3> HIDE DEF r
    <3> QED
      BY <3>1 DEF Good
  <2> QED
    BY <1>6, <2>2, <2>3, <2>4
<1>11. ASSUME NEW c \in Calls, SavePresent(c) PROVE SealsRecorded'
  <2> PICK d : d = call[c].page.doc
    OBVIOUS
  <2>1. d \in Docs /\ (doc' = doc \/ Recalled(d))
    BY <1>1, <1>11, SavePresentMarks
  <2>2. ASSUME Recalled(d) PROVE SealsRecorded'
    <3>1. PICK done \in BOOLEAN : doc' = [doc EXCEPT ![d] = Marked(doc[d], done)]
      BY <2>2 DEF Recalled
    <3>2. doc[d] \in Document /\ doc[d].rows # <<>> /\ GensAscend(doc[d])
      BY <1>1, <2>1, <2>2 DEF Recalled, Held
    <3> PICK y : y = Marked(doc[d], done)
      OBVIOUS
    <3>3. Good(d, y)
      <4> SUFFICES ASSUME NEW i \in 1..Len(y.rows), y.rows[i].sealed # None
                   PROVE  SealRecorded(approvals', d, GenOf(y, i), y.rows[i].sealed)
        BY DEF Good
      <4>1. /\ i \in 1..Len(doc[d].rows)
            /\ y.rows[i].sealed = doc[d].rows[i].sealed
            /\ GenOf(y, i) = GenOf(doc[d], i)
        BY <3>2, MarkSeals
      <4> QED
        BY <1>3, <2>1, <4>1
    <3> QED
      BY <1>6, <2>1, <3>1, <3>3
  <2> QED
    BY <1>7, <2>1, <2>2
<1>12. \/ doc' = doc
       \/ \E c \in Calls : \/ SaveEdit(c) \/ SaveCreate(c) \/ SavePresent(c)
                           \/ SaveApprove(c) \/ SaveClose(c)
  BY SavingSteps
<1> QED
  BY <1>7, <1>8, <1>9, <1>10, <1>11, <1>12

----------------------------------------------------------------------------
(* What was signed was shown.                                              *)

\* Nothing is covered, approved or sealed when the system starts.
LEMMA InitSigned == Init => SignedInv
<1> SUFFICES ASSUME Init PROVE SignedInv
  OBVIOUS
<1>1. ShownInv
  BY InitShown
<1>2. pages = {} /\ Presenting = {} /\ Views = {}
  BY DEF Init, Presenting, Idle, Views
<1>3. ViewersApart /\ Forward
  BY <1>2 DEF ViewersApart, Forward
<1>4. CoverGiven
  BY DEF Init, CoverGiven
<1>5. SealPlans /\ ApprovalsRest
  BY DEF Init, SealPlans, SealPlan, Idle, ApprovalsRest
<1>6. SealsRecorded
  <2>1. PICK f \in [Docs -> Standings] : doc = [d \in Docs |-> Born(d, f[d])]
    BY DEF Init
  <2>2. ASSUME NEW d \in Docs, NEW i \in 1..Len(doc[d].rows)
        PROVE  doc[d].rows[i].sealed = None
    <3> DEFINE r == [text |-> [body |-> <<>>, title |-> None], gen |-> None,
                     version |-> 1, cites |-> {}, sealed |-> None,
                     presented |-> FALSE, outcome |-> None]
    <3>1. doc[d].rows = <<>> \/ doc[d].rows = <<r>>
      BY <2>1 DEF Born
    <3>2. r.sealed = None
      OBVIOUS
    <3> HIDE DEF r
    <3> QED
      BY <2>2, <3>1, <3>2
  <2> QED
    BY <2>2 DEF SealsRecorded
<1> QED
  BY <1>1, <1>3, <1>4, <1>5, <1>6 DEF SignedInv, ViewInv

\* In every reachable state a seal stands on record, and the record on a context
\* of the signer's that covers the generation sealed.
THEOREM SignedInvariant == Spec => []SignedInv
<1>1. SignedInv /\ [Next]_vars => SignedInv'
  BY NextViews, NextPlans, NextApprovals, NextSeals DEF SignedInv
<1> QED
  BY InitSigned, <1>1, PTL DEF Spec

\* What a context covers was delivered in it: the generations it covers are the
\* chain the definition of Delivered asks for.
LEMMA CoveredDelivered ==
  ASSUME ViewInv, NEW x, NEW v, NEW d, NEW g, Basis(x, v, d, g)
  PROVE  /\ \A p \in pages : p.ctx = x => p.by = v /\ p.doc = d
         /\ Delivered(x, d, g)
<1>1. x \in 1..MaxContexts /\ open[x] # None /\ open[x].by = v /\ open[x].doc = d
  BY ViewTypes DEF Basis, Own
<1>2. open[x] \in pages /\ open[x].ctx = x /\ x # 0
  BY <1>1 DEF ViewInv, ShownInv, Remembered
<1>3. \A p \in pages : p.ctx = x => p.by = v /\ p.doc = d
  BY <1>1, <1>2 DEF ViewInv, ViewersApart, ShownInv, ContextsApart, Views
<1> DEFINE S == {covered[x][i] : i \in 1..Len(covered[x])}
<1>4. \A i \in 1..Len(covered[x]) :
        covered[x][i] \in Nat /\ covered[x][i] <= doc[d].gen /\ Given(x, d, covered[x][i])
  BY <1>1, CoveredType DEF ViewInv, CoverGiven
<1>5. doc[d].gen \in Nat
  <2>1. d \in Docs
    BY <1>1, <1>2, ViewTypes DEF Page
  <2> QED
    BY <2>1, ViewTypes DEF Document
<1>6. S \in SUBSET (0..doc[d].gen)
  BY <1>4, <1>5
<1>7. g \in S
  BY DEF Basis, Covers
<1>8. ASSUME NEW h \in S
      PROVE  ShownWhole(x, d, h) \/ \E b \in S : b < h /\ ShownSince(x, d, b, h)
  BY <1>4 DEF Given
<1> HIDE DEF S
<1>9. Delivered(x, d, g)
  BY <1>6, <1>7, <1>8 DEF Delivered
<1> QED
  BY <1>3, <1>9

\* A seal stands only on a snapshot that was delivered, whole, to the one who
\* approved it, in a context of theirs the approval's record names: for any
\* number of viewers, calls, contexts and pages, however edits, presentations
\* and approvals interleave.
THEOREM SignedStays == Spec => []SignedWasShown
<1>1. SignedInv => SignedWasShown
  <2> SUFFICES ASSUME SignedInv, NEW d \in Docs, NEW i \in 1..Len(doc[d].rows),
                      doc[d].rows[i].sealed # None
               PROVE  \E a \in approvals :
                        /\ a.doc = d /\ a.gen = GenOf(doc[d], i)
                        /\ a.by = doc[d].rows[i].sealed
                        /\ \A p \in pages : p.ctx = a.ctx => p.by = a.by /\ p.doc = d
                        /\ Delivered(a.ctx, d, a.gen)
    BY DEF SignedWasShown
  <2>1. PICK a \in approvals : /\ a.doc = d /\ a.gen = GenOf(doc[d], i)
                               /\ a.by = doc[d].rows[i].sealed
    BY DEF SignedInv, SealsRecorded, SealRecorded
  <2>2. Basis(a.ctx, a.by, d, a.gen)
    BY <2>1 DEF SignedInv, ApprovalsRest
  <2>3. /\ \A p \in pages : p.ctx = a.ctx => p.by = a.by /\ p.doc = d
        /\ Delivered(a.ctx, d, a.gen)
    BY <2>2, CoveredDelivered DEF SignedInv
  <2> QED
    BY <2>1, <2>3
<1> QED
  BY <1>1, SignedInvariant, PTL
=============================================================================
