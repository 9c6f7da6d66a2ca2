----------------------- MODULE DocumentRegisterProofs -----------------------
(***************************************************************************)
(* The store implements the review register: its rows, pages and contexts, *)
(* seen as snapshots, take the register's steps and no others.             *)
(*                                                                         *)
(* A document is seen as the snapshots its rows hold, so a write is        *)
(* described by what it does to those of one document; the pages and the   *)
(* contexts are seen as what was shown and what was delivered, which only  *)
(* the recording of a page changes, and by that one snapshot.              *)
(***************************************************************************)
EXTENDS DocumentReviewProofs, DocumentChangeProofs, DocumentStoreRegister

----------------------------------------------------------------------------
(* The invariant.                                                          *)

\* A page that shows a snapshot no longer current shows one shown before.
ShownBefore(p) ==
  \E q \in pages : q.doc = p.doc /\ q.target = p.target /\ q.text = p.text

FlightsShown == \A c \in Presenting : ~call[c].current => ShownBefore(call[c].page)

RegisterInv == SignedInv /\ ChangeInv /\ FlightsShown

\* What was shown before is what the context's open page showed.
LEMMA OpenShown ==
  ASSUME ShownInv, NEW d \in Docs, Held(d), NEW q \in pages, q.doc = d
  PROVE  TextAt(doc[d], q.target) = q.text
<1>1. doc[d] \in Document /\ GensAscend(doc[d])
  BY ReadType
<1>2. Fast(d, q.target, q.text)
  BY DEF ShownInv, PagesFast
<1>3. PICK i \in 1..Len(doc[d].rows) :
        GenOf(doc[d], i) = q.target /\ doc[d].rows[i].text = q.text
  BY <1>2 DEF Fast
<1>4. i \in Retained(doc[d], q.target)
  BY <1>3 DEF Retained
<1> QED
  BY <1>1, <1>3, <1>4, NamedOnce

\* Presenting plans no snapshot but the current one and those shown before.
LEMMA ShowingFlights ==
  ASSUME ShownInv, FlightsShown, NEW c \in Calls, NEW d, NEW page,
         Showing(c, d, page),
         page.target # Now(doc[d]) => ShownBefore(page)
  PROVE  FlightsShown'
<1> DEFINE r == [op |-> "present", page |-> page, rev |-> Len(doc[d].rows),
                 current |-> page.target = Now(doc[d])]
<1>1. call' = [call EXCEPT ![c] = r] /\ pages' = pages
  BY DEF Showing, Begin
<1>2. r.page = page /\ r.current = (page.target = Now(doc[d]))
  OBVIOUS
<1> HIDE DEF r
<1>3. call \in [Calls -> Call]
  BY DEF ShownInv, DocsInv, RowsInv, TypeInv, TypeOK
<1> QED
  BY <1>1, <1>2, <1>3 DEF FlightsShown, Presenting, ShownBefore

LEMMA NextFlights == RegisterInv /\ [Next]_vars => FlightsShown'
<1> SUFFICES ASSUME RegisterInv, [Next]_vars PROVE FlightsShown'
  OBVIOUS
<1>1. /\ ViewInv /\ ShownInv /\ RowsInv /\ FlightsShown
      /\ call \in [Calls -> Call]
  BY ViewTypes DEF RegisterInv, SignedInv, ViewInv
<1>2. ASSUME UNCHANGED reviews,
             \A c \in Calls : call'[c].op = "present" => call'[c] = call[c]
      PROVE  FlightsShown'
  BY <1>1, <1>2 DEF FlightsShown, Presenting, ShownBefore, reviews
<1>3. ASSUME NEW c \in Calls, NEW v \in Viewers, NEW d \in Docs, NEW span \in Spans,
             BeginPresent(c, v, d, span)
      PROVE  FlightsShown'
  <2>1. ASSUME NEW page, Showing(c, d, page), page.target = Now(doc[d])
        PROVE  FlightsShown'
    BY <1>1, <2>1, ShowingFlights
  <2>2. CASE PresentFresh(c, v, d, span)
    BY <2>1, <2>2 DEF PresentFresh, FullPage
  <2>3. ASSUME NEW x \in 1..minted, PresentWhole(c, v, d, x, span)
        PROVE  FlightsShown'
    BY <2>1, <2>3 DEF PresentWhole, FullPage
  <2>4. ASSUME NEW x \in 1..minted, PresentDelta(c, v, d, x, span)
        PROVE  FlightsShown'
    BY <2>1, <2>4 DEF PresentDelta, DeltaPage
  <2>5. CASE PresentRead(c, v, d, span)
    BY <2>1, <2>5 DEF PresentRead, FullPage
  <2>6. ASSUME NEW x \in 1..minted, PresentOn(c, v, d, x, span)
        PROVE  FlightsShown'
    <3> PICK q : q = open[x]
      OBVIOUS
    <3>1. /\ Held(d) /\ open[x] # None /\ open[x].doc = d
          /\ \/ Showing(c, d, FullPage(x, v, d, q.target, span))
             \/ Showing(c, d, DeltaPage(x, v, d, q.base, q.target, span))
      BY <2>6 DEF PresentOn, Own
    <3>2. x \in 1..MaxContexts
      BY <1>1, ViewTypes
    <3>3. q \in pages /\ q.doc = d
      BY <1>1, <3>1, <3>2 DEF ShownInv, Remembered
    <3>4. TextAt(doc[d], q.target) = q.text
      BY <1>1, <3>1, <3>3, OpenShown
    <3>5. ASSUME NEW page, Showing(c, d, page), page.doc = d,
                 page.target = q.target, page.text = q.text
          PROVE  FlightsShown'
      BY <1>1, <3>3, <3>5, ShowingFlights DEF ShownBefore
    <3> QED
      BY <3>1, <3>4, <3>5 DEF FullPage, DeltaPage
  <2> QED
    BY <1>3, <2>2, <2>3, <2>4, <2>5, <2>6 DEF BeginPresent
<1>4. ASSUME NEW c \in Calls, SavePresent(c) PROVE FlightsShown'
  <2>1. /\ pages \subseteq pages'
        /\ call' = [call EXCEPT ![c] = Idle]
    BY <1>4, Zenon DEF SavePresent, End, Proceed
  <2>2. \A b \in Presenting' : b \in Presenting /\ call'[b] = call[b]
    BY <1>1, <2>1 DEF Presenting, Idle
  <2> QED
    BY <1>1, <2>1, <2>2 DEF FlightsShown, ShownBefore
<1> QED
  BY <1>1, <1>2, <1>3, <1>4, ReviewSteps

LEMMA InitRegister == Init => RegisterInv
<1> SUFFICES ASSUME Init PROVE RegisterInv
  OBVIOUS
<1>1. SignedInv /\ ChangeInv
  BY InitSigned, InitChange
<1>2. FlightsShown
  BY DEF Init, FlightsShown, Presenting, Idle
<1> QED
  BY <1>1, <1>2 DEF RegisterInv

----------------------------------------------------------------------------
(* A document as the snapshots its rows hold.                              *)

Snap(d, x, i) == [doc |-> d, gen |-> GenOf(x, i), text |-> x.rows[i].text]
SnapsOf(d, x) == {Snap(d, x, i) : i \in 1..Len(x.rows)}
Top(d, x)     == Snap(d, x, Len(x.rows))

LEMMA SnapType ==
  ASSUME NEW d \in Docs, NEW x \in Document, NEW i \in 1..Len(x.rows)
  PROVE  /\ GenOf(x, i) \in Nat /\ x.rows[i].text \in Text
         /\ Snap(d, x, i) # None
<1>1. x.rows[i] \in Row /\ GenOf(x, i) \in Nat
  BY RowType
<1>2. x.rows[i].text \in Text
  BY <1>1 DEF Row
<1> QED
  BY <1>1, <1>2, SnapshotAssumption DEF Snap

LEMMA SnapsSeen ==
  /\ KeptSnapshots = UNION {SnapsOf(d, doc[d]) : d \in Docs}
  /\ CurrentSnapshot = [d \in Docs |-> IF Held(d) THEN Top(d, doc[d]) ELSE None]
BY DEF KeptSnapshots, CurrentSnapshot, SnapshotAt, SnapsOf, Snap, Top

\* A step that leaves the documents alone changes no snapshot.
LEMMA DocsLeft ==
  ASSUME doc' = doc
  PROVE  /\ KeptSnapshots' = KeptSnapshots
         /\ CurrentSnapshot' = CurrentSnapshot
         /\ Standing' = Standing
BY DEF KeptSnapshots, CurrentSnapshot, SnapshotAt, GenOf, Held, Standing

\* One that changes one document changes the snapshots of that one.
LEMMA OneDocument ==
  ASSUME doc \in [Docs -> Document], NEW d \in Docs, NEW y, y.rows # <<>>,
         doc' = [doc EXCEPT ![d] = y]
  PROVE  /\ KeptSnapshots' = (KeptSnapshots \ SnapsOf(d, doc[d])) \cup SnapsOf(d, y)
         /\ Standing' = IF y.status = "approved" THEN Standing \cup {d}
                                                ELSE Standing \ {d}
<1>1. KeptSnapshots' = UNION {SnapsOf(e, doc'[e]) : e \in Docs}
  BY DEF KeptSnapshots, SnapshotAt, SnapsOf, Snap, GenOf
<1>2. \A e \in Docs : doc'[e] = IF e = d THEN y ELSE doc[e]
  OBVIOUS
<1>3. ASSUME NEW e, NEW z, NEW s \in SnapsOf(e, z) PROVE s.doc = e
  BY DEF SnapsOf, Snap
<1>4. KeptSnapshots' = (KeptSnapshots \ SnapsOf(d, doc[d])) \cup SnapsOf(d, y)
  <2>1. ASSUME NEW s
        PROVE  s \in KeptSnapshots' <=>
                 s \in (KeptSnapshots \ SnapsOf(d, doc[d])) \cup SnapsOf(d, y)
    <3>1. s \in KeptSnapshots' <=> \E e \in Docs : s \in SnapsOf(e, doc'[e])
      BY <1>1
    <3>2. s \in KeptSnapshots <=> \E e \in Docs : s \in SnapsOf(e, doc[e])
      BY SnapsSeen
    <3> QED
      BY <1>2, <1>3, <3>1, <3>2
  <2> QED
    BY <2>1
<1>5. Standing' = IF y.status = "approved" THEN Standing \cup {d} ELSE Standing \ {d}
  BY <1>2 DEF Standing
<1> QED
  BY <1>4, <1>5

LEMMA OneCurrent ==
  ASSUME doc \in [Docs -> Document], NEW d \in Docs, NEW y, y.rows # <<>>,
         doc' = [doc EXCEPT ![d] = y]
  PROVE  /\ CurrentSnapshot' = [CurrentSnapshot EXCEPT ![d] = Top(d, y)]
         /\ CurrentSnapshot'[d] = Top(d, y)
<1>1. CurrentSnapshot' =
        [e \in Docs |-> IF doc'[e].rows # <<>> THEN Top(e, doc'[e]) ELSE None]
  BY DEF CurrentSnapshot, SnapshotAt, Snap, Top, GenOf, Held
<1>2. \A e \in Docs : doc'[e] = IF e = d THEN y ELSE doc[e]
  OBVIOUS
<1> QED
  BY <1>1, <1>2, SnapsSeen DEF Held

\* The snapshots of document d are now those of y.
Replaced(d, y) ==
  /\ KeptSnapshots' = (KeptSnapshots \ SnapsOf(d, doc[d])) \cup SnapsOf(d, y)
  /\ CurrentSnapshot' = [CurrentSnapshot EXCEPT ![d] = Top(d, y)]
  /\ CurrentSnapshot'[d] = Top(d, y)
  /\ Standing' = IF y.status = "approved" THEN Standing \cup {d} ELSE Standing \ {d}

LEMMA OneReplaced ==
  ASSUME doc \in [Docs -> Document], NEW d \in Docs, NEW y, y.rows # <<>>,
         doc' = [doc EXCEPT ![d] = y]
  PROVE  Replaced(d, y)
BY OneDocument, OneCurrent, Zenon DEF Replaced

\* Rows that keep name and text are the same snapshots.
LEMMA SameSnaps ==
  ASSUME NEW d, NEW x, NEW y, x.rows # <<>>, Len(x.rows) \in Nat,
         Len(y.rows) = Len(x.rows),
         \A i \in 1..Len(x.rows) :
           GenOf(y, i) = GenOf(x, i) /\ y.rows[i].text = x.rows[i].text,
         Len(x.rows) > 0
  PROVE  SnapsOf(d, y) = SnapsOf(d, x) /\ Top(d, y) = Top(d, x)
BY DEF SnapsOf, Top, Snap

\* So a write that leaves them leaves what is kept and what is current.
LEMMA SnapsLeft ==
  ASSUME doc \in [Docs -> Document], NEW d \in Docs, Held(d), NEW y, y.rows # <<>>,
         doc' = [doc EXCEPT ![d] = y],
         SnapsOf(d, y) = SnapsOf(d, doc[d]) /\ Top(d, y) = Top(d, doc[d])
  PROVE  /\ KeptSnapshots' = KeptSnapshots
         /\ CurrentSnapshot' = CurrentSnapshot
<1>1. SnapsOf(d, doc[d]) \subseteq KeptSnapshots
  BY SnapsSeen
<1>2. CurrentSnapshot = [CurrentSnapshot EXCEPT ![d] = Top(d, doc[d])]
  BY SnapsSeen
<1>3. KeptSnapshots' = (KeptSnapshots \ SnapsOf(d, doc[d])) \cup SnapsOf(d, y)
  BY OneDocument, Zenon
<1>4. KeptSnapshots' = KeptSnapshots
  <2>1. SnapsOf(d, y) = SnapsOf(d, doc[d])
    OBVIOUS
  <2>2. KeptSnapshots' = (KeptSnapshots \ SnapsOf(d, doc[d])) \cup SnapsOf(d, doc[d])
    BY <1>3, <2>1, Zenon
  <2> QED
    BY <1>1, <2>2
<1>5. CurrentSnapshot' = CurrentSnapshot
  <2>1. CurrentSnapshot' = [CurrentSnapshot EXCEPT ![d] = Top(d, y)]
    BY OneCurrent, Zenon
  <2>2. Top(d, y) = Top(d, doc[d])
    OBVIOUS
  <2> QED
    BY <1>2, <2>1, <2>2, Zenon
<1> QED
  BY <1>4, <1>5

----------------------------------------------------------------------------
(* What a write does to the snapshots of its document.                     *)

\* A seal or a close, which keeps the text, keeps every snapshot.
LEMMA SameTextSnaps ==
  ASSUME DocsInv, NEW d \in Docs, Held(d), NEW w \in Write, ~w.next,
         w.text = Current(doc[d]).text, NEW y,
         y = Saved(doc[d], w, {}, LandsAs(d, w))
  PROVE  /\ y.rows # <<>> /\ y.status = w.status
         /\ SnapsOf(d, y) = SnapsOf(d, doc[d]) /\ Top(d, y) = Top(d, doc[d])
<1> DEFINE x == doc[d]
           n == Len(x.rows)
<1>1. x \in Document /\ x.rows # <<>> /\ GensAscend(x)
  BY DEF Held, DocsInv, DocsAgree, RowsInv, TypeInv, TypeOK
<1>2. LandsAs(d, w) = "rewrite"
  BY DEF LandsAs, Landing
<1>3. {} \in SUBSET Sources
  OBVIOUS
<1>4. Keeps(x, y, Pinned(d))
  BY <1>3, WriteKeeps
<1>5. /\ Len(y.rows) = n /\ n \in Nat \ {0}
      /\ y.gen = x.gen /\ y.status = w.status
      /\ y.rows[n].gen = y.gen /\ y.rows[n].text = w.text
  <2>1. y = Saved(x, w, {}, "rewrite")
    BY <1>2
  <2>2. n \in Nat \ {0}
    BY <1>1 DEF Document
  <2> QED
    BY <1>1, <1>3, <2>1, <2>2, RewrittenRows
<1>6. GenOf(y, n) = GenOf(x, n)
  <2>1. Now(x) = x.gen
    BY <1>1, NowIsGen
  <2> QED
    BY <1>1, <1>5, <2>1, NoneAssumption DEF GenOf, Now, Document
<1>7. \A i \in 1..n : GenOf(y, i) = GenOf(x, i) /\ y.rows[i].text = x.rows[i].text
  BY <1>4, <1>5, <1>6 DEF Keeps, RowStays, Current
<1>8. SnapsOf(d, y) = SnapsOf(d, x) /\ Top(d, y) = Top(d, x)
  <2>1. /\ Len(x.rows) \in Nat /\ Len(x.rows) > 0 /\ Len(y.rows) = Len(x.rows)
        /\ x.rows # <<>>
        /\ \A i \in 1..Len(x.rows) :
             GenOf(y, i) = GenOf(x, i) /\ y.rows[i].text = x.rows[i].text
    BY <1>1, <1>5, <1>7
  <2>2. ASSUME NEW z, z = x PROVE SnapsOf(d, y) = SnapsOf(d, z) /\ Top(d, y) = Top(d, z)
    BY <2>1, <2>2, SameSnaps, Zenon
  <2> QED
    BY <2>2
<1> QED
  BY <1>4, <1>5, <1>8 DEF Keeps

\* The snapshots of the rows up to m, and the m-th by itself.
Lower(d, x, m) == {Snap(d, x, i) : i \in 1..m}

LEMMA SnapsSplit ==
  ASSUME NEW d, NEW x, NEW n \in Nat, Len(x.rows) = n + 1
  PROVE  SnapsOf(d, x) = Lower(d, x, n) \cup {Top(d, x)}
<1>1. 1..(n + 1) = 1..n \cup {n + 1}
  OBVIOUS
<1> QED
  BY <1>1 DEF SnapsOf, Lower, Top

\* A write of a text puts a new snapshot on top.  The one it supersedes goes
\* only when nobody signed it, closed on it or was shown it.
LEMMA NewTextSnaps ==
  ASSUME DocsInv, NEW d \in Docs, Held(d), NEW w \in Write,
         NEW causes \in SUBSET Sources, w.text # Current(doc[d]).text, NEW y,
         y = Saved(doc[d], w, causes, LandsAs(d, w))
  PROVE  /\ y.rows # <<>> /\ y.status = w.status
         /\ Top(d, y) = [doc |-> d, gen |-> doc[d].gen + 1, text |-> w.text]
         /\ \/ SnapsOf(d, y) = SnapsOf(d, doc[d]) \cup {Top(d, y)}
            \/ /\ ~Pinned(d)
               /\ SnapsOf(d, y) = (SnapsOf(d, doc[d]) \ {Top(d, doc[d])}) \cup {Top(d, y)}
<1> PICK x : x = doc[d]
  OBVIOUS
<1> PICK n : n = Len(x.rows)
  OBVIOUS
<1> PICK mode : mode = LandsAs(d, w)
  OBVIOUS
<1>1. x \in Document /\ x.rows # <<>> /\ GensAscend(x)
  BY DEF Held, DocsInv, DocsAgree, RowsInv, TypeInv, TypeOK
<1>2. n \in Nat \ {0} /\ n - 1 \in Nat /\ x.gen \in Nat /\ Now(x) = x.gen
  BY <1>1, NowIsGen DEF Document
<1> PICK m \in Nat : m + 1 = n
  BY <1>2
<1>3. /\ y = Saved(x, w, causes, mode)
      /\ mode = "rewrite" => ~Pinned(d)
      /\ w.text # Current(x).text
  BY DEF LandsAs, Landing
<1>4. Keeps(x, y, Pinned(d))
  BY WriteKeeps
<1>5. y.rows # <<>> /\ \A i \in 1..m : RowStays(x, y, i)
  BY <1>4 DEF Keeps
<1>6. Lower(d, y, m) = Lower(d, x, m)
  BY <1>5 DEF Lower, Snap, RowStays
<1>7. SnapsOf(d, x) = Lower(d, x, m) \cup {Top(d, x)} /\ Top(d, x) = Snap(d, x, n)
  <2>1. Len(x.rows) = m + 1
    OBVIOUS
  <2> QED
    BY <2>1, SnapsSplit, Zenon DEF Top
<1>8. CASE mode = "rewrite"
  <2>1. /\ Len(y.rows) = n /\ y.rows[n].text = w.text /\ y.rows[n].gen = y.gen
        /\ y.gen = x.gen + 1 /\ y.status = w.status
    BY <1>1, <1>3, <1>8, RewrittenRows
  <2>2. Top(d, y) = [doc |-> d, gen |-> x.gen + 1, text |-> w.text]
    BY <1>2, <2>1, NoneAssumption DEF Top, Snap, GenOf
  <2>3. SnapsOf(d, y) = Lower(d, y, m) \cup {Top(d, y)}
    <3>1. Len(y.rows) = m + 1
      BY <2>1
    <3> QED
      BY <3>1, SnapsSplit, Zenon
  <2>4. Top(d, x) \notin Lower(d, x, m)
    <3>1. \A i \in 1..m : GenOf(x, i) < GenOf(x, n)
      BY <1>1, <1>2, AscendNames
    <3>2. \A i \in 1..m : GenOf(x, i) \in Nat /\ GenOf(x, n) \in Nat
      BY <1>1, <1>2, RowType
    <3>3. ASSUME NEW i \in 1..m PROVE Snap(d, x, i) # Snap(d, x, n)
      <4>1. GenOf(x, i) # GenOf(x, n)
        BY <3>1, <3>2
      <4> QED
        BY <4>1 DEF Snap
    <3> QED
      BY <1>7, <3>3 DEF Lower
  <2> QED
    BY <1>3, <1>5, <1>6, <1>7, <1>8, <2>1, <2>2, <2>3, <2>4
<1>9. CASE mode # "rewrite"
  <2>1. Supersedes(y, x, w)
    BY <1>1, <1>3, <1>9, AppendedRows
  <2>2. /\ Len(y.rows) = n + 1 /\ y.rows[n + 1].text = w.text
        /\ y.rows[n + 1].gen = y.gen /\ y.gen = x.gen + 1 /\ y.status = w.status
        /\ y.rows[n] = [x.rows[n] EXCEPT !.gen = GenOf(x, n)]
    BY <1>3, <2>1 DEF Supersedes
  <2>3. Top(d, y) = [doc |-> d, gen |-> x.gen + 1, text |-> w.text]
    BY <1>2, <2>2, NoneAssumption DEF Top, Snap, GenOf
  <2>4. x.rows[n] \in Row /\ GenOf(x, n) \in Nat
    BY <1>1, <1>2, RowType
  <2>5. y.rows[n].gen = GenOf(x, n) /\ y.rows[n].text = x.rows[n].text
    BY <2>2, <2>4 DEF Row
  <2>6. Snap(d, y, n) = Top(d, x)
    <3>1. GenOf(y, n) = GenOf(x, n)
      BY <2>4, <2>5, NoneAssumption DEF GenOf
    <3> QED
      BY <1>7, <2>5, <3>1 DEF Snap
  <2>7. SnapsOf(d, y) = Lower(d, y, n) \cup {Top(d, y)}
    <3>1. n \in Nat /\ Len(y.rows) = n + 1
      BY <1>2, <2>2
    <3> QED
      BY <3>1, SnapsSplit, Zenon
  <2>8. Lower(d, y, n) = Lower(d, y, m) \cup {Snap(d, y, n)}
    <3>1. 1..n = 1..m \cup {n}
      OBVIOUS
    <3> QED
      BY <3>1 DEF Lower
  <2>9. SnapsOf(d, y) = SnapsOf(d, x) \cup {Top(d, y)}
    BY <1>6, <1>7, <2>6, <2>7, <2>8
  <2> QED
    BY <1>5, <2>2, <2>3, <2>9
<1> QED
  BY <1>8, <1>9

----------------------------------------------------------------------------
(* What was shown and what was delivered.                                  *)

\* A step that leaves pages, contexts and what they cover alone.
LEMMA ReviewsLeft ==
  ASSUME UNCHANGED reviews
  PROVE  ShownSnapshots' = ShownSnapshots /\ DeliveredSnapshots' = DeliveredSnapshots
BY DEF reviews, ShownSnapshots, DeliveredSnapshots, Covers

Pictured(p) == [doc |-> p.doc, gen |-> p.target, text |-> p.text]

\* A snapshot was delivered when a context of the viewer's covers it.
LEMMA DeliveredSeen ==
  ASSUME ViewInv, NEW e
  PROVE  e \in DeliveredSnapshots <=>
           \E x \in 1..MaxContexts : \E p \in pages :
             /\ open[x] # None /\ p.doc = open[x].doc /\ Covers(x, p.target)
             /\ e = <<open[x].by, Pictured(p)>>
<1>1. ASSUME NEW x \in 1..MaxContexts, open[x] # None PROVE x \in 1..minted
  <2>1. open[x] \in Views /\ open[x].ctx = x
    BY <1>1 DEF ViewInv, ShownInv, Remembered, Views
  <2>2. x <= minted
    BY <2>1 DEF ViewInv, ShownInv, ContextsApart
  <2> QED
    BY <2>2, ViewTypes
<1>2. 1..minted \subseteq 1..MaxContexts
  BY ViewTypes
<1>3. e \in DeliveredSnapshots <=>
        \E x \in 1..minted : \E z \in ShownSnapshots :
          /\ open[x] # None /\ z.doc = open[x].doc /\ Covers(x, z.gen)
          /\ e = <<open[x].by, z>>
  BY DEF DeliveredSnapshots
<1>4. \A z : z \in ShownSnapshots <=> \E p \in pages : z = Pictured(p)
  BY DEF ShownSnapshots, Pictured
<1>5. \A p : Pictured(p).doc = p.doc /\ Pictured(p).gen = p.target
  BY DEF Pictured
<1>6. \A z \in ShownSnapshots : \E p \in pages :
        z = Pictured(p) /\ z.doc = p.doc /\ z.gen = p.target
  BY <1>4, <1>5
<1>7. \A p \in pages : Pictured(p) \in ShownSnapshots
  BY <1>4
<1> QED
  BY <1>1, <1>2, <1>3, <1>5, <1>6, <1>7

\* Two pages of one generation of a document show one text.
LEMMA OnePicture ==
  ASSUME ShownInv, NEW p \in pages, NEW q \in pages, p.doc = q.doc, p.target = q.target
  PROVE  Pictured(p) = Pictured(q)
<1>1. p.doc \in Docs
  BY DEF ShownInv, DocsInv, RowsInv, TypeInv, TypeOK, Page
<1>2. /\ Fast(p.doc, p.target, p.text) /\ Fast(p.doc, p.target, q.text)
  BY DEF ShownInv, PagesFast
<1>3. Held(p.doc)
  <2>1. doc[p.doc] \in Document
    BY <1>1 DEF ShownInv, DocsInv, RowsInv, TypeInv, TypeOK
  <2> QED
    BY <1>2, <2>1 DEF Fast, Held, Document
<1> QED
  BY <1>1, <1>3, OpenShown DEF Pictured

\* A page shows a snapshot that is kept.
LEMMA PictureKept ==
  ASSUME ShownInv, NEW p \in pages
  PROVE  Pictured(p) \in KeptSnapshots
<1>1. p.doc \in Docs
  BY DEF ShownInv, DocsInv, RowsInv, TypeInv, TypeOK, Page
<1>2. Fast(p.doc, p.target, p.text)
  BY DEF ShownInv, PagesFast
<1> QED
  BY <1>1, <1>2, SnapsSeen DEF Fast, SnapsOf, Snap, Pictured

\* A page of the current generation shows the current snapshot.
LEMMA PictureNow ==
  ASSUME ShownInv, NEW p \in pages, Held(p.doc), p.target = doc[p.doc].gen
  PROVE  /\ p.doc \in Docs
         /\ CurrentSnapshot[p.doc] = Pictured(p)
<1>1. p.doc \in Docs
  BY DEF ShownInv, DocsInv, RowsInv, TypeInv, TypeOK, Page
<1> PICK d : d = p.doc
  OBVIOUS
<1>2. /\ Now(doc[d]) = doc[d].gen
      /\ TextAt(doc[d], Now(doc[d])) = Current(doc[d]).text
  BY <1>1, ReadType
<1>3. TextAt(doc[d], p.target) = p.text
  BY <1>1, OpenShown
<1>4. CurrentSnapshot[d] = Top(d, doc[d])
  BY <1>1, SnapsSeen
<1> QED
  BY <1>1, <1>2, <1>3, <1>4 DEF Top, Snap, Pictured, Now, Current

----------------------------------------------------------------------------
(* Each transaction takes a step of the register.                          *)

\* The current snapshot of a document that is there.
LEMMA NowSeen ==
  ASSUME DocsInv, NEW d \in Docs, Held(d)
  PROVE  /\ CurrentSnapshot[d] = Top(d, doc[d]) /\ Top(d, doc[d]) # None
         /\ Top(d, doc[d]) = [doc |-> d, gen |-> doc[d].gen,
                              text |-> Current(doc[d]).text]
         /\ Top(d, doc[d]) \in SnapsOf(d, doc[d])
         /\ doc[d].gen \in Nat
<1> PICK x : x = doc[d]
  OBVIOUS
<1>1. x \in Document /\ x.rows # <<>> /\ GensAscend(x)
  BY DEF Held, DocsInv, DocsAgree, RowsInv, TypeInv, TypeOK
<1>2. Len(x.rows) \in 1..Len(x.rows) /\ Now(x) = x.gen /\ x.gen \in Nat
  BY <1>1, NowIsGen DEF Document
<1>3. Top(d, x) # None
  BY <1>1, <1>2, SnapType DEF Top
<1>4. CurrentSnapshot[d] = Top(d, x)
  BY SnapsSeen
<1> QED
  BY <1>2, <1>3, <1>4 DEF Top, Snap, Now, Current, SnapsOf

\* A document a write would rewrite is neither shown nor approved.
LEMMA UnpinnedUnseen ==
  ASSUME DocsInv, NEW d \in Docs, Held(d), ~Pinned(d)
  PROVE  Top(d, doc[d]) \notin ShownSnapshots /\ d \notin Standing
<1> PICK x : x = doc[d]
  OBVIOUS
<1>1. x \in Document /\ x.rows # <<>> /\ GensAscend(x) /\ SealAgrees(x)
  BY DEF Held, DocsInv, DocsAgree, RowsInv, TypeInv, TypeOK
<1>2. ASSUME NEW p \in pages, Top(d, x) = Pictured(p) PROVE FALSE
  <2>1. p.doc = d /\ p.target = GenOf(x, Len(x.rows))
    BY <1>2 DEF Pictured, Top, Snap
  <2> QED
    BY <2>1 DEF Pinned
<1>3. d \notin Standing
  BY <1>1 DEF Standing, SealAgrees, Pinned
<1> QED
  BY <1>2, <1>3 DEF ShownSnapshots, Pictured

LEMMA EditChanges ==
  ASSUME RegisterInv, NEW c \in Calls, SaveEdit(c)
  PROVE  \E d \in Docs : Register!Change(d)
<1>1. ChangeInv /\ DocsInv /\ doc \in [Docs -> Document]
  BY ChangeTypes DEF RegisterInv
<1> PICK k : k = call[c]
  OBVIOUS
<1> PICK d : d = k.doc
  OBVIOUS
<1> PICK w : w = k.write
  OBVIOUS
<1>2. /\ d \in Docs /\ Held(d) /\ w \in Write /\ EditPlan(k, doc[d])
      /\ w.text # Current(doc[d]).text
      /\ anchor' = anchor /\ UNCHANGED reviews
      /\ \E causes \in SUBSET Sources :
           doc' = [doc EXCEPT ![d] = Saved(doc[d], w, causes, LandsAs(d, w))]
  <2>1. w.text # Current(doc[d]).text /\ UNCHANGED reviews
    BY DEF SaveEdit
  <2> QED
    BY <1>1, <2>1, SaveEditDoes
<1> PICK causes \in SUBSET Sources :
      doc' = [doc EXCEPT ![d] = Saved(doc[d], w, causes, LandsAs(d, w))]
  BY <1>2
<1> PICK y : y = Saved(doc[d], w, causes, LandsAs(d, w))
  OBVIOUS
<1> PICK old : old = Top(d, doc[d])
  OBVIOUS
<1> PICK new : new = Top(d, y)
  OBVIOUS
<1>3. /\ y.rows # <<>> /\ y.status = w.status
      /\ new = [doc |-> d, gen |-> doc[d].gen + 1, text |-> w.text]
      /\ \/ SnapsOf(d, y) = SnapsOf(d, doc[d]) \cup {new}
         \/ ~Pinned(d) /\ SnapsOf(d, y) = (SnapsOf(d, doc[d]) \ {old}) \cup {new}
  BY <1>1, <1>2, NewTextSnaps
<1>4. /\ CurrentSnapshot[d] = old /\ old # None /\ old \in SnapsOf(d, doc[d])
      /\ old = [doc |-> d, gen |-> doc[d].gen, text |-> Current(doc[d]).text]
  BY <1>1, <1>2, NowSeen
<1>5. doc' = [doc EXCEPT ![d] = y]
  OBVIOUS
<1>6. Replaced(d, y)
  <2>1. doc \in [Docs -> Document] /\ d \in Docs /\ y.rows # <<>>
    BY <1>1, <1>2, <1>3
  <2> QED
    BY <1>5, <2>1, OneReplaced, Zenon
<1>7. Standing' = Standing \ {d} /\ CurrentSnapshot' = [CurrentSnapshot EXCEPT ![d] = new]
  <2>1. w.status # "approved"
    BY <1>2 DEF EditPlan, Draft
  <2> QED
    BY <1>3, <1>6, <2>1 DEF Replaced
<1>8. SnapsOf(d, doc[d]) \subseteq KeptSnapshots
  BY <1>2, SnapsSeen, SMTT(20)
<1>9. \/ KeptSnapshots' = KeptSnapshots \cup {new}
      \/ /\ old \notin ShownSnapshots /\ d \notin Standing
         /\ KeptSnapshots' = (KeptSnapshots \ {old}) \cup {new}
  <2>1. CASE SnapsOf(d, y) = SnapsOf(d, doc[d]) \cup {new}
    BY <1>6, <1>8, <2>1 DEF Replaced
  <2>2. CASE ~Pinned(d) /\ SnapsOf(d, y) = (SnapsOf(d, doc[d]) \ {old}) \cup {new}
    <3>1. old \notin ShownSnapshots /\ d \notin Standing
      BY <1>1, <1>2, <2>2, UnpinnedUnseen, SMTT(20)
    <3>2. KeptSnapshots' = (KeptSnapshots \ {old}) \cup {new}
      <4>1. KeptSnapshots' = (KeptSnapshots \ SnapsOf(d, doc[d])) \cup SnapsOf(d, y)
        BY <1>6 DEF Replaced
      <4> QED
        BY <1>4, <1>8, <2>2, <4>1
    <3> QED
      BY <3>1, <3>2
  <2> QED
    BY <1>3, <2>1, <2>2
<1>10. /\ ShownSnapshots' = ShownSnapshots
       /\ DeliveredSnapshots' = DeliveredSnapshots
  BY <1>2, ReviewsLeft
<1>11. CurrentSnapshot'[d] = new
  BY <1>6, SMTT(20) DEF Replaced
<1>12. /\ new.text = w.text /\ w.text \in Text
       /\ old.gen = doc[d].gen /\ old.text = Current(doc[d]).text
  BY <1>2, <1>3, <1>4 DEF Write
<1>13. /\ new = Register!Snapshot(d, old.gen + 1, new.text)
       /\ new.text \in Text \ {old.text}
  BY <1>2, <1>3, <1>12 DEF Register!Snapshot
<1>14. anchor' = anchor
  BY <1>2
<1>15. Register!Change(d)
  BY <1>4, <1>7, <1>9, <1>10, <1>11, <1>13, <1>14, Zenon DEF Register!Change
<1> QED
  BY <1>2, <1>15

LEMMA CreateCreates ==
  ASSUME RegisterInv, NEW c \in Calls, SaveCreate(c)
  PROVE  \E d \in Docs : Register!Create(d)
<1>1. ChangeInv /\ DocsInv /\ doc \in [Docs -> Document]
  BY ChangeTypes DEF RegisterInv
<1> PICK d : d = call[c].doc
  OBVIOUS
<1> PICK w : w = call[c].write
  OBVIOUS
<1>2. /\ d \in Docs /\ ~Held(d) /\ w \in Write /\ w.status # "approved"
      /\ anchor' = anchor /\ UNCHANGED reviews
      /\ \E causes \in SUBSET Sources : doc' = [doc EXCEPT ![d] = Created(w, causes)]
  <2>1. UNCHANGED reviews
    BY DEF SaveCreate
  <2> QED
    BY <1>1, <2>1, SaveCreateDoes
<1> PICK causes \in SUBSET Sources : doc' = [doc EXCEPT ![d] = Created(w, causes)]
  BY <1>2
<1> PICK y : y = Created(w, causes)
  OBVIOUS
<1> PICK new : new = Top(d, y)
  OBVIOUS
<1>3. /\ y.rows # <<>> /\ Len(y.rows) = 1 /\ y.status = w.status
      /\ y.rows[1].text = w.text /\ y.rows[1].gen = 0
  <2> DEFINE r == [text |-> w.text, gen |-> 0, version |-> 1, cites |-> causes,
                   sealed |-> None, presented |-> FALSE, outcome |-> None]
  <2>1. y.rows = <<r>> /\ y.status = w.status
    BY DEF Created
  <2>2. r.text = w.text /\ r.gen = 0
    OBVIOUS
  <2> HIDE DEF r
  <2> QED
    BY <2>1, <2>2
<1>4. new = [doc |-> d, gen |-> 0, text |-> w.text] /\ SnapsOf(d, y) = {new}
  <2>1. new = [doc |-> d, gen |-> 0, text |-> w.text]
    BY <1>3, NoneAssumption DEF Top, Snap, GenOf
  <2>2. 1..Len(y.rows) = {1}
    BY <1>3
  <2> QED
    BY <1>3, <2>1, <2>2 DEF SnapsOf, Top
<1>5. SnapsOf(d, doc[d]) = {} /\ CurrentSnapshot[d] = None /\ d \notin Standing
  <2>1. doc[d].rows = <<>> /\ SealAgrees(doc[d])
    BY <1>1, <1>2 DEF Held, DocsInv, DocsAgree
  <2>2. 1..Len(doc[d].rows) = {}
    BY <2>1
  <2>3. SnapsOf(d, doc[d]) = {} /\ CurrentSnapshot[d] = None
    BY <1>2, <2>2, SnapsSeen DEF SnapsOf
  <2>4. d \notin Standing
    BY <2>1 DEF Standing, SealAgrees
  <2> QED
    BY <2>3, <2>4
<1>6. doc' = [doc EXCEPT ![d] = y]
  OBVIOUS
<1>7. Replaced(d, y)
  BY <1>1, <1>2, <1>3, <1>6, OneReplaced
<1>8. /\ CurrentSnapshot' = [CurrentSnapshot EXCEPT ![d] = new]
      /\ CurrentSnapshot'[d] = new
      /\ Standing' = Standing
  BY <1>2, <1>3, <1>5, <1>7 DEF Replaced
<1>9. KeptSnapshots' = KeptSnapshots \cup {new}
  BY <1>4, <1>5, <1>7 DEF Replaced
<1>10. /\ ShownSnapshots' = ShownSnapshots
       /\ DeliveredSnapshots' = DeliveredSnapshots
  BY <1>2, ReviewsLeft
<1>11. /\ new = Register!Snapshot(d, 0, new.text)
       /\ new.text \in Text /\ new # None
  BY <1>2, <1>4, SnapshotAssumption DEF Register!Snapshot, Write
<1>12. anchor' = anchor
  BY <1>2
<1>13. Register!Create(d)
  BY <1>5, <1>8, <1>9, <1>10, <1>11, <1>12, Zenon DEF Register!Create
<1> QED
  BY <1>2, <1>13

\* An approval and a close keep every snapshot.
LEMMA SealSnaps ==
  ASSUME RegisterInv, NEW c \in Calls, SaveApprove(c) \/ SaveClose(c)
  PROVE  LET d == call[c].doc
         IN /\ d \in Docs /\ Held(d) /\ UNCHANGED reviews
            /\ KeptSnapshots' = KeptSnapshots /\ CurrentSnapshot' = CurrentSnapshot
            /\ Standing' = IF call[c].write.status = "approved"
                           THEN Standing \cup {d} ELSE Standing \ {d}
            /\ Fits(call[c], doc[d])
<1>1. ChangeInv /\ DocsInv /\ RowsInv /\ doc \in [Docs -> Document]
  BY ChangeTypes DEF RegisterInv
<1> PICK d : d = call[c].doc
  OBVIOUS
<1> PICK w : w = call[c].write
  OBVIOUS
<1>2. /\ d \in Docs /\ Held(d) /\ w \in Write /\ w.text = Current(doc[d]).text
      /\ UNCHANGED reviews /\ ~w.next /\ Fits(call[c], doc[d])
      /\ doc' = [doc EXCEPT ![d] = Saved(doc[d], w, {}, LandsAs(d, w))]
  <2>1. /\ UNCHANGED reviews /\ call[c].op \in {"approve", "close"} /\ w # None
        /\ doc' = [doc EXCEPT ![d] = Saved(doc[d], w, {}, LandsAs(d, w))]
    BY DEF SaveApprove, SaveClose
  <2>2. ~w.next
    BY <1>1, <2>1, WriterType
  <2> QED
    BY <1>1, <2>1, <2>2, SaveSealDoes
<1> PICK y : y = Saved(doc[d], w, {}, LandsAs(d, w))
  OBVIOUS
<1>3. /\ y.rows # <<>> /\ y.status = w.status
      /\ SnapsOf(d, y) = SnapsOf(d, doc[d]) /\ Top(d, y) = Top(d, doc[d])
  BY <1>1, <1>2, SameTextSnaps
<1>4. doc' = [doc EXCEPT ![d] = y]
  BY <1>2
<1>5. Replaced(d, y)
  BY <1>1, <1>2, <1>3, <1>4, OneReplaced
<1>6. SnapsOf(d, doc[d]) \subseteq KeptSnapshots
  BY <1>2, SnapsSeen
<1>7. KeptSnapshots' = KeptSnapshots
  <2>1. KeptSnapshots' = (KeptSnapshots \ SnapsOf(d, doc[d])) \cup SnapsOf(d, doc[d])
    BY <1>3, <1>5 DEF Replaced
  <2> QED
    BY <1>6, <2>1
<1>8. CurrentSnapshot' = CurrentSnapshot
  <2>1. CurrentSnapshot' = [CurrentSnapshot EXCEPT ![d] = Top(d, doc[d])]
    BY <1>3, <1>5 DEF Replaced
  <2>2. CurrentSnapshot = [CurrentSnapshot EXCEPT ![d] = Top(d, doc[d])]
    BY <1>2, SnapsSeen
  <2> QED
    BY <2>1, <2>2
<1>9. Standing' = IF w.status = "approved" THEN Standing \cup {d} ELSE Standing \ {d}
  BY <1>3, <1>5 DEF Replaced
<1> QED
  BY <1>2, <1>7, <1>8, <1>9

LEMMA ApproveApproves ==
  ASSUME RegisterInv, NEW c \in Calls, SaveApprove(c)
  PROVE  \E v \in Viewers, d \in Docs : Register!Approve(v, d)
<1>1. ViewInv /\ ShownInv /\ DocsInv /\ RowsInv /\ SealPlans /\ call \in [Calls -> Call]
  BY ViewTypes DEF RegisterInv, SignedInv, ViewInv
<1> PICK k : k = call[c]
  OBVIOUS
<1> PICK d : d = k.doc
  OBVIOUS
<1>2. /\ d \in Docs /\ Held(d) /\ UNCHANGED reviews
      /\ KeptSnapshots' = KeptSnapshots /\ CurrentSnapshot' = CurrentSnapshot
      /\ Standing' = IF k.write.status = "approved"
                     THEN Standing \cup {d} ELSE Standing \ {d}
  BY SealSnaps
<1>3. /\ k.op = "approve" /\ k.write # None /\ k.st.gen = doc[d].gen /\ anchor' = anchor
  BY DEF SaveApprove, Moved, StateOf
<1>4. k.write.status = "approved" /\ k.by \in Viewers
  <2>1. k \in ApproveCall
    BY <1>1, <1>3, CallKind
  <2> QED
    BY <1>1, <1>3, <2>1 DEF RowsInv, CallPlans, CallPlan, ApproveCall
<1> PICK x : x = k.ctx
  OBVIOUS
<1>5. Basis(x, k.by, d, doc[d].gen)
  BY <1>1, <1>3 DEF SealPlans, SealPlan
<1>6. /\ x \in 1..MaxContexts /\ open[x] # None /\ open[x].by = k.by
      /\ open[x].doc = d /\ Covers(x, doc[d].gen)
  BY <1>1, <1>5, ViewTypes DEF Basis, Own
<1>7. PICK p \in pages : p.ctx = x /\ p.target = doc[d].gen
  BY <1>1, <1>6 DEF ShownInv, Remembered, Covers
<1>8. p.doc = d
  <2>1. open[x] \in pages /\ open[x].ctx = x /\ x # 0
    BY <1>1, <1>6 DEF ShownInv, Remembered
  <2> QED
    BY <1>1, <1>6, <1>7, <2>1 DEF ShownInv, ContextsApart, Views
<1>9. CurrentSnapshot[d] = Pictured(p)
  BY <1>1, <1>2, <1>7, <1>8, PictureNow
<1>10. <<k.by, CurrentSnapshot[d]>> \in DeliveredSnapshots
  BY <1>1, <1>6, <1>7, <1>8, <1>9, DeliveredSeen
<1>11. /\ ShownSnapshots' = ShownSnapshots
       /\ DeliveredSnapshots' = DeliveredSnapshots
  BY <1>2, ReviewsLeft
<1>12. Register!Approve(k.by, d)
  BY <1>2, <1>3, <1>4, <1>10, <1>11 DEF Register!Approve
<1> QED
  BY <1>2, <1>4, <1>12

LEMMA CloseCloses ==
  ASSUME RegisterInv, NEW c \in Calls, SaveClose(c)
  PROVE  \E o \in Dispositions : Register!Close(o)
<1> PICK k : k = call[c]
  OBVIOUS
<1> PICK d : d = k.doc
  OBVIOUS
<1>1. k.op = "close" /\ anchor = None /\ anchor' = k.to
  BY DEF SaveClose, StillOpen
<1>2. /\ d \in Docs /\ UNCHANGED reviews
      /\ KeptSnapshots' = KeptSnapshots /\ CurrentSnapshot' = CurrentSnapshot
      /\ Standing' = IF k.write.status = "approved"
                     THEN Standing \cup {d} ELSE Standing \ {d}
      /\ k.write.status = doc[d].status
  <2>1. Fits(k, doc[d])
    BY SealSnaps
  <2>2. k.write.status = doc[d].status
    BY <1>1, <2>1 DEF Fits, CloseText
  <2> QED
    BY <2>2, SealSnaps
<1>3. Standing' = Standing
  BY <1>2 DEF Standing
<1>4. k.to \in Dispositions
  <2>1. call \in [Calls -> Call]
    BY ViewTypes DEF RegisterInv, SignedInv
  <2>2. k \in CloseCall
    BY <1>1, <2>1, CallKind
  <2> QED
    BY <2>2 DEF CloseCall
<1>5. /\ ShownSnapshots' = ShownSnapshots
      /\ DeliveredSnapshots' = DeliveredSnapshots
  BY <1>2, ReviewsLeft
<1>6. Register!Close(k.to)
  BY <1>1, <1>2, <1>3, <1>5 DEF Register!Close
<1> QED
  BY <1>4, <1>6

\* What recording page p does to the contexts: p's own opens on it and may cover
\* its target; what was open or covered stays so.
LEMMA RecordingReviews ==
  ASSUME ViewInv, NEW c \in Calls, SavePresent(c), NEW p, p = call[c].page
  PROVE  /\ p \in Page /\ p \in Views /\ p.doc \in Docs /\ Held(p.doc)
         /\ pages' = pages \cup {p} /\ minted' = minted /\ anchor' = anchor
         /\ \A x \in 1..MaxContexts :
              /\ x # p.ctx => open'[x] = open[x]
              /\ x = p.ctx => open'[x] = p
              /\ (x = p.ctx /\ open[x] # None) =>
                   open[x].by = p.by /\ open[x].doc = p.doc
              /\ \A g : Covers(x, g) => Covers(x, g)' /\ open[x] # None
              /\ \A g : Covers(x, g)' => Covers(x, g) \/ (x = p.ctx /\ g = p.target)
<1>1. /\ pages' = pages \cup {p} /\ minted' = minted /\ anchor' = anchor
      /\ call[c].op = "present"
      /\ open' = IF p.ctx = 0 THEN open ELSE [open EXCEPT ![p.ctx] = p]
      /\ covered' = IF Completes(p) /\ ~Covers(p.ctx, p.target)
                    THEN [covered EXCEPT ![p.ctx] = Append(covered[p.ctx], p.target)]
                    ELSE covered
  BY Zenon DEF SavePresent
<1>2. p \in Page /\ p.doc \in Docs /\ Held(p.doc) /\ p \in Views /\ p.target \in Nat
      /\ p.ctx \in 0..MaxContexts
  BY <1>1, PresentCallType, ViewTypes DEF Views, Presenting
<1>3. /\ covered \in [1..MaxContexts -> Seq(Nat)]
      /\ open \in [1..MaxContexts -> Page \cup {None}]
      /\ MaxContexts \in Nat
  BY ViewTypes, BoundAssumption DEF TypeOK
<1> SUFFICES ASSUME NEW x \in 1..MaxContexts
             PROVE  /\ x # p.ctx => open'[x] = open[x]
                    /\ x = p.ctx => open'[x] = p
                    /\ (x = p.ctx /\ open[x] # None) =>
                         open[x].by = p.by /\ open[x].doc = p.doc
                    /\ \A g : Covers(x, g) => Covers(x, g)' /\ open[x] # None
                    /\ \A g : Covers(x, g)' =>
                                Covers(x, g) \/ (x = p.ctx /\ g = p.target)
  BY <1>1, <1>2
<1>4. x # 0
  BY <1>3
<1>5. (x # p.ctx => open'[x] = open[x]) /\ (x = p.ctx => open'[x] = p)
  BY <1>1, <1>3, <1>4
<1>6. ASSUME x = p.ctx, open[x] # None PROVE open[x].by = p.by /\ open[x].doc = p.doc
  <2>1. open[x] \in Views /\ open[x].ctx = p.ctx
    BY <1>6 DEF ViewInv, ShownInv, Remembered, Views
  <2> QED
    BY <1>2, <1>4, <1>6, <2>1 DEF ViewInv, ViewersApart, ShownInv, ContextsApart
<1>7. ASSUME NEW g, Covers(x, g) PROVE open[x] # None
  BY <1>7 DEF Covers, ViewInv, CoverGiven
<1>8. covered[x] \in Seq(Nat) /\ Len(covered[x]) \in Nat
  BY <1>3
<1>9. \/ covered'[x] = covered[x]
      \/ x = p.ctx /\ covered'[x] = Append(covered[x], p.target)
  BY <1>1, <1>3
<1>10. CASE covered'[x] = covered[x]
  BY <1>5, <1>6, <1>7, <1>10 DEF Covers
<1>11. CASE x = p.ctx /\ covered'[x] = Append(covered[x], p.target)
  <2> DEFINE n == Len(covered[x])
  <2>1. /\ Len(covered'[x]) = n + 1 /\ covered'[x][n + 1] = p.target
        /\ \A i \in 1..n : covered'[x][i] = covered[x][i]
    BY <1>2, <1>8, <1>11, SMTT(20)
  <2>2. 1..(n + 1) = 1..n \cup {n + 1}
    BY <1>8
  <2>3. \A g : Covers(x, g) => Covers(x, g)'
    BY <1>8, <2>1, <2>2 DEF Covers
  <2>4. \A g : Covers(x, g)' => Covers(x, g) \/ g = p.target
    BY <1>8, <2>1, <2>2 DEF Covers
  <2> QED
    BY <1>5, <1>6, <1>7, <1>11, <2>3, <2>4
<1> QED
  BY <1>9, <1>10, <1>11, Zenon

\* Recording page p delivers its snapshot, or nothing, and to nobody but its
\* viewer; any other page that names the snapshot shows the same.
LEMMA RecordingDelivers ==
  ASSUME ViewInv, NEW c \in Calls, SavePresent(c), NEW p, p = call[c].page,
         \A q \in pages : (q.doc = p.doc /\ q.target = p.target)
                             => Pictured(q) = Pictured(p)
  PROVE  /\ DeliveredSnapshots \subseteq DeliveredSnapshots'
         /\ DeliveredSnapshots' \subseteq
              DeliveredSnapshots \cup {<<p.by, Pictured(p)>>}
<1>1. /\ pages' = pages \cup {p} /\ minted' = minted
      /\ \A x \in 1..MaxContexts :
              /\ x # p.ctx => open'[x] = open[x]
              /\ x = p.ctx => open'[x] = p
              /\ (x = p.ctx /\ open[x] # None) =>
                   open[x].by = p.by /\ open[x].doc = p.doc
              /\ \A g : Covers(x, g) => Covers(x, g)' /\ open[x] # None
              /\ \A g : Covers(x, g)' => Covers(x, g) \/ (x = p.ctx /\ g = p.target)
  BY RecordingReviews
<1>2. p \in Page /\ p # None
  BY RecordingReviews, PageAssumption
<1>3. 1..minted \subseteq 1..MaxContexts
  BY ViewTypes
<1>4. \A z : /\ z \in ShownSnapshots <=> \E q \in pages : z = Pictured(q)
             /\ z \in ShownSnapshots' <=> \E q \in pages' : z = Pictured(q)
  BY DEF ShownSnapshots, Pictured
<1>5. \A q : Pictured(q).doc = q.doc /\ Pictured(q).gen = q.target
  BY DEF Pictured
<1>6. \A e : e \in DeliveredSnapshots <=>
        \E x \in 1..minted : \E z \in ShownSnapshots :
          /\ open[x] # None /\ z.doc = open[x].doc /\ Covers(x, z.gen)
          /\ e = <<open[x].by, z>>
  BY DEF DeliveredSnapshots
<1>7. \A e : e \in DeliveredSnapshots' <=>
        \E x \in 1..minted : \E z \in ShownSnapshots' :
          /\ open'[x] # None /\ z.doc = open'[x].doc /\ Covers(x, z.gen)'
          /\ e = <<open'[x].by, z>>
  BY <1>1 DEF DeliveredSnapshots
<1>8. ASSUME NEW e \in DeliveredSnapshots PROVE e \in DeliveredSnapshots'
  <2>1. PICK x \in 1..minted, z \in ShownSnapshots :
          /\ open[x] # None /\ z.doc = open[x].doc /\ Covers(x, z.gen)
          /\ e = <<open[x].by, z>>
    BY <1>6
  <2>2. z \in ShownSnapshots'
    BY <1>1, <1>4
  <2>3. /\ open'[x] # None /\ open'[x].doc = open[x].doc /\ open'[x].by = open[x].by
        /\ Covers(x, z.gen)'
    BY <1>1, <1>2, <1>3, <2>1
  <2> QED
    BY <1>7, <2>1, <2>2, <2>3
<1>9. ASSUME NEW e \in DeliveredSnapshots', e # <<p.by, Pictured(p)>>
      PROVE  e \in DeliveredSnapshots
  <2>1. PICK x \in 1..minted, z \in ShownSnapshots' :
          /\ open'[x] # None /\ z.doc = open'[x].doc /\ Covers(x, z.gen)'
          /\ e = <<open'[x].by, z>>
    BY <1>7
  <2>2. x \in 1..MaxContexts /\ x # 0
    BY <1>3, ViewTypes
  <2>3. CASE x = p.ctx
    <3>1. open'[x] = p /\ z.doc = p.doc /\ z # Pictured(p)
      BY <1>1, <1>9, <2>1, <2>2, <2>3
    <3>2. PICK q \in pages : z = Pictured(q)
      BY <1>1, <1>4, <3>1
    <3>3. z.gen # p.target
      BY <1>5, <3>1, <3>2
    <3>4. Covers(x, z.gen) /\ open[x] # None
      BY <1>1, <2>1, <2>2, <3>3
    <3>5. open[x].by = p.by /\ open[x].doc = p.doc
      BY <1>1, <2>2, <2>3, <3>4
    <3> QED
      BY <1>4, <1>6, <2>1, <3>1, <3>2, <3>4, <3>5
  <2>4. CASE x # p.ctx
    <3>1. open'[x] = open[x] /\ open[x] # None /\ Covers(x, z.gen)
      BY <1>1, <2>1, <2>2, <2>4
    <3>2. z \in ShownSnapshots
      <4>1. PICK q \in pages \cup {p} : z = Pictured(q)
        BY <1>1, <1>4
      <4>2. ASSUME q = p PROVE z \in ShownSnapshots
        <5>1. z.gen = p.target /\ z.doc = p.doc /\ open[x].doc = p.doc
          BY <1>5, <2>1, <3>1, <4>1, <4>2
        <5>2. PICK r \in pages : r.ctx = x /\ r.target = p.target
          BY <2>2, <3>1, <5>1 DEF Covers, ViewInv, ShownInv, Remembered
        <5>3. r.doc = p.doc
          <6>1. open[x] \in pages /\ open[x].ctx = x
            BY <2>2, <3>1 DEF ViewInv, ShownInv, Remembered
          <6> QED
            BY <2>2, <5>1, <5>2, <6>1 DEF ViewInv, ShownInv, ContextsApart, Views
        <5> QED
          BY <1>4, <4>1, <4>2, <5>2, <5>3
      <4> QED
        BY <1>4, <4>1, <4>2
    <3> QED
      BY <1>6, <2>1, <3>1, <3>2
  <2> QED
    BY <2>3, <2>4
<1> QED
  BY <1>8, <1>9

\* The page recorded shows the current snapshot or one shown before, and any
\* other page that names it shows the same.
LEMMA PresentPictures ==
  ASSUME RegisterInv, NEW c \in Calls, SavePresent(c), NEW p, p = call[c].page
  PROVE  /\ Pictured(p) \in KeptSnapshots
         /\ Pictured(p) = CurrentSnapshot[p.doc] \/ Pictured(p) \in ShownSnapshots
         /\ \A q \in pages : (q.doc = p.doc /\ q.target = p.target)
                               => Pictured(q) = Pictured(p)
<1>1. ViewInv /\ ShownInv /\ DocsInv /\ TypeInv
  BY ViewTypes DEF RegisterInv, SignedInv, ViewInv
<1> PICK k : k = call[c]
  OBVIOUS
<1> PICK d : d = p.doc
  OBVIOUS
<1> PICK x : x = doc[d]
  OBVIOUS
<1>2. /\ c \in Presenting /\ k.page = p /\ d \in Docs /\ Held(d)
      /\ k.current => StillHeld(k)
  <2>1. p.doc \in Docs /\ Held(p.doc)
    BY <1>1, RecordingReviews
  <2>2. call[c].op = "present" /\ (call[c].current => StillHeld(call[c]))
    BY Zenon DEF SavePresent
  <2> QED
    BY <2>1, <2>2 DEF Presenting
<1>3. CASE ~k.current
  <2>1. PICK q \in pages : q.doc = d /\ q.target = p.target /\ q.text = p.text
    <3>1. ShownBefore(p)
      BY <1>2, <1>3 DEF RegisterInv, FlightsShown
    <3> QED
      BY <3>1 DEF ShownBefore
  <2>2. Pictured(q) = Pictured(p)
    BY <2>1 DEF Pictured
  <2>3. Pictured(q) \in KeptSnapshots /\ Pictured(q) \in ShownSnapshots
    BY <1>1, PictureKept DEF ShownSnapshots, Pictured
  <2>4. ASSUME NEW r \in pages, r.doc = d, r.target = p.target
        PROVE  Pictured(r) = Pictured(q)
    BY <1>1, <2>1, <2>4, OnePicture
  <2> QED
    BY <2>2, <2>3, <2>4
<1>4. CASE k.current
  <2>1. Len(x.rows) = k.rev /\ Now(x) = p.target
    BY <1>2, <1>4 DEF StillHeld, Now
  <2>2. Current(x).text = p.text
    BY <1>1, <1>2, <1>4, <2>1 DEF ShownInv, FlightsFast, FlightFast
  <2>3. Now(x) = x.gen /\ TextAt(x, Now(x)) = Current(x).text
    BY <1>1, <1>2, ReadType
  <2>4. Pictured(p) = CurrentSnapshot[d] /\ Pictured(p) \in SnapsOf(d, x)
    BY <1>1, <1>2, <2>1, <2>2, <2>3, NowSeen DEF Pictured
  <2>5. Pictured(p) \in KeptSnapshots
    BY <1>2, <2>4, SnapsSeen
  <2>6. ASSUME NEW q \in pages, q.doc = d, q.target = p.target
        PROVE  Pictured(q) = Pictured(p)
    <3>1. TextAt(x, q.target) = q.text
      BY <1>1, <1>2, <2>6, OpenShown
    <3> QED
      BY <2>1, <2>2, <2>3, <2>6, <3>1 DEF Pictured
  <2> QED
    BY <2>4, <2>5, <2>6
<1> QED
  BY <1>3, <1>4

\* Marking the current row as presented changes no snapshot.
LEMMA MarkSnaps ==
  ASSUME DocsInv, NEW d \in Docs, Recalled(d)
  PROVE  /\ KeptSnapshots' = KeptSnapshots
         /\ CurrentSnapshot' = CurrentSnapshot
         /\ Standing' = Standing
<1> PICK x : x = doc[d]
  OBVIOUS
<1> PICK done \in BOOLEAN : Held(d) /\ doc' = [doc EXCEPT ![d] = Marked(x, done)]
  BY DEF Recalled
<1> PICK y : y = Marked(x, done)
  OBVIOUS
<1>1. /\ doc \in [Docs -> Document] /\ x \in Document /\ x.rows # <<>>
      /\ GensAscend(x) /\ Len(x.rows) \in Nat /\ Len(x.rows) > 0
  BY CurrentType DEF Held, DocsInv, DocsAgree, RowsInv, TypeInv, TypeOK
<1>2. Len(y.rows) = Len(x.rows) /\ y.status = x.status
  BY <1>1, MarkedRows
<1>3. \A i \in 1..Len(x.rows) : RowStays(x, y, i)
  BY <1>1, MarkLeaves
<1>4. SnapsOf(d, y) = SnapsOf(d, x) /\ Top(d, y) = Top(d, x) /\ y.rows # <<>>
  <2>1. \A i \in 1..Len(x.rows) :
          GenOf(y, i) = GenOf(x, i) /\ y.rows[i].text = x.rows[i].text
    BY <1>3 DEF RowStays
  <2>2. SnapsOf(d, y) = SnapsOf(d, x) /\ Top(d, y) = Top(d, x)
    BY <1>1, <1>2, <2>1, SameSnaps
  <2>3. y.rows # <<>>
    BY <1>1, <1>2
  <2> QED
    BY <2>2, <2>3
<1>5. doc' = [doc EXCEPT ![d] = y]
  OBVIOUS
<1>6. KeptSnapshots' = KeptSnapshots /\ CurrentSnapshot' = CurrentSnapshot
  BY <1>1, <1>4, <1>5, SnapsLeft
<1>7. Replaced(d, y)
  BY <1>1, <1>4, <1>5, OneReplaced
<1>8. Standing' = Standing
  BY <1>2, <1>7 DEF Replaced, Standing
<1> QED
  BY <1>6, <1>8

LEMMA PresentShows ==
  ASSUME RegisterInv, NEW c \in Calls, SavePresent(c)
  PROVE  \E v \in Viewers, s \in KeptSnapshots : Register!Show(v, s)
<1>1. ViewInv /\ DocsInv /\ RowsInv
  BY ViewTypes DEF RegisterInv, SignedInv
<1> PICK p : p = call[c].page
  OBVIOUS
<1> PICK s : s = Pictured(p)
  OBVIOUS
<1>2. /\ p.by \in Viewers /\ p.doc \in Docs
      /\ pages' = pages \cup {p} /\ anchor' = anchor
  BY <1>1, RecordingReviews DEF Page
<1>3. /\ s \in KeptSnapshots
      /\ s = CurrentSnapshot[p.doc] \/ s \in ShownSnapshots
      /\ \A q \in pages : (q.doc = p.doc /\ q.target = p.target)
                            => Pictured(q) = Pictured(p)
  BY PresentPictures
<1>4. /\ KeptSnapshots' = KeptSnapshots /\ CurrentSnapshot' = CurrentSnapshot
      /\ Standing' = Standing
  BY <1>1, <1>2, SavePresentMarks, DocsLeft, MarkSnaps
<1>5. ShownSnapshots' = ShownSnapshots \cup {s}
  BY <1>2 DEF ShownSnapshots, Pictured
<1>6. /\ DeliveredSnapshots \subseteq DeliveredSnapshots'
      /\ DeliveredSnapshots' \subseteq DeliveredSnapshots \cup {<<p.by, s>>}
  BY <1>1, <1>3, RecordingDelivers
<1>7. \/ DeliveredSnapshots' = DeliveredSnapshots
      \/ DeliveredSnapshots' = DeliveredSnapshots \cup {<<p.by, s>>}
  BY <1>6
<1>8. s.doc = p.doc
  BY DEF Pictured
<1>9. Register!Show(p.by, s)
  BY <1>2, <1>3, <1>4, <1>5, <1>7, <1>8 DEF Register!Show
<1> QED
  BY <1>2, <1>3, <1>9

\* Beginning a presentation may mint a context, and delivers nothing.
LEMMA BeginningShowsNothing ==
  ASSUME RegisterInv, [Next]_vars, NEW c \in Calls, NEW v \in Viewers,
         NEW d \in Docs, NEW span \in Spans, BeginPresent(c, v, d, span)
  PROVE  UNCHANGED Register!vars
<1>1. ViewInv /\ ShownInv /\ DocsInv /\ TypeOK /\ minted \in Nat
  BY ViewTypes DEF RegisterInv, SignedInv, ViewInv
<1>2. /\ UNCHANGED <<store, pages, covered, open>>
      /\ minted' = minted \/ minted' = minted + 1
  BY DEF BeginPresent, PresentFresh, PresentWhole, PresentDelta, PresentOn,
         PresentRead, Showing
<1>3. doc' = doc /\ anchor' = anchor
  BY <1>2 DEF store
<1>4. 1..minted' \subseteq 1..MaxContexts
  <2>1. DocsInv'
    BY <1>1, NextDocs
  <2>2. minted' \in 0..MaxContexts
    BY <2>1 DEF DocsInv, RowsInv, TypeInv, TypeOK
  <2> QED
    BY <2>2, BoundAssumption
<1>5. ASSUME NEW y \in 1..MaxContexts, open[y] # None PROVE y \in 1..minted
  <2>1. open[y] \in Views /\ open[y].ctx = y
    BY <1>1, <1>5 DEF ShownInv, Remembered, Views
  <2>2. y <= minted
    BY <1>1, <2>1 DEF ShownInv, ContextsApart
  <2> QED
    BY <1>1, <2>2
<1>6. {y \in 1..minted' : open[y] # None} = {y \in 1..minted : open[y] # None}
  BY <1>1, <1>2, <1>4, <1>5
<1>7. ShownSnapshots' = ShownSnapshots
  BY <1>2 DEF ShownSnapshots
<1>8. DeliveredSnapshots' = DeliveredSnapshots
  BY <1>2, <1>6, <1>7 DEF DeliveredSnapshots, Covers
<1> QED
  BY <1>3, <1>7, <1>8, DocsLeft DEF Register!vars

----------------------------------------------------------------------------
(* The invariant holds, and the step mapping carries it.                   *)

LEMMA NextRegister == RegisterInv /\ [Next]_vars => RegisterInv'
<1> SUFFICES ASSUME RegisterInv, [Next]_vars PROVE RegisterInv'
  OBVIOUS
<1>1. SignedInv'
  BY NextViews, NextPlans, NextApprovals, NextSeals DEF RegisterInv, SignedInv
<1> QED
  BY <1>1, NextChange, NextFlights DEF RegisterInv

\* document-review.ts and document-save.ts: throughout, what was signed was
\* shown, what is planned is true of the document it was planned on, and a page
\* in flight that is no longer of the current text shows what was shown before.
THEOREM RegisterInvariant == Spec => []RegisterInv
BY InitRegister, NextRegister, PTL DEF Spec

LEMMA StepMaps == RegisterInv /\ [Next]_vars => [Register!Next]_(Register!vars)
<1> SUFFICES ASSUME RegisterInv, [Next]_vars PROVE [Register!Next]_(Register!vars)
  OBVIOUS
<1>1. RowsInv
  BY ViewTypes DEF RegisterInv, SignedInv
<1>2. ASSUME NEW c \in Calls, SavePresent(c) PROVE Register!Next
  BY <1>2, PresentShows DEF Register!Next
<1>3. ASSUME NEW c \in Calls, SaveClose(c) PROVE Register!Next
  BY <1>3, CloseCloses DEF Register!Next
<1>4. CASE UNCHANGED reviews
  <2>1. ShownSnapshots' = ShownSnapshots /\ DeliveredSnapshots' = DeliveredSnapshots
    BY <1>4, ReviewsLeft
  <2>2. CASE doc' = doc
    <3>1. /\ KeptSnapshots' = KeptSnapshots /\ CurrentSnapshot' = CurrentSnapshot
          /\ Standing' = Standing
      BY <2>2, DocsLeft
    <3>2. CASE anchor' = anchor
      BY <2>1, <3>1, <3>2 DEF Register!vars
    <3>3. CASE anchor = None /\ anchor' = "abandoned"
      <4>1. Register!Close("abandoned") /\ "abandoned" \in Dispositions
        BY <2>1, <3>1, <3>3 DEF Register!Close, Dispositions
      <4> QED
        BY <4>1 DEF Register!Next
    <3> QED
      BY <1>3, <3>2, <3>3, AnchorSteps
  <2>3. ASSUME NEW c \in Calls, SaveEdit(c) PROVE Register!Next
    BY <2>3, EditChanges DEF Register!Next
  <2>4. ASSUME NEW c \in Calls, SaveCreate(c) PROVE Register!Next
    BY <2>4, CreateCreates DEF Register!Next
  <2>5. ASSUME NEW c \in Calls, SaveApprove(c) PROVE Register!Next
    BY <2>5, ApproveApproves DEF Register!Next
  <2> QED
    BY <1>2, <1>3, <2>2, <2>3, <2>4, <2>5, SavingSteps
<1>5. ASSUME NEW c \in Calls, NEW v \in Viewers, NEW d \in Docs, NEW span \in Spans,
             BeginPresent(c, v, d, span)
      PROVE  UNCHANGED Register!vars
  BY <1>5, BeginningShowsNothing
<1> QED
  BY <1>1, <1>2, <1>4, <1>5, ReviewSteps

\* The documents the system starts with are as many snapshots, none of them shown.
LEMMA InitMaps == Init => Register!Init
<1> SUFFICES ASSUME Init PROVE Register!Init
  OBVIOUS
<1>1. DocsInv
  BY InitDocs
<1>2. ShownSnapshots = {} /\ DeliveredSnapshots = {} /\ anchor = None
  BY DEF Init, ShownSnapshots, DeliveredSnapshots
<1>3. PICK f \in [Docs -> Standings] : doc = [d \in Docs |-> Born(d, f[d])]
  BY DEF Init
<1>4. ASSUME NEW d \in Docs, Held(d)
      PROVE  /\ Len(doc[d].rows) = 1 /\ doc[d].gen = 0
             /\ Current(doc[d]).text \in Text
  <2>1. doc[d] = Born(d, f[d]) /\ f[d] # "absent"
    BY <1>3, <1>4 DEF Held, Born
  <2>2. Len(doc[d].rows) = 1 /\ doc[d].gen = 0
    BY <2>1 DEF Born
  <2>3. Current(doc[d]).text \in Text
    <3>1. Current(doc[d]) \in Row
      BY <1>1, <1>4, CurrentType DEF Held, DocsInv, RowsInv, TypeInv, TypeOK
    <3> QED
      BY <3>1 DEF Row
  <2> QED
    BY <2>2, <2>3
<1>5. ASSUME NEW d \in Docs, CurrentSnapshot[d] # None
      PROVE  /\ Held(d) /\ CurrentSnapshot[d].text \in Text
             /\ CurrentSnapshot[d] = Register!Snapshot(d, 0, CurrentSnapshot[d].text)
             /\ SnapsOf(d, doc[d]) = {CurrentSnapshot[d]}
  <2>1. Held(d)
    BY <1>5, SnapsSeen
  <2>2. /\ CurrentSnapshot[d] = Top(d, doc[d])
        /\ Top(d, doc[d]) = [doc |-> d, gen |-> doc[d].gen,
                             text |-> Current(doc[d]).text]
    BY <1>1, <2>1, NowSeen
  <2>3. SnapsOf(d, doc[d]) = {Top(d, doc[d])}
    <3>1. Len(doc[d].rows) = 1 /\ 1..1 = {1}
      BY <1>4, <2>1
    <3> QED
      BY <3>1 DEF SnapsOf, Top
  <2> QED
    BY <1>4, <2>1, <2>2, <2>3 DEF Register!Snapshot
<1>6. ASSUME NEW d \in Docs, CurrentSnapshot[d] = None
      PROVE  SnapsOf(d, doc[d]) = {} /\ d \notin Standing
  <2>1. ~Held(d)
    BY <1>1, <1>6, NowSeen
  <2>2. doc[d].rows = <<>> /\ SealAgrees(doc[d])
    BY <1>1, <2>1 DEF Held, DocsInv, DocsAgree
  <2>3. 1..Len(doc[d].rows) = {}
    BY <2>2
  <2> QED
    BY <2>2, <2>3 DEF SnapsOf, Standing, SealAgrees
<1>7. KeptSnapshots =
        {CurrentSnapshot[d] : d \in {e \in Docs : CurrentSnapshot[e] # None}}
  <2>1. ASSUME NEW s \in KeptSnapshots
        PROVE  \E d \in Docs : CurrentSnapshot[d] # None /\ s = CurrentSnapshot[d]
    <3>1. PICK d \in Docs : s \in SnapsOf(d, doc[d])
      BY SnapsSeen
    <3>2. CurrentSnapshot[d] # None
      BY <1>6, <3>1
    <3> QED
      BY <1>5, <3>1, <3>2
  <2>2. ASSUME NEW d \in Docs, CurrentSnapshot[d] # None
        PROVE  CurrentSnapshot[d] \in KeptSnapshots
    <3>1. CurrentSnapshot[d] \in SnapsOf(d, doc[d])
      BY <1>5, <2>2
    <3> QED
      BY <3>1, SnapsSeen
  <2> QED
    BY <2>1, <2>2
<1>8. \A d \in Standing : d \in Docs
  BY DEF Standing
<1> QED
  BY <1>2, <1>5, <1>6, <1>7, <1>8 DEF Register!Init

\* document-save.ts, document-review.ts, document-approve.ts, initiative-close.ts:
\* the store, its calls interleaved as they may be, behaves as the register: only
\* the current snapshot, or one shown before, is shown; a person approves the
\* current one, and only when it was delivered to them; what somebody was shown
\* or what stands approved is kept; the initiative closes once.
THEOREM StoreImplementsRegister == Spec => ImplementsRegister
<1>1. Init => Register!Init
  BY InitMaps
<1>2. RegisterInv /\ [Next]_vars => [Register!Next]_(Register!vars)
  BY StepMaps
<1> QED
  BY <1>1, <1>2, RegisterInvariant, PTL DEF Spec, ImplementsRegister, Register!Spec
=============================================================================
