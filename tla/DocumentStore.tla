--------------------------- MODULE DocumentStore ---------------------------
(***************************************************************************)
(* The document store of zz-core: the documents of one initiative, and the *)
(* tool calls that create, edit, present, approve and close them.          *)
(*                                                                         *)
(* Every call reads the store outside any transaction, plans what it will  *)
(* write, and then commits ONE transaction under the document's advisory   *)
(* lock (document-save.ts, review-context.ts).  The transaction is one     *)
(* atomic step here; the reads before it are steps of their own, so calls  *)
(* interleave between a read and the commit that relies on it.             *)
(*                                                                         *)
(* A public version of a document holds one or more SNAPSHOTS (rows of     *)
(* zz.doc_revision).  The document's CONTENT GENERATION counts changes of  *)
(* its content identity; a row keeps the generation it was written at.     *)
(***************************************************************************)
EXTENDS Naturals, Sequences, FiniteSets

CONSTANTS
  Docs,          \* the documents the initiative's flow declares
  Gated,         \* those that carry a gate: an approval is asked of them
  Requires,      \* Requires[d]: the document that must be settled before d
  ClosingDoc,    \* the document the flow closes on
  CloseRequires, \* the documents a finished close needs to exist
  Starts,        \* Starts[d]: the standings d may have when the system starts
  Calls,         \* slots for calls in flight
  Viewers,       \* callers: a principal under one credential
  Sources,       \* the names source material may be filed under
  RequestIds,    \* request keys a caller may send
  Asks,          \* what an edit or a create may ask for
  Parts,         \* a presented text has the pages 1..Parts
  MaxAttempts,   \* how often document_edit computes a change (3 in the code)
  MaxContexts,   \* bound: review contexts minted
  Budget,        \* bound: Budget[o] calls of operation o are begun
  None           \* the absent value

Ops == {"edit", "create", "present", "approve", "close", "source"}
Standings == {"absent", "draft", "signed"}
Dispositions == {"finished", "abandoned"}

Token == Viewers \X (RequestIds \cup {None})
Text  == [body: Seq(Token), title: Viewers \cup {None}]
Ask   == [kind: {"patch", "whole", "title"}, named: SUBSET Sources,
          capture: BOOLEAN, based: BOOLEAN, rid: RequestIds \cup {None}]

ASSUME NoneAssumption ==
  /\ None \notin Nat
  /\ None \notin Docs
  /\ \A D \in SUBSET Docs : D # None
  /\ None \notin Viewers
  /\ None \notin Sources
  /\ None \notin RequestIds
  /\ None \notin Dispositions

ASSUME FlowAssumption ==
  /\ Gated \subseteq Docs
  /\ Requires \in [Docs -> Docs \cup {None}]
  /\ ClosingDoc \in Docs
  /\ CloseRequires \subseteq Docs
  /\ Starts \in [Docs -> SUBSET Standings]
  /\ \A d \in Docs \ Gated : "signed" \notin Starts[d]

ASSUME BoundAssumption ==
  /\ Parts \in Nat \ {0}
  /\ MaxAttempts \in Nat \ {0}
  /\ MaxContexts \in Nat
  /\ Budget \in [Ops -> Nat]
  /\ Asks \subseteq Ask

VARIABLES
  doc,       \* the rows of zz.doc and zz.doc_revision, by document
  anchor,    \* the outcome on the initiative's own row (zz.initiative), or None
  pages,     \* the presentation events: document.shown, document.shown_part
  covered,   \* per review context, the generations it covered, in order
  open,      \* per review context, its last page, or None
  minted,    \* the review contexts minted so far are 1..minted
  approvals, \* the act rows an approval commits with its seal
  requests,  \* zz.doc_request: the keyed requests committed
  supports,  \* per source name, the documents it declares; None: not filed
  call,      \* the call each slot runs
  left       \* the calls of each operation still to begin

vars == <<doc, anchor, pages, covered, open, minted, approvals, requests,
          supports, call, left>>

store   == <<doc, anchor, approvals, requests, supports>>
reviews == <<pages, covered, open, minted>>

----------------------------------------------------------------------------
(* The rows and the records.                                               *)

Outcome == Dispositions \cup {None}
Signer  == Viewers \cup {None}

\* One snapshot: a row of zz.doc_revision.  gen = None is a row written before
\* generations were recorded per row; sealed is approved_by.
Row == [text: Text, gen: Nat \cup {None}, version: Nat, cites: SUBSET Sources,
        sealed: Signer, presented: BOOLEAN, outcome: Outcome]

\* One document: its row of zz.doc and its revisions, oldest first (<<>>: it
\* does not exist).  stamp counts the writes of the current row (written_at);
\* approved is approved_revision, 0 for null.
Document == [gen: Nat, stamp: Nat, status: {"none", "draft", "approved"},
             approved: Nat, rows: Seq(Row)]

\* What a change is computed from, and compared with under the lock.
DocumentState == [gen: Nat, rev: Nat, stamp: Nat]

\* What a planned write carries into its transaction.
Write == [text: Text, status: {"none", "draft", "approved"}, outcome: Outcome,
          seal: Signer, next: BOOLEAN, causes: SUBSET Sources,
          capture: BOOLEAN]

\* One presented page.  ctx = 0 is a read outside any review context; base is
\* the generation a delta starts from, and from is that snapshot's text.
Page == [ctx: 0..MaxContexts, by: Viewers, doc: Docs, kind: {"full", "delta"},
         base: Nat \cup {None}, target: Nat, span: SUBSET (1..Parts),
         text: Text, from: Text \cup {None}]

ASSUME PageAssumption == None \notin Page

Approval == [doc: Docs, gen: Nat, ctx: 1..MaxContexts, by: Viewers]

\* A request's key and its digest: the tool and the arguments.
Request == [by: Viewers, doc: Docs, rid: RequestIds, tool: {"edit", "create"},
            ask: Ask, base: Nat \cup {None}]

Idle == [op |-> "idle"]
EditCall == [op: {"edit"}, by: Viewers, doc: Docs, ask: Ask,
             base: Nat \cup {None}, att: 1..MaxAttempts, st: DocumentState,
             write: Write \cup {None}]
CreateCall == [op: {"create"}, by: Viewers, doc: Docs, ask: Ask, write: Write]
PresentCall == [op: {"present"}, page: Page, rev: Nat, current: BOOLEAN]
ApproveCall == {k \in [op: {"approve"}, by: Viewers, doc: Docs, st: DocumentState,
                       ctx: 0..MaxContexts, write: Write \cup {None}] :
                  k.write # None => k.ctx # 0}
CloseCall == [op: {"close"}, by: Viewers, doc: Docs, to: Dispositions,
              att: 1..2, st: DocumentState, write: Write \cup {None}]
AbandonCall == [op: {"abandon"}]
Call == {Idle} \cup EditCall \cup CreateCall \cup PresentCall
          \cup ApproveCall \cup CloseCall \cup AbandonCall

TypeOK ==
  /\ doc \in [Docs -> Document]
  /\ anchor \in Outcome
  /\ pages \subseteq Page
  /\ covered \in [1..MaxContexts -> Seq(Nat)]
  /\ open \in [1..MaxContexts -> Page \cup {None}]
  /\ minted \in 0..MaxContexts
  /\ approvals \subseteq Approval
  /\ requests \subseteq Request
  /\ supports \in [Sources -> (SUBSET Docs) \cup {None}]
  /\ call \in [Calls -> Call]
  /\ left \in [Ops -> Nat]

----------------------------------------------------------------------------
(* Reading the store.                                                      *)

Held(d)    == doc[d].rows # <<>>
Current(x) == x.rows[Len(x.rows)]
StateOf(x) == [gen |-> x.gen, rev |-> Len(x.rows), stamp |-> x.stamp]

\* The generation a row's snapshot is named by: its own, else the document's.
GenOf(x, i) == IF x.rows[i].gen = None THEN x.gen ELSE x.rows[i].gen

\* The generation the current snapshot is named by.
Now(x) == GenOf(x, Len(x.rows))

\* The revisions that retain a generation.
Retained(x, g) == {i \in 1..Len(x.rows) : GenOf(x, i) = g}
TextAt(x, g)   == x.rows[CHOOSE i \in Retained(x, g) : TRUE].text

\* What a version cites, from any of its snapshots.
CitedBy(x, v) ==
  UNION {x.rows[i].cites : i \in {j \in 1..Len(x.rows) : x.rows[j].version = v}}

\* Sources that declare they support d and that no snapshot of it cites yet.
Owed(d) ==
  {s \in Sources : /\ supports[s] # None
                   /\ d \in supports[s]
                   /\ \A i \in 1..Len(doc[d].rows) : s \notin doc[d].rows[i].cites}

Filed == {s \in Sources : supports[s] # None}

\* A prerequisite is settled by its approval when it is gated and by being there
\* when it is not; an absent one is discharged once the initiative closed on
\* another document.
Settled(e) == e \in Gated => doc[e].status = "approved"
ClosedSomewhere == \E e \in Docs : Held(e) /\ Current(doc[e]).outcome # None
GateOpen(d) ==
  Requires[d] # None =>
    IF Held(Requires[d]) THEN Settled(Requires[d]) ELSE ClosedSomewhere

\* A request committed under this key, whatever its digest: the caller is
\* answered its receipt or REQUEST_ID_CONFLICT, and nothing is written.
Stored(v, d, rid) ==
  rid # None /\ \E q \in requests : q.by = v /\ q.doc = d /\ q.rid = rid

----------------------------------------------------------------------------
(* The write: which snapshot it lands on, and the rows it leaves.          *)

\* (A fault: only a presentation that was completed pins a row.)
PinnedWhenComplete(d) ==
  LET x == doc[d]
      n == Len(x.rows)
  IN x.rows[n].sealed # None \/ x.approved = n \/ x.rows[n].presented

\* (A fault: the row a close landed on is not pinned.)
PinnedUnlessClosed(d) ==
  LET x == doc[d]
      n == Len(x.rows)
  IN PinnedWhenComplete(d) \/ \E p \in pages : p.doc = d /\ p.target = GenOf(x, n)

\* A row somebody was shown, signed or closed on.
Pinned(d) ==
  LET x == doc[d]
      n == Len(x.rows)
  IN \/ x.rows[n].sealed # None
     \/ x.approved = n
     \/ x.rows[n].presented
     \/ /\ x.rows[n].outcome # None
        /\ \A i \in 1..(n - 1) : x.rows[i].outcome = None
     \/ \E p \in pages : p.doc = d /\ p.target = GenOf(x, n)

Landing(next, same, pinned) ==
  IF next THEN "append" ELSE IF ~same /\ pinned THEN "pinned" ELSE "rewrite"

\* An approved revision is not rewritten by a write that is no approval.
Admitted(x, w, mode) ==
  (mode = "rewrite" /\ x.approved = Len(x.rows)) => w.status = "approved"

\* (A fault: a seal does not move approved_revision.)
ApprovedStays(x, w, rev) == x.approved

\* approved_revision moves only when the revision written is the sealed one.
ApprovedRevision(x, w, rev) == IF w.status = "approved" THEN rev ELSE x.approved

\* (A fault: a superseded row is left without the generation it was read under.)
Unstamped(x) == x.rows

\* The current row keeps the identity it was read under once superseded.
Stamped(x) ==
  LET n == Len(x.rows)
  IN [x.rows EXCEPT ![n] = [x.rows[n] EXCEPT !.gen = GenOf(x, n)]]

\* Document x after the write w lands, in place or as a new row, at generation
\* gen and citing `causes` as well.
Rewritten(x, w, gen, causes) ==
  LET n == Len(x.rows)
      r == x.rows[n]
  IN [gen |-> gen, stamp |-> x.stamp + 1, status |-> w.status,
      approved |-> ApprovedRevision(x, w, n),
      rows |-> [x.rows EXCEPT ![n] =
        [r EXCEPT !.text = w.text, !.gen = gen,
                  !.cites = r.cites \cup causes,
                  !.sealed = IF w.seal # None THEN w.seal ELSE r.sealed,
                  !.outcome = w.outcome]]]

Appended(x, w, gen, causes, mode) ==
  LET n == Len(x.rows)
      r == x.rows[n]
  IN [gen |-> gen, stamp |-> x.stamp + 1, status |-> w.status,
      approved |-> ApprovedRevision(x, w, n + 1),
      rows |-> Append(Stamped(x),
        [text |-> w.text, gen |-> gen,
         version |-> IF mode = "append" THEN r.version + 1 ELSE r.version,
         cites |-> IF mode = "pinned" THEN r.cites \cup causes ELSE causes,
         sealed |-> w.seal, presented |-> FALSE, outcome |-> w.outcome])]

Saved(x, w, causes, mode) ==
  LET gen == IF w.text = Current(x).text THEN x.gen ELSE x.gen + 1
  IN IF mode = "rewrite" THEN Rewritten(x, w, gen, causes)
                         ELSE Appended(x, w, gen, causes, mode)

LandsAs(d, w) == Landing(w.next, w.text = Current(doc[d]).text, Pinned(d))

Created(w, causes) ==
  [gen |-> 0, stamp |-> 1, status |-> w.status, approved |-> 0,
   rows |-> <<[text |-> w.text, gen |-> 0, version |-> 1, cites |-> causes,
               sealed |-> None, presented |-> FALSE, outcome |-> None]>>]

\* (A fault: only the revision is compared.)
MovedRevision(d, st) == Len(doc[d].rows) # st.rev

\* (A fault: the time the row was written is not compared.)
MovedContent(d, st) == doc[d].gen # st.gen \/ Len(doc[d].rows) # st.rev

\* The compare-and-swap: the document is not in the state the write was
\* computed from.
Moved(d, st) == StateOf(doc[d]) # st

\* A captured source is filed in the change's own transaction, under the first
\* free name, declaring that it supports the document it explains.
Captures(capture) == IF capture THEN {{s} : s \in Sources \ Filed} ELSE {{}}
Filing(cap, D)    == [s \in Sources |-> IF s \in cap THEN D ELSE supports[s]]

\* (A fault: a change does not record its request.)
Unrecorded(k, base) == requests

\* The request's row, in the change's own transaction.
Recorded(k, base) ==
  IF k.ask.rid = None THEN requests
  ELSE requests \cup {[by |-> k.by, doc |-> k.doc, rid |-> k.ask.rid,
                       tool |-> k.op, ask |-> k.ask, base |-> base]}

----------------------------------------------------------------------------
(* The initial states: documents written before generations were recorded  *)
(* per row, or none.                                                       *)

Draft(d) == IF d \in Gated THEN "draft" ELSE "none"

Born(d, s) ==
  [gen |-> 0, stamp |-> 0,
   status |-> CASE s = "absent" -> "none" [] s = "draft" -> Draft(d)
                [] s = "signed" -> "approved",
   approved |-> IF s = "signed" THEN 1 ELSE 0,
   rows |-> IF s = "absent" THEN <<>>
            ELSE <<[text |-> [body |-> <<>>, title |-> None], gen |-> None,
                    version |-> 1, cites |-> {}, sealed |-> None,
                    presented |-> FALSE, outcome |-> None]>>]

Init ==
  /\ \E f \in [Docs -> Standings] :
       /\ \A d \in Docs : f[d] \in Starts[d]
       /\ doc = [d \in Docs |-> Born(d, f[d])]
  /\ anchor = None
  /\ pages = {}
  /\ covered = [x \in 1..MaxContexts |-> <<>>]
  /\ open = [x \in 1..MaxContexts |-> None]
  /\ minted = 0
  /\ approvals = {}
  /\ requests = {}
  /\ supports = [s \in Sources |-> None]
  /\ call = [c \in Calls |-> Idle]
  /\ left = Budget

----------------------------------------------------------------------------
(* Calls begin and end.                                                    *)

Begin(c, o, r) ==
  /\ call[c] = Idle
  /\ left[o] > 0
  /\ left' = [left EXCEPT ![o] = left[o] - 1]
  /\ call' = [call EXCEPT ![c] = r]

Proceed(c, r) == call' = [call EXCEPT ![c] = r] /\ UNCHANGED left
End(c)        == Proceed(c, Idle)

\* A call ends having changed nothing: a refusal, the receipt of a request
\* already committed, a failed transaction rolled back, or a stopped process.
GiveUp(c) ==
  /\ call[c] # Idle
  /\ End(c)
  /\ UNCHANGED <<store, reviews>>

----------------------------------------------------------------------------
(* document_edit                                                           *)

\* The request is looked up, then the document's state is read -- before the
\* document itself is.
BeginEdit(c, v, d, ask, base) ==
  /\ ~Stored(v, d, ask.rid)
  /\ Held(d)
  /\ Begin(c, "edit", [op |-> "edit", by |-> v, doc |-> d, ask |-> ask,
                       base |-> base, att |-> 1, st |-> StateOf(doc[d]),
                       write |-> None])
  /\ UNCHANGED <<store, reviews>>

\* The text a change makes of the one it was computed from.
Changed(ask, v, text) ==
  CASE ask.kind = "patch" -> [text EXCEPT !.body = Append(text.body, <<v, ask.rid>>)]
    [] ask.kind = "whole" -> [text EXCEPT !.body = <<<<v, ask.rid>>>>]
    [] ask.kind = "title" -> [text EXCEPT !.title = v]

\* (A fault: a source its version cites already is a cause again.)
CausesRenamed(d, ask, bodyChanged) ==
  ask.named \cup (IF bodyChanged THEN Owed(d) ELSE {})

\* The causes of a change: the sources it names that its version does not cite
\* yet, and, when it changes the body, those the document owes.
Causes(d, ask, bodyChanged) ==
  (ask.named \ CitedBy(doc[d], Current(doc[d]).version))
    \cup (IF bodyChanged THEN Owed(d) ELSE {})

\* (A fault: a correction drops what the close recorded.)
OutcomeDropped(d) == None

\* What a close recorded, a correction of the document carries.
Carried(d) == Current(doc[d]).outcome

\* A change takes an approval off.
Unsealed(d) == IF doc[d].status = "approved" THEN Draft(d) ELSE doc[d].status

EditOf(d, ask, v) ==
  LET old == Current(doc[d]).text
      new == Changed(ask, v, old)
      causes == IF new = old THEN {} ELSE Causes(d, ask, new.body # old.body)
      captures == ask.capture /\ new # old
  IN [text |-> new, status |-> Unsealed(d),
      outcome |-> Carried(d), seal |-> None,
      next |-> new.body # old.body /\ (captures \/ causes # {}),
      causes |-> causes, capture |-> captures]

\* An approved body changes only with a cause new to its version.
CauseGiven(d, w) ==
  (doc[d].status = "approved" /\ w.text.body # Current(doc[d]).text.body)
    => w.next

\* The document is read and the change computed and judged.  One that leaves
\* the content as it was is written only to record its request.
PlanEdit(c) ==
  LET k == call[c]
      w == EditOf(k.doc, k.ask, k.by)
  IN /\ k.op = "edit"
     /\ k.write = None
     /\ k.base # None => k.base = doc[k.doc].gen
     /\ k.ask.named \subseteq Filed
     /\ CauseGiven(k.doc, w)
     /\ w.text # Current(doc[k.doc]).text => GateOpen(k.doc)
     /\ IF w.text = Current(doc[k.doc]).text /\ k.ask.rid = None
        THEN End(c)
        ELSE Proceed(c, [k EXCEPT !.write = w])
     /\ UNCHANGED <<store, reviews>>

\* Under the lock the request is looked up again and the state compared.
Commits(c) ==
  LET k == call[c]
  IN /\ k.op = "edit"
     /\ k.write # None
     /\ ~Stored(k.by, k.doc, k.ask.rid)
     /\ ~Moved(k.doc, k.st)

\* (A fault: one attempt too many.)
RetriesOnceMore(k) == k.att <= MaxAttempts

MayRetry(k) == k.att < MaxAttempts

\* A document that moved sends the change back to be computed again, unless
\* the generation the caller's token named is gone (BASE_CONFLICT) or the
\* attempts are spent.  The request is looked up and the state read anew.
RetryEdit(c) ==
  LET k == call[c]
  IN /\ k.op = "edit"
     /\ k.write # None
     /\ ~Stored(k.by, k.doc, k.ask.rid)
     /\ Moved(k.doc, k.st)
     /\ k.base # None => k.base = doc[k.doc].gen
     /\ MayRetry(k)
     /\ Proceed(c, [k EXCEPT !.att = k.att + 1, !.st = StateOf(doc[k.doc]),
                             !.write = None])
     /\ UNCHANGED <<store, reviews>>

\* A keyed change that changes nothing records its request and no more.
SaveNoChange(c) ==
  LET k == call[c]
  IN /\ Commits(c)
     /\ k.write.text = Current(doc[k.doc]).text
     /\ requests' = Recorded(k, k.base)
     /\ End(c)
     /\ UNCHANGED <<doc, anchor, approvals, supports, reviews>>

\* The change lands, its captured source and its request with it.
SaveEdit(c) ==
  LET k == call[c]
      w == k.write
      mode == LandsAs(k.doc, w)
  IN /\ Commits(c)
     /\ w.text # Current(doc[k.doc]).text
     /\ Admitted(doc[k.doc], w, mode)
     /\ \E cap \in Captures(w.capture) :
          /\ doc' = [doc EXCEPT ![k.doc] =
                        Saved(doc[k.doc], w, w.causes \cup cap, mode)]
          /\ supports' = Filing(cap, {k.doc})
     /\ requests' = Recorded(k, k.base)
     /\ End(c)
     /\ UNCHANGED <<anchor, approvals, reviews>>

----------------------------------------------------------------------------
(* document_write and source_add                                           *)

\* A create is judged before its transaction: the path is free, the gate
\* before it is passed, and the initiative is open.
BeginCreate(c, v, d, ask) ==
  /\ ~Stored(v, d, ask.rid)
  /\ ~Held(d)
  /\ ask.named \subseteq Filed
  /\ anchor = None
  /\ GateOpen(d)
  /\ Begin(c, "create",
       [op |-> "create", by |-> v, doc |-> d, ask |-> ask,
        write |-> [text |-> [body |-> <<<<v, ask.rid>>>>, title |-> None],
                   status |-> Draft(d), outcome |-> None, seal |-> None,
                   next |-> FALSE, causes |-> ask.named \cup Owed(d),
                   capture |-> ask.capture]])
  /\ UNCHANGED <<store, reviews>>

\* Under the lock the path must still be free (TARGET_EXISTS).
SaveCreate(c) ==
  LET k == call[c]
  IN /\ k.op = "create"
     /\ ~Stored(k.by, k.doc, k.ask.rid)
     /\ ~Held(k.doc)
     /\ \E cap \in Captures(k.write.capture) :
          /\ doc' = [doc EXCEPT ![k.doc] =
                        Created(k.write, k.write.causes \cup cap)]
          /\ supports' = Filing(cap, {k.doc})
     /\ requests' = Recorded(k, None)
     /\ End(c)
     /\ UNCHANGED <<anchor, approvals, reviews>>

\* Source material is filed, under a name nobody holds, once and for good.
AddSource(s, D) ==
  /\ supports[s] = None
  /\ left["source"] > 0
  /\ left' = [left EXCEPT !["source"] = left["source"] - 1]
  /\ supports' = Filing({s}, D)
  /\ UNCHANGED <<doc, anchor, approvals, requests, reviews, call>>

----------------------------------------------------------------------------
(* document_present                                                        *)

Spans == {a..b : a \in 1..Parts, b \in 1..Parts} \ {{}}

\* The contexts a viewer holds for a document.
Own(v, d) == {x \in 1..minted : open[x] # None /\ open[x].by = v /\ open[x].doc = d}

\* The generation a context's next delta starts from: the one it covered last.
Baseline(x) == covered[x][Len(covered[x])]

FullPage(x, v, d, g, span) ==
  [ctx |-> x, by |-> v, doc |-> d, kind |-> "full", base |-> None,
   target |-> g, span |-> span, text |-> TextAt(doc[d], g), from |-> None]

DeltaPage(x, v, d, b, g, span) ==
  [ctx |-> x, by |-> v, doc |-> d, kind |-> "delta", base |-> b,
   target |-> g, span |-> span, text |-> TextAt(doc[d], g),
   from |-> TextAt(doc[d], b)]

Showing(c, d, page) ==
  /\ Begin(c, "present",
       [op |-> "present", page |-> page, rev |-> Len(doc[d].rows),
        current |-> page.target = Now(doc[d])])
  /\ UNCHANGED <<store, pages, covered, open>>

\* No context is named, or one that is not the viewer's: a new one is minted
\* and the document is shown whole.
PresentFresh(c, v, d, span) ==
  /\ Held(d)
  /\ minted < MaxContexts
  /\ minted' = minted + 1
  /\ Showing(c, d, FullPage(minted + 1, v, d, Now(doc[d]), span))

\* In a context that covered a snapshot, what changed since it; whole when
\* nothing is covered, when asked, or when the delta would be no shorter.  A
\* snapshot shown again has no change to show.
PresentWhole(c, v, d, x, span) ==
  /\ Held(d)
  /\ x \in Own(v, d)
  /\ Showing(c, d, FullPage(x, v, d, Now(doc[d]), span))
  /\ UNCHANGED minted

PresentDelta(c, v, d, x, span) ==
  /\ Held(d)
  /\ x \in Own(v, d)
  /\ covered[x] # <<>>
  /\ Retained(doc[d], Baseline(x)) # {}
  /\ 1 \in span
  /\ Showing(c, d, DeltaPage(x, v, d, Baseline(x), Now(doc[d]),
                            IF Baseline(x) = Now(doc[d]) THEN {} ELSE span))
  /\ UNCHANGED minted

\* A continuation serves the context's open presentation, whatever is current.
PresentOn(c, v, d, x, span) ==
  LET p == open[x]
  IN /\ Held(d)
     /\ x \in Own(v, d)
     /\ 1 \notin span
     /\ Retained(doc[d], p.target) # {}
     /\ p.kind = "delta" => /\ p.base # p.target
                            /\ Retained(doc[d], p.base) # {}
     /\ Showing(c, d, IF p.kind = "full"
                      THEN FullPage(x, v, d, p.target, span)
                      ELSE DeltaPage(x, v, d, p.base, p.target, span))
     /\ UNCHANGED minted

\* A read of the current version or of a section of it, in no context.
PresentRead(c, v, d, span) ==
  /\ Held(d)
  /\ Showing(c, d, FullPage(0, v, d, Now(doc[d]), span))
  /\ UNCHANGED minted

BeginPresent(c, v, d, span) ==
  \/ PresentFresh(c, v, d, span)
  \/ \E x \in 1..minted : \/ PresentWhole(c, v, d, x, span)
                          \/ PresentDelta(c, v, d, x, span)
                          \/ PresentOn(c, v, d, x, span)
  \/ PresentRead(c, v, d, span)

\* (A fault: pages of different targets combine.)
ShownOfAny(p) ==
  UNION {q.span : q \in {r \in pages \cup {p} :
    r.ctx = p.ctx /\ r.by = p.by /\ r.doc = p.doc /\ r.kind = p.kind}}

\* The pages of p's presentation: of one kind, baseline and target.
Shown(p) ==
  UNION {q.span : q \in {r \in pages \cup {p} :
    /\ r.ctx = p.ctx /\ r.by = p.by /\ r.doc = p.doc
    /\ r.kind = p.kind /\ r.base = p.base /\ r.target = p.target}}

\* The page p completes its target: every part is shown and, for a delta, its
\* baseline is covered.
Completes(p) ==
  /\ p.ctx # 0
  /\ Shown(p) = 1..Parts \/ (p.kind = "delta" /\ p.base = p.target)
  /\ p.kind = "delta" => \E i \in 1..Len(covered[p.ctx]) : covered[p.ctx][i] = p.base

Covers(x, g) == \E i \in 1..Len(covered[x]) : covered[x][i] = g

\* (A fault: the generation is not looked at again.)
RowStillThere(k) == Len(doc[k.page.doc].rows) = k.rev

\* Under the lock a page of the current snapshot is recorded only if the row
\* still holds what was shown; the row is stamped with its generation.
StillHeld(k) ==
  LET x == doc[k.page.doc]
  IN Len(x.rows) = k.rev /\ GenOf(x, k.rev) = k.page.target

SavePresent(c) ==
  LET k == call[c]
      p == k.page
      done == Completes(p) \/ (p.ctx # 0 /\ Covers(p.ctx, p.target))
  IN /\ k.op = "present"
     /\ k.current => StillHeld(k)
     /\ pages' = pages \cup {p}
     /\ open' = IF p.ctx = 0 THEN open ELSE [open EXCEPT ![p.ctx] = p]
     /\ covered' = IF Completes(p) /\ ~Covers(p.ctx, p.target)
                   THEN [covered EXCEPT ![p.ctx] = Append(covered[p.ctx], p.target)]
                   ELSE covered
     /\ doc' = IF k.current
               THEN [doc EXCEPT ![p.doc].rows[k.rev] =
                       [doc[p.doc].rows[k.rev] EXCEPT
                          !.gen = GenOf(doc[p.doc], k.rev),
                          !.presented = doc[p.doc].rows[k.rev].presented \/ done]]
               ELSE doc
     /\ End(c)
     /\ UNCHANGED <<anchor, approvals, requests, supports, minted>>

----------------------------------------------------------------------------
(* document_approve                                                        *)

BeginApprove(c, v, d) ==
  /\ d \in Gated
  /\ Held(d)
  /\ Begin(c, "approve", [op |-> "approve", by |-> v, doc |-> d,
                          st |-> StateOf(doc[d]), ctx |-> 0, write |-> None])
  /\ UNCHANGED <<store, reviews>>

\* The seal a text takes: nothing of its content changes.
SealOf(d, v) ==
  [text |-> Current(doc[d]).text, status |-> "approved",
   outcome |-> Current(doc[d]).outcome, seal |-> v, next |-> FALSE,
   causes |-> {}, capture |-> FALSE]

\* (A fault: a context that covered any snapshot will do.)
AnyBasis(x, v, d, g) == x \in Own(v, d) /\ covered[x] # <<>>

\* An approval rests on a context of the caller's that covers the generation
\* the state was read at: the one the seal's compare-and-swap pins.
Basis(x, v, d, g) == x \in Own(v, d) /\ Covers(x, g)

PlanApprove(c, x) ==
  LET k == call[c]
  IN /\ k.op = "approve"
     /\ k.write = None
     /\ Basis(x, k.by, k.doc, k.st.gen)
     /\ GateOpen(k.doc)
     /\ Proceed(c, [k EXCEPT !.ctx = x, !.write = SealOf(k.doc, k.by)])
     /\ UNCHANGED <<store, reviews>>

\* A document that moved is refused (APPROVAL_CONFLICT): an approval is never
\* computed again.
SaveApprove(c) ==
  LET k == call[c]
      w == k.write
      mode == LandsAs(k.doc, w)
  IN /\ k.op = "approve"
     /\ w # None
     /\ ~Moved(k.doc, k.st)
     /\ Admitted(doc[k.doc], w, mode)
     /\ doc' = [doc EXCEPT ![k.doc] = Saved(doc[k.doc], w, {}, mode)]
     /\ approvals' = approvals \cup {[doc |-> k.doc, gen |-> k.st.gen,
                                      ctx |-> k.ctx, by |-> k.by]}
     /\ End(c)
     /\ UNCHANGED <<anchor, requests, supports, reviews>>

----------------------------------------------------------------------------
(* initiative_close                                                        *)

\* Where a close lands: the closing document or, when the work stopped before
\* that was written, a document that is there.
LandsOn(to, d) ==
  /\ Held(d)
  /\ d # ClosingDoc => to = "abandoned" /\ ~Held(ClosingDoc)

\* An abandon must not contradict the record: every gate approved and every
\* document a finished close needs there.
LooksFinished ==
  /\ Gated # {} /\ CloseRequires # {}
  /\ \A d \in Gated : Held(d) /\ doc[d].status = "approved"
  /\ \A d \in CloseRequires : Held(d)

\* The gates of a close, asked by closeCheck: the closing document's own, and
\* for a finished close every other gated document that was written, and every
\* document the flow needs to exist.
MayClose(d, to) ==
  /\ (d \in Gated /\ ~(to = "abandoned" /\ d # ClosingDoc))
       => doc[d].status = "approved"
  /\ to = "finished" =>
       /\ \A e \in Gated \ {d} : Held(e) => doc[e].status = "approved"
       /\ \A e \in CloseRequires : Held(e)

\* The anchor row is read first: an initiative closes once.
BeginClose(c, v, d, to) ==
  /\ anchor = None
  /\ LandsOn(to, d)
  /\ to = "abandoned" => ~LooksFinished
  /\ Begin(c, "close", [op |-> "close", by |-> v, doc |-> d, to |-> to,
                        att |-> 1, st |-> StateOf(doc[d]), write |-> None])
  /\ UNCHANGED <<store, reviews>>

\* The close of a text: it keeps its status and its seal.
CloseOf(d, to) ==
  [text |-> Current(doc[d]).text, status |-> doc[d].status, outcome |-> to,
   seal |-> None, next |-> FALSE, causes |-> {}, capture |-> FALSE]

PlanClose(c) ==
  LET k == call[c]
  IN /\ k.op = "close"
     /\ k.write = None
     /\ Current(doc[k.doc]).outcome = None
     /\ GateOpen(k.doc)
     /\ MayClose(k.doc, k.to)
     /\ Proceed(c, [k EXCEPT !.write = CloseOf(k.doc, k.to)])
     /\ UNCHANGED <<store, reviews>>

\* A moved document is read and judged again once.
RetryClose(c) ==
  LET k == call[c]
  IN /\ k.op = "close"
     /\ k.write # None
     /\ Moved(k.doc, k.st)
     /\ k.att < 2
     /\ Proceed(c, [k EXCEPT !.att = k.att + 1, !.st = StateOf(doc[k.doc]),
                             !.write = None])
     /\ UNCHANGED <<store, reviews>>

\* (A fault: the anchor row is updated whether or not it is closed.)
AlwaysOpen == TRUE

\* The anchor row is closed only while it is open: closed_at is null.
StillOpen == anchor = None

\* The document and the anchor row, in one transaction.
SaveClose(c) ==
  LET k == call[c]
      w == k.write
      mode == LandsAs(k.doc, w)
  IN /\ k.op = "close"
     /\ w # None
     /\ ~Moved(k.doc, k.st)
     /\ Admitted(doc[k.doc], w, mode)
     /\ StillOpen
     /\ doc' = [doc EXCEPT ![k.doc] = Saved(doc[k.doc], w, {}, mode)]
     /\ anchor' = k.to
     /\ End(c)
     /\ UNCHANGED <<approvals, requests, supports, reviews>>

\* An initiative that holds no document is abandoned on its anchor row.
BeginAbandon(c) ==
  /\ anchor = None
  /\ \A d \in Docs : ~Held(d)
  /\ Begin(c, "close", [op |-> "abandon"])
  /\ UNCHANGED <<store, reviews>>

SaveAbandon(c) ==
  /\ call[c].op = "abandon"
  /\ StillOpen
  /\ anchor' = "abandoned"
  /\ End(c)
  /\ UNCHANGED <<doc, approvals, requests, supports, reviews>>

----------------------------------------------------------------------------

Edit(c) ==
  \/ \E v \in Viewers, d \in Docs, ask \in Asks :
       \E base \in IF ask.based THEN 0..doc[d].gen ELSE {None} :
         BeginEdit(c, v, d, ask, base)
  \/ PlanEdit(c) \/ RetryEdit(c) \/ SaveNoChange(c) \/ SaveEdit(c)

Create(c) ==
  \/ \E v \in Viewers, d \in Docs, ask \in Asks :
       ask.kind = "whole" /\ ~ask.based /\ BeginCreate(c, v, d, ask)
  \/ SaveCreate(c)

Present(c) ==
  \/ \E v \in Viewers, d \in Docs, span \in Spans :
       BeginPresent(c, v, d, span)
  \/ SavePresent(c)

Approve(c) ==
  \/ \E v \in Viewers, d \in Docs : BeginApprove(c, v, d)
  \/ \E x \in 1..MaxContexts : PlanApprove(c, x)
  \/ SaveApprove(c)

Close(c) ==
  \/ \E v \in Viewers, d \in Docs, to \in Dispositions : BeginClose(c, v, d, to)
  \/ PlanClose(c) \/ RetryClose(c) \/ SaveClose(c)
  \/ BeginAbandon(c) \/ SaveAbandon(c)

Next ==
  \/ \E c \in Calls : \/ Edit(c) \/ Create(c) \/ Present(c)
                      \/ Approve(c) \/ Close(c) \/ GiveUp(c)
  \/ \E s \in Sources, D \in SUBSET Docs : AddSource(s, D)

Spec == Init /\ [][Next]_vars

----------------------------------------------------------------------------
(* What was shown and what was signed.                                     *)

\* A snapshot any page of which was put in front of somebody is kept as it was
\* shown, under the generation it was named by -- and so is the snapshot a
\* delta was drawn from.  Edits race presentations: the pin rule, the record
\* under the lock and the stamping of old rows hold this together.
ShownIsRetained ==
  \A p \in pages :
    LET x == doc[p.doc]
    IN /\ \E i \in Retained(x, p.target) : x.rows[i].text = p.text
       /\ p.kind = "delta" => \E i \in Retained(x, p.base) : x.rows[i].text = p.from

\* No two snapshots of a document go by one generation: a content revision, the
\* token callers name a snapshot by, names one text for good.
GenerationNamesOneSnapshot ==
  \A d \in Docs : \A i, j \in 1..Len(doc[d].rows) :
    i < j => GenOf(doc[d], i) < GenOf(doc[d], j)

ShownWhole(x, d, g) ==
  UNION {p.span : p \in {q \in pages : /\ q.ctx = x /\ q.doc = d
                                       /\ q.kind = "full" /\ q.target = g}} = 1..Parts
ShownSince(x, d, b, g) ==
  UNION {p.span : p \in {q \in pages : /\ q.ctx = x /\ q.doc = d
                                       /\ q.kind = "delta" /\ q.base = b
                                       /\ q.target = g}} = 1..Parts

\* Every character of generation g was handed over in context x: whole, or as
\* the changes since a generation that was.
Delivered(x, d, g) ==
  \E S \in SUBSET (0..doc[d].gen) :
    /\ g \in S
    /\ \A h \in S : \/ ShownWhole(x, d, h)
                    \/ \E b \in S : b < h /\ ShownSince(x, d, b, h)

\* A seal stands only on a snapshot that was delivered, whole, to the one who
\* approved it, in a context of theirs the approval's record names -- however
\* edits, presentations and approvals interleave.
SignedWasShown ==
  \A d \in Docs : \A i \in 1..Len(doc[d].rows) :
    doc[d].rows[i].sealed # None =>
      \E a \in approvals :
        /\ a.doc = d
        /\ a.gen = GenOf(doc[d], i)
        /\ a.by = doc[d].rows[i].sealed
        /\ \A p \in pages : p.ctx = a.ctx => p.by = a.by /\ p.doc = d
        /\ Delivered(a.ctx, d, a.gen)

\* A document is approved exactly when its approved revision is the current one
\* (the CHECK doc_current_revision_required): no write may leave a row that
\* says otherwise.
StatusIsSeal ==
  \A d \in Docs :
    /\ doc[d].approved <= Len(doc[d].rows)
    /\ doc[d].status = "approved" <=> Held(d) /\ doc[d].approved = Len(doc[d].rows)

\* The text of a row somebody signed, was shown in full, or closed on never
\* changes again, whatever is written to its document later.
KeptRow(x, i) ==
  \/ x.rows[i].sealed # None
  \/ x.approved = i
  \/ x.rows[i].presented
  \/ /\ x.rows[i].outcome # None
     /\ \A j \in 1..(i - 1) : x.rows[j].outcome = None
KeptRowsStand ==
  [][\A d \in Docs : \A i \in 1..Len(doc[d].rows) :
       KeptRow(doc[d], i) => doc'[d].rows[i].text = doc[d].rows[i].text]_vars

----------------------------------------------------------------------------
(* What an edit may do.                                                    *)

\* No lost update: content changes only as ONE edit asked, applied to what the
\* document held at that very moment, and onto the generation the caller named
\* when it named one.  Approvals, closes and presentations change none of it.
EditsApplyToCurrent ==
  [][\A d \in Docs :
       LET old == Current(doc[d]).text
           new == Current(doc'[d]).text
       IN (Held(d) /\ new # old) =>
            \E c \in Calls :
              LET k == call[c]
              IN /\ k.op = "edit" /\ k.doc = d /\ call'[c] = Idle
                 /\ new = Changed(k.ask, k.by, old)
                 /\ k.base # None => k.base = doc[d].gen]_vars

\* A change to the body of an approved document opens a new version, as a draft,
\* on a cause its version had not cited; the approved revision stays recorded.
ApprovedChangeOpensVersion ==
  [][\A d \in Docs :
       LET x == doc[d]
           y == doc'[d]
       IN (x.status = "approved" /\ Current(y).text.body # Current(x).text.body) =>
            /\ y.status = "draft"
            /\ y.approved = x.approved
            /\ Len(y.rows) = Len(x.rows) + 1
            /\ Current(y).version = Current(x).version + 1
            /\ ~(Current(y).cites \subseteq CitedBy(x, Current(x).version))]_vars

\* Every version after the first is explained: it cites a source that the
\* version before it does not.
VersionsHaveNewCause ==
  \A d \in Docs : \A i \in 1..Len(doc[d].rows) :
    LET v == doc[d].rows[i].version
    IN v > 1 => ~(CitedBy(doc[d], v) \subseteq CitedBy(doc[d], v - 1))

\* A keyed request commits once: its key has one digest, the words it asked for
\* stand in the body at most once, and never without the request's own row --
\* so a client that retries, or asks twice at once, is answered by a receipt.
RequestLandsOnce ==
  /\ \A q, r \in requests : (q.by = r.by /\ q.doc = r.doc /\ q.rid = r.rid) => q = r
  /\ \A d \in Docs : Held(d) =>
       LET body == Current(doc[d]).text.body
       IN \A i \in 1..Len(body) : body[i][2] # None =>
            /\ \A j \in 1..Len(body) : body[j] = body[i] => j = i
            /\ \E q \in requests : q.by = body[i][1] /\ q.doc = d /\ q.rid = body[i][2]

----------------------------------------------------------------------------
(* The close.                                                              *)

\* Documents and anchor row agree on how the initiative closed: no row carries
\* another outcome than the anchor's, a row filed after the one closed on still
\* carries it, one document at most carries any, and a finished close is on the
\* closing document.
OutcomeAgrees ==
  /\ \A d \in Docs : \A i \in 1..Len(doc[d].rows) :
       LET o == doc[d].rows[i].outcome
       IN o # None =>
            /\ o = anchor
            /\ \A j \in i..Len(doc[d].rows) : doc[d].rows[j].outcome = o
            /\ \A e \in Docs \ {d} : Held(e) => Current(doc[e]).outcome = None
  /\ anchor = "finished" =>
       Held(ClosingDoc) /\ Current(doc[ClosingDoc]).outcome = anchor
=============================================================================
