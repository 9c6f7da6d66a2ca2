------------------------ MODULE DocumentStoreRegister ------------------------
(***************************************************************************)
(* The document store implements the review register: the rows, pages and  *)
(* contexts it keeps, seen as the register's snapshots.                    *)
(***************************************************************************)
EXTENDS DocumentStore

ASSUME SnapshotAssumption == None \notin [doc: Docs, gen: Nat, text: Text]

SnapshotAt(d, i) ==
  [doc |-> d, gen |-> GenOf(doc[d], i), text |-> doc[d].rows[i].text]

KeptSnapshots ==
  UNION {{SnapshotAt(d, i) : i \in 1..Len(doc[d].rows)} : d \in Docs}

CurrentSnapshot ==
  [d \in Docs |-> IF Held(d) THEN SnapshotAt(d, Len(doc[d].rows)) ELSE None]

ShownSnapshots ==
  {[doc |-> p.doc, gen |-> p.target, text |-> p.text] : p \in pages}

\* What each context covered, delivered to the viewer it belongs to.
DeliveredSnapshots ==
  UNION {{<<open[x].by, s>> : s \in
            {z \in ShownSnapshots : z.doc = open[x].doc /\ Covers(x, z.gen)}} :
          x \in {y \in 1..minted : open[y] # None}}

Standing == {d \in Docs : doc[d].status = "approved"}

Register ==
  INSTANCE ReviewRegister WITH
    People <- Viewers, Texts <- Text, Outcomes <- Dispositions,
    kept <- KeptSnapshots, now <- CurrentSnapshot, shown <- ShownSnapshots,
    delivered <- DeliveredSnapshots, standing <- Standing, outcome <- anchor

\* Every behaviour of the store, its calls interleaved as they may be, is one of
\* the register's.
ImplementsRegister == Register!Spec
=============================================================================
