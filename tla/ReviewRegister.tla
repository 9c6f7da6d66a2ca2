--------------------------- MODULE ReviewRegister ---------------------------
(***************************************************************************)
(* What the document store promises a reviewer, without calls, locks,      *)
(* rows, versions or pages: a register of snapshots.                       *)
(*                                                                         *)
(*  - a snapshot somebody was shown, or that stands approved, is kept;     *)
(*    any other may be replaced by the next one;                           *)
(*  - only the current snapshot, or one shown before, is shown;            *)
(*  - a person approves the CURRENT snapshot, and only one that was        *)
(*    delivered to them whole;                                             *)
(*  - a change of the text takes the approval off;                         *)
(*  - the initiative closes once.                                          *)
(***************************************************************************)
EXTENDS Naturals

CONSTANTS Docs, People, Texts, Outcomes, None

VARIABLES
  kept,      \* the snapshots that can still be read
  now,       \* the current snapshot of each document, or None
  shown,     \* those put in front of somebody, in part or whole
  delivered, \* <<person, snapshot>>: all of it was handed over to them
  standing,  \* the documents whose current snapshot stands approved
  outcome    \* how the initiative closed, or None

vars == <<kept, now, shown, delivered, standing, outcome>>

Snapshot(d, g, t) == [doc |-> d, gen |-> g, text |-> t]

\* What a step writes, `t`, is read off the state it leaves.
Init ==
  /\ \A d \in Docs : now[d] # None => /\ now[d].text \in Texts
                                     /\ now[d] = Snapshot(d, 0, now[d].text)
  /\ kept = {now[d] : d \in {e \in Docs : now[e] # None}}
  /\ \A d \in standing : now[d] # None
  /\ shown = {}
  /\ delivered = {}
  /\ outcome = None

Create(d) ==
  /\ now[d] = None
  /\ now'[d] # None
  /\ LET t == now'[d].text
         s == Snapshot(d, 0, t)
     IN /\ t \in Texts
        /\ now' = [now EXCEPT ![d] = s]
        /\ kept' = kept \cup {s}
  /\ UNCHANGED <<shown, delivered, standing, outcome>>

\* The snapshot a change supersedes stays when it was shown or approved.
Change(d) ==
  /\ now[d] # None
  /\ LET t == now'[d].text
         s == Snapshot(d, now[d].gen + 1, t)
     IN /\ t \in Texts \ {now[d].text}
        /\ now' = [now EXCEPT ![d] = s]
        /\ \/ kept' = kept \cup {s}
           \/ /\ now[d] \notin shown
              /\ d \notin standing
              /\ kept' = (kept \ {now[d]}) \cup {s}
  /\ standing' = standing \ {d}
  /\ UNCHANGED <<shown, delivered, outcome>>

Show(v, s) ==
  /\ s = now[s.doc] \/ s \in shown
  /\ shown' = shown \cup {s}
  /\ \/ delivered' = delivered
     \/ delivered' = delivered \cup {<<v, s>>}
  /\ UNCHANGED <<kept, now, standing, outcome>>

Approve(v, d) ==
  /\ <<v, now[d]>> \in delivered
  /\ standing' = standing \cup {d}
  /\ UNCHANGED <<kept, now, shown, delivered, outcome>>

Close(o) ==
  /\ outcome = None
  /\ outcome' = o
  /\ UNCHANGED <<kept, now, shown, delivered, standing>>

Next ==
  \/ \E d \in Docs : Create(d) \/ Change(d)
  \/ \E v \in People, s \in kept : Show(v, s)
  \/ \E v \in People, d \in Docs : Approve(v, d)
  \/ \E o \in Outcomes : Close(o)

Spec == Init /\ [][Next]_vars
=============================================================================
