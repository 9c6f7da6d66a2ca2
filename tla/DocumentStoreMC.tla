------------------------- MODULE DocumentStoreMC -------------------------
(***************************************************************************)
(* Small instances of DocumentStore for TLC.                               *)
(***************************************************************************)
EXTENDS DocumentStoreRegister, TLC

CONSTANTS spec, plan, v1, v2, s1, s2, r1, c1, c2, c3

AskOf(kind, named, capture, based, rid) ==
  [kind |-> kind, named |-> named, capture |-> capture, based |-> based,
   rid |-> rid]

\* One gated document, nothing before it.
OneDoc == {spec}
NoPrerequisite == [d \in Docs |-> None]

\* Two: plan follows spec, and the flow closes on plan.
TwoDocs == {spec, plan}
PlanAfterSpec == (spec :> None) @@ (plan :> spec)

\* Standings.
FromDraft    == [d \in Docs |-> {"draft"}]

FromAny      == [d \in Docs |-> {"absent", "draft", "signed"}]

\* DocumentReview: patches, and presentations in two pages.
ReviewAsks == {AskOf("patch", {}, FALSE, FALSE, None)}
ReviewBudget == [o \in Ops |-> CASE o = "edit" -> 2 [] o = "present" -> 3
                                 [] o = "approve" -> 2 [] OTHER -> 0]

\* DocumentVersions: changes with and without causes, on drafts and on an
\* approved document, and calls under one key, alike and not, editing and creating.
VersionAsks == {AskOf("patch", {s1}, FALSE, FALSE, None),
                AskOf("patch", {}, TRUE, FALSE, None),
                AskOf("title", {s1}, FALSE, FALSE, None),
                AskOf("whole", {}, FALSE, TRUE, None),
                AskOf("patch", {}, FALSE, FALSE, r1),
                AskOf("title", {}, FALSE, FALSE, r1)}
VersionBudget == [o \in Ops |-> CASE o = "edit" -> 3
                                  [] o \in {"present", "approve", "source",
                                            "create"} -> 1
                                  [] OTHER -> 0]

\* DocumentClose: two documents, closed while they are written and edited.
CloseAsks == {AskOf("patch", {}, TRUE, FALSE, None),
              AskOf("whole", {}, FALSE, FALSE, None)}
CloseBudget == [o \in Ops |-> CASE o \in {"edit", "close"} -> 2
                                [] o \in {"present", "approve", "create"} -> 1
                                [] OTHER -> 0]

Alike == Permutations(Calls) \cup Permutations(Viewers)
=============================================================================
