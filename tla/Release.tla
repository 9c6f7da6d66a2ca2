------------------------------ MODULE Release ------------------------------
(***************************************************************************)
(* A release as a whole: improvement.md as it is prepared, amended and     *)
(* approved, the operator's release-apply command (tools/src/release/      *)
(* apply.ts) between the database and the repository, and its --reconcile, *)
(* for the attempts a command left behind.  A command may die at any point *)
(* and be run again.                                                       *)
(***************************************************************************)
EXTENDS ReleaseRepository

CONSTANT InitiativeOf  \* InitiativeOf[c]: the initiative c was proposed in

ASSUME InitiativeAssumption == DOMAIN InitiativeOf = Candidates

Initiatives == {InitiativeOf[c] : c \in Candidates}

VARIABLES
  doc,       \* initiative -> its improvement.md
  signed,    \* attempts an approved improvement.md ever cited (history)
  cli,       \* idempotency key -> the release-apply run under it
  landed,    \* attempts whose release command succeeded
  accepted,  \* attempts an operator accepted a release for that does not
             \* contain the candidate's commit
  mistaken,  \* attempts a --reconcile released by the base their branch was at
  unseen     \* candidates a command was run on that did not see their release
             \* land, or that it had landed

docVars     == <<doc, signed>>
historyVars == <<landed, accepted, mistaken, unseen>>
cliVars     == <<cli, historyVars>>
vars        == <<tableVars, repositoryVars, docVars, cliVars>>

\* version: what its release command is to publish, 0 until the command comes to
\* have something to release; made: what this run has made of the branch.
Command == [at: {"unrun", "asking", "holding", "branched", "committed",
                 "released", "failing", "exited"},
            candidate: Candidates \cup {None},
            version: {0} \cup Versions,
            made: {"nothing", "branch", "commit"}]

Unrun == [at |-> "unrun", candidate |-> None, version |-> 0, made |-> "nothing"]

ReleaseTypeOK ==
  /\ TypeOK
  /\ RepositoryTypeOK
  /\ doc \in [Initiatives -> Improvement]
  /\ signed \subseteq Attempts
  /\ cli \in [Keys -> Command]
  /\ landed \subseteq Attempts
  /\ accepted \subseteq Attempts
  /\ mistaken \subseteq Attempts
  /\ unseen \subseteq Candidates

Init ==
  /\ TableInit
  /\ RepositoryInit
  /\ doc = [i \in Initiatives |-> [cites |-> 0, approved |-> FALSE]]
  /\ signed = {}
  /\ cli = [k \in Keys |-> Unrun]
  /\ landed = {}
  /\ accepted = {}
  /\ mistaken = {}
  /\ unseen = {}

At(k, where) == cli[k].at = where
Of(k)        == cli[k].candidate

\* The attempt k's release_apply decided on.
AttemptOf(k) == ledger[k]

\* It was given the patch.
Handed(k) == AttemptOf(k) # 0 /\ mover[AttemptOf(k)] = k

\* It has the patch and its release command has not succeeded.
Applies(k) == cli[k].at \in {"holding", "branched", "committed", "failing"}

Working(k) == Applies(k) \/ At(k, "released")

Goes(k, where) == cli' = [cli EXCEPT ![k].at = where]
Exits(k)       == cli' = [cli EXCEPT ![k].at = "exited", ![k].made = "nothing"]

Makes(k, what) ==
  cli' = [cli EXCEPT ![k].at = IF what = "branch" THEN "branched" ELSE "committed",
                     ![k].made = what]

----------------------------------------------------------------------------
(* improvement.md.                                                         *)

\* release_prepare; a replay writes the document of its old attempt again.  An
\* approved document is not overwritten.
WriteDoc(a) ==
  /\ Made(a)
  /\ LET i == InitiativeOf[candidate[a]]
     IN /\ ~doc[i].approved
        /\ doc' = [doc EXCEPT ![i] = [cites |-> a, approved |-> FALSE]]
  /\ UNCHANGED <<tableVars, repositoryVars, signed, cliVars>>

\* document_edit, by hand: what it cites then is free, and the approval is gone.
Amend(i) ==
  /\ \E a \in {0} \cup {b \in Attempts : Made(b)} :
       doc' = [doc EXCEPT ![i] = [cites |-> a, approved |-> FALSE]]
  /\ UNCHANGED <<tableVars, repositoryVars, signed, cliVars>>

\* document_approve, by a member of the owner teams of the attempt cited.
Approve(i) ==
  /\ doc[i].cites # 0
  /\ ~doc[i].approved
  /\ doc' = [doc EXCEPT ![i].approved = TRUE]
  /\ signed' = signed \cup {doc[i].cites}
  /\ UNCHANGED <<tableVars, repositoryVars, cliVars>>

----------------------------------------------------------------------------
(* The command asks.                                                       *)

Run(k, c) ==
  /\ At(k, "unrun")
  /\ Ask(k, c, doc[InitiativeOf[c]])
  /\ cli' = [cli EXCEPT ![k].at = "asking", ![k].candidate = c]
  /\ UNCHANGED <<repositoryVars, docVars, historyVars>>

\* The same command line; its key is answered as before, if it was: with the patch
\* too when the release had landed and nobody had recorded it.
RunAgain(k) ==
  /\ At(k, "exited")
  /\ \/ /\ Ask(k, Of(k), doc[InitiativeOf[Of(k)]])
        /\ Goes(k, "asking")
        /\ UNCHANGED unseen
     \/ /\ \E a \in Attempts : GivesPatch(k, a)
        /\ Goes(k, "holding")
        /\ unseen' = IF AttemptOf(k) \in landed THEN unseen \cup {Of(k)} ELSE unseen
        /\ UNCHANGED tableVars
  /\ UNCHANGED <<repositoryVars, docVars, landed, accepted, mistaken>>

Answered(k) ==
  /\ \/ /\ ApplyRefused(k) \/ ApplyStale(k) \/ ApplyEnds(k)
        /\ Exits(k)
     \/ /\ \E a \in Attempts : ApplyMoves(k, a)
        /\ \E v \in Versions \ {base[Of(k)]} :
             cli' = [cli EXCEPT ![k].version = v,
                                ![k].at = IF @ = "asking" THEN "holding" ELSE @]
  /\ UNCHANGED <<repositoryVars, docVars, historyVars>>

----------------------------------------------------------------------------
(* It holds the patch: a branch at the base, the candidate's commit, the   *)
(* gates, the release command.                                             *)

MakeBranch(k) ==
  /\ At(k, "holding")
  /\ branch[Of(k)] = NoBranch
  /\ Points(Of(k), [tip |-> "base", of |-> base[Of(k)]])
  /\ worktree' = worktree \cup {AttemptOf(k)}
  /\ Makes(k, "branch")
  /\ UNCHANGED <<tableVars, tag, docVars, historyVars>>

CommitPatch(k) ==
  /\ At(k, "branched")
  /\ AttemptOf(k) \in worktree
  /\ Points(Of(k), Patch(AttemptOf(k)))
  /\ Makes(k, "commit")
  /\ UNCHANGED <<tableVars, tag, worktree, docVars, historyVars>>

\* The release command's tag comes to be published, before the command ends or
\* after it, on the candidate's commit or on one it was squashed into.
Push(k) ==
  /\ Handed(k)
  /\ At(k, "committed") \/ AttemptOf(k) \in landed
  /\ ~Published(cli[k].version)
  /\ \E new \in {{AttemptOf(k)}, {}} :
       Publish(cli[k].version, base[Of(k)], new)
  /\ UNCHANGED <<tableVars, branch, worktree, docVars, cliVars>>

\* The release command succeeds, its tag published or not.  The worktree goes,
\* unless the command dies first.
Succeed(k) ==
  /\ At(k, "committed")
  /\ landed' = landed \cup {AttemptOf(k)}
  /\ \/ Goes(k, "released") /\ Clears(AttemptOf(k))
     \/ Exits(k) /\ UNCHANGED worktree
  /\ UNCHANGED <<tableVars, tag, branch, docVars, accepted, mistaken, unseen>>

\* (A fault: the tag need only be published.)
ConfirmPublished(k) ==
  /\ At(k, "released")
  /\ Published(cli[k].version)
  /\ StartRecord(AttemptOf(k), cli[k].version)
  /\ Exits(k)
  /\ UNCHANGED <<repositoryVars, docVars, historyVars>>

\* The tag contains the candidate's commit and the version is registered:
\* release_record(released) is called.
Confirm(k) ==
  /\ At(k, "released")
  /\ AttemptOf(k) \in tag[cli[k].version].patches
  /\ StartRecord(AttemptOf(k), cli[k].version)
  /\ Exits(k)
  /\ UNCHANGED <<repositoryVars, docVars, historyVars>>

\* Any step before the release command succeeded; a branch that is already there
\* is one of them.
Fail(k) ==
  /\ cli[k].at \in {"holding", "branched", "committed"}
  /\ Goes(k, "failing")
  /\ UNCHANGED <<tableVars, repositoryVars, docVars, historyVars>>

\* release_record(failed) is answered, and the branch this run made goes; or is
\* refused or lost, and it goes if it holds no commit; or the command dies first.
TellFailed(k) ==
  LET a == AttemptOf(k)
      drops(when) == IF when THEN Removes(a) ELSE Clears(a) /\ UNCHANGED branch
  IN /\ At(k, "failing")
     /\ \/ RecordFailed(a) /\ drops(cli[k].made # "nothing")
        \/ (RecordFailed(a) \/ UNCHANGED tableVars) /\ drops(cli[k].made = "branch")
        \/ RecordFailed(a) /\ UNCHANGED <<branch, worktree>>
     /\ Exits(k)
     /\ UNCHANGED <<tag, docVars, historyVars>>

\* It dies, or ends with a release it could not confirm.
Exit(k) ==
  /\ Working(k) \/ At(k, "asking")
  /\ Exits(k)
  /\ UNCHANGED <<tableVars, repositoryVars, docVars, historyVars>>

----------------------------------------------------------------------------
(* release-apply --reconcile of the attempt k was given, with the version  *)
(* k was to release.  Neither the attempt nor its command is looked at     *)
(* first.  The candidate's commit is taken to be the branch's tip.         *)

\* The worktree goes, at once.
Reconciles(k) == Handed(k) /\ Clears(AttemptOf(k))

\* The candidate, when that was under a command still applying the patch.
Interrupted(k) == IF Applies(k) THEN {Of(k)} ELSE {}

ReconcileReleased(k) ==
  /\ Reconciles(k)
  /\ ContainsTip(cli[k].version, Of(k))
  /\ StartRecord(AttemptOf(k), cli[k].version)
  /\ mistaken' = IF branch[Of(k)].tip = "base" THEN mistaken \cup {AttemptOf(k)}
                 ELSE mistaken
  /\ unseen' = unseen \cup Interrupted(k)
  /\ UNCHANGED <<tag, branch, docVars, cli, landed, accepted>>

\* --accept-tag-without-candidate-commit.
ReconcileAccepted(k) ==
  /\ Reconciles(k)
  /\ branch[Of(k)] # NoBranch
  /\ Published(cli[k].version)
  /\ ~ContainsTip(cli[k].version, Of(k))
  /\ StartRecord(AttemptOf(k), cli[k].version)
  /\ accepted' = accepted \cup {AttemptOf(k)}
  /\ unseen' = unseen \cup Interrupted(k)
  /\ UNCHANGED <<tag, branch, docVars, cli, landed, mistaken>>

\* Nothing is recorded: no branch, a tag that says it landed, a call that fails.
ReconcileNothing(k) ==
  /\ Reconciles(k)
  /\ unseen' = unseen \cup Interrupted(k)
  /\ UNCHANGED <<tableVars, tag, branch, docVars, cli, landed, accepted, mistaken>>

\* The branch holds what landed and nothing shown says so: origin did not answer,
\* the tag was not out, or the attempt reconciled is another.
Overlooked(k, shown) ==
  {candidate[a] : a \in
     {b \in landed : /\ branch[Of(k)] = Patch(b)
                    /\ \/ shown # Tagged
                       \/ ~Published(cli[k].version)
                       \/ AttemptOf(k) # b}}

\* The branch goes, and the failure is recorded or the call is lost.
TakesForFailed(k, shown) ==
  /\ branch[Of(k)] # NoBranch
  /\ cli[k].version \notin registered
  /\ RecordFailed(AttemptOf(k)) \/ UNCHANGED tableVars
  /\ Removes(AttemptOf(k))
  /\ unseen' = unseen \cup Interrupted(k) \cup Overlooked(k, shown)
  /\ UNCHANGED <<tag, docVars, cli, landed, accepted, mistaken>>

\* (A fault: a version not registered is reason enough.)
ReconcileUnregistered(k) == Handed(k) /\ TakesForFailed(k, Tagged)

\* Not registered and, of the tags it is shown, none is the version's and none
\* contains the tip.  An origin that does not answer shows fewer than there are.
ReconcileFailed(k) ==
  /\ Handed(k)
  /\ \E shown \in SUBSET Tagged :
       /\ cli[k].version \notin shown
       /\ ~\E v \in shown : ContainsTip(v, Of(k))
       /\ TakesForFailed(k, shown)

----------------------------------------------------------------------------
(* What else happens.                                                      *)

\* An operator clears the branch of a candidate nothing is applying, and what has
\* it checked out.
DropBranch(c) ==
  /\ branch[c] # NoBranch
  /\ \A a \in In("applying") : candidate[a] # c
  /\ \A k \in Keys : Working(k) => Of(k) # c
  /\ Points(c, NoBranch)
  /\ worktree' = {a \in worktree : candidate[a] # c}
  /\ UNCHANGED <<tableVars, tag, docVars, cliVars>>

\* A release of something else, grown from the release w.
OutsideRelease(v) ==
  /\ ~Published(v)
  /\ \E w \in Versions : Published(w) /\ Publish(v, w, {})
  /\ UNCHANGED <<tableVars, branch, worktree, docVars, cliVars>>

\* The tools whose calls no command of ours makes, the calls under way, and what
\* a published release does to the platform.
Elsewhere ==
  /\ \/ \E v \in Versions : Published(v) /\ Arrives(v)
     \/ \E c \in Candidates : Propose(c)
     \/ \E a \in Attempts, c \in Candidates : Prepare(a, c)
     \/ \E a \in Attempts, v \in Versions : CommitRecord(a, v) \/ DropRecord(a, v)
     \/ \E a \in Attempts : RecordRolledBack(a)
     \/ \E a \in Attempts, d \in Verdicts :
          StartVerify(a, d) \/ CommitVerify(a, d) \/ DropVerify(a, d)
     \/ \E f \in Findings : Decide(f)
  /\ UNCHANGED <<repositoryVars, docVars, cliVars>>

Next ==
  \/ Elsewhere
  \/ \E a \in Attempts : WriteDoc(a)
  \/ \E i \in Initiatives : Amend(i) \/ Approve(i)
  \/ \E k \in Keys, c \in Candidates : Run(k, c)
  \/ \E k \in Keys : RunAgain(k) \/ Answered(k) \/ MakeBranch(k) \/ CommitPatch(k)
  \/ \E k \in Keys : Push(k) \/ Succeed(k) \/ Confirm(k) \/ Fail(k)
  \/ \E k \in Keys : TellFailed(k) \/ Exit(k)
  \/ \E k \in Keys : ReconcileReleased(k) \/ ReconcileAccepted(k)
  \/ \E k \in Keys : ReconcileNothing(k) \/ ReconcileFailed(k)
  \/ \E c \in Candidates : DropBranch(c)
  \/ \E v \in Versions : OutsideRelease(v)

Spec == Init /\ [][Next]_vars

----------------------------------------------------------------------------
\* release-apply.ts: nothing is applied that an improvement.md citing it, and
\* approved by its owners, did not ask for.
AppliedWasSigned == \A a \in Attempts : mover[a] # None => a \in signed

\* release-apply.ts, describeApplyOutcomeForReplay: two commands never apply one
\* attempt.
PatchGoesToOneCall ==
  \A j, k \in Keys :
    Working(j) /\ Working(k) /\ AttemptOf(j) = AttemptOf(k) => j = k

\* apply.ts: a release that landed is never recorded failed, and until it is
\* recorded the branch holds the commit it is to be recognised by; unless a command
\* was run on its candidate that did not see it land, or that it had.
LandedIsRecoverable ==
  \A a \in landed : candidate[a] \notin unseen =>
    /\ status[a] # "failed"
    /\ status[a] = "applying" => branch[candidate[a]] = Patch(a)

\* A commit that applies c is in the tag.
CarriesPatch(v, c) == \E b \in tag[v].patches : candidate[b] = c

\* apply.ts: what is recorded released is recorded under a tag that contains its
\* candidate's commit, unless the operator accepted it without, or --reconcile took
\* the base for that commit (see ReleasedIsCarried).
ReleasedIsVouched ==
  \A a \in In("released") :
    a \in accepted \cup mistaken \/ CarriesPatch(released[a], candidate[a])

----------------------------------------------------------------------------
(* What a comment says and the code does not do.                           *)

\* apply.ts: "the release tag must also contain the candidate's branch commit"
\* for an attempt to be recorded released, unless the operator accepted it without.
ReleasedIsCarried ==
  \A a \in In("released") : a \in tag[released[a]].patches \cup accepted
============================================================================
