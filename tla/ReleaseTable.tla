--------------------------- MODULE ReleaseTable ---------------------------
(***************************************************************************)
(* How one plugin's improvements are released, as the database sees it     *)
(* (services/zz-core/src/eval, release-*.ts): candidates, the attempts to  *)
(* release them, the improvement.md an owner approves, the findings a      *)
(* release closes, and the versions registered.  Each tool is one action,  *)
(* or two where it reads first and writes later.                           *)
(*                                                                         *)
(* Versions are numbered in semver order, attempts in the order they were  *)
(* prepared; 0 is no version and no attempt.                               *)
(***************************************************************************)
EXTENDS Integers, FiniteSets

CONSTANTS
  Candidates,    \* candidates of the plugin, built and valid
  Findings,
  Targets,       \* Targets[c]: the findings the run that proposed c is against
  Keys,          \* idempotency keys of release_apply, each one principal's
  MaxAttempts,   \* bound on attempts
  MaxVersion,    \* bound on versions
  None           \* the absent value

Attempts    == 1..MaxAttempts
Versions    == 1..MaxVersion

ASSUME ReleaseAssumption ==
  /\ Targets \in [Candidates -> SUBSET Findings]
  /\ MaxAttempts \in Nat
  /\ MaxVersion \in Nat \ {0}
  /\ None \notin Candidates
  /\ None \notin Keys

VARIABLES
  registered,  \* versions with a zz.plugin_version row
  declared,    \* the version the deployment's catalog declares; 0: the plugin
               \* is not of the catalog
  base,        \* candidate -> base_plugin_version_id, 0 until it is recorded
  candidate,   \* attempt -> candidate_id, None until it is prepared
  status,      \* attempt -> status
  mover,       \* attempt -> the call that moved it to applying
  released,    \* attempt -> released_plugin_version_id
  verdict,     \* attempt -> release_verify's verdict
  call,        \* key -> the release_apply under it that has read its document
  ledger,      \* key -> the attempt zz.eval_idempotency answers it with
  recording,   \* release_record(released) calls past their checks
  judging,     \* release_verify calls past their reads, with their decision
  finding      \* finding -> its decision, and the release that made it

ledgerVars  == <<call, ledger>>
attemptVars == <<candidate, status, mover, released, verdict>>
tableVars   == <<registered, declared, base, attemptVars, ledgerVars,
                 recording, judging, finding>>

Statuses == {"unmade", "prepared", "applying", "released", "refused", "failed",
             "rolled_back"}
Verdicts == {"established", "rolled_back"}

\* cites: the one attempt the body names.
Improvement == [cites: {0} \cup Attempts, approved: BOOLEAN]

\* doc: the improvement.md read before the transaction.
ApplyCall == [candidate: Candidates, doc: Improvement]

\* by: the attempt whose release decided it; 0: nobody, or somebody by hand.
Decision == [is: {"applied"}, by: Attempts]
              \cup [is: {"deferred", "applied", "rejected"}, by: {0}]

Deferred == [is |-> "deferred", by |-> 0]

TypeOK ==
  /\ registered \subseteq Versions
  /\ declared \in {0} \cup Versions
  /\ base \in [Candidates -> {0} \cup Versions]
  /\ candidate \in [Attempts -> Candidates \cup {None}]
  /\ status \in [Attempts -> Statuses]
  /\ mover \in [Attempts -> Keys \cup {None}]
  /\ released \in [Attempts -> {0} \cup Versions]
  /\ verdict \in [Attempts -> Verdicts \cup {"none"}]
  /\ call \in [Keys -> ApplyCall \cup {None}]
  /\ ledger \in [Keys -> {0} \cup Attempts]
  /\ recording \subseteq Attempts \X Versions
  /\ judging \subseteq Attempts \X Verdicts
  /\ finding \in [Findings -> Decision]

TableInit ==
  /\ registered = {1}
  /\ declared \in {0, 1}
  /\ base = [c \in Candidates |-> 0]
  /\ candidate = [a \in Attempts |-> None]
  /\ status = [a \in Attempts |-> "unmade"]
  /\ mover = [a \in Attempts |-> None]
  /\ released = [a \in Attempts |-> 0]
  /\ verdict = [a \in Attempts |-> "none"]
  /\ call = [k \in Keys |-> None]
  /\ ledger = [k \in Keys |-> 0]
  /\ recording = {}
  /\ judging = {}
  /\ finding = [f \in Findings |-> Deferred]

In(s)   == {a \in Attempts : status[a] = s}
Made(a) == status[a] # "unmade"

----------------------------------------------------------------------------
(* Which version is current (release-head.ts).                             *)

\* The versions a rollback took back, under the statuses st.
Retracted(st) == {released[a] : a \in {b \in Attempts : st[b] = "rolled_back"}}

\* The version deployed, for a plugin of the catalog; for any other the newest
\* not taken back.
IsCurrent(v, st) ==
  /\ v \in registered
  /\ IF declared # 0 THEN v = declared
     ELSE LET standing == registered \ Retracted(st)
          IN v \in standing /\ \A w \in standing : w <= v

----------------------------------------------------------------------------
(* Versions come to be registered, deployed and evaluated.                 *)

\* A release's register-plugins step, of this release or any other.
Register(v) ==
  /\ registered' = registered \cup {v}
  /\ UNCHANGED <<declared, base, attemptVars, ledgerVars, recording,
                 judging, finding>>

\* A deployment, of a new version or, rolling back, of an old one.
Deploy(v) ==
  /\ declared # 0
  /\ declared' = v
  /\ UNCHANGED <<registered, base, attemptVars, ledgerVars, recording,
                 judging, finding>>

Arrives(v) == Register(v) \/ Deploy(v)

\* candidate_record: on the version its evaluation was of.
Propose(c) ==
  /\ base[c] = 0
  /\ \E v \in registered : base' = [base EXCEPT ![c] = v]
  /\ UNCHANGED <<registered, declared, attemptVars, ledgerVars, recording,
                 judging, finding>>

----------------------------------------------------------------------------
\* release_prepare, the row.
Prepare(a, c) ==
  /\ base[c] # 0
  /\ ~Made(a)
  /\ \A b \in Attempts : b < a => Made(b)
  /\ candidate' = [candidate EXCEPT ![a] = c]
  /\ status' = [status EXCEPT ![a] = "prepared"]
  /\ UNCHANGED <<registered, declared, base, mover, released, verdict,
                 ledgerVars, recording, judging, finding>>

----------------------------------------------------------------------------
(* release_apply: the document is read, then one transaction decides, in   *)
(* which no other attempt of the plugin may decide.                        *)

\* d: the document read.  Which that is, see Release.
Ask(k, c, d) ==
  /\ call[k] = None
  /\ ledger[k] = 0
  /\ call' = [call EXCEPT ![k] = [candidate |-> c, doc |-> d]]
  /\ UNCHANGED <<registered, declared, base, attemptVars, ledger,
                 recording, judging, finding>>

Asked(k)   == call[k] # None
Settles(k) == call' = [call EXCEPT ![k] = None]

\* The prepared attempt of the call's candidate its document cites or, when it
\* cites none, the newest.
Chosen(k, a) ==
  LET of == {b \in In("prepared") : candidate[b] = call[k].candidate}
      cited == call[k].doc.cites
  IN /\ a \in of
     /\ IF cited # 0 THEN a = cited ELSE \A b \in of : b <= a

\* The call, new under its key, decides on a.
Decides(k, a) ==
  /\ Asked(k)
  /\ ledger[k] = 0
  /\ In("applying") = {}
  /\ Chosen(k, a)
  /\ Settles(k)
  /\ ledger' = [ledger EXCEPT ![k] = a]

Approved(k, a) == call[k].doc = [cites |-> a, approved |-> TRUE]

\* approval_required, or the digest the caller gave is another: a stays prepared.
ApplyRefused(k) ==
  /\ \E a \in Attempts : Decides(k, a)
  /\ UNCHANGED <<registered, declared, base, attemptVars, recording,
                 judging, finding>>

\* stale_baseline: the candidate's base is not what is released now.
ApplyStale(k) ==
  /\ \E a \in Attempts :
       /\ Decides(k, a)
       /\ Approved(k, a)
       /\ \E v \in Versions : IsCurrent(v, status)
       /\ ~IsCurrent(base[candidate[a]], status)
       /\ status' = [status EXCEPT ![a] = "refused"]
  /\ UNCHANGED <<registered, declared, base, candidate, mover, released,
                 verdict, recording, judging, finding>>

Live == In("applying") \cup In("released")

\* (A fault: the baseline is not compared.)
ApplyMovesAnyBase(k, a) ==
  /\ Decides(k, a)
  /\ Approved(k, a)
  /\ \A b \in Live : candidate[b] # candidate[a]
  /\ status' = [status EXCEPT ![a] = "applying"]
  /\ mover' = [mover EXCEPT ![a] = k]
  /\ UNCHANGED <<registered, declared, base, candidate, released, verdict,
                 recording, judging, finding>>

\* (A fault: the approval need not be of this attempt.)
ApplyMovesUncited(k, a) ==
  /\ Decides(k, a)
  /\ IsCurrent(base[candidate[a]], status)
  /\ \A b \in Live : candidate[b] # candidate[a]
  /\ status' = [status EXCEPT ![a] = "applying"]
  /\ mover' = [mover EXCEPT ![a] = k]
  /\ UNCHANGED <<registered, declared, base, candidate, released, verdict,
                 recording, judging, finding>>

\* One attempt of a candidate is live: the index says so.
ApplyMoves(k, a) ==
  /\ Decides(k, a)
  /\ Approved(k, a)
  /\ IsCurrent(base[candidate[a]], status)
  /\ \A b \in Live : candidate[b] # candidate[a]
  /\ status' = [status EXCEPT ![a] = "applying"]
  /\ mover' = [mover EXCEPT ![a] = k]
  /\ UNCHANGED <<registered, declared, base, candidate, released, verdict,
                 recording, judging, finding>>

\* (A fault: a replay is given the patch of whichever attempt it names.)
GivesPatchToAny(k, a) == ledger[k] = a /\ status[a] = "applying"

\* A replay carries the patch to the call that moved the attempt, and only then.
GivesPatch(k, a) ==
  /\ ledger[k] = a
  /\ mover[a] = k
  /\ status[a] = "applying"

\* The call ends and changes nothing: a replay, a refusal that is thrown (no
\* prepared attempt, the one cited is not one, release_in_progress, no current
\* version), or the connection goes.
ApplyEnds(k) ==
  /\ Asked(k)
  /\ Settles(k)
  /\ UNCHANGED <<registered, declared, base, attemptVars, ledger,
                 recording, judging, finding>>

----------------------------------------------------------------------------
(* release_record.  A released version is looked at first and written in a *)
(* later statement; nothing is locked between the two.                     *)

\* (A fault: already_recorded is not asked.)
StartRecordAny(a, v) ==
  /\ status[a] = "applying"
  /\ v \in registered
  /\ v > base[candidate[a]]
  /\ recording' = recording \cup {<<a, v>>}
  /\ UNCHANGED <<registered, declared, base, attemptVars, ledgerVars,
                 judging, finding>>

\* not_applying, not_newer, already_recorded.
StartRecord(a, v) ==
  /\ status[a] = "applying"
  /\ v \in registered
  /\ v > base[candidate[a]]
  /\ \A b \in Attempts \ {a} : released[b] # v
  /\ recording' = recording \cup {<<a, v>>}
  /\ UNCHANGED <<registered, declared, base, attemptVars, ledgerVars,
                 judging, finding>>

\* Closes the findings still deferred; one somebody decided is left alone.
Closes(a) ==
  [f \in Findings |->
     IF f \in Targets[candidate[a]] /\ finding[f].is = "deferred"
     THEN [is |-> "applied", by |-> a] ELSE finding[f]]

\* (A fault: the attempt may have left applying.)
CommitRecordStale(a, v) ==
  /\ <<a, v>> \in recording
  /\ status' = [status EXCEPT ![a] = "released"]
  /\ released' = [released EXCEPT ![a] = v]
  /\ finding' = Closes(a)
  /\ recording' = recording \ {<<a, v>>}
  /\ UNCHANGED <<registered, declared, base, candidate, mover, verdict,
                 ledgerVars, judging>>

CommitRecord(a, v) ==
  /\ <<a, v>> \in recording
  /\ status[a] = "applying"
  /\ status' = [status EXCEPT ![a] = "released"]
  /\ released' = [released EXCEPT ![a] = v]
  /\ finding' = Closes(a)
  /\ recording' = recording \ {<<a, v>>}
  /\ UNCHANGED <<registered, declared, base, candidate, mover, verdict,
                 ledgerVars, judging>>

\* The attempt left applying first, or the call was cut off.
DropRecord(a, v) ==
  /\ <<a, v>> \in recording
  /\ recording' = recording \ {<<a, v>>}
  /\ UNCHANGED <<registered, declared, base, attemptVars, ledgerVars,
                 judging, finding>>

RecordFailed(a) ==
  /\ status[a] = "applying"
  /\ status' = [status EXCEPT ![a] = "failed"]
  /\ UNCHANGED <<registered, declared, base, candidate, mover, released,
                 verdict, ledgerVars, recording, judging, finding>>

\* Findings the release closed are open again; by hand decided ones stay.
Reopens(a) ==
  [f \in Findings |->
     IF f \in Targets[candidate[a]] /\ finding[f] = [is |-> "applied", by |-> a]
     THEN Deferred ELSE finding[f]]

\* (A fault: the findings stay closed.)
RollBackOnly(a) ==
  /\ status[a] = "released"
  /\ verdict[a] = "rolled_back"
  /\ status' = [status EXCEPT ![a] = "rolled_back"]
  /\ IsCurrent(base[candidate[a]], status')
  /\ UNCHANGED <<registered, declared, base, candidate, mover, released,
                 verdict, ledgerVars, recording, judging, finding>>

\* With its version taken back, the one it was built on is current.
RecordRolledBack(a) ==
  /\ status[a] = "released"
  /\ verdict[a] = "rolled_back"
  /\ status' = [status EXCEPT ![a] = "rolled_back"]
  /\ IsCurrent(base[candidate[a]], status')
  /\ finding' = Reopens(a)
  /\ UNCHANGED <<registered, declared, base, candidate, mover, released,
                 verdict, ledgerVars, recording, judging>>

----------------------------------------------------------------------------
(* release_verify: decided on what was read, written if nothing is yet.    *)

StartVerify(a, d) ==
  /\ status[a] = "released"
  /\ verdict[a] = "none"
  /\ judging' = judging \cup {<<a, d>>}
  /\ UNCHANGED <<registered, declared, base, attemptVars, ledgerVars,
                 recording, finding>>

\* (A fault: written over a verdict another call wrote.)
CommitVerifyOver(a, d) ==
  /\ <<a, d>> \in judging
  /\ verdict' = [verdict EXCEPT ![a] = d]
  /\ judging' = judging \ {<<a, d>>}
  /\ UNCHANGED <<registered, declared, base, candidate, status, mover, released,
                 ledgerVars, recording, finding>>

CommitVerify(a, d) ==
  /\ <<a, d>> \in judging
  /\ verdict[a] = "none"
  /\ verdict' = [verdict EXCEPT ![a] = d]
  /\ judging' = judging \ {<<a, d>>}
  /\ UNCHANGED <<registered, declared, base, candidate, status, mover, released,
                 ledgerVars, recording, finding>>

DropVerify(a, d) ==
  /\ <<a, d>> \in judging
  /\ judging' = judging \ {<<a, d>>}
  /\ UNCHANGED <<registered, declared, base, attemptVars, ledgerVars,
                 recording, finding>>

----------------------------------------------------------------------------
\* finding_decide, by hand.
Decide(f) ==
  /\ finding[f].is = "deferred"
  /\ \E d \in {"applied", "rejected"} :
       finding' = [finding EXCEPT ![f] = [is |-> d, by |-> 0]]
  /\ UNCHANGED <<registered, declared, base, attemptVars, ledgerVars,
                 recording, judging>>

----------------------------------------------------------------------------
TableNext ==
  \/ \E v \in Versions : Arrives(v)
  \/ \E c \in Candidates : Propose(c)
  \/ \E a \in Attempts, c \in Candidates : Prepare(a, c)
  \/ \E k \in Keys, c \in Candidates, d \in Improvement : Ask(k, c, d)
  \/ \E k \in Keys : ApplyRefused(k) \/ ApplyStale(k) \/ ApplyEnds(k)
  \/ \E k \in Keys, a \in Attempts : ApplyMoves(k, a)
  \/ \E a \in Attempts, v \in Versions :
       StartRecord(a, v) \/ CommitRecord(a, v) \/ DropRecord(a, v)
  \/ \E a \in Attempts : RecordFailed(a) \/ RecordRolledBack(a)
  \/ \E a \in Attempts, d \in Verdicts :
       StartVerify(a, d) \/ CommitVerify(a, d) \/ DropVerify(a, d)
  \/ \E f \in Findings : Decide(f)

TableSpec == TableInit /\ [][TableNext]_tableVars

----------------------------------------------------------------------------
\* release-record.ts, already_recorded: a version is the release of one attempt.
\* What makes it so is not the reading but that no other attempt is applying
\* from the reading until the writing.
VersionsClaimedOnce ==
  \A a, b \in Attempts : released[a] # 0 /\ released[a] = released[b] => a = b

Lives(a) == status[a] \in {"applying", "released"}

\* release-apply.ts, planApply: outside the catalog two candidates on one base
\* are never both released or being released; the second was proved against a
\* version that is no longer the one released.
OneReleasePerBase ==
  declared = 0 =>
    \A a, b \in Attempts :
      /\ Lives(a)
      /\ Lives(b)
      /\ base[candidate[a]] = base[candidate[b]]
      => a = b

\* release-record.ts: a finding a release closed stays closed while that release
\* stands, and only so long; outside the catalog every finding a standing release
\* was built for is decided.
FindingsFollowReleases ==
  /\ \A f \in Findings :
       finding[f].by # 0 =>
         /\ status[finding[f].by] = "released"
         /\ f \in Targets[candidate[finding[f].by]]
  /\ declared = 0 =>
       \A a \in In("released") :
         \A f \in Targets[candidate[a]] : finding[f].is # "deferred"

\* release-verify.ts: what is rolled back was released and judged so, and no later
\* call judged otherwise.
RollbackRestsOnVerdict ==
  \A a \in In("rolled_back") : released[a] # 0 /\ verdict[a] = "rolled_back"

----------------------------------------------------------------------------
Lifecycle == INSTANCE AttemptRegister
               WITH closer <- [f \in Findings |-> finding[f].by]

\* release-apply.ts, release-record.ts: whatever is read before and written after,
\* attempts, versions and findings move as the register has them move.
ImplementsLifecycle == Lifecycle!Spec
============================================================================
