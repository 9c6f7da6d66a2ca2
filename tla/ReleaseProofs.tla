-------------------------- MODULE ReleaseProofs --------------------------
(***************************************************************************)
(* What is proved of a plugin's attempts, by themselves and in a release.  *)
(* First the tables: the invariant of the attempts and what follows from   *)
(* it, the refinement of AttemptRegister too.  Then a release as a whole:  *)
(* it takes the steps of the tables and no others, and what its commands   *)
(* leave in the repository agrees with the attempts they are at work on.   *)
(***************************************************************************)
EXTENDS Release, TLAPS

----------------------------------------------------------------------------
(* The tables by themselves: every step of TableNext, whoever takes it.    *)

\* An attempt made is of a candidate whose base is recorded.
MadeOnBase ==
  \A a \in Attempts :
    status[a] # "unmade" => candidate[a] \in Candidates /\ base[candidate[a]] # 0

\* An attempt that was released has a version, newer than its base; no other has.
ReleasedAsVersion ==
  \A a \in Attempts :
    /\ released[a] # 0 <=> status[a] \in {"released", "rolled_back"}
    /\ released[a] # 0 => released[a] \in registered
                          /\ released[a] > base[candidate[a]]

OneApplying ==
  \A a, b \in Attempts : status[a] = "applying" /\ status[b] = "applying" => a = b

Waiting(a) == status[a] \in {"unmade", "prepared"}

\* Nobody moved an attempt that waits.
WaitingUnmoved == \A a \in Attempts : Waiting(a) => mover[a] = None

\* What a release_record call in flight relies on.
RecordingSound ==
  \A a \in Attempts, v \in Versions :
    <<a, v>> \in recording =>
      /\ ~Waiting(a)
      /\ v \in registered
      /\ v > base[candidate[a]]
      /\ status[a] = "applying" => \A b \in Attempts \ {a} : released[b] # v

\* A live attempt against a finding some other release closed was built on that
\* release or on a later one: why taking a release back opens no finding of
\* another release that stands.
ClosedBefore ==
  declared = 0 =>
    \A f \in Findings : \A b \in Attempts :
      /\ finding[f].by \in Attempts
      /\ b # finding[f].by
      /\ Lives(b)
      /\ f \in Targets[candidate[b]]
      => base[candidate[b]] >= released[finding[f].by]

RowsInv ==
  /\ TypeOK
  /\ MadeOnBase
  /\ ReleasedAsVersion
  /\ OneApplying
  /\ WaitingUnmoved
  /\ RecordingSound
  /\ VersionsClaimedOnce

TableInv ==
  /\ RowsInv
  /\ OneReleasePerBase
  /\ FindingsFollowReleases
  /\ ClosedBefore
  /\ RollbackRestsOnVerdict

----------------------------------------------------------------------------
\* Nothing that a released attempt, or one being released, rests on moves.
Quiet ==
  /\ registered \subseteq registered'
  /\ recording' \subseteq recording
  /\ declared' = 0 <=> declared = 0
  /\ \A a \in Attempts : verdict[a] # "none" => verdict'[a] = verdict[a]
  /\ UNCHANGED <<base, candidate, status, mover, released, finding>>

\* The steps there are.
LEMMA Steps ==
  ASSUME TypeOK, [TableNext]_tableVars
  PROVE  \/ Quiet
         \/ \E c \in Candidates : Propose(c)
         \/ \E a \in Attempts, c \in Candidates : Prepare(a, c)
         \/ \E k \in Keys : ApplyStale(k)
         \/ \E k \in Keys, a \in Attempts : ApplyMoves(k, a)
         \/ \E a \in Attempts, v \in Versions : StartRecord(a, v) \/ CommitRecord(a, v)
         \/ \E a \in Attempts : RecordFailed(a) \/ RecordRolledBack(a)
         \/ \E f \in Findings : Decide(f)
<1>1. CASE UNCHANGED tableVars
  BY <1>1 DEF Quiet, tableVars, attemptVars, ledgerVars
<1>2. CASE \E v \in Versions : Arrives(v)
  <2>1. PICK v \in Versions : Arrives(v)
    BY <1>2
  <2>2. CASE Register(v)
    BY <2>2 DEF Quiet, Register, attemptVars, ledgerVars
  <2>3. CASE Deploy(v)
    BY <2>3 DEF Quiet, Deploy, attemptVars, ledgerVars, Versions
  <2> QED
    BY <2>1, <2>2, <2>3 DEF Arrives
<1>3. CASE \E k \in Keys, c \in Candidates, d \in Improvement : Ask(k, c, d)
  BY <1>3 DEF Quiet, Ask, attemptVars
<1>4. CASE \E k \in Keys : ApplyRefused(k) \/ ApplyEnds(k)
  BY <1>4 DEF Quiet, ApplyRefused, ApplyEnds, attemptVars, ledgerVars
<1>5. CASE \E a \in Attempts, v \in Versions : DropRecord(a, v)
  BY <1>5 DEF Quiet, DropRecord, attemptVars, ledgerVars
<1>6. CASE \E a \in Attempts, d \in Verdicts : StartVerify(a, d) \/ DropVerify(a, d)
  BY <1>6 DEF Quiet, StartVerify, DropVerify, attemptVars, ledgerVars
<1>7. CASE \E a \in Attempts, d \in Verdicts : CommitVerify(a, d)
  BY <1>7 DEF Quiet, CommitVerify, ledgerVars, TypeOK
<1> QED
  BY <1>1, <1>2, <1>3, <1>4, <1>5, <1>6, <1>7 DEF TableNext

----------------------------------------------------------------------------
(* Types.                                                                  *)

LEMMA InitHolds == TableInit => TableInv
<1> SUFFICES ASSUME TableInit PROVE TableInv
  OBVIOUS
<1> USE DEF TableInit
<1>1. TypeOK
  BY ReleaseAssumption DEF TypeOK, Versions, Statuses, Verdicts, Decision, Deferred
<1>2. RowsInv
  BY <1>1 DEF RowsInv, MadeOnBase, ReleasedAsVersion, OneApplying, WaitingUnmoved,
    Waiting, RecordingSound, VersionsClaimedOnce
<1>3. OneReleasePerBase /\ RollbackRestsOnVerdict
  BY DEF OneReleasePerBase, Lives, RollbackRestsOnVerdict, In
<1>4. FindingsFollowReleases /\ ClosedBefore
  BY DEF FindingsFollowReleases, ClosedBefore, Lives, Deferred, In, Attempts
<1> QED
  BY <1>2, <1>3, <1>4 DEF TableInv

LEMMA ClosedTyped ==
  ASSUME TypeOK, NEW a \in Attempts
  PROVE  Closes(a) \in [Findings -> Decision] /\ Reopens(a) \in [Findings -> Decision]
BY DEF TypeOK, Closes, Reopens, Decision, Deferred

LEMMA TypesStep ==
  ASSUME TypeOK, [TableNext]_tableVars
  PROVE  TypeOK'
<1> USE DEF TypeOK, attemptVars, ledgerVars
<1>1. CASE UNCHANGED tableVars
  BY <1>1 DEF tableVars
<1>2. ASSUME NEW v \in Versions, Arrives(v) PROVE TypeOK'
  BY <1>2 DEF Arrives, Register, Deploy
<1>3. ASSUME NEW c \in Candidates, Propose(c) PROVE TypeOK'
  BY <1>3 DEF Propose
<1>4. ASSUME NEW a \in Attempts, NEW c \in Candidates, Prepare(a, c) PROVE TypeOK'
  BY <1>4 DEF Prepare, Statuses
<1>5. ASSUME NEW k \in Keys, NEW c \in Candidates, NEW d \in Improvement, Ask(k, c, d)
      PROVE  TypeOK'
  BY <1>5 DEF Ask, ApplyCall
<1>6. ASSUME NEW k \in Keys, ApplyRefused(k) PROVE TypeOK'
  BY <1>6 DEF ApplyRefused, Decides, Settles
<1>7. ASSUME NEW k \in Keys, ApplyStale(k) PROVE TypeOK'
  BY <1>7 DEF ApplyStale, Decides, Settles, Statuses
<1>8. ASSUME NEW k \in Keys, ApplyEnds(k) PROVE TypeOK'
  BY <1>8 DEF ApplyEnds, Settles
<1>9. ASSUME NEW k \in Keys, NEW a \in Attempts, ApplyMoves(k, a) PROVE TypeOK'
  BY <1>9 DEF ApplyMoves, Decides, Settles, Statuses
<1>10. ASSUME NEW a \in Attempts, NEW v \in Versions,
              StartRecord(a, v) \/ DropRecord(a, v)
       PROVE  TypeOK'
  BY <1>10 DEF StartRecord, DropRecord
<1>11. ASSUME NEW a \in Attempts, NEW v \in Versions, CommitRecord(a, v) PROVE TypeOK'
  BY <1>11, ClosedTyped DEF CommitRecord, Statuses
<1>12. ASSUME NEW a \in Attempts, RecordFailed(a) PROVE TypeOK'
  BY <1>12 DEF RecordFailed, Statuses
<1>13. ASSUME NEW a \in Attempts, RecordRolledBack(a) PROVE TypeOK'
  BY <1>13, ClosedTyped DEF RecordRolledBack, Statuses
<1>14. ASSUME NEW a \in Attempts, NEW d \in Verdicts,
              StartVerify(a, d) \/ CommitVerify(a, d) \/ DropVerify(a, d)
       PROVE  TypeOK'
  BY <1>14 DEF StartVerify, CommitVerify, DropVerify
<1>15. ASSUME NEW f \in Findings, Decide(f) PROVE TypeOK'
  BY <1>15 DEF Decide, Decision
<1> QED
  BY <1>1, <1>2, <1>3, <1>4, <1>5, <1>6, <1>7, <1>8, <1>9, <1>10, <1>11, <1>12,
    <1>13, <1>14, <1>15 DEF TableNext

----------------------------------------------------------------------------
(* The rows.                                                               *)

LEMMA RowsStep ==
  ASSUME RowsInv, [TableNext]_tableVars
  PROVE  RowsInv'
<1>0. TypeOK /\ TypeOK'
  BY TypesStep DEF RowsInv
<1> DEFINE Rows == /\ MadeOnBase /\ ReleasedAsVersion /\ OneApplying /\ WaitingUnmoved
                   /\ RecordingSound /\ VersionsClaimedOnce
<1> SUFFICES Rows'
  BY <1>0 DEF RowsInv
<1> USE <1>0 DEF RowsInv, MadeOnBase, ReleasedAsVersion, OneApplying, WaitingUnmoved,
      Waiting, RecordingSound, VersionsClaimedOnce, attemptVars, ledgerVars
<1>1. CASE Quiet
  BY <1>1 DEF Quiet
<1>2. ASSUME NEW c \in Candidates, Propose(c) PROVE Rows'
  BY <1>2 DEF Propose, TypeOK
<1>3. ASSUME NEW a \in Attempts, NEW c \in Candidates, Prepare(a, c) PROVE Rows'
  BY <1>3 DEF Prepare, TypeOK, Made
<1>4. ASSUME NEW k \in Keys, ApplyStale(k) PROVE Rows'
  BY <1>4 DEF ApplyStale, TypeOK, Decides, Chosen, In
<1>5. ASSUME NEW k \in Keys, NEW a \in Attempts, ApplyMoves(k, a) PROVE Rows'
  BY <1>5 DEF ApplyMoves, TypeOK, Decides, Chosen, In
<1>6. ASSUME NEW a \in Attempts, NEW v \in Versions, StartRecord(a, v) PROVE Rows'
  BY <1>6 DEF StartRecord, TypeOK
<1>7. ASSUME NEW a \in Attempts, NEW v \in Versions, CommitRecord(a, v) PROVE Rows'
  BY <1>7 DEF CommitRecord, TypeOK, Versions
<1>8. ASSUME NEW a \in Attempts, RecordFailed(a) PROVE Rows'
  BY <1>8 DEF RecordFailed, TypeOK
<1>9. ASSUME NEW a \in Attempts, RecordRolledBack(a) PROVE Rows'
  BY <1>9 DEF RecordRolledBack, TypeOK
<1>10. ASSUME NEW f \in Findings, Decide(f) PROVE Rows'
  BY <1>10 DEF Decide
<1> QED
  BY <1>1, <1>2, <1>3, <1>4, <1>5, <1>6, <1>7, <1>8, <1>9, <1>10, Steps

----------------------------------------------------------------------------
(* Releases and findings.                                                  *)

\* Outside the catalog, no version a release stands for is newer than the current
\* one: it is registered, and retracted by nobody since it is nobody else's.
LEMMA StandingIsOlder ==
  ASSUME RowsInv, declared = 0, NEW v \in Versions, NEW st, IsCurrent(v, st),
         NEW b \in Attempts, released[b] # 0, st[b] # "rolled_back"
  PROVE  released[b] <= v
<1>1. released[b] \in registered
  BY DEF RowsInv, ReleasedAsVersion
<1>2. released[b] \notin Retracted(st)
  BY DEF RowsInv, VersionsClaimedOnce, Retracted
<1> QED
  BY <1>1, <1>2 DEF IsCurrent

LEMMA RollbacksStep ==
  ASSUME TableInv, [TableNext]_tableVars
  PROVE  RollbackRestsOnVerdict'
<1>0. TypeOK /\ RowsInv'
  BY RowsStep DEF TableInv, RowsInv
<1>1. \A a \in Attempts : status'[a] = "rolled_back" => released'[a] # 0
  BY <1>0 DEF RowsInv, ReleasedAsVersion
<1>2. SUFFICES ASSUME NEW a \in Attempts, status'[a] = "rolled_back"
               PROVE  verdict'[a] = "rolled_back"
  BY <1>1 DEF RollbackRestsOnVerdict, In
<1>3. status[a] = "rolled_back" => verdict[a] = "rolled_back"
  BY DEF TableInv, RollbackRestsOnVerdict, In
<1> USE <1>0, <1>2, <1>3 DEF TypeOK, attemptVars
<1>4. CASE Quiet
  BY <1>4 DEF Quiet
<1>5. CASE \E c \in Candidates : Propose(c)
  BY <1>5 DEF Propose
<1>6. CASE \E b \in Attempts, c \in Candidates : Prepare(b, c)
  BY <1>6 DEF Prepare
<1>7. CASE \E k \in Keys : ApplyStale(k)
  BY <1>7 DEF ApplyStale
<1>8. CASE \E k \in Keys, b \in Attempts : ApplyMoves(k, b)
  BY <1>8 DEF ApplyMoves
<1>9. CASE \E b \in Attempts, v \in Versions : StartRecord(b, v) \/ CommitRecord(b, v)
  BY <1>9 DEF StartRecord, CommitRecord
<1>10. CASE \E b \in Attempts : RecordFailed(b) \/ RecordRolledBack(b)
  BY <1>10 DEF RecordFailed, RecordRolledBack
<1>11. CASE \E f \in Findings : Decide(f)
  BY <1>11 DEF Decide
<1> QED
  BY <1>4, <1>5, <1>6, <1>7, <1>8, <1>9, <1>10, <1>11, Steps

\* What moves an attempt finds the one on its base taken back, or stale itself.
LEMMA BasesStep ==
  ASSUME TableInv, [TableNext]_tableVars
  PROVE  OneReleasePerBase'
<1>0. TypeOK /\ RowsInv
  BY DEF TableInv, RowsInv
<1> USE <1>0 DEF TableInv, OneReleasePerBase, Lives, TypeOK, attemptVars
<1>1. CASE Quiet
  BY <1>1 DEF Quiet
<1>2. CASE \E c \in Candidates : Propose(c)
  BY <1>2 DEF Propose, RowsInv, MadeOnBase
<1>3. CASE \E a \in Attempts, c \in Candidates : Prepare(a, c)
  BY <1>3 DEF Prepare, Made
<1>4. CASE \E k \in Keys : ApplyStale(k)
  BY <1>4 DEF ApplyStale
<1>5. ASSUME NEW k \in Keys, NEW a \in Attempts, ApplyMoves(k, a)
      PROVE  OneReleasePerBase'
  <2>1. SUFFICES ASSUME declared = 0, NEW b \in Attempts, b # a, Lives(b),
                        base[candidate[b]] = base[candidate[a]]
                 PROVE  FALSE
    BY <1>5 DEF ApplyMoves
  <2>2. status[b] = "released"
    BY <1>5, <2>1 DEF ApplyMoves, Decides, In
  <2>3. released[b] # 0 /\ released[b] > base[candidate[b]] /\ released[b] \in Versions
    BY <2>2 DEF RowsInv, ReleasedAsVersion
  <2>4. base[candidate[a]] \in Versions
    BY <1>5, <2>3, <2>1 DEF ApplyMoves, IsCurrent
  <2>5. released[b] <= base[candidate[a]]
    BY <1>5, <2>1, <2>2, <2>3, <2>4, StandingIsOlder DEF ApplyMoves
  <2> QED
    BY <2>1, <2>3, <2>4, <2>5 DEF Versions
<1>6. CASE \E a \in Attempts, v \in Versions : StartRecord(a, v) \/ CommitRecord(a, v)
  BY <1>6 DEF StartRecord, CommitRecord
<1>7. CASE \E a \in Attempts : RecordFailed(a) \/ RecordRolledBack(a)
  BY <1>7 DEF RecordFailed, RecordRolledBack
<1>8. CASE \E f \in Findings : Decide(f)
  BY <1>8 DEF Decide
<1> QED
  BY <1>1, <1>2, <1>3, <1>4, <1>5, <1>6, <1>7, <1>8, Steps

LEMMA FindingsStep ==
  ASSUME TableInv, [TableNext]_tableVars
  PROVE  FindingsFollowReleases' /\ ClosedBefore'
<1> DEFINE Found == FindingsFollowReleases /\ ClosedBefore
<1> SUFFICES Found'
  OBVIOUS
<1>0. TypeOK /\ RowsInv /\ Found /\ Targets \in [Candidates -> SUBSET Findings]
  BY ReleaseAssumption DEF TableInv, RowsInv
<1> USE <1>0 DEF FindingsFollowReleases, ClosedBefore, Lives, In, TypeOK, attemptVars
<1>1. CASE Quiet
  BY <1>1 DEF Quiet
<1>2. CASE \E c \in Candidates : Propose(c)
  BY <1>2 DEF Propose, RowsInv, MadeOnBase, Decision
<1>3. CASE \E a \in Attempts, c \in Candidates : Prepare(a, c)
  BY <1>3 DEF Prepare, Made, Decision
<1>4. CASE \E k \in Keys : ApplyStale(k)
  <2>1. PICK k \in Keys, a \in Attempts :
          /\ status[a] = "prepared"
          /\ status' = [status EXCEPT ![a] = "refused"]
          /\ UNCHANGED <<declared, base, candidate, released, finding>>
    BY <1>4 DEF ApplyStale, Decides, Chosen
  <2> QED
    BY <2>1 DEF Decision
<1>5. ASSUME NEW k \in Keys, NEW a \in Attempts, ApplyMoves(k, a) PROVE Found'
  <2>1. status[a] = "prepared" /\ UNCHANGED <<declared, base, candidate, released, finding>>
    BY <1>5 DEF ApplyMoves, Decides, Chosen
  <2>2. FindingsFollowReleases'
    BY <1>5, <2>1 DEF ApplyMoves, Decision
  <2>3. ASSUME declared = 0, NEW f \in Findings, finding[f].by \in Attempts
        PROVE  base[candidate[a]] >= released[finding[f].by]
    <3>1. status[finding[f].by] = "released"
      BY <2>3 DEF Attempts
    <3>2. base[candidate[a]] \in Versions /\ IsCurrent(base[candidate[a]], status)
      BY <1>5, <2>3 DEF ApplyMoves, IsCurrent
    <3>3. released[finding[f].by] \in Versions
      BY <2>3, <3>1 DEF RowsInv, ReleasedAsVersion
    <3> QED
      BY <2>3, <3>1, <3>2, <3>3, StandingIsOlder DEF Versions
  <2>4. ClosedBefore'
    BY <1>5, <2>1, <2>3 DEF ApplyMoves
  <2> QED
    BY <2>2, <2>4
<1>6. ASSUME NEW a \in Attempts, NEW v \in Versions, StartRecord(a, v) PROVE Found'
  BY <1>6 DEF StartRecord
<1>7. ASSUME NEW a \in Attempts, NEW v \in Versions, CommitRecord(a, v) PROVE Found'
  <2>1. /\ status[a] = "applying"
        /\ status' = [status EXCEPT ![a] = "released"]
        /\ released' = [released EXCEPT ![a] = v]
        /\ finding' = Closes(a)
        /\ UNCHANGED <<declared, base, candidate>>
    BY <1>7 DEF CommitRecord
  <2>2. candidate[a] \in Candidates /\ Targets[candidate[a]] \subseteq Findings /\ a # 0
    BY <2>1 DEF RowsInv, MadeOnBase, Attempts
  <2>3. \A f \in Findings :
          \/ finding'[f] = finding[f] /\ finding[f].by # a
          \/ /\ f \in Targets[candidate[a]] /\ finding[f].is = "deferred"
             /\ finding'[f] = [is |-> "applied", by |-> a]
    BY <2>1, <2>2 DEF Closes
  <2>4. \A f \in Targets[candidate[a]] : finding'[f].is # "deferred"
    BY <2>1, <2>2, <2>3 DEF Closes
  <2>5. FindingsFollowReleases'
    <3>1. ASSUME NEW f \in Findings, finding'[f].by # 0
          PROVE  /\ status'[finding'[f].by] = "released"
                 /\ f \in Targets[candidate[finding'[f].by]]
      BY <2>1, <2>2, <2>3, <3>1 DEF Decision
    <3>2. ASSUME declared = 0, NEW b \in Attempts, status'[b] = "released",
                 NEW f \in Targets[candidate[b]]
          PROVE  finding'[f].is # "deferred"
      <4>1. CASE b = a
        BY <2>4, <4>1
      <4>2. CASE b # a
        <5>1. status[b] = "released" /\ candidate[b] \in Candidates
          BY <2>1, <3>2, <4>2 DEF RowsInv, MadeOnBase
        <5>2. f \in Findings /\ finding[f].is # "deferred"
          BY <3>2, <5>1
        <5> QED
          BY <2>3, <5>2
      <4> QED
        BY <4>1, <4>2
    <3> QED
      BY <2>1, <3>1, <3>2
  <2>6. ASSUME declared = 0, NEW f \in Findings, NEW b \in Attempts,
               finding'[f].by \in Attempts, b # finding'[f].by, Lives(b)',
               f \in Targets[candidate[b]]
        PROVE  base[candidate[b]] >= released'[finding'[f].by]
    <3>1. CASE finding'[f] = finding[f] /\ finding[f].by # a
      BY <2>1, <2>6, <3>1
    <3>2. CASE finding'[f].by = a /\ finding[f].is = "deferred"
      BY <2>1, <2>6, <3>2 DEF RowsInv, OneApplying
    <3> QED
      BY <2>3, <3>1, <3>2
  <2> QED
    BY <2>1, <2>5, <2>6
<1>8. ASSUME NEW a \in Attempts, RecordFailed(a) PROVE Found'
  BY <1>8 DEF RecordFailed, Decision
<1>9. ASSUME NEW a \in Attempts, RecordRolledBack(a) PROVE Found'
  <2>1. /\ status[a] = "released"
        /\ status' = [status EXCEPT ![a] = "rolled_back"]
        /\ IsCurrent(base[candidate[a]], status')
        /\ finding' = Reopens(a)
        /\ UNCHANGED <<declared, base, candidate, released>>
    BY <1>9 DEF RecordRolledBack
  <2>2. released[a] \in Versions /\ released[a] > base[candidate[a]] /\ a # 0
    BY <2>1 DEF RowsInv, ReleasedAsVersion, Attempts
  <2>3. \A f \in Findings :
          \/ finding'[f] = finding[f] /\ finding[f].by # a
          \/ finding'[f] = Deferred /\ finding[f].by = a
    BY <2>1, <2>2 DEF Reopens, Decision
  <2>4. \A f \in Findings : finding'[f].by # 0 =>
          finding'[f] = finding[f] /\ finding[f].by # a
    BY <2>3 DEF Deferred
  <2>5. ASSUME declared = 0, NEW b \in Attempts, status'[b] = "released",
               NEW f \in Targets[candidate[b]], finding'[f].is = "deferred"
        PROVE  FALSE
    <3>1. status[b] = "released" /\ b # a
      BY <2>1, <2>5
    <3>2. candidate[b] \in Candidates /\ f \in Findings
      BY <3>1 DEF RowsInv, MadeOnBase
    <3>3. finding[f].by = a
      BY <2>3, <2>5, <3>1, <3>2
    <3>4. base[candidate[b]] >= released[a]
      BY <2>5, <3>1, <3>2, <3>3
    <3>5. /\ released[b] \in Versions
          /\ released[b] > base[candidate[b]]
          /\ base[candidate[b]] \in {0} \cup Versions
      BY <3>1, <3>2 DEF RowsInv, ReleasedAsVersion
    <3>6. base[candidate[a]] \in Versions
      BY <2>1, <2>5 DEF IsCurrent
    <3>7. released[b] \notin Retracted(status')
      BY <2>5, <3>1, <3>5 DEF RowsInv, VersionsClaimedOnce, Retracted, Versions
    <3>8. released[b] <= base[candidate[a]]
      BY <2>1, <2>5, <3>1, <3>5, <3>7 DEF IsCurrent, RowsInv, ReleasedAsVersion
    <3> QED
      BY <2>2, <3>4, <3>5, <3>6, <3>8 DEF Versions
  <2>6. FindingsFollowReleases'
    BY <2>1, <2>4, <2>5
  <2>7. ClosedBefore'
    BY <2>1, <2>4 DEF Attempts
  <2> QED
    BY <2>6, <2>7
<1>10. ASSUME NEW f \in Findings, Decide(f) PROVE Found'
  BY <1>10 DEF Decide, Attempts
<1> QED
  BY <1>1, <1>2, <1>3, <1>4, <1>5, <1>6, <1>7, <1>8, <1>9, <1>10, Steps

----------------------------------------------------------------------------
(* The theorems.                                                           *)

LEMMA TableStep ==
  ASSUME TableInv, [TableNext]_tableVars
  PROVE  TableInv'
BY RowsStep, BasesStep, FindingsStep, RollbacksStep DEF TableInv

\* The invariant of the tables, whatever calls are made and in whatever order.
THEOREM TableInvariant == TableSpec => []TableInv
<1>1. TableInit => TableInv
  BY InitHolds
<1>2. TableInv /\ [TableNext]_tableVars => TableInv'
  BY TableStep
<1> QED
  BY <1>1, <1>2, PTL DEF TableSpec

\* Every column keeps its type; a decision made by hand never carries a release's
\* signature, nor a deferred one.
THEOREM TableTypeCorrect == TableSpec => []TypeOK
<1>1. TableInv => TypeOK
  BY DEF TableInv, RowsInv
<1> QED
  BY <1>1, TableInvariant, PTL

\* release-record.ts, already_recorded: reading without a lock suffices.
THEOREM ClaimedOnce == TableSpec => []VersionsClaimedOnce
<1>1. TableInv => VersionsClaimedOnce
  BY DEF TableInv, RowsInv
<1> QED
  BY <1>1, TableInvariant, PTL

\* release-apply.ts: outside the catalog, one release at most stands on a base.
THEOREM OneStandsPerBase == TableSpec => []OneReleasePerBase
<1>1. TableInv => OneReleasePerBase
  BY DEF TableInv
<1> QED
  BY <1>1, TableInvariant, PTL

\* release-record.ts: findings are closed and opened with the releases they are of.
THEOREM FindingsFollow == TableSpec => []FindingsFollowReleases
<1>1. TableInv => FindingsFollowReleases
  BY DEF TableInv
<1> QED
  BY <1>1, TableInvariant, PTL

\* release-verify.ts: a rollback rests on a verdict that stands.
THEOREM RollbacksRest == TableSpec => []RollbackRestsOnVerdict
<1>1. TableInv => RollbackRestsOnVerdict
  BY DEF TableInv
<1> QED
  BY <1>1, TableInvariant, PTL

----------------------------------------------------------------------------
(* The refinement of AttemptRegister.                                      *)

LEMMA LifecycleStep ==
  ASSUME TableInv, [TableNext]_tableVars
  PROVE  [Lifecycle!Next]_(Lifecycle!vars)
<1>0. TypeOK /\ RowsInv /\ FindingsFollowReleases
  BY DEF TableInv, RowsInv
<1> USE <1>0 DEF TypeOK, attemptVars, ledgerVars
<1> DEFINE closer == [f \in Findings |-> finding[f].by]
<1>1. CASE Quiet
  BY <1>1 DEF Quiet, Lifecycle!vars
<1>2. CASE \E c \in Candidates : Propose(c)
  BY <1>2 DEF Propose, Lifecycle!vars
<1>3. ASSUME NEW a \in Attempts, NEW c \in Candidates, Prepare(a, c)
      PROVE  Lifecycle!Prepare(a)
  BY <1>3 DEF Prepare, Made, Lifecycle!Prepare, Lifecycle!Goes
<1>4. ASSUME NEW k \in Keys, ApplyStale(k)
      PROVE  \E a \in Attempts : Lifecycle!Refuse(a)
  <2>1. PICK a \in Attempts :
          /\ Decides(k, a)
          /\ status' = [status EXCEPT ![a] = "refused"]
    BY <1>4 DEF ApplyStale
  <2>2. status[a] = "prepared"
    BY <2>1 DEF Decides, Chosen, In
  <2> QED
    BY <1>4, <2>1, <2>2 DEF ApplyStale, Lifecycle!Refuse, Lifecycle!Goes
<1>5. ASSUME NEW k \in Keys, NEW a \in Attempts, ApplyMoves(k, a)
      PROVE  Lifecycle!Begin(a)
  BY <1>5 DEF ApplyMoves, Decides, Chosen, In, Lifecycle!Begin, Lifecycle!Goes
<1>6. ASSUME NEW a \in Attempts, NEW v \in Versions, StartRecord(a, v)
      PROVE  UNCHANGED Lifecycle!vars
  BY <1>6 DEF StartRecord, Lifecycle!vars
<1>7. ASSUME NEW a \in Attempts, NEW v \in Versions, CommitRecord(a, v)
      PROVE  Lifecycle!Land(a, v)
  <2>1. \A b \in Attempts : released[b] # v
    BY <1>7 DEF CommitRecord, RowsInv, RecordingSound, ReleasedAsVersion, Versions
  <2>2. Lifecycle!Goes(a, "applying", "released")
    BY <1>7 DEF CommitRecord, Lifecycle!Goes
  <2> DEFINE fs == {f \in Findings :
                      f \in Targets[candidate[a]] /\ finding[f].is = "deferred"}
  <2>3. fs \in SUBSET {f \in Findings : closer[f] = 0}
    BY DEF Decision
  <2>4. closer' = [f \in Findings |-> IF f \in fs THEN a ELSE closer[f]]
    BY <1>7 DEF CommitRecord, Closes
  <2> QED
    BY <1>7, <2>1, <2>2, <2>3, <2>4 DEF CommitRecord, Lifecycle!Land
<1>8. ASSUME NEW a \in Attempts, RecordFailed(a) PROVE Lifecycle!Fail(a)
  BY <1>8 DEF RecordFailed, Lifecycle!Fail, Lifecycle!Goes
<1>9. ASSUME NEW a \in Attempts, RecordRolledBack(a) PROVE Lifecycle!TakeBack(a)
  <2>1. Lifecycle!Goes(a, "released", "rolled_back") /\ UNCHANGED released
    BY <1>9 DEF RecordRolledBack, Lifecycle!Goes
  <2>2. a # 0
    BY DEF Attempts
  <2>3. \A f \in Findings : finding[f].by = a =>
          f \in Targets[candidate[a]] /\ finding[f] = [is |-> "applied", by |-> a]
    BY <2>2 DEF FindingsFollowReleases, Decision
  <2>4. closer' = [f \in Findings |-> IF closer[f] = a THEN 0 ELSE closer[f]]
    BY <1>9, <2>3 DEF RecordRolledBack, Reopens, Deferred
  <2> QED
    BY <2>1, <2>4 DEF Lifecycle!TakeBack
<1>10. ASSUME NEW f \in Findings, Decide(f) PROVE UNCHANGED Lifecycle!vars
  <2>1. closer' = closer
    BY <1>10 DEF Decide, Decision
  <2> QED
    BY <1>10, <2>1 DEF Decide, Lifecycle!vars
<1> QED
  BY <1>1, <1>2, <1>3, <1>4, <1>5, <1>6, <1>7, <1>8, <1>9, <1>10, Steps
    DEF Lifecycle!Next

\* The tables implement the register of attempts: what is read before it is
\* written amounts to deciding and writing at once.
THEOREM TableImplementsRegister == TableSpec => ImplementsLifecycle
<1>1. TableInit => Lifecycle!Init
  BY DEF TableInit, Lifecycle!Init, Deferred
<1>2. TableInv /\ [TableNext]_tableVars => [Lifecycle!Next]_(Lifecycle!vars)
  BY LifecycleStep
<1> QED
  BY <1>1, <1>2, TableInvariant, PTL DEF TableSpec, ImplementsLifecycle, Lifecycle!Spec

----------------------------------------------------------------------------
(* The release as a whole.                                                 *)

\* Documents and commands keep their types; a command that ran has a candidate.
RunsTyped ==
  /\ doc \in [Initiatives -> Improvement]
  /\ cli \in [Keys -> Command]
  /\ \A k \in Keys : cli[k].at # "unrun" => cli[k].candidate \in Candidates

\* A call asks for its command's candidate; the call that moved an attempt was
\* answered with it, for that candidate and with a version to release; a command
\* at work is such a call.
CommandsAgree ==
  /\ \A k \in Keys : call[k] # None => ~At(k, "unrun") /\ call[k].candidate = Of(k)
  /\ \A a \in Attempts : mover[a] # None =>
       /\ ledger[mover[a]] = a
       /\ Of(mover[a]) = candidate[a]
       /\ cli[mover[a]].version \in Versions
  /\ \A k \in Keys : Working(k) =>
       AttemptOf(k) \in Attempts /\ mover[AttemptOf(k)] = k

RunsInv == RowsInv /\ RunsTyped /\ CommandsAgree

Reconcile(k) ==
  ReconcileReleased(k) \/ ReconcileAccepted(k) \/ ReconcileNothing(k) \/ ReconcileFailed(k)

\* The steps that leave every command as it is.
Beside ==
  \/ Elsewhere
  \/ \E a \in Attempts : WriteDoc(a)
  \/ \E i \in Initiatives : Amend(i) \/ Approve(i)
  \/ \E k \in Keys : Push(k) \/ Reconcile(k)
  \/ \E c \in Candidates : DropBranch(c)
  \/ \E v \in Versions : OutsideRelease(v)
  \/ UNCHANGED vars

LEMMA BesideKeepsRuns == Beside => UNCHANGED cli
BY DEF Beside, Elsewhere, WriteDoc, Amend, Approve, Push, Reconcile, ReconcileReleased,
  ReconcileAccepted, ReconcileNothing, ReconcileFailed, TakesForFailed, DropBranch,
  OutsideRelease, cliVars, vars

LEMMA NextSteps ==
  ASSUME [Next]_vars
  PROVE  \/ Beside
         \/ \E k \in Keys, c \in Candidates : Run(k, c)
         \/ \E k \in Keys :
              \/ RunAgain(k) \/ Answered(k) \/ MakeBranch(k) \/ CommitPatch(k)
              \/ Succeed(k) \/ Confirm(k) \/ Fail(k) \/ TellFailed(k) \/ Exit(k)
BY DEF Next, Beside, Reconcile

\* A command that goes on, or exits, keeps the types.
LEMMA GoesTyped ==
  ASSUME RunsTyped, NEW k \in Keys, NEW r \in Command,
         r.at # "unrun" => r.candidate \in Candidates,
         cli' = [cli EXCEPT ![k] = r], doc' = doc
  PROVE  RunsTyped'
BY DEF RunsTyped

LEMMA ExitsTyped ==
  ASSUME RunsTyped, NEW k \in Keys, ~At(k, "unrun"), Exits(k), doc' = doc
  PROVE  RunsTyped'
<1> DEFINE r == [cli[k] EXCEPT !.at = "exited", !.made = "nothing"]
<1>1. cli[k] \in Command /\ cli[k].candidate \in Candidates
  BY DEF RunsTyped, At
<1>2. r \in Command /\ r.candidate \in Candidates
  BY <1>1 DEF Command
<1>3. cli' = [cli EXCEPT ![k] = r]
  BY DEF Exits
<1> HIDE DEF r
<1> QED
  BY <1>2, <1>3, GoesTyped

LEMMA RunsTypedStep ==
  ASSUME RunsInv, [Next]_vars
  PROVE  RunsTyped'
<1>0. RunsTyped /\ CommandsAgree
  BY DEF RunsInv
<1> USE <1>0 DEF RunsTyped, Command
<1>1. CASE Beside
  <2>1. UNCHANGED cli
    BY <1>1, BesideKeepsRuns
  <2>2. doc' \in [Initiatives -> Improvement]
    <3>1. \A a \in {0} \cup Attempts : [cites |-> a, approved |-> FALSE] \in Improvement
      BY DEF Improvement
    <3>2. ASSUME NEW a \in Attempts, WriteDoc(a) PROVE doc' \in [Initiatives -> Improvement]
      <4>1. doc' = [doc EXCEPT ![InitiativeOf[candidate[a]]] =
                                 [cites |-> a, approved |-> FALSE]]
        BY <3>2 DEF WriteDoc
      <4> QED
        BY <3>1, <4>1
    <3>3. CASE \E i \in Initiatives : Amend(i)
      BY <3>1, <3>3 DEF Amend
    <3>4. ASSUME NEW i \in Initiatives, Approve(i) PROVE doc' \in [Initiatives -> Improvement]
      <4>1. [doc[i] EXCEPT !.approved = TRUE] \in Improvement
        BY DEF Improvement
      <4>2. doc' = [doc EXCEPT ![i] = [doc[i] EXCEPT !.approved = TRUE]]
        BY <3>4 DEF Approve
      <4> QED
        BY <4>1, <4>2
    <3> QED
      BY <1>1, <3>2, <3>3, <3>4 DEF Beside, Elsewhere, Push, Reconcile, ReconcileReleased,
        ReconcileAccepted, ReconcileNothing, ReconcileFailed, TakesForFailed, DropBranch,
        OutsideRelease, docVars, vars
  <2> QED
    BY <2>1, <2>2
<1>2. ASSUME NEW k \in Keys, NEW c \in Candidates, Run(k, c) PROVE RunsTyped'
  <2> DEFINE r == [cli[k] EXCEPT !.at = "asking", !.candidate = c]
  <2>1. cli' = [cli EXCEPT ![k] = r] /\ doc' = doc
    BY <1>2 DEF Run, docVars
  <2>2. r \in Command /\ r.candidate \in Candidates
    OBVIOUS
  <2> HIDE DEF r
  <2> QED
    BY <2>1, <2>2, GoesTyped
<1>3. ASSUME NEW k \in Keys, RunAgain(k) \/ Fail(k) \/ Exit(k) PROVE RunsTyped'
  <2>1. CASE RunAgain(k)
    BY <2>1 DEF RunAgain, Goes, Exits, At, Working, Applies, docVars
  <2>2. CASE Fail(k)
    BY <2>2 DEF Fail, Goes, Exits, At, Working, Applies, docVars
  <2>3. CASE Exit(k)
    BY <2>3, ExitsTyped DEF Exit, At, Working, Applies, docVars
  <2> QED
    BY <1>3, <2>1, <2>2, <2>3
<1>4. ASSUME NEW k \in Keys, Answered(k) PROVE RunsTyped'
  <2>0. ~At(k, "unrun") /\ doc' = doc
    BY <1>4 DEF Answered, ApplyRefused, ApplyStale, ApplyMoves, ApplyEnds, Decides, Asked,
      CommandsAgree, docVars
  <2>1. CASE Exits(k)
    BY <2>0, <2>1, ExitsTyped
  <2>2. ASSUME NEW v \in Versions,
               cli' = [cli EXCEPT ![k].version = v,
                                  ![k].at = IF @ = "asking" THEN "holding" ELSE @]
        PROVE  RunsTyped'
    <3>1. CASE At(k, "asking")
      <4>1. cli' = [cli EXCEPT ![k] = [cli[k] EXCEPT !.version = v, !.at = "holding"]]
        BY <2>2, <3>1 DEF At
      <4> QED
        BY <2>0, <4>1 DEF At
    <3>2. CASE ~At(k, "asking")
      <4>1. cli' = [cli EXCEPT ![k] = [cli[k] EXCEPT !.version = v]]
        BY <2>2, <3>2 DEF At
      <4> QED
        BY <2>0, <4>1 DEF At
    <3> QED
      BY <3>1, <3>2
  <2> QED
    BY <1>4, <2>1, <2>2 DEF Answered
<1>5. ASSUME NEW k \in Keys, MakeBranch(k) \/ CommitPatch(k) PROVE RunsTyped'
  BY <1>5 DEF MakeBranch, CommitPatch, Makes, At, docVars
<1>6. ASSUME NEW k \in Keys, Succeed(k) \/ Confirm(k) \/ TellFailed(k) PROVE RunsTyped'
  BY <1>6 DEF Succeed, Confirm, TellFailed, Goes, Exits, At, docVars
<1> QED
  BY <1>1, <1>2, <1>3, <1>4, <1>5, <1>6, NextSteps

\* Every step of the system is a step of the tables, or leaves them alone.
LEMMA TablesStep ==
  ASSUME RunsInv, [Next]_vars
  PROVE  [TableNext]_tableVars
<1>0. RunsTyped /\ CommandsAgree /\ registered \subseteq Versions
  BY DEF RunsInv, RowsInv, TypeOK
<1>1. CASE UNCHANGED vars \/ Elsewhere
  BY <1>1 DEF Elsewhere, TableNext, vars
<1>2. ASSUME NEW k \in Keys, NEW c \in Candidates, Run(k, c)
      PROVE  [TableNext]_tableVars
  <2>1. doc[InitiativeOf[c]] \in Improvement
    BY <1>0, InitiativeAssumption DEF RunsTyped, Initiatives
  <2> QED
    BY <1>2, <2>1 DEF Run, TableNext
<1>3. ASSUME NEW k \in Keys, RunAgain(k) PROVE [TableNext]_tableVars
  <2>1. Of(k) \in Candidates /\ doc[InitiativeOf[Of(k)]] \in Improvement
    BY <1>0, <1>3, InitiativeAssumption DEF RunsTyped, Initiatives, RunAgain, At, Of
  <2> QED
    BY <1>3, <2>1 DEF RunAgain, TableNext
<1>4. ASSUME NEW k \in Keys, Answered(k) PROVE [TableNext]_tableVars
  BY <1>4 DEF Answered, TableNext
<1>5. ASSUME NEW k \in Keys, Confirm(k) \/ TellFailed(k) PROVE [TableNext]_tableVars
  <2>1. AttemptOf(k) \in Attempts
    BY <1>0, <1>5 DEF CommandsAgree, Confirm, TellFailed, At, Working, Applies
  <2> QED
    BY <1>0, <1>5, <2>1 DEF Confirm, TellFailed, StartRecord, TableNext
<1>6. ASSUME NEW k \in Keys, Reconcile(k) PROVE [TableNext]_tableVars
  <2>1. AttemptOf(k) \in Attempts
    BY <1>6 DEF Reconcile, ReconcileReleased, ReconcileAccepted, ReconcileNothing,
      ReconcileFailed, Reconciles, Handed, AttemptOf, RunsInv, RowsInv, TypeOK
  <2> QED
    BY <1>0, <1>6, <2>1 DEF Reconcile, ReconcileReleased, ReconcileAccepted,
      ReconcileNothing, ReconcileFailed, TakesForFailed, StartRecord, TableNext
<1>7. ASSUME UNCHANGED tableVars PROVE [TableNext]_tableVars
  BY <1>7
<1>8. CASE \/ \E a \in Attempts : WriteDoc(a)
           \/ \E i \in Initiatives : Amend(i) \/ Approve(i)
           \/ \E c \in Candidates : DropBranch(c)
           \/ \E v \in Versions : OutsideRelease(v)
  BY <1>8 DEF WriteDoc, Amend, Approve, DropBranch, OutsideRelease
<1>9. CASE \E k \in Keys : \/ MakeBranch(k) \/ CommitPatch(k) \/ Push(k) \/ Succeed(k)
                          \/ Fail(k) \/ Exit(k)
  BY <1>9 DEF MakeBranch, CommitPatch, Push, Succeed, Fail, Exit
<1> QED
  BY <1>1, <1>2, <1>3, <1>4, <1>5, <1>6, <1>8, <1>9 DEF Next, Reconcile

----------------------------------------------------------------------------
(* What a step of the tables keeps.                                        *)

\* Of the attempts that were moved, those released, and the ledger.
Kept ==
  /\ \A a \in Attempts : mover[a] # None =>
       mover'[a] = mover[a] /\ candidate'[a] = candidate[a]
  /\ \A k \in Keys : ledger[k] # 0 => ledger'[k] = ledger[k]
  /\ \A a \in Attempts :
       status'[a] = "applying" =>
         \/ status[a] = "applying"
         \/ status[a] = "prepared" /\ mover[a] = None /\ mover'[a] \in Keys
  /\ \A a \in Attempts : status'[a] = "released" =>
       \/ status[a] = "released" /\ released'[a] = released[a]
       \/ status[a] = "applying" /\ <<a, released'[a]>> \in recording
  /\ registered \subseteq registered'

LEMMA TablesKeep ==
  ASSUME RowsInv, [TableNext]_tableVars
  PROVE  Kept
<1> USE DEF Kept, RowsInv, TypeOK, MadeOnBase, WaitingUnmoved, Waiting, attemptVars, ledgerVars
<1>1. CASE UNCHANGED tableVars
  BY <1>1 DEF tableVars
<1>2. CASE \E v \in Versions : Arrives(v)
  BY <1>2 DEF Arrives, Register, Deploy
<1>3. CASE \E c \in Candidates : Propose(c)
  BY <1>3 DEF Propose
<1>4. CASE \E a \in Attempts, c \in Candidates : Prepare(a, c)
  BY <1>4 DEF Prepare, Made
<1>5. CASE \E k \in Keys, c \in Candidates, d \in Improvement : Ask(k, c, d)
  BY <1>5 DEF Ask
<1>6. CASE \E k \in Keys : ApplyRefused(k) \/ ApplyStale(k) \/ ApplyEnds(k)
  BY <1>6 DEF ApplyRefused, ApplyStale, ApplyEnds, Decides, Settles, Chosen, In
<1>7. CASE \E k \in Keys, a \in Attempts : ApplyMoves(k, a)
  BY <1>7 DEF ApplyMoves, Decides, Chosen, In
<1>8. ASSUME NEW a \in Attempts, NEW v \in Versions,
             StartRecord(a, v) \/ CommitRecord(a, v) \/ DropRecord(a, v)
      PROVE  Kept
  BY <1>8 DEF StartRecord, CommitRecord, DropRecord
<1>9. CASE \E a \in Attempts : RecordFailed(a) \/ RecordRolledBack(a)
  BY <1>9 DEF RecordFailed, RecordRolledBack
<1>10. CASE \E a \in Attempts, d \in Verdicts :
              StartVerify(a, d) \/ CommitVerify(a, d) \/ DropVerify(a, d)
  BY <1>10 DEF StartVerify, CommitVerify, DropVerify
<1>11. CASE \E f \in Findings : Decide(f)
  BY <1>11 DEF Decide
<1> QED
  BY <1>1, <1>2, <1>3, <1>4, <1>5, <1>6, <1>7, <1>8, <1>9, <1>10, <1>11 DEF TableNext

----------------------------------------------------------------------------
(* The commands agree with the ledger.                                     *)

\* The tools that are no release_apply move no attempt and answer no key.
LEMMA ElsewhereKeepsCalls == Elsewhere => UNCHANGED <<call, ledger, mover>>
BY DEF Elsewhere, Arrives, Register, Deploy, Propose, Prepare, CommitRecord, DropRecord,
  RecordRolledBack, StartVerify, CommitVerify, DropVerify, Decide, attemptVars, ledgerVars

LEMMA BesideKeepsCalls == Beside => UNCHANGED <<call, ledger, mover>>
BY ElsewhereKeepsCalls DEF Beside, WriteDoc, Amend, Approve, Push, Reconcile,
  ReconcileReleased, ReconcileAccepted, ReconcileNothing, ReconcileFailed, TakesForFailed,
  DropBranch, OutsideRelease, StartRecord, RecordFailed, vars, tableVars, attemptVars,
  ledgerVars

LEMMA CommandsStep ==
  ASSUME RunsInv, [Next]_vars
  PROVE  CommandsAgree'
<1>0. /\ CommandsAgree /\ RunsTyped /\ RunsTyped' /\ Kept
      /\ mover \in [Attempts -> Keys \cup {None}]
      /\ ledger \in [Keys -> {0} \cup Attempts]
      /\ call \in [Keys -> ApplyCall \cup {None}]
      /\ None \notin Keys
  BY RunsTypedStep, TablesStep, TablesKeep, ReleaseAssumption DEF RunsInv, RowsInv, TypeOK
<1> USE <1>0 DEF CommandsAgree, At, Of, AttemptOf, Working, Applies, Kept
<1>1. CASE Beside
  BY <1>1, BesideKeepsRuns, BesideKeepsCalls
<1>2. ASSUME NEW k \in Keys, NEW c \in Candidates, Run(k, c) PROVE CommandsAgree'
  <2>1. /\ cli' = [cli EXCEPT ![k].at = "asking", ![k].candidate = c]
        /\ UNCHANGED <<ledger, mover>>
        /\ ledger[k] = 0
        /\ call' = [call EXCEPT ![k] = [candidate |-> c, doc |-> doc[InitiativeOf[c]]]]
    BY <1>2 DEF Run, Ask, attemptVars
  <2> QED
    BY <2>1 DEF RunsTyped, Command, Attempts
<1>3. ASSUME NEW k \in Keys, RunAgain(k) PROVE CommandsAgree'
  <2>1. CASE Ask(k, Of(k), doc[InitiativeOf[Of(k)]]) /\ Goes(k, "asking")
    BY <2>1 DEF Ask, Goes, attemptVars, RunsTyped, Command, Attempts
  <2>2. CASE (\E a \in Attempts : GivesPatch(k, a)) /\ Goes(k, "holding") /\ UNCHANGED tableVars
    BY <2>2 DEF GivesPatch, Goes, attemptVars, ledgerVars, tableVars, RunsTyped, Command
  <2> QED
    BY <1>3, <2>1, <2>2 DEF RunAgain
<1>4. ASSUME NEW k \in Keys, Answered(k) PROVE CommandsAgree'
  <2>1. ~At(k, "unrun")
    BY <1>4 DEF Answered, ApplyRefused, ApplyStale, ApplyMoves, ApplyEnds, Decides, Asked
  <2>2. CASE (ApplyRefused(k) \/ ApplyStale(k) \/ ApplyEnds(k)) /\ Exits(k)
    <3>1. mover' = mover /\ call' = [call EXCEPT ![k] = None]
      BY <2>2 DEF ApplyRefused, ApplyStale, ApplyEnds, Decides, Settles, attemptVars
    <3>2. /\ \A j \in Keys \ {k} : cli'[j] = cli[j] /\ call'[j] = call[j]
          /\ cli'[k].candidate = cli[k].candidate
          /\ cli'[k].version = cli[k].version
          /\ call'[k] = None
          /\ ~Working(k)'
      BY <2>2, <3>1 DEF Exits, RunsTyped, Command
    <3> QED
      BY <3>1, <3>2 DEF Attempts
  <2>3. ASSUME NEW a \in Attempts, ApplyMoves(k, a), NEW v \in Versions,
               cli' = [cli EXCEPT ![k].version = v,
                                  ![k].at = IF @ = "asking" THEN "holding" ELSE @]
        PROVE  CommandsAgree'
    <3>1. /\ ledger[k] = 0
          /\ ledger' = [ledger EXCEPT ![k] = a]
          /\ mover' = [mover EXCEPT ![a] = k]
          /\ mover[a] = None
          /\ candidate'[a] = Of(k)
          /\ call' = [call EXCEPT ![k] = None]
      BY <2>3 DEF ApplyMoves, Decides, Chosen, Settles, Asked, In, RunsInv, RowsInv,
        WaitingUnmoved, Waiting
    <3>2. /\ \A j \in Keys \ {k} : cli'[j] = cli[j]
          /\ cli'[k].candidate = cli[k].candidate
          /\ cli'[k].version = v
          /\ cli'[k].at # "unrun"
          /\ Working(k)' => mover'[a] = k
      BY <2>1, <2>3, <3>1 DEF RunsTyped, Command
    <3>3. \A j \in Keys : call'[j] # None => j # k /\ call'[j] = call[j]
      BY <3>1
    <3>4. \A b \in Attempts \ {a} : mover'[b] = mover[b] /\ mover[b] # k
      BY <3>1 DEF Attempts
    <3>5. \A j \in Keys \ {k} : Working(j)' <=> Working(j)
      BY <3>2
    <3>6. \A j \in Keys \ {k} : Working(j) => AttemptOf(j) # a
      BY <3>1
    <3> QED
      BY <3>1, <3>2, <3>3, <3>4, <3>5, <3>6
  <2> QED
    BY <1>4, <2>2, <2>3 DEF Answered
<1>5. ASSUME NEW k \in Keys, Confirm(k) \/ TellFailed(k) PROVE CommandsAgree'
  <2>1. UNCHANGED <<call, ledger, mover>> /\ Exits(k)
    BY <1>5 DEF Confirm, TellFailed, StartRecord, RecordFailed, tableVars, attemptVars, ledgerVars
  <2> QED
    BY <1>5, <2>1 DEF Exits, RunsTyped, Command
<1>6. ASSUME NEW k \in Keys, MakeBranch(k) \/ CommitPatch(k) \/ Succeed(k) \/ Fail(k)
      PROVE CommandsAgree'
  <2>1. UNCHANGED <<call, ledger, mover>> /\ Working(k)
    BY <1>6 DEF MakeBranch, CommitPatch, Succeed, Fail, tableVars, attemptVars, ledgerVars
  <2>2. /\ \A j \in Keys \ {k} : cli'[j] = cli[j]
        /\ cli'[k].candidate = cli[k].candidate
        /\ cli'[k].version = cli[k].version
        /\ cli'[k].at # "unrun"
    BY <1>6 DEF MakeBranch, CommitPatch, Succeed, Fail, Goes, Exits, Makes, RunsTyped,
      Command
  <2> QED
    BY <2>1, <2>2
<1>7. ASSUME NEW k \in Keys, Exit(k) PROVE CommandsAgree'
  BY <1>7 DEF Exit, Exits, tableVars, attemptVars, ledgerVars, RunsTyped, Command
<1> QED
  BY <1>1, <1>2, <1>3, <1>4, <1>5, <1>6, <1>7, NextSteps

LEMMA RunsStep ==
  ASSUME RunsInv, [Next]_vars
  PROVE  RunsInv' /\ Kept
BY RunsTypedStep, CommandsStep, TablesStep, TablesKeep, RowsStep DEF RunsInv

----------------------------------------------------------------------------
(* The branches, worktrees and tags agree with the commands.               *)

RepositoryTyped ==
  /\ RepositoryTypeOK
  /\ signed \subseteq Attempts
  /\ landed \subseteq Attempts
  /\ accepted \subseteq Attempts
  /\ mistaken \subseteq Attempts
  /\ unseen \subseteq Candidates

\* What a run has made of its branch is what it has come to.
MadeAgrees ==
  \A k \in Keys :
    /\ cli[k].at \in {"unrun", "asking", "holding", "exited"} => cli[k].made = "nothing"
    /\ cli[k].at = "branched" => cli[k].made = "branch"
    /\ cli[k].at = "committed" => cli[k].made = "commit"

\* A worktree has its candidate's branch checked out, and no other has.
WorktreesAgree ==
  /\ \A a \in worktree : mover[a] \in Keys /\ branch[candidate[a]] # NoBranch
  /\ \A a, b \in worktree : candidate[a] = candidate[b] => a = b

\* What is committed, tagged or landed was moved, and is of its branch's candidate;
\* a version not published contains nothing.
CommitsAgree ==
  /\ \A c \in Candidates, a \in Attempts :
       branch[c] = Patch(a) => mover[a] \in Keys /\ candidate[a] = c
  /\ \A v \in Versions : ~Published(v) => tag[v] = Unpublished
  /\ \A v \in Versions : \A a \in tag[v].patches : mover[a] \in Keys
  /\ \A a \in landed : mover[a] \in Keys

\* A command that applies a patch has its worktree and its branch as it made them,
\* and its attempt is not over, unless its candidate's release went unseen.
HoldersAgree ==
  \A k \in Keys : Applies(k) /\ Of(k) \notin unseen =>
    /\ AttemptOf(k) \notin landed
    /\ status[AttemptOf(k)] # "failed"
    /\ cli[k].made # "nothing" => AttemptOf(k) \in worktree
    /\ cli[k].made = "branch" => branch[Of(k)].tip = "base"
    /\ cli[k].made = "commit" => branch[Of(k)] = Patch(AttemptOf(k))

RepositoryInv ==
  RunsInv /\ RepositoryTyped /\ MadeAgrees /\ WorktreesAgree /\ CommitsAgree /\ HoldersAgree

\* What a command that was given a patch rests on.
LEMMA PatchHasBase ==
  ASSUME RunsInv, NEW k \in Keys, Handed(k) \/ Working(k)
  PROVE  /\ AttemptOf(k) \in Attempts
         /\ mover[AttemptOf(k)] = k
         /\ Of(k) = candidate[AttemptOf(k)]
         /\ Of(k) \in Candidates
         /\ base[Of(k)] \in Versions
         /\ cli[k].version \in Versions
         /\ ledger[k] # 0
<1>1. AttemptOf(k) \in Attempts /\ mover[AttemptOf(k)] = k /\ k # None
  BY ReleaseAssumption DEF RunsInv, CommandsAgree, Handed, AttemptOf, RowsInv, TypeOK
<1>2. ~Waiting(AttemptOf(k))
  BY <1>1 DEF RunsInv, RowsInv, WaitingUnmoved
<1> QED
  BY <1>1, <1>2 DEF RunsInv, CommandsAgree, RowsInv, TypeOK, MadeOnBase, Waiting, AttemptOf,
    Attempts

LEMMA AppliesWorks == \A k \in Keys : Applies(k) => Working(k)
BY DEF Working

\* One attempt is one command's.
LEMMA OneCommandEach ==
  ASSUME RunsInv, NEW j \in Keys, NEW k \in Keys, Handed(j) \/ Working(j),
         Handed(k) \/ Working(k), AttemptOf(j) = AttemptOf(k)
  PROVE  j = k
BY PatchHasBase

\* What was moved stays with its command and its candidate.
LEMMA MovedStays ==
  ASSUME RunsInv, [Next]_vars, NEW a \in Attempts, mover[a] \in Keys
  PROVE  mover'[a] = mover[a] /\ candidate'[a] = candidate[a]
BY RunsStep, ReleaseAssumption DEF Kept

\* The ways a --reconcile leaves the repository.
LEMMA ReconcileEffects ==
  ASSUME RunsInv, NEW k \in Keys, Reconcile(k)
  PROVE  /\ Handed(k)
         /\ UNCHANGED <<tag, doc, signed, cli, landed>>
         /\ unseen \cup Interrupted(k) \subseteq unseen'
         /\ \/ UNCHANGED branch /\ Clears(AttemptOf(k))
            \/ ReconcileFailed(k) /\ Removes(AttemptOf(k))
BY DEF Reconcile, ReconcileReleased, ReconcileAccepted, ReconcileNothing, ReconcileFailed,
  TakesForFailed, Reconciles, docVars

LEMMA TellFailedEffects ==
  ASSUME NEW k \in Keys, TellFailed(k)
  PROVE  \/ UNCHANGED branch /\ worktree \ {AttemptOf(k)} \subseteq worktree'
                             /\ worktree' \subseteq worktree
         \/ cli[k].made # "nothing" /\ Removes(AttemptOf(k))
BY DEF TellFailed, Clears

\* A branch is moved by whoever makes it, commits to it, removes it or clears it.
LEMMA BranchMoves ==
  ASSUME RepositoryInv, [Next]_vars
  PROVE  \/ UNCHANGED branch /\ worktree' \subseteq worktree
         \/ \E k \in Keys : MakeBranch(k) \/ CommitPatch(k)
         \/ \E k \in Keys : (TellFailed(k) \/ ReconcileFailed(k)) /\ Removes(AttemptOf(k))
         \/ \E c \in Candidates : DropBranch(c)
<1> DEFINE Still == UNCHANGED branch /\ worktree' \subseteq worktree
<1>1. CASE \/ UNCHANGED vars \/ Elsewhere
           \/ \E a \in Attempts : WriteDoc(a)
           \/ \E i \in Initiatives : Amend(i) \/ Approve(i)
           \/ \E v \in Versions : OutsideRelease(v)
           \/ \E k \in Keys, c \in Candidates : Run(k, c)
  <2>1. Still
    BY <1>1 DEF Elsewhere, WriteDoc, Amend, Approve, OutsideRelease, Run, vars,
      repositoryVars
  <2> QED
    BY <2>1
<1>2. CASE \E k \in Keys : \/ RunAgain(k) \/ Answered(k) \/ Push(k) \/ Succeed(k)
                           \/ Confirm(k) \/ Fail(k) \/ Exit(k)
  <2>1. Still
    BY <1>2 DEF RunAgain, Answered, Push, Succeed, Confirm, Fail, Exit, Clears,
      repositoryVars
  <2> QED
    BY <2>1
<1>3. ASSUME NEW k \in Keys, TellFailed(k)
      PROVE  Still \/ (TellFailed(k) /\ Removes(AttemptOf(k)))
  BY <1>3, TellFailedEffects
<1>4. ASSUME NEW k \in Keys, Reconcile(k)
      PROVE  Still \/ (ReconcileFailed(k) /\ Removes(AttemptOf(k)))
  BY <1>4, ReconcileEffects DEF RepositoryInv, Clears
<1> HIDE DEF Still
<1>5. \/ Still
      \/ \E k \in Keys : MakeBranch(k) \/ CommitPatch(k)
      \/ \E k \in Keys : (TellFailed(k) \/ ReconcileFailed(k)) /\ Removes(AttemptOf(k))
      \/ \E c \in Candidates : DropBranch(c)
  BY <1>1, <1>2, <1>3, <1>4 DEF Next, Reconcile, Still
<1> QED
  BY <1>5 DEF Still

LEMMA RepositoryTypedStep ==
  ASSUME RepositoryInv, [Next]_vars
  PROVE  RepositoryTyped'
<1>0. RunsInv /\ RepositoryTyped /\ doc \in [Initiatives -> Improvement]
  BY DEF RepositoryInv, RunsInv, RunsTyped
<1> USE <1>0 DEF RepositoryTyped, RepositoryTypeOK
<1>1. \A c : Points(c, NoBranch) => branch' \in [Candidates -> Branch]
  BY DEF Branch, Points
<1>2. \A a \in Attempts : Clears(a) => worktree' \subseteq Attempts
  BY DEF Clears
<1>3. \A a \in Attempts : Removes(a) =>
        branch' \in [Candidates -> Branch] /\ worktree' \subseteq Attempts
  BY <1>1, <1>2 DEF Removes
<1>4. \A v, w \in Versions, new \in SUBSET Attempts :
        Publish(v, w, new) => tag' \in [Versions -> Tag]
  BY DEF Publish, Tag
<1>5. CASE UNCHANGED vars \/ Elsewhere \/ \E a \in Attempts : WriteDoc(a)
  BY <1>5 DEF Elsewhere, WriteDoc, vars, repositoryVars, docVars, cliVars, historyVars
<1>6. ASSUME NEW i \in Initiatives, Amend(i) \/ Approve(i) PROVE RepositoryTyped'
  BY <1>6 DEF Amend, Approve, Improvement, repositoryVars, cliVars, historyVars
<1>7. ASSUME NEW k \in Keys, NEW c \in Candidates, Run(k, c) PROVE RepositoryTyped'
  BY <1>7 DEF Run, repositoryVars, docVars, historyVars
<1>8. ASSUME NEW k \in Keys, Answered(k) \/ Confirm(k) \/ Fail(k) \/ Exit(k)
      PROVE  RepositoryTyped'
  BY <1>8 DEF Answered, Confirm, Fail, Exit, repositoryVars, docVars, historyVars
<1>9. ASSUME NEW k \in Keys, RunAgain(k) PROVE RepositoryTyped'
  <2>1. Of(k) \in Candidates
    BY <1>9 DEF RunAgain, RunsInv, RunsTyped, At, Of
  <2> QED
    BY <1>9, <2>1 DEF RunAgain, repositoryVars, docVars
<1>10. ASSUME NEW k \in Keys, MakeBranch(k) PROVE RepositoryTyped'
  <2>1. AttemptOf(k) \in Attempts /\ base[Of(k)] \in Versions
    BY <1>10, PatchHasBase DEF MakeBranch, At, Working, Applies
  <2>2. [tip |-> "base", of |-> base[Of(k)]] \in Branch
    BY <2>1 DEF Branch
  <2> QED
    BY <1>10, <2>1, <2>2 DEF MakeBranch, Points, docVars, historyVars
<1>11. ASSUME NEW k \in Keys, CommitPatch(k) PROVE RepositoryTyped'
  <2>1. Patch(AttemptOf(k)) \in Branch
    BY <1>11, PatchHasBase DEF CommitPatch, At, Working, Applies, Branch, Patch
  <2> QED
    BY <1>11, <2>1 DEF CommitPatch, Points, docVars, historyVars
<1>12. ASSUME NEW k \in Keys, Push(k) PROVE RepositoryTyped'
  <2>1. tag' \in [Versions -> Tag]
    BY <1>4, <1>12, PatchHasBase DEF Push
  <2> QED
    BY <1>12, <2>1 DEF Push, docVars, cliVars, historyVars
<1>13. ASSUME NEW k \in Keys, Succeed(k) PROVE RepositoryTyped'
  <2>1. AttemptOf(k) \in Attempts
    BY <1>13, PatchHasBase DEF Succeed, At, Working, Applies
  <2> QED
    BY <1>2, <1>13, <2>1 DEF Succeed, docVars
<1>14. ASSUME NEW k \in Keys, TellFailed(k) PROVE RepositoryTyped'
  <2>1. AttemptOf(k) \in Attempts
    BY <1>14, PatchHasBase DEF TellFailed, At, Working, Applies
  <2>2. branch' \in [Candidates -> Branch] /\ worktree' \subseteq Attempts
    BY <1>3, <1>14, <2>1, TellFailedEffects
  <2> QED
    BY <1>14, <2>2 DEF TellFailed, docVars, historyVars
<1>15. ASSUME NEW k \in Keys, Reconcile(k) PROVE RepositoryTyped'
  <2>1. AttemptOf(k) \in Attempts /\ Of(k) \in Candidates
    BY <1>15, ReconcileEffects, PatchHasBase
  <2>2. branch' \in [Candidates -> Branch] /\ worktree' \subseteq Attempts
    BY <1>2, <1>3, <1>15, <2>1, ReconcileEffects
  <2>3. UNCHANGED <<tag, signed, landed>>
    BY <1>15, ReconcileEffects
  <2>4. accepted' \subseteq Attempts /\ mistaken' \subseteq Attempts
    BY <1>15, <2>1 DEF Reconcile, ReconcileReleased, ReconcileAccepted, ReconcileNothing,
      ReconcileFailed, TakesForFailed
  <2>5. Interrupted(k) \subseteq Candidates
    BY <2>1 DEF Interrupted
  <2>6. \A shown \in SUBSET Tagged : Overlooked(k, shown) \subseteq Candidates
    <3>1. ASSUME NEW shown \in SUBSET Tagged, NEW a \in landed, branch[Of(k)] = Patch(a)
          PROVE  candidate[a] \in Candidates
      BY <2>1, <3>1 DEF RepositoryInv, CommitsAgree
    <3> QED
      BY <3>1 DEF Overlooked
  <2>7. unseen' \subseteq Candidates
    BY <1>15, <2>5, <2>6 DEF Reconcile, ReconcileReleased, ReconcileAccepted,
      ReconcileNothing, ReconcileFailed, TakesForFailed
  <2> QED
    BY <2>2, <2>3, <2>4, <2>7
<1>16. ASSUME NEW c \in Candidates, DropBranch(c) PROVE RepositoryTyped'
  BY <1>1, <1>16 DEF DropBranch, docVars, cliVars, historyVars
<1>17. ASSUME NEW v \in Versions, OutsideRelease(v) PROVE RepositoryTyped'
  BY <1>4, <1>17 DEF OutsideRelease, docVars, cliVars, historyVars
<1> QED
  BY <1>5, <1>6, <1>7, <1>8, <1>9, <1>10, <1>11, <1>12, <1>13, <1>14, <1>15, <1>16, <1>17
    DEF Next, Reconcile

LEMMA MadeStep ==
  ASSUME RepositoryInv, [Next]_vars
  PROVE  MadeAgrees'
<1>0. MadeAgrees /\ cli \in [Keys -> Command]
  BY DEF RepositoryInv, RunsInv, RunsTyped
<1> USE <1>0 DEF MadeAgrees, Command, At, Goes, Exits, Makes
<1>1. CASE Beside
  BY <1>1, BesideKeepsRuns
<1>2. ASSUME NEW k \in Keys, NEW c \in Candidates, Run(k, c) PROVE MadeAgrees'
  BY <1>2 DEF Run
<1>3. ASSUME NEW k \in Keys, RunAgain(k) \/ MakeBranch(k) \/ CommitPatch(k) PROVE MadeAgrees'
  BY <1>3 DEF RunAgain, MakeBranch, CommitPatch
<1>4. ASSUME NEW k \in Keys, Answered(k) PROVE MadeAgrees'
  <2>1. CASE Exits(k)
    BY <2>1
  <2>2. ASSUME NEW v \in Versions,
               cli' = [cli EXCEPT ![k].version = v,
                                  ![k].at = IF @ = "asking" THEN "holding" ELSE @]
        PROVE  MadeAgrees'
    <3>1. CASE At(k, "asking")
      <4>1. cli' = [cli EXCEPT ![k] = [cli[k] EXCEPT !.version = v, !.at = "holding"]]
        BY <2>2, <3>1
      <4> QED
        BY <3>1, <4>1
    <3>2. CASE ~At(k, "asking")
      <4>1. cli' = [cli EXCEPT ![k] = [cli[k] EXCEPT !.version = v]]
        BY <2>2, <3>2
      <4> QED
        BY <4>1
    <3> QED
      BY <3>1, <3>2
  <2> QED
    BY <1>4, <2>1, <2>2 DEF Answered
<1>5. ASSUME NEW k \in Keys, Succeed(k) \/ Fail(k) PROVE MadeAgrees'
  BY <1>5 DEF Succeed, Fail
<1>6. ASSUME NEW k \in Keys, Confirm(k) \/ TellFailed(k) \/ Exit(k) PROVE MadeAgrees'
  BY <1>6 DEF Confirm, TellFailed, Exit
<1> QED
  BY <1>1, <1>2, <1>3, <1>4, <1>5, <1>6, NextSteps

\* How the command of k goes on: the others stay, and so do its candidate once it
\* ran and its version once it is at work.
LEMMA OneCommandMoves ==
  ASSUME RunsInv, NEW k \in Keys,
         \/ RunAgain(k) \/ Answered(k) \/ MakeBranch(k) \/ CommitPatch(k)
         \/ Succeed(k) \/ Confirm(k) \/ Fail(k) \/ TellFailed(k) \/ Exit(k)
  PROVE  /\ \A j \in Keys \ {k} : cli'[j] = cli[j]
         /\ cli'[k].candidate = cli[k].candidate
         /\ ~Answered(k) => cli'[k].version = cli[k].version
<1>0. cli \in [Keys -> Command]
  BY DEF RunsInv, RunsTyped
<1> USE <1>0 DEF Command, Goes, Exits, Makes
<1>1. CASE RunAgain(k) \/ MakeBranch(k) \/ CommitPatch(k)
  BY <1>1 DEF RunAgain, MakeBranch, CommitPatch
<1>2. CASE Succeed(k) \/ Fail(k)
  BY <1>2 DEF Succeed, Fail
<1>3. CASE Confirm(k) \/ TellFailed(k) \/ Exit(k)
  BY <1>3 DEF Confirm, TellFailed, Exit
<1>4. CASE Answered(k)
  <2>1. CASE Exits(k)
    BY <1>4, <2>1
  <2>2. ASSUME NEW v \in Versions,
               cli' = [cli EXCEPT ![k].version = v,
                                  ![k].at = IF @ = "asking" THEN "holding" ELSE @]
        PROVE  /\ \A j \in Keys \ {k} : cli'[j] = cli[j]
               /\ cli'[k].candidate = cli[k].candidate
    <3>1. \A j \in Keys \ {k} : cli'[j] = cli[j]
      BY <2>2
    <3>2. cli'[k].candidate = cli[k].candidate
      BY <2>2
    <3> QED
      BY <3>1, <3>2
  <2> QED
    BY <1>4, <2>1, <2>2 DEF Answered
<1> QED
  BY <1>1, <1>2, <1>3, <1>4

LEMMA WorktreesStep ==
  ASSUME RepositoryInv, [Next]_vars
  PROVE  WorktreesAgree'
<1>0. /\ RunsInv /\ WorktreesAgree
      /\ branch \in [Candidates -> Branch]
      /\ worktree \subseteq Attempts
      /\ \A a \in Attempts : mover[a] \in Keys =>
           mover'[a] = mover[a] /\ candidate'[a] = candidate[a]
  BY MovedStays DEF RepositoryInv, RepositoryTyped, RepositoryTypeOK
<1> USE <1>0 DEF WorktreesAgree
<1>1. CASE UNCHANGED branch /\ worktree' \subseteq worktree
  BY <1>1
<1>2. ASSUME NEW k \in Keys, MakeBranch(k) PROVE WorktreesAgree'
  <2>1. /\ AttemptOf(k) \in Attempts /\ Of(k) \in Candidates
        /\ candidate[AttemptOf(k)] = Of(k) /\ mover[AttemptOf(k)] \in Keys
    BY <1>2, PatchHasBase DEF MakeBranch, At, Working, Applies
  <2>2. branch[Of(k)] = NoBranch
    BY <1>2 DEF MakeBranch
  <2>3. worktree' = worktree \cup {AttemptOf(k)}
    BY <1>2 DEF MakeBranch
  <2>4. branch' = [branch EXCEPT ![Of(k)] = [tip |-> "base", of |-> base[Of(k)]]]
    BY <1>2 DEF MakeBranch, Points
  <2>5. branch'[Of(k)] # NoBranch
    BY <2>1, <2>4 DEF NoBranch
  <2>6. \A a \in worktree : candidate[a] # Of(k)
    BY <2>2
  <2>7. \A a \in worktree' : mover'[a] \in Keys /\ branch'[candidate'[a]] # NoBranch
    BY <2>1, <2>3, <2>4, <2>5, <2>6
  <2>8. \A a, b \in worktree' : candidate'[a] = candidate'[b] => a = b
    BY <2>1, <2>3, <2>6
  <2> QED
    BY <2>7, <2>8
<1>3. ASSUME NEW k \in Keys, CommitPatch(k) PROVE WorktreesAgree'
  <2>1. Patch(AttemptOf(k)) # NoBranch
    BY DEF Patch, NoBranch
  <2>2. \A c : branch'[c] = branch[c] \/ branch'[c] = Patch(AttemptOf(k))
    BY <1>3 DEF CommitPatch, Points
  <2>3. worktree' = worktree
    BY <1>3 DEF CommitPatch
  <2> QED
    BY <2>1, <2>2, <2>3
<1>4. ASSUME NEW a \in Attempts, Removes(a) PROVE WorktreesAgree'
  <2>1. worktree' = worktree \ {a}
    BY <1>4 DEF Removes, Clears
  <2>2. ASSUME NEW b \in worktree' PROVE branch'[candidate[b]] = branch[candidate[b]]
    <3>1. b \in worktree \ {a}
      BY <2>1, <2>2
    <3>2. CASE UNCHANGED branch
      BY <3>2
    <3>3. CASE candidate[b] # candidate[a] /\ Points(candidate[a], NoBranch)
      BY <3>1, <3>3 DEF Points
    <3> QED
      BY <1>4, <3>1, <3>2, <3>3 DEF Removes
  <2> QED
    BY <2>1, <2>2
<1>5. ASSUME NEW c \in Candidates, DropBranch(c) PROVE WorktreesAgree'
  <2>1. worktree' = {a \in worktree : candidate[a] # c}
    BY <1>5 DEF DropBranch
  <2>2. \A a \in worktree' : branch'[candidate[a]] = branch[candidate[a]]
    BY <1>5, <2>1 DEF DropBranch, Points
  <2> QED
    BY <2>1, <2>2
<1>6. ASSUME NEW k \in Keys, TellFailed(k) \/ ReconcileFailed(k) PROVE AttemptOf(k) \in Attempts
  BY <1>6, PatchHasBase DEF TellFailed, ReconcileFailed, At, Working, Applies
<1> QED
  BY <1>1, <1>2, <1>3, <1>4, <1>5, <1>6, BranchMoves

\* Tags are only ever added to.
LEMMA TagsGrow ==
  ASSUME RepositoryInv, [Next]_vars, NEW v \in Versions
  PROVE  \/ tag'[v] = tag[v]
         \/ /\ ~Published(v) /\ Published(v)'
            /\ \E w \in Versions : \E new \in SUBSET Attempts :
                 /\ tag'[v].patches = tag[w].patches \cup new
                 /\ \A a \in new : mover[a] \in Keys
<1>0. tag \in [Versions -> Tag]
  BY DEF RepositoryInv, RepositoryTyped, RepositoryTypeOK
<1>1. CASE UNCHANGED tag
  BY <1>1
<1>2. ASSUME NEW u, NEW w \in Versions, NEW new \in SUBSET Attempts,
             ~Published(u), Publish(u, w, new), \A a \in new : mover[a] \in Keys
      PROVE  \/ tag'[v] = tag[v]
             \/ /\ ~Published(v) /\ Published(v)'
                /\ tag'[v].patches = tag[w].patches \cup new
  BY <1>0, <1>2 DEF Publish, Published
<1>3. CASE \/ UNCHANGED vars \/ Elsewhere
           \/ \E a \in Attempts : WriteDoc(a)
           \/ \E i \in Initiatives : Amend(i) \/ Approve(i)
           \/ \E k \in Keys, c \in Candidates : Run(k, c)
           \/ \E c \in Candidates : DropBranch(c)
  BY <1>1, <1>3 DEF Elsewhere, WriteDoc, Amend, Approve, Run, DropBranch, vars,
    repositoryVars
<1>4. CASE \E k \in Keys :
             \/ RunAgain(k) \/ Answered(k) \/ MakeBranch(k) \/ CommitPatch(k)
             \/ Succeed(k) \/ Confirm(k) \/ Fail(k) \/ TellFailed(k) \/ Exit(k)
  BY <1>1, <1>4 DEF RunAgain, Answered, MakeBranch, CommitPatch, Succeed, Confirm, Fail,
    TellFailed, Exit, repositoryVars
<1>5. CASE \E k \in Keys : Reconcile(k)
  BY <1>1, <1>5, ReconcileEffects DEF RepositoryInv
<1>6. ASSUME NEW k \in Keys, Push(k)
      PROVE  \E w \in Versions : \E new \in SUBSET Attempts :
               /\ ~Published(cli[k].version) /\ Publish(cli[k].version, w, new)
               /\ \A a \in new : mover[a] \in Keys
  <2>1. base[Of(k)] \in Versions /\ AttemptOf(k) \in Attempts /\ mover[AttemptOf(k)] \in Keys
    BY <1>6, PatchHasBase DEF Push, RepositoryInv
  <2>2. PICK new \in {{AttemptOf(k)}, {}} : Publish(cli[k].version, base[Of(k)], new)
    BY <1>6 DEF Push
  <2>3. new \in SUBSET Attempts /\ \A a \in new : mover[a] \in Keys
    BY <2>1
  <2> QED
    BY <1>6, <2>1, <2>2, <2>3 DEF Push
<1>7. ASSUME NEW u \in Versions, OutsideRelease(u)
      PROVE  \E w \in Versions : ~Published(u) /\ Publish(u, w, {})
  BY <1>7 DEF OutsideRelease
<1>8. CASE \E k \in Keys : Push(k)
  BY <1>2, <1>6, <1>8
<1>9. CASE \E u \in Versions : OutsideRelease(u)
  BY <1>2, <1>7, <1>9
<1> QED
  BY <1>3, <1>4, <1>5, <1>8, <1>9 DEF Next, Reconcile

\* Only a release command that succeeds adds to what landed.
LEMMA OnlySucceedLands ==
  ASSUME [Next]_vars, NEW a \in landed', a \notin landed
  PROVE  \E k \in Keys : Succeed(k) /\ a = AttemptOf(k)
BY DEF Next, Elsewhere, WriteDoc, Amend, Approve, Run, RunAgain, Answered, MakeBranch,
  CommitPatch, Push, Succeed, Confirm, Fail, TellFailed, Exit, ReconcileReleased,
  ReconcileAccepted, ReconcileNothing, ReconcileFailed, TakesForFailed, DropBranch,
  OutsideRelease, vars, cliVars, historyVars

LEMMA CommitsStep ==
  ASSUME RepositoryInv, [Next]_vars
  PROVE  CommitsAgree'
<1>0. /\ RunsInv /\ CommitsAgree /\ landed \subseteq Attempts
      /\ branch \in [Candidates -> Branch]
      /\ tag \in [Versions -> Tag]
      /\ \A a \in Attempts : mover[a] \in Keys =>
           mover'[a] = mover[a] /\ candidate'[a] = candidate[a]
  BY MovedStays DEF RepositoryInv, RepositoryTyped, RepositoryTypeOK
<1> USE <1>0 DEF CommitsAgree
<1>1. ASSUME NEW c \in Candidates, NEW a \in Attempts, branch'[c] = Patch(a)
      PROVE  mover'[a] \in Keys /\ candidate'[a] = c
  <2>1. CASE branch'[c] = branch[c]
    BY <1>1, <2>1
  <2>2. CASE branch'[c] # branch[c]
    <3>1. \A k \in Keys : ~MakeBranch(k)
      BY <1>1, <2>2 DEF MakeBranch, Points, Patch
    <3>2. \A b \in Attempts : ~Removes(b)
      BY <1>1, <2>2 DEF Removes, Points, Patch, NoBranch
    <3>3. \A d \in Candidates : ~DropBranch(d)
      BY <1>1, <2>2 DEF DropBranch, Points, Patch, NoBranch
    <3>4. \A k \in Keys : TellFailed(k) \/ ReconcileFailed(k) => AttemptOf(k) \in Attempts
      BY PatchHasBase DEF TellFailed, ReconcileFailed, At, Working, Applies
    <3>5. PICK k \in Keys : CommitPatch(k)
      BY <2>2, <3>1, <3>2, <3>3, <3>4, BranchMoves
    <3>6. /\ AttemptOf(k) \in Attempts
          /\ candidate[AttemptOf(k)] = Of(k) /\ mover[AttemptOf(k)] \in Keys
      BY <3>5, PatchHasBase DEF CommitPatch, At, Working, Applies
    <3>7. c = Of(k) /\ branch'[c] = Patch(AttemptOf(k))
      BY <2>2, <3>5 DEF CommitPatch, Points
    <3>8. a = AttemptOf(k)
      BY <1>1, <3>7 DEF Patch
    <3> QED
      BY <3>6, <3>7, <3>8
  <2> QED
    BY <2>1, <2>2
<1>2. ASSUME NEW v \in Versions, ~Published(v)' PROVE tag'[v] = Unpublished
  BY <1>2, TagsGrow DEF Published
<1>3. ASSUME NEW v \in Versions, NEW a \in tag'[v].patches PROVE mover'[a] \in Keys
  <2>1. \A w \in Versions : tag[w].patches \subseteq Attempts
    BY DEF Tag
  <2>2. mover[a] \in Keys /\ a \in Attempts
    BY <1>3, <2>1, TagsGrow
  <2> QED
    BY <2>2
<1>4. ASSUME NEW a \in landed' PROVE mover'[a] \in Keys
  <2>1. CASE a \in landed
    BY <2>1
  <2>2. ASSUME NEW k \in Keys, Succeed(k), a = AttemptOf(k) PROVE mover'[a] \in Keys
    BY <2>2, PatchHasBase DEF Succeed, At, Working, Applies
  <2> QED
    BY <1>4, <2>1, <2>2, OnlySucceedLands
<1> QED
  BY <1>1, <1>2, <1>3, <1>4 DEF Published

\* A command applies a patch because it did, or because it is given one.
LEMMA AppliesOn ==
  ASSUME RepositoryInv, [Next]_vars, NEW k \in Keys, Applies(k)'
  PROVE  \/ Applies(k) /\ cli'[k].made = cli[k].made
         \/ MakeBranch(k) \/ CommitPatch(k)
         \/ /\ cli'[k].made = "nothing"
            /\ \/ RunAgain(k) /\ UNCHANGED tableVars /\ \E a \in Attempts : GivesPatch(k, a)
               \/ Answered(k) /\ \E a \in Attempts : ApplyMoves(k, a)
<1>0. RunsInv /\ MadeAgrees /\ cli \in [Keys -> Command]
  BY DEF RepositoryInv, RunsInv, RunsTyped
<1> USE <1>0 DEF Applies
<1>1. CASE cli'[k] = cli[k]
  BY <1>1
<1>2. ASSUME NEW c \in Candidates, Run(k, c) PROVE FALSE
  BY <1>2 DEF Run, Command
<1>3. ~Exits(k)
  BY DEF Exits, Command
<1>4. CASE RunAgain(k)
  <2>1. ~Goes(k, "asking")
    BY DEF Goes, Command
  <2>2. UNCHANGED tableVars /\ Goes(k, "holding") /\ \E a \in Attempts : GivesPatch(k, a)
    BY <1>4, <2>1 DEF RunAgain
  <2>3. cli[k].made = "nothing"
    BY <1>4 DEF RunAgain, At, MadeAgrees
  <2>4. cli'[k].made = cli[k].made
    BY <2>2 DEF Goes, Command
  <2> QED
    BY <1>4, <2>2, <2>3, <2>4
<1>5. CASE Answered(k)
  <2>1. PICK a \in Attempts : ApplyMoves(k, a)
    BY <1>3, <1>5 DEF Answered
  <2>2. PICK v \in Versions :
          cli' = [cli EXCEPT ![k].version = v,
                             ![k].at = IF @ = "asking" THEN "holding" ELSE @]
    BY <1>3, <1>5 DEF Answered
  <2>3. ~Working(k)
    BY <2>1, PatchHasBase DEF ApplyMoves, Decides
  <2>4. cli'[k].made = cli[k].made
    BY <2>2
  <2>5. At(k, "asking")
    <3>1. CASE cli'[k].at = cli[k].at
      BY <2>3, <3>1 DEF Working
    <3>2. CASE ~At(k, "asking")
      <4>1. cli'[k].at = cli[k].at
        BY <2>2, <3>2 DEF At
      <4> QED
        BY <3>1, <4>1
    <3> QED
      BY <3>2
  <2>6. cli[k].made = "nothing"
    BY <2>5 DEF At, MadeAgrees
  <2> QED
    BY <1>5, <2>1, <2>4, <2>6
<1>6. CASE Fail(k)
  BY <1>6 DEF Fail, Goes, Command
<1>7. ASSUME Succeed(k) \/ Confirm(k) \/ TellFailed(k) \/ Exit(k) PROVE FALSE
  BY <1>3, <1>7 DEF Succeed, Confirm, TellFailed, Exit, Goes, Command
<1>8. ASSUME NEW j \in Keys, NEW c \in Candidates, Run(j, c), j # k PROVE cli'[k] = cli[k]
  BY <1>8 DEF Run
<1>9. CASE MakeBranch(k) \/ CommitPatch(k)
  BY <1>9
<1>10. CASE Beside
  BY <1>1, <1>10, BesideKeepsRuns
<1>11. ASSUME NEW j \in Keys, j # k,
              \/ RunAgain(j) \/ Answered(j) \/ MakeBranch(j) \/ CommitPatch(j)
              \/ Succeed(j) \/ Confirm(j) \/ Fail(j) \/ TellFailed(j) \/ Exit(j)
       PROVE  cli'[k] = cli[k]
  BY <1>11, OneCommandMoves
<1> QED
  BY <1>1, <1>2, <1>4, <1>5, <1>6, <1>7, <1>8, <1>9, <1>10, <1>11, NextSteps

\* An attempt fails by a command that says so, or a --reconcile that does.
LEMMA OnlyRecordsFail ==
  ASSUME RepositoryInv, [Next]_vars, NEW a \in Attempts,
         status'[a] = "failed", status[a] # "failed"
  PROVE  \E k \in Keys : /\ TellFailed(k) \/ ReconcileFailed(k)
                         /\ a = AttemptOf(k) /\ status[a] = "applying"
<1>0. RunsInv /\ status \in [Attempts -> Statuses]
  BY DEF RepositoryInv, RunsInv, RowsInv, TypeOK
<1> USE <1>0
<1>1. CASE UNCHANGED status
  BY <1>1
<1>2. ASSUME NEW b \in Attempts, RecordFailed(b) PROVE a = b /\ status[a] = "applying"
  BY <1>2 DEF RecordFailed
<1>3. CASE UNCHANGED tableVars
  BY <1>1, <1>3 DEF tableVars, attemptVars
<1>4. ASSUME Elsewhere PROVE FALSE
  <2>1. ASSUME NEW f \in Findings, Decide(f) PROVE FALSE
    BY <2>1 DEF Decide, attemptVars
  <2>2. ASSUME NEW c \in Candidates, Propose(c) PROVE FALSE
    BY <2>2 DEF Propose, attemptVars
  <2>3. ASSUME NEW b \in Attempts, RecordRolledBack(b) PROVE FALSE
    BY <2>3 DEF RecordRolledBack
  <2>4. ASSUME NEW b \in Attempts, NEW c \in Candidates, Prepare(b, c) PROVE FALSE
    BY <2>4 DEF Prepare
  <2>5. ASSUME NEW b \in Attempts, NEW v \in Versions, CommitRecord(b, v) \/ DropRecord(b, v)
        PROVE  FALSE
    BY <2>5 DEF CommitRecord, DropRecord, attemptVars
  <2>6. ASSUME NEW b \in Attempts, NEW d \in Verdicts,
               StartVerify(b, d) \/ CommitVerify(b, d) \/ DropVerify(b, d)
        PROVE  FALSE
    BY <2>6 DEF StartVerify, CommitVerify, DropVerify, attemptVars
  <2>7. ASSUME NEW v \in Versions, Arrives(v) PROVE FALSE
    BY <2>7 DEF Arrives, Register, Deploy, attemptVars
  <2> QED
    BY <1>4, <2>1, <2>2, <2>3, <2>4, <2>5, <2>6, <2>7 DEF Elsewhere
<1>5. ASSUME NEW j \in Keys, NEW c \in Candidates, Run(j, c) PROVE FALSE
  BY <1>5 DEF Run, Ask, attemptVars
<1>6. ASSUME NEW j \in Keys, RunAgain(j) \/ Answered(j) PROVE FALSE
  BY <1>6 DEF RunAgain, Answered, Ask, ApplyRefused, ApplyStale, ApplyMoves, ApplyEnds,
    tableVars, attemptVars
<1>7. ASSUME NEW j \in Keys, Confirm(j) PROVE FALSE
  BY <1>7 DEF Confirm, StartRecord, attemptVars
<1>8. ASSUME NEW j \in Keys, TellFailed(j) \/ ReconcileFailed(j)
      PROVE  a = AttemptOf(j) /\ status[a] = "applying"
  <2>1. AttemptOf(j) \in Attempts
    BY <1>8, PatchHasBase DEF TellFailed, ReconcileFailed, At, Working, Applies
  <2>2. RecordFailed(AttemptOf(j)) \/ UNCHANGED tableVars
    BY <1>8 DEF TellFailed, ReconcileFailed, TakesForFailed
  <2> QED
    BY <1>2, <2>1, <2>2 DEF tableVars, attemptVars
<1>9. ASSUME NEW j \in Keys,
             ReconcileReleased(j) \/ ReconcileAccepted(j) \/ ReconcileNothing(j)
      PROVE  FALSE
  BY <1>9 DEF ReconcileReleased, ReconcileAccepted, ReconcileNothing, StartRecord, tableVars,
    attemptVars
<1>10. ASSUME \/ UNCHANGED vars
              \/ \E b \in Attempts : WriteDoc(b)
              \/ \E i \in Initiatives : Amend(i) \/ Approve(i)
              \/ \E j \in Keys : \/ MakeBranch(j) \/ CommitPatch(j) \/ Push(j)
                                 \/ Succeed(j) \/ Fail(j) \/ Exit(j)
              \/ \E c \in Candidates : DropBranch(c)
              \/ \E v \in Versions : OutsideRelease(v)
       PROVE  FALSE
  BY <1>3, <1>10 DEF WriteDoc, Amend, Approve, MakeBranch, CommitPatch, Push, Succeed, Fail,
    Exit, DropBranch, OutsideRelease, vars, tableVars, attemptVars
<1> QED
  BY <1>4, <1>5, <1>6, <1>7, <1>8, <1>9, <1>10 DEF Next

\* What went unseen stays so.
LEMMA UnseenGrows == ASSUME RepositoryInv, [Next]_vars PROVE unseen \subseteq unseen'
<1>1. CASE \E k \in Keys : Reconcile(k)
  BY <1>1, ReconcileEffects DEF RepositoryInv
<1> QED
  BY <1>1 DEF Next, Elsewhere, WriteDoc, Amend, Approve, Run, RunAgain, Answered, MakeBranch,
    CommitPatch, Push, Succeed, Confirm, Fail, TellFailed, Exit, Reconcile, DropBranch,
    OutsideRelease, vars, cliVars, historyVars

\* While a command applies its patch, only it touches its branch and its worktree.
LEMMA HolderKeeps ==
  ASSUME RepositoryInv, [Next]_vars, NEW k \in Keys,
         Applies(k), Applies(k)', Of(k) \notin unseen', AttemptOf(k) \in worktree
  PROVE  /\ AttemptOf(k) \in worktree'
         /\ branch'[Of(k)] = branch[Of(k)] \/ CommitPatch(k)
<1>0. /\ RunsInv /\ WorktreesAgree
      /\ branch \in [Candidates -> Branch]
      /\ AttemptOf(k) \in Attempts /\ Of(k) \in Candidates
      /\ Of(k) = candidate[AttemptOf(k)]
      /\ branch[Of(k)] # NoBranch
      /\ Working(k)
  <2>1. RunsInv /\ WorktreesAgree /\ branch \in [Candidates -> Branch] /\ Working(k)
    BY DEF RepositoryInv, RepositoryTyped, RepositoryTypeOK, Working
  <2> QED
    BY <2>1, PatchHasBase DEF WorktreesAgree
<1> USE <1>0
\* Another command's attempt is another.
<1>1. ASSUME NEW j \in Keys, Handed(j) \/ Working(j), AttemptOf(j) = AttemptOf(k)
      PROVE  j = k
  BY <1>1, OneCommandEach
<1>2. ASSUME NEW j \in Keys, TellFailed(j) \/ Succeed(j)
      PROVE  AttemptOf(j) # AttemptOf(k)
  <2>1. ~TellFailed(k) /\ ~Succeed(k)
    BY DEF TellFailed, Succeed, Exits, Goes, Applies, RunsInv, RunsTyped, Command
  <2>2. Working(j)
    BY <1>2 DEF TellFailed, Succeed, At, Working, Applies
  <2> QED
    BY <1>1, <1>2, <2>1, <2>2
<1>3. ASSUME NEW j \in Keys, Reconcile(j) PROVE AttemptOf(j) # AttemptOf(k)
  <2>1. j # k
    BY <1>3, ReconcileEffects DEF Interrupted
  <2> QED
    BY <1>1, <1>3, <2>1, ReconcileEffects
<1>4. ASSUME NEW a \in Attempts, a # AttemptOf(k), Removes(a)
      PROVE  /\ AttemptOf(k) \in worktree'
             /\ branch'[Of(k)] = branch[Of(k)]
  <2>1. AttemptOf(k) \in worktree \ {a}
    BY <1>4
  <2>2. CASE candidate[a] = Of(k)
    BY <1>4, <2>1, <2>2 DEF Removes, Clears
  <2>3. CASE candidate[a] # Of(k)
    BY <1>4, <2>1, <2>3 DEF Removes, Clears, Points
  <2> QED
    BY <2>2, <2>3
<1>5. ASSUME NEW j \in Keys, MakeBranch(j)
      PROVE  /\ AttemptOf(k) \in worktree'
             /\ branch'[Of(k)] = branch[Of(k)]
  BY <1>5 DEF MakeBranch, Points
<1>6. ASSUME NEW j \in Keys, CommitPatch(j), j # k
      PROVE  /\ AttemptOf(k) \in worktree'
             /\ branch'[Of(k)] = branch[Of(k)]
  <2>1. Working(j) /\ AttemptOf(j) \in worktree
    BY <1>6 DEF CommitPatch, At, Working, Applies
  <2>2. Of(j) = candidate[AttemptOf(j)]
    BY <2>1, PatchHasBase
  <2>3. Of(j) # Of(k)
    BY <1>1, <1>6, <2>1, <2>2 DEF WorktreesAgree
  <2> QED
    BY <1>6, <2>3 DEF CommitPatch, Points
<1>7. CommitPatch(k) => AttemptOf(k) \in worktree'
  BY DEF CommitPatch
<1>8. ASSUME NEW c \in Candidates, DropBranch(c)
      PROVE  /\ AttemptOf(k) \in worktree'
             /\ branch'[Of(k)] = branch[Of(k)]
  <2>1. c # Of(k)
    BY <1>8 DEF DropBranch
  <2> QED
    BY <1>8, <2>1 DEF DropBranch, Points
<1>9. ASSUME NEW j \in Keys, TellFailed(j)
      PROVE  /\ AttemptOf(k) \in worktree'
             /\ branch'[Of(k)] = branch[Of(k)]
  <2>1. AttemptOf(j) # AttemptOf(k) /\ AttemptOf(j) \in Attempts
    BY <1>2, <1>9, PatchHasBase DEF TellFailed, At, Working, Applies
  <2> QED
    BY <1>4, <1>9, <2>1, TellFailedEffects
<1>10. ASSUME NEW j \in Keys, Reconcile(j)
       PROVE  /\ AttemptOf(k) \in worktree'
              /\ branch'[Of(k)] = branch[Of(k)]
  <2>1. AttemptOf(j) # AttemptOf(k) /\ AttemptOf(j) \in Attempts
    BY <1>3, <1>10, ReconcileEffects, PatchHasBase
  <2> QED
    BY <1>4, <1>10, <2>1, ReconcileEffects DEF Clears
<1>11. ASSUME NEW j \in Keys, Succeed(j)
       PROVE  /\ AttemptOf(k) \in worktree'
              /\ branch'[Of(k)] = branch[Of(k)]
  BY <1>2, <1>11 DEF Succeed, Clears
<1>12. CASE \/ UNCHANGED vars \/ Elsewhere
            \/ \E a \in Attempts : WriteDoc(a)
            \/ \E i \in Initiatives : Amend(i) \/ Approve(i)
            \/ \E v \in Versions : OutsideRelease(v)
            \/ \E j \in Keys, c \in Candidates : Run(j, c)
            \/ \E j \in Keys : \/ RunAgain(j) \/ Answered(j) \/ Push(j) \/ Confirm(j)
                               \/ Fail(j) \/ Exit(j)
  <2>1. UNCHANGED <<branch, worktree>>
    BY <1>12 DEF Elsewhere, WriteDoc, Amend, Approve, OutsideRelease, Run, RunAgain,
      Answered, Push, Confirm, Fail, Exit, vars, repositoryVars
  <2> QED
    BY <2>1
<1> QED
  BY <1>5, <1>6, <1>7, <1>8, <1>9, <1>10, <1>11, <1>12 DEF Next, Reconcile

LEMMA HoldersStep ==
  ASSUME RepositoryInv, [Next]_vars
  PROVE  HoldersAgree'
<1>0. /\ RunsInv /\ RunsInv' /\ HoldersAgree /\ MadeAgrees /\ WorktreesAgree /\ CommitsAgree
      /\ MadeAgrees'
      /\ landed \subseteq Attempts
      /\ unseen \subseteq unseen'
      /\ Kept
      /\ branch \in [Candidates -> Branch]
  BY RunsStep, MadeStep, UnseenGrows DEF RepositoryInv, RepositoryTyped, RepositoryTypeOK
<1> USE <1>0
<1> SUFFICES ASSUME NEW k \in Keys, Applies(k)', (Of(k) \notin unseen)'
             PROVE  /\ AttemptOf(k)' \notin landed'
                    /\ status'[AttemptOf(k)'] # "failed"
                    /\ cli'[k].made # "nothing" => AttemptOf(k)' \in worktree'
                    /\ cli'[k].made = "branch" => branch'[Of(k)'].tip = "base"
                    /\ cli'[k].made = "commit" => branch'[Of(k)'] = Patch(AttemptOf(k)')
  BY DEF HoldersAgree, Patch
<1>1. CASE Applies(k)
  <2>1. /\ AttemptOf(k) \in Attempts /\ Of(k) \in Candidates /\ ledger[k] # 0
        /\ Of(k) = candidate[AttemptOf(k)] /\ mover[AttemptOf(k)] = k
    BY <1>1, PatchHasBase DEF Working
  <2>2. AttemptOf(k)' = AttemptOf(k) /\ Of(k)' = Of(k)
    <3>1. AttemptOf(k)' = AttemptOf(k)
      BY <2>1 DEF Kept, AttemptOf
    <3>2. candidate'[AttemptOf(k)] = Of(k)
      BY <2>1, MovedStays
    <3>3. Of(k)' = candidate'[AttemptOf(k)]
      <4>1. mover'[AttemptOf(k)] = k /\ k # None
        BY <2>1, MovedStays, ReleaseAssumption
      <4> QED
        BY <2>1, <4>1 DEF RunsInv, CommandsAgree, Of
    <3> QED
      BY <3>1, <3>2, <3>3
  <2>3. Of(k) \notin unseen /\ Of(k) \notin unseen'
    BY <2>2
  <2>4. AttemptOf(k) \notin landed'
    <3>1. ASSUME NEW j \in Keys, Succeed(j), AttemptOf(j) = AttemptOf(k) PROVE FALSE
      <4>1. Working(j) /\ Working(k)
        BY <1>1, <3>1 DEF Succeed, At, Applies, Working
      <4>2. j = k
        BY <3>1, <4>1, OneCommandEach
      <4> QED
        BY <3>1, <4>2 DEF Succeed, Exits, Goes, Applies, RunsInv, RunsTyped, Command
    <3> QED
      BY <1>1, <2>3, <3>1, OnlySucceedLands DEF HoldersAgree
  <2>5. status'[AttemptOf(k)] # "failed"
    <3>1. ASSUME NEW j \in Keys, TellFailed(j), AttemptOf(j) = AttemptOf(k) PROVE FALSE
      <4>1. Working(j) /\ Working(k)
        BY <1>1, <3>1 DEF TellFailed, At, Applies, Working
      <4>2. j = k
        BY <3>1, <4>1, OneCommandEach
      <4> QED
        BY <3>1, <4>2 DEF TellFailed, Exits, Applies, RunsInv, RunsTyped, Command
    <3>2. ASSUME NEW j \in Keys, ReconcileFailed(j), AttemptOf(j) = AttemptOf(k) PROVE FALSE
      <4>1. Handed(j) /\ Working(k) /\ Reconcile(j)
        BY <1>1, <3>2 DEF ReconcileFailed, Reconcile, Working
      <4>2. j = k
        BY <3>2, <4>1, OneCommandEach
      <4> QED
        BY <1>1, <2>3, <4>1, <4>2, ReconcileEffects DEF Interrupted
    <3> QED
      BY <1>1, <2>1, <2>3, <3>1, <3>2, OnlyRecordsFail DEF HoldersAgree
  <2>6. cli[k].made # "nothing" =>
          /\ AttemptOf(k) \in worktree'
          /\ branch'[Of(k)] = branch[Of(k)] \/ CommitPatch(k)
    BY <1>1, <2>3, HolderKeeps DEF HoldersAgree
  <2>7. CASE MakeBranch(k)
    <3>1. AttemptOf(k) \in worktree' /\ branch'[Of(k)].tip = "base" /\ cli'[k].made = "branch"
      BY <2>1, <2>7 DEF MakeBranch, Points, Makes, RunsInv, RunsTyped, Command
    <3> QED
      BY <2>2, <2>4, <2>5, <3>1
  <2>8. CASE CommitPatch(k)
    <3>1. /\ AttemptOf(k) \in worktree' /\ branch'[Of(k)] = Patch(AttemptOf(k))
          /\ cli'[k].made = "commit"
      BY <2>1, <2>8 DEF CommitPatch, Points, Makes, RunsInv, RunsTyped, Command
    <3> QED
      BY <2>2, <2>4, <2>5, <3>1
  <2>9. CASE cli'[k].made = cli[k].made /\ ~CommitPatch(k)
    BY <1>1, <2>2, <2>3, <2>4, <2>5, <2>6, <2>9 DEF HoldersAgree
  <2>10. CASE cli'[k].made = "nothing"
    BY <2>2, <2>4, <2>5, <2>10
  <2> QED
    BY <2>7, <2>8, <2>9, <2>10, AppliesOn
<1>2. CASE ~Applies(k)
  <2>1. ~MakeBranch(k) /\ ~CommitPatch(k)
    BY <1>2 DEF MakeBranch, CommitPatch, At, Applies
  <2>2. CASE RunAgain(k) /\ UNCHANGED tableVars /\ \E a \in Attempts : GivesPatch(k, a)
    <3>1. PICK a \in Attempts : GivesPatch(k, a)
      BY <2>2
    <3>2. a = AttemptOf(k) /\ status[a] = "applying"
      BY <3>1 DEF GivesPatch, AttemptOf
    <3>3. Goes(k, "holding") /\ UNCHANGED landed
          /\ unseen' = IF AttemptOf(k) \in landed THEN unseen \cup {Of(k)} ELSE unseen
      <4>1. ~Goes(k, "asking")
        BY DEF Goes, Applies, RunsInv, RunsTyped, Command
      <4> QED
        BY <2>2, <4>1 DEF RunAgain
    <3>4. AttemptOf(k)' = AttemptOf(k) /\ Of(k)' = Of(k) /\ UNCHANGED status
      BY <2>2, <3>3 DEF tableVars, attemptVars, ledgerVars, AttemptOf, Of, Goes, RunsInv,
        RunsTyped, Command
    <3>5. AttemptOf(k) \notin landed'
      BY <3>3, <3>4
    <3>6. cli'[k].made = "nothing"
      BY <1>2, <2>1, AppliesOn
    <3> QED
      BY <3>2, <3>4, <3>5, <3>6
  <2>3. ASSUME NEW a \in Attempts, ApplyMoves(k, a), Answered(k), cli'[k].made = "nothing"
        PROVE  AttemptOf(k)' \notin landed' /\ status'[AttemptOf(k)'] # "failed"
    <3>1. AttemptOf(k)' = a /\ status'[a] = "applying" /\ mover[a] = None
      BY <2>3 DEF ApplyMoves, Decides, Chosen, In, AttemptOf, RunsInv, RowsInv, TypeOK,
        WaitingUnmoved, Waiting
    <3>2. a \notin landed
      BY <3>1, ReleaseAssumption DEF CommitsAgree
    <3>3. UNCHANGED landed
      BY <2>3 DEF Answered, historyVars
    <3> QED
      BY <3>1, <3>2, <3>3
  <2> QED
    BY <1>2, <2>1, <2>2, <2>3, AppliesOn
<1> QED
  BY <1>1, <1>2

LEMMA RepositoryStep ==
  ASSUME RepositoryInv, [Next]_vars
  PROVE  RepositoryInv'
BY RunsStep, RepositoryTypedStep, MadeStep, WorktreesStep, CommitsStep, HoldersStep
  DEF RepositoryInv


LEMMA RepositoryHoldsFirst == Init => RepositoryInv
<1> SUFFICES ASSUME Init PROVE RepositoryInv
  OBVIOUS
<1> USE DEF Init
<1>1. RowsInv
  BY InitHolds DEF TableInv
<1>2. RunsTyped
  BY DEF RunsTyped, Improvement, Command, Unrun
<1>3. CommandsAgree
  BY DEF CommandsAgree, TableInit, At, Working, Applies, Unrun
<1>4. RepositoryTyped
  <2>1. Unpublished \in Tag /\ NoBranch \in Branch
    BY DEF Unpublished, Tag, NoBranch, Branch
  <2>2. [published |-> TRUE, patches |-> {}, bases |-> {1}] \in Tag
    BY ReleaseAssumption DEF Tag, Versions
  <2> QED
    BY <2>1, <2>2 DEF RepositoryTyped, RepositoryTypeOK, RepositoryInit
<1>5. MadeAgrees /\ WorktreesAgree /\ HoldersAgree
  BY DEF MadeAgrees, WorktreesAgree, HoldersAgree, RepositoryInit, Applies, Unrun
<1>6. CommitsAgree
  <2>1. \A a : NoBranch # Patch(a)
    BY DEF NoBranch, Patch
  <2> QED
    BY <2>1 DEF CommitsAgree, Published, RepositoryInit, Unpublished
<1> QED
  BY <1>1, <1>2, <1>3, <1>4, <1>5, <1>6 DEF RepositoryInv, RunsInv

----------------------------------------------------------------------------
(* What was approved.                                                      *)

\* What a document or a call has approved was signed, and so was what moved.
DocsSigned ==
  /\ \A i \in Initiatives : doc[i].approved => doc[i].cites \in signed
  /\ \A k \in Keys :
       call[k] # None /\ call[k].doc.approved => call[k].doc.cites \in signed
  /\ AppliedWasSigned

LEMMA SignedStep ==
  ASSUME RepositoryInv, DocsSigned, [Next]_vars
  PROVE  DocsSigned'
<1>0. /\ doc \in [Initiatives -> Improvement]
      /\ call \in [Keys -> ApplyCall \cup {None}]
      /\ mover \in [Attempts -> Keys \cup {None}]
      /\ \A k \in Keys : call[k] = None \/ call[k] \in ApplyCall
  BY DEF RepositoryInv, RunsInv, RunsTyped, RowsInv, TypeOK
<1> USE <1>0 DEF DocsSigned, AppliedWasSigned
<1>1. ASSUME UNCHANGED <<call, mover, docVars>> PROVE DocsSigned'
  BY <1>1 DEF docVars
<1>2. CASE UNCHANGED vars \/ Elsewhere
  BY <1>1, <1>2, ElsewhereKeepsCalls DEF Elsewhere, vars, tableVars, attemptVars, ledgerVars
<1>3. ASSUME NEW a \in Attempts, WriteDoc(a) PROVE DocsSigned'
  BY <1>3 DEF WriteDoc, tableVars, attemptVars, ledgerVars
<1>4. ASSUME NEW i \in Initiatives, Amend(i) PROVE DocsSigned'
  BY <1>4 DEF Amend, tableVars, attemptVars, ledgerVars
<1>5. ASSUME NEW i \in Initiatives, Approve(i) PROVE DocsSigned'
  <2>1. /\ doc' = [doc EXCEPT ![i] = [doc[i] EXCEPT !.approved = TRUE]]
        /\ signed' = signed \cup {doc[i].cites}
        /\ UNCHANGED <<call, mover>>
    BY <1>5 DEF Approve, tableVars, attemptVars, ledgerVars
  <2>2. doc'[i].cites = doc[i].cites
    BY <2>1 DEF Improvement
  <2> QED
    BY <2>1, <2>2
\* Asking takes along the document as it is.
<1>6. ASSUME NEW k \in Keys, NEW c \in Candidates, Ask(k, c, doc[InitiativeOf[c]]),
             UNCHANGED docVars
      PROVE  DocsSigned'
  <2>1. /\ call' = [call EXCEPT ![k] = [candidate |-> c, doc |-> doc[InitiativeOf[c]]]]
        /\ UNCHANGED <<mover, doc, signed>>
    BY <1>6 DEF Ask, attemptVars, docVars
  <2>2. InitiativeOf[c] \in Initiatives
    BY InitiativeAssumption DEF Initiatives
  <2>3. call'[k].doc = doc[InitiativeOf[c]]
    BY <2>1
  <2>4. \A j \in Keys \ {k} : call'[j] = call[j]
    BY <2>1
  <2> QED
    BY <2>1, <2>2, <2>3, <2>4
<1>7. ASSUME NEW k \in Keys, NEW c \in Candidates, Run(k, c) PROVE DocsSigned'
  BY <1>6, <1>7 DEF Run
<1>8. ASSUME NEW k \in Keys, RunAgain(k) PROVE DocsSigned'
  <2>1. Of(k) \in Candidates
    BY <1>8 DEF RunAgain, RepositoryInv, RunsInv, RunsTyped, At, Of
  <2> QED
    BY <1>1, <1>6, <1>8, <2>1 DEF RunAgain, tableVars, attemptVars, ledgerVars
<1>9. ASSUME NEW k \in Keys, Answered(k) PROVE DocsSigned'
  <2>1. UNCHANGED docVars /\ call' = [call EXCEPT ![k] = None]
    BY <1>9 DEF Answered, ApplyRefused, ApplyStale, ApplyEnds, ApplyMoves, Decides, Settles
  <2>2. CASE UNCHANGED mover
    BY <2>1, <2>2 DEF docVars
  <2>3. CASE \E a \in Attempts : ApplyMoves(k, a)
    <3>1. PICK a \in Attempts : ApplyMoves(k, a)
      BY <2>3
    <3>2. /\ mover' = [mover EXCEPT ![a] = k]
          /\ call[k] # None
          /\ call[k].doc.approved
          /\ call[k].doc.cites = a
      BY <3>1 DEF ApplyMoves, Decides, Asked, Approved
    <3> QED
      BY <2>1, <3>2 DEF docVars
  <2> QED
    BY <1>9, <2>2, <2>3 DEF Answered, ApplyRefused, ApplyStale, ApplyEnds, attemptVars
<1>10. CASE \E k \in Keys : \/ MakeBranch(k) \/ CommitPatch(k) \/ Push(k) \/ Succeed(k)
                            \/ Fail(k) \/ Exit(k)
  BY <1>1, <1>10 DEF MakeBranch, CommitPatch, Push, Succeed, Fail, Exit, tableVars,
    attemptVars, ledgerVars
<1>11. CASE \E k \in Keys : Confirm(k) \/ TellFailed(k) \/ Reconcile(k)
  BY <1>1, <1>11 DEF Confirm, TellFailed, Reconcile, ReconcileReleased, ReconcileAccepted,
    ReconcileNothing, ReconcileFailed, TakesForFailed, StartRecord, RecordFailed, tableVars,
    attemptVars, ledgerVars
<1>12. CASE \/ \E c \in Candidates : DropBranch(c)
            \/ \E v \in Versions : OutsideRelease(v)
  BY <1>1, <1>12 DEF DropBranch, OutsideRelease, tableVars, attemptVars, ledgerVars
<1> QED
  BY <1>2, <1>3, <1>4, <1>5, <1>7, <1>8, <1>9, <1>10, <1>11, <1>12 DEF Next,
    Reconcile

----------------------------------------------------------------------------
(* What landed.                                                            *)

\* What is applying, or released, some call moved.
Moved == \A a \in Attempts : status[a] \in {"applying", "released"} => mover[a] \in Keys

LEMMA MovedStep ==
  ASSUME RepositoryInv, Moved, [Next]_vars
  PROVE  Moved'
<1>1. Kept /\ None \notin Keys
  BY RunsStep, ReleaseAssumption DEF RepositoryInv
<1> QED
  BY <1>1 DEF Moved, Kept

LEMMA RecoverableStep ==
  ASSUME RepositoryInv, LandedIsRecoverable, [Next]_vars
  PROVE  LandedIsRecoverable'
<1>0. /\ RunsInv /\ MadeAgrees /\ CommitsAgree /\ HoldersAgree /\ Kept
      /\ landed \subseteq Attempts
      /\ unseen \subseteq unseen'
      /\ branch \in [Candidates -> Branch]
      /\ cli \in [Keys -> Command]
      /\ None \notin Keys
  BY RunsStep, UnseenGrows, ReleaseAssumption DEF RepositoryInv, RunsInv, RunsTyped,
    RepositoryTyped, RepositoryTypeOK
<1> USE <1>0
<1> SUFFICES ASSUME NEW a \in landed', candidate'[a] \notin unseen'
             PROVE  /\ status'[a] # "failed"
                    /\ status'[a] = "applying" => branch'[candidate'[a]] = Patch(a)
  BY DEF LandedIsRecoverable, Patch
<1>1. CASE a \in landed
  <2>1. /\ a \in Attempts /\ mover[a] \in Keys
        /\ candidate'[a] = candidate[a]
        /\ candidate[a] \notin unseen /\ candidate[a] \notin unseen'
        /\ status[a] # "failed"
        /\ status[a] = "applying" => branch[candidate[a]] = Patch(a)
    <3>1. a \in Attempts /\ mover[a] \in Keys
      BY <1>1 DEF CommitsAgree
    <3>2. candidate'[a] = candidate[a]
      BY <3>1, MovedStays
    <3> QED
      BY <1>1, <3>1, <3>2 DEF LandedIsRecoverable
\* A command that applies a patch of this candidate did not land it.
  <2>2. ASSUME NEW k \in Keys, Applies(k), Of(k) = candidate[a]
        PROVE  /\ AttemptOf(k) # a
               /\ cli[k].made = "branch" => branch[candidate[a]] # Patch(a)
               /\ cli[k].made = "commit" => branch[candidate[a]] # Patch(a)
    <3>1. Patch(a).tip # "base" /\ \A b : Patch(b) = Patch(a) => b = a
      BY DEF Patch
    <3>2. /\ AttemptOf(k) \notin landed
          /\ cli[k].made = "branch" => branch[candidate[a]].tip = "base"
          /\ cli[k].made = "commit" => branch[candidate[a]] = Patch(AttemptOf(k))
      BY <2>1, <2>2 DEF HoldersAgree
    <3>3. AttemptOf(k) # a
      BY <1>1, <3>2
    <3> QED
      BY <3>1, <3>2, <3>3
\* Nor does a --reconcile fail it: it was shown the tag, or the candidate is out.
  <2>3. ASSUME NEW k \in Keys, ReconcileFailed(k), Of(k) = candidate[a],
               branch[candidate[a]] = Patch(a)
        PROVE  FALSE
    <3>1. PICK shown \in SUBSET Tagged :
            cli[k].version \notin shown /\ TakesForFailed(k, shown)
      BY <2>3 DEF ReconcileFailed
    <3>2. cli[k].version \in Versions
      BY <2>3, PatchHasBase DEF ReconcileFailed
    <3>3. shown # Tagged \/ ~Published(cli[k].version)
      BY <3>1, <3>2 DEF Tagged
    <3>4. candidate[a] \in Overlooked(k, shown)
      BY <1>1, <2>3, <3>3 DEF Overlooked
    <3> QED
      BY <2>1, <3>1, <3>4 DEF TakesForFailed
  <2>4. status'[a] # "failed"
    <3>1. ASSUME status'[a] = "failed" PROVE FALSE
      <4>1. PICK k \in Keys : /\ TellFailed(k) \/ ReconcileFailed(k)
                              /\ a = AttemptOf(k) /\ status[a] = "applying"
        BY <2>1, <3>1, OnlyRecordsFail
      <4>2. Of(k) = candidate[a]
        BY <4>1, PatchHasBase DEF TellFailed, ReconcileFailed, At, Working, Applies
      <4>3. ~TellFailed(k)
        BY <2>2, <4>1, <4>2 DEF TellFailed, At, Applies
      <4> QED
        BY <2>1, <2>3, <4>1, <4>2, <4>3
    <3> QED
      BY <3>1
  <2>5. ASSUME status'[a] = "applying" PROVE branch'[candidate[a]] = Patch(a)
    <3>1. /\ status[a] = "applying" /\ branch[candidate[a]] = Patch(a)
          /\ candidate[a] \in Candidates
      BY <2>1, <2>5 DEF Kept, RunsInv, RowsInv, MadeOnBase
    <3>2. ASSUME NEW c, c # candidate[a], NEW b, Points(c, b)
          PROVE  branch'[candidate[a]] = Patch(a)
      BY <3>1, <3>2 DEF Points
    <3>3. ASSUME NEW k \in Keys, MakeBranch(k) PROVE branch'[candidate[a]] = Patch(a)
      <4>1. Of(k) # candidate[a]
        BY <3>1, <3>3 DEF MakeBranch, NoBranch, Patch
      <4> QED
        BY <3>2, <3>3, <4>1 DEF MakeBranch
    <3>4. ASSUME NEW k \in Keys, CommitPatch(k) PROVE branch'[candidate[a]] = Patch(a)
      <4>1. Of(k) # candidate[a]
        BY <2>2, <3>1, <3>4 DEF CommitPatch, At, Applies, MadeAgrees
      <4> QED
        BY <3>2, <3>4, <4>1 DEF CommitPatch
    <3>5. ASSUME NEW b \in Attempts, Removes(b), candidate[b] # candidate[a]
          PROVE  branch'[candidate[a]] = Patch(a)
      BY <3>1, <3>2, <3>5 DEF Removes
    <3>6. ASSUME NEW k \in Keys, TellFailed(k) PROVE branch'[candidate[a]] = Patch(a)
      <4>1. AttemptOf(k) \in Attempts /\ Of(k) = candidate[AttemptOf(k)] /\ Applies(k)
        BY <3>6, PatchHasBase DEF TellFailed, At, Working, Applies
      <4>2. CASE UNCHANGED branch
        BY <3>1, <4>2
      <4>3. CASE cli[k].made # "nothing" /\ Removes(AttemptOf(k))
        <5>1. cli[k].made \in {"branch", "commit"}
          BY <4>3 DEF Command
        <5> QED
          BY <2>2, <3>1, <3>5, <4>1, <4>3, <5>1
      <4> QED
        BY <3>6, <4>2, <4>3, TellFailedEffects
    <3>7. ASSUME NEW k \in Keys, ReconcileFailed(k), Removes(AttemptOf(k))
          PROVE  branch'[candidate[a]] = Patch(a)
      <4>1. AttemptOf(k) \in Attempts /\ Of(k) = candidate[AttemptOf(k)]
        BY <3>7, PatchHasBase DEF ReconcileFailed
      <4> QED
        BY <2>3, <3>1, <3>5, <3>7, <4>1
    <3>8. ASSUME NEW c \in Candidates, DropBranch(c) PROVE branch'[candidate[a]] = Patch(a)
      <4>1. c # candidate[a]
        BY <2>1, <3>1, <3>8 DEF DropBranch, In
      <4> QED
        BY <3>2, <3>8, <4>1 DEF DropBranch
    <3> QED
      BY <3>1, <3>3, <3>4, <3>6, <3>7, <3>8, BranchMoves
  <2> QED
    BY <2>1, <2>4, <2>5
<1>2. CASE a \notin landed
  <2>1. PICK k \in Keys : Succeed(k) /\ a = AttemptOf(k)
    BY <1>2, OnlySucceedLands
  <2>2. /\ Applies(k) /\ cli[k].made = "commit"
        /\ UNCHANGED <<status, candidate, branch, unseen>>
    BY <2>1 DEF Succeed, At, Applies, MadeAgrees, tableVars, attemptVars
  <2>3. Of(k) = candidate[a]
    BY <2>1, <2>2, PatchHasBase DEF Working
  <2> QED
    BY <2>1, <2>2, <2>3 DEF HoldersAgree
<1> QED
  BY <1>1, <1>2

\* A tag contains its candidate's commit, an operator accepted the release without
\* it, or --reconcile mistook the base for it.
Vouched(a, v) == a \in accepted \cup mistaken \/ CarriesPatch(v, candidate[a])

\* What is recorded, or about to be, is vouched for.
RecordedIsVouched ==
  /\ \A a \in Attempts, v \in Versions :
       <<a, v>> \in recording /\ status[a] = "applying" => Vouched(a, v)
  /\ \A a \in In("released") : Vouched(a, released[a])

LandInv == RepositoryInv /\ Moved /\ LandedIsRecoverable /\ RecordedIsVouched

LEMMA VouchedStays ==
  ASSUME RepositoryInv, [Next]_vars, NEW a \in Attempts, NEW v \in Versions,
         mover[a] \in Keys, Vouched(a, v)
  PROVE  Vouched(a, v)'
<1>0. RunsInv /\ CommitsAgree /\ tag \in [Versions -> Tag]
  BY DEF RepositoryInv, RepositoryTyped, RepositoryTypeOK
<1>1. CASE a \in accepted \cup mistaken
  <2>1. accepted \cup mistaken \subseteq accepted' \cup mistaken'
    BY DEF Next, Elsewhere, WriteDoc, Amend, Approve, Run, RunAgain, Answered, MakeBranch,
      CommitPatch, Push, Succeed, Confirm, Fail, TellFailed, Exit, ReconcileReleased,
      ReconcileAccepted, ReconcileNothing, ReconcileFailed, TakesForFailed, DropBranch,
      OutsideRelease, vars, cliVars, historyVars
  <2> QED
    BY <1>1, <2>1 DEF Vouched
<1>2. CASE CarriesPatch(v, candidate[a])
  <2>1. PICK b \in tag[v].patches : candidate[b] = candidate[a]
    BY <1>2 DEF CarriesPatch
  <2>2. b \in Attempts /\ mover[b] \in Keys /\ Published(v)
    BY <1>0, <2>1 DEF CommitsAgree, Tag, Unpublished
  <2>3. b \in tag'[v].patches
    BY <2>1, <2>2, TagsGrow
  <2>4. candidate'[b] = candidate'[a]
    BY <1>0, <2>1, <2>2, MovedStays
  <2> QED
    BY <2>3, <2>4 DEF Vouched, CarriesPatch
<1> QED
  BY <1>1, <1>2 DEF Vouched

\* Who starts a recording vouches for it.
LEMMA RecordingIsVouched ==
  ASSUME RepositoryInv, [Next]_vars,
         NEW a \in Attempts, NEW v \in Versions, <<a, v>> \in recording' \ recording
  PROVE  Vouched(a, v)'
<1>0. RunsInv /\ CommitsAgree /\ branch \in [Candidates -> Branch]
  BY DEF RepositoryInv, RepositoryTyped, RepositoryTypeOK
<1>1. PICK k \in Keys : /\ Confirm(k) \/ ReconcileReleased(k) \/ ReconcileAccepted(k)
                        /\ a = AttemptOf(k) /\ v = cli[k].version
                        /\ UNCHANGED candidate
  <2>1. ASSUME NEW k \in Keys, Confirm(k) \/ ReconcileReleased(k) \/ ReconcileAccepted(k)
        PROVE  a = AttemptOf(k) /\ v = cli[k].version /\ UNCHANGED candidate
    BY <2>1 DEF Confirm, ReconcileReleased, ReconcileAccepted, StartRecord, attemptVars
  <2>2. ASSUME UNCHANGED recording \/ recording' \subseteq recording PROVE FALSE
    BY <2>2
  <2>3. ~Elsewhere
    <3>1. \A b \in Attempts, u \in Versions : ~(CommitRecord(b, u) \/ DropRecord(b, u))
      BY <2>2 DEF CommitRecord, DropRecord
    <3> QED
      BY <2>2, <3>1 DEF Elsewhere, Arrives, Register, Deploy, Propose, Prepare,
        RecordRolledBack, StartVerify, CommitVerify, DropVerify, Decide
  <2>4. ~ \E k \in Keys : RunAgain(k) \/ Answered(k) \/ TellFailed(k)
    BY <2>2 DEF RunAgain, Answered, TellFailed, Ask, ApplyRefused, ApplyStale, ApplyEnds,
      ApplyMoves, RecordFailed, tableVars
  <2>5. ~ UNCHANGED tableVars
    BY <2>2 DEF tableVars
  <2>6. ~ \E k \in Keys : ReconcileNothing(k) \/ ReconcileFailed(k)
    BY <2>2, <2>5 DEF ReconcileNothing, ReconcileFailed, TakesForFailed, RecordFailed
  <2>7. \A j \in Keys, c \in Candidates : ~Run(j, c)
    BY <2>2 DEF Run, Ask
  <2> QED
    BY <2>1, <2>3, <2>4, <2>5, <2>6, <2>7 DEF Next, WriteDoc, Amend, Approve, MakeBranch,
      CommitPatch, Push, Succeed, Fail, Exit, DropBranch, OutsideRelease, vars
<1>2. CASE Confirm(k)
  <2>1. a \in tag'[v].patches
    BY <1>1, <1>2 DEF Confirm, repositoryVars
  <2> QED
    BY <2>1 DEF Vouched, CarriesPatch
<1>3. CASE ReconcileAccepted(k)
  BY <1>1, <1>3 DEF ReconcileAccepted, Vouched
<1>4. CASE ReconcileReleased(k)
  <2>1. /\ Of(k) = candidate[a] /\ Of(k) \in Candidates
        /\ ContainsTip(v, Of(k)) /\ UNCHANGED tag
    BY <1>0, <1>1, <1>4, PatchHasBase DEF ReconcileReleased, Reconciles
  <2>2. CASE branch[Of(k)].tip = "base"
    BY <1>1, <1>4, <2>2 DEF ReconcileReleased, Vouched
  <2>3. CASE branch[Of(k)].tip = "patch"
    <3>1. PICK b \in Attempts : branch[Of(k)] = Patch(b)
      BY <1>0, <2>1, <2>3 DEF Branch, Patch, NoBranch
    <3>2. b \in tag[v].patches
      BY <2>1, <3>1 DEF ContainsTip, Patch
    <3>3. candidate[b] = Of(k)
      BY <1>0, <2>1, <3>1 DEF CommitsAgree
    <3> QED
      BY <1>1, <2>1, <3>2, <3>3 DEF Vouched, CarriesPatch
  <2> QED
    BY <2>1, <2>2, <2>3 DEF ContainsTip
<1> QED
  BY <1>1, <1>2, <1>3, <1>4

LEMMA VouchedStep ==
  ASSUME LandInv, [Next]_vars
  PROVE  RecordedIsVouched'
<1>0. RepositoryInv /\ RunsInv /\ RowsInv /\ Moved /\ RecordedIsVouched /\ Kept
  BY RunsStep DEF LandInv, RepositoryInv, RunsInv
<1>1. ASSUME NEW a \in Attempts, NEW v \in Versions,
             <<a, v>> \in recording', status'[a] = "applying"
      PROVE  Vouched(a, v)'
  <2>1. CASE <<a, v>> \in recording
    <3>1. status[a] = "applying"
      BY <1>0, <1>1, <2>1 DEF Kept, RowsInv, RecordingSound, Waiting
    <3> QED
      BY <1>0, <2>1, <3>1, VouchedStays DEF RecordedIsVouched, Moved
  <2> QED
    BY <1>0, <1>1, <2>1, RecordingIsVouched
<1>2. ASSUME NEW a \in Attempts, status'[a] = "released"
      PROVE  Vouched(a, released[a])'
  <2>1. CASE status[a] = "released" /\ released'[a] = released[a]
    <3>1. Vouched(a, released[a]) /\ mover[a] \in Keys /\ released[a] \in Versions
      BY <1>0, <2>1 DEF RecordedIsVouched, In, Moved, RowsInv, ReleasedAsVersion, TypeOK
    <3>2. \A v \in Versions : Vouched(a, v) => Vouched(a, v)'
      BY <1>0, <3>1, VouchedStays
    <3> QED
      BY <2>1, <3>1, <3>2 DEF Vouched
  <2>2. CASE status[a] = "applying" /\ <<a, released'[a]>> \in recording
    <3>1. released'[a] \in Versions /\ mover[a] \in Keys
      BY <1>0, <2>2 DEF Moved, RowsInv, TypeOK
    <3>2. \A v \in Versions : <<a, v>> \in recording => Vouched(a, v)'
      BY <1>0, <2>2, <3>1, VouchedStays DEF RecordedIsVouched
    <3> QED
      BY <2>2, <3>1, <3>2 DEF Vouched
  <2> QED
    BY <1>0, <1>2, <2>1, <2>2 DEF Kept
<1> QED
  BY <1>1, <1>2 DEF RecordedIsVouched, In

----------------------------------------------------------------------------
(* Of the specification.                                                   *)

LEMMA ReleaseInvariant == Spec => [](LandInv /\ DocsSigned)
<1>1. Init => LandInv /\ DocsSigned
  <2> SUFFICES ASSUME Init PROVE LandInv /\ DocsSigned
    OBVIOUS
  <2>1. RepositoryInv
    BY RepositoryHoldsFirst
  <2>2. /\ landed = {} /\ recording = {}
        /\ \A a \in Attempts : status[a] = "unmade" /\ mover[a] = None
        /\ \A k \in Keys : call[k] = None
        /\ \A i \in Initiatives : ~doc[i].approved
    BY DEF Init, TableInit
  <2> QED
    BY <2>1, <2>2 DEF LandInv, Moved, LandedIsRecoverable, RecordedIsVouched, In, DocsSigned,
      AppliedWasSigned
<1>2. LandInv /\ DocsSigned /\ [Next]_vars => (LandInv /\ DocsSigned)'
  BY RepositoryStep, MovedStep, RecoverableStep, VouchedStep, SignedStep DEF LandInv
<1> QED
  BY <1>1, <1>2, PTL DEF Spec

\* A release as a whole takes the steps of its tables and no others: whatever is
\* proved of the tables holds of it.
THEOREM ReleaseRefinesTable == Spec => TableSpec
<1>1. Init => TableInit
  BY DEF Init
<1>2. LandInv /\ [Next]_vars => [TableNext]_tableVars
  BY TablesStep DEF LandInv, RepositoryInv
<1> QED
  BY <1>1, <1>2, ReleaseInvariant, PTL DEF Spec, TableSpec

\* Documents, commands, tags and branches are of their types.
THEOREM ReleaseTypeCorrect == Spec => []ReleaseTypeOK
<1>1. LandInv => ReleaseTypeOK
  BY DEF LandInv, RepositoryInv, RunsInv, RowsInv, RunsTyped, RepositoryTyped, ReleaseTypeOK
<1> QED
  BY <1>1, ReleaseInvariant, PTL

\* No attempt is applied that no approved improvement.md ever cited, whatever is
\* amended, approved or replayed between reading it and deciding.
THEOREM AppliedSigned == Spec => []AppliedWasSigned
<1>1. DocsSigned => AppliedWasSigned
  BY DEF DocsSigned
<1> QED
  BY <1>1, ReleaseInvariant, PTL

\* However commands die and are run again, two of them never hold one patch.
THEOREM PatchOnce == Spec => []PatchGoesToOneCall
<1>1. LandInv => PatchGoesToOneCall
  BY DEF LandInv, RepositoryInv, RunsInv, CommandsAgree, PatchGoesToOneCall
<1> QED
  BY <1>1, ReleaseInvariant, PTL

\* A release that landed is never recorded failed, and while it waits to be recorded
\* no failure told, no reconciliation and no clearing of branches takes the branch it
\* is recognised by; except of a candidate on which a command was run that did not
\* see it land, or that it had.
THEOREM LandedRecoverable == Spec => []LandedIsRecoverable
<1>1. LandInv => LandedIsRecoverable
  BY DEF LandInv
<1> QED
  BY <1>1, ReleaseInvariant, PTL

\* What is recorded released is recorded under a tag that contains a commit of its
\* candidate, by whichever command and after however many crashes, unless an operator
\* accepted it without or a --reconcile took the base for that commit.
THEOREM ReleasedVouched == Spec => []ReleasedIsVouched
<1>1. LandInv => ReleasedIsVouched
  BY DEF LandInv, RecordedIsVouched, Vouched, ReleasedIsVouched
<1> QED
  BY <1>1, ReleaseInvariant, PTL
============================================================================
