---------------------------- MODULE UploadProofs ----------------------------
(***************************************************************************)
(* What is proved of uploads, for every set of uploads, owners, files,     *)
(* requests, writes and documents, and every limit.                        *)
(***************************************************************************)
EXTENDS Uploads, FiniteSetTheorems, WellFoundedInduction, TLAPS

\* The types, without the counters.
Types ==
  /\ TableTypeOK
  /\ stager \in [Stagers -> Staging \cup {Unserved}]
  /\ ConsumptionTypeOK

\* A body is held only staged and unused; what is used was staged; a row that is
\* not there holds nothing.
RowsWhole ==
  \A u \in Uploads :
    /\ row[u].body => row[u].bytes # None /\ ~row[u].used
    /\ row[u].used => row[u].bytes # None
    /\ ~There(u) => row[u].bytes = None

\* A file the row of u was seen or told to hold is what it holds, in the table r.
Bears(r, u, f) == f # None /\ (r[u].bytes = f \/ r[u].life = "deleted")

Sound(r, k) ==
  k.at # "unserved" =>
    /\ k.at \in {"arrived", "binding", "unbound"} => k.file # None
    /\ k.seen # None => Bears(r, k.upload, k.seen)
    /\ k.answer = "bound" =>
         k.at \in {"answered", "flushed"} /\ Bears(r, k.upload, k.file)

StagersHold == \A s \in Stagers : Sound(row, stager[s])

\* A write that read its upload has a file; one told it was written is among the
\* commits cs.
Truthful(cs, k) ==
  /\ k.at \in {"planned", "inside"} => k.file # None
  /\ k.at = "answered" /\ k.said \in {"written", "replayed"} =>
       \E i \in 1..Len(cs) : cs[i].call = k.call

WritersHold == \A w \in Writers : Truthful(commits, writer[w])

\* The uploads used are those of the commits, each of one commit.
CommitsApart ==
  /\ \A i \in 1..Len(commits) :
       /\ row[commits[i].call.upload].used
       /\ row[commits[i].call.upload].bytes = commits[i].file
  /\ \A u \in Uploads :
       row[u].used => \E i \in 1..Len(commits) : commits[i].call.upload = u
  /\ \A i, j \in 1..Len(commits) :
       commits[i].call.upload = commits[j].call.upload => i = j

UploadInv ==
  /\ Types
  /\ RowsWhole
  /\ StagersHold
  /\ ReadyStays
  /\ WritersHold
  /\ CommitsApart
  /\ KeyCommitsOnce

----------------------------------------------------------------------------
(* The start, and what a row keeps in any step.                            *)

\* Nothing is minted, served or written at the start.
LEMMA InitHolds == Init => UploadInv
<1> SUFFICES ASSUME Init PROVE UploadInv
  OBVIOUS
<1> USE DEF Init, TableInit, StagingInit, ConsumptionInit
<1>1. Types
  <2>1. TableTypeOK
    BY DEF TableTypeOK, UploadRow, Lives, Blank
  <2>2. stager \in [Stagers -> Staging \cup {Unserved}]
    BY DEF NoneServed
  <2>3. writer \in [Writers -> Writing \cup {Resting}] /\ commits \in Seq(Commit)
    OBVIOUS
  <2>4. doc \in [Docs -> [gen: Nat, text: Files \cup {None}]]
    OBVIOUS
  <2> QED
    BY <2>1, <2>2, <2>3, <2>4 DEF Types, ConsumptionTypeOK
<1>2. RowsWhole /\ ReadyStays
  BY DEF RowsWhole, ReadyStays, There, Blank
<1>3. StagersHold /\ WritersHold
  BY DEF StagersHold, Sound, NoneServed, Unserved, WritersHold, Truthful, Resting
<1>4. CommitsApart /\ KeyCommitsOnce
  BY DEF CommitsApart, KeyCommitsOnce, Blank
<1> QED
  BY <1>1, <1>2, <1>3, <1>4 DEF UploadInv

\* Bytes once bound stay, until the row of an upload never used is deleted; and
\* what is deleted stays so.
Keeps(u) ==
  /\ row[u].bytes # None =>
       row'[u].bytes = row[u].bytes \/ (~row[u].used /\ row'[u].life = "deleted")
  /\ row[u].life = "deleted" => row'[u].life = "deleted"

\* What a request was told stays so in any step that keeps bytes.
LEMMA SoundOn ==
  ASSUME NEW k \in Staging, Sound(row, k), \A u \in Uploads : Keeps(u)
  PROVE  Sound(row', k)
<1>1. k.upload \in Uploads
  BY DEF Staging
<1>2. ASSUME NEW f, Bears(row, k.upload, f) PROVE Bears(row', k.upload, f)
  BY <1>1, <1>2 DEF Keeps, Bears
<1> QED
  BY <1>2 DEF Sound

\* A step that keeps bytes and moves one request, to where it is sound, keeps all
\* of them sound.
LEMMA StagersOn ==
  ASSUME Types, StagersHold, \A u \in Uploads : Keeps(u),
         \/ stager' = stager
         \/ \E s \in Stagers, k \in Staging \cup {Unserved} :
              stager' = [stager EXCEPT ![s] = k] /\ Sound(row', k)
  PROVE  StagersHold' /\ stager' \in [Stagers -> Staging \cup {Unserved}]
<1>1. \A k \in Staging \cup {Unserved} : Sound(row, k) => Sound(row', k)
  BY SoundOn DEF Sound, Unserved
<1>2. stager \in [Stagers -> Staging \cup {Unserved}]
  BY DEF Types
<1> QED
  BY <1>1, <1>2 DEF StagersHold

\* A commit is of an upload.
LEMMA CommitTyped ==
  ASSUME Types, NEW i \in 1..Len(commits)
  PROVE  /\ commits[i].call \in Call
         /\ commits[i].call.upload \in Uploads
         /\ commits[i].file \in Files
<1>1. commits[i] \in Commit
  BY DEF Types, ConsumptionTypeOK
<1>2. commits[i].call \in Calls /\ commits[i].file \in Files
  BY <1>1 DEF Commit
<1> QED
  BY <1>2 DEF Calls, Call

\* A step that commits nothing, keeps what is used, and moves at most one write
\* keeps the commits.
LEMMA CommitsOn ==
  ASSUME Types, RowsWhole, CommitsApart, KeyCommitsOnce, WritersHold,
         UNCHANGED <<doc, commits>>,
         \/ writer' = writer
         \/ \E w \in Writers, k \in Writing \cup {Resting} :
              writer' = [writer EXCEPT ![w] = k] /\ Truthful(commits, k),
         \A u \in Uploads : Keeps(u) /\ row'[u].used = row[u].used
  PROVE  /\ ConsumptionTypeOK'
         /\ CommitsApart'
         /\ KeyCommitsOnce'
         /\ WritersHold'
<1>1. ConsumptionTypeOK'
  BY DEF Types, ConsumptionTypeOK
<1>2. CommitsApart'
  <2>1. \A i \in 1..Len(commits) : commits[i].call.upload \in Uploads
    BY CommitTyped
  <2>2. \A i \in 1..Len(commits) :
          /\ row'[commits[i].call.upload].used
          /\ row'[commits[i].call.upload].bytes = commits[i].file
    BY <2>1 DEF CommitsApart, Keeps, RowsWhole
  <2>3. \A u \in Uploads :
          row'[u].used => \E i \in 1..Len(commits) : commits[i].call.upload = u
    BY DEF CommitsApart
  <2> QED
    BY <2>2, <2>3 DEF CommitsApart
<1>3. KeyCommitsOnce'
  BY DEF KeyCommitsOnce, SameKey
<1>4. WritersHold'
  <2>1. writer \in [Writers -> Writing \cup {Resting}]
    BY DEF Types, ConsumptionTypeOK
  <2> QED
    BY <2>1 DEF WritersHold, Truthful
<1> QED
  BY <1>1, <1>2, <1>3, <1>4

----------------------------------------------------------------------------
(* The table's own steps: minting, time, the sweep.                        *)

\* They keep the types and the rows whole, and what was bound or used.
LEMMA TableRows ==
  ASSUME Types, RowsWhole, ReadyStays, TableNext
  PROVE  /\ TableTypeOK'
         /\ RowsWhole'
         /\ ReadyStays'
         /\ \A u \in Uploads : Keeps(u) /\ row'[u].used = row[u].used
<1>0. \A u \in Uploads : row[u] \in UploadRow /\ row[u].used \in BOOLEAN
  BY DEF Types, TableTypeOK, UploadRow
<1>1. \A life \in Lives : Blank(life) \in UploadRow
  BY DEF Blank, UploadRow
<1> DEFINE Minted(u) == row[u].life = "unminted" /\ row'[u] = Blank("open")
           Aged(u)   == /\ There(u)
                        /\ row'[u] \in UploadRow
                        /\ row'[u].life \in {"over", "old"}
                        /\ row'[u].bytes = row[u].bytes
                        /\ row'[u].body = row[u].body
                        /\ row'[u].used = row[u].used
           Bared(u)  == /\ Expired(u)
                        /\ row'[u] \in UploadRow
                        /\ row'[u].life = row[u].life
                        /\ row'[u].bytes = row[u].bytes
                        /\ row'[u].body = FALSE
                        /\ row'[u].used = row[u].used
           Gone(u)   == Dropped(u) /\ row'[u] = Blank("deleted")
           Step(u) == row'[u] = row[u] \/ Minted(u) \/ Aged(u) \/ Bared(u) \/ Gone(u)
<1>2. /\ DOMAIN row' = Uploads
      /\ row' = [u \in Uploads |-> row'[u]]
      /\ sweeping' \in BOOLEAN
      /\ \A u \in Uploads : Step(u)
  <2>1. ASSUME NEW u \in Uploads, Mint(u) PROVE <1>2
    BY <2>1 DEF Mint, Types, TableTypeOK
  <2>2. ASSUME NEW u \in Uploads, WindowEnds(u) \/ DayPasses(u) PROVE <1>2
    BY <1>0, <2>2 DEF WindowEnds, DayPasses, There, Types, TableTypeOK, UploadRow, Lives
  <2>3. CASE SweepBodies
    BY <1>0, <2>3 DEF SweepBodies, Swept, Types, TableTypeOK, UploadRow
  <2>4. CASE SweepRows
    BY <1>0, <2>4 DEF SweepRows, Types, TableTypeOK
  <2> QED
    BY <2>1, <2>2, <2>3, <2>4 DEF TableNext
<1>3. TableTypeOK'
  <2>1. \A u \in Uploads : row'[u] \in UploadRow
    BY <1>0, <1>1, <1>2 DEF Lives
  <2> QED
    BY <1>2, <2>1 DEF TableTypeOK
<1>4. ASSUME NEW u \in Uploads
      PROVE  /\ row'[u].body => row'[u].bytes # None /\ ~row'[u].used
             /\ row'[u].used => row'[u].bytes # None
             /\ row'[u].life \notin {"open", "over", "old"} => row'[u].bytes = None
             /\ row'[u].bytes # None /\ ~row'[u].used /\ row'[u].life = "open" => row'[u].body
             /\ Keeps(u)
             /\ row'[u].used = row[u].used
  <2>1. CASE row'[u] = row[u]
    BY <2>1 DEF RowsWhole, ReadyStays, There, Keeps
  <2>2. CASE Minted(u)
    <3>1. ~row[u].used /\ row[u].bytes = None
      BY <2>2 DEF RowsWhole, There
    <3>2. row[u].used = FALSE
      BY <1>0, <3>1
    <3>3. /\ row'[u].life = "open" /\ row'[u].bytes = None
          /\ row'[u].body = FALSE /\ row'[u].used = FALSE
      BY <2>2 DEF Blank
    <3>4. Keeps(u)
      BY <2>2, <3>1 DEF Keeps
    <3> QED
      BY <3>2, <3>3, <3>4
  <2>3. CASE Aged(u)
    BY <2>3 DEF RowsWhole, There, Keeps
  <2>4. CASE Bared(u)
    BY <2>4 DEF RowsWhole, There, Expired, Keeps
  <2>5. CASE Gone(u)
    <3>1. row[u].used = FALSE
      BY <1>0, <2>5 DEF Dropped
    <3>2. /\ row'[u].life = "deleted" /\ row'[u].bytes = None
          /\ row'[u].body = FALSE /\ row'[u].used = FALSE
      BY <2>5 DEF Blank
    <3>3. Keeps(u)
      BY <3>1, <3>2 DEF Keeps
    <3> QED
      BY <3>1, <3>2, <3>3
  <2> QED
    BY <1>2, <2>1, <2>2, <2>3, <2>4, <2>5
<1> QED
  BY <1>3, <1>4 DEF RowsWhole, ReadyStays, There

LEMMA TableKeeps ==
  ASSUME UploadInv, TableNext, UNCHANGED <<stagingVars, consumptionVars>>
  PROVE  UploadInv'
<1>1. /\ TableTypeOK'
      /\ RowsWhole'
      /\ ReadyStays'
      /\ \A u \in Uploads : Keeps(u) /\ row'[u].used = row[u].used
  BY TableRows DEF UploadInv
<1>2. stager' = stager /\ UNCHANGED consumptionVars
  BY DEF stagingVars
<1>3. StagersHold'
  BY <1>1, <1>2, StagersOn DEF UploadInv
<1>4. ConsumptionTypeOK' /\ CommitsApart' /\ KeyCommitsOnce' /\ WritersHold'
  BY <1>1, <1>2, CommitsOn DEF UploadInv, consumptionVars
<1>5. Types'
  BY <1>1, <1>2, <1>4 DEF UploadInv, Types
<1> QED
  BY <1>1, <1>3, <1>4, <1>5 DEF UploadInv

----------------------------------------------------------------------------
(* The gateway's steps.                                                    *)

\* Every step of a request, but the bind, moves it to where it is sound and
\* leaves the table alone.
LEMMA RequestMoves ==
  ASSUME Types, StagersHold, NEW s \in Stagers,
         \/ Serve(s)
         \/ \E u \in Uploads : Request(s, u)
         \/ \E f \in Files : Arrive(s, f)
         \/ Fail(s)
         \/ Close(s)
  PROVE  \E k \in Staging \cup {Unserved} :
           stager' = [stager EXCEPT ![s] = k] /\ Sound(row, k)
<1> DEFINE Goal == \E k \in Staging \cup {Unserved} :
                     stager' = [stager EXCEPT ![s] = k] /\ Sound(row, k)
           now == stager[s]
<1>1. row \in [Uploads -> UploadRow]
  BY DEF Types, TableTypeOK
<1>2. now \in Staging \cup {Unserved} /\ Sound(row, now)
  BY DEF Types, StagersHold
<1>3. now.at # "unserved" => now \in Staging
  BY <1>2 DEF Unserved
<1> USE DEF Moves, At
<1>4. ASSUME NEW u \in Uploads, Request(s, u) PROVE Goal
  <2> DEFINE k == [at |-> "looking", upload |-> u, seen |-> None, file |-> None,
                   slot |-> FALSE, here |-> TRUE, answer |-> "none"]
  <2>1. k \in Staging /\ Sound(row, k)
    BY DEF Staging, Sound
  <2> QED
    BY <2>1, <1>4 DEF Request
<1>5. CASE Admit(s)
  <2> DEFINE u == now.upload
             k == [now EXCEPT !.at = "reading", !.seen = row[u].bytes, !.slot = now.here]
  <2>1. now \in Staging /\ u \in Uploads
    BY <1>3, <1>5 DEF Admit, Staging
  <2>2. row[u].bytes \in Files \cup {None}
    BY <1>1, <2>1 DEF UploadRow
  <2>3. k \in Staging
    BY <2>1, <2>2 DEF Staging
  <2>4. Sound(row, k)
    BY <1>2, <1>5, <2>1, <2>3 DEF Admit, Sound, Bears, Staging
  <2>5. stager' = [stager EXCEPT ![s] = k]
    BY <1>5 DEF Admit
  <2> QED
    BY <2>3, <2>4, <2>5
<1>6. ASSUME Refuses(s), now.at # "unserved" PROVE Goal
  <2> DEFINE k == [now EXCEPT !.at = "answered", !.answer = "refused",
                              !.seen = None, !.file = None]
  <2>1. k \in Staging /\ Sound(row, k)
    BY <1>3, <1>6 DEF Staging, Sound
  <2> QED
    BY <1>6, <2>1 DEF Refuses
<1>7. ASSUME NEW f \in Files, Answers(s, f), now.at # "unserved",
             Bears(row, now.upload, f)
      PROVE  Goal
  <2> DEFINE k == [now EXCEPT !.at = "answered", !.answer = "bound",
                              !.seen = None, !.file = f]
  <2>1. k \in Staging /\ Sound(row, k)
    BY <1>3, <1>7 DEF Staging, Sound, Bears
  <2> QED
    BY <1>7, <2>1 DEF Answers
<1>8. CASE TurnAway(s) \/ Late(s) \/ Fail(s)
  BY <1>6, <1>8 DEF TurnAway, Late, Fail
<1>9. ASSUME NEW f \in Files, Arrive(s, f) PROVE Goal
  <2>1. now \in Staging /\ now.at = "reading" /\ f # None
    BY <1>3, <1>9, TableAssumption DEF Arrive
  <2>2. CASE now.seen = None /\ Moves(s, [now EXCEPT !.at = "arrived", !.file = f])
    <3> DEFINE k == [now EXCEPT !.at = "arrived", !.file = f]
    <3>1. k \in Staging
      BY <2>1 DEF Staging
    <3>2. Sound(row, k)
      BY <1>2, <2>1, <2>2 DEF Sound, Staging
    <3> QED
      BY <2>2, <3>1, <3>2
  <2>3. CASE now.seen = f /\ Answers(s, f)
    <3>1. Bears(row, now.upload, f)
      BY <1>2, <2>1, <2>3 DEF Sound
    <3> QED
      BY <1>7, <2>1, <2>3, <3>1
  <2>4. CASE Refuses(s)
    BY <1>6, <2>1, <2>4
  <2> QED
    BY <1>9, <2>2, <2>3, <2>4 DEF Arrive
<1>10. CASE Snapshot(s)
  <2> PICK at \in {"binding", "unbound"} : stager' = [stager EXCEPT ![s] = [now EXCEPT !.at = at]]
    BY <1>10 DEF Snapshot
  <2>1. now \in Staging /\ now.at = "arrived"
    BY <1>3, <1>10 DEF Snapshot
  <2>2. [now EXCEPT !.at = at] \in Staging
    BY <2>1 DEF Staging
  <2>3. Sound(row, [now EXCEPT !.at = at])
    BY <1>2, <2>1 DEF Sound, Staging
  <2> QED
    BY <2>2, <2>3
<1>11. CASE LoseBind(s)
  <2> DEFINE k == [now EXCEPT !.at = "unbound"]
  <2>1. now \in Staging /\ now.at = "binding"
    BY <1>3, <1>11 DEF LoseBind
  <2>2. k \in Staging /\ Sound(row, k)
    BY <1>2, <2>1 DEF Sound, Staging
  <2> QED
    BY <1>11, <2>2 DEF LoseBind
<1>12. CASE Reread(s)
  <2>1. now \in Staging /\ now.at = "unbound"
    BY <1>3, <1>12 DEF Reread
  <2>2. now.file # None /\ now.file \in Files
    BY <1>2, <2>1 DEF Sound, Staging
  <2>3. CASE HoldsOwn(now)
    <3>1. Bears(row, now.upload, now.file)
      BY <2>2, <2>3 DEF HoldsOwn, Bears
    <3> QED
      BY <1>7, <1>12, <2>1, <2>2, <2>3, <3>1 DEF Reread
  <2> QED
    BY <1>6, <1>12, <2>1, <2>3 DEF Reread
<1>13. CASE Flush(s)
  <2> DEFINE k == [now EXCEPT !.at = "flushed", !.slot = FALSE]
  <2>1. now \in Staging /\ now.at = "answered"
    BY <1>3, <1>13 DEF Flush
  <2>2. k \in Staging /\ Sound(row, k)
    BY <1>2, <2>1 DEF Sound, Staging
  <2> QED
    BY <1>13, <2>2 DEF Flush
<1>14. CASE Close(s)
  <2>1. now \in Staging
    BY <1>3, <1>14 DEF Close
  <2> DEFINE left == [now EXCEPT !.here = FALSE, !.slot = FALSE]
             cut  == [left EXCEPT !.at = "answered", !.answer = "refused", !.seen = None]
  <2>2. left \in Staging /\ Sound(row, left)
    BY <1>2, <2>1 DEF Sound, Staging
  <2>3. cut \in Staging /\ Sound(row, cut)
    BY <1>2, <2>1 DEF Sound, Staging
  <2>4. \/ stager' = [stager EXCEPT ![s] = left]
        \/ stager' = [stager EXCEPT ![s] = cut]
    BY <1>14 DEF Close
  <2> QED
    BY <2>2, <2>3, <2>4
<1>15. CASE Leave(s)
  <2>1. Unserved \in Staging \cup {Unserved} /\ Sound(row, Unserved)
    BY DEF Sound, Unserved
  <2> QED
    BY <1>15, <2>1 DEF Leave
<1> QED
  BY <1>4, <1>5, <1>8, <1>9, <1>10, <1>11, <1>12, <1>13, <1>14, <1>15 DEF Serve

\* The bind puts the file into a row that held none.
LEMMA BindRows ==
  ASSUME Types, RowsWhole, ReadyStays, StagersHold, NEW s \in Stagers,
         Bind(s), UNCHANGED sweeping
  PROVE  /\ TableTypeOK'
         /\ RowsWhole'
         /\ ReadyStays'
         /\ \A u \in Uploads : Keeps(u) /\ row'[u].used = row[u].used
         /\ \E k \in Staging \cup {Unserved} :
              stager' = [stager EXCEPT ![s] = k] /\ Sound(row', k)
<1> DEFINE now == stager[s]
           b == now.upload
           f == now.file
           k == [now EXCEPT !.at = "answered", !.answer = "bound",
                            !.seen = None, !.file = f]
<1>1. now \in Staging /\ b \in Uploads
  BY DEF Types, Bind, At, Staging, Unserved
<1>2. f \in Files
  BY <1>1 DEF StagersHold, Sound, Bind, At, Staging
<1>3. f # None
  BY <1>2, TableAssumption
<1>4. row \in [Uploads -> UploadRow] /\ There(b) /\ row[b].bytes = None
  BY DEF Types, TableTypeOK, Bind, StillUnbound
<1>5. ~row[b].used
  BY <1>1, <1>4 DEF RowsWhole
<1>6. /\ \A u \in Uploads \ {b} : row'[u] = row[u]
      /\ row'[b] = [row[b] EXCEPT !.bytes = f, !.body = TRUE]
      /\ row' \in [Uploads -> UploadRow]
  BY <1>1, <1>2, <1>4 DEF Bind, UploadRow
<1>7. /\ row'[b].bytes = f /\ row'[b].body = TRUE
      /\ row'[b].used = row[b].used /\ row'[b].life = row[b].life
  BY <1>1, <1>4, <1>6 DEF UploadRow
<1>8. TableTypeOK'
  BY <1>6 DEF Types, TableTypeOK
<1>9. RowsWhole' /\ ReadyStays'
  BY <1>3, <1>4, <1>5, <1>6, <1>7 DEF RowsWhole, ReadyStays, There
<1>10. \A u \in Uploads : Keeps(u) /\ row'[u].used = row[u].used
  BY <1>4, <1>6, <1>7 DEF Keeps, There
<1>11. k \in Staging
  BY <1>1, <1>2 DEF Staging
<1>12. Sound(row', k)
  BY <1>1, <1>3, <1>7 DEF Sound, Bears, Staging
<1>13. stager' = [stager EXCEPT ![s] = k]
  BY DEF Bind, Answers, Moves
<1> QED
  BY <1>8, <1>9, <1>10, <1>11, <1>12, <1>13

LEMMA StagingKeeps ==
  ASSUME UploadInv, StagingNext, UNCHANGED consumptionVars
  PROVE  UploadInv'
<1>1. /\ TableTypeOK'
      /\ RowsWhole'
      /\ ReadyStays'
      /\ \A u \in Uploads : Keeps(u) /\ row'[u].used = row[u].used
      /\ StagersHold'
      /\ stager' \in [Stagers -> Staging \cup {Unserved}]
  <2>1. ASSUME NEW s \in Stagers, UNCHANGED tableVars,
               \/ Serve(s)
               \/ \E u \in Uploads : Request(s, u)
               \/ \E f \in Files : Arrive(s, f)
               \/ Fail(s)
               \/ Close(s)
        PROVE  <1>1
    <3>1. \A u \in Uploads : Keeps(u)
      BY <2>1 DEF tableVars, Keeps
    <3>2. \E k \in Staging \cup {Unserved} :
            stager' = [stager EXCEPT ![s] = k] /\ Sound(row', k)
      BY <2>1, RequestMoves DEF UploadInv, tableVars
    <3>3. StagersHold' /\ stager' \in [Stagers -> Staging \cup {Unserved}]
      BY <3>1, <3>2, StagersOn DEF UploadInv
    <3>4. TableTypeOK' /\ RowsWhole' /\ ReadyStays'
      BY <2>1 DEF UploadInv, Types, TableTypeOK, RowsWhole, ReadyStays, There, tableVars
    <3> QED
      BY <2>1, <3>1, <3>3, <3>4 DEF tableVars
  <2>2. ASSUME NEW s \in Stagers, Bind(s), UNCHANGED sweeping PROVE <1>1
    BY <2>2, BindRows, StagersOn DEF UploadInv
  <2>3. CASE Restart
    <3>1. row' = row /\ stager' = NoneServed /\ sweeping' = FALSE
      BY <2>3 DEF Restart
    <3>2. StagersHold' /\ stager' \in [Stagers -> Staging \cup {Unserved}]
      BY <3>1 DEF NoneServed, StagersHold, Sound, Unserved
    <3> QED
      BY <3>1, <3>2 DEF UploadInv, Types, TableTypeOK, RowsWhole, ReadyStays, There, Keeps
  <2> QED
    BY <2>1, <2>2, <2>3 DEF StagingNext
<1>2. ConsumptionTypeOK' /\ CommitsApart' /\ KeyCommitsOnce' /\ WritersHold'
  BY <1>1, CommitsOn DEF UploadInv, consumptionVars
<1>3. Types'
  BY <1>1, <1>2 DEF Types
<1> QED
  BY <1>1, <1>2, <1>3 DEF UploadInv

----------------------------------------------------------------------------
(* The writes' steps.                                                      *)

\* Every step of a write that commits nothing leaves table, documents and commits
\* alone, and the write truthful.
LEMMA CallMoves ==
  ASSUME Types, WritersHold, NEW w \in Writers,
         \/ \E c \in Calls : Begin(w, c)
         \/ LookUp(w) \/ Plan(w) \/ RefusePlan(w) \/ Enter(w)
         \/ ReplayInside(w) \/ RefuseUpload(w) \/ Retry(w) \/ RefuseWrite(w)
         \/ Fault(w) \/ Return(w)
  PROVE  /\ UNCHANGED <<row, doc, commits>>
         /\ \E k \in Writing \cup {Resting} :
              writer' = [writer EXCEPT ![w] = k] /\ Truthful(commits, k)
<1> DEFINE now == writer[w]
           Comes(k) == writer' = [writer EXCEPT ![w] = k]
           Goal == \E k \in Writing \cup {Resting} :
                     writer' = [writer EXCEPT ![w] = k] /\ Truthful(commits, k)
<1>1. /\ now \in Writing \cup {Resting} /\ Truthful(commits, now)
      /\ row \in [Uploads -> UploadRow]
      /\ doc \in [Docs -> [gen: Nat, text: Files \cup {None}]]
  BY DEF Types, TableTypeOK, ConsumptionTypeOK, WritersHold
<1>2. now.at # "resting" => now \in Writing
  BY <1>1 DEF Resting
<1>3. UNCHANGED <<row, doc, commits>>
  BY DEF Begin, LookUp, Plan, RefusePlan, Enter, ReplayInside, RefuseUpload,
         Retry, RefuseWrite, Fault, Return, RolledBack, Store
<1> SUFFICES Goal
  BY <1>3
<1> USE DEF Goes, Doing
<1>4. ASSUME Refused(w) PROVE Goal
  <2>1. Truthful(commits, Resting)
    BY DEF Truthful, Resting
  <2> QED
    BY <1>4, <2>1 DEF Refused
<1>5. ASSUME NEW c \in Calls, NEW n \in 1..MaxAttempts, Comes(Attempt(c, n))
      PROVE  Goal
  <2>1. Attempt(c, n) \in Writing /\ Truthful(commits, Attempt(c, n))
    BY DEF Attempt, Writing, Truthful
  <2> QED
    BY <1>5, <2>1
<1>6. 1 \in 1..MaxAttempts
  BY ConsumptionAssumption
<1>7. ASSUME Replay(w), now.at # "resting" PROVE Goal
  <2>1. CASE Committed(now.call)
    <3> DEFINE k == [Attempt(now.call, 1) EXCEPT !.at = "answered", !.said = "replayed"]
    <3>1. writer' = [writer EXCEPT ![w] = k]
      BY <1>7, <2>1 DEF Replay, Says
    <3>2. now.call \in Calls
      BY <1>2, <1>7 DEF Writing
    <3>3. k \in Writing
      BY <1>6, <3>2 DEF Attempt, Writing
    <3>4. k.call = now.call
      BY DEF Attempt
    <3>5. \E i \in 1..Len(commits) : commits[i].call = now.call
      BY <2>1 DEF Committed, KeyHolders
    <3>6. Truthful(commits, k)
      BY <3>4, <3>5 DEF Truthful, Attempt
    <3> QED
      BY <3>1, <3>3, <3>6
  <2> QED
    BY <1>4, <1>7, <2>1 DEF Replay
<1>8. ASSUME NEW c \in Calls, Begin(w, c) PROVE Goal
  BY <1>5, <1>6, <1>8 DEF Begin
<1>9. CASE LookUp(w)
  <2>1. now.at = "asking" /\ now \in Writing
    BY <1>2, <1>9 DEF LookUp
  <2>2. CASE Replay(w)
    BY <1>7, <2>1, <2>2
  <2>3. CASE Comes([now EXCEPT !.at = "planning"])
    <3>1. [now EXCEPT !.at = "planning"] \in Writing
      BY <2>1 DEF Writing
    <3>2. Truthful(commits, [now EXCEPT !.at = "planning"])
      BY <2>1 DEF Truthful, Writing
    <3> QED
      BY <2>3, <3>1, <3>2
  <2> QED
    BY <1>9, <2>2, <2>3 DEF LookUp
<1>10. CASE Plan(w)
  <2>1. now.at = "planning" /\ now \in Writing
    BY <1>2, <1>10 DEF Plan
  <2> DEFINE u == now.call.upload
             g == Gen(now.call)
             f == row[u].bytes
             k == [now EXCEPT !.at = "planned", !.gen = g, !.file = f]
  <2>2. now.call \in Call
    BY <2>1 DEF Writing, Calls
  <2>3. u \in Uploads /\ g \in Nat
    BY <1>1, <2>2 DEF Call, Gen
  <2>4. f \in Files /\ f # None
    BY <1>1, <1>10, <2>3, TableAssumption DEF Plan, Usable, UploadRow
  <2>5. k \in Writing
    BY <2>1, <2>3, <2>4 DEF Writing
  <2>6. Truthful(commits, k)
    BY <2>1, <2>4 DEF Truthful, Writing
  <2>7. writer' = [writer EXCEPT ![w] = k] \/ Refused(w)
    BY <1>10 DEF Plan, Refused
  <2> QED
    BY <1>4, <2>5, <2>6, <2>7
<1>11. CASE Enter(w)
  <2>1. now.at = "planned" /\ now \in Writing
    BY <1>2, <1>11 DEF Enter
  <2> DEFINE t == row[now.call.upload].life = "open"
             k == [now EXCEPT !.at = "inside", !.inTime = t]
  <2>2. k \in Writing
    BY <2>1 DEF Writing
  <2>3. Truthful(commits, k)
    BY <1>1, <2>1 DEF Truthful, Writing
  <2> QED
    BY <1>11, <2>2, <2>3 DEF Enter
<1>12. CASE ReplayInside(w)
  BY <1>7, <1>12 DEF ReplayInside
<1>13. CASE RefusePlan(w) \/ RefuseUpload(w) \/ RefuseWrite(w) \/ Fault(w)
  BY <1>4, <1>13 DEF RefusePlan, RefuseUpload, RefuseWrite, Fault
<1>14. CASE Retry(w)
  <2>1. now.at = "inside" /\ now \in Writing /\ now.att < MaxAttempts
    BY <1>2, <1>14 DEF Retry, Inside, MayRetry
  <2>2. now.call \in Calls /\ now.att + 1 \in 1..MaxAttempts
    BY <2>1, ConsumptionAssumption DEF Writing
  <2> QED
    BY <1>5, <1>14, <2>2 DEF Retry
<1>15. CASE Return(w)
  BY <1>4, <1>15 DEF Return, Refused
<1> QED
  BY <1>8, <1>9, <1>10, <1>11, <1>12, <1>13, <1>14, <1>15

\* The commit: the upload is marked used, the write is one of the commits, the
\* document may change.
Lands(w) == Keep(w) \/ Land(w)

LEMMA LandKeeps ==
  ASSUME UploadInv, NEW w \in Writers, Lands(w), UNCHANGED <<sweeping, stagingVars>>
  PROVE  UploadInv'
<1> DEFINE k == writer[w]
           u == k.call.upload
           n == Len(commits)
           new == [call |-> k.call, file |-> k.file]
           told == [Attempt(k.call, 1) EXCEPT !.at = "answered", !.said = "written"]
<1> USE DEF UploadInv
<1>1. /\ Inside(w) /\ Consumable(k)
      /\ row' = Used(k) /\ commits' = Append(commits, new) /\ Says(w, "written")
  BY DEF Lands, Keep, Land
<1>2. k \in Writing /\ k.at = "inside" /\ k.file # None
  BY <1>1 DEF Types, ConsumptionTypeOK, Inside, Doing, Resting, WritersHold, Truthful
<1>3. k.call \in Calls /\ k.call \in Call /\ u \in Uploads /\ k.file \in Files
  BY <1>2 DEF Writing, Calls, Call
<1>4. row \in [Uploads -> UploadRow] /\ sweeping \in BOOLEAN
  BY DEF Types, TableTypeOK
<1>5. row[u].bytes = k.file /\ ~row[u].used /\ There(u)
  BY <1>1, <1>2, <1>3 DEF Consumable, RowsWhole
<1>6. /\ \A v \in Uploads \ {u} : row'[v] = row[v]
      /\ row' \in [Uploads -> UploadRow]
      /\ row'[u].used = TRUE /\ row'[u].body = FALSE
      /\ row'[u].bytes = k.file /\ row'[u].life = row[u].life
  BY <1>1, <1>3, <1>4, <1>5 DEF Used, UploadRow
<1>7. /\ commits \in Seq(Commit) /\ new \in Commit /\ n \in Nat
      /\ commits' \in Seq(Commit) /\ Len(commits') = n + 1
      /\ commits'[n + 1] = new
      /\ \A i \in 1..n : commits'[i] = commits[i]
  BY <1>1, <1>3 DEF Types, ConsumptionTypeOK, Commit
<1>8. \A v \in Uploads : Keeps(v)
  BY <1>5, <1>6 DEF Keeps
<1>9. StagersHold' /\ stager' \in [Stagers -> Staging \cup {Unserved}]
  BY <1>8, StagersOn DEF stagingVars
<1>10. TableTypeOK'
  BY <1>4, <1>6 DEF TableTypeOK
<1>11. RowsWhole' /\ ReadyStays'
  BY <1>2, <1>5, <1>6 DEF RowsWhole, ReadyStays, There
<1>12. ConsumptionTypeOK' /\ WritersHold'
  <2>1. 1 \in 1..MaxAttempts
    BY ConsumptionAssumption
  <2>2. told \in Writing
    BY <1>3, <2>1 DEF Attempt, Writing
  <2>3. told.call = k.call
    BY DEF Attempt
  <2>4. Truthful(commits', told)
    <3>1. n + 1 \in 1..Len(commits') /\ commits'[n + 1].call = told.call
      BY <1>7, <2>3
    <3> QED
      BY <3>1 DEF Truthful, Attempt
  <2>5. writer' = [writer EXCEPT ![w] = told]
    BY <1>1 DEF Says, Goes
  <2>6. writer \in [Writers -> Writing \cup {Resting}]
    BY DEF Types, ConsumptionTypeOK
  <2>7. \A x \in Writing \cup {Resting} : Truthful(commits, x) => Truthful(commits', x)
    <3> SUFFICES ASSUME NEW i \in 1..n, NEW c, commits[i].call = c
                 PROVE  \E j \in 1..Len(commits') : commits'[j].call = c
      BY DEF Truthful
    <3>1. i \in 1..Len(commits') /\ commits'[i] = commits[i]
      BY <1>7
    <3> QED
      BY <3>1
  <2>8. WritersHold'
    BY <2>4, <2>5, <2>6, <2>7 DEF WritersHold
  <2>9. doc' \in [Docs -> [gen: Nat, text: Files \cup {None}]]
    <3>1. doc \in [Docs -> [gen: Nat, text: Files \cup {None}]]
      BY DEF Types, ConsumptionTypeOK
    <3>2. CASE Keep(w)
      BY <3>1, <3>2 DEF Keep
    <3>3. CASE Land(w)
      <4>1. CASE k.call.doc = None
        BY <3>1, <3>3, <4>1 DEF Land
      <4>2. CASE k.call.doc # None
        <5>1. k.call.doc \in Docs
          BY <1>3, <4>2 DEF Call
        <5> QED
          BY <1>3, <3>1, <3>3, <4>2, <5>1 DEF Land
      <4> QED
        BY <4>1, <4>2
    <3> QED
      BY <3>2, <3>3 DEF Lands
  <2> QED
    BY <1>7, <2>2, <2>5, <2>6, <2>8, <2>9 DEF ConsumptionTypeOK
<1>13. CommitsApart'
  <2>1. \A i \in 1..n : /\ commits[i].call.upload \in Uploads
                        /\ commits[i].call.upload # u
    BY <1>5, CommitTyped DEF CommitsApart
  <2>2. \A i \in 1..Len(commits') :
          /\ row'[commits'[i].call.upload].used
          /\ row'[commits'[i].call.upload].bytes = commits'[i].file
    BY <1>6, <1>7, <2>1 DEF CommitsApart
  <2>3. ASSUME NEW v \in Uploads, row'[v].used
        PROVE  \E i \in 1..Len(commits') : commits'[i].call.upload = v
    <3>1. CASE v = u
      BY <1>7, <3>1
    <3>2. CASE v # u
      <4>1. PICK i \in 1..n : commits[i].call.upload = v
        BY <1>6, <2>3, <3>2 DEF CommitsApart
      <4> QED
        BY <1>7, <4>1
    <3> QED
      BY <3>1, <3>2
  <2>4. \A i, j \in 1..Len(commits') :
          commits'[i].call.upload = commits'[j].call.upload => i = j
    BY <1>7, <2>1 DEF CommitsApart
  <2> QED
    BY <2>2, <2>3, <2>4 DEF CommitsApart
<1>14. KeyCommitsOnce'
  <2>1. \A i \in 1..n : ~SameKey(k.call, commits[i].call)
    BY <1>1 DEF Inside, TakenNow, Taken, KeyHolders
  <2>2. \A i \in 1..n : ~SameKey(commits[i].call, k.call)
    BY <2>1 DEF SameKey
  <2> QED
    BY <1>7, <2>1, <2>2 DEF KeyCommitsOnce
<1>15. Types'
  BY <1>9, <1>10, <1>12 DEF Types
<1> QED
  BY <1>9, <1>11, <1>12, <1>13, <1>14, <1>15

LEMMA ConsumptionKeeps ==
  ASSUME UploadInv, ConsumptionNext, UNCHANGED stagingVars
  PROVE  UploadInv'
<1>1. PICK w \in Writers :
        \/ \E c \in Calls : Begin(w, c)
        \/ LookUp(w) \/ Plan(w) \/ RefusePlan(w) \/ Enter(w)
        \/ ReplayInside(w) \/ RefuseUpload(w) \/ Retry(w) \/ RefuseWrite(w)
        \/ Fault(w) \/ Return(w)
        \/ Lands(w)
  BY DEF ConsumptionNext, Lands
<1>2. CASE Lands(w)
  BY <1>2, LandKeeps DEF ConsumptionNext
<1>3. CASE ~Lands(w)
  <2>1. /\ UNCHANGED <<row, doc, commits>>
        /\ \E k \in Writing \cup {Resting} :
             writer' = [writer EXCEPT ![w] = k] /\ Truthful(commits, k)
    BY <1>1, <1>3, CallMoves DEF UploadInv
  <2>2. sweeping' = sweeping /\ stager' = stager
    BY DEF ConsumptionNext, stagingVars
  <2>3. \A u \in Uploads : Keeps(u) /\ row'[u].used = row[u].used
    BY <2>1 DEF Keeps
  <2>4. StagersHold' /\ TableTypeOK' /\ RowsWhole' /\ ReadyStays'
    BY <2>1, <2>2 DEF UploadInv, StagersHold, Sound, Bears, Types, TableTypeOK,
                      RowsWhole, ReadyStays, There
  <2>5. ConsumptionTypeOK' /\ CommitsApart' /\ KeyCommitsOnce' /\ WritersHold'
    BY <2>1, <2>3, CommitsOn DEF UploadInv
  <2>6. Types'
    BY <2>2, <2>4, <2>5 DEF UploadInv, Types
  <2> QED
    BY <2>4, <2>5, <2>6 DEF UploadInv
<1> QED
  BY <1>2, <1>3

----------------------------------------------------------------------------
(* The theorems.                                                           *)

LEMMA NextKeeps == UploadInv /\ [Next]_vars => UploadInv'
<1> SUFFICES ASSUME UploadInv, [Next]_vars PROVE UploadInv'
  OBVIOUS
<1>1. CASE TableNext /\ UNCHANGED <<stagingVars, consumptionVars>>
  BY <1>1, TableKeeps
<1>2. CASE StagingNext /\ UNCHANGED consumptionVars
  BY <1>2, StagingKeeps
<1>3. CASE ConsumptionNext /\ UNCHANGED stagingVars
  BY <1>3, ConsumptionKeeps
<1>4. CASE UNCHANGED vars
  BY <1>4 DEF vars, tableVars, stagingVars, consumptionVars, UploadInv, Types,
              TableTypeOK, ConsumptionTypeOK, RowsWhole, StagersHold, ReadyStays,
              WritersHold, CommitsApart, KeyCommitsOnce, SameKey, There, Sound, Bears
<1> QED
  BY <1>1, <1>2, <1>3, <1>4 DEF Next

\* upload.ts and upload-consume.ts: the invariant of rows, requests and commits.
THEOREM UploadInvariant == Spec => []UploadInv
  BY InitHolds, NextKeeps, PTL DEF Spec

\* upload.ts, stage: an answer that the bytes are bound stays right, whatever
\* other requests, writes, the sweep and a restart do.
THEOREM AnswersStand == Spec => []AnsweredIsBound
<1>1. UploadInv => AnsweredIsBound
  BY DEF UploadInv, StagersHold, Sound, AnsweredIsBound, Serving, At, Bears
<1> QED
  BY <1>1, UploadInvariant, PTL

\* upload.ts, sweepUploads: nothing takes an unused body before its window ends.
THEOREM BodiesStay == Spec => []ReadyStays
<1>1. UploadInv => ReadyStays
  BY DEF UploadInv
<1> QED
  BY <1>1, UploadInvariant, PTL

\* document-save.ts, saveDocument: a request key is committed once.
THEOREM KeysCommitOnce == Spec => []KeyCommitsOnce
<1>1. UploadInv => KeyCommitsOnce
  BY DEF UploadInv
<1> QED
  BY <1>1, UploadInvariant, PTL

\* document-links.ts, storedRequest: a receipt is given for the very call that
\* was committed.
THEOREM ReceiptsAreTrue == Spec => []AnsweredIsCommitted
<1>1. UploadInv => AnsweredIsCommitted
  BY DEF UploadInv, WritersHold, Truthful, AnsweredIsCommitted, Doing
<1> QED
  BY <1>1, UploadInvariant, PTL

\* upload-consume.ts, consumeUpload: an upload is used by exactly one committed
\* write, or is not used, and the write wrote what was staged.
THEOREM UsedOnce == Spec => []UsedByOneWrite
<1>1. ASSUME UploadInv PROVE UsedByOneWrite
  <2> SUFFICES ASSUME NEW u \in Uploads
               PROVE  LET by == {i \in 1..Len(commits) : commits[i].call.upload = u}
                      IN /\ Cardinality(by) = IF row[u].used THEN 1 ELSE 0
                         /\ \A i \in by : commits[i].file = row[u].bytes
    BY DEF UsedByOneWrite
  <2> DEFINE by == {i \in 1..Len(commits) : commits[i].call.upload = u}
  <2>1. \A i \in by : commits[i].file = row[u].bytes /\ row[u].used
    BY <1>1 DEF UploadInv, CommitsApart
  <2>2. CASE row[u].used
    <3>1. PICK i \in 1..Len(commits) : commits[i].call.upload = u
      BY <1>1, <2>2 DEF UploadInv, CommitsApart
    <3>2. by = {i}
      BY <1>1, <3>1 DEF UploadInv, CommitsApart
    <3>3. Cardinality(by) = 1
      BY <3>2, FS_Singleton
    <3> QED
      BY <2>1, <2>2, <3>3
  <2>3. CASE ~row[u].used
    <3>1. by = {}
      BY <2>1, <2>3
    <3>2. Cardinality(by) = 0
      BY <3>1, FS_EmptySet
    <3> QED
      BY <2>1, <2>3, <3>2
  <2> QED
    BY <2>2, <2>3
<1> QED
  BY <1>1, UploadInvariant, PTL

----------------------------------------------------------------------------
(***************************************************************************)
(* The counters count the slots held, and those that stray.                *)
(*                                                                         *)
(* A slot is held by a request whose connection is there and whose body    *)
(* may arrive, so admitting a request adds one to the slots held, or to    *)
(* the stray ones, and the first of "finish" and "close" takes one off.    *)
(***************************************************************************)

\* What the counters are read against.
Counters ==
  /\ arriving \in [Owners -> 0..InFlight]
  /\ total \in 0..InFlightTotal
  /\ stray \in [Owners -> 0..InFlight]
  /\ raced \subseteq Uploads

\* Only a request admitted, whose connection is there, holds a slot.
Holds(k) == k.at # "unserved" /\ k.slot

SlotsOpen == \A s \in Stagers : Holds(stager[s]) =>
                stager[s].here /\ stager[s].at # "looking"

SlotsFinite ==
  /\ \A o \in Owners : IsFiniteSet(Holding(o))
  /\ IsFiniteSet(Held)
  /\ IsFiniteSet(Strays)

SlotInv == UploadInv /\ Counters /\ SlotsOpen /\ SlotsFinite /\ SlotsCounted

LEMMA HoldsSeen ==
  /\ \A o : Holding(o) = {s \in Stagers : Holds(stager[s]) /\ Owner(s) = o}
  /\ Held = {s \in Stagers : Holds(stager[s])}
BY DEF Holding, Held, Holds, Serving, At

\* A request is of an owner's upload.
LEMMA StagerType ==
  ASSUME Types, NEW s \in Stagers
  PROVE  /\ stager[s] \in Staging \cup {Unserved}
         /\ stager[s].at # "unserved" =>
              /\ stager[s] \in Staging /\ stager[s].upload \in Uploads
              /\ stager[s].slot \in BOOLEAN /\ stager[s].here \in BOOLEAN
              /\ Owner(s) \in Owners
<1>1. stager[s] \in Staging \cup {Unserved}
  BY DEF Types
<1>2. stager[s].at # "unserved" => stager[s] \in Staging
  BY <1>1 DEF Unserved
<1> QED
  BY <1>1, <1>2, TableAssumption DEF Staging, Owner

LEMMA InitSlots == Init => SlotInv
<1> SUFFICES ASSUME Init PROVE SlotInv
  OBVIOUS
<1>1. UploadInv
  BY InitHolds
<1>2. /\ stager = [s \in Stagers |-> Unserved]
      /\ arriving = [o \in Owners |-> 0] /\ stray = [o \in Owners |-> 0]
      /\ total = 0 /\ raced = {}
  BY DEF Init, StagingInit, NoneServed, NoSlots
<1>3. Counters
  BY <1>2, StagingAssumption DEF Counters
<1>4. \A s \in Stagers : ~Holds(stager[s])
  BY <1>2 DEF Holds, Unserved
<1>5. Held = {} /\ \A o : Holding(o) = {}
  BY <1>4, HoldsSeen
<1>6. Strays = {}
  BY <1>2, StagingAssumption DEF Strays
<1>7. SlotsFinite /\ SlotsCounted
  BY <1>2, <1>5, <1>6, FS_EmptySet DEF SlotsFinite, SlotsCounted
<1> QED
  BY <1>1, <1>3, <1>4, <1>7 DEF SlotInv, SlotsOpen

\* A step that moves no slot.
LEMMA SlotsOn ==
  ASSUME SlotInv, UploadInv', UNCHANGED Slots, raced' \subseteq Uploads,
         \A s \in Stagers : /\ Holds(stager'[s]) <=> Holds(stager[s])
                            /\ Holds(stager'[s]) =>
                                 /\ stager'[s].upload = stager[s].upload
                                 /\ stager'[s].here /\ stager'[s].at # "looking"
  PROVE  SlotInv'
<1>1. arriving' = arriving /\ total' = total /\ stray' = stray
  BY DEF Slots
<1>2. /\ \A o : Holding(o)' = {s \in Stagers : Holds(stager'[s])
                                 /\ OwnerOf[stager'[s].upload] = o}
      /\ Held' = {s \in Stagers : Holds(stager'[s])}
  BY DEF Holding, Held, Holds, Serving, At, Owner
<1>3. \A o : Holding(o)' = Holding(o)
  BY <1>2, HoldsSeen DEF Owner
<1>4. Held' = Held
  BY <1>2, HoldsSeen
<1>5. Strays' = Strays
  BY <1>1 DEF Strays
<1>6. Counters' /\ SlotsFinite' /\ SlotsCounted'
  BY <1>1, <1>3, <1>4, <1>5 DEF SlotInv, Counters, SlotsFinite, SlotsCounted
<1> QED
  BY <1>6 DEF SlotInv, SlotsOpen

\* A step that moves one request and no slot.
LEMMA OneMoves ==
  ASSUME SlotInv, UploadInv', UNCHANGED Slots, raced' \subseteq Uploads,
         NEW s \in Stagers, NEW k, stager' = [stager EXCEPT ![s] = k],
         Holds(k) <=> Holds(stager[s]),
         Holds(k) => /\ k.upload = stager[s].upload
                     /\ k.here /\ k.at # "looking"
  PROVE  SlotInv'
<1>1. stager \in [Stagers -> Staging \cup {Unserved}]
  BY DEF SlotInv, UploadInv, Types
<1>2. \A t \in Stagers : stager'[t] = IF t = s THEN k ELSE stager[t]
  BY <1>1
<1>3. \A t \in Stagers : /\ Holds(stager'[t]) <=> Holds(stager[t])
                         /\ Holds(stager'[t]) =>
                              /\ stager'[t].upload = stager[t].upload
                              /\ stager'[t].here /\ stager'[t].at # "looking"
  BY <1>2 DEF SlotInv, SlotsOpen
<1> QED
  BY <1>3, SlotsOn

\* Every step of a request but admission, flush and close moves no slot.
LEMMA SlotlessSteps ==
  ASSUME Types, SlotsOpen, NEW s \in Stagers,
         \/ TurnAway(s) \/ Late(s) \/ Snapshot(s) \/ LoseBind(s) \/ Reread(s)
         \/ Leave(s) \/ Fail(s) \/ Bind(s)
         \/ \E u \in Uploads : Request(s, u)
         \/ \E f \in Files : Arrive(s, f)
  PROVE  \E k : /\ stager' = [stager EXCEPT ![s] = k]
                /\ Holds(k) <=> Holds(stager[s])
                /\ Holds(k) => /\ k.upload = stager[s].upload
                               /\ k.here /\ k.at # "looking"
<1> PICK now : now = stager[s]
  OBVIOUS
<1> DEFINE Fine(k) == /\ stager' = [stager EXCEPT ![s] = k]
                      /\ Holds(k) <=> Holds(now)
                      /\ Holds(k) => /\ k.upload = now.upload
                                     /\ k.here /\ k.at # "looking"
<1>1. /\ now.at # "unserved" => now \in Staging
      /\ Holds(now) => now.here /\ now.at # "looking"
  BY StagerType DEF SlotsOpen
<1>2. ASSUME Refuses(s), now.at # "unserved" PROVE \E k : Fine(k)
  <2> DEFINE k == [now EXCEPT !.at = "answered", !.answer = "refused",
                              !.seen = None, !.file = None]
  <2>1. /\ k.at = "answered" /\ k.slot = now.slot /\ k.upload = now.upload
        /\ k.here = now.here
    BY <1>1, <1>2 DEF Staging
  <2>2. stager' = [stager EXCEPT ![s] = k]
    BY <1>2 DEF Refuses, Moves
  <2> HIDE DEF k
  <2>3. Fine(k)
    BY <1>1, <1>2, <2>1, <2>2 DEF Holds
  <2> QED
    BY <2>3
<1>3. ASSUME NEW f, Answers(s, f), now.at # "unserved" PROVE \E k : Fine(k)
  <2> DEFINE k == [now EXCEPT !.at = "answered", !.answer = "bound",
                              !.seen = None, !.file = f]
  <2>1. /\ k.at = "answered" /\ k.slot = now.slot /\ k.upload = now.upload
        /\ k.here = now.here
    BY <1>1, <1>3 DEF Staging
  <2>2. stager' = [stager EXCEPT ![s] = k]
    BY <1>3 DEF Answers, Moves
  <2> HIDE DEF k
  <2>3. Fine(k)
    BY <1>1, <1>3, <2>1, <2>2 DEF Holds
  <2> QED
    BY <2>3
<1>4. ASSUME NEW a \in {"binding", "unbound"}, now.at # "unserved",
             stager' = [stager EXCEPT ![s] = [now EXCEPT !.at = a]]
      PROVE  \E k : Fine(k)
  <2> DEFINE k == [now EXCEPT !.at = a]
  <2>1. /\ k.at = a /\ k.slot = now.slot /\ k.upload = now.upload
        /\ k.here = now.here
    BY <1>1, <1>4 DEF Staging
  <2>2. stager' = [stager EXCEPT ![s] = k]
    BY <1>4
  <2> HIDE DEF k
  <2>3. Fine(k)
    BY <1>1, <1>4, <2>1, <2>2 DEF Holds
  <2> QED
    BY <2>3
<1>5. CASE TurnAway(s) \/ Late(s) \/ Fail(s)
  BY <1>2, <1>5 DEF TurnAway, Late, Fail, At
<1>6. CASE Snapshot(s) \/ LoseBind(s)
  BY <1>4, <1>6 DEF Snapshot, LoseBind, At, Moves
<1>7. CASE Reread(s)
  BY <1>2, <1>3, <1>7 DEF Reread, At
<1>8. CASE Bind(s)
  BY <1>3, <1>8 DEF Bind, At
<1>9. CASE Leave(s)
  <2>1. stager' = [stager EXCEPT ![s] = Unserved] /\ ~now.here
    BY <1>9 DEF Leave, Moves
  <2>2. ~Holds(Unserved) /\ ~Holds(now)
    BY <1>1, <2>1 DEF Holds, Unserved
  <2> QED
    BY <2>1, <2>2
<1>10. ASSUME NEW u \in Uploads, Request(s, u) PROVE \E k : Fine(k)
  <2> DEFINE k == [at |-> "looking", upload |-> u, seen |-> None, file |-> None,
                   slot |-> FALSE, here |-> TRUE, answer |-> "none"]
  <2>1. stager' = [stager EXCEPT ![s] = k] /\ now.at = "unserved"
    BY <1>10 DEF Request, Moves, At
  <2>2. ~Holds(k) /\ ~Holds(now)
    BY <2>1 DEF Holds
  <2> QED
    BY <2>1, <2>2
<1>11. ASSUME NEW f \in Files, Arrive(s, f) PROVE \E k : Fine(k)
  <2>1. now.at = "reading"
    BY <1>11 DEF Arrive, At
  <2>2. CASE Moves(s, [now EXCEPT !.at = "arrived", !.file = f])
    <3> DEFINE k == [now EXCEPT !.at = "arrived", !.file = f]
    <3>1. /\ k.at = "arrived" /\ k.slot = now.slot /\ k.upload = now.upload
          /\ k.here = now.here
      BY <1>1, <2>1 DEF Staging
    <3>2. stager' = [stager EXCEPT ![s] = k]
      BY <2>2 DEF Moves
    <3> HIDE DEF k
    <3>3. Fine(k)
      BY <1>1, <2>1, <3>1, <3>2 DEF Holds
    <3> QED
      BY <3>3
  <2> QED
    BY <1>2, <1>3, <1>11, <2>1, <2>2 DEF Arrive
<1> QED
  BY <1>5, <1>6, <1>7, <1>8, <1>9, <1>10, <1>11

\* Who holds a slot once one request has moved.
LEMMA HoldsAfter ==
  ASSUME SlotInv, NEW s \in Stagers, NEW k, stager' = [stager EXCEPT ![s] = k],
         Holds(k) => k.here /\ k.at # "looking"
  PROVE  /\ Held' = IF Holds(k) THEN Held \cup {s} ELSE Held \ {s}
         /\ \A o : Holding(o)' = IF Holds(k) /\ OwnerOf[k.upload] = o
                                 THEN Holding(o) \cup {s} ELSE Holding(o) \ {s}
         /\ SlotsOpen'
<1>1. stager \in [Stagers -> Staging \cup {Unserved}]
  BY DEF SlotInv, UploadInv, Types
<1>2. \A t \in Stagers : stager'[t] = IF t = s THEN k ELSE stager[t]
  BY <1>1
<1>3. /\ \A o : Holding(o)' = {t \in Stagers : Holds(stager'[t])
                                 /\ OwnerOf[stager'[t].upload] = o}
      /\ Held' = {t \in Stagers : Holds(stager'[t])}
  BY DEF Holding, Held, Holds, Serving, At, Owner
<1>4. \A o : Holding(o)' = IF Holds(k) /\ OwnerOf[k.upload] = o
                           THEN Holding(o) \cup {s} ELSE Holding(o) \ {s}
  <2> SUFFICES ASSUME NEW o, NEW t
               PROVE  t \in Holding(o)' <=>
                        t \in IF Holds(k) /\ OwnerOf[k.upload] = o
                              THEN Holding(o) \cup {s} ELSE Holding(o) \ {s}
    OBVIOUS
  <2>1. t \in Holding(o) <=>
          t \in Stagers /\ Holds(stager[t]) /\ OwnerOf[stager[t].upload] = o
    BY HoldsSeen DEF Owner
  <2>2. t \in Holding(o)' <=>
          t \in Stagers /\ Holds(stager'[t]) /\ OwnerOf[stager'[t].upload] = o
    BY <1>3
  <2> QED
    BY <1>2, <2>1, <2>2
<1>5. Held' = IF Holds(k) THEN Held \cup {s} ELSE Held \ {s}
  <2> SUFFICES ASSUME NEW t
               PROVE  t \in Held' <=>
                        t \in IF Holds(k) THEN Held \cup {s} ELSE Held \ {s}
    OBVIOUS
  <2> QED
    BY <1>2, <1>3, HoldsSeen
<1>6. SlotsOpen'
  BY <1>2 DEF SlotInv, SlotsOpen
<1> QED
  BY <1>4, <1>5, <1>6

\* The counts as numbers.
LEMMA SlotCounts ==
  ASSUME SlotInv
  PROVE  /\ \A o \in Owners :
              /\ Cardinality(Holding(o)) \in Nat /\ stray[o] \in Nat
              /\ arriving[o] = Cardinality(Holding(o)) + stray[o]
         /\ Cardinality(Held) \in Nat /\ Cardinality(Strays) \in Nat
         /\ total = Cardinality(Held) + Cardinality(Strays)
         /\ InFlight \in Nat /\ InFlightTotal \in Nat
<1>1. Cardinality(Held) \in Nat /\ Cardinality(Strays) \in Nat
  BY FS_CardinalityType DEF SlotInv, SlotsFinite
<1>2. \A o \in Owners : Cardinality(Holding(o)) \in Nat
  BY FS_CardinalityType DEF SlotInv, SlotsFinite
<1> QED
  BY <1>1, <1>2, StagingAssumption DEF SlotInv, SlotsCounted, Counters

\* A request is admitted: one slot more is held, or strays.
LEMMA AdmitCounts ==
  ASSUME SlotInv, UploadInv', NEW s \in Stagers, Admit(s)
  PROVE  SlotInv'
<1> PICK now : now = stager[s]
  OBVIOUS
<1> PICK o : o = Owner(s)
  OBVIOUS
<1> DEFINE k == [now EXCEPT !.at = "reading", !.seen = row[now.upload].bytes,
                            !.slot = now.here]
<1>1. /\ now.at = "looking" /\ arriving[o] < InFlight /\ total < InFlightTotal
      /\ arriving' = [arriving EXCEPT ![o] = arriving[o] + 1]
      /\ total' = total + 1
      /\ stray' = [stray EXCEPT ![o] = stray[o] + IF now.here THEN 0 ELSE 1]
      /\ stager' = [stager EXCEPT ![s] = k] /\ raced' = raced
  BY DEF Admit, At, Room, Moves
<1>2. now \in Staging /\ now.here \in BOOLEAN /\ o \in Owners /\ OwnerOf[now.upload] = o
  BY <1>1, StagerType DEF SlotInv, UploadInv, Owner
<1>3. k.at = "reading" /\ k.slot = now.here /\ k.upload = now.upload /\ k.here = now.here
  BY <1>2 DEF Staging
<1> HIDE DEF k
<1>4. ~Holds(now) /\ (Holds(k) <=> now.here)
  BY <1>1, <1>3 DEF SlotInv, SlotsOpen, Holds
<1>5. s \notin Held /\ \A p : s \notin Holding(p)
  BY <1>4, HoldsSeen
<1>6. /\ Held' = IF now.here THEN Held \cup {s} ELSE Held
      /\ \A p : Holding(p)' = IF now.here /\ p = o THEN Holding(p) \cup {s}
                              ELSE Holding(p)
      /\ SlotsOpen'
  <2>1. Holds(k) => k.here /\ k.at # "looking"
    BY <1>3, <1>4
  <2>2. /\ Held' = IF Holds(k) THEN Held \cup {s} ELSE Held \ {s}
        /\ \A p : Holding(p)' = IF Holds(k) /\ OwnerOf[k.upload] = p
                                THEN Holding(p) \cup {s} ELSE Holding(p) \ {s}
        /\ SlotsOpen'
    BY <1>1, <2>1, HoldsAfter
  <2>3. Held \ {s} = Held /\ \A p : Holding(p) \ {s} = Holding(p)
    BY <1>5
  <2>4. \A p : OwnerOf[k.upload] = p <=> p = o
    BY <1>2, <1>3
  <2> QED
    BY <1>4, <2>2, <2>3, <2>4
<1>7. /\ arriving \in [Owners -> 0..InFlight] /\ stray \in [Owners -> 0..InFlight]
      /\ total \in 0..InFlightTotal /\ raced \subseteq Uploads
  BY DEF SlotInv, Counters
<1>8. stray[o] + 1 <= InFlight
  BY <1>1, <1>2, SlotCounts
<1>9. Counters'
  <2>1. arriving' \in [Owners -> 0..InFlight]
    BY <1>1, <1>2, <1>7, SlotCounts
  <2>2. stray' \in [Owners -> 0..InFlight]
    BY <1>1, <1>2, <1>7, <1>8, SlotCounts
  <2>3. total' \in 0..InFlightTotal
    BY <1>1, <1>7, SlotCounts
  <2> QED
    BY <1>1, <1>7, <2>1, <2>2, <2>3 DEF Counters
<1>10. CASE now.here
  <2>1. stray' = stray /\ Strays' = Strays
    <3>1. stray' = stray
      BY <1>1, <1>2, <1>7, <1>10, SlotCounts
    <3> QED
      BY <3>1 DEF Strays
  <2>2. /\ IsFiniteSet(Held') /\ Cardinality(Held') = Cardinality(Held) + 1
    BY <1>5, <1>6, <1>10, FS_AddElement DEF SlotInv, SlotsFinite
  <2>3. ASSUME NEW p \in Owners
        PROVE  /\ IsFiniteSet(Holding(p)')
               /\ Cardinality(Holding(p)') =
                    Cardinality(Holding(p)) + IF p = o THEN 1 ELSE 0
    <3>1. IsFiniteSet(Holding(p)) /\ Cardinality(Holding(p)) \in Nat
      BY SlotCounts DEF SlotInv, SlotsFinite
    <3> QED
      BY <1>5, <1>6, <1>10, <3>1, FS_AddElement
  <2>4. SlotsFinite'
    BY <2>1, <2>2, <2>3 DEF SlotInv, SlotsFinite
  <2>5. SlotsCounted'
    <3>1. \A p \in Owners : arriving'[p] = Cardinality(Holding(p)') + stray'[p]
      BY <1>1, <1>2, <1>7, <2>1, <2>3, SlotCounts
    <3>2. total' = Cardinality(Held') + Cardinality(Strays')
      BY <1>1, <2>1, <2>2, SlotCounts
    <3> QED
      BY <3>1, <3>2 DEF SlotsCounted
  <2> QED
    BY <1>6, <1>9, <2>4, <2>5 DEF SlotInv
<1>11. CASE ~now.here
  <2> PICK new : new = <<o, stray[o] + 1>>
    OBVIOUS
  <2>1. \A p \in Owners : stray'[p] = IF p = o THEN stray[p] + 1 ELSE stray[p]
    BY <1>1, <1>2, <1>7, <1>11
  <2>2. new \notin Strays /\ Strays' = Strays \cup {new}
    <3>1. new \notin Strays
      BY <1>2, SlotCounts DEF Strays
    <3>2. Strays' = {x \in Owners \X (1..InFlight) : x[2] <= stray'[x[1]]}
      BY DEF Strays
    <3>3. ASSUME NEW p \in Owners, NEW n \in 1..InFlight
          PROVE  n <= stray'[p] <=> (n <= stray[p] \/ <<p, n>> = new)
      <4>1. stray[p] \in Nat /\ n \in Nat
        BY SlotCounts
      <4> QED
        BY <2>1, <4>1
    <3>4. new \in Owners \X (1..InFlight)
      BY <1>2, <1>8, SlotCounts
    <3> QED
      BY <3>1, <3>2, <3>3, <3>4 DEF Strays
  <2>3. IsFiniteSet(Strays') /\ Cardinality(Strays') = Cardinality(Strays) + 1
    BY <2>2, FS_AddElement DEF SlotInv, SlotsFinite
  <2>4. Held' = Held /\ \A p : Holding(p)' = Holding(p)
    BY <1>6, <1>11
  <2>5. SlotsFinite'
    BY <2>3, <2>4 DEF SlotInv, SlotsFinite
  <2>6. SlotsCounted'
    <3>1. \A p \in Owners : arriving'[p] = Cardinality(Holding(p)') + stray'[p]
      BY <1>1, <1>2, <1>7, <2>1, <2>4, SlotCounts
    <3>2. total' = Cardinality(Held') + Cardinality(Strays')
      BY <1>1, <2>3, <2>4, SlotCounts
    <3> QED
      BY <3>1, <3>2 DEF SlotsCounted
  <2> QED
    BY <1>6, <1>9, <2>5, <2>6 DEF SlotInv
<1> QED
  BY <1>2, <1>10, <1>11

\* The first of "finish" and "close" gives the slot back, the second nothing.
LEMMA ReleaseCounts ==
  ASSUME SlotInv, UploadInv', NEW s \in Stagers, ~At(s, "unserved"), Release(s),
         NEW k, stager' = [stager EXCEPT ![s] = k], ~Holds(k), raced' = raced
  PROVE  SlotInv'
<1> PICK now : now = stager[s]
  OBVIOUS
<1> PICK o : o = Owner(s)
  OBVIOUS
<1>1. now.at # "unserved" /\ now.slot \in BOOLEAN /\ o \in Owners
  BY StagerType DEF At, SlotInv, UploadInv
<1>2. raced \subseteq Uploads
  BY DEF SlotInv, Counters
<1>3. CASE ~now.slot
  <2>1. UNCHANGED Slots
    BY <1>3 DEF Release, Releases
  <2>2. ~Holds(now)
    BY <1>3 DEF Holds
  <2> QED
    BY <1>2, <2>1, <2>2, OneMoves
<1>4. CASE now.slot
  <2>1. /\ arriving' = [arriving EXCEPT ![o] =
                          IF arriving[o] > 1 THEN arriving[o] - 1 ELSE 0]
        /\ total' = total - 1 /\ stray' = stray
    BY <1>4 DEF Release, Releases
  <2>2. s \in Held /\ \A p : s \in Holding(p) <=> p = o
    BY <1>1, <1>4, HoldsSeen DEF Holds
  <2>3. /\ Held' = Held \ {s}
        /\ \A p : Holding(p)' = Holding(p) \ {s}
        /\ SlotsOpen'
    BY HoldsAfter
  <2>4. IsFiniteSet(Held') /\ Cardinality(Held') = Cardinality(Held) - 1
    BY <2>2, <2>3, FS_RemoveElement DEF SlotInv, SlotsFinite
  <2>5. ASSUME NEW p \in Owners
        PROVE  /\ IsFiniteSet(Holding(p)')
               /\ Cardinality(Holding(p)') =
                    Cardinality(Holding(p)) - IF p = o THEN 1 ELSE 0
    <3>1. IsFiniteSet(Holding(p)) /\ Cardinality(Holding(p)) \in Nat
      BY SlotCounts DEF SlotInv, SlotsFinite
    <3> QED
      BY <2>2, <2>3, <3>1, FS_RemoveElement
  <2>6. Cardinality(Held') \in Nat /\ Cardinality(Holding(o)') \in Nat
    BY <1>1, <2>4, <2>5, FS_CardinalityType
  <2>7. arriving[o] >= 1 /\ total >= 1
    BY <1>1, <2>4, <2>5, <2>6, SlotCounts
  <2>8. Strays' = Strays
    BY <2>1 DEF Strays
  <2>9. /\ arriving \in [Owners -> 0..InFlight] /\ total \in 0..InFlightTotal
        /\ stray \in [Owners -> 0..InFlight]
    BY DEF SlotInv, Counters
  <2>10. \A p \in Owners : arriving'[p] = arriving[p] - IF p = o THEN 1 ELSE 0
    BY <1>1, <2>1, <2>7, <2>9, SlotCounts
  <2>11. Counters'
    <3>1. arriving' \in [Owners -> 0..InFlight]
      BY <1>1, <2>1, <2>9, SlotCounts
    <3>2. total' \in 0..InFlightTotal
      BY <2>1, <2>7, <2>9, SlotCounts
    <3> QED
      BY <1>2, <2>1, <2>9, <3>1, <3>2 DEF Counters
  <2>12. SlotsFinite'
    BY <2>4, <2>5, <2>8 DEF SlotInv, SlotsFinite
  <2>13. SlotsCounted'
    <3>1. \A p \in Owners : arriving'[p] = Cardinality(Holding(p)') + stray'[p]
      BY <1>1, <2>1, <2>5, <2>10, SlotCounts
    <3>2. total' = Cardinality(Held') + Cardinality(Strays')
      BY <2>1, <2>4, <2>8, SlotCounts
    <3> QED
      BY <3>1, <3>2 DEF SlotsCounted
  <2> QED
    BY <2>3, <2>11, <2>12, <2>13 DEF SlotInv
<1> QED
  BY <1>1, <1>3, <1>4

LEMMA NextCounts == SlotInv /\ [Next]_vars => SlotInv'
<1> SUFFICES ASSUME SlotInv, [Next]_vars PROVE SlotInv'
  OBVIOUS
<1>1. UploadInv' /\ Types /\ raced \subseteq Uploads
  BY NextKeeps DEF SlotInv, UploadInv, Counters
<1>2. ASSUME UNCHANGED stagingVars PROVE SlotInv'
  <2>1. stager' = stager /\ UNCHANGED Slots /\ raced' = raced
    BY <1>2 DEF stagingVars, Slots
  <2> QED
    BY <1>1, <2>1, SlotsOn DEF SlotInv, SlotsOpen
<1>3. CASE Restart
  <2>1. /\ stager' = [s \in Stagers |-> Unserved]
        /\ arriving' = [o \in Owners |-> 0] /\ stray' = [o \in Owners |-> 0]
        /\ total' = 0 /\ raced' = raced
    BY <1>3 DEF Restart, NoneServed, NoSlots
  <2>2. Counters'
    BY <1>1, <2>1, StagingAssumption DEF Counters
  <2>3. \A s \in Stagers : ~Holds(stager'[s])
    BY <2>1 DEF Holds, Unserved
  <2>4. /\ \A o : Holding(o)' = {s \in Stagers : Holds(stager'[s])
                                   /\ OwnerOf[stager'[s].upload] = o}
        /\ Held' = {s \in Stagers : Holds(stager'[s])}
    BY DEF Holding, Held, Holds, Serving, At, Owner
  <2>5. Held' = {} /\ \A o : Holding(o)' = {}
    BY <2>3, <2>4
  <2>6. Strays' = {}
    <3>1. Strays' = {x \in Owners \X (1..InFlight) : x[2] <= stray'[x[1]]}
      BY DEF Strays
    <3> QED
      BY <2>1, <3>1, StagingAssumption
  <2>7. SlotsFinite' /\ SlotsCounted'
    BY <2>1, <2>5, <2>6, FS_EmptySet DEF SlotsFinite, SlotsCounted
  <2> QED
    BY <1>1, <2>2, <2>3, <2>7 DEF SlotInv, SlotsOpen
<1>4. ASSUME NEW s \in Stagers, Admit(s) PROVE SlotInv'
  BY <1>1, <1>4, AdmitCounts
<1>5. ASSUME NEW s \in Stagers, Flush(s) PROVE SlotInv'
  <2> DEFINE k == [stager[s] EXCEPT !.at = "flushed", !.slot = FALSE]
  <2>1. /\ stager[s].at = "answered" /\ Release(s) /\ raced' = raced
        /\ stager' = [stager EXCEPT ![s] = k]
    BY <1>5 DEF Flush, At, Moves
  <2>2. ~Holds(k)
    <3>1. stager[s] \in Staging
      BY <1>1, <2>1, StagerType
    <3> QED
      BY <3>1 DEF Holds, Staging
  <2> HIDE DEF k
  <2> QED
    BY <1>1, <2>1, <2>2, ReleaseCounts DEF At
<1>6. ASSUME NEW s \in Stagers, Close(s) PROVE SlotInv'
  <2> PICK now : now = stager[s]
    OBVIOUS
  <2> DEFINE left == [now EXCEPT !.here = FALSE, !.slot = FALSE]
             cut  == [left EXCEPT !.at = "answered", !.answer = "refused",
                                  !.seen = None]
  <2>1. /\ now.at # "unserved" /\ Release(s) /\ raced' = raced
        /\ \/ stager' = [stager EXCEPT ![s] = left]
           \/ stager' = [stager EXCEPT ![s] = cut]
    BY <1>6 DEF Close, At, Moves
  <2>2. ~Holds(left) /\ ~Holds(cut)
    <3>1. now \in Staging
      BY <1>1, <2>1, StagerType
    <3> QED
      BY <3>1 DEF Holds, Staging
  <2> HIDE DEF left, cut
  <2> QED
    BY <1>1, <2>1, <2>2, ReleaseCounts DEF At
<1>7. ASSUME NEW s \in Stagers, UNCHANGED Slots, raced' \subseteq Uploads,
             \/ TurnAway(s) \/ Late(s) \/ Snapshot(s) \/ LoseBind(s) \/ Reread(s)
             \/ Leave(s) \/ Fail(s) \/ Bind(s)
             \/ \E u \in Uploads : Request(s, u)
             \/ \E f \in Files : Arrive(s, f)
      PROVE  SlotInv'
  <2>1. PICK k : /\ stager' = [stager EXCEPT ![s] = k]
                 /\ Holds(k) <=> Holds(stager[s])
                 /\ Holds(k) => /\ k.upload = stager[s].upload
                                /\ k.here /\ k.at # "looking"
    BY <1>1, <1>7, SlotlessSteps DEF SlotInv
  <2> QED
    BY <1>1, <1>7, <2>1, OneMoves
<1>8. ASSUME NEW s \in Stagers, Bind(s) PROVE SlotInv'
  <2>1. stager[s].at = "binding"
    BY <1>8 DEF Bind, At
  <2>2. stager[s].upload \in Uploads
    BY <1>1, <2>1, StagerType
  <2>3. UNCHANGED Slots /\ raced' \subseteq Uploads
    BY <1>1, <1>8, <2>2 DEF Bind
  <2> QED
    BY <1>7, <1>8, <2>3
<1>9. ASSUME NEW s \in Stagers,
             \/ Serve(s) \/ Fail(s) \/ Close(s)
             \/ \E u \in Uploads : Request(s, u)
             \/ \E f \in Files : Arrive(s, f)
      PROVE  SlotInv'
  <2>1. CASE Admit(s) \/ Flush(s) \/ Close(s)
    BY <1>4, <1>5, <1>6, <2>1
  <2>2. CASE \/ TurnAway(s) \/ Late(s) \/ Snapshot(s) \/ LoseBind(s) \/ Reread(s)
             \/ Leave(s) \/ Fail(s)
             \/ \E u \in Uploads : Request(s, u)
             \/ \E f \in Files : Arrive(s, f)
    <3>1. UNCHANGED Slots /\ raced' = raced
      BY <2>2 DEF TurnAway, Late, Snapshot, LoseBind, Reread, Leave, Fail, Request,
                  Arrive, Aside
    <3> QED
      BY <1>1, <1>7, <2>2, <3>1
  <2> QED
    BY <1>9, <2>1, <2>2 DEF Serve
<1> QED
  BY <1>2, <1>3, <1>8, <1>9 DEF Next, StagingNext, vars

\* upload.ts: the counters, and what they are read against.
THEOREM SlotInvariant == Spec => []SlotInv
BY InitSlots, NextCounts, PTL DEF Spec

\* upload.ts: every row, request, counter and write keeps its type; no counter
\* passes its limit or falls below nothing.
THEOREM UploadsTyped == Spec => []TypeOK
<1>1. SlotInv => TypeOK
  BY DEF SlotInv, UploadInv, Types, Counters, TypeOK, StagingTypeOK
<1> QED
  BY <1>1, SlotInvariant, PTL

\* upload.ts, roomFor: however requests end, the counters count the slots held,
\* of each owner and of all, and those taken for connections already gone.
THEOREM SlotsAreCounted == Spec => []SlotsCounted
<1>1. SlotInv => SlotsCounted
  BY DEF SlotInv
<1> QED
  BY <1>1, SlotInvariant, PTL

----------------------------------------------------------------------------
(***************************************************************************)
(* What an owner holds.                                                    *)
(*                                                                         *)
(* Bytes folds a sum over a set, an element chosen at a time.  What it     *)
(* comes to is proved by induction, on sets of numbers and of subsets: the *)
(* natural numbers are well founded, so a set of them that is not all of   *)
(* them leaves out a least one.                                            *)
(***************************************************************************)

LEMMA NatSetInduction ==
  ASSUME NEW K, 0 \in K, \A n \in Nat : n \in K => n + 1 \in K
  PROVE  Nat \subseteq K
<1> DEFINE Out == Nat \ K
           Less == OpToRel(<, Nat)
<1>1. SUFFICES ASSUME Out # {} PROVE FALSE
  OBVIOUS
<1>2. \A i, j \in Nat : i < j => <<i, j>> \in Less
  BY DEF OpToRel
<1>3. \E m \in Out : \A y \in Out : <<y, m>> \notin Less
  <2>1. IsWellFoundedOn(Less, Nat)
    BY NatLessThanWellFounded, Zenon
  <2>2. Out \subseteq Nat
    OBVIOUS
  <2> HIDE DEF Out, Less
  <2> QED
    BY <1>1, <2>1, <2>2, WFMin
<1>4. PICK m \in Out : \A y \in Out : <<y, m>> \notin Less
  BY <1>3, Zenon
<1>5. m \in Nat /\ m \notin K
  BY <1>4
<1>6. m - 1 \in Nat /\ m - 1 < m /\ (m - 1) + 1 = m
  BY <1>5
<1>7. <<m - 1, m>> \in Less
  <2> HIDE DEF Less
  <2> QED
    BY <1>2, <1>5, <1>6
<1>8. m - 1 \in Out
  BY <1>5, <1>6
<1> QED
  <2> HIDE DEF Out, Less
  <2> QED
    BY <1>4, <1>7, <1>8

\* A set of subsets that has each set all of whose smaller subsets it has.
LEMMA SubsetInduction ==
  ASSUME NEW S, IsFiniteSet(S), NEW K,
         \A T \in SUBSET S : (\A R \in SUBSET T : R # T => R \in K) => T \in K
  PROVE  SUBSET S \subseteq K
<1> DEFINE Ns == {n \in Nat : \A T \in SUBSET S : Cardinality(T) <= n => T \in K}
<1>1. \A T \in SUBSET S : IsFiniteSet(T) /\ Cardinality(T) \in Nat
  BY FS_Subset, FS_CardinalityType
<1>2. \A T \in SUBSET S : \A R \in SUBSET T :
         R # T => Cardinality(R) < Cardinality(T)
  <2> TAKE T \in SUBSET S
  <2> TAKE R \in SUBSET T
  <2>1. Cardinality(R) <= Cardinality(T) /\ (Cardinality(T) = Cardinality(R) => R = T)
    BY <1>1, FS_Subset
  <2>2. Cardinality(R) \in Nat /\ Cardinality(T) \in Nat
    BY <1>1
  <2> QED
    BY <2>1, <2>2
<1>3. 0 \in Ns
  <2> SUFFICES ASSUME NEW T \in SUBSET S, Cardinality(T) <= 0 PROVE T \in K
    OBVIOUS
  <2>1. \A R \in SUBSET T : R # T => Cardinality(R) < 0 /\ Cardinality(R) \in Nat
    BY <1>1, <1>2
  <2>2. \A R \in SUBSET T : R = T
    BY <2>1
  <2> QED
    BY <2>2
<1>4. ASSUME NEW n \in Nat, n \in Ns PROVE n + 1 \in Ns
  <2> SUFFICES ASSUME NEW T \in SUBSET S, Cardinality(T) <= n + 1 PROVE T \in K
    OBVIOUS
  <2>1. \A R \in SUBSET T : R # T => Cardinality(R) <= n
    BY <1>1, <1>2
  <2>2. \A R \in SUBSET T : R # T => R \in K
    BY <1>4, <2>1
  <2> QED
    BY <2>2
<1>5. Nat \subseteq Ns
  <2> HIDE DEF Ns
  <2> QED
    BY <1>3, <1>4, NatSetInduction
<1> QED
  BY <1>1, <1>5

\* What Bytes folds, over the rows r: chosen one at a time.
Chosen(s) == CHOOSE u \in s : TRUE
Weight(r, u) == Size[r[u].bytes]
Sums(r, us, g) ==
  g = [s \in SUBSET us |-> IF s = {} THEN 0
                           ELSE Weight(r, Chosen(s)) + g[s \ {Chosen(s)}]]
BytesIn(r, us) == MapThenSumSet(LAMBDA u : Size[r[u].bytes], us)

\* Rows r hold a file for each of a finite set of uploads.
Bound(r, us) == IsFiniteSet(us) /\ \A u \in us : r[u].bytes \in Files

LEMMA BytesFolds ==
  ASSUME NEW r, NEW us
  PROVE  BytesIn(r, us) = (CHOOSE g : Sums(r, us, g))[us]
BY DEF BytesIn, MapThenSumSet, MapThenFoldSet, Sums, Weight, Chosen

LEMMA ChosenIn ==
  ASSUME NEW s, s # {}
  PROVE  Chosen(s) \in s /\ s \ {Chosen(s)} # s
BY DEF Chosen

LEMMA BoundSubset ==
  ASSUME NEW r, NEW us, Bound(r, us), NEW s \in SUBSET us
  PROVE  Bound(r, s) /\ \A u \in s : Weight(r, u) \in Nat
<1>1. IsFiniteSet(s)
  BY FS_Subset DEF Bound
<1> QED
  BY <1>1, TableAssumption DEF Bound, Weight

\* Two such functions agree where both are defined.
LEMMA SumsAgree ==
  ASSUME NEW r, NEW us, NEW vs, NEW g, NEW h, Bound(r, us),
         Sums(r, us, g), Sums(r, vs, h)
  PROVE  \A s \in SUBSET us : g[s] \in Nat /\ (s \subseteq vs => g[s] = h[s])
<1> DEFINE K == {s \in SUBSET us : g[s] \in Nat /\ (s \subseteq vs => g[s] = h[s])}
<1>1. ASSUME NEW s \in SUBSET us, \A t \in SUBSET s : t # s => t \in K
      PROVE  s \in K
  <2>1. g[s] = IF s = {} THEN 0 ELSE Weight(r, Chosen(s)) + g[s \ {Chosen(s)}]
    BY DEF Sums
  <2>2. s \subseteq vs =>
          h[s] = IF s = {} THEN 0 ELSE Weight(r, Chosen(s)) + h[s \ {Chosen(s)}]
    BY DEF Sums
  <2>3. CASE s = {}
    BY <2>1, <2>2, <2>3
  <2>4. CASE s # {}
    <3>1. s \ {Chosen(s)} \in K
      BY <1>1, <2>4, ChosenIn
    <3>2. Weight(r, Chosen(s)) \in Nat
      BY <2>4, ChosenIn, BoundSubset
    <3> QED
      BY <2>1, <2>2, <2>4, <3>1, <3>2
  <2> QED
    BY <2>3, <2>4
<1>2. IsFiniteSet(us)
  BY DEF Bound
<1>3. SUBSET us \subseteq K
  <2> HIDE DEF K
  <2> QED
    BY <1>1, <1>2, SubsetInduction
<1> QED
  BY <1>3

\* There is one: on the empty set, and on ever larger subsets.
LEMMA SumsExist ==
  ASSUME NEW r, NEW us, Bound(r, us)
  PROVE  \E g : Sums(r, us, g)
<1> DEFINE Small(n) == {s \in SUBSET us : Cardinality(s) <= n}
           Folds(g, s) == IF s = {} THEN 0
                          ELSE Weight(r, Chosen(s)) + g[s \ {Chosen(s)}]
           Ns == {n \in Nat : \E g : g = [s \in Small(n) |-> Folds(g, s)]}
<1>1. \A s \in SUBSET us : IsFiniteSet(s) /\ Cardinality(s) \in Nat
  BY FS_Subset, FS_CardinalityType DEF Bound
<1>2. \A s \in SUBSET us : s # {} =>
         Cardinality(s \ {Chosen(s)}) = Cardinality(s) - 1
  BY <1>1, ChosenIn, FS_RemoveElement
<1>3. \A n \in Nat : \A s \in Small(n + 1) : s # {} => s \ {Chosen(s)} \in Small(n)
  BY <1>1, <1>2
<1>4. 0 \in Ns
  <2>1. \A s \in Small(0) : s = {}
    BY <1>1, FS_EmptySet
  <2> DEFINE g == [s \in Small(0) |-> 0]
  <2>2. g = [s \in Small(0) |-> Folds(g, s)]
    BY <2>1
  <2> QED
    BY <2>2
<1>5. ASSUME NEW n \in Nat, n \in Ns PROVE n + 1 \in Ns
  <2>1. PICK g : g = [s \in Small(n) |-> Folds(g, s)]
    BY <1>5
  <2> DEFINE h == [s \in Small(n + 1) |-> Folds(g, s)]
  <2>2. \A s \in Small(n) : s \in Small(n + 1) /\ h[s] = g[s]
    <3> TAKE s \in Small(n)
    <3>1. s \in Small(n + 1)
      BY <1>1
    <3>2. g[s] = Folds(g, s)
      BY <2>1
    <3> QED
      BY <3>1, <3>2
  <2>3. \A s \in Small(n + 1) : Folds(g, s) = Folds(h, s)
    <3> HIDE DEF h, Small
    <3> QED
      BY <1>3, <2>2
  <2>4. h = [s \in Small(n + 1) |-> Folds(h, s)]
    BY <2>3
  <2> HIDE DEF h, Small, Folds
  <2> QED
    BY <2>4
<1>6. Nat \subseteq Ns
  <2> HIDE DEF Ns
  <2> QED
    BY <1>4, <1>5, NatSetInduction
<1>7. Cardinality(us) \in Ns
  BY <1>1, <1>6
<1>8. PICK g : g = [s \in Small(Cardinality(us)) |-> Folds(g, s)]
  BY <1>7
<1>9. Small(Cardinality(us)) = SUBSET us
  BY <1>1, FS_Subset DEF Bound
<1> QED
  BY <1>8, <1>9 DEF Sums

\* The sum, an element chosen and the rest; a number.
LEMMA BytesChosen ==
  ASSUME NEW r, NEW us, Bound(r, us)
  PROVE  /\ BytesIn(r, us) \in Nat
         /\ us = {} => BytesIn(r, us) = 0
         /\ us # {} => BytesIn(r, us) =
              Weight(r, Chosen(us)) + BytesIn(r, us \ {Chosen(us)})
<1> DEFINE Fold(vs) == CHOOSE g : Sums(r, vs, g)
           rest == us \ {Chosen(us)}
<1>1. \A vs : Bound(r, vs) => Sums(r, vs, Fold(vs)) /\ BytesIn(r, vs) = Fold(vs)[vs]
  BY SumsExist, BytesFolds
<1> HIDE DEF Fold
<1>2. Bound(r, rest)
  BY BoundSubset
<1>3. Fold(us)[us] \in Nat
  BY <1>1, SumsAgree
<1>4. Fold(us)[rest] = Fold(rest)[rest]
  BY <1>1, <1>2, SumsAgree
<1>5. Fold(us)[us] = IF us = {} THEN 0 ELSE Weight(r, Chosen(us)) + Fold(us)[rest]
  BY <1>1 DEF Sums
<1> QED
  BY <1>1, <1>2, <1>3, <1>4, <1>5

\* The same, whichever element is taken.
LEMMA BytesWithout ==
  ASSUME NEW r, NEW us, Bound(r, us), NEW u \in us
  PROVE  BytesIn(r, us) = Weight(r, u) + BytesIn(r, us \ {u})
<1> DEFINE K == {s \in SUBSET us :
                   \A v \in s : BytesIn(r, s) = Weight(r, v) + BytesIn(r, s \ {v})}
<1>1. ASSUME NEW s \in SUBSET us, \A t \in SUBSET s : t # s => t \in K
      PROVE  s \in K
  <2> SUFFICES ASSUME NEW v \in s
               PROVE  BytesIn(r, s) = Weight(r, v) + BytesIn(r, s \ {v})
    OBVIOUS
  <2> DEFINE x == Chosen(s)
             sx == s \ {x}
             sv == s \ {v}
             both == s \ {x, v}
  <2>1. x \in s
    BY ChosenIn
  <2>2. /\ Bound(r, s) /\ Bound(r, both) /\ Bound(r, sv)
        /\ Weight(r, x) \in Nat /\ Weight(r, v) \in Nat
    BY <2>1, BoundSubset
  <2>3. BytesIn(r, s) = Weight(r, x) + BytesIn(r, sx)
    BY <2>1, <2>2, BytesChosen
  <2>4. CASE x = v
    BY <2>3, <2>4
  <2>5. CASE x # v
    <3>1. sx \in K /\ sv \in K
      BY <1>1, <2>1
    <3>2. v \in sx /\ x \in sv /\ sx \ {v} = both /\ sv \ {x} = both
      BY <2>1, <2>5
    <3>3. /\ BytesIn(r, sx) = Weight(r, v) + BytesIn(r, both)
          /\ BytesIn(r, sv) = Weight(r, x) + BytesIn(r, both)
      <4> HIDE DEF x, sx, sv, both
      <4> QED
        BY <3>1, <3>2
    <3>4. BytesIn(r, both) \in Nat
      BY <2>2, BytesChosen
    <3> QED
      <4> HIDE DEF x, sx, sv, both
      <4>1. BytesIn(r, s) = Weight(r, v) + BytesIn(r, sv)
        BY <2>2, <2>3, <3>3, <3>4
      <4> QED
        BY <4>1 DEF sv
  <2> QED
    BY <2>4, <2>5
<1>2. SUBSET us \subseteq K
  <2> HIDE DEF K
  <2> QED
    BY <1>1, SubsetInduction DEF Bound
<1> QED
  BY <1>2

\* More uploads hold no less.
LEMMA BytesGrow ==
  ASSUME NEW r, NEW us, Bound(r, us), NEW part \in SUBSET us
  PROVE  BytesIn(r, part) <= BytesIn(r, us)
<1> DEFINE K == {s \in SUBSET us : part \subseteq s => BytesIn(r, part) <= BytesIn(r, s)}
<1>1. ASSUME NEW s \in SUBSET us, \A t \in SUBSET s : t # s => t \in K
      PROVE  s \in K
  <2>1. CASE ~(part \subseteq s)
    BY <2>1
  <2>2. CASE part = s
    <3>1. BytesIn(r, s) \in Nat
      BY BoundSubset, BytesChosen
    <3> QED
      BY <2>2, <3>1
  <2>3. CASE part \subseteq s /\ part # s
    <3>1. PICK u \in s : u \notin part
      BY <2>3
    <3>2. s \ {u} \in K /\ part \subseteq s \ {u}
      BY <1>1, <2>3, <3>1
    <3>3. BytesIn(r, s) = Weight(r, u) + BytesIn(r, s \ {u})
      BY BoundSubset, BytesWithout
    <3>4. Bound(r, s \ {u}) /\ Weight(r, u) \in Nat /\ Bound(r, part)
      BY BoundSubset
    <3>5. BytesIn(r, s \ {u}) \in Nat /\ BytesIn(r, part) \in Nat
      BY <3>4, BytesChosen
    <3>6. BytesIn(r, part) <= BytesIn(r, s)
      BY <3>2, <3>3, <3>4, <3>5
    <3> QED
      BY <3>6
  <2> QED
    BY <2>1, <2>2, <2>3
<1>2. SUBSET us \subseteq K
  <2> HIDE DEF K
  <2> QED
    BY <1>1, SubsetInduction DEF Bound
<1> QED
  BY <1>2

\* Only what is bound counts.
LEMMA BytesSame ==
  ASSUME NEW r, NEW q, NEW us, Bound(r, us), \A u \in us : q[u].bytes = r[u].bytes
  PROVE  BytesIn(q, us) = BytesIn(r, us)
<1> DEFINE K == {s \in SUBSET us : BytesIn(q, s) = BytesIn(r, s)}
<1>1. ASSUME NEW s \in SUBSET us, \A t \in SUBSET s : t # s => t \in K
      PROVE  s \in K
  <2>1. Bound(r, s)
    BY BoundSubset
  <2>2. Bound(q, s)
    BY <2>1 DEF Bound
  <2>3. CASE s = {}
    BY <2>1, <2>2, <2>3, BytesChosen
  <2>4. CASE s # {}
    <3>1. s \ {Chosen(s)} \in K /\ Chosen(s) \in us
      BY <1>1, <2>4, ChosenIn
    <3>2. Weight(q, Chosen(s)) = Weight(r, Chosen(s))
      BY <3>1 DEF Weight
    <3> QED
      BY <2>1, <2>2, <2>4, <3>1, <3>2, BytesChosen
  <2> QED
    BY <2>3, <2>4
<1>2. SUBSET us \subseteq K
  <2> HIDE DEF K
  <2> QED
    BY <1>1, SubsetInduction DEF Bound
<1> QED
  BY <1>2

----------------------------------------------------------------------------
(* What an owner holds stays below the limit, but for what raced.          *)

\* Of the rows r, the bodies; those that count for o, without the ones in ra.
Bodies(r) == {u \in Uploads : r[u].body}
Counting(r, ra, o) ==
  {u \in Uploads : OwnerOf[u] = o /\ r[u].body /\ r[u].life = "open" /\ u \notin ra}
Counted(r, ra, o) == BytesIn(r, Counting(r, ra, o))

\* While a bind is under way there is room for it: what was bound since its
\* condition was evaluated raced with it, and is not counted.
HasRoom(r, ra, k) ==
  k.at = "binding" => Size[k.file] + Counted(r, ra, OwnerOf[k.upload]) <= Limit

HeldInv ==
  /\ UploadInv
  /\ IsFiniteSet(Bodies(row))
  /\ \A s \in Stagers : HasRoom(row, raced, stager[s])
  /\ \A o \in Owners : Counted(row, raced, o) <= Limit

\* Bodies are of files, and so are what count of them.
LEMMA BodiesBound ==
  ASSUME UploadInv, IsFiniteSet(Bodies(row)), NEW us \in SUBSET Bodies(row)
  PROVE  Bound(row, us) /\ BytesIn(row, us) \in Nat
<1>1. \A u \in us : row[u].bytes \in Files
  BY DEF Bodies, UploadInv, RowsWhole, Types, TableTypeOK, UploadRow
<1>2. Bound(row, us)
  BY <1>1, FS_Subset DEF Bound
<1> QED
  BY <1>2, BytesChosen

LEMMA CountedBound ==
  ASSUME HeldInv, NEW o
  PROVE  /\ Bound(row, Counting(row, raced, o))
         /\ Counted(row, raced, o) \in Nat
<1>1. Counting(row, raced, o) \subseteq Bodies(row)
  BY DEF Counting, Bodies
<1> QED
  BY <1>1, BodiesBound DEF HeldInv, Counted

\* A request in flight with a file has one with a size.
LEMMA FileSized ==
  ASSUME UploadInv, NEW s \in Stagers, stager[s].at \in {"arrived", "binding"}
  PROVE  /\ stager[s] \in Staging /\ stager[s].upload \in Uploads
         /\ stager[s].file \in Files /\ Size[stager[s].file] \in Nat
         /\ OwnerOf[stager[s].upload] \in Owners
<1>1. stager[s] \in Staging
  BY DEF UploadInv, Types, Unserved
<1>2. stager[s].file # None
  BY DEF UploadInv, StagersHold, Sound
<1>3. stager[s].upload \in Uploads /\ stager[s].file \in Files
  BY <1>1, <1>2 DEF Staging
<1> QED
  BY <1>1, <1>3, TableAssumption

\* A step after which nothing else counts, of binds under way that had room.
LEMMA NoMoreHeld ==
  ASSUME HeldInv, UploadInv', IsFiniteSet(Bodies(row')),
         \A u \in Uploads :
           row'[u].body /\ row'[u].life = "open" /\ u \notin raced' =>
             /\ row[u].body /\ row[u].life = "open" /\ u \notin raced
             /\ row'[u].bytes = row[u].bytes,
         \A s \in Stagers :
           /\ HasRoom(row, raced, stager'[s])
           /\ stager'[s].at = "binding" => Size[stager'[s].file] \in Nat
  PROVE  HeldInv'
<1>1. \A o : /\ Counted(row', raced', o) \in Nat /\ Counted(row, raced, o) \in Nat
             /\ Counted(row', raced', o) <= Counted(row, raced, o)
  <2> TAKE o
  <2> DEFINE old == Counting(row, raced, o)
             new == Counting(row', raced', o)
  <2>1. new \subseteq old /\ \A u \in new : row'[u].bytes = row[u].bytes
    BY DEF Counting
  <2>2. Bound(row, old) /\ Counted(row, raced, o) \in Nat
    BY CountedBound
  <2>3. Counted(row', raced', o) = BytesIn(row', new) /\ Counted(row, raced, o) = BytesIn(row, old)
    BY DEF Counted
  <2> HIDE DEF old, new
  <2>4. Bound(row, new)
    BY <2>1, <2>2, BoundSubset
  <2>5. BytesIn(row', new) = BytesIn(row, new)
    BY <2>1, <2>4, BytesSame
  <2>6. BytesIn(row, new) <= BytesIn(row, old) /\ BytesIn(row, new) \in Nat
    BY <2>1, <2>2, <2>4, BytesGrow, BytesChosen
  <2> QED
    BY <2>2, <2>3, <2>5, <2>6
<1>2. \A o \in Owners : Counted(row', raced', o) <= Limit
  BY <1>1, StagingAssumption DEF HeldInv
<1>3. \A s \in Stagers : HasRoom(row', raced', stager'[s])
  BY <1>1, StagingAssumption DEF HasRoom
<1> QED
  BY <1>2, <1>3 DEF HeldInv

\* A bind adds its bytes to what counts only if no other of its owner is under way.
LEMMA BindStaysBelow ==
  ASSUME HeldInv, UploadInv', NEW s \in Stagers, Bind(s)
  PROVE  HeldInv'
<1> DEFINE b == stager[s].upload
           f == stager[s].file
           o == OwnerOf[b]
<1>1. /\ stager[s].at = "binding" /\ row[b].bytes = None
      /\ stager' = [stager EXCEPT ![s] = [stager[s] EXCEPT
                      !.at = "answered", !.answer = "bound", !.seen = None, !.file = f]]
      /\ row' = [row EXCEPT ![b].bytes = f, ![b].body = TRUE]
      /\ raced' = IF Rivals(s) # {} THEN raced \cup {b} ELSE raced
  BY DEF Bind, At, StillUnbound, Answers, Moves
<1>2. stager[s] \in Staging /\ b \in Uploads /\ f \in Files /\ Size[f] \in Nat /\ o \in Owners
  BY <1>1, FileSized DEF HeldInv
<1>3. row \in [Uploads -> UploadRow] /\ stager \in [Stagers -> Staging \cup {Unserved}]
  BY DEF HeldInv, UploadInv, Types, TableTypeOK
<1>4. /\ \A u \in Uploads \ {b} : row'[u] = row[u]
      /\ row'[b].bytes = f /\ row'[b].body /\ row'[b].life = row[b].life
  BY <1>1, <1>2, <1>3 DEF UploadRow
<1>5. /\ \A t \in Stagers \ {s} : stager'[t] = stager[t]
      /\ stager'[s].at = "answered"
  BY <1>1, <1>2, <1>3 DEF Staging
<1>6. HasRoom(row, raced, stager[s])
  BY DEF HeldInv
<1>7. Size[f] + Counted(row, raced, o) <= Limit
  BY <1>1, <1>6 DEF HasRoom
<1>8. \A t \in Stagers : t # s /\ stager[t].at = "binding" /\ OwnerOf[stager[t].upload] = o
         => t \in Rivals(s)
  BY DEF Rivals, At, Owner
<1> HIDE DEF b, f, o
<1>9. IsFiniteSet(Bodies(row'))
  <2>1. Bodies(row') \subseteq Bodies(row) \cup {b}
    BY <1>4 DEF Bodies
  <2>2. IsFiniteSet(Bodies(row) \cup {b})
    BY FS_AddElement DEF HeldInv
  <2> QED
    BY <2>1, <2>2, FS_Subset
<1>10. ASSUME NEW t \in Stagers, stager'[t].at = "binding"
       PROVE  /\ stager'[t] = stager[t] /\ t # s /\ stager[t].at = "binding"
              /\ HasRoom(row, raced, stager'[t]) /\ Size[stager'[t].file] \in Nat
  BY <1>5, <1>10, FileSized DEF HeldInv
<1>11. CASE Rivals(s) # {} \/ b \in raced \/ row[b].life # "open"
  <2>1. \A u \in Uploads :
          row'[u].body /\ row'[u].life = "open" /\ u \notin raced' =>
            /\ row[u].body /\ row[u].life = "open" /\ u \notin raced
            /\ row'[u].bytes = row[u].bytes
    BY <1>1, <1>4, <1>11
  <2>2. \A t \in Stagers : /\ HasRoom(row, raced, stager'[t])
                           /\ stager'[t].at = "binding" => Size[stager'[t].file] \in Nat
    BY <1>10 DEF HasRoom
  <2> QED
    BY <1>9, <2>1, <2>2, NoMoreHeld
<1>12. CASE Rivals(s) = {} /\ b \notin raced /\ row[b].life = "open"
  <2>1. raced' = raced
    BY <1>1, <1>12
  <2>2. ~row[b].body
    BY <1>1, <1>2 DEF HeldInv, UploadInv, RowsWhole
  <2>3. /\ Counting(row', raced', o) = Counting(row, raced, o) \cup {b}
        /\ b \notin Counting(row, raced, o)
        /\ \A p : p # o => Counting(row', raced', p) = Counting(row, raced, p)
    BY <1>2, <1>4, <1>12, <2>1, <2>2 DEF Counting, o
  <2>4. \A p : /\ Bound(row, Counting(row, raced, p)) /\ Counted(row, raced, p) \in Nat
               /\ \A u \in Counting(row, raced, p) : row'[u].bytes = row[u].bytes
               /\ BytesIn(row', Counting(row, raced, p)) = Counted(row, raced, p)
    <3> TAKE p
    <3>1. Bound(row, Counting(row, raced, p)) /\ Counted(row, raced, p) \in Nat
      BY CountedBound
    <3>2. \A u \in Counting(row, raced, p) : row'[u].bytes = row[u].bytes
      BY <1>4, <2>2 DEF Counting
    <3> QED
      BY <3>1, <3>2, BytesSame DEF Counted
  <2>5. Counted(row', raced', o) = Size[f] + Counted(row, raced, o)
    <3> DEFINE before == Counting(row, raced, o)
               all == before \cup {b}
    <3>1. Bound(row', all)
      <4>1. IsFiniteSet(before) /\ \A u \in before : row[u].bytes \in Files
        BY <2>4 DEF Bound
      <4>2. IsFiniteSet(all)
        BY <4>1, FS_AddElement
      <4>3. \A u \in all : row'[u].bytes \in Files
        BY <1>2, <1>4, <2>4, <4>1
      <4> QED
        BY <4>2, <4>3 DEF Bound
    <3>2. b \in all /\ all \ {b} = before
      BY <2>3
    <3>3. BytesIn(row', all) = Weight(row', b) + BytesIn(row', before)
      <4> HIDE DEF all, before
      <4> QED
        BY <3>1, <3>2, BytesWithout
    <3> QED
      BY <1>4, <2>3, <2>4, <3>3 DEF Weight, Counted
  <2>6. \A p : p # o => Counted(row', raced', p) = Counted(row, raced, p)
    BY <2>3, <2>4 DEF Counted
  <2>7. \A p \in Owners : Counted(row', raced', p) <= Limit
    BY <1>7, <2>5, <2>6 DEF HeldInv
  <2>8. \A t \in Stagers : HasRoom(row', raced', stager'[t])
    <3> SUFFICES ASSUME NEW t \in Stagers, stager'[t].at = "binding"
                 PROVE  HasRoom(row', raced', stager'[t])
      BY DEF HasRoom
    <3>1. /\ stager'[t] = stager[t] /\ HasRoom(row, raced, stager'[t])
          /\ t # s /\ stager[t].at = "binding"
      BY <1>10
    <3>2. OwnerOf[stager'[t].upload] # o
      BY <1>8, <1>12, <3>1
    <3> QED
      BY <2>6, <3>1, <3>2 DEF HasRoom
  <2> QED
    BY <1>9, <2>7, <2>8 DEF HeldInv
<1> QED
  BY <1>11, <1>12

\* A bind under way was so before the step, or its condition has just been evaluated.
LEMMA BindersHeld ==
  ASSUME UploadInv, NEW s \in Stagers, NEW t \in Stagers,
         \/ Serve(s) \/ Fail(s) \/ Close(s)
         \/ \E u \in Uploads : Request(s, u)
         \/ \E f \in Files : Arrive(s, f),
         stager'[t].at = "binding"
  PROVE  /\ stager'[t].upload = stager[t].upload /\ stager'[t].file = stager[t].file
         /\ stager[t].at = "binding" \/ (stager[t].at = "arrived" /\ Fits(t))
<1> DEFINE k == stager[s]
<1>1. stager \in [Stagers -> Staging \cup {Unserved}]
  BY DEF UploadInv, Types
<1>2. k.at # "unserved" => k \in Staging
  BY <1>1 DEF Unserved
<1>3. PICK now : stager' = [stager EXCEPT ![s] = now]
  BY DEF Serve, Admit, TurnAway, Late, Snapshot, LoseBind, Reread, Flush, Leave, Fail, Close,
         Request, Arrive, Moves, Refuses, Answers
<1>4. CASE t # s
  BY <1>1, <1>3, <1>4
<1>5. CASE t = s
  <2>1. stager'[s].at = "binding" /\ stager'[s] = now
    BY <1>1, <1>3, <1>5
  <2>2. k.at # "unserved" => ~Refuses(s)
    BY <1>1, <1>2, <2>1 DEF Refuses, Moves, Staging
  <2>3. k.at # "unserved" => \A f : ~Answers(s, f)
    BY <1>1, <1>2, <2>1 DEF Answers, Moves, Staging
  <2>4. CASE Close(s)
    <3>1. k \in Staging
      BY <1>2, <2>4 DEF Close, At
    <3> QED
      BY <1>1, <1>5, <2>1, <2>4, <3>1 DEF Close, Moves, At, Staging
  <2>5. CASE Snapshot(s)
    <3>1. k \in Staging
      BY <1>2, <2>5 DEF Snapshot, At
    <3> QED
      BY <1>1, <1>5, <2>1, <2>5, <3>1 DEF Snapshot, Moves, At, Staging
  <2>6. ~TurnAway(s) /\ ~Late(s) /\ ~Reread(s) /\ ~Fail(s)
    BY <2>2, <2>3 DEF TurnAway, Late, Reread, Fail, At
  <2>7. ~LoseBind(s) /\ ~Admit(s) /\ ~Flush(s)
    <3>1. ~LoseBind(s)
      BY <1>1, <1>2, <2>1 DEF LoseBind, Moves, At, Staging
    <3>2. ~Admit(s)
      BY <1>1, <1>2, <2>1 DEF Admit, Moves, At, Staging
    <3>3. ~Flush(s)
      <4> SUFFICES ASSUME Flush(s) PROVE FALSE
        OBVIOUS
      <4>1. k \in Staging /\ Moves(s, [k EXCEPT !.at = "flushed", !.slot = FALSE])
        BY <1>2 DEF Flush, At
      <4>2. stager'[s] = [k EXCEPT !.at = "flushed", !.slot = FALSE]
        BY <1>1, <4>1 DEF Moves
      <4> QED
        BY <2>1, <4>1, <4>2 DEF Staging
    <3> QED
      BY <3>1, <3>2, <3>3
  <2>8. ~Leave(s) /\ \A u : ~Request(s, u)
    BY <1>1, <2>1 DEF Leave, Request, Moves, Unserved
  <2>9. \A f : ~Arrive(s, f)
    <3> SUFFICES ASSUME NEW f, Arrive(s, f) PROVE FALSE
      OBVIOUS
    <3>1. k \in Staging /\ k.at = "reading"
      BY <1>2 DEF Arrive, At
    <3>2. Moves(s, [k EXCEPT !.at = "arrived", !.file = f])
      BY <2>2, <2>3, <3>1 DEF Arrive
    <3>3. stager'[s] = [k EXCEPT !.at = "arrived", !.file = f]
      BY <1>1, <3>2 DEF Moves
    <3> QED
      BY <2>1, <3>1, <3>3 DEF Staging
  <2> QED
    BY <2>4, <2>5, <2>6, <2>7, <2>8, <2>9 DEF Serve
<1> QED
  BY <1>4, <1>5

\* Neither time, the sweep, nor a write adds a body.
LEMMA NoBodyAdded ==
  ASSUME UploadInv, TableNext \/ ConsumptionNext, NEW u \in Uploads, row'[u].body
  PROVE  /\ row[u].body
         /\ row'[u].bytes = row[u].bytes
         /\ row'[u].life = "open" => row[u].life = "open"
<1>1. row \in [Uploads -> UploadRow]
  BY DEF UploadInv, Types, TableTypeOK
<1>2. ASSUME NEW v \in Uploads, Mint(v) \/ WindowEnds(v) \/ DayPasses(v)
      PROVE  /\ row[u].body
             /\ row'[u].bytes = row[u].bytes
             /\ row'[u].life = "open" => row[u].life = "open"
  BY <1>1, <1>2 DEF Mint, WindowEnds, DayPasses, Blank, UploadRow
<1>3. CASE SweepBodies \/ SweepRows
  BY <1>1, <1>3 DEF SweepBodies, SweepRows, Blank, UploadRow
<1>4. CASE ConsumptionNext
  <2>1. PICK w \in Writers : row' = row \/ row' = Used(writer[w])
    BY <1>4 DEF ConsumptionNext, Begin, LookUp, Plan, RefusePlan, Enter, ReplayInside,
      RefuseUpload, Retry, RefuseWrite, Keep, Land, Fault, Return, Store, RolledBack
  <2>2. CASE row' = row
    BY <2>2
  <2>3. CASE row' = Used(writer[w])
    BY <1>1, <2>3 DEF Used, UploadRow
  <2> QED
    BY <2>1, <2>2, <2>3
<1> QED
  BY <1>2, <1>3, <1>4 DEF TableNext

LEMMA InitHeld == Init => HeldInv
<1> SUFFICES ASSUME Init PROVE HeldInv
  OBVIOUS
<1>1. UploadInv
  BY InitHolds
<1>2. Bodies(row) = {} /\ \A o : Counting(row, raced, o) = {}
  BY DEF Init, TableInit, Blank, Bodies, Counting
<1>3. IsFiniteSet(Bodies(row))
  BY <1>2, FS_EmptySet
<1>4. \A o : Counted(row, raced, o) = 0
  <2>1. Bound(row, {}) /\ BytesIn(row, {}) = 0
    BY <1>2, FS_EmptySet, BytesChosen DEF Bound
  <2> QED
    BY <1>2, <2>1 DEF Counted
<1>5. \A s \in Stagers : HasRoom(row, raced, stager[s])
  BY DEF Init, StagingInit, NoneServed, Unserved, HasRoom
<1> QED
  BY <1>1, <1>3, <1>4, <1>5, StagingAssumption DEF HeldInv

LEMMA NextHeld == HeldInv /\ [Next]_vars => HeldInv'
<1> SUFFICES ASSUME HeldInv, [Next]_vars PROVE HeldInv'
  OBVIOUS
<1>1. UploadInv /\ UploadInv'
  BY NextKeeps DEF HeldInv
<1>2. ASSUME \A u \in Uploads : row'[u].body =>
               /\ row[u].body /\ row'[u].bytes = row[u].bytes
               /\ row'[u].life = "open" => row[u].life = "open",
             raced' = raced,
             \A s \in Stagers :
               /\ HasRoom(row, raced, stager'[s])
               /\ stager'[s].at = "binding" => Size[stager'[s].file] \in Nat
      PROVE  HeldInv'
  <2>1. Bodies(row') \subseteq Bodies(row)
    BY <1>2 DEF Bodies
  <2>2. IsFiniteSet(Bodies(row'))
    BY <2>1, FS_Subset DEF HeldInv
  <2> QED
    BY <1>1, <1>2, <2>2, NoMoreHeld
<1>3. CASE \/ TableNext /\ UNCHANGED <<stagingVars, consumptionVars>>
           \/ ConsumptionNext /\ UNCHANGED stagingVars
           \/ UNCHANGED vars
  <2>1. raced' = raced /\ stager' = stager
    BY <1>3 DEF stagingVars, vars
  <2>2. \A u \in Uploads : row'[u].body =>
               /\ row[u].body /\ row'[u].bytes = row[u].bytes
               /\ row'[u].life = "open" => row[u].life = "open"
    BY <1>1, <1>3, NoBodyAdded DEF vars, tableVars
  <2>3. \A s \in Stagers :
               /\ HasRoom(row, raced, stager'[s])
               /\ stager'[s].at = "binding" => Size[stager'[s].file] \in Nat
    BY <1>1, <2>1, FileSized DEF HeldInv
  <2> QED
    BY <1>2, <2>1, <2>2, <2>3
<1>4. ASSUME NEW s \in Stagers, UNCHANGED tableVars,
             \/ Serve(s) \/ Fail(s) \/ Close(s)
             \/ \E u \in Uploads : Request(s, u)
             \/ \E f \in Files : Arrive(s, f)
      PROVE  HeldInv'
  <2>1. row' = row /\ raced' = raced
    BY <1>4 DEF tableVars, Serve, Admit, TurnAway, Late, Snapshot, LoseBind, Reread, Flush,
      Leave, Fail, Close, Request, Arrive, Aside
  <2>2. ASSUME NEW t \in Stagers, stager'[t].at = "binding"
        PROVE  HasRoom(row, raced, stager'[t]) /\ Size[stager'[t].file] \in Nat
    <3> DEFINE o == OwnerOf[stager[t].upload]
               f == stager[t].file
    <3>1. /\ stager'[t].upload = stager[t].upload /\ stager'[t].file = f
          /\ stager[t].at = "binding" \/ (stager[t].at = "arrived" /\ Fits(t))
      BY <1>1, <1>4, <2>2, BindersHeld
    <3>2. Size[f] \in Nat
      BY <1>1, <3>1, FileSized
    <3>3. CASE stager[t].at = "binding"
      BY <3>1, <3>2, <3>3 DEF HeldInv, HasRoom
    <3>4. CASE stager[t].at = "arrived" /\ Fits(t)
      <4> DEFINE held == {u \in Uploads : OwnerOf[u] = o /\ row[u].body /\ row[u].life = "open"}
      <4>1. Size[f] + BytesIn(row, held) <= Limit
        BY <3>4 DEF Fits, HeldOf, Bytes, BytesIn, Owner
      <4>2. held \subseteq Bodies(row) /\ Counting(row, raced, o) \subseteq held
        BY DEF Bodies, Counting
      <4> HIDE DEF held
      <4>3. Bound(row, held) /\ BytesIn(row, held) \in Nat
        BY <1>1, <4>2, BodiesBound DEF HeldInv
      <4>4. Counted(row, raced, o) <= BytesIn(row, held)
        BY <4>2, <4>3, BytesGrow DEF Counted
      <4>5. Counted(row, raced, o) \in Nat
        BY CountedBound
      <4>6. Size[f] + Counted(row, raced, o) <= Limit
        BY <3>2, <4>1, <4>3, <4>4, <4>5, StagingAssumption
      <4> QED
        BY <3>1, <3>2, <4>6 DEF HasRoom
    <3> QED
      BY <3>1, <3>3, <3>4
  <2>3. \A t \in Stagers :
               /\ HasRoom(row, raced, stager'[t])
               /\ stager'[t].at = "binding" => Size[stager'[t].file] \in Nat
    BY <2>2 DEF HasRoom
  <2> QED
    BY <1>2, <2>1, <2>3
<1>5. ASSUME NEW s \in Stagers, Bind(s) PROVE HeldInv'
  BY <1>1, <1>5, BindStaysBelow
<1>6. CASE Restart
  <2>1. row' = row /\ raced' = raced /\ \A s \in Stagers : stager'[s].at # "binding"
    BY <1>6 DEF Restart, NoneServed, Unserved
  <2> QED
    BY <1>2, <2>1 DEF HasRoom
<1> QED
  BY <1>3, <1>4, <1>5, <1>6 DEF Next, StagingNext, vars

\* upload.ts: what an owner holds, and with it every bind under way, fits below
\* the limit, but for the bodies that raced.
THEOREM HeldInvariant == Spec => []HeldInv
BY InitHeld, NextHeld, PTL DEF Spec

\* upload.ts, stage: an owner passes the limit by the bodies bound while another
\* bind of theirs was in flight, and by nothing else.
THEOREM LimitHolds == Spec => []HeldBounded
<1>1. HeldInv => HeldBounded
  <2> SUFFICES ASSUME HeldInv, NEW o \in Owners PROVE Bytes(HeldOf(o) \ raced) <= Limit
    BY DEF HeldBounded
  <2>1. HeldOf(o) \ raced = Counting(row, raced, o)
    BY DEF HeldOf, Counting
  <2>2. Bytes(HeldOf(o) \ raced) = Counted(row, raced, o)
    BY <2>1 DEF Bytes, BytesIn, Counted
  <2> QED
    BY <2>2 DEF HeldInv
<1> QED
  BY <1>1, HeldInvariant, PTL
=============================================================================
