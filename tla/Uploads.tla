------------------------------ MODULE Uploads ------------------------------
(***************************************************************************)
(* Uploads as a whole: the gateway stages files into zz.upload, zz-core's  *)
(* writes use them, and time and the sweep take them away.  The processes  *)
(* share nothing but the table.                                            *)
(***************************************************************************)
EXTENDS UploadStaging, UploadConsumption

vars == <<tableVars, stagingVars, consumptionVars>>

Init == TableInit /\ StagingInit /\ ConsumptionInit

Next ==
  \/ TableNext /\ UNCHANGED <<stagingVars, consumptionVars>>
  \/ StagingNext /\ UNCHANGED consumptionVars
  \/ ConsumptionNext /\ UNCHANGED stagingVars

Spec == Init /\ [][Next]_vars

\* From files staged before, by requests long answered.
Staged(f) == [life |-> "open", bytes |-> f, body |-> TRUE, used |-> FALSE]

StagedInit ==
  /\ row \in [Uploads -> {Staged(f) : f \in Files}]
  /\ sweeping = FALSE
  /\ StagingInit
  /\ ConsumptionInit

StagedSpec == StagedInit /\ [][Next]_vars

\* What a handler does by itself; the body and the connection are the caller's.
Handles(s) ==
  /\ \/ Serve(s) /\ UNCHANGED tableVars
     \/ Bind(s) /\ UNCHANGED sweeping
  /\ UNCHANGED consumptionVars

\* A handler takes its own next step, the update it issued takes effect, and
\* the sweep runs every hour.  Callers promise nothing: a body may never
\* arrive, a connection may go or stay.
Fairness ==
  /\ \A s \in Stagers : WF_vars(Handles(s))
  /\ WF_vars(SweepBodies /\ UNCHANGED <<stagingVars, consumptionVars>>)
  /\ WF_vars(SweepRows /\ UNCHANGED <<stagingVars, consumptionVars>>)

FairSpec == Spec /\ Fairness

----------------------------------------------------------------------------
TypeOK == TableTypeOK /\ StagingTypeOK /\ ConsumptionTypeOK

Serving(s) == ~At(s, "unserved")

Holding(o) == {s \in Stagers : Serving(s) /\ Owner(s) = o /\ stager[s].slot}

\* The slots held, and those taken for a connection already gone: the n-th of
\* each owner.
Held   == {s \in Stagers : Serving(s) /\ stager[s].slot}
Strays == {x \in Owners \X (1..InFlight) : x[2] <= stray[x[1]]}

\* upload.ts, roomFor: however requests end, the counters say how many slots
\* are held.  A slot taken for a connection that had already gone is counted
\* too, and stays taken.
SlotsCounted ==
  /\ \A o \in Owners : arriving[o] = Cardinality(Holding(o)) + stray[o]
  /\ total = Cardinality(Held) + Cardinality(Strays)

\* upload.ts, stage: what an owner holds passes the limit by the bodies bound
\* while another bind of theirs was in flight, and by nothing else.
HeldBounded == \A o \in Owners : Bytes(HeldOf(o) \ raced) <= Limit

\* upload.ts, stage: a request answered with a binding is right: its bytes are
\* what the upload holds, for as long as there is a row.
AnsweredIsBound ==
  \A s \in Stagers :
    Serving(s) /\ stager[s].answer = "bound" =>
      LET k == stager[s]
      IN row[k.upload].bytes = k.file \/ row[k.upload].life = "deleted"

\* upload.ts, sweepUploads and upload-consume.ts: bytes staged and not used are
\* there until their window is over, whatever writes failed meanwhile.
ReadyStays ==
  \A u \in Uploads :
    row[u].bytes # None /\ ~row[u].used /\ row[u].life = "open" => row[u].body

\* upload-consume.ts, consumeUpload: an upload is used if and only if one write
\* was committed with it, one only, and what that wrote is what was staged.
UsedByOneWrite ==
  \A u \in Uploads :
    LET by == {i \in 1..Len(commits) : commits[i].call.upload = u}
    IN /\ Cardinality(by) = IF row[u].used THEN 1 ELSE 0
       /\ \A i \in by : commits[i].file = row[u].bytes

\* document-save.ts, saveDocument: two writes are never committed under one
\* request key.
KeyCommitsOnce ==
  \A i, j \in 1..Len(commits) :
    SameKey(commits[i].call, commits[j].call) => i = j

\* document-save.ts, saveDocument, and document-links.ts, storedRequest: a call
\* told that it was written, now or before, was: that very call.
AnsweredIsCommitted ==
  \A w \in Writers :
    Doing(w, "answered") /\ writer[w].said \in {"written", "replayed"} =>
      \E i \in 1..Len(commits) : commits[i].call = writer[w].call

\* upload.ts, roomFor: a slot held is given back, whether or not the body ever
\* arrives.
SlotsReturn == \A s \in Stagers : (Serving(s) /\ stager[s].slot)
                                    ~> ~(Serving(s) /\ stager[s].slot)

\* upload.ts, sweepUploads: an upload's bytes do not outlive its window for
\* good.
ExpiredBodiesGo == \A u \in Uploads : (row[u].body /\ Expired(u)) ~> ~row[u].body

----------------------------------------------------------------------------
(* What a comment says and the code does not do.                           *)

\* upload.ts, roomFor: "Released once, when the answer is sent or the
\* connection goes, however it ends": with no request served, no slot is taken.
SlotsAllReleased ==
  (\A s \in Stagers : ~Serving(s)) => \A o \in Owners : arriving[o] = 0
============================================================================
