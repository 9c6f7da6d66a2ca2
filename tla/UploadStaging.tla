--------------------------- MODULE UploadStaging ---------------------------
(***************************************************************************)
(* Staging in the gateway (upload.ts): a PUT by token or by link looks up  *)
(* its upload, takes a slot, reads the body, and binds the bytes with one  *)
(* conditional update.                                                     *)
(*                                                                         *)
(* A stager is one request and its handler.  The connection may go at any  *)
(* moment; the handler of a body that arrived whole does not notice.  The  *)
(* update is two steps: the snapshot its condition is evaluated on, and    *)
(* its effect, at which the row itself is tested again.                    *)
(***************************************************************************)
EXTENDS UploadTable

CONSTANTS
  Stagers,        \* requests being served
  InFlight,       \* bodies that may arrive for one owner at once
  InFlightTotal,  \* and for everyone
  Limit           \* the bytes an owner may hold staged and unwritten

ASSUME StagingAssumption ==
  /\ InFlight \in Nat \ {0}
  /\ InFlightTotal \in Nat \ {0}
  /\ Limit \in Nat

VARIABLES
  stager,    \* the requests and their handlers
  arriving,  \* slots taken, by owner
  total,     \* slots taken
  stray,     \* history: slots, by owner, taken for a connection already gone
  raced      \* history: uploads bound while another bind of their owner ran

stagingVars == <<stager, arriving, total, stray, raced>>

Unserved == [at |-> "unserved"]

\* seen: the bytes the row was bound to when it was looked up; file: the body,
\* once it is whole; slot: the handler's release has not run; here: the
\* connection is there.
Staging == [at: {"looking", "reading", "arrived", "binding", "unbound",
                 "answered", "flushed"},
            upload: Uploads, seen: Files \cup {None}, file: Files \cup {None},
            slot: BOOLEAN, here: BOOLEAN, answer: {"none", "bound", "refused"}]

StagingTypeOK ==
  /\ stager \in [Stagers -> Staging \cup {Unserved}]
  /\ arriving \in [Owners -> 0..InFlight]
  /\ total \in 0..InFlightTotal
  /\ stray \in [Owners -> 0..InFlight]
  /\ raced \subseteq Uploads

NoneServed == [s \in Stagers |-> Unserved]
NoSlots    == [o \in Owners |-> 0]

StagingInit ==
  /\ stager = NoneServed
  /\ arriving = NoSlots
  /\ total = 0
  /\ stray = NoSlots
  /\ raced = {}

At(s, where) == stager[s].at = where
Owner(s)     == OwnerOf[stager[s].upload]
Moves(s, k)  == stager' = [stager EXCEPT ![s] = k]
Slots        == <<arriving, total, stray>>
Aside        == <<Slots, raced>>

Refuses(s) ==
  Moves(s, [stager[s] EXCEPT !.at = "answered", !.answer = "refused",
                             !.seen = None, !.file = None])

Answers(s, f) ==
  Moves(s, [stager[s] EXCEPT !.at = "answered", !.answer = "bound",
                             !.seen = None, !.file = f])

----------------------------------------------------------------------------
(* Slots.                                                                  *)

Room(o) == arriving[o] < InFlight /\ total < InFlightTotal

\* (A fault: release runs on "finish" and again on "close".)
ReleasesTwice(k) == k.slot \/ k.at = "flushed"

\* (A fault: release is wired to "finish" only.)
ReleasesOnFinish(k) == k.slot /\ k.at = "answered"

Releases(k) == k.slot

\* What "finish" and "close" do to the counters, once.
Release(s) ==
  IF Releases(stager[s])
  THEN /\ arriving' = [arriving EXCEPT ![Owner(s)] = IF @ > 1 THEN @ - 1 ELSE 0]
       /\ total' = total - 1
       /\ UNCHANGED stray
  ELSE UNCHANGED Slots

----------------------------------------------------------------------------
(* The handler.                                                            *)

\* A request begins; its row is found by the caller's token or by the link.
Request(s, u) ==
  /\ At(s, "unserved")
  /\ There(u)
  /\ Moves(s, [at |-> "looking", upload |-> u, seen |-> None, file |-> None,
               slot |-> FALSE, here |-> TRUE, answer |-> "none"])
  /\ UNCHANGED Aside

\* The row takes a staging and there is room: the body may arrive.  release
\* hangs on the response's "finish" and "close"; of a connection that went
\* while the row was looked up, neither comes any more.
Admit(s) ==
  LET k == stager[s]
  IN /\ At(s, "looking")
     /\ row[k.upload].life = "open"
     /\ ~row[k.upload].used
     /\ Room(Owner(s))
     /\ arriving' = [arriving EXCEPT ![Owner(s)] = @ + 1]
     /\ total' = total + 1
     /\ stray' = [stray EXCEPT ![Owner(s)] = @ + IF k.here THEN 0 ELSE 1]
     /\ Moves(s, [k EXCEPT !.at = "reading", !.seen = row[k.upload].bytes,
                           !.slot = k.here])
     /\ UNCHANGED raced

\* Used, expired, no room; also another extension, or tried too often.
TurnAway(s) ==
  /\ At(s, "looking")
  /\ Refuses(s)
  /\ UNCHANGED Aside

\* The body is whole.  A row seen bound answers that binding, or a conflict.
Arrive(s, f) ==
  LET k == stager[s]
  IN /\ At(s, "reading")
     /\ k.here
     /\ \/ /\ k.seen = None
           /\ Moves(s, [k EXCEPT !.at = "arrived", !.file = f])
        \/ /\ k.seen = f
           /\ Answers(s, f)
        \/ /\ k.seen \notin {None, f}
           /\ Refuses(s)
     /\ UNCHANGED Aside

\* (A fault: a body that never ends is waited for.)
NoDeadline(s) == FALSE

\* The deadline passes; or the body is too large, empty, or not text.
Late(s) ==
  /\ At(s, "reading")
  /\ Refuses(s)
  /\ UNCHANGED Aside

Bindable(u) == row[u].bytes = None /\ row[u].life = "open"

\* (A fault: what the owner holds already is not summed.)
FitsAlone(s) == Size[stager[s].file] <= Limit

Fits(s) == Size[stager[s].file] + Bytes(HeldOf(Owner(s))) <= Limit

\* The condition of the update, on its statement's snapshot.
Snapshot(s) ==
  LET k == stager[s]
      fits == Bindable(k.upload) /\ Fits(s)
  IN /\ At(s, "arrived")
     /\ Moves(s, [k EXCEPT !.at = IF fits THEN "binding" ELSE "unbound"])
     /\ UNCHANGED Aside

StillUnbound(u) == There(u) /\ row[u].bytes = None

Rivals(s) == {t \in Stagers \ {s} : At(t, "binding") /\ Owner(t) = Owner(s)}

\* Its effect, on the row as it is now.
Bind(s) ==
  LET k == stager[s]
  IN /\ At(s, "binding")
     /\ StillUnbound(k.upload)
     /\ row' = [row EXCEPT ![k.upload].bytes = k.file, ![k.upload].body = TRUE]
     /\ raced' = IF Rivals(s) # {} THEN raced \cup {k.upload} ELSE raced
     /\ Answers(s, k.file)
     /\ UNCHANGED Slots

LoseBind(s) ==
  /\ At(s, "binding")
  /\ ~StillUnbound(stager[s].upload)
  /\ Moves(s, [stager[s] EXCEPT !.at = "unbound"])
  /\ UNCHANGED Aside

\* (A fault: any bytes there are taken for the request's own.)
HoldsSome(k) == row[k.upload].bytes # None

HoldsOwn(k) == row[k.upload].bytes = k.file

\* Not bound: what the row holds now decides the answer.
Reread(s) ==
  /\ At(s, "unbound")
  /\ IF HoldsOwn(stager[s]) THEN Answers(s, stager[s].file) ELSE Refuses(s)
  /\ UNCHANGED Aside

\* A query fails: 500.
Fail(s) ==
  /\ stager[s].at \in {"looking", "arrived", "binding", "unbound"}
  /\ Refuses(s)
  /\ UNCHANGED Aside

----------------------------------------------------------------------------
(* The response and the connection.                                        *)

\* "finish": the answer is sent.
Flush(s) ==
  LET k == stager[s]
  IN /\ At(s, "answered")
     /\ k.here
     /\ Release(s)
     /\ Moves(s, [k EXCEPT !.at = "flushed", !.slot = FALSE])
     /\ UNCHANGED raced

\* "close": the connection goes, in the middle of anything.  A body cut off
\* ends its handler.
Close(s) ==
  LET k == stager[s]
      left == [k EXCEPT !.here = FALSE, !.slot = FALSE]
  IN /\ ~At(s, "unserved")
     /\ k.here
     /\ Release(s)
     /\ Moves(s, IF At(s, "reading")
                 THEN [left EXCEPT !.at = "answered", !.answer = "refused",
                                   !.seen = None]
                 ELSE left)
     /\ UNCHANGED raced

Leave(s) ==
  /\ stager[s].at \in {"answered", "flushed"}
  /\ ~stager[s].here
  /\ Moves(s, Unserved)
  /\ UNCHANGED Aside

\* The gateway stops and starts: the counters are its memory.
Restart ==
  /\ stager' = NoneServed
  /\ arriving' = NoSlots
  /\ total' = 0
  /\ stray' = NoSlots
  /\ sweeping' = FALSE
  /\ UNCHANGED <<row, raced>>

----------------------------------------------------------------------------
\* What a handler does by itself.
Serve(s) == \/ Admit(s) \/ TurnAway(s) \/ Late(s) \/ Snapshot(s)
            \/ LoseBind(s) \/ Reread(s) \/ Flush(s) \/ Leave(s)

StagingNext ==
  \/ /\ \E s \in Stagers : \/ Serve(s)
                           \/ \E u \in Uploads : Request(s, u)
                           \/ \E f \in Files : Arrive(s, f)
                           \/ Fail(s)
                           \/ Close(s)
     /\ UNCHANGED tableVars
  \/ \E s \in Stagers : Bind(s) /\ UNCHANGED sweeping
  \/ Restart
============================================================================
