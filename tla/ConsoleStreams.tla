--------------------------- MODULE ConsoleStreams ---------------------------
(***************************************************************************)
(* /api/console/live: one stream of hints per tab, and what a tab does     *)
(* with them.  The gateway's side is live.ts: the queue of a subscriber,   *)
(* its overflow, and the check each frame waits on.  The tab's side is the *)
(* console's own and lies outside this repository: it is modelled from     *)
(* what live.ts says of it.  A tab reads its page again for every hint, a  *)
(* hint during a read asks for one more, and a tab that comes back reads   *)
(* everything.                                                             *)
(***************************************************************************)
EXTENDS ConsoleAnswers

CONSTANT MaxQueued  \* hints waiting behind the check before they collapse

ASSUME QueueAssumption == MaxQueued \in Nat \ {0} /\ Names \cap {"overflow"} = {}

VARIABLE stream  \* stream[t]: the tab's stream, at both ends

Ats == {"new", "live", "back"}

\* ask: the collection whose hint's check is under way, an overflow's, or None.
Overflow == "overflow"
Asks == Names \cup {Overflow, None}

StreamsTypeOK ==
  stream \in [Tabs -> [at : Ats, unseen : SUBSET Names, hears : Hears \cup {None},
                       queue : Seq(Change), over : BOOLEAN, ask : Asks]]

Unopened(at, unseen) ==
  [at |-> at, unseen |-> unseen, hears |-> None, queue |-> <<>>,
   over |-> FALSE, ask |-> None]

StreamsInit == stream = [t \in Tabs |-> Unopened("new", {})]

Open(t) == stream[t].at = "live"

----------------------------------------------------------------------------
(* The queue of a subscriber. *)

\* drain, as far as it runs in one turn: the next check is asked for.
Drain(s) ==
  IF s.ask # None THEN s
  ELSE IF s.over THEN [s EXCEPT !.ask = Overflow]
  ELSE IF s.queue # <<>> THEN [s EXCEPT !.ask = Head(s.queue).c]
  ELSE s

\* (A fault: a full queue drops the change.)
EnqueueOrDrop(s, change) ==
  IF s.over \/ Len(s.queue) >= MaxQueued \/ change \in Range(s.queue) THEN s
  ELSE Drain([s EXCEPT !.queue = Append(@, change)])

\* enqueue.
Enqueue(s, change) ==
  IF s.over THEN s
  ELSE Drain(IF Len(s.queue) >= MaxQueued
             THEN [s EXCEPT !.queue = <<>>, !.over = TRUE]
             ELSE IF change \in Range(s.queue) THEN s
             ELSE [s EXCEPT !.queue = Append(@, change)])

\* resyncEveryTab.
Resynced(s) == Drain([s EXCEPT !.queue = <<>>, !.over = TRUE])

\* deliver.
Concerns(t, change) ==
  /\ Open(t)
  /\ change.c \in Reads(t)
  /\ change.t \in Covers(stream[t].hears)

\* drain, once the check has answered yes: the frame goes out.
Sent(t) ==
  LET s == stream[t]
  IN IF s.ask = Overflow
     THEN [s EXCEPT !.over = FALSE, !.queue = <<>>, !.ask = None,
                    !.unseen = Reads(t)]
     ELSE Drain([s EXCEPT !.queue = IF @ = <<>> THEN @ ELSE Tail(@),
                          !.ask = None, !.unseen = @ \cup {s.ask}])

\* stillAllowed.
StillAllowed(t) ==
  LET p == PersonOf[t]
  IN caller[p].signed /\ (stream[t].hears = Every => caller[p].super)

----------------------------------------------------------------------------
\* (A fault: a page served without a revision has not moved.)
MovedSinceServed(t) ==
  {c \in Reads(t) \cap Carries(t) :
     page[t].served[c] \notin {None, HeardRevision(c, HeardBy(PersonOf[t]))}}

\* movedSince: the names whose revision is not the one the page was served.
MovedSince(t) ==
  LET now(c) == HeardRevision(c, HeardBy(PersonOf[t]))
  IN {c \in Reads(t) : \/ c \notin Carries(t)
                       \/ page[t].served[c] = None
                       \/ page[t].served[c] # now(c)}

\* serve.  A tab that was never open sends the revisions its page was served;
\* one that comes back sends none, and reads everything as it opens.
OpenStream(t) ==
  /\ ~Open(t)
  /\ caller[PersonOf[t]].signed
  /\ page[t] # None
  /\ read[t] = None
  /\ stream' = [stream EXCEPT ![t] =
                 [Unopened("live", IF stream[t].at = "new" THEN MovedSince(t)
                                   ELSE Reads(t))
                    EXCEPT !.hears = HeardBy(PersonOf[t])]]
  /\ UNCHANGED <<changeVars, answerVars>>

\* The check of a frame answers.
Checked(t) ==
  /\ Open(t)
  /\ stream[t].ask # None
  /\ stream' = [stream EXCEPT ![t] = IF StillAllowed(t) THEN Sent(t)
                                     ELSE Unopened("back", {})]
  /\ UNCHANGED <<changeVars, answerVars>>

\* The connection of a stream breaks.
Break(t) ==
  /\ Once(<<"break">>)
  /\ Open(t)
  /\ stream' = [stream EXCEPT ![t] = Unopened("back", {})]
  /\ UNCHANGED <<written, link, wire, boots, tally, caller, answerVars>>

\* The page is read the first time, or again for what was hinted.
Wants(t) == IF Open(t) THEN stream[t].unseen # {} ELSE page[t] = None

Ask(t) ==
  /\ Wants(t)
  /\ Arrive(t)
  /\ stream' = [stream EXCEPT ![t].unseen = {}]
  /\ UNCHANGED changeVars

\* A read that failed is made again.
Fails(t) ==
  /\ Reject(t)
  /\ stream' = [s \in Tabs |->
                  IF (s = t \/ s \in Waiting(t)) /\ Open(s)
                  THEN [stream[s] EXCEPT !.unseen = Reads(s)] ELSE stream[s]]
  /\ UNCHANGED changeVars

\* The listener's handler: counted, then delivered.
Hear ==
  /\ Counts
  /\ stream' = [t \in Tabs |-> IF Concerns(t, Head(wire))
                               THEN Enqueue(stream[t], Head(wire))
                               ELSE stream[t]]
  /\ UNCHANGED answerVars

\* open's end: what was raised while nothing listened is gone.
Relisten ==
  /\ Listens
  /\ stream' = [t \in Tabs |-> IF Open(t) THEN Resynced(stream[t])
                               ELSE stream[t]]
  /\ UNCHANGED answerVars
============================================================================
