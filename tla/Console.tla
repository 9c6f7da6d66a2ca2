------------------------------ MODULE Console ------------------------------
(***************************************************************************)
(* The console's freshness as a whole: changes commit and are heard, tabs  *)
(* read pages, some of them kept, and are hinted to read again.            *)
(***************************************************************************)
EXTENDS ConsoleStreams

\* What a behaviour starts with: its superadmins, the routes of its tabs, its
\* bounds.
CONSTANT Cases

ASSUME CasesAssumption ==
  Cases \subseteq [supers : SUBSET Persons, routes : [Tabs -> DOMAIN Routes \cup {None}],
                  left : [Bounded -> Nat]]

vars == <<changeVars, answerVars, stream>>

Init ==
  /\ \E k \in Cases : ChangesInit(k.supers, k.left) /\ AnswersInit(k.routes)
  /\ StreamsInit

\* Of the database, the callers and the connection, without the tabs.
ChangesNext ==
  /\ \/ \E o \in Owners, c \in Names : Commit(o, c)
     \/ \E p \in Persons, t \in Teams : Switch(p, t)
     \/ \E p \in Persons : Demote(p) \/ SignOut(p)
     \/ Connect
     \/ Lost
  /\ UNCHANGED <<answerVars, stream>>

AnswersNext ==
  /\ \/ \E t \in Tabs : Query(t) \/ Settle(t) \/ Show(t)
     \/ \E a \in answers : Forget(a)
  /\ UNCHANGED <<changeVars, stream>>

StreamsNext ==
  \/ \E t \in Tabs :
       OpenStream(t) \/ Checked(t) \/ Break(t) \/ Ask(t) \/ Fails(t)
  \/ Hear
  \/ Relisten

\* The gateway stops: its memory, its connection and its streams go.
Restart ==
  /\ link # "down"
  /\ Lost
  /\ read' = [t \in Tabs |-> None]
  /\ answers' = {}
  /\ stream' = [t \in Tabs |-> IF Open(t) THEN Unopened("back", {})
                               ELSE stream[t]]
  /\ UNCHANGED <<route, page>>

Next == ChangesNext \/ AnswersNext \/ StreamsNext \/ Restart

Spec == Init /\ [][Next]_vars

\* The listener connects again and handles what it is sent, the check of a
\* frame answers, and tabs read what they were told to and open their stream;
\* a read made again and again succeeds at last.
Fairness ==
  /\ WF_vars(Connect /\ UNCHANGED <<answerVars, stream>>)
  /\ WF_vars(Relisten)
  /\ WF_vars(Hear)
  /\ \A t \in Tabs :
       /\ WF_vars(Checked(t))
       /\ WF_vars(Ask(t))
       /\ WF_vars(OpenStream(t))
       /\ SF_vars(Query(t) /\ UNCHANGED <<changeVars, stream>>)
       /\ SF_vars(Settle(t) /\ UNCHANGED <<changeVars, stream>>)
       /\ WF_vars(Show(t) /\ UNCHANGED <<changeVars, stream>>)

FairSpec == Spec /\ Fairness

----------------------------------------------------------------------------
TypeOK == ChangesTypeOK /\ AnswersTypeOK /\ StreamsTypeOK

\* The rows a tab will show once the read under way, if any, is answered.
Coming(t) ==
  IF read[t] = None THEN page[t].rows
  ELSE LET r == IF read[t].phase = "joined" THEN read[read[t].by] ELSE read[t]
       IN IF r.rows = None THEN written ELSE r.rows

TeamComing(t) == IF read[t] = None THEN page[t].team ELSE read[t].team

\* A revision is a count and does not say of whose changes.  Nothing is promised
\* of a page with revisions whose caller heard other teams than the stream does:
\* the count it was served may equal one of something else.
Comparable(t) ==
  \/ Carries(t) = {}
  \/ stream[t].hears = IF read[t] = None THEN page[t].hears ELSE read[t].hears

\* Whether the key a route's answer is kept under names the scope its marker
\* counts.  Home's and Record's do not: they name the person and not the role,
\* and after a demotion the marker of fewer teams may equal that of all.
NamesScope(t) ==
  \/ Routes[route[t]].key \in {"unkept", "role"}
  \/ Routes[route[t]].invalidates = "platform"

\* What may still tell tab t that o changed collection c.
Due(t, o, c) ==
  \/ ~Listening
  \/ c \in stream[t].unseen
  \/ stream[t].over
  \/ [t |-> o, c |-> c] \in Range(stream[t].queue) \cup Range(wire)

\* live.ts: "a missed hint costs freshness and never correctness", and none is
\* missed: a tab that does not show a change its stream is told of has it
\* coming, in a read, a hint, a resync, or on the wire.  A stream that greeted
\* such a tab with `synced` would miss it.
NothingIsMissed ==
  \A t \in Tabs : Open(t) /\ Comparable(t) /\ NamesScope(t) =>
    \A o \in Covers(stream[t].hears) \cap About(t, TeamComing(t)), c \in Reads(t) :
      Coming(t)[o][c] < written[o][c] => Due(t, o, c)

\* answer-cache.ts: an answer, kept or not, holds every change of what it is
\* about that the gateway had heard of when it was asked for.
AnswersAreFresh ==
  \A t \in Tabs : page[t] # None /\ NamesScope(t) =>
    \A o \in Told \cap About(t, page[t].team), c \in Reads(t) :
      page[t].rows[o][c] >= page[t].floor[o][c]

\* The tab shows every change it is told of.
Current(t) ==
  page[t] # None =>
    \A o \in Covers(stream[t].hears) \cap About(t, page[t].team), c \in Reads(t) :
      page[t].rows[o][c] = written[o][c]

\* live.ts: a signed-in tab whose stream stays open, while the listener stays
\* up, comes to show every change it is told of, and goes on showing it.
TabsCatchUp ==
  \A t \in Tabs :
    <>[](Listening /\ Open(t) /\ Comparable(t) /\ NamesScope(t)
           /\ caller[PersonOf[t]].signed)
      => <>[]Current(t)

============================================================================
