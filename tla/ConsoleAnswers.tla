--------------------------- MODULE ConsoleAnswers ---------------------------
(***************************************************************************)
(* Console reads and the answers kept of them (answer-cache.ts).  Each tab *)
(* shows one page and has at most one read of it under way.  A read is     *)
(* either computed, from rows read some time after it arrived, or is given *)
(* the computation, finished or not, that is kept under its marker.        *)
(***************************************************************************)
EXTENDS ConsoleChanges

CONSTANTS
  Tabs,      \* tabs of browsers
  PersonOf,  \* PersonOf[t]: whose browser it is
  Routes     \* Routes[r]: the collections it reads, those its header carries
             \* a revision of, its scope, and what of the caller its kept
             \* answer is keyed by

Scopes == {"caller", "platform"}
Keys == {"unkept", "shared", "role", "person"}

ASSUME RouteAssumption ==
  /\ PersonOf \in [Tabs -> Persons]
  /\ \A r \in DOMAIN Routes :
       Routes[r] \in [reads : SUBSET Names, carries : SUBSET Names,
                      invalidates : Scopes, key : Keys]

VARIABLES
  route,    \* route[t]: the read the page of tab t makes, None for no tab
  read,     \* read[t]: the read under way, or None
  page,     \* page[t]: what the tab shows, or None
  answers   \* the kept answers

answerVars == <<route, read, page, answers>>

Opened == {t \in Tabs : route[t] # None}

Reads(t) == Routes[route[t]].reads
Carries(t) == Routes[route[t]].carries

\* Whose rows an answer of t's route is computed from, for a caller of a team.
About(t, team) ==
  IF Routes[route[t]].invalidates = "platform" THEN Owners ELSE {team, Nobody}

----------------------------------------------------------------------------
\* (A fault: the marker of a platform's answer counts the caller's changes.)
ScopeOfCaller(t) == HeardBy(PersonOf[t])

\* prefixFor, at the scope the route's figures are about.
ScopeOf(t) ==
  LET p == PersonOf[t]
  IN IF Routes[route[t]].invalidates = "platform" \/ caller[p].super
     THEN Every ELSE caller[p].team

\* The rest of the key: the team is in it wherever the answer is one's own.
KeyOf(t) ==
  LET p == PersonOf[t]
  IN CASE Routes[route[t]].key = "shared" -> <<route[t]>>
       [] Routes[route[t]].key = "role" ->
            <<route[t], caller[p].team, caller[p].super>>
       [] Routes[route[t]].key = "person" -> <<route[t], caller[p].team, p>>

\* Whether an answer to t may be kept, and the full key it is kept under.
MayKeep(t) == Routes[route[t]].key # "unkept" /\ Listening
FullKey(t) == <<RevisionNamed(Reads(t), ScopeOf(t)), KeyOf(t)>>

\* The header: the revisions the stream's `since` takes back.
Served(t) == [c \in Carries(t) |-> HeardRevision(c, HeardBy(PersonOf[t]))]

\* What a read owes: every change, or, when it may be given a kept answer,
\* every change whose notification was handled before it arrived.
Floor(t) ==
  [o \in Owners |-> [c \in Names |->
     IF MayKeep(t) THEN Past(o, c) ELSE written[o][c]]]

Rows == [Owners -> [Names -> Nat]]

\* A read's rows, whoever makes it: "own" computes, "joined" waits for the
\* computation of another, "done" has its rows.
ReadRecord(cs) ==
  [phase : {"own", "joined", "done"}, by : Tabs, team : Teams, hears : Hears,
   rows : Rows \cup {None}, floor : Rows, served : [cs -> Revision \cup {None}]]

PageRecord(cs) ==
  [team : Teams, hears : Hears, rows : Rows, floor : Rows,
   served : [cs -> Revision \cup {None}]]

ASSUME AbsentAssumption ==
  /\ None \notin Names \cup Tabs \cup DOMAIN Routes
  /\ None \notin Revision \cup Rows
  /\ \A cs \in SUBSET Names : None \notin ReadRecord(cs) \cup PageRecord(cs)

AnswersTypeOK ==
  /\ route \in [Tabs -> DOMAIN Routes \cup {None}]
  /\ read = [t \in Tabs |-> read[t]]
  /\ page = [t \in Tabs |-> page[t]]
  /\ \A t \in Tabs : t \notin Opened => read[t] = None /\ page[t] = None
  /\ \A t \in Opened : read[t] = None \/ read[t] \in ReadRecord(Carries(t))
  /\ \A t \in Opened : page[t] = None \/ page[t] \in PageRecord(Carries(t))
  /\ \A a \in answers :
       a \in [full : {a.full}, by : Tabs \cup {None}, rows : Rows \cup {None}]
  /\ \A a, b \in answers : a.full = b.full => a = b

AnswersInit(routes) ==
  /\ route = routes
  /\ read = [t \in Tabs |-> None]
  /\ page = [t \in Tabs |-> None]
  /\ answers = {}

----------------------------------------------------------------------------
Kept(t) == {a \in answers : MayKeep(t) /\ a.full = FullKey(t)}

Begin(t, phase, by, rows) ==
  read' = [read EXCEPT ![t] =
            [phase |-> phase, by |-> by, team |-> caller[PersonOf[t]].team,
             hears |-> HeardBy(PersonOf[t]), rows |-> rows,
             floor |-> Floor(t), served |-> Served(t)]]

\* (A fault: what is kept is not looked for.)
ComputeAgain(t) ==
  /\ Begin(t, "own", t, None)
  /\ answers' = IF MayKeep(t)
                THEN answers \cup {[full |-> FullKey(t), by |-> t, rows |-> None]}
                ELSE answers

\* cachedWithHit, a miss: the computation begins, and is kept before it ends.
Compute(t) ==
  /\ Kept(t) = {}
  /\ Begin(t, "own", t, None)
  /\ answers' = IF MayKeep(t)
                THEN answers \cup {[full |-> FullKey(t), by |-> t, rows |-> None]}
                ELSE answers

\* cachedWithHit, a hit: the kept computation, whether or not it has ended.
Hit(t) ==
  \E a \in Kept(t) :
    /\ IF a.by = None THEN Begin(t, "done", t, a.rows)
                      ELSE Begin(t, "joined", a.by, None)
    /\ UNCHANGED answers

\* A read arrives at the gateway.
Arrive(t) ==
  /\ t \in Opened
  /\ caller[PersonOf[t]].signed
  /\ read[t] = None
  /\ Compute(t) \/ Hit(t)
  /\ UNCHANGED <<route, page>>

\* The rows are read.
Query(t) ==
  /\ read[t] # None
  /\ read[t].phase = "own"
  /\ read[t].rows = None
  /\ read' = [read EXCEPT ![t].rows = written]
  /\ UNCHANGED <<route, page, answers>>

Waiting(t) == {s \in Tabs : read[s] # None /\ read[s].phase = "joined" /\ read[s].by = t}

\* The computation ends: the kept one and every read waiting for it have it.
Settle(t) ==
  /\ read[t] # None
  /\ read[t].phase = "own"
  /\ read[t].rows # None
  /\ read' = [s \in Tabs |->
                IF s = t \/ s \in Waiting(t)
                THEN [read[s] EXCEPT !.phase = "done", !.rows = read[t].rows,
                                     !.by = s]
                ELSE read[s]]
  /\ answers' = {IF a.by = t THEN [a EXCEPT !.by = None, !.rows = read[t].rows]
                             ELSE a : a \in answers}
  /\ UNCHANGED <<route, page>>

\* The computation fails: it is kept no longer, and no read waiting has rows.
Reject(t) ==
  /\ read[t] # None
  /\ read[t].phase = "own"
  /\ read' = [s \in Tabs |-> IF s = t \/ s \in Waiting(t) THEN None ELSE read[s]]
  /\ answers' = {a \in answers : a.by # t}
  /\ UNCHANGED <<route, page>>

\* The answer reaches the tab.
Show(t) ==
  /\ read[t] # None
  /\ read[t].phase = "done"
  /\ page' = [page EXCEPT ![t] =
               [team |-> read[t].team, hears |-> read[t].hears, rows |-> read[t].rows,
                floor |-> read[t].floor, served |-> read[t].served]]
  /\ read' = [read EXCEPT ![t] = None]
  /\ UNCHANGED <<route, answers>>

\* Its minute or its own boundary is over, or it makes room for another.
Forget(a) ==
  /\ answers' = answers \ {a}
  /\ UNCHANGED <<route, read, page>>
============================================================================
