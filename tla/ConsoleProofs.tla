--------------------------- MODULE ConsoleProofs ---------------------------
(***************************************************************************)
(* No change is missed by an open stream, and no answer is older than what *)
(* was heard when it was asked for.                                        *)
(*                                                                         *)
(* A revision stands for rows: while the gateway's count is still what the *)
(* revision says, nothing was heard that the rows lack.  That is so when a *)
(* computation reads its rows after its revision was taken, and stays so,  *)
(* because counts only grow while one connection lasts, every connection   *)
(* has a boot of its own, and a count that has not grown has counted none  *)
(* of the changes its scope hears.                                         *)
(***************************************************************************)
EXTENDS Console, TLAPS, FiniteSetTheorems, SequenceTheorems

----------------------------------------------------------------------------
(* The invariant.                                                          *)

\* What the gateway has counted of collection c for those who hear h.
Count(c, h) ==
  IF h = Every THEN tally[Every][c] ELSE tally[Nobody][c] + tally[h][c]

\* Revision rev of collection c, of scope h, is not ahead of the count, and
\* while it equals the count the rows lack nothing that was heard of os.
Stands(rev, rows, h, os, c) ==
  /\ rev \in Revision
  /\ rev.boot <= boots
  /\ Listening /\ rev.boot = boots =>
       /\ rev.n <= Count(c, h)
       /\ rev.n = Count(c, h) /\ rows # None =>
            \A o \in os : rows[o][c] >= Past(o, c)

\* The rows a read will have, and a kept answer, as far as they are read.
RowsRead(t) ==
  IF read[t].phase = "joined" THEN read[read[t].by].rows ELSE read[t].rows
RowsKept(a) == IF a.by = None THEN a.rows ELSE read[a.by].rows

\* What was sent is a change that was committed, and none waits on no connection.
WireCounted ==
  /\ \A o \in Told, c \in Names : OnWire(o, c) <= written[o][c]
  /\ link = "down" => wire = <<>>

\* Who waits for a computation, and what is kept of one, has it under way.
ReadsHeld ==
  \A t \in Tabs : read[t] # None =>
    /\ read[t].phase = "done" => read[t].rows # None
    /\ read[t].phase = "joined" =>
         read[read[t].by] # None /\ read[read[t].by].phase = "own"

AnswersHeld ==
  \A a \in answers :
    IF a.by = None THEN a.rows # None
    ELSE read[a.by] # None /\ read[a.by].phase = "own"

\* What a read owes was committed, and its rows have it.
FloorsMet ==
  \A t \in Tabs : read[t] # None =>
    /\ \A o \in Owners, c \in Names : read[t].floor[o][c] <= written[o][c]
    /\ NamesScope(t) /\ RowsRead(t) # None =>
         \A o \in Told \cap About(t, read[t].team), c \in Reads(t) :
           RowsRead(t)[o][c] >= read[t].floor[o][c]

\* The scope a key names: every team's, or the one team in it.
ScopeIn(key) ==
  IF Routes[key[1]].invalidates = "platform" \/ key[3] = TRUE THEN Every ELSE key[2]

KeyNames(r) ==
  Routes[r].key = "role" \/ Routes[r].invalidates = "platform"

AnswersStand ==
  \A a \in answers :
    LET key == a.full[2]
        r == key[1]
    IN /\ r \in DOMAIN Routes
       /\ Routes[r].key # "unkept"
       /\ KeyNames(r) =>
            /\ ScopeIn(key) \in Hears
            /\ \A c \in Routes[r].reads :
                 Stands(a.full[1][c], RowsKept(a), ScopeIn(key), Covers(ScopeIn(key)), c)

ReadsStand ==
  \A t \in Tabs : read[t] # None /\ NamesScope(t) =>
    \A c \in Reads(t) \cap Carries(t) : read[t].served[c] # None =>
      Stands(read[t].served[c], RowsRead(t), read[t].hears,
             Covers(read[t].hears) \cap About(t, read[t].team), c)

PagesStand ==
  \A t \in Tabs : page[t] # None /\ NamesScope(t) =>
    \A c \in Reads(t) \cap Carries(t) : page[t].served[c] # None =>
      Stands(page[t].served[c], page[t].rows, page[t].hears,
             Covers(page[t].hears) \cap About(t, page[t].team), c)

\* An open stream is a tab's that shows a page, and a check of a collection under
\* way is of the hint first in its queue, unless that has overflowed since.
StreamsHeld ==
  \A t \in Tabs : Open(t) =>
    /\ page[t] # None
    /\ stream[t].hears \in Hears
    /\ stream[t].ask \in Names /\ ~stream[t].over =>
         stream[t].queue # <<>> /\ Head(stream[t].queue).c = stream[t].ask

ConsoleInv ==
  /\ TypeOK
  /\ WireCounted
  /\ ReadsHeld
  /\ AnswersHeld
  /\ FloorsMet
  /\ AnswersStand
  /\ ReadsStand
  /\ PagesStand
  /\ StreamsHeld
  /\ AnswersAreFresh
  /\ NothingIsMissed

----------------------------------------------------------------------------
(* How often a change is on the wire.                                      *)

Times(w, e) == Cardinality({i \in 1..Len(w) : w[i] = e})

LEMMA TimesType ==
  ASSUME NEW w \in Seq(Change), NEW e
  PROVE  /\ IsFiniteSet({i \in 1..Len(w) : w[i] = e})
         /\ Times(w, e) \in Nat
         /\ Times(w, e) = 0 <=> ~\E i \in 1..Len(w) : w[i] = e
<1> DEFINE S == {i \in 1..Len(w) : w[i] = e}
<1>1. IsFiniteSet(1..Len(w))
  BY FS_Interval, LenProperties
<1>2. IsFiniteSet(S)
  BY <1>1, FS_Subset
<1>3. Cardinality(S) \in Nat /\ (Cardinality(S) = 0 <=> S = {})
  BY <1>2, FS_CardinalityType, FS_EmptySet
<1>4. S # {} <=> \E i \in 1..Len(w) : w[i] = e
  OBVIOUS
<1>5. Times(w, e) = Cardinality(S)
  BY DEF Times
<1>6. Times(w, e) \in Nat
  BY <1>3, <1>5
<1>7. Times(w, e) = 0 <=> S = {}
  BY <1>3, <1>5
<1>8. Times(w, e) = 0 <=> ~\E i \in 1..Len(w) : w[i] = e
  BY <1>4, <1>7
<1> QED
  BY <1>2, <1>6, <1>8

LEMMA TimesEmpty == \A e : Times(<<>>, e) = 0
<1> SUFFICES ASSUME NEW e PROVE Times(<<>>, e) = 0
  OBVIOUS
<1>1. {i \in 1..Len(<<>>) : (<<>>)[i] = e} = {}
  BY EmptySeq
<1> QED
  BY <1>1, FS_EmptySet DEF Times

LEMMA TimesAppend ==
  ASSUME NEW w \in Seq(Change), NEW x \in Change, NEW e
  PROVE  Times(Append(w, x), e) = Times(w, e) + (IF x = e THEN 1 ELSE 0)
<1> DEFINE v == Append(w, x)
           n == Len(w)
           S == {i \in 1..n : w[i] = e}
           T == {i \in 1..Len(v) : v[i] = e}
<1>1. n \in Nat /\ Len(v) = n + 1 /\ v[n + 1] = x /\ \A i \in 1..n : v[i] = w[i]
  OBVIOUS
<1>2. IsFiniteSet(S)
  BY TimesType
<1>3. n + 1 \notin S
  BY <1>1
<1>4. T = IF x = e THEN S \cup {n + 1} ELSE S
  <2> HIDE DEF v
  <2>1. \A i : i \in T <=> (i \in S \/ (i = n + 1 /\ x = e))
    BY <1>1
  <2> QED
    BY <2>1
<1> HIDE DEF S, T, v, n
<1>5. Cardinality(T) = Cardinality(S) + (IF x = e THEN 1 ELSE 0)
  BY <1>2, <1>3, <1>4, FS_AddElement, FS_CardinalityType
<1> QED
  BY <1>5 DEF Times, S, T, v, n

LEMMA TimesTail ==
  ASSUME NEW w \in Seq(Change), w # <<>>, NEW e
  PROVE  Times(w, e) = Times(Tail(w), e) + (IF Head(w) = e THEN 1 ELSE 0)
<1> DEFINE v == Tail(w)
           n == Len(v)
           S == {i \in 1..n : v[i] = e}
           T == {i \in 1..Len(w) : w[i] = e}
           U == T \ {1}
           f == [i \in S |-> i + 1]
<1>1. /\ v \in Seq(Change) /\ n \in Nat /\ Len(w) = n + 1 /\ Head(w) = w[1]
      /\ \A i \in 1..n : v[i] = w[i + 1]
  BY HeadTailProperties, LenProperties
<1> HIDE DEF v, n
<1>2. IsFiniteSet(S) /\ IsFiniteSet(T)
  <2>1. IsFiniteSet({i \in 1..Len(v) : v[i] = e})
    BY <1>1, TimesType
  <2>2. IsFiniteSet(T)
    BY TimesType
  <2> QED
    BY <2>1, <2>2 DEF n
<1>3. f \in Bijection(S, U)
  <2>1. f \in [S -> U]
    BY <1>1
  <2>2. f \in Injection(S, U)
    BY <2>1 DEF Injection, IsInjective
  <2>3. ASSUME NEW j \in U PROVE \E i \in S : f[i] = j
    <3>1. j - 1 \in S
      BY <1>1
    <3> QED
      BY <3>1
  <2> QED
    BY <2>1, <2>2, <2>3 DEF Bijection, Surjection
<1>4. Cardinality(U) = Cardinality(S)
  BY <1>2, <1>3, FS_Bijection DEF ExistsBijection
<1>5. 1 \in T <=> Head(w) = e
  BY <1>1
<1>6. Cardinality(U) = IF 1 \in T THEN Cardinality(T) - 1 ELSE Cardinality(T)
  BY <1>2, FS_RemoveElement
<1>7. Cardinality(T) \in Nat
  BY <1>2, FS_CardinalityType
<1> HIDE DEF S, T, U, f
<1>8. Cardinality(T) = Cardinality(S) + (IF Head(w) = e THEN 1 ELSE 0)
  BY <1>4, <1>5, <1>6, <1>7
<1> QED
  BY <1>8 DEF Times, S, T, v, n

LEMMA TimesSent ==
  ASSUME NEW w \in Seq(Change), NEW e
  PROVE  Times(w, e) > 0 => e \in Range(w)
<1>1. Times(w, e) = 0 <=> ~\E i \in 1..Len(w) : w[i] = e
  BY TimesType
<1>2. Range(w) = {w[i] : i \in 1..Len(w)}
  BY LenProperties DEF Range
<1> QED
  BY <1>1, <1>2

LEMMA WireTimes == \A o, c : OnWire(o, c) = Times(wire, [t |-> o, c |-> c])
BY DEF OnWire, Times

----------------------------------------------------------------------------
(* What a step does to the counts.                                         *)

LEMMA OwnersApart ==
  /\ Nobody \in Told /\ Teams \subseteq Told /\ Told \subseteq Owners
  /\ Every \notin Told /\ Teamless \notin Told /\ Nobody \notin Teams
  /\ Told \subseteq Counted /\ Every \in Counted
  /\ Every \notin Teams /\ Hears = Teams \cup {Every}
BY ConsoleAssumption DEF Told, Owners, Counted, Hears, Nobody, Every, Teamless

LEMMA CoversTold == \A h \in Hears : Covers(h) \subseteq Told
BY OwnersApart DEF Covers, Hears

\* A change commits.
Committed(o, c) == Commits(o, c) /\ UNCHANGED <<link, boots, tally>>

\* What a step may be, of the changes and the connection.
LEMMA ChangeSteps ==
  ASSUME [Next]_vars
  PROVE  \/ UNCHANGED <<written, link, wire, boots, tally>>
         \/ \E o \in Owners, c \in Names : Committed(o, c)
         \/ Connect
         \/ Lost
         \/ Counts
         \/ Listens
<1>1. People \in Names /\ Nobody \in Owners
  BY ConsoleAssumption, OwnersApart
<1>2. CASE ChangesNext
  BY <1>1, <1>2 DEF ChangesNext, Commit, Switch, Demote, SignOut, Committed
<1>3. CASE AnswersNext \/ UNCHANGED vars
  BY <1>3 DEF AnswersNext, vars, changeVars
<1>4. CASE StreamsNext
  BY <1>4 DEF StreamsNext, OpenStream, Checked, Break, Ask, Fails, Hear, Relisten, changeVars
<1>5. CASE Restart
  BY <1>5 DEF Restart
<1> QED
  BY <1>2, <1>3, <1>4, <1>5 DEF Next

\* The types, of the counts alone.
CountTypes ==
  /\ written \in [Owners -> [Names -> Nat]]
  /\ wire \in Seq(Change)
  /\ boots \in Nat
  /\ tally \in [Counted -> [Names -> Nat]]
  /\ link \in Links

\* A commit is written once, and told once if there is a connection to tell.
LEMMA CommittedDoes ==
  ASSUME CountTypes, NEW o \in Owners, NEW c \in Names, Committed(o, c),
         NEW p \in Owners, NEW d \in Names
  PROVE  /\ CountTypes'
         /\ written'[p][d] = written[p][d] + (IF p = o /\ d = c THEN 1 ELSE 0)
         /\ wire' = Raised(o, c)
         /\ OnWire(p, d)' = OnWire(p, d) +
              (IF p = o /\ d = c /\ o \in Told /\ link # "down" THEN 1 ELSE 0)
<1>1. written' = [written EXCEPT ![o] = [written[o] EXCEPT ![c] = written[o][c] + 1]]
  BY DEF Committed, Commits, CountTypes
<1>2. written[o] \in [Names -> Nat] /\ written[o][c] + 1 \in Nat
  BY DEF CountTypes
<1>3. written' \in [Owners -> [Names -> Nat]]
  BY <1>1, <1>2 DEF CountTypes
<1>4. written'[p][d] = written[p][d] + (IF p = o /\ d = c THEN 1 ELSE 0)
  BY <1>1, <1>2 DEF CountTypes
<1>5. wire' = Raised(o, c)
  BY DEF Committed, Commits
<1>6. o \in Told => [t |-> o, c |-> c] \in Change
  BY DEF Change
<1>7. wire' \in Seq(Change)
  BY <1>5, <1>6 DEF Raised, CountTypes
<1>8. OnWire(p, d) = Times(wire, [t |-> p, c |-> d])
      /\ OnWire(p, d)' = Times(wire', [t |-> p, c |-> d])
  BY DEF OnWire, Times
<1>9. [t |-> o, c |-> c] = [t |-> p, c |-> d] <=> p = o /\ d = c
  <2>1. [t |-> o, c |-> c].t = o /\ [t |-> o, c |-> c].c = c
        /\ [t |-> p, c |-> d].t = p /\ [t |-> p, c |-> d].c = d
    OBVIOUS
  <2> QED
    BY <2>1
<1>10. Times(wire, [t |-> p, c |-> d]) \in Nat
  BY TimesType DEF CountTypes
<1>11. CASE o \in Told /\ link # "down"
  <2>1. Times(wire', [t |-> p, c |-> d]) =
          Times(wire, [t |-> p, c |-> d])
            + (IF [t |-> o, c |-> c] = [t |-> p, c |-> d] THEN 1 ELSE 0)
    BY <1>5, <1>6, <1>11, TimesAppend DEF Raised, CountTypes
  <2>2. CountTypes'
    BY <1>3, <1>7 DEF CountTypes, Committed
  <2> QED
    BY <1>4, <1>5, <1>8, <1>9, <1>11, <2>1, <2>2
<1>12. CASE ~(o \in Told /\ link # "down")
  <2>1. wire' = wire
    BY <1>5, <1>12 DEF Raised
  <2>2. CountTypes'
    BY <1>3, <1>7 DEF CountTypes, Committed
  <2> QED
    BY <1>4, <1>5, <1>8, <1>10, <1>12, <2>1, <2>2
<1> QED
  BY <1>11, <1>12

\* The handler takes the first notification off the wire, and counts it once for
\* its owner and once for those who hear everything.
LEMMA CountsDoes ==
  ASSUME CountTypes, Counts,
         NEW p \in Owners, NEW d \in Names
  PROVE  /\ CountTypes'
         /\ Head(wire) \in Change
         /\ UNCHANGED <<written, link, boots>>
         /\ OnWire(p, d) = OnWire(p, d)' +
              (IF p = Head(wire).t /\ d = Head(wire).c THEN 1 ELSE 0)
         /\ OnWire(p, d)' \in Nat
         /\ \A q \in Counted : tally'[q][d] = tally[q][d] +
              (IF Listening /\ q \in {Head(wire).t, Every} /\ d = Head(wire).c
               THEN 1 ELSE 0)
<1> DEFINE e == Head(wire)
<1>1. /\ wire \in Seq(Change) /\ wire # <<>> /\ wire' = Tail(wire)
      /\ wire' \in Seq(Change) /\ e \in Change
  BY HeadTailProperties DEF Counts, CountTypes
<1>2. UNCHANGED <<written, link, boots>>
  BY DEF Counts
<1>3. e.t \in Told /\ e.c \in Names /\ e = [t |-> e.t, c |-> e.c]
  BY <1>1 DEF Change
<1>4. OnWire(p, d) = Times(wire, [t |-> p, c |-> d])
      /\ OnWire(p, d)' = Times(wire', [t |-> p, c |-> d])
  BY DEF OnWire, Times
<1>5. e = [t |-> p, c |-> d] <=> p = e.t /\ d = e.c
  <2>1. [t |-> p, c |-> d].t = p /\ [t |-> p, c |-> d].c = d
    OBVIOUS
  <2> HIDE DEF e
  <2> QED
    BY <1>3, <2>1
<1>6. Times(wire, [t |-> p, c |-> d]) =
        Times(wire', [t |-> p, c |-> d]) + (IF e = [t |-> p, c |-> d] THEN 1 ELSE 0)
  BY <1>1, TimesTail
<1>7. Times(wire', [t |-> p, c |-> d]) \in Nat
  BY <1>1, TimesType
<1>8. tally' = IF Listening
               THEN [o \in Counted |-> IF o \in {e.t, Every}
                                       THEN [tally[o] EXCEPT ![e.c] = tally[o][e.c] + 1]
                                       ELSE tally[o]]
               ELSE tally
  BY DEF Counts
<1> HIDE DEF e
<1>9. \A q \in Counted : /\ tally[q] \in [Names -> Nat]
                         /\ [tally[q] EXCEPT ![e.c] = tally[q][e.c] + 1] \in [Names -> Nat]
  BY <1>3 DEF CountTypes
<1>10. tally' \in [Counted -> [Names -> Nat]]
  BY <1>8, <1>9 DEF CountTypes
<1>11. \A q \in Counted : tally'[q][d] = tally[q][d] +
         (IF Listening /\ q \in {e.t, Every} /\ d = e.c THEN 1 ELSE 0)
  <2> SUFFICES ASSUME NEW q \in Counted
               PROVE  tally'[q][d] = tally[q][d] +
                 (IF Listening /\ q \in {e.t, Every} /\ d = e.c THEN 1 ELSE 0)
    OBVIOUS
  <2>1. tally[q] \in [Names -> Nat] /\ tally[q][d] \in Nat
    BY <1>9
  <2>2. CASE Listening /\ q \in {e.t, Every}
    <3>1. tally'[q] = [tally[q] EXCEPT ![e.c] = tally[q][e.c] + 1]
      BY <1>8, <2>2
    <3> QED
      BY <1>3, <2>1, <2>2, <3>1
  <2>3. CASE ~(Listening /\ q \in {e.t, Every})
    <3>1. tally'[q] = tally[q]
      BY <1>8, <2>3
    <3> QED
      BY <2>1, <2>3, <3>1
  <2> QED
    BY <2>2, <2>3
<1>12. CountTypes'
  BY <1>1, <1>2, <1>10 DEF CountTypes
<1> QED
  BY <1>1, <1>2, <1>4, <1>5, <1>6, <1>7, <1>11, <1>12 DEF e

LEMMA CountType ==
  ASSUME CountTypes, NEW h \in Hears, NEW c \in Names
  PROVE  Count(c, h) \in Nat
<1>1. h = Every \/ h \in Counted
  BY OwnersApart
<1>2. \A q \in Counted : tally[q] \in [Names -> Nat]
  BY DEF CountTypes
<1>3. \A q \in Counted : tally[q][c] \in Nat
  BY <1>2
<1> QED
  BY <1>1, <1>3, OwnersApart DEF Count

LEMMA OnWireType ==
  ASSUME CountTypes, NEW o, NEW c
  PROVE  OnWire(o, c) \in Nat
BY TimesType DEF OnWire, Times, CountTypes

\* What is on the wire, and so what is past, of a change nobody is told of.
LEMMA OnWireTold ==
  ASSUME CountTypes, NEW o, o \notin Told, NEW c
  PROVE  OnWire(o, c) = 0
<1>1. \A i \in 1..Len(wire) : wire[i] \in Change
  BY ElementOfSeq DEF CountTypes
<1>2. [t |-> o, c |-> c].t = o
  OBVIOUS
<1>3. ~\E i \in 1..Len(wire) : wire[i] = [t |-> o, c |-> c]
  BY <1>1, <1>2 DEF Change
<1>4. Times(wire, [t |-> o, c |-> c]) = 0
  BY <1>3, TimesType DEF CountTypes
<1> QED
  BY <1>4 DEF OnWire, Times

LEMMA PastType ==
  ASSUME CountTypes, WireCounted, NEW o \in Owners, NEW c \in Names
  PROVE  Past(o, c) \in Nat /\ Past(o, c) <= written[o][c] /\ written[o][c] \in Nat
<1>1. OnWire(o, c) \in Nat
  BY OnWireType
<1>2. OnWire(o, c) <= written[o][c]
  BY OnWireTold DEF WireCounted, CountTypes
<1>3. written[o][c] \in Nat
  BY DEF CountTypes
<1> QED
  BY <1>1, <1>2, <1>3 DEF Past

\* Counts only grow while a connection lasts, a boot is of one connection, and
\* as long as a count has not grown nothing it counts has become past.
Later ==
  /\ boots' \in Nat /\ boots' >= boots
  /\ Listening' /\ boots' = boots => Listening
  /\ \A o \in Owners, c \in Names :
       written'[o][c] \in Nat /\ written'[o][c] >= written[o][c]
  /\ Listening /\ Listening' =>
       \A c \in Names, h \in Hears :
         /\ Count(c, h)' \in Nat
         /\ Count(c, h)' >= Count(c, h)
         /\ Count(c, h)' = Count(c, h) =>
              \A o \in Covers(h) : Past(o, c)' = Past(o, c)

LEMMA CountsLater ==
  ASSUME CountTypes, [Next]_vars
  PROVE  CountTypes' /\ Later
<1> USE DEF CountTypes
<1>0. /\ boots \in Nat
      /\ \A o \in Owners, c \in Names : written[o][c] \in Nat
      /\ \A h \in Hears, c \in Names : Count(c, h) \in Nat
      /\ \A o, c : OnWire(o, c) \in Nat
  BY CountType, OnWireType
<1>1. CASE UNCHANGED <<written, link, wire, boots, tally>>
  <2>1. \A c, h : Count(c, h)' = Count(c, h)
    BY <1>1 DEF Count
  <2>2. \A o, c : Past(o, c)' = Past(o, c)
    BY <1>1 DEF Past, OnWire
  <2> QED
    BY <1>0, <1>1, <2>1, <2>2 DEF Later, Listening
<1>2. ASSUME NEW o \in Owners, NEW c \in Names, Committed(o, c)
      PROVE  CountTypes' /\ Later
  <2>1. CountTypes' /\ UNCHANGED <<link, boots, tally>>
    BY <1>2, CommittedDoes DEF Committed
  <2>2. \A q, h : Count(q, h)' = Count(q, h)
    BY <2>1 DEF Count
  <2>3. \A p \in Owners, d \in Names :
          /\ written'[p][d] = written[p][d] + (IF p = o /\ d = c THEN 1 ELSE 0)
          /\ OnWire(p, d)' = OnWire(p, d) +
               (IF p = o /\ d = c /\ o \in Told /\ link # "down" THEN 1 ELSE 0)
    BY <1>2, CommittedDoes
  <2>4. \A p \in Told, d \in Names : Listening => Past(p, d)' = Past(p, d)
    <3> SUFFICES ASSUME NEW p \in Told, NEW d \in Names, Listening
                 PROVE  Past(p, d)' = Past(p, d)
      OBVIOUS
    <3>1. p \in Owners /\ link # "down"
      BY OwnersApart DEF Listening
    <3>2. Past(p, d)' = written'[p][d] - OnWire(p, d)'
          /\ Past(p, d) = written[p][d] - OnWire(p, d)
      BY DEF Past
    <3>3. /\ written'[p][d] = written[p][d] + (IF p = o /\ d = c THEN 1 ELSE 0)
          /\ OnWire(p, d)' = OnWire(p, d) + (IF p = o /\ d = c THEN 1 ELSE 0)
      BY <2>3, <3>1
    <3>4. written[p][d] \in Nat /\ OnWire(p, d) \in Nat
      BY <1>0, <3>1
    <3> QED
      BY <3>2, <3>3, <3>4
  <2>5. \A p \in Owners, d \in Names :
          written'[p][d] \in Nat /\ written'[p][d] >= written[p][d]
    <3> SUFFICES ASSUME NEW p \in Owners, NEW d \in Names
                 PROVE  written'[p][d] \in Nat /\ written'[p][d] >= written[p][d]
      OBVIOUS
    <3>1. written[p][d] \in Nat
      BY <1>0
    <3>2. written'[p][d] = written[p][d] + (IF p = o /\ d = c THEN 1 ELSE 0)
      BY <2>3
    <3> QED
      BY <3>1, <3>2
  <2>6. \A d \in Names, h \in Hears :
          Listening => /\ Count(d, h)' \in Nat
                       /\ Count(d, h)' >= Count(d, h)
                       /\ \A q \in Covers(h) : Past(q, d)' = Past(q, d)
    <3> SUFFICES ASSUME NEW d \in Names, NEW h \in Hears, Listening
                 PROVE  /\ Count(d, h)' \in Nat
                        /\ Count(d, h)' >= Count(d, h)
                        /\ \A q \in Covers(h) : Past(q, d)' = Past(q, d)
      OBVIOUS
    <3>1. Count(d, h)' = Count(d, h) /\ Count(d, h) \in Nat
      BY <1>0, <2>2
    <3> QED
      BY <2>4, <3>1, CoversTold
  <2>7. boots' = boots /\ Listening' = Listening
    BY <2>1 DEF Listening
  <2> QED
    BY <1>0, <2>1, <2>5, <2>6, <2>7 DEF Later
<1>3. CASE Connect \/ Lost
  <2>1. UNCHANGED <<written, boots>> /\ ~Listening' /\ CountTypes'
    <3>1. CASE Connect
      BY <1>3, <3>1, EmptySeq DEF Connect, Links, Listening
    <3>2. CASE Lost
      <4>1. tally' \in [Counted -> [Names -> Nat]]
        BY <3>2 DEF Lost, Nothing
      <4> QED
        BY <3>2, <4>1, EmptySeq DEF Lost, Links, Listening
    <3> QED
      BY <1>3, <3>1, <3>2
  <2> QED
    BY <1>0, <2>1 DEF Later
<1>4. CASE Counts
  <2>1. CountTypes' /\ UNCHANGED <<written, link, boots>> /\ Head(wire) \in Change
    BY <1>4, CountsDoes, ConsoleAssumption, OwnersApart
  <2>2. \A p \in Owners, d \in Names :
          /\ OnWire(p, d)' \in Nat
          /\ OnWire(p, d) = OnWire(p, d)' +
               (IF p = Head(wire).t /\ d = Head(wire).c THEN 1 ELSE 0)
    BY <1>4, CountsDoes
  <2>3. \A d \in Names, q \in Counted :
          tally'[q][d] = tally[q][d] +
            (IF Listening /\ q \in {Head(wire).t, Every} /\ d = Head(wire).c
             THEN 1 ELSE 0)
    BY <1>4, CountsDoes, OwnersApart
  <2>4. \A q \in Counted, d \in Names : tally[q][d] \in Nat
    OBVIOUS
  <2>5. Head(wire).t \in Told /\ Head(wire).c \in Names
    BY <2>1 DEF Change
  <2>6. \A d \in Names, h \in Hears :
          Count(d, h)' = Count(d, h) +
            (IF Listening /\ Head(wire).t \in Covers(h) /\ d = Head(wire).c THEN 1 ELSE 0)
    <3> SUFFICES ASSUME NEW d \in Names, NEW h \in Hears
                 PROVE  Count(d, h)' = Count(d, h) +
                          (IF Listening /\ Head(wire).t \in Covers(h) /\ d = Head(wire).c
                           THEN 1 ELSE 0)
      OBVIOUS
    <3>1. CASE h = Every
      <4>1. Count(d, h) = tally[Every][d] /\ Count(d, h)' = tally'[Every][d]
        BY <3>1 DEF Count
      <4>2. Covers(h) = Told
        BY <3>1 DEF Covers
      <4> QED
        BY <2>3, <2>5, <4>1, <4>2, OwnersApart
    <3>2. CASE h # Every
      <4>1. Count(d, h) = tally[Nobody][d] + tally[h][d]
            /\ Count(d, h)' = tally'[Nobody][d] + tally'[h][d]
        BY <3>2 DEF Count
      <4>2. Covers(h) = {h, Nobody} /\ h # Nobody /\ Nobody # Every
            /\ h \in Counted /\ Nobody \in Counted
        BY <3>2, OwnersApart DEF Covers
      <4> QED
        BY <2>3, <2>4, <3>2, <4>1, <4>2
    <3> QED
      BY <3>1, <3>2
  <2>7. \A d \in Names, h \in Hears : \A o \in Covers(h) :
          ~(Head(wire).t \in Covers(h) /\ d = Head(wire).c) => Past(o, d)' = Past(o, d)
    <3> SUFFICES ASSUME NEW d \in Names, NEW h \in Hears, NEW o \in Covers(h),
                        ~(Head(wire).t \in Covers(h) /\ d = Head(wire).c)
                 PROVE  Past(o, d)' = Past(o, d)
      OBVIOUS
    <3>1. o \in Owners
      BY CoversTold, OwnersApart
    <3>2. OnWire(o, d)' = OnWire(o, d)
      BY <2>2, <3>1
    <3> QED
      BY <2>1, <3>2 DEF Past
  <2>8. \A d \in Names, h \in Hears :
          Listening => /\ Count(d, h)' \in Nat
                       /\ Count(d, h)' >= Count(d, h)
                       /\ Count(d, h)' = Count(d, h) =>
                            \A o \in Covers(h) : Past(o, d)' = Past(o, d)
    <3> SUFFICES ASSUME NEW d \in Names, NEW h \in Hears, Listening
                 PROVE  /\ Count(d, h)' \in Nat
                        /\ Count(d, h)' >= Count(d, h)
                        /\ Count(d, h)' = Count(d, h) =>
                             \A o \in Covers(h) : Past(o, d)' = Past(o, d)
      OBVIOUS
    <3>1. Count(d, h) \in Nat
      BY <1>0
    <3>2. Count(d, h)' = Count(d, h) +
            (IF Head(wire).t \in Covers(h) /\ d = Head(wire).c THEN 1 ELSE 0)
      BY <2>6
    <3>3. CASE Head(wire).t \in Covers(h) /\ d = Head(wire).c
      BY <3>1, <3>2, <3>3
    <3>4. CASE ~(Head(wire).t \in Covers(h) /\ d = Head(wire).c)
      <4>1. \A o \in Covers(h) : Past(o, d)' = Past(o, d)
        BY <2>7, <3>4
      <4> QED
        BY <3>1, <3>2, <3>4, <4>1
    <3> QED
      BY <3>3, <3>4
  <2> QED
    BY <1>0, <2>1, <2>8 DEF Later, Listening
<1>5. CASE Listens
  <2>1. boots' = boots + 1 /\ written' = written /\ ~Listening
    BY <1>5 DEF Listens, Listening
  <2>2. tally' \in [Counted -> [Names -> Nat]]
    BY <1>5 DEF Listens, Nothing
  <2>3. CountTypes'
    BY <1>0, <1>5, <2>1, <2>2 DEF Listens, Links
  <2> QED
    BY <1>0, <2>1, <2>3 DEF Later
<1> QED
  BY <1>1, <1>2, <1>3, <1>4, <1>5, ChangeSteps

\* A revision that stands goes on standing for the rows it stood for.
LEMMA StandsOn ==
  ASSUME CountTypes, Later, NEW rev, NEW rows, NEW h \in Hears,
         NEW os \in SUBSET Covers(h), NEW c \in Names, Stands(rev, rows, h, os, c)
  PROVE  Stands(rev, rows, h, os, c)'
<1>1. rev.boot \in Nat /\ rev.n \in Nat
  BY DEF Stands, Revision
<1>2. boots \in Nat /\ boots' \in Nat /\ boots' >= boots
  BY DEF CountTypes, Later
<1>3. rev.boot <= boots'
  BY <1>1, <1>2 DEF Stands
<1>4. ASSUME Listening', rev.boot = boots'
      PROVE  /\ rev.n <= Count(c, h)'
             /\ rev.n = Count(c, h)' /\ rows # None =>
                  \A o \in os : rows[o][c] >= Past(o, c)'
  <2>1. boots' = boots /\ Listening
    BY <1>1, <1>2, <1>4 DEF Stands, Later
  <2>2. rev.n <= Count(c, h) /\ Count(c, h)' >= Count(c, h) /\ Count(c, h) \in Nat
    BY <1>4, <2>1, CountType DEF Stands, Later
  <2>3. Count(c, h)' \in Int
    BY <1>4, <2>1 DEF Later
  <2>4. rev.n <= Count(c, h)'
    BY <1>1, <2>2, <2>3
  <2>5. ASSUME rev.n = Count(c, h)', rows # None, NEW o \in os
        PROVE  rows[o][c] >= Past(o, c)'
    <3>1. rev.n = Count(c, h) /\ Count(c, h)' = Count(c, h)
      BY <1>1, <2>2, <2>3, <2>5
    <3>2. Past(o, c)' = Past(o, c)
      BY <1>4, <2>1, <3>1 DEF Later
    <3>3. rows[o][c] >= Past(o, c)
      BY <1>4, <2>1, <2>5, <3>1 DEF Stands
    <3> QED
      BY <3>2, <3>3
  <2> QED
    BY <2>4, <2>5
<1> QED
  BY <1>3, <1>4 DEF Stands

----------------------------------------------------------------------------
(* Types.                                                                  *)

LEMMA RoutesTyped ==
  ASSUME TypeOK, NEW t \in Opened
  PROVE  /\ t \in Tabs /\ route[t] \in DOMAIN Routes
         /\ Reads(t) \in SUBSET Names /\ Carries(t) \in SUBSET Names
         /\ Routes[route[t]].key \in Keys /\ Routes[route[t]].invalidates \in Scopes
         /\ PersonOf[t] \in Persons
         /\ caller[PersonOf[t]].team \in Teams /\ caller[PersonOf[t]].super \in BOOLEAN
         /\ HeardBy(PersonOf[t]) \in Hears /\ ScopeOf(t) \in Hears
<1>1. t \in Tabs /\ route[t] \in DOMAIN Routes
  BY AbsentAssumption DEF Opened, TypeOK, AnswersTypeOK
<1>2. Routes[route[t]] \in [reads : SUBSET Names, carries : SUBSET Names,
                            invalidates : Scopes, key : Keys]
      /\ PersonOf[t] \in Persons
  BY <1>1, RouteAssumption
<1>3. caller[PersonOf[t]] \in [team : Teams, super : BOOLEAN, signed : BOOLEAN]
  BY <1>2 DEF TypeOK, ChangesTypeOK
<1>4. HeardBy(PersonOf[t]) \in Hears /\ ScopeOf(t) \in Hears
  BY <1>3 DEF HeardBy, ScopeOf, Hears
<1> QED
  BY <1>1, <1>2, <1>3, <1>4 DEF Reads, Carries

LEMMA CountsTyped == TypeOK => CountTypes
BY DEF TypeOK, ChangesTypeOK, CountTypes

LEMMA RevisionTyped ==
  ASSUME CountTypes, NEW c \in Names, NEW h \in Hears
  PROVE  /\ ~Listening => HeardRevision(c, h) = None
         /\ Listening => /\ HeardRevision(c, h) = [boot |-> boots, n |-> Count(c, h)]
                         /\ HeardRevision(c, h) \in Revision
<1>1. Count(c, h) \in Nat /\ boots \in Nat
  BY CountType DEF CountTypes
<1> QED
  BY <1>1 DEF HeardRevision, Count, Revision

LEMMA FloorTyped ==
  ASSUME TypeOK, WireCounted, NEW t
  PROVE  /\ Floor(t) \in Rows
         /\ \A o \in Owners, c \in Names : Floor(t)[o][c] <= written[o][c]
<1>1. \A o \in Owners, c \in Names :
        Past(o, c) \in Nat /\ Past(o, c) <= written[o][c] /\ written[o][c] \in Nat
  BY PastType, CountsTyped
<1> QED
  BY <1>1 DEF Floor, Rows

----------------------------------------------------------------------------
(* What a step does to reads and answers.                                  *)

LEMMA AnswerSteps ==
  ASSUME [Next]_vars
  PROVE  /\ route' = route
         /\ \/ UNCHANGED answerVars
            \/ /\ UNCHANGED changeVars
               /\ \/ \E t \in Tabs : Arrive(t) \/ Query(t) \/ Settle(t) \/ Reject(t) \/ Show(t)
                  \/ \E a \in answers : Forget(a)
            \/ read' = [t \in Tabs |-> None] /\ answers' = {} /\ page' = page
<1>1. CASE ChangesNext \/ Hear \/ Relisten \/ UNCHANGED vars
  BY <1>1 DEF ChangesNext, Hear, Relisten, vars, answerVars
<1>2. CASE AnswersNext
  BY <1>2 DEF AnswersNext, Query, Settle, Show, Forget
<1>3. ASSUME NEW t \in Tabs, OpenStream(t) \/ Checked(t) \/ Break(t)
      PROVE  UNCHANGED answerVars
  BY <1>3 DEF OpenStream, Checked, Break
<1>4. ASSUME NEW t \in Tabs, Ask(t) \/ Fails(t)
      PROVE  route' = route /\ UNCHANGED changeVars /\ (Arrive(t) \/ Reject(t))
  BY <1>4 DEF Ask, Fails, Arrive, Reject
<1>5. CASE Restart
  BY <1>5 DEF Restart
<1> QED
  BY <1>1, <1>2, <1>3, <1>4, <1>5 DEF Next, StreamsNext, answerVars

\* What the steps of reads and answers rest on.
Held == TypeOK /\ WireCounted /\ ReadsHeld /\ AnswersHeld

Begun(t, phase, by, rows) ==
  [phase |-> phase, by |-> by, team |-> caller[PersonOf[t]].team,
   hears |-> HeardBy(PersonOf[t]), rows |-> rows, floor |-> Floor(t), served |-> Served(t)]

LEMMA BegunTyped ==
  ASSUME TypeOK, WireCounted, NEW t \in Opened,
         NEW phase \in {"own", "joined", "done"}, NEW by \in Tabs, NEW rows \in Rows \cup {None}
  PROVE  Begun(t, phase, by, rows) \in ReadRecord(Carries(t))
<1>1. Floor(t) \in Rows
  BY FloorTyped
<1>2. /\ caller[PersonOf[t]].team \in Teams /\ HeardBy(PersonOf[t]) \in Hears
      /\ Carries(t) \in SUBSET Names
  BY RoutesTyped
<1>3. \A c \in Carries(t) : HeardRevision(c, HeardBy(PersonOf[t])) \in Revision \cup {None}
  BY <1>2, RevisionTyped, CountsTyped
<1>4. Served(t) \in [Carries(t) -> Revision \cup {None}]
  BY <1>3 DEF Served
<1> QED
  BY <1>1, <1>2, <1>4 DEF Begun, ReadRecord

\* A read that arrives is computed, is of a kept answer, or waits for one.
LEMMA Arrives ==
  ASSUME Held, NEW t \in Tabs, Arrive(t)
  PROVE  /\ t \in Opened /\ read[t] = None /\ page' = page
         /\ \/ /\ read' = [read EXCEPT ![t] = Begun(t, "own", t, None)]
               /\ Kept(t) = {}
               /\ \/ ~MayKeep(t) /\ answers' = answers
                  \/ /\ MayKeep(t)
                     /\ answers' = answers \cup {[full |-> FullKey(t), by |-> t, rows |-> None]}
            \/ \E a \in Kept(t) :
                 /\ a.by = None /\ a.rows \in Rows
                 /\ read' = [read EXCEPT ![t] = Begun(t, "done", t, a.rows)]
                 /\ answers' = answers
            \/ \E a \in Kept(t) :
                 /\ a.by \in Tabs /\ a.by # t
                 /\ read[a.by] # None /\ read[a.by].phase = "own"
                 /\ read' = [read EXCEPT ![t] = Begun(t, "joined", a.by, None)]
                 /\ answers' = answers
<1>1. t \in Opened /\ read[t] = None /\ page' = page /\ (Compute(t) \/ Hit(t))
  BY DEF Arrive
<1>2. CASE Compute(t)
  BY <1>1, <1>2 DEF Compute, Begin, Begun
<1>3. CASE Hit(t)
  <2>1. PICK a \in Kept(t) :
          /\ IF a.by = None THEN Begin(t, "done", t, a.rows)
                            ELSE Begin(t, "joined", a.by, None)
          /\ UNCHANGED answers
    BY <1>3 DEF Hit
  <2>2. a \in answers
    BY DEF Kept
  <2>3. a.by \in Tabs \cup {None} /\ a.rows \in Rows \cup {None}
    BY <2>2 DEF Held, TypeOK, AnswersTypeOK
  <2>4. IF a.by = None THEN a.rows # None
        ELSE read[a.by] # None /\ read[a.by].phase = "own"
    BY <2>2 DEF Held, AnswersHeld
  <2>5. CASE a.by = None
    BY <1>1, <2>1, <2>3, <2>4, <2>5 DEF Begin, Begun
  <2>6. CASE a.by # None
    BY <1>1, <2>1, <2>3, <2>4, <2>6 DEF Begin, Begun
  <2> QED
    BY <2>5, <2>6
<1> QED
  BY <1>1, <1>2, <1>3

\* The type of reads and answers, in parts, and through each of their steps.
ReadTyped(t) ==
  /\ t \notin Opened => read[t] = None
  /\ t \in Opened => read[t] = None \/ read[t] \in ReadRecord(Carries(t))

PageTyped(t) ==
  /\ t \notin Opened => page[t] = None
  /\ t \in Opened => page[t] = None \/ page[t] \in PageRecord(Carries(t))

KeptTyped(a) == a \in [full : {a.full}, by : Tabs \cup {None}, rows : Rows \cup {None}]

KeysApart == \A a, b \in answers : a.full = b.full => a = b

TypedParts ==
  /\ route \in [Tabs -> DOMAIN Routes \cup {None}]
  /\ read = [t \in Tabs |-> read[t]]
  /\ page = [t \in Tabs |-> page[t]]
  /\ \A t \in Tabs : ReadTyped(t) /\ PageTyped(t)
  /\ \A a \in answers : KeptTyped(a)
  /\ KeysApart

LEMMA PartsTyped ==
  /\ AnswersTypeOK <=> TypedParts
  /\ AnswersTypeOK' <=> TypedParts'
<1>1. Opened \subseteq Tabs /\ Opened' \subseteq Tabs
  BY DEF Opened
<1>2. AnswersTypeOK <=> TypedParts
  BY <1>1 DEF AnswersTypeOK, TypedParts, ReadTyped, PageTyped, KeptTyped, KeysApart
<1>3. AnswersTypeOK' <=> TypedParts'
  BY <1>1 DEF AnswersTypeOK, TypedParts, ReadTyped, PageTyped, KeptTyped, KeysApart
<1> QED
  BY <1>2, <1>3

LEMMA HeldParts == Held => TypedParts
BY PartsTyped DEF Held, TypeOK

LEMMA OpenedStay ==
  route' = route => Opened' = Opened /\ \A s : Carries(s)' = Carries(s)
BY DEF Opened, Carries

\* Where a read or a page stays the same, so does its type.
LEMMA TypesStay ==
  ASSUME TypedParts, route' = route, NEW t \in Tabs
  PROVE  /\ read'[t] = read[t] \/ read'[t] = None => ReadTyped(t)'
         /\ page'[t] = page[t] => PageTyped(t)'
         /\ t \in Opened /\ read'[t] \in ReadRecord(Carries(t)) => ReadTyped(t)'
         /\ t \in Opened /\ page'[t] \in PageRecord(Carries(t)) => PageTyped(t)'
<1>1. Opened' = Opened /\ Carries(t)' = Carries(t)
  BY OpenedStay
<1>2. ReadTyped(t) /\ PageTyped(t)
  BY DEF TypedParts
<1> QED
  BY <1>1, <1>2 DEF ReadTyped, PageTyped

LEMMA ArriveTyped ==
  ASSUME Held, NEW t \in Tabs, Arrive(t)
  PROVE  TypedParts'
<1>1. t \in Opened /\ read[t] = None /\ page' = page /\ route' = route
  BY Arrives DEF Arrive
<1>2. TypedParts
  BY HeldParts
<1>3. \E r \in ReadRecord(Carries(t)) : read' = [read EXCEPT ![t] = r]
  <2>1. None \in Rows \cup {None} /\ t \in Tabs
    OBVIOUS
  <2>2. ASSUME NEW phase \in {"own", "joined", "done"}, NEW by \in Tabs,
               NEW rows \in Rows \cup {None}
        PROVE  Begun(t, phase, by, rows) \in ReadRecord(Carries(t))
    BY <1>1, BegunTyped DEF Held
  <2> QED
    BY <2>1, <2>2, Arrives
<1>4. \A s \in Tabs : read'[s] = read[s] \/ (s = t /\ read'[s] \in ReadRecord(Carries(t)))
  BY <1>2, <1>3 DEF TypedParts
<1>5. \A s \in Tabs : ReadTyped(s)' /\ PageTyped(s)'
  BY <1>1, <1>2, <1>4, TypesStay
<1>6. read' = [s \in Tabs |-> read'[s]] /\ page' = [s \in Tabs |-> page'[s]]
  BY <1>1, <1>2, <1>3 DEF TypedParts
<1>7. (\A a \in answers' : KeptTyped(a)) /\ KeysApart'
  <2> DEFINE new == [full |-> FullKey(t), by |-> t, rows |-> None]
  <2>1. CASE answers' = answers
    BY <1>2, <2>1 DEF TypedParts, KeysApart
  <2>2. CASE Kept(t) = {} /\ MayKeep(t) /\ answers' = answers \cup {new}
    <3>1. KeptTyped(new) /\ new.full = FullKey(t)
      BY DEF KeptTyped
    <3>2. \A a \in answers : a.full # FullKey(t)
      BY <2>2 DEF Kept
    <3> HIDE DEF new
    <3> QED
      BY <1>2, <2>2, <3>1, <3>2 DEF TypedParts, KeysApart
  <2> QED
    BY <2>1, <2>2, Arrives
<1>8. (\A a \in answers : KeptTyped(a))'
  BY <1>7 DEF KeptTyped
<1> QED
  BY <1>1, <1>2, <1>5, <1>6, <1>7, <1>8 DEF TypedParts

LEMMA QueryTyped ==
  ASSUME Held, NEW t \in Tabs, Query(t)
  PROVE  TypedParts'
<1>1. TypedParts /\ written \in Rows
  BY HeldParts DEF Held, TypeOK, ChangesTypeOK, Rows
<1>2. route' = route /\ page' = page /\ answers' = answers
  BY DEF Query
<1>3. t \in Opened /\ read[t] \in ReadRecord(Carries(t))
  BY <1>1 DEF Query, TypedParts, ReadTyped
<1>4. [read[t] EXCEPT !.rows = written] \in ReadRecord(Carries(t))
  BY <1>1, <1>3 DEF ReadRecord
<1>5. read' = [read EXCEPT ![t] = [read[t] EXCEPT !.rows = written]]
  BY DEF Query
<1>6. \A s \in Tabs : read'[s] = read[s] \/ (s = t /\ read'[s] \in ReadRecord(Carries(t)))
  BY <1>1, <1>4, <1>5 DEF TypedParts
<1>7. \A s \in Tabs : ReadTyped(s)' /\ PageTyped(s)'
  BY <1>1, <1>2, <1>3, <1>6, TypesStay
<1>8. read' = [s \in Tabs |-> read'[s]]
  BY <1>1, <1>5 DEF TypedParts
<1> QED
  BY <1>1, <1>2, <1>7, <1>8 DEF TypedParts, KeysApart, KeptTyped

\* A kept answer, once the computation of t has ended.
Settled(a, t) == IF a.by = t THEN [a EXCEPT !.by = None, !.rows = read[t].rows] ELSE a

LEMMA SettleTyped ==
  ASSUME Held, NEW t \in Tabs, Settle(t)
  PROVE  /\ TypedParts'
         /\ read[t].rows \in Rows
         /\ \A a \in answers : /\ Settled(a, t).full = a.full
                               /\ a.by = t => /\ Settled(a, t).by = None
                                              /\ Settled(a, t).rows = read[t].rows
<1>1. TypedParts
  BY HeldParts
<1>2. route' = route /\ page' = page
  BY DEF Settle
<1>3. t \in Opened /\ read[t] \in ReadRecord(Carries(t)) /\ read[t].rows # None
  BY <1>1 DEF Settle, TypedParts, ReadTyped
<1>4. read[t].rows \in Rows
  BY <1>3 DEF ReadRecord
<1>5. ASSUME NEW s \in Tabs
      PROVE  ReadTyped(s)'
  <2>1. CASE s = t \/ s \in Waiting(t)
    <3>1. read'[s] = [read[s] EXCEPT !.phase = "done", !.rows = read[t].rows, !.by = s]
      BY <2>1 DEF Settle
    <3>2. s \in Opened /\ read[s] \in ReadRecord(Carries(s))
      BY <1>1, <1>3, <2>1 DEF Waiting, TypedParts, ReadTyped
    <3>3. read'[s] \in ReadRecord(Carries(s))
      BY <1>4, <3>1, <3>2 DEF ReadRecord
    <3> QED
      BY <1>1, <1>2, <3>2, <3>3, TypesStay
  <2>2. CASE ~(s = t \/ s \in Waiting(t))
    <3>1. read'[s] = read[s]
      BY <2>2 DEF Settle
    <3> QED
      BY <1>1, <1>2, <3>1, TypesStay
  <2> QED
    BY <2>1, <2>2
<1>6. read' = [s \in Tabs |-> read'[s]]
  BY DEF Settle
<1>7. ASSUME NEW a \in answers
      PROVE  /\ Settled(a, t).full = a.full
             /\ a.by = t => /\ Settled(a, t).by = None
                            /\ Settled(a, t).rows = read[t].rows
             /\ KeptTyped(Settled(a, t))
  <2>1. a \in [full : {a.full}, by : Tabs \cup {None}, rows : Rows \cup {None}]
    BY <1>1 DEF TypedParts, KeptTyped
  <2>2. CASE a.by = t
    <3>1. Settled(a, t) = [full |-> a.full, by |-> None, rows |-> read[t].rows]
      BY <2>1, <2>2 DEF Settled
    <3> QED
      BY <1>4, <3>1 DEF KeptTyped
  <2>3. CASE a.by # t
    BY <2>1, <2>3 DEF Settled, KeptTyped
  <2> QED
    BY <2>2, <2>3
<1>8. answers' = {Settled(a, t) : a \in answers}
  BY DEF Settle, Settled
<1>9. \A a \in answers' : KeptTyped(a)
  BY <1>7, <1>8
<1>10. KeysApart'
  <2>1. ASSUME NEW a \in answers', NEW b \in answers', a.full = b.full
        PROVE  a = b
    <3>1. PICK c \in answers : a = Settled(c, t)
      BY <1>8
    <3>2. PICK d \in answers : b = Settled(d, t)
      BY <1>8
    <3>3. c = d
      BY <1>1, <1>7, <2>1, <3>1, <3>2 DEF TypedParts, KeysApart
    <3> QED
      BY <3>1, <3>2, <3>3
  <2> QED
    BY <2>1 DEF KeysApart
<1>11. \A s \in Tabs : PageTyped(s)'
  BY <1>1, <1>2, TypesStay
<1>12. (\A a \in answers : KeptTyped(a))'
  BY <1>9 DEF KeptTyped
<1>13. TypedParts'
  BY <1>1, <1>2, <1>5, <1>6, <1>10, <1>11, <1>12 DEF TypedParts
<1> QED
  BY <1>4, <1>7, <1>13

LEMMA RejectTyped ==
  ASSUME Held, NEW t \in Tabs, Reject(t)
  PROVE  TypedParts'
<1>1. TypedParts
  BY HeldParts
<1>2. route' = route /\ page' = page /\ answers' \subseteq answers
  BY DEF Reject
<1>3. /\ read' = [s \in Tabs |-> read'[s]]
      /\ \A s \in Tabs : read'[s] = read[s] \/ read'[s] = None
  BY DEF Reject
<1>4. \A s \in Tabs : ReadTyped(s)' /\ PageTyped(s)'
  BY <1>1, <1>2, <1>3, TypesStay
<1> QED
  BY <1>1, <1>2, <1>3, <1>4 DEF TypedParts, KeysApart, KeptTyped

LEMMA ShowTyped ==
  ASSUME Held, NEW t \in Tabs, Show(t)
  PROVE  /\ TypedParts'
         /\ page'[t] = [team |-> read[t].team, hears |-> read[t].hears,
                        rows |-> read[t].rows, floor |-> read[t].floor,
                        served |-> read[t].served]
         /\ \A s \in Tabs \ {t} : page'[s] = page[s]
<1>1. TypedParts
  BY HeldParts
<1>2. route' = route /\ answers' = answers
  BY DEF Show
<1>3. t \in Opened /\ read[t] \in ReadRecord(Carries(t)) /\ read[t].rows # None
  BY <1>1 DEF Show, TypedParts, ReadTyped, Held, ReadsHeld
<1> DEFINE shown == [team |-> read[t].team, hears |-> read[t].hears, rows |-> read[t].rows,
                     floor |-> read[t].floor, served |-> read[t].served]
<1>4. shown \in PageRecord(Carries(t))
  BY <1>3 DEF ReadRecord, PageRecord
<1>5. page' = [page EXCEPT ![t] = shown] /\ read' = [read EXCEPT ![t] = None]
  BY DEF Show
<1> HIDE DEF shown
<1>6. \A s \in Tabs : /\ read'[s] = read[s] \/ read'[s] = None
                      /\ page'[s] = IF s = t THEN shown ELSE page[s]
  BY <1>1, <1>5 DEF TypedParts
<1>7. \A s \in Tabs : ReadTyped(s)' /\ PageTyped(s)'
  BY <1>1, <1>2, <1>3, <1>4, <1>6, TypesStay
<1>8. read' = [s \in Tabs |-> read'[s]] /\ page' = [s \in Tabs |-> page'[s]]
  BY <1>1, <1>5 DEF TypedParts
<1>9. TypedParts'
  BY <1>1, <1>2, <1>7, <1>8 DEF TypedParts, KeysApart, KeptTyped
<1> QED
  BY <1>6, <1>9 DEF shown

LEMMA AnswersTyped ==
  ASSUME Held, [Next]_vars
  PROVE  AnswersTypeOK'
<1>1. TypedParts /\ route' = route
  BY HeldParts, AnswerSteps
<1>2. ASSUME read' = read, page' = page, answers' \subseteq answers
      PROVE  TypedParts'
  <2>1. \A s \in Tabs : ReadTyped(s)' /\ PageTyped(s)'
    BY <1>1, <1>2, TypesStay
  <2> QED
    BY <1>1, <1>2, <2>1 DEF TypedParts, KeysApart, KeptTyped
<1>3. CASE UNCHANGED answerVars
  BY <1>2, <1>3, PartsTyped DEF answerVars
<1>4. ASSUME NEW a \in answers, Forget(a)
      PROVE  TypedParts'
  BY <1>2, <1>4 DEF Forget
<1>5. CASE read' = [t \in Tabs |-> None] /\ answers' = {} /\ page' = page
  <2>1. \A s \in Tabs : ReadTyped(s)' /\ PageTyped(s)'
    BY <1>1, <1>5, TypesStay
  <2>2. read' = [t \in Tabs |-> read'[t]]
    BY <1>5
  <2> QED
    BY <1>1, <1>5, <2>1, <2>2, PartsTyped DEF TypedParts, KeysApart
<1>6. ASSUME NEW t \in Tabs, Arrive(t) \/ Query(t) \/ Settle(t) \/ Reject(t) \/ Show(t)
      PROVE  TypedParts'
  BY <1>6, ArriveTyped, QueryTyped, SettleTyped, RejectTyped, ShowTyped
<1> QED
  BY <1>3, <1>4, <1>5, <1>6, AnswerSteps, PartsTyped

----------------------------------------------------------------------------
(* The callers, the bounds and the streams.                                *)

LEMMA CallersTyped ==
  ASSUME TypeOK, [Next]_vars
  PROVE  ChangesTypeOK'
<1>1. CountTypes'
  BY CountsTyped, CountsLater
<1>2. ChangesTypeOK
  BY DEF TypeOK
<1>3. \/ caller' = caller
      \/ \E p \in Persons, u \in Teams : caller' = [caller EXCEPT ![p].team = u]
      \/ \E p \in Persons : caller' = [caller EXCEPT ![p].super = FALSE]
      \/ \E p \in Persons : caller' = [caller EXCEPT ![p].signed = FALSE]
  BY DEF Next, vars, changeVars, ChangesNext, Commit, Switch, Demote, SignOut, Connect, Lost,
         AnswersNext, StreamsNext, OpenStream, Checked, Break, Ask, Fails, Hear, Counts,
         Relisten, Listens, Restart
<1>4. caller' \in [Persons -> [team : Teams, super : BOOLEAN, signed : BOOLEAN]]
  <2> DEFINE Callers == [team : Teams, super : BOOLEAN, signed : BOOLEAN]
  <2>1. caller \in [Persons -> Callers]
    BY <1>2 DEF ChangesTypeOK
  <2>2. \A q \in Callers : /\ \A u \in Teams : [q EXCEPT !.team = u] \in Callers
                           /\ [q EXCEPT !.super = FALSE] \in Callers
                           /\ [q EXCEPT !.signed = FALSE] \in Callers
    OBVIOUS
  <2>3. caller' = caller \/ \E p \in Persons, q \in Callers : caller' = [caller EXCEPT ![p] = q]
    <3> HIDE DEF Callers
    <3>1. \A p \in Persons : caller[p] \in Callers
      BY <2>1
    <3> QED
      BY <1>3, <2>2, <3>1
  <2> HIDE DEF Callers
  <2>4. caller' \in [Persons -> Callers]
    BY <2>1, <2>3
  <2> QED
    BY <2>4 DEF Callers
<1>5. left' = left \/ \E x : Once(x)
  BY DEF Next, vars, changeVars, ChangesNext, Commit, Switch, Demote, SignOut, Connect, Lost,
         AnswersNext, StreamsNext, OpenStream, Checked, Break, Ask, Fails, Hear, Counts,
         Relisten, Listens, Restart
<1>6. left' \in [Bounded -> Nat]
  <2>1. ASSUME NEW x, Once(x) PROVE left' \in [Bounded -> Nat]
    <3>1. left' = [left EXCEPT ![x] = left[x] - 1] /\ left[x] > 0
      BY <2>1 DEF Once
    <3>2. left \in [Bounded -> Nat]
      BY <1>2 DEF ChangesTypeOK
    <3>3. x \in Bounded => left[x] - 1 \in Nat
      BY <3>1, <3>2
    <3> DEFINE n == left[x] - 1
    <3>4. left' = [left EXCEPT ![x] = n] /\ (x \in Bounded => n \in Nat)
      BY <3>1, <3>3
    <3> HIDE DEF n
    <3> QED
      BY <3>2, <3>4
  <2> QED
    BY <1>2, <1>5, <2>1 DEF ChangesTypeOK
<1> QED
  BY <1>1, <1>4, <1>6 DEF CountTypes, ChangesTypeOK

Stream ==
  [at : Ats, unseen : SUBSET Names, hears : Hears \cup {None},
   queue : Seq(Change), over : BOOLEAN, ask : Asks]

LEMMA UnopenedTyped ==
  ASSUME NEW at \in Ats, NEW unseen \in SUBSET Names
  PROVE  Unopened(at, unseen) \in Stream
<1>1. <<>> \in Seq(Change)
  BY EmptySeq
<1> QED
  BY <1>1 DEF Unopened, Stream, Asks

\* The check of the frame that is first in line is asked for, and nothing else.
LEMMA DrainDoes ==
  ASSUME NEW s \in Stream
  PROVE  /\ Drain(s) \in Stream
         /\ Drain(s).at = s.at /\ Drain(s).unseen = s.unseen /\ Drain(s).hears = s.hears
         /\ Drain(s).queue = s.queue /\ Drain(s).over = s.over
         /\ \/ Drain(s).ask = s.ask
            \/ /\ s.over /\ Drain(s).ask = Overflow
            \/ /\ ~s.over /\ s.queue # <<>> /\ Drain(s).ask = Head(s.queue).c
<1>1. s.queue # <<>> => Head(s.queue) \in Change
  BY HeadTailProperties DEF Stream
<1>2. s.queue # <<>> => Head(s.queue).c \in Names
  BY <1>1 DEF Change
<1> QED
  BY <1>2 DEF Drain, Stream, Asks

LEMMA EnqueueDoes ==
  ASSUME NEW s \in Stream, NEW e \in Change
  PROVE  /\ Enqueue(s, e) \in Stream
         /\ Enqueue(s, e).at = s.at /\ Enqueue(s, e).hears = s.hears
         /\ Enqueue(s, e).unseen = s.unseen
         /\ Enqueue(s, e).over \/ e \in Range(Enqueue(s, e).queue)
         /\ s.over => Enqueue(s, e).over
         /\ \A f \in Range(s.queue) :
              Enqueue(s, e).over \/ f \in Range(Enqueue(s, e).queue)
         /\ \/ Enqueue(s, e).over
            \/ s.queue # <<>> => /\ Enqueue(s, e).queue # <<>>
                                 /\ Head(Enqueue(s, e).queue) = Head(s.queue)
         /\ \/ Enqueue(s, e).ask = s.ask
            \/ Enqueue(s, e).over /\ Enqueue(s, e).ask = Overflow
            \/ /\ ~Enqueue(s, e).over /\ Enqueue(s, e).queue # <<>>
               /\ Enqueue(s, e).ask = Head(Enqueue(s, e).queue).c
<1> DEFINE full == [s EXCEPT !.queue = <<>>, !.over = TRUE]
           longer == [s EXCEPT !.queue = Append(s.queue, e)]
<1>1. s.queue \in Seq(Change) /\ s.over \in BOOLEAN
  BY DEF Stream
<1>2. CASE s.over
  <2>1. Enqueue(s, e) = s
    BY <1>2 DEF Enqueue
  <2> QED
    BY <1>2, <2>1
<1>3. CASE ~s.over /\ Len(s.queue) >= MaxQueued
  <2>1. Enqueue(s, e) = Drain(full)
    BY <1>3 DEF Enqueue
  <2>2. full \in Stream /\ full.at = s.at /\ full.hears = s.hears
        /\ full.unseen = s.unseen /\ full.over = TRUE /\ full.ask = s.ask
    BY EmptySeq DEF Stream
  <2> HIDE DEF full
  <2> QED
    BY <1>3, <2>1, <2>2, DrainDoes
<1>4. CASE ~s.over /\ ~(Len(s.queue) >= MaxQueued) /\ e \in Range(s.queue)
  <2>1. Enqueue(s, e) = Drain(s)
    BY <1>4 DEF Enqueue
  <2> QED
    BY <1>4, <2>1, DrainDoes
<1>5. CASE ~s.over /\ ~(Len(s.queue) >= MaxQueued) /\ e \notin Range(s.queue)
  <2>1. Enqueue(s, e) = Drain(longer)
    BY <1>5 DEF Enqueue
  <2>2. longer \in Stream /\ longer.at = s.at /\ longer.hears = s.hears
        /\ longer.unseen = s.unseen /\ longer.over = s.over /\ longer.ask = s.ask
        /\ longer.queue = Append(s.queue, e)
    <3>1. Append(s.queue, e) \in Seq(Change)
      BY <1>1, AppendProperties
    <3> QED
      BY <3>1 DEF Stream
  <2>3. /\ Append(s.queue, e) # <<>>
        /\ Range(Append(s.queue, e)) = Range(s.queue) \cup {e}
        /\ s.queue # <<>> => Head(Append(s.queue, e)) = Head(s.queue)
    <3>1. Len(s.queue) \in Nat
      BY <1>1, LenProperties
    <3>2. Range(s.queue) = {s.queue[i] : i \in 1..Len(s.queue)}
      BY <1>1, LenProperties DEF Range
    <3>3. Append(s.queue, e) \in Seq(Change) /\ Len(Append(s.queue, e)) = Len(s.queue) + 1
          /\ Append(s.queue, e)[Len(s.queue) + 1] = e
          /\ \A i \in 1..Len(s.queue) : Append(s.queue, e)[i] = s.queue[i]
      BY <1>1, AppendProperties
    <3>4. Range(Append(s.queue, e)) =
            {Append(s.queue, e)[i] : i \in 1..Len(Append(s.queue, e))}
      BY <3>3, LenProperties DEF Range
    <3>5. \A x : x \in Range(Append(s.queue, e)) <=> x \in Range(s.queue) \/ x = e
      BY <3>1, <3>2, <3>3, <3>4
    <3>6. s.queue # <<>> => Len(s.queue) > 0
      BY <1>1, EmptySeq, LenProperties
    <3>7. s.queue # <<>> => Head(Append(s.queue, e)) = Head(s.queue)
      BY <1>1, <3>1, <3>3, <3>6
    <3>8. Append(s.queue, e) # <<>>
      BY <1>1, AppendProperties
    <3> QED
      BY <3>5, <3>7, <3>8
  <2> HIDE DEF longer
  <2>4. /\ Drain(longer) \in Stream
        /\ Drain(longer).at = s.at /\ Drain(longer).unseen = s.unseen
        /\ Drain(longer).hears = s.hears /\ Drain(longer).over = s.over
        /\ Drain(longer).queue = Append(s.queue, e)
        /\ \/ Drain(longer).ask = s.ask
           \/ Drain(longer).ask = Head(Append(s.queue, e)).c
    BY <1>5, <2>2, DrainDoes
  <2> QED
    BY <1>5, <2>1, <2>3, <2>4
<1> QED
  BY <1>1, <1>2, <1>3, <1>4, <1>5

LEMMA ResyncedDoes ==
  ASSUME NEW s \in Stream
  PROVE  /\ Resynced(s) \in Stream
         /\ Resynced(s).at = s.at /\ Resynced(s).hears = s.hears
         /\ Resynced(s).over
<1> DEFINE full == [s EXCEPT !.queue = <<>>, !.over = TRUE]
<1>1. full \in Stream /\ full.at = s.at /\ full.hears = s.hears /\ full.over = TRUE
  BY EmptySeq DEF Stream
<1>2. Resynced(s) = Drain(full)
  BY DEF Resynced
<1> HIDE DEF full
<1> QED
  BY <1>1, <1>2, DrainDoes

\* The frame that was asked for goes out: an overflow's says everything, any
\* other its own collection, which the first in line was of.
LEMMA SentDoes ==
  ASSUME TypeOK, NEW t \in Opened, stream[t].ask # None,
         stream[t].ask \in Names /\ ~stream[t].over =>
           stream[t].queue # <<>> /\ Head(stream[t].queue).c = stream[t].ask
  PROVE  LET s == stream[t]
             r == Sent(t)
         IN /\ r \in Stream
            /\ r.at = s.at /\ r.hears = s.hears
            /\ \/ r.unseen = Reads(t)
               \/ /\ s.unseen \subseteq r.unseen
                  /\ s.over => r.over
                  /\ \A f \in Range(s.queue) :
                       s.over \/ f.c \in r.unseen \/ f \in Range(r.queue)
            /\ \/ r.ask = None
               \/ r.over /\ r.ask = Overflow
               \/ ~r.over /\ r.queue # <<>> /\ r.ask = Head(r.queue).c
<1> DEFINE s == stream[t]
           shown == [s EXCEPT !.over = FALSE, !.queue = <<>>, !.ask = None, !.unseen = Reads(t)]
           rest == IF s.queue = <<>> THEN s.queue ELSE Tail(s.queue)
           next == [s EXCEPT !.queue = rest, !.ask = None, !.unseen = s.unseen \cup {s.ask}]
<1>1. s \in Stream /\ Reads(t) \in SUBSET Names
  BY RoutesTyped DEF TypeOK, StreamsTypeOK, Stream, Opened
<1>2. CASE s.ask = Overflow
  <2>1. Sent(t) = shown
    BY <1>2 DEF Sent
  <2>2. /\ shown \in Stream /\ shown.at = s.at /\ shown.hears = s.hears
        /\ shown.unseen = Reads(t) /\ shown.ask = None
    BY <1>1, EmptySeq DEF Stream, Asks
  <2> QED
    BY <2>1, <2>2
<1>3. CASE s.ask # Overflow
  <2>1. Sent(t) = Drain(next)
    BY <1>3 DEF Sent
  <2>2. s.ask \in Names
    BY <1>1, <1>3 DEF Stream, Asks
  <2>3. s.queue \in Seq(Change) /\ rest \in Seq(Change)
        /\ \A f \in Range(s.queue) : f \in Range(rest) \/ f = Head(s.queue)
    <3>1. s.queue \in Seq(Change)
      BY <1>1 DEF Stream
    <3>2. CASE s.queue = <<>>
      BY <3>1, <3>2
    <3>3. CASE s.queue # <<>>
      <4>1. /\ rest \in Seq(Change) /\ Len(s.queue) \in Nat /\ Len(rest) \in Nat
            /\ Len(s.queue) = Len(rest) + 1 /\ Head(s.queue) = s.queue[1]
            /\ \A i \in 1..Len(rest) : rest[i] = s.queue[i + 1]
        BY <3>1, <3>3, HeadTailProperties, LenProperties
      <4> HIDE DEF rest, s
      <4>2. Range(s.queue) = {s.queue[i] : i \in 1..Len(s.queue)}
            /\ Range(rest) = {rest[i] : i \in 1..Len(rest)}
        BY <3>1, <4>1, LenProperties DEF Range
      <4>3. ASSUME NEW i \in 1..Len(s.queue), i # 1
            PROVE  s.queue[i] \in Range(rest)
        <5>1. i - 1 \in 1..Len(rest) /\ s.queue[i] = rest[i - 1]
          BY <4>1, <4>3
        <5> QED
          BY <4>2, <5>1
      <4> QED
        BY <3>1, <4>1, <4>2, <4>3
    <3> QED
      BY <3>2, <3>3
  <2>4. /\ next \in Stream /\ next.at = s.at /\ next.hears = s.hears /\ next.over = s.over
        /\ next.unseen = s.unseen \cup {s.ask} /\ next.ask = None /\ next.queue = rest
    BY <1>1, <2>2, <2>3 DEF Stream, Asks
  <2>5. ~s.over => Head(s.queue).c = s.ask
    BY <2>2
  <2> HIDE DEF next, rest, s
  <2>6. /\ Drain(next) \in Stream
        /\ Drain(next).at = s.at /\ Drain(next).unseen = s.unseen \cup {s.ask}
        /\ Drain(next).hears = s.hears /\ Drain(next).over = s.over
        /\ Drain(next).queue = rest
        /\ \/ Drain(next).ask = None
           \/ s.over /\ Drain(next).ask = Overflow
           \/ ~s.over /\ rest # <<>> /\ Drain(next).ask = Head(rest).c
    BY <2>4, DrainDoes
  <2> QED
    BY <2>1, <2>3, <2>5, <2>6 DEF s
<1> QED
  BY <1>2, <1>3

----------------------------------------------------------------------------
(* What holds of every stream by itself.                                   *)

Sound(s) ==
  /\ s \in Stream
  /\ s.at = "live" =>
       /\ s.hears \in Hears
       /\ s.ask \in Names /\ ~s.over => s.queue # <<>> /\ Head(s.queue).c = s.ask

LEMMA SoundStreams ==
  ASSUME TypeOK, StreamsHeld
  PROVE  /\ \A t \in Tabs : Sound(stream[t])
         /\ stream = [t \in Tabs |-> stream[t]]
BY DEF TypeOK, StreamsTypeOK, Stream, StreamsHeld, Open, Sound

LEMMA UnopenedSound ==
  ASSUME NEW unseen \in SUBSET Names
  PROVE  /\ Sound(Unopened("back", unseen))
         /\ \A h \in Hears : Sound([Unopened("live", unseen) EXCEPT !.hears = h])
<1>1. Unopened("back", unseen) \in Stream /\ Unopened("live", unseen) \in Stream
  BY UnopenedTyped DEF Ats
<1>2. Unopened("back", unseen).at = "back" /\ Unopened("live", unseen).ask = None
  BY DEF Unopened
<1>3. \A h \in Hears : /\ [Unopened("live", unseen) EXCEPT !.hears = h] \in Stream
                       /\ [Unopened("live", unseen) EXCEPT !.hears = h].hears = h
                       /\ [Unopened("live", unseen) EXCEPT !.hears = h].ask = None
  BY <1>1, <1>2 DEF Stream
<1>4. None \notin Names
  BY AbsentAssumption
<1> QED
  BY <1>1, <1>2, <1>3, <1>4 DEF Sound

LEMMA UnseenSound ==
  ASSUME NEW s, Sound(s), NEW unseen \in SUBSET Names
  PROVE  Sound([s EXCEPT !.unseen = unseen])
BY DEF Sound, Stream

LEMMA StreamsSound ==
  ASSUME TypeOK, StreamsHeld, [Next]_vars
  PROVE  /\ \A t \in Tabs : Sound(stream'[t])
         /\ stream' = [t \in Tabs |-> stream'[t]]
<1>1. \A t \in Tabs : Sound(stream[t])
  BY SoundStreams
<1>2. stream = [t \in Tabs |-> stream[t]]
  BY SoundStreams
<1>3. {} \in SUBSET Names /\ Overflow \notin Names /\ None \notin Names
  BY QueueAssumption, AbsentAssumption DEF Overflow
<1>4. \A t \in Opened : Reads(t) \in SUBSET Names /\ HeardBy(PersonOf[t]) \in Hears
  BY RoutesTyped
<1>5. \A t \in Tabs : Open(t) \/ page[t] # None \/ read[t] # None => t \in Opened
  BY DEF StreamsHeld, TypeOK, AnswersTypeOK
<1>6. ASSUME UNCHANGED stream
      PROVE  (\A t \in Tabs : Sound(stream'[t])) /\ stream' = [t \in Tabs |-> stream'[t]]
  BY <1>1, <1>2, <1>6
<1>7. ASSUME NEW t \in Tabs, NEW s, Sound(s), stream' = [stream EXCEPT ![t] = s]
      PROVE  (\A u \in Tabs : Sound(stream'[u])) /\ stream' = [u \in Tabs |-> stream'[u]]
  BY <1>1, <1>2, <1>7
<1>8. CASE ChangesNext \/ AnswersNext \/ UNCHANGED vars
  BY <1>6, <1>8 DEF ChangesNext, AnswersNext, vars
<1>9. ASSUME NEW t \in Tabs, OpenStream(t)
      PROVE  (\A u \in Tabs : Sound(stream'[u])) /\ stream' = [u \in Tabs |-> stream'[u]]
  <2> DEFINE unseen == IF stream[t].at = "new" THEN MovedSince(t) ELSE Reads(t)
             s == [Unopened("live", unseen) EXCEPT !.hears = HeardBy(PersonOf[t])]
  <2>1. t \in Opened /\ stream' = [stream EXCEPT ![t] = s]
    BY <1>5, <1>9 DEF OpenStream
  <2>2. unseen \in SUBSET Names
    BY <1>4, <2>1 DEF MovedSince
  <2> HIDE DEF unseen
  <2>3. Sound(s)
    BY <1>4, <2>1, <2>2, UnopenedSound
  <2> HIDE DEF s
  <2> QED
    BY <1>7, <2>1, <2>3
<1>10. ASSUME NEW t \in Tabs, Checked(t)
       PROVE  (\A u \in Tabs : Sound(stream'[u])) /\ stream' = [u \in Tabs |-> stream'[u]]
  <2>1. Sound(Unopened("back", {}))
    BY <1>3, UnopenedSound
  <2>2. t \in Opened /\ Open(t) /\ stream[t].ask # None
    BY <1>5, <1>10 DEF Checked
  <2>3. stream[t].ask \in Names /\ ~stream[t].over =>
          stream[t].queue # <<>> /\ Head(stream[t].queue).c = stream[t].ask
    BY <2>2 DEF StreamsHeld
  <2>4. Sound(Sent(t))
    <3> DEFINE r == Sent(t)
    <3>1. /\ r \in Stream /\ r.hears = stream[t].hears
          /\ \/ r.ask = None
             \/ r.over /\ r.ask = Overflow
             \/ ~r.over /\ r.queue # <<>> /\ r.ask = Head(r.queue).c
      BY <2>2, <2>3, SentDoes
    <3>2. stream[t].hears \in Hears
      BY <2>2 DEF StreamsHeld
    <3> HIDE DEF r
    <3>3. Sound(r)
      BY <1>3, <3>1, <3>2 DEF Sound
    <3> QED
      BY <3>3 DEF r
  <2> QED
    BY <1>7, <1>10, <2>1, <2>4 DEF Checked
<1>11. ASSUME NEW t \in Tabs, Break(t)
       PROVE  (\A u \in Tabs : Sound(stream'[u])) /\ stream' = [u \in Tabs |-> stream'[u]]
  <2>1. Sound(Unopened("back", {}))
    BY <1>3, UnopenedSound
  <2> QED
    BY <1>7, <1>11, <2>1 DEF Break
<1>12. ASSUME NEW t \in Tabs, Ask(t)
       PROVE  (\A u \in Tabs : Sound(stream'[u])) /\ stream' = [u \in Tabs |-> stream'[u]]
  <2>1. stream' = [stream EXCEPT ![t] = [stream[t] EXCEPT !.unseen = {}]]
    BY <1>12 DEF Ask
  <2>2. Sound([stream[t] EXCEPT !.unseen = {}])
    BY <1>1, <1>3, UnseenSound
  <2> QED
    BY <1>7, <2>1, <2>2
<1>13. ASSUME NEW t \in Tabs, Fails(t)
       PROVE  (\A u \in Tabs : Sound(stream'[u])) /\ stream' = [u \in Tabs |-> stream'[u]]
  <2>1. stream' = [s \in Tabs |->
                     IF (s = t \/ s \in Waiting(t)) /\ Open(s)
                     THEN [stream[s] EXCEPT !.unseen = Reads(s)] ELSE stream[s]]
    BY <1>13 DEF Fails
  <2>2. \A s \in Tabs : Open(s) => Sound([stream[s] EXCEPT !.unseen = Reads(s)])
    BY <1>1, <1>4, <1>5, UnseenSound
  <2> QED
    BY <1>1, <2>1, <2>2
<1>14. CASE Hear
  <2> DEFINE e == Head(wire)
  <2>1. stream' = [t \in Tabs |-> IF Concerns(t, e) THEN Enqueue(stream[t], e) ELSE stream[t]]
    BY <1>14 DEF Hear
  <2>2. e \in Change
    BY <1>14, HeadTailProperties DEF Hear, Counts, TypeOK, ChangesTypeOK
  <2> HIDE DEF e
  <2>3. ASSUME NEW t \in Tabs, Concerns(t, e)
        PROVE  Sound(Enqueue(stream[t], e))
    <3>1. stream[t] \in Stream /\ Sound(stream[t]) /\ stream[t].at = "live"
      BY <1>1, <2>3 DEF Sound, Concerns, Open
    <3> DEFINE s == stream[t]
               r == Enqueue(s, e)
    <3>2. /\ r \in Stream /\ r.hears = s.hears
          /\ s.over => r.over
          /\ \/ r.over
             \/ s.queue # <<>> => r.queue # <<>> /\ Head(r.queue) = Head(s.queue)
          /\ \/ r.ask = s.ask
             \/ r.over /\ r.ask = Overflow
             \/ ~r.over /\ r.queue # <<>> /\ r.ask = Head(r.queue).c
      BY <2>2, <3>1, EnqueueDoes
    <3> HIDE DEF r
    <3>3. Sound(r)
      BY <1>3, <3>1, <3>2 DEF Sound
    <3> QED
      BY <3>3 DEF r
  <2> QED
    BY <1>1, <2>1, <2>3
<1>15. CASE Relisten
  <2>1. stream' = [t \in Tabs |-> IF Open(t) THEN Resynced(stream[t]) ELSE stream[t]]
    BY <1>15 DEF Relisten
  <2>2. \A t \in Tabs : Open(t) => Sound(Resynced(stream[t]))
    BY <1>1, ResyncedDoes DEF Sound, Open
  <2> QED
    BY <1>1, <2>1, <2>2
<1>16. CASE Restart
  <2>1. stream' = [t \in Tabs |-> IF Open(t) THEN Unopened("back", {}) ELSE stream[t]]
    BY <1>16 DEF Restart
  <2>2. Sound(Unopened("back", {}))
    BY <1>3, UnopenedSound
  <2> QED
    BY <1>1, <2>1, <2>2
<1> QED
  BY <1>8, <1>9, <1>10, <1>11, <1>12, <1>13, <1>14, <1>15, <1>16 DEF Next, StreamsNext

\* What a stream still has to tell its tab of o's changes to c.
Owes(t, o, c) ==
  \/ c \in stream[t].unseen
  \/ stream[t].over
  \/ [t |-> o, c |-> c] \in Range(stream[t].queue)

\* An open stream was opened just now, or was open and still owes what it owed,
\* unless its tab has just asked for it.
LEMMA OwesStill ==
  ASSUME TypeOK, StreamsHeld, [Next]_vars, NEW t \in Tabs, Open(t)'
  PROVE  \/ OpenStream(t)
         \/ /\ Open(t) /\ stream'[t].hears = stream[t].hears
            /\ Ask(t) \/ \A o, c : c \in Reads(t) /\ Owes(t, o, c) => Owes(t, o, c)'
<1> DEFINE Goal ==
             \/ OpenStream(t)
             \/ /\ Open(t) /\ stream'[t].hears = stream[t].hears
                /\ Ask(t) \/ \A o, c : c \in Reads(t) /\ Owes(t, o, c) => Owes(t, o, c)'
<1>1. stream'[t].at = "live" /\ stream = [u \in Tabs |-> stream[u]] /\ stream[t] \in Stream
  BY SoundStreams DEF Open, Sound
<1>2. ASSUME stream'[t] = stream[t]
      PROVE  Goal
  BY <1>1, <1>2 DEF Open, Owes
<1>3. \A unseen : Unopened("back", unseen).at # "live"
  BY DEF Unopened
<1>4. CASE ChangesNext \/ AnswersNext \/ UNCHANGED vars
  BY <1>2, <1>4 DEF ChangesNext, AnswersNext, vars
<1>5. ASSUME NEW u \in Tabs, u # t, OpenStream(u) \/ Checked(u) \/ Break(u) \/ Ask(u)
      PROVE  Goal
  <2>1. stream'[t] = stream[t]
    BY <1>1, <1>5 DEF OpenStream, Checked, Break, Ask
  <2> QED
    BY <1>2, <2>1
<1>6. CASE Checked(t)
  <2>1. Open(t) /\ t \in Opened /\ stream[t].ask # None
    BY <1>6 DEF Checked, StreamsHeld, TypeOK, AnswersTypeOK
  <2>2. stream' = [stream EXCEPT ![t] = IF StillAllowed(t) THEN Sent(t)
                                        ELSE Unopened("back", {})]
    BY <1>6 DEF Checked
  <2>3. stream'[t] = Sent(t)
    BY <1>1, <1>3, <2>2
  <2>4. stream[t].ask \in Names /\ ~stream[t].over =>
          stream[t].queue # <<>> /\ Head(stream[t].queue).c = stream[t].ask
    BY <2>1 DEF StreamsHeld
  <2> DEFINE s == stream[t]
             r == Sent(t)
  <2>5. /\ r.hears = s.hears
        /\ \/ r.unseen = Reads(t)
           \/ /\ s.unseen \subseteq r.unseen
              /\ s.over => r.over
              /\ \A f \in Range(s.queue) :
                   s.over \/ f.c \in r.unseen \/ f \in Range(r.queue)
    BY <2>1, <2>4, SentDoes
  <2>6. \A o, c : [t |-> o, c |-> c].c = c
    OBVIOUS
  <2> HIDE DEF r
  <2> QED
    BY <2>1, <2>3, <2>5, <2>6 DEF Owes, r
<1>7. CASE Break(t)
  BY <1>1, <1>3, <1>7 DEF Break
<1>8. CASE Ask(t)
  <2>1. stream' = [stream EXCEPT ![t] = [stream[t] EXCEPT !.unseen = {}]]
    BY <1>8 DEF Ask
  <2>2. stream'[t].hears = stream[t].hears /\ stream'[t].at = stream[t].at
    BY <1>1, <2>1 DEF Stream
  <2> QED
    BY <1>1, <1>8, <2>2 DEF Open
<1>9. ASSUME NEW u \in Tabs, Fails(u)
      PROVE  Goal
  <2>1. \/ stream'[t] = stream[t]
        \/ Open(t) /\ stream'[t] = [stream[t] EXCEPT !.unseen = Reads(t)]
    BY <1>9 DEF Fails
  <2>2. CASE Open(t) /\ stream'[t] = [stream[t] EXCEPT !.unseen = Reads(t)]
    <3>1. stream'[t].hears = stream[t].hears /\ stream'[t].unseen = Reads(t)
      BY <1>1, <2>2 DEF Stream
    <3> QED
      BY <2>2, <3>1 DEF Owes
  <2> QED
    BY <1>2, <2>1, <2>2
<1>10. CASE Hear
  <2>1. stream'[t] = IF Concerns(t, Head(wire)) THEN Enqueue(stream[t], Head(wire))
                     ELSE stream[t]
    BY <1>10 DEF Hear
  <2>2. CASE Concerns(t, Head(wire))
    <3> DEFINE s == stream[t]
               r == Enqueue(s, Head(wire))
    <3>1. Head(wire) \in Change
      BY <1>10, HeadTailProperties DEF Hear, Counts, TypeOK, ChangesTypeOK
    <3>2. /\ r.hears = s.hears /\ r.unseen = s.unseen
          /\ s.over => r.over
          /\ \A f \in Range(s.queue) : r.over \/ f \in Range(r.queue)
      BY <1>1, <3>1, EnqueueDoes
    <3>3. stream'[t] = r /\ Open(t)
      BY <2>1, <2>2 DEF Concerns
    <3> HIDE DEF r
    <3> QED
      BY <3>2, <3>3 DEF Owes
  <2>3. CASE ~Concerns(t, Head(wire))
    BY <1>2, <2>1, <2>3
  <2> QED
    BY <2>2, <2>3
<1>11. CASE Relisten
  <2>1. stream'[t] = IF Open(t) THEN Resynced(stream[t]) ELSE stream[t]
    BY <1>11 DEF Relisten
  <2>2. CASE Open(t)
    BY <1>1, <2>1, <2>2, ResyncedDoes DEF Owes
  <2> QED
    BY <1>2, <2>1, <2>2
<1>12. CASE Restart
  <2>1. stream'[t] = IF Open(t) THEN Unopened("back", {}) ELSE stream[t]
    BY <1>12 DEF Restart
  <2> QED
    BY <1>1, <1>2, <1>3, <2>1
<1> QED
  BY <1>4, <1>5, <1>6, <1>7, <1>8, <1>9, <1>10, <1>11, <1>12 DEF Next, StreamsNext

LEMMA PageSteps ==
  ASSUME Held, [Next]_vars, NEW t \in Tabs
  PROVE  \/ page'[t] = page[t]
         \/ /\ UNCHANGED changeVars
            /\ t \in Opened /\ read[t] # None /\ read[t].phase = "done"
            /\ read'[t] = None
            /\ page'[t] = [team |-> read[t].team, hears |-> read[t].hears,
                           rows |-> read[t].rows, floor |-> read[t].floor,
                           served |-> read[t].served]
            /\ page'[t] # None
<1>1. \/ page' = page
      \/ UNCHANGED changeVars /\ \E u \in Tabs : Show(u)
  BY AnswerSteps DEF answerVars, Arrive, Query, Settle, Reject, Forget
<1>2. ASSUME UNCHANGED changeVars, Show(t)
      PROVE  /\ t \in Opened /\ read[t] # None /\ read[t].phase = "done"
             /\ read'[t] = None
             /\ page'[t] = [team |-> read[t].team, hears |-> read[t].hears,
                            rows |-> read[t].rows, floor |-> read[t].floor,
                            served |-> read[t].served]
             /\ page'[t] # None
  <2>1. TypedParts
    BY HeldParts
  <2>2. t \in Opened /\ read[t] # None /\ read[t].phase = "done" /\ read'[t] = None
    BY <1>2, <2>1 DEF Show, TypedParts, ReadTyped
  <2>3. page'[t] = [team |-> read[t].team, hears |-> read[t].hears, rows |-> read[t].rows,
                    floor |-> read[t].floor, served |-> read[t].served]
    BY <1>2, ShowTyped
  <2>4. read[t] \in ReadRecord(Carries(t)) /\ read[t].rows # None
    BY <2>1, <2>2 DEF TypedParts, ReadTyped, Held, ReadsHeld
  <2>5. page'[t] \in PageRecord(Carries(t))
    BY <2>3, <2>4 DEF ReadRecord, PageRecord
  <2>6. Carries(t) \in SUBSET Names
    BY <2>2, RoutesTyped DEF Held
  <2> QED
    BY <2>2, <2>3, <2>5, <2>6, AbsentAssumption
<1>3. ASSUME NEW u \in Tabs, u # t, Show(u)
      PROVE  page'[t] = page[t]
  BY <1>3, ShowTyped
<1> QED
  BY <1>1, <1>2, <1>3

LEMMA TypesAndStreams ==
  ASSUME Held, StreamsHeld, [Next]_vars
  PROVE  TypeOK' /\ StreamsHeld'
<1>1. TypeOK
  BY DEF Held
<1>2. ChangesTypeOK' /\ AnswersTypeOK'
  BY <1>1, CallersTyped, AnswersTyped
<1>3. (\A t \in Tabs : Sound(stream'[t])) /\ stream' = [t \in Tabs |-> stream'[t]]
  BY <1>1, StreamsSound
<1>4. stream' \in [Tabs -> Stream]
  BY <1>3 DEF Sound
<1>5. StreamsTypeOK'
  BY <1>4 DEF StreamsTypeOK, Stream
<1>6. ASSUME NEW t \in Tabs, Open(t)'
      PROVE  page'[t] # None
  <2>1. page[t] # None
    BY <1>1, <1>6, OwesStill DEF OpenStream, StreamsHeld
  <2> QED
    BY <2>1, PageSteps
<1>7. StreamsHeld'
  BY <1>3, <1>6 DEF StreamsHeld, Sound, Open
<1> QED
  BY <1>2, <1>5, <1>7 DEF TypeOK

LEMMA WireSteps ==
  ASSUME TypeOK, WireCounted, [Next]_vars
  PROVE  WireCounted'
<1>1. CountTypes
  BY CountsTyped
<1>2. \A o \in Told, c \in Names :
        OnWire(o, c) \in Nat /\ OnWire(o, c) <= written[o][c] /\ written[o][c] \in Nat
  BY <1>1, OnWireType, OwnersApart DEF WireCounted, CountTypes
<1>3. CASE UNCHANGED <<written, link, wire, boots, tally>> \/ Listens
  BY <1>2, <1>3 DEF WireCounted, OnWire, Listens
<1>4. ASSUME NEW o \in Owners, NEW c \in Names, Committed(o, c)
      PROVE  WireCounted'
  <2>1. ASSUME NEW p \in Told, NEW d \in Names
        PROVE  OnWire(p, d)' <= written'[p][d]
    <3>1. p \in Owners
      BY OwnersApart
    <3>2. /\ written'[p][d] = written[p][d] + (IF p = o /\ d = c THEN 1 ELSE 0)
          /\ OnWire(p, d)' = OnWire(p, d) +
               (IF p = o /\ d = c /\ o \in Told /\ link # "down" THEN 1 ELSE 0)
      BY <1>1, <1>4, <3>1, CommittedDoes
    <3> QED
      BY <1>2, <3>2
  <2>2. wire' = Raised(o, c) /\ link' = link
    BY <1>4 DEF Committed, Commits
  <2> QED
    BY <2>1, <2>2 DEF WireCounted, Raised
<1>5. CASE Connect \/ Lost
  <2>1. wire' = <<>> /\ written' = written
    BY <1>5 DEF Connect, Lost
  <2>2. ASSUME NEW p \in Told, NEW d \in Names
        PROVE  OnWire(p, d)' <= written'[p][d]
    <3>1. OnWire(p, d)' = Times(<<>>, [t |-> p, c |-> d])
      BY <2>1 DEF OnWire, Times
    <3> QED
      BY <1>2, <2>1, <3>1, TimesEmpty
  <2> QED
    BY <2>1, <2>2 DEF WireCounted
<1>6. CASE Counts
  <2>1. ASSUME NEW p \in Told, NEW d \in Names
        PROVE  OnWire(p, d)' <= written'[p][d]
    <3>1. p \in Owners
      BY OwnersApart
    <3>2. /\ written' = written /\ OnWire(p, d)' \in Nat
          /\ OnWire(p, d) = OnWire(p, d)' +
               (IF p = Head(wire).t /\ d = Head(wire).c THEN 1 ELSE 0)
      BY <1>1, <1>6, <3>1, CountsDoes
    <3> QED
      BY <1>2, <3>2
  <2>2. link' = link /\ link # "down"
    BY <1>6 DEF Counts, WireCounted
  <2> QED
    BY <2>1, <2>2 DEF WireCounted
<1> QED
  BY <1>3, <1>4, <1>5, <1>6, ChangeSteps

----------------------------------------------------------------------------
(* What becomes of a read and of a kept answer.                            *)

ReadHeld(s) ==
  read[s] # None =>
    /\ read[s].phase = "done" => read[s].rows # None
    /\ read[s].phase = "joined" =>
         read[read[s].by] # None /\ read[read[s].by].phase = "own"

\* A read goes on with the rows it had coming, or now has them.
GoesOnReading(s) ==
  /\ read[s] # None
  /\ read'[s].team = read[s].team /\ read'[s].hears = read[s].hears
  /\ read'[s].floor = read[s].floor /\ read'[s].served = read[s].served
  /\ \/ RowsRead(s)' = RowsRead(s)
     \/ RowsRead(s) = None /\ RowsRead(s)' = written /\ UNCHANGED changeVars

\* A read that arrives takes the caller's revisions with it, and has no rows or
\* those of a kept answer.
BeginsReading(s) ==
  /\ s \in Opened /\ read[s] = None /\ UNCHANGED changeVars /\ Arrive(s)
  /\ read'[s].team = caller[PersonOf[s]].team /\ read'[s].hears = HeardBy(PersonOf[s])
  /\ read'[s].floor = Floor(s) /\ read'[s].served = Served(s)
  /\ RowsRead(s)' = None \/ \E a \in Kept(s) : RowsRead(s)' = RowsKept(a)

\* What becomes of read s in a step.
Reading(s) ==
  /\ ReadHeld(s)'
  /\ read'[s] # None => GoesOnReading(s) \/ BeginsReading(s)

\* A read is left alone where no other that it waits for is touched.
LEMMA LeftAlone ==
  ASSUME Held, NEW s \in Tabs, read'[s] = read[s],
         read[s] # None /\ read[s].phase = "joined" =>
           read'[read[s].by] = read[read[s].by]
  PROVE  Reading(s)
<1>1. ReadHeld(s)
  BY DEF Held, ReadsHeld, ReadHeld
<1> QED
  BY <1>1 DEF ReadHeld, Reading, GoesOnReading, RowsRead

LEMMA WaitsFor ==
  ASSUME Held, NEW s \in Tabs, read[s] # None
  PROVE  /\ s \in Opened /\ read[s] \in ReadRecord(Carries(s)) /\ read[s].by \in Tabs
         /\ read[s].phase = "joined" =>
              read[read[s].by] # None /\ read[read[s].by].phase = "own"
<1>1. ReadTyped(s)
  BY HeldParts DEF TypedParts
<1> QED
  BY <1>1 DEF ReadTyped, ReadRecord, Held, ReadsHeld

LEMMA ArriveReads ==
  ASSUME Held, NEW t \in Tabs, Arrive(t), UNCHANGED changeVars, NEW s \in Tabs
  PROVE  Reading(s)
<1>1. t \in Opened /\ read[t] = None
  BY Arrives
<1>2. read = [u \in Tabs |-> read[u]]
  BY HeldParts DEF TypedParts
<1>3. \A u \in Tabs \ {t} : read'[u] = read[u]
  BY <1>2, Arrives
<1>4. CASE s # t
  BY <1>1, <1>3, <1>4, LeftAlone, WaitsFor
<1>5. ASSUME NEW phase, NEW by, NEW rows, read' = [read EXCEPT ![t] = Begun(t, phase, by, rows)]
      PROVE  /\ read'[t].phase = phase /\ read'[t].by = by /\ read'[t].rows = rows
             /\ read'[t].team = caller[PersonOf[t]].team
             /\ read'[t].hears = HeardBy(PersonOf[t])
             /\ read'[t].floor = Floor(t) /\ read'[t].served = Served(t)
  <2>1. read'[t] = Begun(t, phase, by, rows)
    BY <1>2, <1>5
  <2> QED
    BY <2>1 DEF Begun
<1>6. CASE read' = [read EXCEPT ![t] = Begun(t, "own", t, None)]
  <2>1. /\ read'[t].phase = "own" /\ read'[t].rows = None
        /\ read'[t].team = caller[PersonOf[t]].team
        /\ read'[t].hears = HeardBy(PersonOf[t])
        /\ read'[t].floor = Floor(t) /\ read'[t].served = Served(t)
    BY <1>5, <1>6
  <2>2. ReadHeld(t)'
    BY <2>1 DEF ReadHeld
  <2>3. RowsRead(t)' = None
    BY <2>1 DEF RowsRead
  <2>4. Reading(t)
    BY <1>1, <2>1, <2>2, <2>3 DEF Reading, BeginsReading
  <2> QED
    BY <1>4, <2>4
<1>7. ASSUME NEW a \in Kept(t), a.by = None, a.rows \in Rows,
             read' = [read EXCEPT ![t] = Begun(t, "done", t, a.rows)]
      PROVE  Reading(t)
  <2>1. a.rows # None
    BY <1>7, AbsentAssumption
  <2>2. /\ read'[t].phase = "done" /\ read'[t].rows = a.rows
        /\ read'[t].team = caller[PersonOf[t]].team
        /\ read'[t].hears = HeardBy(PersonOf[t])
        /\ read'[t].floor = Floor(t) /\ read'[t].served = Served(t)
    BY <1>5, <1>7
  <2>3. ReadHeld(t)'
    BY <2>1, <2>2 DEF ReadHeld
  <2>4. RowsRead(t)' = RowsKept(a)
    BY <1>7, <2>2 DEF RowsRead, RowsKept
  <2> QED
    BY <1>1, <2>2, <2>3, <2>4 DEF Reading, BeginsReading
<1>8. ASSUME NEW a \in Kept(t), a.by \in Tabs, a.by # t,
             read[a.by] # None, read[a.by].phase = "own",
             read' = [read EXCEPT ![t] = Begun(t, "joined", a.by, None)]
      PROVE  Reading(t)
  <2>1. a.by # None
    BY <1>8, AbsentAssumption
  <2>2. /\ read'[t].phase = "joined" /\ read'[t].by = a.by
        /\ read'[t].team = caller[PersonOf[t]].team
        /\ read'[t].hears = HeardBy(PersonOf[t])
        /\ read'[t].floor = Floor(t) /\ read'[t].served = Served(t)
    BY <1>5, <1>8
  <2>3. read'[a.by] = read[a.by]
    BY <1>3, <1>8
  <2>4. ReadHeld(t)'
    BY <1>8, <2>2, <2>3 DEF ReadHeld
  <2>5. RowsRead(t)' = RowsKept(a)
    BY <2>1, <2>2, <2>3 DEF RowsRead, RowsKept
  <2> QED
    BY <1>1, <2>2, <2>4, <2>5 DEF Reading, BeginsReading
<1> QED
  BY <1>4, <1>6, <1>7, <1>8, Arrives

LEMMA QueryReads ==
  ASSUME Held, NEW t \in Tabs, Query(t), UNCHANGED changeVars, NEW s \in Tabs
  PROVE  Reading(s)
<1>1. read = [u \in Tabs |-> read[u]]
  BY HeldParts DEF TypedParts
<1>2. /\ read[t] # None /\ read[t].phase = "own" /\ read[t].rows = None
      /\ read' = [read EXCEPT ![t] = [read[t] EXCEPT !.rows = written]]
  BY DEF Query
<1>3. read[t] \in ReadRecord(Carries(t))
  BY <1>2, WaitsFor
<1>4. /\ \A u \in Tabs \ {t} : read'[u] = read[u]
      /\ read'[t] = [read[t] EXCEPT !.rows = written]
  BY <1>1, <1>2
<1>5. /\ read'[t].phase = "own" /\ read'[t].rows = written /\ read'[t].team = read[t].team
      /\ read'[t].hears = read[t].hears /\ read'[t].floor = read[t].floor
      /\ read'[t].served = read[t].served
  BY <1>2, <1>3, <1>4 DEF ReadRecord
<1>6. read'[t] # None
  <2>1. written \in Rows
    BY DEF Held, TypeOK, ChangesTypeOK, Rows
  <2>2. read'[t] \in ReadRecord(Carries(t))
    BY <1>3, <1>4, <2>1 DEF ReadRecord
  <2>3. Carries(t) \in SUBSET Names
    BY <1>2, WaitsFor, RoutesTyped DEF Held
  <2> QED
    BY <2>2, <2>3, AbsentAssumption
<1>7. CASE s = t
  BY <1>2, <1>5, <1>7 DEF Reading, ReadHeld, GoesOnReading, RowsRead
<1>8. CASE s # t /\ (read[s] # None /\ read[s].phase = "joined" => read[s].by # t)
  BY <1>4, <1>8, LeftAlone, WaitsFor
<1>9. CASE s # t /\ read[s] # None /\ read[s].phase = "joined" /\ read[s].by = t
  BY <1>2, <1>4, <1>5, <1>6, <1>9 DEF Reading, ReadHeld, GoesOnReading, RowsRead
<1> QED
  BY <1>7, <1>8, <1>9

LEMMA SettleReads ==
  ASSUME Held, NEW t \in Tabs, Settle(t), NEW s \in Tabs
  PROVE  Reading(s)
<1>1. read[t] # None /\ read[t].phase = "own" /\ read[t].rows # None
  BY DEF Settle
<1>2. \A u \in Tabs :
        read'[u] = IF u = t \/ u \in Waiting(t)
                   THEN [read[u] EXCEPT !.phase = "done", !.rows = read[t].rows, !.by = u]
                   ELSE read[u]
  BY DEF Settle
<1>3. CASE s = t \/ s \in Waiting(t)
  <2>1. read[s] # None /\ RowsRead(s) = read[t].rows
    BY <1>1, <1>3 DEF Waiting, RowsRead
  <2>2. read[s] \in ReadRecord(Carries(s))
    BY <2>1, WaitsFor
  <2>3. read'[s] = [read[s] EXCEPT !.phase = "done", !.rows = read[t].rows, !.by = s]
    BY <1>2, <1>3
  <2>4. /\ read'[s].phase = "done" /\ read'[s].rows = read[t].rows
        /\ read'[s].team = read[s].team /\ read'[s].hears = read[s].hears
        /\ read'[s].floor = read[s].floor /\ read'[s].served = read[s].served
    BY <2>2, <2>3 DEF ReadRecord
  <2>5. RowsRead(s)' = RowsRead(s) /\ ReadHeld(s)'
    BY <1>1, <2>1, <2>4 DEF RowsRead, ReadHeld
  <2> QED
    BY <2>1, <2>4, <2>5 DEF Reading, GoesOnReading
<1>4. CASE ~(s = t \/ s \in Waiting(t))
  <2>1. ASSUME read[s] # None, read[s].phase = "joined"
        PROVE  read'[read[s].by] = read[read[s].by]
    <3>1. read[s].by \in Tabs /\ read[read[s].by].phase = "own" /\ read[s].by # t
      BY <1>4, <2>1, WaitsFor DEF Waiting
    <3> QED
      BY <1>2, <3>1 DEF Waiting
  <2> QED
    BY <1>2, <1>4, <2>1, LeftAlone
<1> QED
  BY <1>3, <1>4

LEMMA RejectReads ==
  ASSUME Held, NEW t \in Tabs, Reject(t), NEW s \in Tabs
  PROVE  Reading(s)
<1>1. \A u \in Tabs : read'[u] = IF u = t \/ u \in Waiting(t) THEN None ELSE read[u]
  BY DEF Reject
<1>2. CASE s = t \/ s \in Waiting(t)
  BY <1>1, <1>2 DEF Reading, ReadHeld
<1>3. CASE ~(s = t \/ s \in Waiting(t))
  <2>1. ASSUME read[s] # None, read[s].phase = "joined"
        PROVE  read'[read[s].by] = read[read[s].by]
    <3>1. read[s].by \in Tabs /\ read[read[s].by].phase = "own" /\ read[s].by # t
      BY <1>3, <2>1, WaitsFor DEF Waiting
    <3> QED
      BY <1>1, <3>1 DEF Waiting
  <2> QED
    BY <1>1, <1>3, <2>1, LeftAlone
<1> QED
  BY <1>2, <1>3

LEMMA ShowReads ==
  ASSUME Held, NEW t \in Tabs, Show(t), NEW s \in Tabs
  PROVE  Reading(s)
<1>1. read = [u \in Tabs |-> read[u]]
  BY HeldParts DEF TypedParts
<1>2. read[t].phase = "done" /\ \A u \in Tabs : read'[u] = IF u = t THEN None ELSE read[u]
  BY <1>1 DEF Show
<1>3. CASE s = t
  BY <1>2, <1>3 DEF Reading, ReadHeld
<1>4. CASE s # t
  BY <1>2, <1>4, LeftAlone, WaitsFor
<1> QED
  BY <1>3, <1>4

LEMMA ReadSteps ==
  ASSUME Held, [Next]_vars, NEW s \in Tabs
  PROVE  Reading(s)
<1>1. ASSUME read' = read PROVE Reading(s)
  BY <1>1, LeftAlone
<1>2. CASE UNCHANGED answerVars
  BY <1>1, <1>2 DEF answerVars
<1>3. ASSUME NEW a \in answers, Forget(a) PROVE Reading(s)
  BY <1>1, <1>3 DEF Forget
<1>4. CASE read' = [t \in Tabs |-> None]
  BY <1>4 DEF Reading, ReadHeld
<1>5. ASSUME NEW t \in Tabs, Arrive(t) \/ Query(t) \/ Settle(t) \/ Reject(t) \/ Show(t),
             UNCHANGED changeVars
      PROVE  Reading(s)
  BY <1>5, ArriveReads, QueryReads, SettleReads, RejectReads, ShowReads
<1> QED
  BY <1>2, <1>3, <1>4, <1>5, AnswerSteps

AnswerHeld(a) ==
  IF a.by = None THEN a.rows # None ELSE read[a.by] # None /\ read[a.by].phase = "own"

\* What becomes of the kept answers: b is one of before, with the rows it had
\* coming, or it is kept from now on and has none yet.
Keeping(b) ==
  /\ AnswerHeld(b)'
  /\ \/ \E a \in answers :
          /\ b.full = a.full
          /\ \/ RowsKept(b)' = RowsKept(a)
             \/ RowsKept(a) = None /\ RowsKept(b)' = written /\ UNCHANGED changeVars
     \/ \E t \in Opened :
          MayKeep(t) /\ b.full = FullKey(t) /\ RowsKept(b)' = None /\ UNCHANGED changeVars

LEMMA KeptAsIs ==
  ASSUME Held, NEW b \in answers, b.by # None => read'[b.by] = read[b.by]
  PROVE  Keeping(b)
<1>1. AnswerHeld(b)
  BY DEF Held, AnswersHeld, AnswerHeld
<1>2. AnswerHeld(b)' /\ RowsKept(b)' = RowsKept(b)
  BY <1>1 DEF AnswerHeld, RowsKept
<1> QED
  BY <1>2 DEF Keeping

LEMMA KeptOf ==
  ASSUME Held, NEW b \in answers, b.by # None
  PROVE  b.by \in Tabs /\ read[b.by] # None /\ read[b.by].phase = "own"
<1>1. KeptTyped(b)
  BY HeldParts DEF TypedParts
<1> QED
  BY <1>1 DEF KeptTyped, Held, AnswersHeld

LEMMA ArriveKeeps ==
  ASSUME Held, NEW t \in Tabs, Arrive(t), UNCHANGED changeVars, NEW b \in answers'
  PROVE  Keeping(b)
<1>1. t \in Opened /\ read[t] = None /\ t # None
  BY Arrives, AbsentAssumption
<1>2. read = [u \in Tabs |-> read[u]]
  BY HeldParts DEF TypedParts
<1>3. \A u \in Tabs \ {t} : read'[u] = read[u]
  BY <1>2, Arrives
<1>4. CASE b \in answers
  BY <1>1, <1>3, <1>4, KeptAsIs, KeptOf
<1>5. CASE b \notin answers
  <2>1. /\ MayKeep(t)
        /\ b = [full |-> FullKey(t), by |-> t, rows |-> None]
        /\ read' = [read EXCEPT ![t] = Begun(t, "own", t, None)]
    BY <1>5, Arrives
  <2>2. read'[t] = Begun(t, "own", t, None)
    BY <1>2, <2>1
  <2>3. b.full = FullKey(t) /\ b.by = t
    BY <2>1
  <2>4. read'[t].phase = "own" /\ read'[t].rows = None
    BY <2>2 DEF Begun
  <2>5. read'[t] # None
    <3>1. Begun(t, "own", t, None) \in ReadRecord(Carries(t)) /\ Carries(t) \in SUBSET Names
      BY <1>1, BegunTyped, RoutesTyped DEF Held
    <3> QED
      BY <2>2, <3>1, AbsentAssumption
  <2> HIDE <2>1, <2>2
  <2>6. AnswerHeld(b)' /\ RowsKept(b)' = None
    BY <1>1, <2>3, <2>4, <2>5 DEF AnswerHeld, RowsKept
  <2> QED
    BY <1>1, <2>1, <2>3, <2>6 DEF Keeping
<1> QED
  BY <1>4, <1>5

LEMMA QueryKeeps ==
  ASSUME Held, NEW t \in Tabs, Query(t), UNCHANGED changeVars, NEW b \in answers'
  PROVE  Keeping(b)
<1>1. read = [u \in Tabs |-> read[u]]
  BY HeldParts DEF TypedParts
<1>2. /\ read[t] # None /\ read[t].phase = "own" /\ read[t].rows = None
      /\ read' = [read EXCEPT ![t] = [read[t] EXCEPT !.rows = written]]
      /\ b \in answers
  BY DEF Query
<1>3. \A u \in Tabs \ {t} : read'[u] = read[u]
  BY <1>1, <1>2
<1>4. CASE b.by # t
  BY <1>2, <1>3, <1>4, KeptAsIs, KeptOf
<1>5. CASE b.by = t
  <2>1. read[t] \in ReadRecord(Carries(t)) /\ Carries(t) \in SUBSET Names
    BY <1>2, WaitsFor, RoutesTyped DEF Held
  <2>2. read'[t] = [read[t] EXCEPT !.rows = written]
    BY <1>1, <1>2
  <2>3. read'[t].phase = "own" /\ read'[t].rows = written
    BY <1>2, <2>1, <2>2 DEF ReadRecord
  <2>4. written \in Rows
    BY DEF Held, TypeOK, ChangesTypeOK, Rows
  <2>5. read'[t] \in ReadRecord(Carries(t))
    BY <2>1, <2>2, <2>4 DEF ReadRecord
  <2>6. read'[t] # None /\ t # None
    BY <2>1, <2>5, AbsentAssumption
  <2>7. AnswerHeld(b)' /\ RowsKept(b)' = written /\ RowsKept(b) = None
    BY <1>2, <1>5, <2>3, <2>6 DEF AnswerHeld, RowsKept
  <2> QED
    BY <1>2, <2>7 DEF Keeping
<1> QED
  BY <1>4, <1>5

LEMMA SettleKeeps ==
  ASSUME Held, NEW t \in Tabs, Settle(t), NEW b \in answers'
  PROVE  Keeping(b)
<1>1. read[t] # None /\ read[t].phase = "own" /\ read[t].rows # None /\ t # None
  BY AbsentAssumption DEF Settle
<1>2. \A u \in Tabs :
        read'[u] = IF u = t \/ u \in Waiting(t)
                   THEN [read[u] EXCEPT !.phase = "done", !.rows = read[t].rows, !.by = u]
                   ELSE read[u]
  BY DEF Settle
<1>3. PICK a \in answers : b = Settled(a, t)
  BY DEF Settle, Settled
<1>4. b.full = a.full /\ (a.by = t => b.by = None /\ b.rows = read[t].rows)
  BY <1>3, SettleTyped
<1>5. CASE a.by = t
  <2>1. RowsKept(a) = read[t].rows /\ RowsKept(b)' = read[t].rows
    BY <1>1, <1>4, <1>5 DEF RowsKept
  <2>2. AnswerHeld(b)'
    BY <1>1, <1>4, <1>5 DEF AnswerHeld
  <2> QED
    BY <1>4, <2>1, <2>2 DEF Keeping
<1>6. CASE a.by # t
  <2>1. b = a
    BY <1>3, <1>6 DEF Settled
  <2>2. a.by # None => read'[a.by] = read[a.by]
    BY <1>2, <1>6, KeptOf DEF Waiting
  <2> QED
    BY <2>1, <2>2, KeptAsIs
<1> QED
  BY <1>5, <1>6

LEMMA AnswersKept ==
  ASSUME Held, [Next]_vars, NEW b \in answers'
  PROVE  Keeping(b)
<1>1. ASSUME read' = read, b \in answers PROVE Keeping(b)
  BY <1>1, KeptAsIs
<1>2. CASE UNCHANGED answerVars
  BY <1>1, <1>2 DEF answerVars
<1>3. ASSUME NEW a \in answers, Forget(a) PROVE Keeping(b)
  BY <1>1, <1>3 DEF Forget
<1>4. ASSUME NEW t \in Tabs, Reject(t) PROVE Keeping(b)
  <2>1. /\ b \in answers /\ b.by # t
        /\ \A u \in Tabs : read'[u] = IF u = t \/ u \in Waiting(t) THEN None ELSE read[u]
    BY <1>4 DEF Reject
  <2>2. b.by # None => read'[b.by] = read[b.by]
    BY <2>1, KeptOf DEF Waiting
  <2> QED
    BY <2>1, <2>2, KeptAsIs
<1>5. ASSUME NEW t \in Tabs, Show(t) PROVE Keeping(b)
  <2>1. read = [u \in Tabs |-> read[u]]
    BY HeldParts DEF TypedParts
  <2>2. b \in answers /\ read[t].phase = "done" /\ read' = [read EXCEPT ![t] = None]
    BY <1>5 DEF Show
  <2>3. b.by # None => read'[b.by] = read[b.by]
    BY <2>1, <2>2, KeptOf
  <2> QED
    BY <2>2, <2>3, KeptAsIs
<1>6. ASSUME NEW t \in Tabs, Arrive(t) \/ Query(t) \/ Settle(t) \/ Reject(t) \/ Show(t),
             UNCHANGED changeVars
      PROVE  Keeping(b)
  BY <1>4, <1>5, <1>6, ArriveKeeps, QueryKeeps, SettleKeeps
<1> QED
  BY <1>2, <1>3, <1>6, AnswerSteps

----------------------------------------------------------------------------
(* What a kept answer is worth to the read it is given to.                 *)

\* What revisions take from the state.
Revised == TypeOK /\ WireCounted /\ AnswersStand

\* Of a route whose key names the scope of its marker, the scope is in the key.
LEMMA ScopeInKey ==
  ASSUME TypeOK, NEW t \in Opened, MayKeep(t)
  PROVE  /\ KeyOf(t)[1] = route[t]
         /\ NamesScope(t) => KeyNames(route[t]) /\ ScopeIn(KeyOf(t)) = ScopeOf(t)
<1>1. /\ Routes[route[t]].key \in {"shared", "role", "person"}
      /\ caller[PersonOf[t]].super \in BOOLEAN
  BY RoutesTyped DEF MayKeep, Keys
<1>2. CASE Routes[route[t]].key = "shared"
  <2>1. KeyOf(t) = <<route[t]>>
    BY <1>2 DEF KeyOf
  <2>2. KeyOf(t)[1] = route[t]
    BY <2>1
  <2> QED
    BY <1>2, <2>2 DEF NamesScope, KeyNames, ScopeIn, ScopeOf
<1>3. CASE Routes[route[t]].key = "role"
  <2>1. KeyOf(t) = <<route[t], caller[PersonOf[t]].team, caller[PersonOf[t]].super>>
    BY <1>3 DEF KeyOf
  <2>2. /\ KeyOf(t)[1] = route[t] /\ KeyOf(t)[2] = caller[PersonOf[t]].team
        /\ KeyOf(t)[3] = caller[PersonOf[t]].super
    BY <2>1
  <2> QED
    BY <1>1, <1>3, <2>2 DEF NamesScope, KeyNames, ScopeIn, ScopeOf
<1>4. CASE Routes[route[t]].key = "person"
  <2>1. KeyOf(t) = <<route[t], caller[PersonOf[t]].team, PersonOf[t]>>
    BY <1>4 DEF KeyOf
  <2>2. KeyOf(t)[1] = route[t]
    BY <2>1
  <2> QED
    BY <1>4, <2>2 DEF NamesScope, KeyNames, ScopeIn, ScopeOf
<1> QED
  BY <1>1, <1>2, <1>3, <1>4

\* The marker of a read is the count of its scope, as it is now.
LEMMA MarkerNow ==
  ASSUME TypeOK, NEW t \in Opened, MayKeep(t), NEW c \in Reads(t)
  PROVE  /\ FullKey(t)[1][c] = [boot |-> boots, n |-> Count(c, ScopeOf(t))]
         /\ FullKey(t)[1][c] \in Revision
         /\ FullKey(t)[2] = KeyOf(t)
<1>1. Listening /\ c \in Names /\ ScopeOf(t) \in Hears
  BY RoutesTyped DEF MayKeep
<1>2. FullKey(t)[1] = RevisionNamed(Reads(t), ScopeOf(t)) /\ FullKey(t)[2] = KeyOf(t)
  BY DEF FullKey
<1>3. FullKey(t)[1][c] = HeardRevision(c, ScopeOf(t))
  BY <1>1, <1>2 DEF RevisionNamed
<1> QED
  BY <1>1, <1>2, <1>3, RevisionTyped, CountsTyped

\* Whom an answer of t is about is whom its scope hears.
LEMMA AboutScope ==
  ASSUME TypeOK, NEW t \in Opened
  PROVE  /\ Told \cap About(t, caller[PersonOf[t]].team) \subseteq Covers(ScopeOf(t))
         /\ Covers(ScopeOf(t)) \subseteq Told
<1>1. /\ caller[PersonOf[t]].team \in Teams /\ ScopeOf(t) \in Hears
      /\ Routes[route[t]].invalidates \in Scopes
  BY RoutesTyped
<1>2. Every \notin Teams
  BY OwnersApart
<1>3. CASE ScopeOf(t) = Every
  BY <1>3 DEF Covers
<1>4. CASE ScopeOf(t) # Every
  <2>1. /\ ScopeOf(t) = caller[PersonOf[t]].team
        /\ Routes[route[t]].invalidates # "platform"
    BY <1>4 DEF ScopeOf
  <2> QED
    BY <1>1, <1>4, <2>1, CoversTold DEF Covers, About
<1> QED
  BY <1>1, <1>3, <1>4, CoversTold

LEMMA KeptStands ==
  ASSUME Revised, NEW t \in Opened, NamesScope(t), NEW a \in Kept(t), RowsKept(a) # None,
         NEW o \in Told \cap About(t, caller[PersonOf[t]].team), NEW c \in Reads(t)
  PROVE  RowsKept(a)[o][c] >= Past(o, c)
<1>1. a \in answers /\ MayKeep(t) /\ a.full = FullKey(t) /\ Listening
  BY DEF Kept, MayKeep
<1>2. /\ FullKey(t)[1][c] = [boot |-> boots, n |-> Count(c, ScopeOf(t))]
      /\ a.full[2] = KeyOf(t) /\ KeyOf(t)[1] = route[t] /\ KeyNames(route[t])
      /\ ScopeIn(KeyOf(t)) = ScopeOf(t)
  BY <1>1, MarkerNow, ScopeInKey DEF Revised
<1>3. Stands(FullKey(t)[1][c], RowsKept(a), ScopeOf(t), Covers(ScopeOf(t)), c)
  BY <1>1, <1>2 DEF Revised, AnswersStand, Reads
<1>4. o \in Covers(ScopeOf(t))
  BY AboutScope DEF Revised
<1>5. FullKey(t)[1][c].boot = boots /\ FullKey(t)[1][c].n = Count(c, ScopeOf(t))
  BY <1>2
<1> QED
  BY <1>1, <1>3, <1>4, <1>5 DEF Stands

\* Rows read now lack nothing that was heard.
LEMMA StandsWritten ==
  ASSUME TypeOK, WireCounted, NEW rev, NEW h, NEW os \in SUBSET Owners, NEW c \in Names,
         Stands(rev, None, h, os, c)
  PROVE  Stands(rev, written, h, os, c)
<1>1. \A o \in os : written[o][c] >= Past(o, c)
  <2>1. \A o \in Owners :
          Past(o, c) \in Nat /\ Past(o, c) <= written[o][c] /\ written[o][c] \in Nat
    BY PastType, CountsTyped
  <2> QED
    BY <2>1
<1> QED
  BY <1>1 DEF Stands

\* A revision that stands for rows a read or an answer had coming stands for
\* those it has coming after the step.
LEMMA StandsStill ==
  ASSUME TypeOK, WireCounted, [Next]_vars,
         NEW rev, NEW rows, NEW later, NEW h \in Hears, NEW os \in SUBSET Covers(h),
         NEW c \in Names, Stands(rev, rows, h, os, c),
         later = rows \/ (rows = None /\ later = written)
  PROVE  Stands(rev, later, h, os, c)'
<1>1. CountTypes /\ Later
  BY CountsTyped, CountsLater
<1>2. os \in SUBSET Owners
  BY CoversTold, OwnersApart
<1>3. CASE later = rows
  BY <1>1, <1>3, StandsOn
<1>4. CASE rows = None /\ later = written
  <2>1. Stands(rev, written, h, os, c)
    BY <1>2, <1>4, StandsWritten
  <2>2. PICK w : w = written
    OBVIOUS
  <2>3. Stands(rev, w, h, os, c)
    BY <2>1, <2>2
  <2>4. Stands(rev, w, h, os, c)'
    BY <1>1, <2>3, StandsOn
  <2> QED
    BY <1>4, <2>2, <2>4
<1> QED
  BY <1>3, <1>4

----------------------------------------------------------------------------
(* What is kept, read and shown goes on standing.                          *)

LEMMA AnswersGoOn ==
  ASSUME Held, AnswersStand, [Next]_vars
  PROVE  AnswersStand'
<1> SUFFICES ASSUME NEW b \in answers'
             PROVE  LET key == b.full[2]
                        r == key[1]
                    IN /\ r \in DOMAIN Routes
                       /\ Routes[r].key # "unkept"
                       /\ KeyNames(r) =>
                            /\ ScopeIn(key) \in Hears
                            /\ \A c \in Routes[r].reads :
                                 Stands(b.full[1][c], RowsKept(b), ScopeIn(key),
                                        Covers(ScopeIn(key)), c)'
  BY DEF AnswersStand
<1> DEFINE key == b.full[2]
           r == key[1]
<1>1. Keeping(b) /\ TypeOK /\ WireCounted
  BY AnswersKept DEF Held
<1>2. ASSUME NEW a \in answers, b.full = a.full,
             \/ RowsKept(b)' = RowsKept(a)
             \/ RowsKept(a) = None /\ RowsKept(b)' = written
      PROVE  /\ r \in DOMAIN Routes
             /\ Routes[r].key # "unkept"
             /\ KeyNames(r) =>
                  /\ ScopeIn(key) \in Hears
                  /\ \A c \in Routes[r].reads :
                       Stands(b.full[1][c], RowsKept(b), ScopeIn(key),
                              Covers(ScopeIn(key)), c)'
  <2>1. /\ r \in DOMAIN Routes /\ Routes[r].key # "unkept"
        /\ KeyNames(r) =>
             /\ ScopeIn(key) \in Hears
             /\ \A c \in Routes[r].reads :
                  Stands(b.full[1][c], RowsKept(a), ScopeIn(key), Covers(ScopeIn(key)), c)
    BY <1>2 DEF AnswersStand
  <2>2. Routes[r].reads \subseteq Names
    BY <2>1, RouteAssumption
  <2>3. ASSUME KeyNames(r), NEW c \in Routes[r].reads
        PROVE  Stands(b.full[1][c], RowsKept(b), ScopeIn(key), Covers(ScopeIn(key)), c)'
    <3>1. PICK rows : rows = RowsKept(a)
      OBVIOUS
    <3>2. PICK later : later = RowsKept(b)'
      OBVIOUS
    <3>3. Stands(b.full[1][c], rows, ScopeIn(key), Covers(ScopeIn(key)), c)
      BY <2>1, <2>3, <3>1
    <3>4. Stands(b.full[1][c], later, ScopeIn(key), Covers(ScopeIn(key)), c)'
      BY <1>1, <1>2, <2>1, <2>2, <2>3, <3>1, <3>2, <3>3, StandsStill
    <3> QED
      BY <3>2, <3>4
  <2> QED
    BY <2>1, <2>3
<1>3. ASSUME NEW t \in Opened, MayKeep(t), b.full = FullKey(t), RowsKept(b)' = None,
             UNCHANGED changeVars
      PROVE  /\ r \in DOMAIN Routes
             /\ Routes[r].key # "unkept"
             /\ KeyNames(r) =>
                  /\ ScopeIn(key) \in Hears
                  /\ \A c \in Routes[r].reads :
                       Stands(b.full[1][c], RowsKept(b), ScopeIn(key),
                              Covers(ScopeIn(key)), c)'
  <2>1. key = KeyOf(t) /\ r = route[t]
    BY <1>1, <1>3, ScopeInKey DEF FullKey
  <2>2. r \in DOMAIN Routes /\ Routes[r].key # "unkept"
    BY <1>1, <1>3, <2>1, RoutesTyped DEF MayKeep
  <2>3. ASSUME KeyNames(r)
        PROVE  ScopeIn(key) = ScopeOf(t) /\ ScopeOf(t) \in Hears
    <3>1. NamesScope(t)
      BY <2>1, <2>3 DEF KeyNames, NamesScope
    <3> QED
      BY <1>1, <1>3, <2>1, <3>1, ScopeInKey, RoutesTyped
  <2>4. ASSUME KeyNames(r), NEW c \in Routes[r].reads
        PROVE  Stands(b.full[1][c], RowsKept(b), ScopeIn(key), Covers(ScopeIn(key)), c)'
    <3>1. c \in Reads(t) /\ c \in Names
      BY <1>1, <2>1, RoutesTyped DEF Reads
    <3>2. /\ b.full[1][c] = [boot |-> boots, n |-> Count(c, ScopeOf(t))]
          /\ b.full[1][c] \in Revision
      BY <1>1, <1>3, <3>1, MarkerNow
    <3>3. boots' = boots /\ Count(c, ScopeOf(t))' = Count(c, ScopeOf(t))'
          /\ tally' = tally /\ boots \in Nat
      BY <1>1, <1>3 DEF changeVars, TypeOK, ChangesTypeOK
    <3>4. PICK h : h = ScopeIn(key) /\ h \in Hears /\ h = ScopeOf(t)
      BY <2>3, <2>4
    <3>5. Count(c, h)' = Count(c, h) /\ Count(c, h) \in Nat
      BY <1>1, <3>1, <3>3, <3>4, CountType, CountsTyped DEF Count
    <3>6. b.full[1][c].boot = boots /\ b.full[1][c].n = Count(c, h)
      BY <3>2, <3>4
    <3>7. Stands(b.full[1][c], None, h, Covers(h), c)'
      BY <3>2, <3>3, <3>5, <3>6 DEF Stands
    <3> QED
      BY <1>3, <3>4, <3>7
  <2> QED
    BY <2>2, <2>3, <2>4
<1> QED
  BY <1>1, <1>2, <1>3 DEF Keeping

\* What a tab reads is the same before and after a step, but for the caller.
LEMMA RoutesKept ==
  ASSUME [Next]_vars, NEW s
  PROVE  /\ Reads(s)' = Reads(s) /\ Carries(s)' = Carries(s)
         /\ NamesScope(s)' = NamesScope(s)
         /\ \A team : About(s, team)' = About(s, team)
<1>1. route' = route
  BY AnswerSteps
<1> QED
  BY <1>1 DEF Reads, Carries, NamesScope, About

LEMMA FloorsGoOn ==
  ASSUME Held, AnswersStand, FloorsMet, [Next]_vars
  PROVE  FloorsMet'
<1> SUFFICES ASSUME NEW s \in Tabs, read'[s] # None
             PROVE  /\ \A o \in Owners, c \in Names : read'[s].floor[o][c] <= written'[o][c]
                    /\ NamesScope(s)' /\ RowsRead(s)' # None =>
                         \A o \in Told \cap About(s, read[s].team)', c \in Reads(s)' :
                           RowsRead(s)'[o][c] >= read'[s].floor[o][c]
  BY DEF FloorsMet
<1>1. Reading(s) /\ TypeOK /\ WireCounted
  BY ReadSteps DEF Held
<1>2. \A o \in Owners, c \in Names :
        /\ written[o][c] \in Nat /\ written'[o][c] \in Nat
        /\ written'[o][c] >= written[o][c]
  BY <1>1, CountsTyped, CountsLater DEF Later, CountTypes
<1>3. Told \subseteq Owners
  BY OwnersApart
<1>4. CASE GoesOnReading(s)
  <2>1. read[s] # None /\ read'[s].floor = read[s].floor /\ read'[s].team = read[s].team
    BY <1>4 DEF GoesOnReading
  <2>2. s \in Opened /\ read[s].floor \in Rows
    BY <2>1, WaitsFor DEF ReadRecord
  <2>3. \A o \in Owners, c \in Names :
          read[s].floor[o][c] \in Nat /\ read[s].floor[o][c] <= written[o][c]
    BY <2>1, <2>2 DEF FloorsMet, Rows
  <2>4. ASSUME NamesScope(s), RowsRead(s)' # None,
               NEW o \in Told \cap About(s, read[s].team), NEW c \in Reads(s)
        PROVE  RowsRead(s)'[o][c] >= read[s].floor[o][c]
    <3>1. c \in Names
      BY <1>1, <2>2, RoutesTyped
    <3>2. CASE RowsRead(s)' = RowsRead(s)
      BY <2>1, <2>4, <3>2 DEF FloorsMet
    <3>3. CASE RowsRead(s)' = written
      BY <1>2, <1>3, <2>3, <3>1, <3>3
    <3> QED
      BY <1>4, <3>2, <3>3 DEF GoesOnReading
  <2>5. About(s, read[s].team)' = About(s, read[s].team)
    <3>1. PICK team : team = read[s].team
      OBVIOUS
    <3>2. About(s, read[s].team)' = About(s, team)'
      BY <2>1, <3>1 DEF About
    <3> QED
      BY <3>1, <3>2, RoutesKept
  <2> QED
    BY <1>2, <2>1, <2>3, <2>4, <2>5, RoutesKept
<1>5. CASE BeginsReading(s)
  <2>1. /\ s \in Opened /\ UNCHANGED changeVars
        /\ read'[s].floor = Floor(s) /\ read'[s].team = caller[PersonOf[s]].team
    BY <1>5 DEF BeginsReading
  <2>2. \A o \in Owners, c \in Names : Floor(s)[o][c] <= written[o][c]
    BY <1>1, FloorTyped
  <2>3. written' = written
    BY <2>1 DEF changeVars
  <2>4. ASSUME NamesScope(s), RowsRead(s)' # None,
               NEW o \in Told \cap About(s, caller[PersonOf[s]].team), NEW c \in Reads(s)
        PROVE  RowsRead(s)'[o][c] >= Floor(s)[o][c]
    <3>1. PICK a \in Kept(s) : RowsRead(s)' = RowsKept(a)
      BY <1>5, <2>4 DEF BeginsReading
    <3>2. RowsKept(a)[o][c] >= Past(o, c)
      BY <1>1, <2>1, <2>4, <3>1, KeptStands DEF Revised
    <3>3. MayKeep(s) /\ c \in Names /\ o \in Owners
      BY <1>1, <1>3, <2>1, <3>1, RoutesTyped DEF Kept
    <3>4. Floor(s)[o][c] = Past(o, c)
      BY <3>3 DEF Floor
    <3> QED
      BY <3>1, <3>2, <3>4
  <2>5. About(s, read[s].team)' = About(s, caller[PersonOf[s]].team)
    <3>1. PICK team : team = caller[PersonOf[s]].team
      OBVIOUS
    <3>2. About(s, read[s].team)' = About(s, team)'
      BY <2>1, <3>1 DEF About
    <3> QED
      BY <3>1, <3>2, RoutesKept
  <2> QED
    BY <2>1, <2>2, <2>3, <2>4, <2>5, RoutesKept
<1> QED
  BY <1>1, <1>4, <1>5 DEF Reading

LEMMA ReadsGoOn ==
  ASSUME Held, AnswersStand, ReadsStand, [Next]_vars
  PROVE  ReadsStand'
<1> SUFFICES ASSUME NEW s \in Tabs, read'[s] # None, NamesScope(s)',
                    NEW c \in Reads(s)' \cap Carries(s)', read'[s].served[c] # None
             PROVE  Stands(read[s].served[c], RowsRead(s), read[s].hears,
                           Covers(read[s].hears) \cap About(s, read[s].team), c)'
  BY DEF ReadsStand
<1>1. Reading(s) /\ TypeOK /\ WireCounted
  BY ReadSteps DEF Held
<1>2. NamesScope(s) /\ c \in Reads(s) \cap Carries(s)
  BY RoutesKept
<1>3. PICK rev, h, team, rows :
        rev = read'[s].served[c] /\ h = read'[s].hears /\ team = read'[s].team
        /\ rows = RowsRead(s)'
  OBVIOUS
<1> DEFINE os == Covers(h) \cap About(s, team)
<1>4. About(s, team)' = About(s, team)
  BY RoutesKept
<1>5. CASE GoesOnReading(s)
  <2>1. /\ read[s] # None /\ rev = read[s].served[c] /\ h = read[s].hears
        /\ team = read[s].team
    BY <1>3, <1>5 DEF GoesOnReading
  <2>2. s \in Opened /\ h \in Hears
    BY <2>1, WaitsFor DEF ReadRecord
  <2>3. c \in Names
    BY <1>1, <1>2, <2>2, RoutesTyped
  <2>4. PICK before : before = RowsRead(s)
    OBVIOUS
  <2>5. rows = before \/ (before = None /\ rows = written)
    BY <1>3, <1>5, <2>4 DEF GoesOnReading
  <2>6. PICK those : those = os
    OBVIOUS
  <2>7. Stands(rev, before, h, those, c)
    BY <1>2, <1>3, <2>1, <2>4, <2>6 DEF ReadsStand
  <2>8. Stands(rev, rows, h, those, c)'
    BY <1>1, <2>2, <2>3, <2>5, <2>6, <2>7, StandsStill
  <2> QED
    BY <1>3, <1>4, <2>6, <2>8
<1>6. CASE BeginsReading(s)
  <2>1. /\ s \in Opened /\ UNCHANGED changeVars
        /\ h = HeardBy(PersonOf[s]) /\ team = caller[PersonOf[s]].team
        /\ rev = HeardRevision(c, HeardBy(PersonOf[s]))
        /\ rows = None \/ \E a \in Kept(s) : rows = RowsKept(a)
    BY <1>2, <1>3, <1>6 DEF BeginsReading, Served
  <2>2. h \in Hears /\ c \in Names
    BY <1>1, <1>2, <2>1, RoutesTyped
  <2>3. Listening /\ rev \in Revision /\ rev = [boot |-> boots, n |-> Count(c, h)]
    BY <1>1, <1>3, <2>1, <2>2, RevisionTyped, CountsTyped
  <2>4. rev.boot = boots /\ rev.n = Count(c, h) /\ Count(c, h) \in Nat /\ boots \in Nat
    BY <1>1, <2>2, <2>3, CountType, CountsTyped DEF CountTypes
  <2>5. /\ boots' = boots /\ Count(c, h)' = Count(c, h)
        /\ \A o : Past(o, c)' = Past(o, c)
    BY <2>1 DEF changeVars, Count, Past, OnWire
  <2>6. rows # None => \A o \in os : rows[o][c] >= Past(o, c)
    <3> SUFFICES ASSUME rows # None, NEW o \in os
                 PROVE  rows[o][c] >= Past(o, c)
      OBVIOUS
    <3>1. PICK a \in Kept(s) : rows = RowsKept(a)
      BY <2>1
    <3>2. o \in Told \cap About(s, caller[PersonOf[s]].team)
      BY <2>1, <2>2, CoversTold
    <3> QED
      BY <1>1, <1>2, <2>1, <3>1, <3>2, KeptStands DEF Revised
  <2>7. PICK those : those = os
    OBVIOUS
  <2>8. Stands(rev, rows, h, those, c)'
    BY <2>3, <2>4, <2>5, <2>6, <2>7 DEF Stands
  <2> QED
    BY <1>3, <1>4, <2>7, <2>8
<1> QED
  BY <1>1, <1>5, <1>6 DEF Reading

LEMMA PagesGoOn ==
  ASSUME Held, ReadsStand, PagesStand, [Next]_vars
  PROVE  PagesStand'
<1> SUFFICES ASSUME NEW s \in Tabs, page'[s] # None, NamesScope(s)',
                    NEW c \in Reads(s)' \cap Carries(s)', page'[s].served[c] # None
             PROVE  Stands(page[s].served[c], page[s].rows, page[s].hears,
                           Covers(page[s].hears) \cap About(s, page[s].team), c)'
  BY DEF PagesStand
<1>1. TypeOK /\ WireCounted
  BY DEF Held
<1>2. NamesScope(s) /\ c \in Reads(s) \cap Carries(s)
  BY RoutesKept
<1>3. PICK rev, h, team, rows :
        rev = page'[s].served[c] /\ h = page'[s].hears /\ team = page'[s].team
        /\ rows = page'[s].rows
  OBVIOUS
<1>4. PICK those : those = Covers(h) \cap About(s, team)
  OBVIOUS
<1>5. About(s, team)' = About(s, team)
  BY RoutesKept
<1>6. s \in Opened /\ h \in Hears /\ Stands(rev, rows, h, those, c)
  <2>1. CASE page'[s] = page[s]
    <3>1. s \in Opened /\ page[s] \in PageRecord(Carries(s))
      BY <2>1, HeldParts DEF TypedParts, PageTyped
    <3> QED
      BY <1>2, <1>3, <1>4, <2>1, <3>1 DEF PagesStand, PageRecord
  <2>2. CASE /\ s \in Opened /\ read[s] # None /\ read[s].phase = "done"
             /\ page'[s] = [team |-> read[s].team, hears |-> read[s].hears,
                            rows |-> read[s].rows, floor |-> read[s].floor,
                            served |-> read[s].served]
    <3>1. rev = read[s].served[c] /\ h = read[s].hears /\ team = read[s].team
          /\ rows = read[s].rows
      BY <1>3, <2>2
    <3>2. RowsRead(s) = rows /\ h \in Hears
      BY <2>2, <3>1, WaitsFor DEF RowsRead, ReadRecord
    <3> QED
      BY <1>2, <1>3, <1>4, <2>2, <3>1, <3>2 DEF ReadsStand
  <2> QED
    BY <2>1, <2>2, PageSteps
<1>7. Stands(rev, rows, h, those, c)'
  <2>1. c \in Names
    BY <1>1, <1>2, <1>6, RoutesTyped
  <2> QED
    BY <1>1, <1>4, <1>6, <2>1, StandsStill
<1> QED
  BY <1>3, <1>4, <1>5, <1>7

LEMMA FreshGoOn ==
  ASSUME Held, FloorsMet, AnswersAreFresh, [Next]_vars
  PROVE  AnswersAreFresh'
<1> SUFFICES ASSUME NEW t \in Tabs, page'[t] # None, NamesScope(t)',
                    NEW o \in Told \cap About(t, page[t].team)', NEW c \in Reads(t)'
             PROVE  page'[t].rows[o][c] >= page'[t].floor[o][c]
  BY DEF AnswersAreFresh
<1>1. NamesScope(t) /\ c \in Reads(t)
  BY RoutesKept
<1>2. PICK team : team = page'[t].team
  OBVIOUS
<1>3. o \in Told \cap About(t, team)
  <2>1. About(t, page[t].team)' = About(t, team)'
    BY <1>2 DEF About
  <2> QED
    BY <2>1, RoutesKept
<1>4. CASE page'[t] = page[t]
  BY <1>1, <1>2, <1>3, <1>4 DEF AnswersAreFresh
<1>5. CASE /\ t \in Opened /\ read[t] # None /\ read[t].phase = "done"
           /\ page'[t] = [team |-> read[t].team, hears |-> read[t].hears,
                          rows |-> read[t].rows, floor |-> read[t].floor,
                          served |-> read[t].served]
  <2>1. /\ team = read[t].team /\ page'[t].rows = read[t].rows
        /\ page'[t].floor = read[t].floor
    BY <1>2, <1>5
  <2>2. RowsRead(t) = read[t].rows /\ read[t].rows # None
    BY <1>5 DEF RowsRead, Held, ReadsHeld
  <2> QED
    BY <1>1, <1>3, <1>5, <2>1, <2>2 DEF FloorsMet
<1> QED
  BY <1>4, <1>5, PageSteps

----------------------------------------------------------------------------
(* What a tab has coming.                                                  *)

\* Whom the read a tab has coming was counted for.
HearsComing(t) == IF read[t] = None THEN page[t].hears ELSE read[t].hears

LEMMA ComingIs ==
  ASSUME NEW t
  PROVE  /\ Coming(t) = IF read[t] = None THEN page[t].rows
                        ELSE IF RowsRead(t) = None THEN written ELSE RowsRead(t)
         /\ Coming(t)' = IF read'[t] = None THEN page'[t].rows
                         ELSE IF RowsRead(t)' = None THEN written' ELSE RowsRead(t)'
BY DEF Coming, RowsRead

LEMMA RecordsAreSome ==
  ASSUME TypeOK, NEW s \in Opened
  PROVE  \A r \in ReadRecord(Carries(s)) \cup PageRecord(Carries(s)) : r # None
BY RoutesTyped, AbsentAssumption

LEMMA ArriveBegins ==
  ASSUME Held, NEW t \in Tabs, Arrive(t), UNCHANGED changeVars
  PROVE  BeginsReading(t) /\ read'[t] # None
<1>1. t \in Opened /\ read[t] = None /\ TypeOK /\ WireCounted
  BY Arrives DEF Held
<1>2. read = [u \in Tabs |-> read[u]]
  BY HeldParts DEF TypedParts
<1>3. \E r \in ReadRecord(Carries(t)) : read' = [read EXCEPT ![t] = r]
  <2>1. ASSUME NEW phase \in {"own", "joined", "done"}, NEW by \in Tabs,
               NEW rows \in Rows \cup {None}
        PROVE  Begun(t, phase, by, rows) \in ReadRecord(Carries(t))
    BY <1>1, BegunTyped
  <2>2. None \in Rows \cup {None}
    OBVIOUS
  <2> QED
    BY <2>1, <2>2, Arrives
<1>4. read'[t] # None
  BY <1>1, <1>2, <1>3, RecordsAreSome
<1>5. Reading(t)
  BY ArriveReads
<1> QED
  BY <1>1, <1>4, <1>5 DEF Reading, GoesOnReading

\* A read under way ends by being shown, or by failing, of which an open stream
\* keeps everything its tab reads to be read again.
LEMMA ReadEnds ==
  ASSUME Held, StreamsHeld, [Next]_vars, NEW t \in Tabs, Open(t)',
         read[t] # None, read'[t] = None
  PROVE  Show(t) \/ Reads(t) \subseteq stream'[t].unseen
<1>1. TypeOK /\ t \in Opened /\ read[t] \in ReadRecord(Carries(t))
  BY WaitsFor DEF Held
<1>2. read' # read
  OBVIOUS
<1>3. CASE ChangesNext \/ Hear \/ Relisten \/ UNCHANGED vars
  BY <1>2, <1>3 DEF ChangesNext, Hear, Relisten, vars, answerVars
<1>4. ASSUME NEW u \in Tabs, OpenStream(u) \/ Checked(u) \/ Break(u)
      PROVE  FALSE
  BY <1>2, <1>4 DEF OpenStream, Checked, Break, answerVars
<1>5. ASSUME NEW u \in Tabs, Ask(u)
      PROVE  FALSE
  <2>1. u # t /\ read' = [read EXCEPT ![u] = read'[u]]
    <3>1. read = [v \in Tabs |-> read[v]]
      BY HeldParts DEF TypedParts
    <3>2. Arrive(u) /\ read[u] = None
      BY <1>5 DEF Ask, Arrive
    <3> QED
      BY <3>1, <3>2, Arrives
  <2> QED
    BY <2>1, HeldParts DEF TypedParts
<1>6. ASSUME NEW u \in Tabs, Query(u)
      PROVE  FALSE
  <2>1. read = [v \in Tabs |-> read[v]] /\ written \in Rows
    BY HeldParts DEF TypedParts, Held, TypeOK, ChangesTypeOK, Rows
  <2>2. read' = [read EXCEPT ![u] = [read[u] EXCEPT !.rows = written]]
    BY <1>6 DEF Query
  <2>3. u = t /\ read'[t] = [read[t] EXCEPT !.rows = written]
    BY <2>1, <2>2
  <2>4. [read[t] EXCEPT !.rows = written] \in ReadRecord(Carries(t))
    BY <1>1, <2>1 DEF ReadRecord
  <2> QED
    BY <1>1, <2>3, <2>4, RecordsAreSome
<1>7. ASSUME NEW u \in Tabs, Settle(u)
      PROVE  FALSE
  <2>1. read[u].rows \in Rows
    BY <1>7, SettleTyped
  <2>2. read'[t] = [read[t] EXCEPT !.phase = "done", !.rows = read[u].rows, !.by = t]
    BY <1>7 DEF Settle
  <2>3. read'[t] \in ReadRecord(Carries(t))
    BY <1>1, <2>1, <2>2 DEF ReadRecord
  <2> QED
    BY <1>1, <2>3, RecordsAreSome
<1>8. ASSUME NEW u \in Tabs, Show(u)
      PROVE  Show(t)
  <2>1. read = [v \in Tabs |-> read[v]]
    BY HeldParts DEF TypedParts
  <2>2. u = t
    BY <1>8, <2>1 DEF Show
  <2> QED
    BY <1>8, <2>2
<1>9. ASSUME NEW a, Forget(a)
      PROVE  FALSE
  BY <1>2, <1>9 DEF Forget
<1>10. ASSUME NEW u \in Tabs, Fails(u)
       PROVE  Reads(t) \subseteq stream'[t].unseen
  <2>1. t = u \/ t \in Waiting(u)
    BY <1>10 DEF Fails, Reject
  <2>2. Open(t)
    BY <1>1, <1>4, <1>10, OwesStill
  <2>3. stream'[t] = [stream[t] EXCEPT !.unseen = Reads(t)]
    BY <1>10, <2>1, <2>2 DEF Fails
  <2>4. stream[t] \in Stream
    BY <1>1, SoundStreams DEF Sound
  <2> QED
    BY <2>3, <2>4 DEF Stream
<1>11. CASE Restart
  <2>1. stream'[t] = IF Open(t) THEN Unopened("back", {}) ELSE stream[t]
    BY <1>11 DEF Restart
  <2> QED
    BY <2>1 DEF Open, Unopened
<1> QED
  BY <1>3, <1>4, <1>5, <1>6, <1>7, <1>8, <1>9, <1>10, <1>11
  DEF Next, AnswersNext, StreamsNext

\* What an open stream's tab has coming stays, or becomes everything, or is that
\* of a read that begins, or is gone and to be read again.
LEMMA ComingOn ==
  ASSUME Held, StreamsHeld, [Next]_vars, NEW t \in Tabs, Open(t)'
  PROVE  \/ /\ Coming(t)' = Coming(t) \/ Coming(t)' = written'
            /\ TeamComing(t)' = TeamComing(t) /\ HearsComing(t)' = HearsComing(t)
            /\ ~Ask(t)
         \/ BeginsReading(t) /\ read'[t] # None
         \/ Reads(t) \subseteq stream'[t].unseen
<1>1. CASE Ask(t)
  BY <1>1, ArriveBegins DEF Ask
<1>2. CASE ~Ask(t) /\ read'[t] # None
  <2>1. CASE GoesOnReading(t)
    <3>1. read[t] # None /\ read'[t].team = read[t].team /\ read'[t].hears = read[t].hears
      BY <2>1 DEF GoesOnReading
    <3>2. Coming(t)' = Coming(t) \/ Coming(t)' = written'
      <4>1. CASE RowsRead(t)' = RowsRead(t)
        BY <1>2, <3>1, <4>1, ComingIs
      <4>2. CASE RowsRead(t) = None /\ RowsRead(t)' = written
        BY <1>2, <3>1, <4>2, ComingIs
      <4> QED
        BY <2>1, <4>1, <4>2 DEF GoesOnReading
    <3> QED
      BY <1>2, <3>1, <3>2 DEF TeamComing, HearsComing
  <2> QED
    BY <1>2, <2>1, ReadSteps DEF Reading
<1>3. CASE ~Ask(t) /\ read'[t] = None /\ read[t] = None
  <2>1. page'[t] = page[t]
    BY <1>3, PageSteps
  <2> QED
    BY <1>3, <2>1, ComingIs DEF TeamComing, HearsComing
<1>4. CASE ~Ask(t) /\ read'[t] = None /\ read[t] # None
  <2>1. CASE Show(t)
    <3>1. /\ read[t].phase = "done" /\ read[t].rows # None
          /\ page'[t] = [team |-> read[t].team, hears |-> read[t].hears,
                         rows |-> read[t].rows, floor |-> read[t].floor,
                         served |-> read[t].served]
      BY <1>4, <2>1, ShowTyped DEF Show, Held, ReadsHeld
    <3>2. /\ page'[t].rows = RowsRead(t) /\ RowsRead(t) # None
          /\ page'[t].team = read[t].team /\ page'[t].hears = read[t].hears
      BY <3>1 DEF RowsRead
    <3> QED
      BY <1>4, <3>2, ComingIs DEF TeamComing, HearsComing
  <2> QED
    BY <1>4, <2>1, ReadEnds
<1> QED
  BY <1>1, <1>2, <1>3, <1>4

----------------------------------------------------------------------------
(* Nothing is missed.                                                      *)

LEMMA DueIs ==
  ASSUME NEW t, NEW o, NEW c
  PROVE  /\ Due(t, o, c) <=>
              ~Listening \/ Owes(t, o, c) \/ [t |-> o, c |-> c] \in Range(wire)
         /\ Due(t, o, c)' <=>
              ~Listening' \/ Owes(t, o, c)' \/ [t |-> o, c |-> c] \in Range(wire')
BY DEF Due, Owes

\* Rows that lack a change and have all that is past are short of one on the wire.
LEMMA OnTheWire ==
  ASSUME TypeOK, WireCounted, NEW o \in Told, NEW c \in Names, NEW n \in Nat,
         n < written[o][c], n >= Past(o, c)
  PROVE  [t |-> o, c |-> c] \in Range(wire)
<1>1. written[o][c] \in Nat /\ OnWire(o, c) \in Nat
  BY OnWireType, CountsTyped, OwnersApart DEF CountTypes
<1>2. OnWire(o, c) > 0
  BY <1>1 DEF Past
<1> QED
  BY <1>2, TimesSent DEF OnWire, Times, TypeOK, ChangesTypeOK

LEMMA RowsKeptTyped ==
  ASSUME Held, NEW a \in answers
  PROVE  RowsKept(a) \in Rows \cup {None}
<1>1. KeptTyped(a)
  BY HeldParts DEF TypedParts
<1>2. CASE a.by = None
  BY <1>1, <1>2 DEF KeptTyped, RowsKept
<1>3. CASE a.by # None
  <2>1. a.by \in Tabs /\ read[a.by] # None
    BY <1>3, KeptOf
  <2>2. read[a.by] \in ReadRecord(Carries(a.by))
    BY <2>1, WaitsFor
  <2> QED
    BY <1>3, <2>2 DEF ReadRecord, RowsKept
<1> QED
  BY <1>2, <1>3

\* What is on the wire stays there, or is delivered to every stream it concerns,
\* or the connection is gone.
LEMMA WireOn ==
  ASSUME TypeOK, StreamsHeld, [Next]_vars, NEW t \in Tabs, Open(t)', Listening',
         NEW o \in Covers(stream'[t].hears), NEW c \in Reads(t),
         [t |-> o, c |-> c] \in Range(wire)
  PROVE  [t |-> o, c |-> c] \in Range(wire') \/ Owes(t, o, c)'
<1> DEFINE e == [t |-> o, c |-> c]
<1>1. wire \in Seq(Change)
  BY DEF TypeOK, ChangesTypeOK
<1>2. Range(wire) = {wire[i] : i \in 1..Len(wire)}
  BY <1>1, LenProperties DEF Range
<1>3. CASE wire' = wire
  BY <1>3
<1>4. ASSUME NEW p, NEW d, Committed(p, d)
      PROVE  e \in Range(wire')
  <2>1. wire' = wire \/ (p \in Told /\ wire' = Append(wire, [t |-> p, c |-> d]))
    BY <1>4 DEF Committed, Commits, Raised
  <2>2. CASE wire' = Append(wire, [t |-> p, c |-> d])
    <3>1. PICK x : x = [t |-> p, c |-> d]
      OBVIOUS
    <3>2. wire' = Append(wire, x)
      BY <2>2, <3>1
    <3>3. Len(wire) \in Nat /\ DOMAIN wire' = 1..Len(wire) + 1
          /\ \A i \in 1..Len(wire) : wire'[i] = wire[i]
      BY <1>1, <3>2, LenProperties
    <3> QED
      BY <1>2, <3>3 DEF Range
  <2> QED
    BY <2>1, <2>2
<1>5. CASE Connect \/ Lost \/ Restart
  BY <1>5 DEF Connect, Lost, Restart, Listening
<1>6. CASE Hear
  <2>1. /\ wire # <<>> /\ wire' = Tail(wire) /\ Head(wire) \in Change
        /\ stream'[t] = IF Concerns(t, Head(wire)) THEN Enqueue(stream[t], Head(wire))
                        ELSE stream[t]
    BY <1>1, <1>6, HeadTailProperties DEF Hear, Counts
  <2>2. CASE e = Head(wire)
    <3>1. Open(t) /\ stream'[t].hears = stream[t].hears
      <4>1. ~OpenStream(t)
        BY <1>6, <2>1 DEF OpenStream, Hear, Counts, changeVars
      <4> QED
        BY <4>1, OwesStill
    <3>2. e.c = c /\ e.t = o
      OBVIOUS
    <3>3. Concerns(t, Head(wire))
      BY <2>2, <3>1, <3>2 DEF Concerns
    <3>4. stream[t] \in Stream
      BY SoundStreams DEF Sound
    <3> HIDE DEF e
    <3>5. stream'[t].over \/ e \in Range(stream'[t].queue)
      BY <2>1, <2>2, <3>3, <3>4, EnqueueDoes
    <3> QED
      BY <3>5 DEF Owes, e
  <2>3. CASE e # Head(wire)
    <3> HIDE DEF e
    <3>1. PICK i \in 1..Len(wire) : wire[i] = e
      BY <1>2 DEF e
    <3>2. /\ Tail(wire) \in Seq(Change) /\ Len(wire) \in Nat /\ Len(Tail(wire)) \in Nat
          /\ Len(wire) = Len(Tail(wire)) + 1 /\ Head(wire) = wire[1]
          /\ \A j \in 1..Len(Tail(wire)) : Tail(wire)[j] = wire[j + 1]
      BY <1>1, <2>1, HeadTailProperties, LenProperties
    <3>3. i - 1 \in 1..Len(Tail(wire)) /\ Tail(wire)[i - 1] = e
      BY <2>3, <3>1, <3>2
    <3>4. Tail(wire)[i - 1] \in Range(Tail(wire))
      BY <3>2, <3>3, LenProperties DEF Range
    <3> QED
      BY <2>1, <3>3, <3>4 DEF e
  <2> QED
    BY <2>2, <2>3
<1>7. \/ wire' = wire
      \/ \E p, d : Committed(p, d)
      \/ Connect \/ Lost \/ Restart \/ Hear
  BY DEF Next, vars, changeVars, ChangesNext, Commit, Switch, Demote, SignOut, AnswersNext,
         StreamsNext, OpenStream, Checked, Break, Ask, Fails, Relisten, Listens, Committed
<1> QED
  BY <1>3, <1>4, <1>5, <1>6, <1>7

\* A connection that comes up tells every open stream to read everything.
LEMMA UpTells ==
  ASSUME TypeOK, StreamsHeld, [Next]_vars, NEW t \in Tabs, Open(t)', Listening', ~Listening,
         ~OpenStream(t)
  PROVE  stream'[t].over
<1>1. Open(t) /\ stream[t] \in Stream
  BY OwesStill, SoundStreams DEF Sound
<1>2. Relisten
  <2>1. link' # link
    BY DEF Listening
  <2> QED
    BY <2>1 DEF Listening, Next, vars, changeVars, ChangesNext, Commit, Switch, Demote, SignOut,
                Connect, Lost, AnswersNext, StreamsNext, OpenStream, Checked, Break, Ask, Fails,
                Hear, Counts, Restart
<1> QED
  BY <1>1, <1>2, ResyncedDoes DEF Relisten

\* A stream that opens asks for whatever moved since the page was served.
LEMMA OpenedTells ==
  ASSUME Held, PagesStand, NEW t \in Tabs, OpenStream(t), Comparable(t)', NamesScope(t),
         NEW o \in Covers(stream'[t].hears) \cap About(t, page[t].team), NEW c \in Reads(t),
         Listening, page[t].rows[o][c] < written[o][c]
  PROVE  Due(t, o, c)'
<1>1. /\ page[t] # None /\ read[t] = None
      /\ UNCHANGED <<changeVars, answerVars>>
  BY DEF OpenStream
<1>2. TypeOK /\ WireCounted
  BY DEF Held
<1>3. t \in Opened /\ page[t] \in PageRecord(Carries(t))
  BY <1>1, HeldParts DEF TypedParts, PageTyped
<1> DEFINE h == HeardBy(PersonOf[t])
           unseen == IF stream[t].at = "new" THEN MovedSince(t) ELSE Reads(t)
<1>4. h \in Hears /\ c \in Names /\ Reads(t) \in SUBSET Names
  BY <1>2, <1>3, RoutesTyped
<1>5. stream'[t].hears = h /\ stream'[t].unseen = unseen
  <2>1. stream = [u \in Tabs |-> stream[u]]
    BY <1>2 DEF TypeOK, StreamsTypeOK
  <2>2. stream' = [stream EXCEPT ![t] = [Unopened("live", unseen) EXCEPT !.hears = h]]
    BY DEF OpenStream
  <2>3. stream'[t] = [Unopened("live", unseen) EXCEPT !.hears = h]
    BY <2>1, <2>2
  <2> HIDE DEF unseen, h
  <2> QED
    BY <2>3 DEF Unopened
<1>6. CASE c \in unseen
  BY <1>5, <1>6 DEF Due
<1>7. CASE c \notin unseen
  <2>1. c \in Carries(t) /\ page[t].served[c] # None /\ page[t].served[c] = HeardRevision(c, h)
    BY <1>7 DEF MovedSince
  <2>2. page[t].hears = h
    <3>1. Carries(t)' = Carries(t) /\ page' = page /\ read' = read
      BY <1>1 DEF answerVars, Carries
    <3> QED
      BY <1>1, <1>5, <2>1, <3>1 DEF Comparable
  <2>3. /\ page[t].served[c] = [boot |-> boots, n |-> Count(c, h)]
    BY <1>2, <1>4, <2>1, RevisionTyped, CountsTyped
  <2>4. page[t].served[c].boot = boots /\ page[t].served[c].n = Count(c, h)
    BY <2>3
  <2>5. page[t].rows \in Rows /\ page[t].rows # None
    BY <1>3, AbsentAssumption DEF PageRecord
  <2>6. Stands(page[t].served[c], page[t].rows, h, Covers(h) \cap About(t, page[t].team), c)
    BY <1>1, <2>1, <2>2 DEF PagesStand
  <2>7. page[t].rows[o][c] >= Past(o, c)
    BY <1>5, <2>4, <2>5, <2>6 DEF Stands
  <2>8. o \in Told /\ page[t].rows[o][c] \in Nat
    BY <1>4, <1>5, <2>5, CoversTold, OwnersApart DEF Rows
  <2>9. [t |-> o, c |-> c] \in Range(wire)
    BY <1>2, <1>4, <2>7, <2>8, OnTheWire
  <2> QED
    BY <1>1, <2>9 DEF Due, changeVars
<1> QED
  BY <1>6, <1>7

LEMMA MissedNothing ==
  ASSUME Held, AnswersStand, PagesStand, StreamsHeld, NothingIsMissed, [Next]_vars
  PROVE  NothingIsMissed'
<1> SUFFICES ASSUME NEW t \in Tabs, Open(t)', Comparable(t)', NamesScope(t)',
                    NEW o \in Covers(stream'[t].hears) \cap About(t, TeamComing(t))',
                    NEW c \in Reads(t)', Coming(t)'[o][c] < written'[o][c], Listening'
             PROVE  Due(t, o, c)'
  <2>1. \A t, o, c : ~Listening' => Due(t, o, c)'
    BY DEF Due
  <2> QED
    BY <2>1 DEF NothingIsMissed
<1>1. TypeOK /\ WireCounted
  BY DEF Held
<1>2. NamesScope(t) /\ c \in Reads(t)
  BY RoutesKept
<1>3. PICK team : team = TeamComing(t)'
  OBVIOUS
<1>4. o \in Covers(stream'[t].hears) /\ o \in About(t, team)
  <2>1. About(t, TeamComing(t))' = About(t, team)'
    BY <1>3 DEF About
  <2> QED
    BY <2>1, RoutesKept
<1>5. t \in Opened
  <2>1. page[t] # None
    BY <1>1, OwesStill DEF OpenStream, StreamsHeld
  <2> QED
    BY <2>1, HeldParts DEF TypedParts, PageTyped
<1>6. c \in Names
  BY <1>1, <1>2, <1>5, RoutesTyped
<1>7. CASE OpenStream(t)
  <2>1. /\ UNCHANGED <<changeVars, answerVars>> /\ read[t] = None
    BY <1>7 DEF OpenStream
  <2>2. page' = page /\ read' = read /\ written' = written /\ link' = link
    BY <2>1 DEF changeVars, answerVars
  <2>3. Coming(t)' = page[t].rows /\ team = page[t].team /\ Listening
    BY <1>3, <2>1, <2>2 DEF Coming, TeamComing, Listening
  <2> QED
    BY <1>2, <1>4, <1>7, <2>2, <2>3, OpenedTells
<1>8. CASE ~OpenStream(t)
  <2>1. /\ Open(t) /\ stream'[t].hears = stream[t].hears
        /\ Ask(t) \/ \A p, d : d \in Reads(t) /\ Owes(t, p, d) => Owes(t, p, d)'
    BY <1>1, <1>8, OwesStill
  <2>2. stream[t].hears \in Hears /\ o \in Told
    BY <1>4, <2>1, CoversTold DEF StreamsHeld
  <2>3. CASE Reads(t) \subseteq stream'[t].unseen
    BY <1>2, <2>3, DueIs DEF Owes
  <2>4. CASE BeginsReading(t) /\ read'[t] # None
    <3>1. /\ UNCHANGED changeVars /\ read'[t].team = caller[PersonOf[t]].team
          /\ RowsRead(t)' = None \/ \E a \in Kept(t) : RowsRead(t)' = RowsKept(a)
      BY <2>4 DEF BeginsReading
    <3>2. written' = written /\ wire' = wire
      BY <3>1 DEF changeVars
    <3>3. CASE RowsRead(t)' = None
      <4>1. Coming(t)' = written'
        BY <2>4, <3>3, ComingIs
      <4>2. written'[o][c] \in Nat
        BY <1>1, <1>6, <2>2, <3>2, OwnersApart DEF TypeOK, ChangesTypeOK
      <4> QED
        BY <4>1, <4>2
    <3>4. ASSUME NEW a \in Kept(t), RowsRead(t)' = RowsKept(a), RowsKept(a) # None
          PROVE  Due(t, o, c)'
      <4>1. Coming(t)' = RowsKept(a)
        BY <2>4, <3>4, ComingIs
      <4>2. o \in Told \cap About(t, caller[PersonOf[t]].team)
        BY <1>3, <1>4, <2>2, <2>4, <3>1 DEF TeamComing
      <4>3. RowsKept(a)[o][c] >= Past(o, c)
        BY <1>1, <1>2, <1>5, <3>4, <4>2, KeptStands DEF Revised
      <4>4. RowsKept(a)[o][c] \in Nat
        <5>1. RowsKept(a) \in Rows
          BY <3>4, RowsKeptTyped DEF Kept
        <5> QED
          BY <1>6, <2>2, <5>1, OwnersApart DEF Rows
      <4>5. [t |-> o, c |-> c] \in Range(wire)
        BY <1>1, <1>6, <2>2, <3>2, <4>1, <4>3, <4>4, OnTheWire
      <4> QED
        BY <3>2, <4>5, DueIs
    <3> QED
      BY <3>1, <3>3, <3>4
  <2>5. CASE /\ Coming(t)' = Coming(t) \/ Coming(t)' = written'
             /\ TeamComing(t)' = TeamComing(t) /\ HearsComing(t)' = HearsComing(t)
             /\ ~Ask(t)
    <3>1. written[o][c] \in Nat /\ written'[o][c] \in Nat /\ CountTypes
      BY <1>1, <1>6, <2>2, OwnersApart, CountsTyped, CountsLater DEF Later, CountTypes
    <3>2. Coming(t)' = Coming(t)
      BY <2>5, <3>1
    <3>3. CASE written'[o][c] # written[o][c]
      <4>1. PICK p \in Owners, d \in Names : Committed(p, d)
        BY <3>3, ChangeSteps DEF Connect, Lost, Counts, Listens
      <4>2. /\ written'[o][c] = written[o][c] + (IF o = p /\ c = d THEN 1 ELSE 0)
            /\ wire' = Raised(p, d)
        BY <1>6, <2>2, <3>1, <4>1, CommittedDoes, OwnersApart
      <4>3. p = o /\ d = c /\ link # "down"
        BY <3>1, <3>3, <4>1, <4>2 DEF Committed, Listening
      <4>4. PICK x : x = [t |-> o, c |-> c]
        OBVIOUS
      <4>5. wire' = Append(wire, x) /\ wire \in Seq(Change)
        BY <2>2, <3>1, <4>2, <4>3, <4>4 DEF Raised, CountTypes
      <4>6. Len(wire) \in Nat /\ DOMAIN wire' = 1..Len(wire) + 1 /\ wire'[Len(wire) + 1] = x
        BY <4>5, LenProperties
      <4>7. x \in Range(wire')
        BY <4>6 DEF Range
      <4> QED
        BY <4>4, <4>7, DueIs
    <3>4. CASE written'[o][c] = written[o][c]
      <4>1. Comparable(t)
        BY <2>1, <2>5, RoutesKept DEF Comparable, HearsComing
      <4>2. Coming(t)[o][c] < written[o][c]
        BY <3>2, <3>4
      <4>3. Due(t, o, c)
        BY <1>2, <1>3, <1>4, <2>1, <2>5, <4>1, <4>2 DEF NothingIsMissed
      <4>4. CASE ~Listening
        BY <1>1, <1>8, <4>4, UpTells, DueIs DEF Owes
      <4>5. CASE Owes(t, o, c)
        BY <1>2, <2>1, <2>5, <4>5, DueIs
      <4>6. CASE [t |-> o, c |-> c] \in Range(wire)
        BY <1>1, <1>2, <1>4, <4>6, WireOn, DueIs
      <4> QED
        BY <4>3, <4>4, <4>5, <4>6, DueIs
    <3> QED
      BY <3>3, <3>4
  <2> QED
    BY <2>3, <2>4, <2>5, ComingOn
<1> QED
  BY <1>7, <1>8

----------------------------------------------------------------------------
(* The invariant holds.                                                    *)

LEMMA InitInv == Init => ConsoleInv
<1> SUFFICES ASSUME Init PROVE ConsoleInv
  OBVIOUS
<1>1. PICK k \in Cases : ChangesInit(k.supers, k.left) /\ AnswersInit(k.routes)
  BY DEF Init
<1>2. /\ k.supers \in SUBSET Persons /\ k.left \in [Bounded -> Nat]
      /\ k.routes \in [Tabs -> DOMAIN Routes \cup {None}]
  BY CasesAssumption
<1>3. \A os : Nothing(os) \in [os -> [Names -> Nat]]
  BY DEF Nothing
<1>4. /\ written = Nothing(Owners) /\ link = "down" /\ wire = <<>> /\ boots = 0
      /\ tally = Nothing(Counted) /\ left = k.left
      /\ caller = [p \in Persons |->
                     [team |-> TeamOf[p], super |-> p \in k.supers, signed |-> TRUE]]
  BY <1>1 DEF ChangesInit
<1>5. ChangesTypeOK
  <2>1. caller \in [Persons -> [team : Teams, super : BOOLEAN, signed : BOOLEAN]]
    BY <1>4, ConsoleAssumption
  <2> QED
    BY <1>2, <1>3, <1>4, <2>1, EmptySeq DEF ChangesTypeOK, Links
<1>6. /\ route = k.routes /\ answers = {}
      /\ read = [t \in Tabs |-> None] /\ page = [t \in Tabs |-> None]
  BY <1>1 DEF AnswersInit
<1>7. AnswersTypeOK
  BY <1>2, <1>6 DEF AnswersTypeOK, Opened
<1>8. stream = [t \in Tabs |-> Unopened("new", {})]
  BY DEF Init, StreamsInit
<1>9. StreamsTypeOK
  <2>1. Unopened("new", {}) \in Stream
    BY UnopenedTyped DEF Ats
  <2> QED
    BY <1>8, <2>1 DEF StreamsTypeOK, Stream
<1>10. \A t \in Tabs : ~Open(t)
  BY <1>8 DEF Open, Unopened
<1>11. WireCounted
  <2>1. ASSUME NEW o \in Told, NEW c \in Names PROVE OnWire(o, c) <= written[o][c]
    <3>1. OnWire(o, c) = Times(<<>>, [t |-> o, c |-> c])
      BY <1>4 DEF OnWire, Times
    <3>2. written[o][c] \in Nat
      BY <1>5, OwnersApart DEF ChangesTypeOK
    <3> QED
      BY <3>1, <3>2, TimesEmpty
  <2> QED
    BY <1>4, <2>1 DEF WireCounted
<1>12. ReadsHeld /\ AnswersHeld /\ FloorsMet /\ AnswersStand /\ ReadsStand /\ PagesStand
       /\ AnswersAreFresh
  BY <1>6 DEF ReadsHeld, AnswersHeld, FloorsMet, AnswersStand, ReadsStand, PagesStand,
              AnswersAreFresh
<1>13. StreamsHeld /\ NothingIsMissed
  BY <1>10 DEF StreamsHeld, NothingIsMissed
<1> QED
  BY <1>5, <1>7, <1>9, <1>11, <1>12, <1>13 DEF ConsoleInv, TypeOK

LEMMA StepInv == ConsoleInv /\ [Next]_vars => ConsoleInv'
<1> SUFFICES ASSUME ConsoleInv, [Next]_vars PROVE ConsoleInv'
  OBVIOUS
<1> USE DEF ConsoleInv
<1>1. Held
  BY DEF Held
<1>2. TypeOK' /\ StreamsHeld'
  BY <1>1, TypesAndStreams
<1>3. WireCounted'
  BY WireSteps
<1>4. ReadsHeld'
  BY <1>1, ReadSteps DEF Reading, ReadHeld, ReadsHeld
<1>5. AnswersHeld'
  BY <1>1, AnswersKept DEF Keeping, AnswerHeld, AnswersHeld
<1>6. FloorsMet' /\ AnswersStand' /\ ReadsStand' /\ PagesStand' /\ AnswersAreFresh'
  BY <1>1, FloorsGoOn, AnswersGoOn, ReadsGoOn, PagesGoOn, FreshGoOn
<1>7. NothingIsMissed'
  BY <1>1, MissedNothing
<1> QED
  BY <1>2, <1>3, <1>4, <1>5, <1>6, <1>7

\* Counts, reads, kept answers, pages and streams stay in step, of whatever
\* teams, persons, tabs and routes.
THEOREM ConsoleInvariant == Spec => []ConsoleInv
BY InitInv, StepInv, PTL DEF Spec

\* The console keeps to its types.
THEOREM ConsoleTyped == Spec => []TypeOK
<1>1. ConsoleInv => TypeOK
  BY DEF ConsoleInv
<1> QED
  BY <1>1, ConsoleInvariant, PTL

\* answer-cache.ts: an answer, kept or not, holds every change of what it is
\* about that the gateway had heard of when it was asked for.
THEOREM AnswersFresh == Spec => []AnswersAreFresh
<1>1. ConsoleInv => AnswersAreFresh
  BY DEF ConsoleInv
<1> QED
  BY <1>1, ConsoleInvariant, PTL

\* live.ts: a tab that does not show a change its stream is told of has it
\* coming, in a read, a hint, a resync, or on the wire.
THEOREM NothingMissed == Spec => []NothingIsMissed
<1>1. ConsoleInv => NothingIsMissed
  BY DEF ConsoleInv
<1> QED
  BY <1>1, ConsoleInvariant, PTL

=============================================================================
