--------------------------- MODULE ConsoleChanges ---------------------------
(***************************************************************************)
(* What the console's freshness rests on: the committed changes, the       *)
(* notifications they raise, the gateway's one LISTEN connection and the   *)
(* counts it keeps of what it heard; and who is calling.                   *)
(*                                                                         *)
(* A change is known by whose business it is and by the collection it      *)
(* touches; what it says is not kept, only how many there were.            *)
(***************************************************************************)
EXTENDS Integers, Sequences, FiniteSets, Functions

CONSTANTS
  Teams,     \* teams
  Names,     \* collections a tab may follow
  People,    \* the collection a person's own row is told under
  Persons,   \* who has a browser here
  TeamOf,    \* TeamOf[p]: the team p's browser acts for at first
  None       \* the absent value

\* Whose business a change is: a team's, nobody's (the empty t of a payload),
\* or, for an event in no team, nothing that is told at all.
Nobody == "nobody"
Teamless == "teamless"
Told == Teams \cup {Nobody}
Owners == Told \cup {Teamless}

\* Every team's changes together.
Every == "every"
Counted == Told \cup {Every}

\* What happens a bounded number of times: changes of each owner to each
\* collection, moves of people, connections and streams that break.
Bounded ==
  (Owners \X Names)
    \cup {<<x>> : x \in {"switch", "demote", "signout", "connect", "break"}}

ASSUME ConsoleAssumption ==
  /\ People \in Names
  /\ TeamOf \in [Persons -> Teams]
  /\ {Nobody, Teamless, Every} \cap Teams = {}

VARIABLES
  written,  \* written[o][c]: the changes of o to collection c committed so far
  link,     \* the LISTEN connection
  wire,     \* notifications sent on it and not yet handled
  boots,    \* boots so far: the current one, while there is one, is the last
  tally,    \* tally[o][c]: changes of o to c counted since the boot, of all
            \* together in tally[Every]
  caller,   \* caller[p]: what the database says of p and of p's session
  left      \* left[x]: how often x may still happen, a bound

changeVars == <<written, link, wire, boots, tally, caller, left>>

Links == {"down", "opening", "up"}
Change == [t : Told, c : Names]
Revision == [boot : Nat, n : Nat]
Nothing(os) == [o \in os |-> [c \in Names |-> 0]]

ChangesTypeOK ==
  /\ written \in [Owners -> [Names -> Nat]]
  /\ link \in Links
  /\ wire \in Seq(Change)
  /\ boots \in Nat
  /\ tally \in [Counted -> [Names -> Nat]]
  /\ caller \in [Persons -> [team : Teams, super : BOOLEAN, signed : BOOLEAN]]
  /\ left \in [Bounded -> Nat]

\* supers: who is a superadmin at first.
ChangesInit(supers, budget) ==
  /\ written = Nothing(Owners)
  /\ link = "down"
  /\ wire = <<>>
  /\ boots = 0
  /\ tally = Nothing(Counted)
  /\ caller = [p \in Persons |->
                 [team |-> TeamOf[p], super |-> p \in supers, signed |-> TRUE]]
  /\ left = budget

----------------------------------------------------------------------------
(* Revisions. *)

Listening == link = "up"

\* Whose changes a caller hears: those of one team, or of every team.
Hears == Teams \cup {Every}

Covers(h) == IF h = Every THEN Told ELSE {h, Nobody}

HeardBy(p) == IF caller[p].super THEN Every ELSE caller[p].team

HeardRevision(c, h) ==
  IF ~Listening THEN None
  ELSE [boot |-> boots,
        n    |-> IF h = Every THEN tally[Every][c]
                 ELSE tally[Nobody][c] + tally[h][c]]

RevisionNamed(cs, h) ==
  IF ~Listening THEN None ELSE [c \in cs |-> HeardRevision(c, h)]

\* Of the changes of o to c, those that no notification on the wire tells.
OnWire(o, c) == Cardinality({i \in 1..Len(wire) : wire[i] = [t |-> o, c |-> c]})
Past(o, c) == written[o][c] - OnWire(o, c)

----------------------------------------------------------------------------
(* Changes and who is told of them. *)

Once(x) == left[x] > 0 /\ left' = [left EXCEPT ![x] = @ - 1]

\* The triggers: a notification is delivered when the transaction commits, to
\* a connection that listens; an event in no team raises none.
Raised(o, c) ==
  IF o \in Told /\ link # "down" THEN Append(wire, [t |-> o, c |-> c]) ELSE wire

Commits(o, c) ==
  /\ written' = [written EXCEPT ![o][c] = @ + 1]
  /\ wire' = Raised(o, c)

Commit(o, c) ==
  /\ Once(<<o, c>>)
  /\ Commits(o, c)
  /\ UNCHANGED <<link, boots, tally, caller>>

\* POST /settings/me/active-team: moves this browser alone and hints nothing.
Switch(p, t) ==
  /\ Once(<<"switch">>)
  /\ caller[p].signed
  /\ caller[p].team # t
  /\ caller' = [caller EXCEPT ![p].team = t]
  /\ UNCHANGED <<written, link, wire, boots, tally>>

\* A superadmin becomes a member: zz.principal changes.
Demote(p) ==
  /\ Once(<<"demote">>)
  /\ caller[p].super
  /\ caller' = [caller EXCEPT ![p].super = FALSE]
  /\ Commits(Nobody, People)
  /\ UNCHANGED <<link, boots, tally>>

\* POST /auth/logout.
SignOut(p) ==
  /\ Once(<<"signout">>)
  /\ caller[p].signed
  /\ caller' = [caller EXCEPT ![p].signed = FALSE]
  /\ UNCHANGED <<written, link, wire, boots, tally>>

----------------------------------------------------------------------------
(* The connection. *)

\* connect, and open as far as `listen` takes effect in the database.
Connect ==
  /\ link = "down"
  /\ Once(<<"connect">>)
  /\ link' = "opening"
  /\ wire' = <<>>
  /\ UNCHANGED <<written, boots, tally, caller>>

\* open's end: a new boot, counted from nothing.
Listens ==
  /\ link = "opening"
  /\ link' = "up"
  /\ boots' = boots + 1
  /\ tally' = Nothing(Counted)
  /\ UNCHANGED <<written, wire, caller, left>>

\* lost: what was on the wire is gone, and every revision with it.
Lost ==
  /\ link # "down"
  /\ link' = "down"
  /\ wire' = <<>>
  /\ tally' = Nothing(Counted)
  /\ UNCHANGED <<written, boots, caller, left>>

\* count: nothing counts while nothing listens.
Counts ==
  /\ wire # <<>>
  /\ wire' = Tail(wire)
  /\ tally' = IF Listening
              THEN [o \in Counted |-> IF o \in {Head(wire).t, Every}
                                     THEN [tally[o] EXCEPT ![Head(wire).c] = @ + 1]
                                     ELSE tally[o]]
              ELSE tally
  /\ UNCHANGED <<written, link, boots, caller, left>>
============================================================================
