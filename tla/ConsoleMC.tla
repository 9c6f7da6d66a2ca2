----------------------------- MODULE ConsoleMC -----------------------------
(* Instances of Console for TLC. *)
EXTENDS Console, TLC

CONSTANTS A, B, p1, p2, t1, t2

OnTeamA == [p \in Persons |-> A]
OwnTab == [t \in Tabs |-> IF t = t1 THEN p1 ELSE p2]

\* The caller's initiatives, kept per team and role, and knowledge, never kept,
\* with a revision; a search, never kept, and the platform's Usage, kept,
\* without.
RouteTable ==
  [initiatives |-> [reads |-> {"initiatives"}, carries |-> {"initiatives"},
                    invalidates |-> "caller", key |-> "role"],
   knowledge   |-> [reads |-> {"initiatives"}, carries |-> {"initiatives"},
                    invalidates |-> "caller", key |-> "unkept"],
   search      |-> [reads |-> {"initiatives", "people"}, carries |-> {},
                    invalidates |-> "caller", key |-> "unkept"],
   usage       |-> [reads |-> {"initiatives"}, carries |-> {},
                    invalidates |-> "platform", key |-> "role"]]

OneTab(r) == [t \in Tabs |-> IF t = t1 THEN r ELSE None]
TwoTabs(r) == [t \in Tabs |-> r]

\* At most n[x] of each x in DOMAIN n, and nothing else.
Just(n) == [x \in Bounded |-> IF x \in DOMAIN n THEN n[x] ELSE 0]

Case(supers, routes, n) == [supers |-> supers, routes |-> routes, left |-> Just(n)]

Changes(o, c) == <<o, c>> :> 1
One(x) == <<x>> :> 1
Connects(n) == <<"connect">> :> n

\* Two connections around a change of a kept page with revisions.
Gap ==
  Case({}, OneTab("initiatives"),
       Changes(A, "initiatives") @@ Connects(2) @@ One("break"))

\* A queue of one, and two changes of what the page reads.
Full ==
  Case({p1}, OneTab("search"),
       Changes(A, "initiatives") @@ One("demote") @@ Connects(1))

\* A browser that goes to the other team, and signs out.
Moving ==
  Case({}, OneTab("search"),
       Changes(A, "initiatives") @@ One("switch") @@ One("signout") @@ Connects(1))

\* A superadmin demoted around changes of two teams.
Demoted ==
  Case({p1}, OneTab("knowledge"),
       Changes(A, "initiatives") @@ Changes(B, "initiatives")
         @@ One("demote") @@ Connects(1))

\* Two people of a team share an answer about every team.
Platform ==
  Case({}, TwoTabs("usage"), Changes(B, "initiatives") @@ Connects(1))

Several == {Gap, Full, Moving, Demoted, Platform}
============================================================================
