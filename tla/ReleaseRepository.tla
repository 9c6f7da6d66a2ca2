------------------------ MODULE ReleaseRepository ------------------------
(***************************************************************************)
(* The clone a plugin is released from and the tags its releases publish   *)
(* (packages/tools/src/release/git.ts).  Of a tag's history two kinds of   *)
(* commit matter: those that apply a candidate, taken to be one per        *)
(* attempt, and those earlier releases were tagged at.                     *)
(***************************************************************************)
EXTENDS ReleaseTable

VARIABLES
  tag,      \* version -> its release tag and what that contains
  branch,   \* candidate -> the tip of release/candidate-<id>
  worktree  \* attempts whose worktree is there, the branch checked out in it

repositoryVars == <<tag, branch, worktree>>

\* bases: the versions whose tagged commit is contained.
Tag == [published: BOOLEAN, patches: SUBSET Attempts, bases: SUBSET Versions]

NoBranch == [tip |-> "none", of |-> 0]
Patch(a) == [tip |-> "patch", of |-> a]

\* The tip is the commit the branch was created at, or an attempt's own.
Branch == [tip: {"base"}, of: Versions] \cup [tip: {"patch"}, of: Attempts]
            \cup {NoBranch}

RepositoryTypeOK ==
  /\ tag \in [Versions -> Tag]
  /\ branch \in [Candidates -> Branch]
  /\ worktree \subseteq Attempts

Unpublished == [published |-> FALSE, patches |-> {}, bases |-> {}]

RepositoryInit ==
  /\ tag = [v \in Versions |->
              IF v = 1 THEN [published |-> TRUE, patches |-> {}, bases |-> {1}]
              ELSE Unpublished]
  /\ branch = [c \in Candidates |-> NoBranch]
  /\ worktree = {}

Published(v) == tag[v].published
Tagged       == {v \in Versions : Published(v)}

\* The tag's commit is the branch's tip or a descendant of it.
ContainsTip(v, c) ==
  CASE branch[c].tip = "base"  -> branch[c].of \in tag[v].bases
    [] branch[c].tip = "patch" -> branch[c].of \in tag[v].patches
    [] OTHER                   -> FALSE

\* A release tagged v, of what the release w holds and the attempts in new.
Publish(v, w, new) ==
  tag' = [tag EXCEPT ![v] = [published |-> TRUE,
                             patches |-> tag[w].patches \cup new,
                             bases |-> tag[w].bases \cup {v}]]

Points(c, b) == branch' = [branch EXCEPT ![c] = b]

\* The worktree of a goes.
Clears(a) == worktree' = worktree \ {a}

\* And the branch with it; git deletes none that is checked out elsewhere.
Removes(a) ==
  /\ Clears(a)
  /\ IF \E b \in worktree \ {a} : candidate[b] = candidate[a] THEN UNCHANGED branch
     ELSE Points(candidate[a], NoBranch)
============================================================================
