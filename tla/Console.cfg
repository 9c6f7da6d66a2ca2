CONSTANTS
  A = A
  B = B
  p1 = p1
  p2 = p2
  t1 = t1
  t2 = t2
  None = None
  Teams = {A, B}
  Names = {"initiatives", "people"}
  People = "people"
  Persons = {p1, p2}
  TeamOf <- OnTeamA
  Tabs = {t1, t2}
  PersonOf <- OwnTab
  Routes <- RouteTable
  MaxQueued = 1
CHECK_DEADLOCK FALSE
SPECIFICATION FairSpec
INVARIANTS TypeOK NothingIsMissed AnswersAreFresh
PROPERTIES TabsCatchUp
CONSTANT Cases <- Several
