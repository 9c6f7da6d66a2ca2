CONSTANTS
  spec = spec
  review = review
  r1 = r1
  c1 = c1
  c2 = c2
  None = None
  Docs = {spec, review}
  Gated = {spec}
  Procedure <- Delivery
  ClosingDoc = review
  Rounds = {r1}
  Calls = {c1, c2}
  Budgets <- Calling

SPECIFICATION Spec
SYMMETRY Alike
INVARIANTS
  LogAgrees
  ApprovalOfCurrentStands
  JudgedCloseWasEarned
PROPERTIES
  MetStays
CHECK_DEADLOCK FALSE
