CONSTANTS
  c1 = c1
  i1 = i1
  k1 = k1
  k2 = k2
  None = None
  Candidates = {c1}
  InitiativeOf <- OneInitiative
  Findings = {}
  Targets <- NoTargets
  Keys = {k1, k2}
  MaxAttempts = 2
  MaxVersion = 3

SPECIFICATION OutsideSpec
SYMMETRY Alike
INVARIANTS
  ReleasedIsCarried
CHECK_DEADLOCK FALSE
