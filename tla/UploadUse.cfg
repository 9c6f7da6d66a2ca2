CONSTANTS
  u1 = u1
  u2 = u2
  o1 = o1
  f1 = f1
  f2 = f2
  s1 = s1
  s2 = s2
  w1 = w1
  w2 = w2
  d1 = d1
  r1 = r1
  None = None
  Uploads = {u1, u2}
  Owners = {o1}
  OwnerOf <- OneOwner
  Files = {f1, f2}
  Size <- SizeOne
  Stagers = {}
  InFlight = 1
  InFlightTotal = 1
  Limit = 1
  Writers = {w1, w2}
  Docs = {d1}
  RequestIds = {r1}
  MaxAttempts = 2

SPECIFICATION StagedSpec
SYMMETRY AlikeWrites
INVARIANTS
  UsedByOneWrite
  KeyCommitsOnce
  AnsweredIsCommitted
CHECK_DEADLOCK FALSE
