SPECIFICATION ExecSpec
CONSTANTS
  r1 = r1
  r2 = r2
  c1 = c1
  c2 = c2
  w1 = w1
  p1 = p1
  p2 = p2
  x1 = x1
  x2 = x2
  Runs = {r1, r2}
  Conversations = {c1, c2}
  Workspaces = {w1}
  Owners = {p1, p2}
  Ops = {x1, x2}
  MaxAttempt = 2
  MaxRevision = 8
  NoOwner = NoOwner
  Nobody = Nobody
  Tools = {"opaque"}
  Outliving = {}
  MaxHops = 0
  UserInputs = {"text"}
  Disturbances = {}
SYMMETRY TwoPlacesSymmetry
CHECK_DEADLOCK FALSE
INVARIANTS
  RunsDoNotOverlap
