SPECIFICATION ExecSpec
CONSTANTS
  r1 = r1
  r2 = r2
  c1 = c1
  c2 = c2
  w1 = w1
  p1 = p1
  p2 = p2
  x1 = x1
  x2 = x2
  Runs = {r1}
  Conversations = {c1}
  Workspaces = {w1}
  Owners = {p1, p2}
  Ops = {x1}
  MaxAttempt = 2
  MaxRevision = 16
  NoOwner = NoOwner
  Nobody = Nobody
  Tools = {"opaque", "native"}
  Outliving = {"opaque"}
  MaxHops = 1
  UserInputs = {"text", "attached"}
  Disturbances = {"crash", "lease", "failed", "cancelled", "drop", "unsaved", "edit", "pause", "verify"}
SYMMETRY OwnersSymmetry
CHECK_DEADLOCK FALSE
INVARIANTS
  TurnsOwnTheirRuns
  EffectsAreOnRecord
