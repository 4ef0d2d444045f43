SPECIFICATION ExecSpec
CONSTANTS
  r1 = r1
  r2 = r2
  c1 = c1
  c2 = c2
  w1 = w1
  p1 = p1
  p2 = p2
  x1 = x1
  x2 = x2
  Runs = {r1}
  Conversations = {c1}
  Workspaces = {w1}
  Owners = {p1, p2}
  Ops = {x1, x2}
  MaxAttempt = 2
  MaxRevision = 14
  NoOwner = NoOwner
  Nobody = Nobody
  Tools = {"native", "reader"}
  Outliving = {"native", "reader"}
  MaxHops = 0
  UserInputs = {"text"}
  Disturbances = {"crash", "verify", "pause", "failed", "cancelled", "drop", "unsaved"}
SYMMETRY OwnersAndOpsSymmetry
CHECK_DEADLOCK FALSE
INVARIANTS
  NoCallBesideStrayWorkers
  EffectsKnownBeforeContinuing
PROPERTIES
  SettledOnEvidence
  ChangesMoveTheRevision
