SPECIFICATION FairExecSpec
CONSTANTS
  r1 = r1
  r2 = r2
  c1 = c1
  c2 = c2
  w1 = w1
  p1 = p1
  p2 = p2
  x1 = x1
  x2 = x2
  Runs = {r1}
  Conversations = {c1}
  Workspaces = {w1}
  Owners = {p1, p2}
  Ops = {x1}
  MaxAttempt = 1
  MaxRevision = 14
  NoOwner = NoOwner
  Nobody = Nobody
  Tools = {"opaque"}
  Outliving = {}
  MaxHops = 1
  UserInputs = {"text"}
  Disturbances = {"failed", "cancelled", "crash", "lease", "drop", "unsaved", "edit", "pause"}
CHECK_DEADLOCK FALSE
PROPERTIES
  PausesEnd
  DeadRunsAreTakenOver
