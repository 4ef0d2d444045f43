SPECIFICATION Spec
CONSTANTS
  r1 = r1
  r2 = r2
  c1 = c1
  w1 = w1
  w2 = w2
  p1 = p1
  p2 = p2
  x1 = x1
  x2 = x2
  Runs = {r1}
  Conversations = {c1}
  Workspaces = {w1}
  Owners = {p1, p2}
  Ops = {x1}
  MaxAttempt = 2
  MaxRevision = 10
  NoOwner = NoOwner
  Nobody = Nobody
SYMMETRY OwnersSymmetry
CHECK_DEADLOCK FALSE
INVARIANTS
  TypeOK
  OwnedWhileLeased
  ReleasedRunsAreSettled
  EarlierAttemptsAreSafe
  ContinuationsHaveInput
PROPERTIES
  FinishedRunsAreFinal
  DispatchedWritesNeedEvidence
