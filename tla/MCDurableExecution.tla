------------------------- MODULE MCDurableExecution -------------------------
(* Small instances of DurableExecution: model values for its sets.           *)
EXTENDS DurableExecution, TLC

CONSTANTS r1, r2, c1, c2, w1, p1, p2, x1, x2

OwnersSymmetry     == Permutations({p1, p2})
OperationsSymmetry == Permutations({x1, x2})
OwnersAndOpsSymmetry == Permutations({p1, p2}) \cup Permutations({x1, x2})
TwoRunsSymmetry    == Permutations({p1, p2}) \cup Permutations({x1, x2}) \cup Permutations({r1, r2})
TwoPlacesSymmetry  == TwoRunsSymmetry \cup Permutations({c1, c2})
=============================================================================
