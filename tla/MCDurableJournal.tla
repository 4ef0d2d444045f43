--------------------------- MODULE MCDurableJournal ---------------------------
(* Small instances of DurableJournal: model values for its sets.             *)
EXTENDS DurableJournal, TLC

CONSTANTS r1, r2, c1, w1, w2, p1, p2, x1, x2

(* The ids of a set are alike: nothing compares them but for equality.       *)
OwnersSymmetry        == Permutations({p1, p2})
OwnersAndRunsSymmetry == Permutations({p1, p2}) \cup Permutations({r1, r2})
=============================================================================
