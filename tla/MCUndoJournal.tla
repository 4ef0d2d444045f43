---------------------------- MODULE MCUndoJournal ----------------------------
(* A small instance of UndoJournal: one operation of each kind, two requests *)
(* for its inverse and up to three processes of the backend.                 *)
EXTENDS UndoJournal, TLC

CONSTANTS s1, k1, k2

(* The bound: a third process starts only where one request was made, so two *)
(* requests race within two processes and one is recovered twice.            *)
Bound == Cardinality(live \cup gone) = 3 => \A s \in Sources : conf[s][k2] = NoConf /\ undo[s][k2] = NoUndo

MCUndoSpec ==
    /\ UndoInit /\ [][UndoNext /\ Bound']_vars
    /\ \A s \in Sources, k \in Keys : WF_vars(Handle(s, k)) /\ WF_vars(Recover(s, k))
=============================================================================
