----------------------------- MODULE UndoPromise -----------------------------
(***************************************************************************)
(* What undo promises for one verified file operation, without rows, keys, *)
(* processes or recovery: its inverse is claimed by one request at a time, *)
(* touches the files only while it is claimed, is released only if it      *)
(* touched nothing, is called undone only if all of it was applied, and    *)
(* otherwise waits in review.  UndoJournal implements it.                  *)
(***************************************************************************)
CONSTANT Sources        \* the verified operations of a finished run

VARIABLES
    outcome,   \* what the record says of the inverse of each source
    touched    \* how much of the inverse was ever applied

promise == <<outcome, touched>>

Outcomes == {"standing", "claimed", "review", "undone", "forgotten"}
Touches  == {"untouched", "partly", "wholly"}

PromiseInit ==
    /\ outcome = [s \in Sources |-> "standing"]
    /\ touched = [s \in Sources |-> "untouched"]

Claim(s) ==
    /\ outcome[s] = "standing" /\ touched[s] = "untouched"
    /\ outcome' = [outcome EXCEPT ![s] = "claimed"]
    /\ UNCHANGED touched

(* Part of the inverse, or the rest of it, reaches the files.                *)
Touch(s) ==
    /\ outcome[s] = "claimed" /\ touched[s] # "wholly"
    /\ \E t \in {"partly", "wholly"} : touched' = [touched EXCEPT ![s] = t]
    /\ UNCHANGED outcome

Release(s) ==
    /\ outcome[s] \in {"claimed", "review"} /\ touched[s] = "untouched"
    /\ outcome' = [outcome EXCEPT ![s] = "standing"]
    /\ UNCHANGED touched

Finish(s) ==
    /\ outcome[s] \in {"claimed", "review"} /\ touched[s] = "wholly"
    /\ outcome' = [outcome EXCEPT ![s] = "undone"]
    /\ UNCHANGED touched

Review(s) ==
    /\ outcome[s] = "claimed"
    /\ outcome' = [outcome EXCEPT ![s] = "review"]
    /\ UNCHANGED touched

(* The record goes with its conversation, never under an open inverse.       *)
Forget ==
    /\ \A s \in Sources : outcome[s] \in {"standing", "undone"}
    /\ outcome' = [s \in Sources |-> "forgotten"]
    /\ UNCHANGED touched

PromiseNext ==
    \/ \E s \in Sources : \/ Claim(s) \/ Touch(s) \/ Release(s) \/ Finish(s) \/ Review(s)
    \/ Forget

PromiseSpec == PromiseInit /\ [][PromiseNext]_promise
=============================================================================
