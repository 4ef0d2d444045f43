------------------------------- MODULE RunFeed -------------------------------
(***************************************************************************)
(* What a viewer of a run may be shown: all events after a snapshot it was *)
(* given, in order and without a hole, or a newer start from another       *)
(* snapshot.  RunEvents implements it with pages, a stream and retention.  *)
(***************************************************************************)
EXTENDS Naturals

VARIABLES
    last,    \* the latest event of the run
    ended,   \* the run is over
    base,    \* the snapshot the viewer starts from covers events up to this one
    held,    \* the events it was shown since
    done     \* it follows no more

feed == <<last, ended, base, held, done>>

FeedInit == last = 0 /\ ended = FALSE /\ base = 0 /\ held = {} /\ done = FALSE

(* Undo adds events to a run that is over.                                   *)
Grow ==
    /\ last' = last + 1 /\ ended' \in {ended, TRUE}
    /\ UNCHANGED <<base, held, done>>

Show ==
    /\ \E n \in base .. last : held' = base + 1 .. n
    /\ held \subseteq held'
    /\ UNCHANGED <<last, ended, base, done>>

(* From a snapshot, which may be older than what was shown; with what came   *)
(* after it.                                                                 *)
StartOver ==
    /\ base' \in 0 .. last
    /\ \E n \in base' .. last : held' = base' + 1 .. n
    /\ UNCHANGED <<last, ended, done>>

Leave == ended /\ done' = TRUE /\ UNCHANGED <<last, ended, base, held>>

FeedSpec == FeedInit /\ [][Grow \/ Show \/ StartOver \/ Leave]_feed
=============================================================================
