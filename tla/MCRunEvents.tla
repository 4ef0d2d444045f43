----------------------------- MODULE MCRunEvents -----------------------------
(* A small instance of RunEvents: the watched run and another one that       *)
(* competes with it for the total of retained events.                        *)
EXTENDS RunEvents

CONSTANTS r1, r2

(* The bound: the other run has one event, of its end, and the viewer opens  *)
(* after it.                                                                 *)
Opened == main.pc # "waiting" \/ view.cursor > 0 \/ faults > 0 \/ sync.pc # "off"
Bound  == /\ lastSeq'[r2] # lastSeq[r2] => Terminal(r2)' /\ ~Terminal(r2) /\ ~Opened
          /\ Opened' => Terminal(r2)

MCEventsSpec == EventsInit /\ [][EventsNext /\ Bound]_vars /\ EventsFairness
=============================================================================
