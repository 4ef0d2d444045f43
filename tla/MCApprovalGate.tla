--------------------------- MODULE MCApprovalGate ---------------------------
(* Two calls of a turn, one of them unattended and with one ticket.  Bounds:  *)
(* one ticket grown too old and one of a call stopped, a pause, a target      *)
(* blocked and a restart, each at a time when it matters; one consequential   *)
(* action, which alone Telegram answers; one ticket replaced by another.      *)
EXTENDS ApprovalGate
CONSTANTS c1, c2
TwoCalls == {c1, c2}
OneUnattended == {c2}

FewOf(P(_), S) == Cardinality({x \in S : P(x)}) <= 1
AtWork(phases) == \E c \in Calls : call[c].phase \in phases
Bound ==
    /\ FewOf(LAMBDA t : ticket'[t].old, Tickets)
    /\ Cardinality({c \in Calls : call'[c].cancelled})
         + (IF turn'.pausing THEN 1 ELSE 0) + (IF turn'.restarted THEN 1 ELSE 0)
         + (IF access'.policy = "blocked" THEN 1 ELSE 0) <= 1
    /\ FewOf(LAMBDA t : ticket'[t].human, Tickets)
    /\ FewOf(LAMBDA t : ticket'[t].status = "superseded", Tickets)
    /\ FewOf(LAMBDA t : ticket'[t].status # "none" /\ ticket'[t].call \in Unattended, Tickets)
    /\ \A t \in Tickets :
         /\ ticket'[t].by = "telegram" => ticket'[t].human
         /\ ticket'[t].old # ticket[t].old => call[ticket[t].call].phase # "done"
         /\ ticket'[t].by # ticket[t].by /\ call[ticket[t].call].phase = "done" => ticket[t].kind = "approval"
    /\ turn'.restarted # turn.restarted => AtWork({"replaying"})
    /\ turn'.pausing # turn.pausing => AtWork({"waiting", "reviewing"})
    /\ access'.policy = "blocked" /\ access.policy # "blocked" => AtWork({"waiting", "replaying"})

BoundedSpec == GateInit /\ [][Next /\ Bound]_vars
=============================================================================
