----------------------------- MODULE MCTurnStream -----------------------------
(* Small instances of TurnStream and JobFeed: a behaviour is one of a turn    *)
(* that is watched or one of a detached job that is followed.                *)
EXTENDS TurnStream, JobFeed

CONSTANTS m1, m2

VARIABLE scene

(* The bound: the second message is sent after the first, in a turn whose    *)
(* chat is not left and that does nothing else, and it does not fail; a turn *)
(* that is followed again is neither stopped nor loses a steer request, and  *)
(* one that another window stops was sent one message.                       *)
Bound ==
    /\ request[m2].at # "unsent" =>
          /\ request[m1].at # "unsent"
          /\ view.pc # "away" /\ view.returns = 0 /\ turn.work = 0
          /\ m2 \notin view.kept \/ view.pc = "next"
    /\ view.returns > 0 => ~view.stop /\ ~turn.stopping /\ ~turn.saveFailed
    /\ turn.stopping /\ Watching => request[m2].at = "unsent"
    /\ view.returns > 0 /\ m1 \in view.kept => request[m1].view # view.returns + 1

NobodyWatches ==
    /\ turn = NewTurn /\ view = [NewView EXCEPT !.pc = "ended"] /\ conn = NoConn /\ stream = NoStream
    /\ inbox = [messages |-> <<>>, applied |-> {}, closed |-> FALSE, registered |-> TRUE]
    /\ request = [m \in Messages |-> [at |-> "unsent", view |-> 0]]

Init == JobInit /\ ((scene = "turn" /\ StreamInit) \/ (scene = "job" /\ NobodyWatches))

Next ==
    /\ UNCHANGED scene
    /\ \/ scene = "turn" /\ StreamNext /\ Bound' /\ UNCHANGED jobVars
       \/ scene = "job" /\ JobNext /\ UNCHANGED vars

(* StreamFairness and JobFairness, each for the behaviours it is about.       *)
Turn(action) == scene = "turn" /\ action
Job(action)  == scene = "job" /\ action

Fairness ==
    /\ WF_vars(Turn(AcceptAnswer \/ GiveUp)) /\ WF_vars(Turn(CloseInbox))
    /\ WF_vars(Turn(Save \/ SaveFails)) /\ WF_vars(Turn(Publish)) /\ WF_vars(Turn(EndTurn))
    /\ WF_vars(Turn(Receive)) /\ WF_vars(Turn(Follow)) /\ WF_vars(Turn(ListRuns))
    /\ \A m \in Messages : WF_vars(Turn(SteerArrives(m))) /\ WF_vars(Turn(SteerAnswered(m)))
    /\ WF_jobVars(Job(RunJob)) /\ WF_jobVars(Job(Drive))
    /\ WF_jobVars(Job(\E kind \in {"done", "paused_done"} : Emit(kind)))
    /\ WF_jobVars(Job(Subscribe)) /\ SF_jobVars(Job(ReplayNext \/ ReplayEnds \/ Live))

Spec == Init /\ [][Next]_<<scene, vars, jobVars>> /\ Fairness
=============================================================================
