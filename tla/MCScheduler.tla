---------------------------- MODULE MCScheduler ----------------------------
(* One task, recurring with a queue or one-time without, and one manual run.  *)
EXTENDS Scheduler

CONSTANTS s1, s2, t1, k1

MCRequests == [t \in Tasks |-> {k1}]
MCShapes   == {[policy |-> "queue", once |-> FALSE], [policy |-> "skip", once |-> TRUE]}

\* At most one disturbance: a service that ends (and the leases it leaves), an
\* edit, a deletion, the lease of a run in a living service (which another may
\* take over), or a second service at work beside the first. Time passes
\* between handlers.
Ended   == {s \in Schedulers : mode[s] \in {"stopping", "down"}}
Lapsed  == {r \in Ids : rows[r].owner # NoOwner /\ ~rows[r].lease}
Changed == {t \in Tasks : task[t].rev # 0 \/ ~task[t].exists}
Bound ==
    \* s1 comes first; s2, its rival (early on) or its successor, stays.
    /\ mode[s2] # "off" => mode[s1] # "off" /\ mode[s2] = "up"
    /\ mode[s2] # "off" /\ mode[s1] = "up" => clock < MaxTime
    /\ Cardinality(Changed)
         + (IF Ended # {} THEN Cardinality(Ended)
            ELSE IF Lapsed \cup With("abandoned") # {}
                 THEN Cardinality(Lapsed \cup With("abandoned")) + Cardinality(Lapsed \cap With("queued"))
            ELSE IF mode[s2] # "off" THEN 1 ELSE 0) <= 1

MCNext == SchedNext /\ Bound' /\ (clock' # clock => \A s \in Schedulers : agenda[s] = <<>>)

\* A one-time task that queues, and a client that runs it by hand before its date.
OnceShapes == {[policy |-> "queue", once |-> TRUE]}
ByHand(r)  == r \in DOMAIN rows' /\ Manual(rows'[r])
EarlyNext  == MCNext /\ (Len(rows') > Len(rows) /\ ByHand(Len(rows')) => clock < RunAt)
EarlySpec  == SchedInit /\ [][EarlyNext]_vars

MCSpec == SchedInit /\ [][MCNext]_vars /\ SchedFairness
=============================================================================
