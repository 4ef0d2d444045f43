-------------------------- MODULE UndoJournalProofs --------------------------
(***************************************************************************)
(* The safety of undo for any operations, keys and number of processes:    *)
(* an undo has one hand, edits survive, and the journal implements         *)
(* UndoPromise.                                                            *)
(*                                                                         *)
(* Every step but a few concerns one row, so the invariant is about a row, *)
(* with its request and its recovery (RowIsSound), and about a source,     *)
(* whose files tell how much of the inverse was applied (DiskTells).  What *)
(* a step of a row may do is one formula (RowStep): from it follow the     *)
(* invariant of all other rows and the step of the promise.                *)
(***************************************************************************)
EXTENDS UndoJournal, FiniteSetTheorems, TLAPS

Who      == {0} \cup Owners
ConfRecs == [state : {"none", "prepared", "used"}, fresh : BOOLEAN, proc : Who]
RequestRecs  == [pc : PCs, proc : Who, step : 0 .. 2, review : BOOLEAN]
StepRows     == [{1, 2} -> Statuses \cup {"absent"}]
UndoRecs     == [status : Statuses \cup {"absent"}, owner : Who, step : StepRows]
RecoveryRecs == [pc : {"idle", "steps", "unsure", "skipped"}, proc : Who, todo : SUBSET {1, 2}]
Touched      == {"untouched", "partly", "wholly"}

Open      == Pending \cup {"verified"}
LastOf(m) == IF m = "moveover" THEN 2 ELSE 1

(* The files and how much of the inverse was applied to them.                *)
DiskTells(m, d, t) ==
    /\ d = "after"  => t = "untouched"
    /\ d = "mid"    => t = "partly" /\ m = "moveover"
    /\ d = "before" => t = "wholly"
    /\ d = "torn"   => t = "partly"

(* The steps of a row begin in order, and what they say of the files holds.  *)
StepsAreSound(m, t, u) ==
    /\ u.step[2] # "absent" => m = "moveover" /\ u.step[1] = "verified"
    /\ u.status \in {"absent"} \cup Unstarted => u.step[1] = "absent"
    /\ u.status \in Pending =>
        /\ u.step[1] \in {"absent"} \cup Unstarted \cup Closed => t = "untouched"
        /\ u.step[1] = "verified" => t # "untouched" /\ (m # "moveover" => t = "wholly")
        /\ u.step[2] = "verified" => t = "wholly"
    /\ u.status = "verified" => t = "wholly"

(* Where a handler is with its row.                                          *)
Held(q) == q.pc \notin {"idle", "confirmed", "checked"}
HeldStatus(pc) ==
    IF pc = "claimed" THEN "prepared" ELSE IF pc = "starting" THEN "authorized"
    ELSE IF pc = "closing" THEN "uncertain" ELSE "executing"
Before    == {"next", "planning", "planned", "authorized", "applying", "writing"}
Working   == Before \cup {"torn", "applied", "unsure"}
StepAt(pc) ==
    IF pc = "next" THEN "absent" ELSE IF pc \in {"planning", "planned"} THEN "prepared"
    ELSE IF pc = "authorized" THEN "authorized" ELSE IF pc = "unsure" THEN "uncertain" ELSE "executing"
HandlerIsSound(m, t, q, u) ==
    /\ u.status = HeldStatus(q.pc) /\ u.owner = q.proc
    /\ q.pc \in Working =>
        /\ q.step \in {1, 2} /\ (q.step = 2 => m = "moveover" /\ u.step[1] = "verified")
        /\ u.step[q.step] = StepAt(q.pc)
    /\ q.pc \in Before => t = IF q.step = 1 THEN "untouched" ELSE "partly"
    /\ q.pc = "torn" => t = "partly"
    /\ q.pc \in {"writing", "torn"} => m = "overwrite"
    /\ q.pc = "finish" => u.step[LastOf(m)] = "verified"
    /\ q.pc = "fail" => t = "untouched"

RowIsSound(m, t, q, u, r, running) ==
    /\ q.pc # "idle" => q.proc \in running
    /\ r.pc # "idle" => r.proc \in running /\ u.status \in Pending /\ u.owner = r.proc
    /\ Held(q) => r.pc = "idle" /\ HandlerIsSound(m, t, q, u)
    /\ StepsAreSound(m, t, u)

RowHolds(s, k) == RowIsSound(kind[s], touched[s], request[s][k], undo[s][k], recovery[s][k], live)

(* One claim at a time, and without one nothing was touched.                 *)
SourceHolds(s) ==
    /\ DiskTells(kind[s], disk[s], touched[s])
    /\ \A k, l \in Keys : k # l /\ Status(s, k) \in Open => Status(s, l) \notin Open
    /\ ~deleted /\ ~OpenClaim(s) => touched[s] = "untouched"
    /\ deleted => \A k \in Keys : Status(s, k) = "absent"

(* Processes are numbered as they start, and the dead do not return.         *)
ProcessesHold ==
    /\ live \cap gone = {} /\ \E n \in Nat : live \cup gone = 1 .. n
    /\ \A o \in Owners : scan[o] # {} => o \in live

UndoIInv ==
    /\ UndoTypeOK /\ ProcessesHold
    /\ \A s \in Sources : SourceHolds(s) /\ \A k \in Keys : RowHolds(s, k)

------------------------------------------------------------------------------
(* What a step about one row may do.                                         *)

(* The status and the files: a claim of untouched files, an effect under a   *)
(* claim, a failure without effects, an undo that was wholly applied.        *)
Moves(s, was, is, t, u) ==
    \/ /\ is = was
       /\ \/ u = t
          \/ was \in Pending \ {"needs_review"} /\ t # "wholly" /\ u \in {"partly", "wholly"}
    \/ /\ u = t
       /\ \/ was = "absent" /\ is = "prepared" /\ ~OpenClaim(s) /\ ~deleted
          \/ was \in Pending \ {"needs_review"} /\ is \in Pending
          \/ was \in Pending /\ is \in Closed /\ t = "untouched"
          \/ was \in Pending /\ is = "verified" /\ t = "wholly"

ScanShrinks == scan' \in [Owners -> SUBSET (Sources \X Keys)] /\ \A o \in Owners : scan'[o] \subseteq scan[o]

RowStep(s, k) ==
    /\ undo' \in [Sources -> [Keys -> UndoRecs]] /\ request' \in [Sources -> [Keys -> RequestRecs]]
    /\ recovery' \in [Sources -> [Keys -> RecoveryRecs]] /\ conf' \in [Sources -> [Keys -> ConfRecs]]
    /\ disk' \in [Sources -> DiskStates] /\ touched' \in [Sources -> Touched]
    /\ ScanShrinks
    /\ UNCHANGED <<kind, platform, live, gone, deleted>>
    /\ \A t \in Sources, l \in Keys : t # s \/ l # k =>
          undo'[t][l] = undo[t][l] /\ request'[t][l] = request[t][l] /\ recovery'[t][l] = recovery[t][l]
    /\ \A t \in Sources : t # s => disk'[t] = disk[t] /\ touched'[t] = touched[t]
    /\ DiskTells(kind[s], disk'[s], touched'[s])
    /\ kind[s] # "overwrite" /\ disk[s] = "edited" => disk'[s] = "edited"
    /\ RowIsSound(kind[s], touched'[s], request'[s][k], undo'[s][k], recovery'[s][k], live)
    /\ Moves(s, undo[s][k].status, undo'[s][k].status, touched[s], touched'[s])

(* The parts of the state, and of the invariant, a step looks at.            *)
Parts(s, k) ==
    /\ kind[s] \in Kinds /\ disk[s] \in DiskStates /\ touched[s] \in Touched
    /\ request[s][k] \in RequestRecs /\ undo[s][k] \in UndoRecs /\ recovery[s][k] \in RecoveryRecs
    /\ request[s][k].pc \in PCs /\ request[s][k].proc \in Who /\ request[s][k].step \in 0 .. 2
    /\ undo[s][k].status \in Statuses \cup {"absent"} /\ undo[s][k].owner \in Who
    /\ undo[s][k].step \in StepRows
    /\ DiskTells(kind[s], disk[s], touched[s])
    /\ RowIsSound(kind[s], touched[s], request[s][k], undo[s][k], recovery[s][k], live)
LEMMA PartsHold ==
    ASSUME UndoIInv, NEW s \in Sources, NEW k \in Keys
    PROVE  Parts(s, k)
<1>1. /\ kind[s] \in Kinds /\ disk[s] \in DiskStates /\ touched[s] \in Touched
      /\ request[s][k] \in RequestRecs /\ undo[s][k] \in UndoRecs /\ recovery[s][k] \in RecoveryRecs
  BY DEF UndoIInv, UndoTypeOK, Touched, RequestRecs, UndoRecs, StepRows, RecoveryRecs, Who
<1>2. /\ request[s][k].pc \in PCs /\ request[s][k].proc \in Who /\ request[s][k].step \in 0 .. 2
      /\ undo[s][k].status \in Statuses \cup {"absent"} /\ undo[s][k].owner \in Who
      /\ undo[s][k].step \in StepRows
  BY <1>1 DEF RequestRecs, UndoRecs
<1> QED BY <1>1, <1>2 DEF UndoIInv, SourceHolds, RowHolds, Parts

(* A step that gives the row these values is such a step.                    *)
LEMMA StepsOfRows ==
    ASSUME UndoIInv, NEW s \in Sources, NEW k \in Keys,
           NEW q \in RequestRecs, NEW u \in UndoRecs, NEW r \in RecoveryRecs,
           NEW d \in DiskStates, NEW t \in Touched,
           request' = [request EXCEPT ![s][k] = q], undo' = [undo EXCEPT ![s][k] = u],
           recovery' = [recovery EXCEPT ![s][k] = r],
           disk' = [disk EXCEPT ![s] = d], touched' = [touched EXCEPT ![s] = t],
           conf' \in [Sources -> [Keys -> ConfRecs]], ScanShrinks,
           UNCHANGED <<kind, platform, live, gone, deleted>>,
           DiskTells(kind[s], d, t), kind[s] # "overwrite" /\ disk[s] = "edited" => d = "edited",
           RowIsSound(kind[s], t, q, u, r, live),
           Moves(s, undo[s][k].status, u.status, touched[s], t)
    PROVE  RowStep(s, k)
<1>1. /\ request \in [Sources -> [Keys -> RequestRecs]] /\ undo \in [Sources -> [Keys -> UndoRecs]]
      /\ recovery \in [Sources -> [Keys -> RecoveryRecs]]
      /\ disk \in [Sources -> DiskStates] /\ touched \in [Sources -> Touched]
  BY DEF UndoIInv, UndoTypeOK, Touched, RequestRecs, UndoRecs, StepRows, RecoveryRecs, Who
<1>2. /\ request' \in [Sources -> [Keys -> RequestRecs]] /\ request'[s][k] = q
      /\ \A x \in Sources, l \in Keys : x # s \/ l # k => request'[x][l] = request[x][l]
  BY <1>1
<1>3. /\ undo' \in [Sources -> [Keys -> UndoRecs]] /\ undo'[s][k] = u
      /\ \A x \in Sources, l \in Keys : x # s \/ l # k => undo'[x][l] = undo[x][l]
  BY <1>1
<1>4. /\ recovery' \in [Sources -> [Keys -> RecoveryRecs]] /\ recovery'[s][k] = r
      /\ \A x \in Sources, l \in Keys : x # s \/ l # k => recovery'[x][l] = recovery[x][l]
  BY <1>1
<1>5. /\ disk' \in [Sources -> DiskStates] /\ disk'[s] = d
      /\ touched' \in [Sources -> Touched] /\ touched'[s] = t
      /\ \A x \in Sources : x # s => disk'[x] = disk[x] /\ touched'[x] = touched[x]
  BY <1>1
<1> QED BY <1>2, <1>3, <1>4, <1>5 DEF RowStep

(* What stays is given its old value.                                        *)
LEMMA Kept ==
    ASSUME UndoIInv, NEW s \in Sources, NEW k \in Keys
    PROVE  /\ request = [request EXCEPT ![s][k] = request[s][k]]
           /\ undo = [undo EXCEPT ![s][k] = undo[s][k]]
           /\ recovery = [recovery EXCEPT ![s][k] = recovery[s][k]]
           /\ disk = [disk EXCEPT ![s] = disk[s]] /\ touched = [touched EXCEPT ![s] = touched[s]]
           /\ conf \in [Sources -> [Keys -> ConfRecs]] /\ scan \in [Owners -> SUBSET (Sources \X Keys)]
BY DEF UndoIInv, UndoTypeOK, ConfRecs, Who

(* A handler that holds its row moves on or ends.                            *)
LEMMA HandlerMoves ==
    ASSUME UndoIInv, NEW s \in Sources, NEW k \in Keys, NEW q \in RequestRecs, NEW u \in UndoRecs,
           request' = [request EXCEPT ![s][k] = q], undo' = [undo EXCEPT ![s][k] = u],
           conf' \in [Sources -> [Keys -> ConfRecs]], UNCHANGED <<files, procs, deleted>>,
           Held(request[s][k]),
           q.pc = "idle" \/ (q.proc = request[s][k].proc /\ HandlerIsSound(kind[s], touched[s], q, u)),
           StepsAreSound(kind[s], touched[s], u),
           Moves(s, undo[s][k].status, u.status, touched[s], touched[s])
    PROVE  RowStep(s, k)
<1>1. Parts(s, k) BY PartsHold
<1>2. /\ recovery[s][k].pc = "idle" /\ request[s][k].proc \in live
  BY <1>1 DEF Parts, RowIsSound, Held
<1>3. RowIsSound(kind[s], touched[s], q, u, recovery[s][k], live)
  BY <1>2 DEF RowIsSound, Held
<1>4. /\ recovery' = [recovery EXCEPT ![s][k] = recovery[s][k]]
      /\ disk' = [disk EXCEPT ![s] = disk[s]] /\ touched' = [touched EXCEPT ![s] = touched[s]]
      /\ ScanShrinks
      /\ UNCHANGED <<kind, platform, live, gone, deleted>>
  BY Kept DEF files, procs, ScanShrinks
<1>5. /\ recovery[s][k] \in RecoveryRecs /\ disk[s] \in DiskStates /\ touched[s] \in Touched
      /\ DiskTells(kind[s], disk[s], touched[s])
  BY <1>1 DEF Parts
<1> QED BY <1>3, <1>4, <1>5, StepsOfRows

(* A handler that holds its row has an effect on the files.                  *)
LEMMA HandlerActs ==
    ASSUME UndoIInv, NEW s \in Sources, NEW k \in Keys, NEW q \in RequestRecs,
           NEW d \in DiskStates, NEW t \in Touched,
           request' = [request EXCEPT ![s][k] = q], Effect(s, d, t), UNCHANGED <<conf, rows, procs>>,
           Held(request[s][k]), q.proc = request[s][k].proc,
           HandlerIsSound(kind[s], t, q, undo[s][k]), StepsAreSound(kind[s], t, undo[s][k]),
           DiskTells(kind[s], d, t), kind[s] # "overwrite" /\ disk[s] = "edited" => d = "edited",
           undo[s][k].status = "executing", touched[s] # "wholly", t \in {"partly", "wholly"}
    PROVE  RowStep(s, k)
<1>1. Parts(s, k) BY PartsHold
<1>2. /\ recovery[s][k].pc = "idle" /\ request[s][k].proc \in live
  BY <1>1 DEF Parts, RowIsSound, Held
<1>3. RowIsSound(kind[s], t, q, undo[s][k], recovery[s][k], live)
  BY <1>2 DEF RowIsSound, Held
<1>4. /\ recovery' = [recovery EXCEPT ![s][k] = recovery[s][k]] /\ undo' = [undo EXCEPT ![s][k] = undo[s][k]]
      /\ disk' = [disk EXCEPT ![s] = d] /\ touched' = [touched EXCEPT ![s] = t]
      /\ conf' \in [Sources -> [Keys -> ConfRecs]] /\ ScanShrinks
      /\ UNCHANGED <<kind, platform, live, gone, deleted>>
  BY Kept DEF Effect, rows, procs, ScanShrinks
<1>5. Moves(s, undo[s][k].status, undo[s][k].status, touched[s], t)
  BY DEF Moves, Pending, Unsure
<1>6. undo[s][k] \in UndoRecs /\ recovery[s][k] \in RecoveryRecs BY <1>1 DEF Parts
<1> QED BY <1>3, <1>4, <1>5, <1>6, StepsOfRows

(* A recovery changes the row it has adopted, or adopts it.                  *)
LEMMA RecoveryMoves ==
    ASSUME UndoIInv, NEW s \in Sources, NEW k \in Keys, NEW r \in RecoveryRecs, NEW u \in UndoRecs,
           recovery' = [recovery EXCEPT ![s][k] = r], undo' = [undo EXCEPT ![s][k] = u],
           conf' \in [Sources -> [Keys -> ConfRecs]], ScanShrinks,
           UNCHANGED <<files, request, live, gone, deleted>>,
           ~Held(request[s][k]),
           r.pc = "idle" \/ (r.proc \in live /\ u.status \in Pending /\ u.owner = r.proc),
           StepsAreSound(kind[s], touched[s], u),
           Moves(s, undo[s][k].status, u.status, touched[s], touched[s])
    PROVE  RowStep(s, k)
<1>1. Parts(s, k) BY PartsHold
<1>2. RowIsSound(kind[s], touched[s], request[s][k], u, r, live)
  BY <1>1 DEF Parts, RowIsSound
<1>3. /\ request' = [request EXCEPT ![s][k] = request[s][k]]
      /\ disk' = [disk EXCEPT ![s] = disk[s]] /\ touched' = [touched EXCEPT ![s] = touched[s]]
      /\ UNCHANGED <<kind, platform, live, gone, deleted>>
  BY Kept DEF files
<1>4. /\ request[s][k] \in RequestRecs /\ disk[s] \in DiskStates /\ touched[s] \in Touched
      /\ DiskTells(kind[s], disk[s], touched[s])
  BY <1>1 DEF Parts
<1> QED BY <1>2, <1>3, <1>4, StepsOfRows

------------------------------------------------------------------------------
(* What the helpers of the actions do.                                       *)

(* The stages of an inverse with one step, and of one with two.              *)
LEMMA Stages ==
    ASSUME NEW s \in Sources
    PROVE  /\ Steps(s) = IF kind[s] = "moveover" THEN {1, 2} ELSE {1}
           /\ Last(s) = LastOf(kind[s]) /\ Stage(s, 0) = "after"
           /\ Stage(s, 1) = IF kind[s] = "moveover" THEN "mid" ELSE "before"
           /\ kind[s] = "moveover" => Stage(s, 2) = "before"
           /\ PartDone(s, 1) = IF kind[s] = "moveover" THEN "partly" ELSE "wholly"
           /\ kind[s] = "moveover" => PartDone(s, 2) = "wholly"
<1>1. Cardinality({1}) = 1 BY FS_Singleton
<1>2. Cardinality({1, 2}) = 2
  <2>1. {1, 2} = {1} \cup {2} /\ 2 \notin {1} OBVIOUS
  <2>2. IsFiniteSet({1}) BY FS_Singleton
  <2>3. Cardinality({1} \cup {2}) = Cardinality({1}) + 1 BY <2>1, <2>2, FS_AddElement
  <2> QED BY <1>1, <2>1, <2>3
<1>3. Last(s) = LastOf(kind[s]) BY <1>1, <1>2 DEF Last, LastOf, Steps
<1> QED BY <1>3 DEF Steps, Stage, PartDone, LastOf

(* A request that goes to pc.                                                *)
Went(q, s, k, pc) ==
    /\ q \in RequestRecs /\ request' = [request EXCEPT ![s][k] = q]
    /\ q.pc = pc /\ q.proc = request[s][k].proc /\ q.step = request[s][k].step
LEMMA Goes ==
    ASSUME UndoIInv, NEW s \in Sources, NEW k \in Keys, NEW pc \in PCs, Goto(s, k, pc)
    PROVE  \E q : Went(q, s, k, pc)
<1> DEFINE q == [request[s][k] EXCEPT !.pc = pc]
<1>1. request[s][k] \in RequestRecs BY PartsHold DEF Parts
<1>2. request \in [Sources -> [Keys -> RequestRecs]] BY DEF UndoIInv, UndoTypeOK, RequestRecs, Who
<1>3. q \in RequestRecs /\ q.pc = pc /\ q.proc = request[s][k].proc /\ q.step = request[s][k].step
  BY <1>1 DEF RequestRecs
<1>4. request' = [request EXCEPT ![s][k] = q] BY <1>2 DEF Goto
<1> QED BY <1>3, <1>4 DEF Went

(* A request that goes to pc, and to step i of its undo.                     *)
WentTo(q, s, k, pc, i) ==
    /\ q \in RequestRecs /\ request' = [request EXCEPT ![s][k] = q]
    /\ q.pc = pc /\ q.proc = request[s][k].proc /\ q.step = i
LEMMA GoesTo ==
    ASSUME UndoIInv, NEW s \in Sources, NEW k \in Keys, NEW pc \in PCs, NEW i \in 0 .. 2,
           request' = [request EXCEPT ![s][k].pc = pc, ![s][k].step = i]
    PROVE  \E q : WentTo(q, s, k, pc, i)
<1> DEFINE half == [request[s][k] EXCEPT !.pc = pc]
           q == [half EXCEPT !.step = i]
           table == [request EXCEPT ![s][k].pc = pc]
<1>1. request[s][k] \in RequestRecs /\ request \in [Sources -> [Keys -> RequestRecs]]
  BY PartsHold DEF Parts, UndoIInv, UndoTypeOK, RequestRecs, Who
<1>2. half \in RequestRecs /\ half.pc = pc /\ half.proc = request[s][k].proc BY <1>1 DEF RequestRecs
<1>3. q \in RequestRecs /\ q.pc = pc /\ q.proc = request[s][k].proc /\ q.step = i
  BY <1>2 DEF RequestRecs
<1>4. table = [request EXCEPT ![s][k] = half] /\ table[s][k] = half
      /\ table \in [Sources -> [Keys -> RequestRecs]]
  BY <1>1, <1>2
<1>5. request' = [table EXCEPT ![s][k].step = i] OBVIOUS
<1>6. request' = [table EXCEPT ![s][k] = q] BY <1>4, <1>5
<1>7. request' = [request EXCEPT ![s][k] = q] BY <1>1, <1>4, <1>6
<1> QED BY <1>3, <1>7 DEF WentTo

(* A request that ends.                                                      *)
LEMMA IdleIs == Idle \in RequestRecs /\ Idle.pc = "idle"
BY DEF Idle, RequestRecs, PCs, Who

(* Every transaction makes the previews stale.                               *)
LEMMA StaleIs ==
    ASSUME UndoIInv
    PROVE  Stale(conf) \in [Sources -> [Keys -> ConfRecs]]
<1>1. \A s \in Sources, k \in Keys : conf[s][k] \in ConfRecs BY DEF UndoIInv, UndoTypeOK, ConfRecs, Who
<1>2. \A c \in ConfRecs : [c EXCEPT !.fresh = FALSE] \in ConfRecs BY DEF ConfRecs
<1> QED BY <1>1, <1>2 DEF Stale

(* A transaction on the row.                                                 *)
Written(u, s, k, status, owner) ==
    /\ u \in UndoRecs /\ undo' = [undo EXCEPT ![s][k] = u]
    /\ u.status = status /\ u.owner = owner
    /\ conf' \in [Sources -> [Keys -> ConfRecs]] /\ UNCHANGED deleted
LEMMA MovesUndo ==
    ASSUME UndoIInv, NEW s \in Sources, NEW k \in Keys, NEW o, NEW to \in Statuses, MoveUndo(s, k, o, to)
    PROVE  /\ undo[s][k].owner = o /\ Allowed(undo[s][k].status, to)
           /\ \E u : Written(u, s, k, to, o) /\ u.step = undo[s][k].step
<1> DEFINE u == [undo[s][k] EXCEPT !.status = to]
<1>1. undo[s][k] \in UndoRecs /\ undo[s][k].owner = o BY PartsHold DEF Parts, MoveUndo
<1>2. u \in UndoRecs /\ u.status = to /\ u.owner = o /\ u.step = undo[s][k].step BY <1>1 DEF UndoRecs
<1>3. undo' = [undo EXCEPT ![s][k] = u] /\ conf' = Stale(conf) /\ UNCHANGED deleted
  BY DEF MoveUndo, Commit
<1>4. conf' \in [Sources -> [Keys -> ConfRecs]] BY <1>3, StaleIs
<1> QED BY <1>2, <1>3, <1>4 DEF Written, MoveUndo, Status

(* A transaction on a step of it.                                            *)
StepSet(u, s, k, i, to) ==
    /\ Written(u, s, k, undo[s][k].status, undo[s][k].owner)
    /\ u.step \in StepRows /\ u.step[i] = to
    /\ \A j \in {1, 2} : j # i => u.step[j] = undo[s][k].step[j]
LEMMA MovesStep ==
    ASSUME UndoIInv, NEW s \in Sources, NEW k \in Keys, NEW i \in {1, 2}, NEW to \in Statuses,
           Commit(s, k, [undo[s][k] EXCEPT !.step[i] = to])
    PROVE  \E u : StepSet(u, s, k, i, to)
<1> DEFINE steps == [undo[s][k].step EXCEPT ![i] = to]
           u == [undo[s][k] EXCEPT !.step = steps]
<1>1. undo[s][k] \in UndoRecs /\ undo[s][k].step \in StepRows BY PartsHold DEF Parts
<1>2. steps \in StepRows /\ steps[i] = to /\ \A j \in {1, 2} : j # i => steps[j] = undo[s][k].step[j]
  BY <1>1 DEF StepRows
<1>3. u = [undo[s][k] EXCEPT !.step[i] = to] BY <1>1 DEF UndoRecs
<1> HIDE DEF steps
<1>4. u \in UndoRecs /\ u.status = undo[s][k].status /\ u.owner = undo[s][k].owner /\ u.step = steps
  BY <1>1, <1>2 DEF UndoRecs
<1>5. undo' = [undo EXCEPT ![s][k] = u] /\ conf' = Stale(conf) /\ UNCHANGED deleted
  BY <1>3 DEF Commit
<1>6. conf' \in [Sources -> [Keys -> ConfRecs]] BY <1>5, StaleIs
<1> QED BY <1>2, <1>4, <1>5, <1>6 DEF Written, StepSet

------------------------------------------------------------------------------
(* The steps of a handler.                                                   *)

(* What holds of a row whose handler is at pc.                               *)
LEMMA HandlerAt ==
    ASSUME UndoIInv, NEW s \in Sources, NEW k \in Keys
    PROVE  /\ Held(request[s][k]) => HandlerIsSound(kind[s], touched[s], request[s][k], undo[s][k])
           /\ StepsAreSound(kind[s], touched[s], undo[s][k])
BY PartsHold DEF Parts, RowIsSound

(* A request that does not hold a row changes nothing else.                  *)
LEMMA RequestWaits ==
    ASSUME UndoIInv, NEW s \in Sources, NEW k \in Keys, NEW q \in RequestRecs, ~Held(request[s][k]), ~Held(q),
           request' = [request EXCEPT ![s][k] = q], conf' \in [Sources -> [Keys -> ConfRecs]],
           UNCHANGED <<files, rows, procs>>, q.pc # "idle" => q.proc \in live
    PROVE  RowStep(s, k)
<1>1. Parts(s, k) BY PartsHold
<1>2. RowIsSound(kind[s], touched[s], q, undo[s][k], recovery[s][k], live)
  BY <1>1 DEF Parts, RowIsSound
<1>3. /\ recovery' = [recovery EXCEPT ![s][k] = recovery[s][k]] /\ undo' = [undo EXCEPT ![s][k] = undo[s][k]]
      /\ disk' = [disk EXCEPT ![s] = disk[s]] /\ touched' = [touched EXCEPT ![s] = touched[s]]
      /\ ScanShrinks
      /\ UNCHANGED <<kind, platform, live, gone, deleted>>
  BY Kept DEF files, rows, procs, ScanShrinks
<1>4. Moves(s, undo[s][k].status, undo[s][k].status, touched[s], touched[s]) BY DEF Moves
<1> QED BY <1>1, <1>2, <1>3, <1>4, StepsOfRows DEF Parts

(* A confirmed request begins.                                               *)
LEMMA ConfirmStep ==
    ASSUME UndoIInv, NEW s \in Sources, NEW k \in Keys, Confirm(s, k)
    PROVE  RowStep(s, k)
<1> DEFINE q == [Idle EXCEPT !.pc = "confirmed", !.proc = conf[s][k].proc]
           c == [conf[s][k] EXCEPT !.state = "used"]
<1>1. /\ request' = [request EXCEPT ![s][k] = q] /\ conf' = [conf EXCEPT ![s][k].state = "used"]
      /\ UNCHANGED <<files, rows, procs>> /\ conf[s][k].proc \in live /\ request[s][k].pc = "idle"
  BY DEF Confirm, At
<1>2. conf \in [Sources -> [Keys -> ConfRecs]] BY Kept
<1>3. c \in ConfRecs BY <1>2 DEF ConfRecs
<1>4. conf' \in [Sources -> [Keys -> ConfRecs]] BY <1>1, <1>2, <1>3
<1>5. conf[s][k].proc \in Who BY <1>2 DEF ConfRecs
<1>6. q \in RequestRecs /\ q.pc = "confirmed" /\ q.proc = conf[s][k].proc 
  BY <1>5, IdleIs DEF RequestRecs, PCs
<1> HIDE DEF q
<1> QED BY <1>1, <1>4, <1>6, RequestWaits DEF Held

(* It looks at the files again.                                              *)
LEMMA RecheckStep ==
    ASSUME UndoIInv, NEW s \in Sources, NEW k \in Keys, Recheck(s, k)
    PROVE  RowStep(s, k)
<1>1. /\ request[s][k].pc = "confirmed" /\ UNCHANGED <<files, rows, conf, procs>>
      /\ Goto(s, k, "checked") \/ EndRequest(s, k)
  BY DEF Recheck, At
<1>2. request[s][k].proc \in live BY <1>1, PartsHold DEF Parts, RowIsSound
<1>3. conf' \in [Sources -> [Keys -> ConfRecs]] BY <1>1, Kept
<1>4. CASE Goto(s, k, "checked")
  <2>1. PICK q : Went(q, s, k, "checked") BY <1>4, Goes DEF PCs
  <2> QED BY <1>1, <1>2, <1>3, <2>1, RequestWaits DEF Went, Held
<1>5. CASE EndRequest(s, k) BY <1>1, <1>3, <1>5, IdleIs, RequestWaits DEF EndRequest, Held
<1> QED BY <1>1, <1>4, <1>5

(* The claim is made, or refused.                                            *)
LEMMA ClaimedStep ==
    ASSUME UndoIInv, NEW s \in Sources, NEW k \in Keys, Claimed(s, k)
    PROVE  RowStep(s, k)
<1>1. request[s][k].pc = "checked" /\ UNCHANGED <<files, procs>> BY DEF Claimed, At
<1>2. Parts(s, k) /\ request[s][k].proc \in live BY <1>1, PartsHold DEF Parts, RowIsSound
<1>3. CASE ClaimUndo(s, k, By(s, k)) /\ Goto(s, k, "claimed")
  <2>1. PICK q : Went(q, s, k, "claimed") BY <1>3, Goes DEF PCs
  <2> DEFINE u == [NoUndo EXCEPT !.status = "prepared", !.owner = request[s][k].proc]
  <2>2. /\ undo' = [undo EXCEPT ![s][k] = u] /\ conf' = Stale(conf) /\ UNCHANGED deleted
        /\ undo[s][k].status = "absent" /\ ~deleted /\ ~OpenClaim(s)
    BY <1>3 DEF ClaimUndo, Commit, By, Status
  <2>3. u \in UndoRecs /\ u.status = "prepared" /\ u.owner = request[s][k].proc /\ u.step = NoUndo.step
    <3>1. NoUndo \in UndoRecs BY DEF NoUndo, UndoRecs, StepRows, Who
    <3>2. request[s][k].proc \in Who BY <1>2 DEF Parts
    <3> QED BY <3>1, <3>2 DEF UndoRecs, Statuses, Pending, Unstarted
  <2>4. u.step[1] = "absent" /\ u.step[2] = "absent" BY <2>3 DEF NoUndo
  <2>5. touched[s] = "untouched" BY <2>2 DEF UndoIInv, SourceHolds
  <2> HIDE DEF u
  <2>6. StepsAreSound(kind[s], touched[s], u) BY <2>3, <2>4, <2>5 DEF StepsAreSound, Unstarted
  <2>7. recovery[s][k].pc = "idle"
    BY <1>2, <2>2 DEF Parts, RowIsSound, Pending, Unstarted, Unsure
  <2>8. RowIsSound(kind[s], touched[s], q, u, recovery[s][k], live)
    BY <1>2, <2>1, <2>3, <2>6, <2>7 DEF RowIsSound, Went, Held, HandlerIsSound, HeldStatus, Working, Before
  <2>9. Moves(s, undo[s][k].status, u.status, touched[s], touched[s]) BY <2>2, <2>3 DEF Moves
  <2>10. /\ recovery' = [recovery EXCEPT ![s][k] = recovery[s][k]]
         /\ disk' = [disk EXCEPT ![s] = disk[s]] /\ touched' = [touched EXCEPT ![s] = touched[s]]
         /\ ScanShrinks
         /\ UNCHANGED <<kind, platform, live, gone, deleted>>
    BY <1>1, <2>2, Kept DEF files, procs, ScanShrinks
  <2>11. conf' \in [Sources -> [Keys -> ConfRecs]] BY <2>2, StaleIs
  <2> QED BY <1>2, <2>1, <2>2, <2>3, <2>8, <2>9, <2>10, <2>11, StepsOfRows DEF Parts, Went
<1>4. CASE EndRequest(s, k) /\ UNCHANGED <<conf, rows>>
  BY <1>1, <1>4, Kept, IdleIs, RequestWaits DEF EndRequest, Held
<1> QED BY <1>3, <1>4 DEF Claimed

(* The undo is authorized.                                                   *)
LEMMA AuthorizeUndoStep ==
    ASSUME UndoIInv, NEW s \in Sources, NEW k \in Keys, Authorize(s, k)
    PROVE  RowStep(s, k)
<1>1. request[s][k].pc = "claimed" /\ MoveUndo(s, k, By(s, k), "authorized") /\ UNCHANGED <<files, procs>>
  BY DEF Authorize, At
<1>2. PICK u : Written(u, s, k, "authorized", By(s, k)) /\ u.step = undo[s][k].step
  BY <1>1, MovesUndo DEF Statuses, Pending, Unstarted, Unsure, Closed
<1>3. PICK q : Went(q, s, k, "starting") BY Goes DEF Authorize, PCs
<1>4. StepsAreSound(kind[s], touched[s], u)
  <2>1. HandlerIsSound(kind[s], touched[s], request[s][k], undo[s][k]) BY <1>1, HandlerAt DEF Held
  <2>2. undo[s][k].status = "prepared" BY <1>1, <2>1 DEF HandlerIsSound, HeldStatus
  <2>3. StepsAreSound(kind[s], touched[s], undo[s][k]) BY HandlerAt
  <2>4. u.status = "authorized" /\ u.step = undo[s][k].step BY <1>2 DEF Written
  <2> QED BY <2>2, <2>3, <2>4 DEF StepsAreSound, Pending, Unstarted, Unsure, Closed
<1>5. HandlerIsSound(kind[s], touched[s], q, u)
  BY <1>2, <1>3 DEF Went, Written, By, HandlerIsSound, HeldStatus, StepAt, Before, Working
<1>6. Moves(s, undo[s][k].status, u.status, touched[s], touched[s])
  BY <1>1, <1>2, HandlerAt DEF Moves, Written, Held, HandlerIsSound, HeldStatus, Statuses, Pending, Unstarted, Unsure, Closed
<1> QED BY <1>1, <1>2, <1>3, <1>4, <1>5, <1>6, HandlerMoves DEF Went, Written, Held

(* It begins with its first step.                                            *)
LEMMA BeginStep ==
    ASSUME UndoIInv, NEW s \in Sources, NEW k \in Keys, Begin(s, k)
    PROVE  RowStep(s, k)
<1>1. request[s][k].pc = "starting" /\ MoveUndo(s, k, By(s, k), "executing") /\ UNCHANGED <<files, procs>>
  BY DEF Begin, At
<1>2. PICK u : Written(u, s, k, "executing", By(s, k)) /\ u.step = undo[s][k].step
  BY <1>1, MovesUndo DEF Statuses, Pending, Unstarted, Unsure, Closed
<1>3. request' = [request EXCEPT ![s][k].pc = "next", ![s][k].step = 1] /\ "next" \in PCs /\ 1 \in 0 .. 2
  BY DEF Begin, PCs
<1>4. PICK q : WentTo(q, s, k, "next", 1) BY <1>3, GoesTo
<1>6. HandlerIsSound(kind[s], touched[s], request[s][k], undo[s][k]) /\ undo[s][k].status = "authorized"
      /\ undo[s][k].step[1] = "absent" /\ undo[s][k].step[2] = "absent" /\ touched[s] = "untouched"
  BY <1>1, HandlerAt DEF StepsAreSound, Held, HandlerIsSound, HeldStatus, Statuses, Pending, Unstarted, Unsure, Closed
<1>7. StepsAreSound(kind[s], touched[s], u)
  BY <1>2, <1>6 DEF StepsAreSound, Written, Statuses, Pending, Unstarted, Unsure, Closed
<1>8. HandlerIsSound(kind[s], touched[s], q, u)
  BY <1>2, <1>4, <1>6 DEF WentTo, Written, By, HandlerIsSound, HeldStatus, StepAt, Before, Working
<1>9. Moves(s, undo[s][k].status, u.status, touched[s], touched[s])
  BY <1>2, <1>6 DEF Moves, Written, Statuses, Pending, Unstarted, Unsure, Closed
<1> QED BY <1>1, <1>2, <1>4, <1>7, <1>8, <1>9, HandlerMoves DEF WentTo, Written, Held

(* A handler that gives up before an effect has touched nothing if no step   *)
(* of it is done.                                                            *)
LEMMA Aborts ==
    ASSUME UndoIInv, NEW s \in Sources, NEW k \in Keys, request[s][k].pc \in Before \cup {"applied"},
           request[s][k].pc = "applied" => disk[s] = Stage(s, request[s][k].step - 1)
    PROVE  /\ AbortPC(s, k) \in {"fail", "review"} /\ AbortPC(s, k) \in PCs
           /\ AbortPC(s, k) = "fail" => touched[s] = "untouched"
<1>1. /\ request[s][k].step \in {1, 2} /\ (request[s][k].step = 2 => kind[s] = "moveover")
      /\ request[s][k].step = 2 => undo[s][k].step[1] = "verified"
      /\ request[s][k].pc # "applied" => touched[s] = IF request[s][k].step = 1 THEN "untouched" ELSE "partly"
  BY HandlerAt DEF Held, HandlerIsSound, Before, Working
<1>2. request[s][k].step = 2 => Completed(s, k) BY <1>1, Stages DEF Completed, StepRow
<1>3. request[s][k].pc = "applied" /\ request[s][k].step = 1 => touched[s] = "untouched"
  BY <1>1, PartsHold, Stages DEF Parts, DiskTells
<1> QED BY <1>1, <1>2, <1>3 DEF AbortPC, PCs

(* A step is denied.                                                         *)
LEMMA DenyStepStep ==
    ASSUME UndoIInv, NEW s \in Sources, NEW k \in Keys, DenyStep(s, k)
    PROVE  RowStep(s, k)
<1>1. request[s][k].pc = "next" /\ UNCHANGED <<files, conf, rows, procs>> BY DEF DenyStep, At
<1>2. /\ AbortPC(s, k) \in {"fail", "review"} /\ AbortPC(s, k) \in PCs
      /\ AbortPC(s, k) = "fail" => touched[s] = "untouched"
  BY <1>1, Aborts DEF Before
<1>3. PICK q : Went(q, s, k, AbortPC(s, k)) BY <1>2, Goes DEF DenyStep
<1>4. HandlerIsSound(kind[s], touched[s], q, undo[s][k])
  BY <1>1, <1>2, <1>3, HandlerAt DEF Went, Held, HandlerIsSound, HeldStatus, StepAt, Before, Working
<1>5. undo' = [undo EXCEPT ![s][k] = undo[s][k]] /\ conf' \in [Sources -> [Keys -> ConfRecs]]
      /\ undo[s][k] \in UndoRecs /\ UNCHANGED deleted
  BY <1>1, Kept, PartsHold DEF rows, Parts
<1>6. Moves(s, undo[s][k].status, undo[s][k].status, touched[s], touched[s]) BY DEF Moves
<1> QED BY <1>1, <1>3, <1>4, <1>5, <1>6, HandlerAt, HandlerMoves DEF Went, Held

(* A step cannot be planned.                                                 *)
LEMMA PlanFailsStep ==
    ASSUME UndoIInv, NEW s \in Sources, NEW k \in Keys, PlanFails(s, k)
    PROVE  RowStep(s, k)
<1>1. request[s][k].pc = "planning" /\ UNCHANGED <<files, conf, rows, procs>> BY DEF PlanFails, At
<1>2. /\ AbortPC(s, k) \in {"fail", "review"} /\ AbortPC(s, k) \in PCs
      /\ AbortPC(s, k) = "fail" => touched[s] = "untouched"
  BY <1>1, Aborts DEF Before
<1>3. PICK pc \in {AbortPC(s, k), "review"} : Goto(s, k, pc) BY DEF PlanFails
<1>7. pc \in {"fail", "review"} /\ pc \in PCs /\ (pc = "fail" => touched[s] = "untouched")
  BY <1>2, <1>3 DEF PCs
<1>8. PICK q : Went(q, s, k, pc) BY <1>3, <1>7, Goes
<1>4. HandlerIsSound(kind[s], touched[s], q, undo[s][k])
  BY <1>1, <1>7, <1>8, HandlerAt DEF Went, Held, HandlerIsSound, HeldStatus, StepAt, Before, Working
<1>5. undo' = [undo EXCEPT ![s][k] = undo[s][k]] /\ conf' \in [Sources -> [Keys -> ConfRecs]]
      /\ undo[s][k] \in UndoRecs /\ UNCHANGED deleted
  BY <1>1, Kept, PartsHold DEF rows, Parts
<1>6. Moves(s, undo[s][k].status, undo[s][k].status, touched[s], touched[s]) BY DEF Moves
<1> QED BY <1>1, <1>8, <1>4, <1>5, <1>6, HandlerAt, HandlerMoves DEF Went, Held

(* A step is planned.                                                        *)
LEMMA PlanStep ==
    ASSUME UndoIInv, NEW s \in Sources, NEW k \in Keys, Plan(s, k)
    PROVE  RowStep(s, k)
<1>1. /\ request[s][k].pc = "planning" /\ UNCHANGED <<files, procs>>
      /\ undo' = [undo EXCEPT ![s][k] = undo[s][k]] /\ conf' = Stale(conf) /\ UNCHANGED deleted
  BY DEF Plan, At, Commit
<1>2. PICK q : Went(q, s, k, "planned") BY Goes DEF Plan, PCs
<1>3. HandlerIsSound(kind[s], touched[s], q, undo[s][k])
  BY <1>1, <1>2, HandlerAt DEF Went, Held, HandlerIsSound, HeldStatus, StepAt, Before, Working
<1>4. conf' \in [Sources -> [Keys -> ConfRecs]] /\ undo[s][k] \in UndoRecs
  BY <1>1, StaleIs, PartsHold DEF Parts
<1>5. Moves(s, undo[s][k].status, undo[s][k].status, touched[s], touched[s]) BY DEF Moves
<1> QED BY <1>1, <1>2, <1>3, <1>4, <1>5, HandlerAt, HandlerMoves DEF Went, Held

(* The row of a step.                                                        *)
LEMMA PrepareStepStep ==
    ASSUME UndoIInv, NEW s \in Sources, NEW k \in Keys, PrepareStep(s, k)
    PROVE  RowStep(s, k)
<1> DEFINE i == request[s][k].step
<1>1. /\ request[s][k].pc = "next" /\ UNCHANGED <<files, procs>>
      /\ Commit(s, k, [undo[s][k] EXCEPT !.step[i] = "prepared"])
  BY DEF PrepareStep, At, MoveStep
<1>2. PICK q : Went(q, s, k, "planning") BY Goes DEF PrepareStep, PCs
<1>3. /\ HandlerIsSound(kind[s], touched[s], request[s][k], undo[s][k])
      /\ i \in {1, 2} /\ undo[s][k].step[i] = "absent" /\ undo[s][k].status = "executing"
      /\ touched[s] = IF i = 1 THEN "untouched" ELSE "partly"
      /\ i = 2 => kind[s] = "moveover" /\ undo[s][k].step[1] = "verified"
  BY <1>1, HandlerAt DEF Held, HandlerIsSound, HeldStatus, StepAt, Before, Working
<1> HIDE DEF i
<1>4. PICK u : StepSet(u, s, k, i, "prepared") BY <1>1, <1>3, MovesStep DEF Statuses, Pending, Unstarted, Unsure, Closed
<1>5. StepsAreSound(kind[s], touched[s], u)
  BY <1>3, <1>4, HandlerAt DEF StepsAreSound, StepSet, Written, Statuses, Pending, Unstarted, Unsure, Closed
<1>6. HandlerIsSound(kind[s], touched[s], q, u)
  BY <1>2, <1>3, <1>4 DEF Went, StepSet, Written, i, HandlerIsSound, HeldStatus, StepAt, Before, Working
<1>7. Moves(s, undo[s][k].status, u.status, touched[s], touched[s])
  BY <1>4 DEF Moves, StepSet, Written
<1> QED BY <1>1, <1>2, <1>4, <1>5, <1>6, <1>7, HandlerMoves DEF Went, StepSet, Written, Held

(* A step is authorized.                                                     *)
LEMMA AuthorizeStepStep ==
    ASSUME UndoIInv, NEW s \in Sources, NEW k \in Keys, AuthorizeStep(s, k)
    PROVE  RowStep(s, k)
<1> DEFINE i == request[s][k].step
<1>1. /\ request[s][k].pc = "planned" /\ UNCHANGED <<files, procs>>
      /\ Commit(s, k, [undo[s][k] EXCEPT !.step[i] = "authorized"])
  BY DEF AuthorizeStep, At, MoveStep
<1>2. PICK q : Went(q, s, k, "authorized") BY Goes DEF AuthorizeStep, PCs
<1>3. /\ HandlerIsSound(kind[s], touched[s], request[s][k], undo[s][k])
      /\ i \in {1, 2} /\ undo[s][k].step[i] = "prepared" /\ undo[s][k].status = "executing"
      /\ touched[s] = IF i = 1 THEN "untouched" ELSE "partly"
      /\ i = 2 => kind[s] = "moveover" /\ undo[s][k].step[1] = "verified"
  BY <1>1, HandlerAt DEF Held, HandlerIsSound, HeldStatus, StepAt, Before, Working
<1> HIDE DEF i
<1>4. PICK u : StepSet(u, s, k, i, "authorized") BY <1>1, <1>3, MovesStep DEF Statuses, Pending, Unstarted, Unsure, Closed
<1>5. StepsAreSound(kind[s], touched[s], u)
  BY <1>3, <1>4, HandlerAt DEF StepsAreSound, StepSet, Written, Statuses, Pending, Unstarted, Unsure, Closed
<1>6. HandlerIsSound(kind[s], touched[s], q, u)
  BY <1>2, <1>3, <1>4 DEF Went, StepSet, Written, i, HandlerIsSound, HeldStatus, StepAt, Before, Working
<1>7. Moves(s, undo[s][k].status, u.status, touched[s], touched[s])
  BY <1>4 DEF Moves, StepSet, Written
<1> QED BY <1>1, <1>2, <1>4, <1>5, <1>6, <1>7, HandlerMoves DEF Went, StepSet, Written, Held

(* A step is about to touch the files.                                       *)
LEMMA ExecuteStepStep ==
    ASSUME UndoIInv, NEW s \in Sources, NEW k \in Keys, ExecuteStep(s, k)
    PROVE  RowStep(s, k)
<1> DEFINE i == request[s][k].step
<1>1. /\ request[s][k].pc = "authorized" /\ UNCHANGED <<files, procs>>
      /\ Commit(s, k, [undo[s][k] EXCEPT !.step[i] = "executing"])
  BY DEF ExecuteStep, At, MoveStep
<1>2. PICK q : Went(q, s, k, "applying") BY Goes DEF ExecuteStep, PCs
<1>3. /\ HandlerIsSound(kind[s], touched[s], request[s][k], undo[s][k])
      /\ i \in {1, 2} /\ undo[s][k].step[i] = "authorized" /\ undo[s][k].status = "executing"
      /\ touched[s] = IF i = 1 THEN "untouched" ELSE "partly"
      /\ i = 2 => kind[s] = "moveover" /\ undo[s][k].step[1] = "verified"
  BY <1>1, HandlerAt DEF Held, HandlerIsSound, HeldStatus, StepAt, Before, Working
<1> HIDE DEF i
<1>4. PICK u : StepSet(u, s, k, i, "executing") BY <1>1, <1>3, MovesStep DEF Statuses, Pending, Unstarted, Unsure, Closed
<1>5. StepsAreSound(kind[s], touched[s], u)
  BY <1>3, <1>4, HandlerAt DEF StepsAreSound, StepSet, Written, Statuses, Pending, Unstarted, Unsure, Closed
<1>6. HandlerIsSound(kind[s], touched[s], q, u)
  BY <1>2, <1>3, <1>4 DEF Went, StepSet, Written, i, HandlerIsSound, HeldStatus, StepAt, Before, Working
<1>7. Moves(s, undo[s][k].status, u.status, touched[s], touched[s])
  BY <1>4 DEF Moves, StepSet, Written
<1> QED BY <1>1, <1>2, <1>4, <1>5, <1>6, <1>7, HandlerMoves DEF Went, StepSet, Written, Held

(* At an effect: the step, and what was touched before.                      *)
LEMMA AtEffect ==
    ASSUME UndoIInv, NEW s \in Sources, NEW k \in Keys,
           request[s][k].pc \in {"applying", "writing", "torn", "applied"}
    PROVE  LET i == request[s][k].step IN
           /\ Held(request[s][k]) /\ undo[s][k].status = "executing" /\ undo[s][k].owner = request[s][k].proc
           /\ i \in {1, 2} /\ i \in Steps(s) /\ (i = 2 => kind[s] = "moveover" /\ undo[s][k].step[1] = "verified")
           /\ undo[s][k].step[i] = "executing"
           /\ i = 1 => undo[s][k].step[2] = "absent"
           /\ request[s][k].pc \in {"applying", "writing"} => touched[s] = IF i = 1 THEN "untouched" ELSE "partly"
           /\ request[s][k].pc = "torn" => touched[s] = "partly"
           /\ request[s][k].pc \in {"writing", "torn"} => kind[s] = "overwrite" /\ i = 1
<1>1. Held(request[s][k]) BY DEF Held
<1>2. HandlerIsSound(kind[s], touched[s], request[s][k], undo[s][k]) BY <1>1, HandlerAt
<1>3. StepsAreSound(kind[s], touched[s], undo[s][k]) BY HandlerAt
<1> QED BY <1>1, <1>2, <1>3, Stages DEF HandlerIsSound, HeldStatus, StepAt, Before, Working, StepsAreSound

(* After an effect under way the row is as before: what was touched counts   *)
(* only once the step has ended.                                             *)
LEMMA RowDuringEffect ==
    ASSUME UndoIInv, NEW s \in Sources, NEW k \in Keys, NEW t \in {"partly", "wholly"},
           request[s][k].pc \in {"applying", "writing", "torn"}
    PROVE  StepsAreSound(kind[s], t, undo[s][k])
<1> DEFINE i == request[s][k].step
<1>1. /\ undo[s][k].status = "executing" /\ i \in {1, 2} /\ undo[s][k].step[i] = "executing"
      /\ i = 2 => kind[s] = "moveover" /\ undo[s][k].step[1] = "verified"
      /\ i = 1 => undo[s][k].step[2] = "absent"
  BY AtEffect
<1>2. StepsAreSound(kind[s], touched[s], undo[s][k]) BY HandlerAt
<1> QED BY <1>1, <1>2 DEF StepsAreSound, Pending, Unstarted, Unsure, Closed

(* When the effect is over, whatever it touched, the handler still holds the *)
(* row it holds.                                                             *)
LEMMA HandlerAfterEffect ==
    ASSUME NEW m, NEW t, NEW q, NEW u, q.pc = "applied", u.status = "executing", u.owner = q.proc,
           q.step \in {1, 2}, q.step = 2 => m = "moveover" /\ u.step[1] = "verified",
           u.step[q.step] = "executing"
    PROVE  HandlerIsSound(m, t, q, u)
<1>1. q.pc \in Working /\ q.pc \notin Before BY DEF Working, Before
<1>2. HeldStatus(q.pc) = "executing" /\ StepAt(q.pc) = "executing" BY DEF HeldStatus, StepAt
<1> QED BY <1>1, <1>2 DEF HandlerIsSound

(* The system renames or deletes.                                            *)
LEMMA ApplyWholeStep ==
    ASSUME UndoIInv, NEW s \in Sources, NEW k \in Keys, ApplyWhole(s, k)
    PROVE  RowStep(s, k)
<1> DEFINE i == request[s][k].step
<1>1. /\ request[s][k].pc = "applying" /\ disk[s] = Stage(s, i - 1) /\ UNCHANGED <<conf, rows, procs>>
      /\ Effect(s, Stage(s, i), PartDone(s, i)) /\ StepKind(s, i) # "rewrite"
  BY DEF ApplyWhole, At
<1>2. PICK q : Went(q, s, k, "applied") BY Goes DEF ApplyWhole, PCs
<1>3. /\ Held(request[s][k]) /\ undo[s][k].status = "executing" /\ i \in {1, 2} /\ i \in Steps(s)
      /\ i = 2 => kind[s] = "moveover"
      /\ touched[s] = IF i = 1 THEN "untouched" ELSE "partly"
  BY <1>1, AtEffect
<1>4. /\ Stage(s, i) \in DiskStates /\ PartDone(s, i) \in {"partly", "wholly"}
      /\ DiskTells(kind[s], Stage(s, i), PartDone(s, i))
  BY <1>3, Stages DEF DiskStates, DiskTells
<1>5. disk[s] # "edited"
  <2>1. Stage(s, i - 1) \in {"after", "mid", "before"} BY DEF Stage
  <2> QED BY <1>1, <2>1
<1>6. HandlerIsSound(kind[s], PartDone(s, i), q, undo[s][k])
  <2>1. q.pc = "applied" /\ q.proc = request[s][k].proc /\ q.step = i BY <1>2 DEF Went
  <2>2. /\ undo[s][k].status = "executing" /\ undo[s][k].owner = request[s][k].proc
        /\ i \in {1, 2} /\ (i = 2 => kind[s] = "moveover" /\ undo[s][k].step[1] = "verified")
        /\ undo[s][k].step[i] = "executing"
    BY <1>1, AtEffect
  <2> QED BY <2>1, <2>2, HandlerAfterEffect
<1>7. StepsAreSound(kind[s], PartDone(s, i), undo[s][k]) BY <1>1, <1>4, RowDuringEffect
<1>8. PartDone(s, i) \in Touched /\ touched[s] # "wholly" BY <1>3, <1>4 DEF Touched
<1> HIDE DEF i
<1> QED BY <1>1, <1>2, <1>3, <1>4, <1>5, <1>6, <1>7, <1>8, HandlerActs DEF Went

(* A file is looked at before it is rewritten.                               *)
LEMMA CheckExactStep ==
    ASSUME UndoIInv, NEW s \in Sources, NEW k \in Keys, CheckExact(s, k)
    PROVE  RowStep(s, k)
<1>1. /\ request[s][k].pc = "applying" /\ UNCHANGED <<files, conf, rows, procs>>
      /\ StepKind(s, request[s][k].step) = "rewrite"
  BY DEF CheckExact, At
<1>2. PICK q : Went(q, s, k, "writing") BY Goes DEF CheckExact, PCs
<1>3. kind[s] = "overwrite"
  <2>1. kind[s] \in Kinds BY PartsHold DEF Parts
  <2> QED BY <1>1, <2>1 DEF StepKind, Kinds
<1>4. HandlerIsSound(kind[s], touched[s], q, undo[s][k])
  BY <1>1, <1>2, <1>3, HandlerAt DEF Went, Held, HandlerIsSound, HeldStatus, StepAt, Before, Working
<1>5. undo' = [undo EXCEPT ![s][k] = undo[s][k]] /\ conf' \in [Sources -> [Keys -> ConfRecs]]
      /\ undo[s][k] \in UndoRecs /\ UNCHANGED deleted
  BY <1>1, Kept, PartsHold DEF rows, Parts
<1>6. Moves(s, undo[s][k].status, undo[s][k].status, touched[s], touched[s]) BY DEF Moves
<1> QED BY <1>1, <1>2, <1>4, <1>5, <1>6, HandlerAt, HandlerMoves DEF Went, Held

(* It is truncated.                                                          *)
LEMMA TruncateStep ==
    ASSUME UndoIInv, NEW s \in Sources, NEW k \in Keys, Truncate(s, k)
    PROVE  RowStep(s, k)
<1>1. /\ request[s][k].pc = "writing" /\ UNCHANGED <<conf, rows, procs>>
      /\ \E d \in {"torn"} \cup ({disk[s]} \cap {"edited"}) :
            Effect(s, d, "partly")
  BY DEF Truncate, At
<1>2. PICK q : Went(q, s, k, "torn") BY Goes DEF Truncate, PCs
<1>3. /\ Held(request[s][k]) /\ undo[s][k].status = "executing" /\ request[s][k].step = 1
      /\ kind[s] = "overwrite" /\ touched[s] \in {"untouched", "partly"}
  BY <1>1, AtEffect
<1>4. PICK d \in {"torn", "before", "edited"} : Effect(s, d, "partly") /\ d # "before"
  BY <1>1, <1>3, Stages
<1>5. d \in DiskStates /\ DiskTells(kind[s], d, "partly") /\ "partly" \in Touched
  BY <1>4 DEF DiskStates, DiskTells, Touched
<1>6. HandlerIsSound(kind[s], "partly", q, undo[s][k])
  BY <1>1, <1>2, <1>3, HandlerAt DEF Went, HandlerIsSound, HeldStatus, StepAt, Before, Working
<1>7. StepsAreSound(kind[s], "partly", undo[s][k]) BY <1>1, RowDuringEffect
<1> QED BY <1>1, <1>2, <1>3, <1>4, <1>5, <1>6, <1>7, HandlerActs DEF Went

(* It is written.                                                            *)
LEMMA RewriteStep ==
    ASSUME UndoIInv, NEW s \in Sources, NEW k \in Keys, Rewrite(s, k)
    PROVE  RowStep(s, k)
<1>1. /\ request[s][k].pc = "torn" /\ UNCHANGED <<conf, rows, procs>>
      /\ \E d \in {Stage(s, request[s][k].step)} \cup ({disk[s]} \cap {"edited"}) :
            Effect(s, d, PartDone(s, request[s][k].step))
  BY DEF Rewrite, At
<1>2. PICK q : Went(q, s, k, "applied") BY Goes DEF Rewrite, PCs
<1>3. /\ Held(request[s][k]) /\ undo[s][k].status = "executing" /\ request[s][k].step = 1
      /\ kind[s] = "overwrite" /\ touched[s] \in {"untouched", "partly"}
  BY <1>1, AtEffect
<1>4. PICK d \in {"torn", "before", "edited"} : Effect(s, d, "wholly") /\ d # "torn"
  BY <1>1, <1>3, Stages
<1>5. d \in DiskStates /\ DiskTells(kind[s], d, "wholly") /\ "wholly" \in Touched
  BY <1>4 DEF DiskStates, DiskTells, Touched
<1>6. HandlerIsSound(kind[s], "wholly", q, undo[s][k])
  BY <1>1, <1>2, <1>3, HandlerAt DEF Went, HandlerIsSound, HeldStatus, StepAt, Before, Working
<1>7. StepsAreSound(kind[s], "wholly", undo[s][k]) BY <1>1, RowDuringEffect
<1> QED BY <1>1, <1>2, <1>3, <1>4, <1>5, <1>6, <1>7, HandlerActs DEF Went

(* The effect raises.                                                        *)
LEMMA ApplyRaisesStep ==
    ASSUME UndoIInv, NEW s \in Sources, NEW k \in Keys, ApplyRaises(s, k)
    PROVE  RowStep(s, k)
<1> DEFINE i == request[s][k].step
           review == StepKind(s, i) = "remove"
           half == [request[s][k] EXCEPT !.pc = "applied"]
           q == [half EXCEPT !.review = review]
           table == [request EXCEPT ![s][k].pc = "applied"]
<1>1. /\ request[s][k].pc \in {"applying", "writing", "torn"} /\ UNCHANGED <<files, conf, rows, procs>>
      /\ request' = [table EXCEPT ![s][k].review = review]
  BY DEF ApplyRaises
<1>2. request[s][k] \in RequestRecs /\ request \in [Sources -> [Keys -> RequestRecs]]
  BY PartsHold DEF Parts, UndoIInv, UndoTypeOK, RequestRecs, Who
<1>3. /\ half \in RequestRecs /\ half.pc = "applied" /\ half.proc = request[s][k].proc /\ half.step = i
  BY <1>2 DEF RequestRecs, PCs
<1>4. review \in BOOLEAN OBVIOUS
<1> HIDE DEF review
<1>5. /\ q \in RequestRecs /\ q.pc = "applied" /\ q.proc = request[s][k].proc /\ q.step = i
  BY <1>3, <1>4 DEF RequestRecs
<1>6. table = [request EXCEPT ![s][k] = half] /\ table[s][k] = half
      /\ table \in [Sources -> [Keys -> RequestRecs]]
  BY <1>2, <1>3
<1>7. request' = [table EXCEPT ![s][k] = q] BY <1>1, <1>6
<1>8. request' = [request EXCEPT ![s][k] = q] BY <1>2, <1>6, <1>7
<1> HIDE DEF q, i
<1>9. Held(request[s][k]) BY <1>1 DEF Held
<1>10. HandlerIsSound(kind[s], touched[s], q, undo[s][k])
  <2>1. /\ undo[s][k].status = "executing" /\ undo[s][k].owner = request[s][k].proc
        /\ i \in {1, 2} /\ (i = 2 => kind[s] = "moveover" /\ undo[s][k].step[1] = "verified")
        /\ undo[s][k].step[i] = "executing"
    BY <1>1, AtEffect DEF i
  <2> QED BY <1>5, <2>1, HandlerAfterEffect
<1>11. undo' = [undo EXCEPT ![s][k] = undo[s][k]] /\ conf' \in [Sources -> [Keys -> ConfRecs]]
      /\ undo[s][k] \in UndoRecs /\ UNCHANGED deleted
  BY <1>1, Kept, PartsHold DEF rows, Parts
<1>12. Moves(s, undo[s][k].status, undo[s][k].status, touched[s], touched[s]) BY DEF Moves
<1> QED BY <1>1, <1>5, <1>8, <1>9, <1>10, <1>11, <1>12, HandlerAt, HandlerMoves

(* What an exact look at the files says of a step that may have had its      *)
(* effect.                                                                   *)
LEMMA LooksTell ==
    ASSUME UndoIInv, NEW s \in Sources, NEW k \in Keys, NEW i \in Steps(s)
    PROVE  /\ Observed(s, i) = "completed" =>
                touched[s] = IF i = 1 /\ kind[s] = "moveover" THEN "partly" ELSE "wholly"
           /\ Observed(s, i) = "unchanged" => disk[s] = Stage(s, i - 1)
           /\ Observed(s, i) = "unchanged" /\ i = 1 => touched[s] = "untouched"
<1>1. i \in {1, 2} /\ (i = 2 => kind[s] = "moveover") BY Stages
<1>2. DiskTells(kind[s], disk[s], touched[s]) BY PartsHold DEF Parts
<1>3. /\ Observed(s, i) = "completed" => disk[s] = Stage(s, i)
      /\ Observed(s, i) = "unchanged" => disk[s] = Stage(s, i - 1)
  BY DEF Observed
<1>4. CASE i = 1 BY <1>2, <1>3, <1>4, Stages DEF DiskTells
<1>5. CASE i = 2 BY <1>1, <1>2, <1>3, <1>5, Stages DEF DiskTells
<1> QED BY <1>1, <1>4, <1>5

(* The step of a handler is verified.                                        *)
LEMMA VerifyStepStep ==
    ASSUME UndoIInv, NEW s \in Sources, NEW k \in Keys, VerifyStep(s, k)
    PROVE  RowStep(s, k)
<1> DEFINE i == request[s][k].step
           review == request[s][k].review
<1>1. request[s][k].pc = "applied" /\ UNCHANGED <<files, procs>> BY DEF VerifyStep, At
<1>2. /\ Held(request[s][k]) /\ undo[s][k].status = "executing" /\ undo[s][k].owner = request[s][k].proc
      /\ i \in {1, 2} /\ i \in Steps(s) /\ (i = 2 => kind[s] = "moveover" /\ undo[s][k].step[1] = "verified")
      /\ undo[s][k].step[i] = "executing" /\ (i = 1 => undo[s][k].step[2] = "absent")
  BY <1>1, AtEffect
<1>3. StepsAreSound(kind[s], touched[s], undo[s][k]) BY HandlerAt
<1>4. CASE /\ Observed(s, i) = "completed" /\ MoveStep(s, k, By(s, k), i, "verified")
           /\ request' = [request EXCEPT
                   ![s][k].pc = IF review THEN "review"
                                ELSE IF i = Last(s) THEN "finish" ELSE "next",
                   ![s][k].step = IF review \/ i = Last(s) THEN i ELSE i + 1]
  <2> DEFINE pc == IF review THEN "review" ELSE IF i = Last(s) THEN "finish" ELSE "next"
             n == IF review \/ i = Last(s) THEN i ELSE i + 1
  <2>1. Last(s) = LastOf(kind[s]) BY Stages
  <2>2. /\ pc \in {"review", "finish", "next"} /\ pc \in PCs /\ n \in 0 .. 2
        /\ pc = "next" => i = 1 /\ n = 2 /\ kind[s] = "moveover"
        /\ pc = "finish" => i = LastOf(kind[s])
    BY <1>2, <2>1 DEF PCs, LastOf
  <2>3. request' = [request EXCEPT ![s][k].pc = pc, ![s][k].step = n] BY <1>4
  <2> HIDE DEF pc, n
  <2>4. PICK q : WentTo(q, s, k, pc, n) BY <2>2, <2>3, GoesTo
  <2> HIDE DEF i, review
  <2>5. PICK u : StepSet(u, s, k, i, "verified")
    BY <1>2, <1>4, MovesStep DEF MoveStep, Statuses, Pending, Unstarted, Unsure, Closed
  <2>6. touched[s] = IF i = 1 /\ kind[s] = "moveover" THEN "partly" ELSE "wholly" BY <1>2, <1>4, LooksTell
  <2>7. StepsAreSound(kind[s], touched[s], u)
    BY <1>2, <1>3, <2>5, <2>6 DEF StepsAreSound, StepSet, Written, Statuses, Pending, Unstarted, Unsure, Closed
  <2>8. HandlerIsSound(kind[s], touched[s], q, u)
    BY <1>2, <2>2, <2>4, <2>5, <2>6 DEF WentTo, StepSet, Written, HandlerIsSound, HeldStatus, StepAt, Before, Working
  <2>9. Moves(s, undo[s][k].status, u.status, touched[s], touched[s]) BY <2>5 DEF Moves, StepSet, Written
  <2> QED BY <1>1, <1>2, <2>4, <2>5, <2>7, <2>8, <2>9, HandlerMoves DEF WentTo, StepSet, Written
<1>5. CASE /\ Observed(s, i) = "unchanged" /\ MoveStep(s, k, By(s, k), i, "failed")
           /\ Goto(s, k, IF review THEN "review" ELSE AbortPC(s, k))
  <2> DEFINE pc == IF review THEN "review" ELSE AbortPC(s, k)
  <2>1. disk[s] = Stage(s, i - 1) /\ (i = 1 => touched[s] = "untouched") BY <1>2, <1>5, LooksTell
  <2>2. pc \in {"fail", "review"} /\ pc \in PCs /\ (pc = "fail" => touched[s] = "untouched")
    BY <1>1, <2>1, Aborts DEF PCs
  <2>3. Goto(s, k, pc) BY <1>5
  <2> HIDE DEF pc
  <2>4. PICK q : Went(q, s, k, pc) BY <2>2, <2>3, Goes
  <2> HIDE DEF i, review
  <2>5. PICK u : StepSet(u, s, k, i, "failed")
    BY <1>2, <1>5, MovesStep DEF MoveStep, Statuses, Pending, Unstarted, Unsure, Closed
  <2>6. StepsAreSound(kind[s], touched[s], u)
    BY <1>2, <1>3, <2>1, <2>5 DEF StepsAreSound, StepSet, Written, Statuses, Pending, Unstarted, Unsure, Closed
  <2>7. HandlerIsSound(kind[s], touched[s], q, u)
    BY <1>2, <2>2, <2>4, <2>5 DEF Went, StepSet, Written, HandlerIsSound, HeldStatus, StepAt, Before, Working
  <2>8. Moves(s, undo[s][k].status, u.status, touched[s], touched[s]) BY <2>5 DEF Moves, StepSet, Written
  <2> QED BY <1>1, <1>2, <2>4, <2>5, <2>6, <2>7, <2>8, HandlerMoves DEF Went, StepSet, Written
<1>6. CASE MoveStep(s, k, By(s, k), i, "uncertain") /\ Goto(s, k, "unsure")
  <2>1. PICK q : Went(q, s, k, "unsure") BY <1>6, Goes DEF PCs
  <2> HIDE DEF i, review
  <2>2. PICK u : StepSet(u, s, k, i, "uncertain")
    BY <1>2, <1>6, MovesStep DEF MoveStep, Statuses, Pending, Unstarted, Unsure, Closed
  <2>3. StepsAreSound(kind[s], touched[s], u)
    BY <1>2, <1>3, <2>2 DEF StepsAreSound, StepSet, Written, Statuses, Pending, Unstarted, Unsure, Closed
  <2>4. HandlerIsSound(kind[s], touched[s], q, u)
    BY <1>2, <2>1, <2>2 DEF i, Went, StepSet, Written, HandlerIsSound, HeldStatus, StepAt, Before, Working
  <2>5. Moves(s, undo[s][k].status, u.status, touched[s], touched[s]) BY <2>2 DEF Moves, StepSet, Written
  <2> QED BY <1>1, <1>2, <2>1, <2>2, <2>3, <2>4, <2>5, HandlerMoves DEF Went, StepSet, Written
<1>7. \/ /\ Observed(s, i) = "completed" /\ MoveStep(s, k, By(s, k), i, "verified")
         /\ request' = [request EXCEPT
                   ![s][k].pc = IF review THEN "review"
                                ELSE IF i = Last(s) THEN "finish" ELSE "next",
                   ![s][k].step = IF review \/ i = Last(s) THEN i ELSE i + 1]
      \/ /\ Observed(s, i) = "unchanged" /\ MoveStep(s, k, By(s, k), i, "failed")
         /\ Goto(s, k, IF review THEN "review" ELSE AbortPC(s, k))
      \/ MoveStep(s, k, By(s, k), i, "uncertain") /\ Goto(s, k, "unsure")
  BY DEF VerifyStep, Seen
<1> QED BY <1>4, <1>5, <1>6, <1>7

(* It needs a review.                                                        *)
LEMMA ReviewStepStep ==
    ASSUME UndoIInv, NEW s \in Sources, NEW k \in Keys, ReviewStep(s, k)
    PROVE  RowStep(s, k)
<1> DEFINE i == request[s][k].step
<1>1. /\ request[s][k].pc = "unsure" /\ UNCHANGED <<files, procs>>
      /\ Commit(s, k, [undo[s][k] EXCEPT !.step[i] = "needs_review"])
  BY DEF ReviewStep, At, MoveStep
<1>2. PICK q : Went(q, s, k, "review") BY Goes DEF ReviewStep, PCs
<1>3. /\ HandlerIsSound(kind[s], touched[s], request[s][k], undo[s][k])
      /\ i \in {1, 2} /\ undo[s][k].step[i] = "uncertain" /\ undo[s][k].status = "executing"
      /\ i = 2 => kind[s] = "moveover" /\ undo[s][k].step[1] = "verified"
  BY <1>1, HandlerAt DEF Held, HandlerIsSound, HeldStatus, StepAt, Before, Working
<1> HIDE DEF i
<1>4. PICK u : StepSet(u, s, k, i, "needs_review")
  BY <1>1, <1>3, MovesStep DEF Statuses, Pending, Unstarted, Unsure, Closed
<1>5. StepsAreSound(kind[s], touched[s], u)
  BY <1>3, <1>4, HandlerAt DEF StepsAreSound, StepSet, Written, Statuses, Pending, Unstarted, Unsure, Closed
<1>6. HandlerIsSound(kind[s], touched[s], q, u)
  BY <1>2, <1>3, <1>4 DEF Went, StepSet, Written, HandlerIsSound, HeldStatus, StepAt, Before, Working
<1>7. Moves(s, undo[s][k].status, u.status, touched[s], touched[s])
  BY <1>4 DEF Moves, StepSet, Written
<1> QED BY <1>1, <1>2, <1>4, <1>5, <1>6, <1>7, HandlerMoves DEF Went, StepSet, Written, Held

(* A handler that is done with its row leaves it.                            *)
LEMMA HandlerEnds ==
    ASSUME UndoIInv, NEW s \in Sources, NEW k \in Keys, NEW u \in UndoRecs,
           undo' = [undo EXCEPT ![s][k] = u], conf' \in [Sources -> [Keys -> ConfRecs]],
           UNCHANGED <<files, procs, deleted>>, Held(request[s][k]), EndRequest(s, k),
           StepsAreSound(kind[s], touched[s], u),
           Moves(s, undo[s][k].status, u.status, touched[s], touched[s])
    PROVE  RowStep(s, k)
BY IdleIs, HandlerMoves DEF EndRequest

(* The undo is done.                                                         *)
LEMMA FinishUndoStep ==
    ASSUME UndoIInv, NEW s \in Sources, NEW k \in Keys, FinishUndo(s, k)
    PROVE  RowStep(s, k)
<1>1. /\ request[s][k].pc = "finish" /\ MoveUndo(s, k, By(s, k), "verified") /\ UNCHANGED <<files, procs>>
      /\ EndRequest(s, k)
  BY DEF FinishUndo, At
<1>2. PICK u : Written(u, s, k, "verified", By(s, k)) /\ u.step = undo[s][k].step
  BY <1>1, MovesUndo DEF Statuses, Pending, Unstarted, Unsure, Closed
<1>3. undo[s][k].status = "executing" /\ undo[s][k].step[LastOf(kind[s])] = "verified"
  BY <1>1, HandlerAt DEF Held, HandlerIsSound, HeldStatus
<1>4. StepsAreSound(kind[s], touched[s], undo[s][k]) BY HandlerAt
<1>5. touched[s] = "wholly"
  BY <1>3, <1>4 DEF StepsAreSound, LastOf, Pending, Unstarted, Unsure, Closed
<1>6. StepsAreSound(kind[s], touched[s], u)
  BY <1>2, <1>3, <1>4, <1>5 DEF StepsAreSound, Written, Statuses, Pending, Unstarted, Unsure, Closed
<1>7. Moves(s, undo[s][k].status, u.status, touched[s], touched[s])
  BY <1>2, <1>3, <1>5 DEF Moves, Written, Statuses, Pending, Unstarted, Unsure, Closed
<1> QED BY <1>1, <1>2, <1>6, <1>7, HandlerEnds DEF Written, Held

(* The steps that did not begin are cancelled.                               *)
LEMMA CancelStepStep ==
    ASSUME UndoIInv, NEW s \in Sources, NEW k \in Keys, NEW i \in Steps(s), CancelStep(s, k, i)
    PROVE  RowStep(s, k)
<1>1. /\ request[s][k].pc \in {"fail", "review"} /\ undo[s][k].step[i] \in Unstarted
      /\ Commit(s, k, [undo[s][k] EXCEPT !.step[i] = "cancelled"])
      /\ UNCHANGED <<files, request, procs>>
  BY DEF CancelStep, MoveStep, StepRow
<1>2. i \in {1, 2} /\ (i = 2 => kind[s] = "moveover") BY Stages
<1>3. PICK u : StepSet(u, s, k, i, "cancelled")
  BY <1>1, <1>2, MovesStep DEF Statuses, Pending, Unstarted, Unsure, Closed
<1>4. /\ HandlerIsSound(kind[s], touched[s], request[s][k], undo[s][k]) /\ undo[s][k].status = "executing"
  BY <1>1, HandlerAt DEF Held, HandlerIsSound, HeldStatus
<1>5. StepsAreSound(kind[s], touched[s], u)
  BY <1>1, <1>2, <1>3, <1>4, HandlerAt DEF StepsAreSound, StepSet, Written, Statuses, Pending, Unstarted, Unsure, Closed
<1>6. HandlerIsSound(kind[s], touched[s], request[s][k], u)
  BY <1>1, <1>3, <1>4 DEF StepSet, Written, HandlerIsSound, Before, Working
<1>7. Moves(s, undo[s][k].status, u.status, touched[s], touched[s])
  BY <1>3 DEF Moves, StepSet, Written
<1>8. request' = [request EXCEPT ![s][k] = request[s][k]] /\ request[s][k] \in RequestRecs
  BY <1>1, Kept, PartsHold DEF Parts
<1> QED BY <1>1, <1>3, <1>5, <1>6, <1>7, <1>8, HandlerMoves DEF StepSet, Written, Held

(* The undo fails without an effect.                                         *)
LEMMA FailUndoStep ==
    ASSUME UndoIInv, NEW s \in Sources, NEW k \in Keys, FailUndo(s, k)
    PROVE  RowStep(s, k)
<1>1. /\ request[s][k].pc = "fail" /\ UNCHANGED <<files, procs>> /\ EndRequest(s, k)
      /\ \E to \in {"cancelled", "failed"} : MoveUndo(s, k, By(s, k), to)
  BY DEF FailUndo, At
<1>2. PICK to \in {"cancelled", "failed"} : MoveUndo(s, k, By(s, k), to) BY <1>1
<1>3. PICK u : Written(u, s, k, to, By(s, k)) /\ u.step = undo[s][k].step
  BY <1>2, MovesUndo DEF Statuses, Pending, Unstarted, Unsure, Closed
<1>4. undo[s][k].status = "executing" /\ touched[s] = "untouched"
  BY <1>1, HandlerAt DEF Held, HandlerIsSound, HeldStatus
<1>5. StepsAreSound(kind[s], touched[s], u)
  BY <1>3, <1>4, HandlerAt DEF StepsAreSound, Written, Statuses, Pending, Unstarted, Unsure, Closed
<1>6. Moves(s, undo[s][k].status, u.status, touched[s], touched[s])
  BY <1>3, <1>4 DEF Moves, Written, Statuses, Pending, Unstarted, Unsure, Closed
<1> QED BY <1>1, <1>3, <1>5, <1>6, HandlerEnds DEF Written, Held

(* It is left for a review.                                                  *)
LEMMA SuspectUndoStep ==
    ASSUME UndoIInv, NEW s \in Sources, NEW k \in Keys, SuspectUndo(s, k)
    PROVE  RowStep(s, k)
<1>1. request[s][k].pc = "review" /\ MoveUndo(s, k, By(s, k), "uncertain") /\ UNCHANGED <<files, procs>>
  BY DEF SuspectUndo, At
<1>2. PICK u : Written(u, s, k, "uncertain", By(s, k)) /\ u.step = undo[s][k].step
  BY <1>1, MovesUndo DEF Statuses, Pending, Unstarted, Unsure, Closed
<1>3. PICK q : Went(q, s, k, "closing") BY Goes DEF SuspectUndo, PCs
<1>4. undo[s][k].status = "executing" BY <1>1, HandlerAt DEF Held, HandlerIsSound, HeldStatus
<1>5. StepsAreSound(kind[s], touched[s], u)
  BY <1>2, <1>4, HandlerAt DEF StepsAreSound, Written, Statuses, Pending, Unstarted, Unsure, Closed
<1>6. HandlerIsSound(kind[s], touched[s], q, u)
  BY <1>2, <1>3 DEF Went, Written, By, HandlerIsSound, HeldStatus, Before, Working
<1>7. Moves(s, undo[s][k].status, u.status, touched[s], touched[s])
  BY <1>2, <1>4 DEF Moves, Written, Statuses, Pending, Unstarted, Unsure, Closed
<1> QED BY <1>1, <1>2, <1>3, <1>5, <1>6, <1>7, HandlerMoves DEF Went, Written, Held

(* The review is there.                                                      *)
LEMMA ReviewUndoStep ==
    ASSUME UndoIInv, NEW s \in Sources, NEW k \in Keys, ReviewUndo(s, k)
    PROVE  RowStep(s, k)
<1>1. /\ request[s][k].pc = "closing" /\ MoveUndo(s, k, By(s, k), "needs_review") /\ UNCHANGED <<files, procs>>
      /\ EndRequest(s, k)
  BY DEF ReviewUndo, At
<1>2. PICK u : Written(u, s, k, "needs_review", By(s, k)) /\ u.step = undo[s][k].step
  BY <1>1, MovesUndo DEF Statuses, Pending, Unstarted, Unsure, Closed
<1>3. undo[s][k].status = "uncertain" BY <1>1, HandlerAt DEF Held, HandlerIsSound, HeldStatus
<1>4. StepsAreSound(kind[s], touched[s], u)
  BY <1>2, <1>3, HandlerAt DEF StepsAreSound, Written, Statuses, Pending, Unstarted, Unsure, Closed
<1>5. Moves(s, undo[s][k].status, u.status, touched[s], touched[s])
  BY <1>2, <1>3 DEF Moves, Written, Statuses, Pending, Unstarted, Unsure, Closed
<1> QED BY <1>1, <1>2, <1>4, <1>5, HandlerEnds DEF Written, Held

(* A handler fails anywhere.                                                 *)
LEMMA HandlerFailsStep ==
    ASSUME UndoIInv, NEW s \in Sources, NEW k \in Keys, HandlerFails(s, k)
    PROVE  RowStep(s, k)
<1>1. EndRequest(s, k) /\ UNCHANGED <<files, rows, conf, procs>> BY DEF HandlerFails
<1>2. undo' = [undo EXCEPT ![s][k] = undo[s][k]] /\ conf' \in [Sources -> [Keys -> ConfRecs]]
      /\ undo[s][k] \in UndoRecs /\ UNCHANGED deleted
  BY <1>1, Kept, PartsHold DEF rows, Parts
<1>3. Moves(s, undo[s][k].status, undo[s][k].status, touched[s], touched[s]) BY DEF Moves
<1>4. CASE Held(request[s][k]) BY <1>1, <1>2, <1>3, <1>4, HandlerAt, HandlerEnds
<1>5. CASE ~Held(request[s][k]) BY <1>1, <1>2, <1>5, IdleIs, RequestWaits DEF EndRequest, Held
<1> QED BY <1>4, <1>5

------------------------------------------------------------------------------
(* The steps of a recovery.                                                  *)

(* A recovery has its row to itself.                                         *)
LEMMA RecoveryAt ==
    ASSUME UndoIInv, NEW s \in Sources, NEW k \in Keys, recovery[s][k].pc # "idle"
    PROVE  /\ recovery[s][k].proc \in live /\ undo[s][k].owner = recovery[s][k].proc
           /\ undo[s][k].status \in Pending /\ ~Held(request[s][k])
BY PartsHold DEF Parts, RowIsSound

(* What it found of a step goes into the row.                                *)
LEMMA StepFound ==
    ASSUME UndoIInv, NEW s \in Sources, NEW k \in Keys, NEW i \in Steps(s), NEW to, NEW u,
           undo[s][k].status \in Pending, undo[s][k].step[i] \in Pending, StepSet(u, s, k, i, to),
           to \in Unsure \cup Closed \cup {"verified"},
           to = "verified" => touched[s] = IF i = 1 /\ kind[s] = "moveover" THEN "partly" ELSE "wholly",
           to \in Closed /\ i = 1 => touched[s] = "untouched"
    PROVE  StepsAreSound(kind[s], touched[s], u)
<1>1. StepsAreSound(kind[s], touched[s], undo[s][k]) BY HandlerAt
<1>2. i \in {1, 2} /\ (i = 2 => kind[s] = "moveover") BY Stages
<1>3. u.status = undo[s][k].status /\ u.step[i] = to /\ (\A j \in {1, 2} : j # i => u.step[j] = undo[s][k].step[j])
  BY DEF StepSet, Written
<1>4. CASE i = 1
  <2>1. undo[s][k].step[2] = "absent" /\ undo[s][k].status \notin Unstarted
    BY <1>1, <1>4 DEF StepsAreSound, Pending, Unstarted, Unsure
  <2> QED BY <1>1, <1>3, <1>4, <2>1 DEF StepsAreSound, Pending, Unstarted, Unsure, Closed
<1>5. CASE i = 2 BY <1>1, <1>2, <1>3, <1>5 DEF StepsAreSound, Pending, Unstarted, Unsure, Closed
<1> QED BY <1>2, <1>4, <1>5

(* Where a recovery goes.                                                    *)
Recovers(r, s, k) ==
    /\ r \in RecoveryRecs /\ recovery' = [recovery EXCEPT ![s][k] = r]
    /\ r.proc = recovery[s][k].proc
LEMMA StepRecoveredIs ==
    ASSUME UndoIInv, NEW s \in Sources, NEW k \in Keys, NEW i, StepRecovered(s, k, i)
    PROVE  \E r : Recovers(r, s, k)
<1> DEFINE rest == recovery[s][k].todo \ {i}
           half == [recovery[s][k] EXCEPT !.todo = rest]
           r == [half EXCEPT !.pc = "steps"]
           table == [recovery EXCEPT ![s][k].todo = rest]
<1>1. recovery \in [Sources -> [Keys -> RecoveryRecs]] /\ recovery[s][k] \in RecoveryRecs
  BY PartsHold DEF Parts, UndoIInv, UndoTypeOK, RecoveryRecs, Who
<1>2. rest \in SUBSET {1, 2} BY <1>1 DEF RecoveryRecs
<1>3. recovery' = [table EXCEPT ![s][k].pc = "steps"] BY <1>1 DEF StepRecovered
<1> HIDE DEF rest
<1>4. half \in RecoveryRecs /\ half.proc = recovery[s][k].proc BY <1>1, <1>2 DEF RecoveryRecs
<1>5. r \in RecoveryRecs /\ r.proc = recovery[s][k].proc BY <1>4 DEF RecoveryRecs
<1>6. table = [recovery EXCEPT ![s][k] = half] /\ table[s][k] = half
      /\ table \in [Sources -> [Keys -> RecoveryRecs]]
  BY <1>1, <1>4
<1>7. recovery' = [table EXCEPT ![s][k] = r] BY <1>3, <1>6
<1>8. recovery' = [recovery EXCEPT ![s][k] = r] BY <1>1, <1>6, <1>7
<1> QED BY <1>5, <1>8 DEF Recovers

(* A recovery stops at a step it knows nothing of.                           *)
LEMMA RecoveryGoes ==
    ASSUME UndoIInv, NEW s \in Sources, NEW k \in Keys, recovery' = [recovery EXCEPT ![s][k].pc = "unsure"]
    PROVE  \E r : Recovers(r, s, k)
<1> DEFINE r == [recovery[s][k] EXCEPT !.pc = "unsure"]
<1>1. recovery \in [Sources -> [Keys -> RecoveryRecs]] /\ recovery[s][k] \in RecoveryRecs
  BY PartsHold DEF Parts, UndoIInv, UndoTypeOK, RecoveryRecs, Who
<1>2. r \in RecoveryRecs /\ r.proc = recovery[s][k].proc BY <1>1 DEF RecoveryRecs
<1>3. recovery' = [recovery EXCEPT ![s][k] = r] BY <1>1
<1> QED BY <1>2, <1>3 DEF Recovers

(* A recovery that ends.                                                     *)
LEMMA NotRecoveringIs == NotRecovering \in RecoveryRecs /\ NotRecovering.pc = "idle"
BY DEF NotRecovering, RecoveryRecs, Who

(* A recovery writes what it found of a step.                                *)
LEMMA RecoveryWrites ==
    ASSUME UndoIInv, NEW s \in Sources, NEW k \in Keys, NEW i \in Steps(s), NEW to, NEW r,
           recovery[s][k].pc # "idle", undo[s][k].step[i] \in Pending,
           MoveStep(s, k, recovery[s][k].proc, i, to), Recovers(r, s, k),
           UNCHANGED <<files, request, scan, live, gone>>,
           to \in Unsure \cup Closed \cup {"verified"},
           to = "verified" => touched[s] = IF i = 1 /\ kind[s] = "moveover" THEN "partly" ELSE "wholly",
           to \in Closed /\ i = 1 => touched[s] = "untouched"
    PROVE  RowStep(s, k)
<1>1. i \in {1, 2} BY Stages
<1>2. to \in Statuses /\ Commit(s, k, [undo[s][k] EXCEPT !.step[i] = to])
  BY DEF MoveStep, Statuses, Pending, Unstarted, Unsure, Closed
<1>3. PICK u : StepSet(u, s, k, i, to) BY <1>1, <1>2, MovesStep
<1>4. /\ recovery[s][k].proc \in live /\ undo[s][k].owner = recovery[s][k].proc
      /\ undo[s][k].status \in Pending /\ ~Held(request[s][k])
  BY RecoveryAt
<1>5. StepsAreSound(kind[s], touched[s], u) BY <1>3, <1>4, StepFound
<1>6. Moves(s, undo[s][k].status, u.status, touched[s], touched[s]) BY <1>3 DEF Moves, StepSet, Written
<1>7. ScanShrinks BY Kept DEF ScanShrinks
<1> QED BY <1>3, <1>4, <1>5, <1>6, <1>7, RecoveryMoves DEF Recovers, StepSet, Written

(* A recovery leaves the row as it is.                                       *)
LEMMA RecoveryLeaves ==
    ASSUME UndoIInv, NEW s \in Sources, NEW k \in Keys, NEW r \in RecoveryRecs,
           recovery[s][k].pc # "idle", r.pc = "idle" \/ r.proc = recovery[s][k].proc,
           recovery' = [recovery EXCEPT ![s][k] = r],
           UNCHANGED <<files, request, scan, live, gone, conf, rows>>
    PROVE  RowStep(s, k)
<1>1. /\ recovery[s][k].proc \in live /\ undo[s][k].owner = recovery[s][k].proc
      /\ undo[s][k].status \in Pending /\ ~Held(request[s][k])
  BY RecoveryAt
<1>2. /\ undo' = [undo EXCEPT ![s][k] = undo[s][k]] /\ conf' \in [Sources -> [Keys -> ConfRecs]]
      /\ ScanShrinks /\ UNCHANGED deleted /\ undo[s][k] \in UndoRecs
  BY Kept, PartsHold DEF rows, ScanShrinks, Parts
<1>3. Moves(s, undo[s][k].status, undo[s][k].status, touched[s], touched[s]) BY DEF Moves
<1> QED BY <1>1, <1>2, <1>3, HandlerAt, RecoveryMoves

(* A step is recovered.                                                      *)
LEMMA RecoverStepStep ==
    ASSUME UndoIInv, NEW s \in Sources, NEW k \in Keys, NEW i \in Steps(s), RecoverStep(s, k, i)
    PROVE  RowStep(s, k)
<1> DEFINE o == recovery[s][k].proc
<1>1. recovery[s][k].pc = "steps" /\ UNCHANGED <<files, request, scan, live, gone>>
  BY DEF RecoverStep, Recovering
<1>2. undo[s][k].status \in Pending /\ StepsAreSound(kind[s], touched[s], undo[s][k]) BY <1>1, RecoveryAt, HandlerAt
<1>3. CASE undo[s][k].step[i] \in Unstarted /\ MoveStep(s, k, o, i, "cancelled") /\ StepRecovered(s, k, i)
  <2>1. PICK r : Recovers(r, s, k) BY <1>3, StepRecoveredIs
  <2>2. i = 1 => touched[s] = "untouched" BY <1>2, <1>3 DEF StepsAreSound
  <2>3. "cancelled" \in Unsure \cup Closed \cup {"verified"} /\ undo[s][k].step[i] \in Pending
    BY <1>3 DEF Closed, Pending
  <2> QED BY <1>1, <1>3, <2>1, <2>2, <2>3, RecoveryWrites
<1>4. ASSUME NEW seen \in {"completed", "unchanged"}, seen = Observed(s, i), undo[s][k].step[i] \in Unsure,
             MoveStep(s, k, o, i, IF seen = "completed" THEN "verified" ELSE "failed"), StepRecovered(s, k, i)
      PROVE  RowStep(s, k)
  <2> DEFINE to == IF seen = "completed" THEN "verified" ELSE "failed"
  <2>1. PICK r : Recovers(r, s, k) BY <1>4, StepRecoveredIs
  <2>2. /\ to = "verified" => touched[s] = IF i = 1 /\ kind[s] = "moveover" THEN "partly" ELSE "wholly"
        /\ to \in Closed /\ i = 1 => touched[s] = "untouched"
    BY <1>4, LooksTell DEF Closed
  <2>3. to \in Unsure \cup Closed \cup {"verified"} /\ undo[s][k].step[i] \in Pending
    BY <1>4 DEF Closed, Pending
  <2>4. MoveStep(s, k, o, i, to) BY <1>4
  <2> HIDE DEF to
  <2> QED BY <1>1, <2>1, <2>2, <2>3, <2>4, RecoveryWrites
<1>5. CASE /\ undo[s][k].step[i] = "executing" /\ MoveStep(s, k, o, i, "uncertain")
           /\ recovery' = [recovery EXCEPT ![s][k].pc = "unsure"]
  <2>1. PICK r : Recovers(r, s, k) BY <1>5, RecoveryGoes
  <2>2. /\ "uncertain" \in Unsure \cup Closed \cup {"verified"} /\ "uncertain" \notin Closed
        /\ undo[s][k].step[i] \in Pending
    BY <1>5 DEF Closed, Pending, Unsure
  <2> QED BY <1>1, <1>5, <2>1, <2>2, RecoveryWrites
<1>6. CASE /\ undo[s][k].step[i] = "uncertain" /\ MoveStep(s, k, o, i, "needs_review") /\ StepRecovered(s, k, i)
  <2>1. PICK r : Recovers(r, s, k) BY <1>6, StepRecoveredIs
  <2>2. /\ "needs_review" \in Unsure \cup Closed \cup {"verified"} /\ "needs_review" \notin Closed
        /\ undo[s][k].step[i] \in Pending
    BY <1>6 DEF Closed, Pending, Unsure
  <2> QED BY <1>1, <1>6, <2>1, <2>2, RecoveryWrites
<1>7. CASE StepRecovered(s, k, i) /\ UNCHANGED <<conf, rows>>
  <2>1. PICK r : Recovers(r, s, k) BY <1>7, StepRecoveredIs
  <2> QED BY <1>1, <1>7, <2>1, RecoveryLeaves DEF Recovers
<1>8. \A s1 \in Sources, i1 \in {1, 2} : Observed(s1, i1) \in {"completed", "unchanged", "unknown"} BY DEF Observed
<1>9. \/ undo[s][k].step[i] \in Unstarted /\ MoveStep(s, k, o, i, "cancelled") /\ StepRecovered(s, k, i)
      \/ /\ undo[s][k].step[i] \in Unsure
         /\ \E read, mayDelete \in BOOLEAN :
               LET seen    == IF read THEN Observed(s, i) ELSE "unknown"
                   trusted == seen # "unknown" /\ CleanedUp(s, i, seen, mayDelete) IN
               \/ /\ trusted
                  /\ MoveStep(s, k, o, i, IF seen = "completed" THEN "verified" ELSE "failed")
                  /\ StepRecovered(s, k, i)
               \/ /\ ~trusted /\ StepRow(s, k, i) = "executing"
                  /\ MoveStep(s, k, o, i, "uncertain")
                  /\ recovery' = [recovery EXCEPT ![s][k].pc = "unsure"]
               \/ /\ ~trusted /\ StepRow(s, k, i) = "uncertain"
                  /\ MoveStep(s, k, o, i, "needs_review")
                  /\ StepRecovered(s, k, i)
               \/ /\ ~trusted /\ StepRow(s, k, i) = "needs_review"
                  /\ StepRecovered(s, k, i)
                  /\ UNCHANGED <<conf, rows>>
  BY DEF RecoverStep, StepRow
<1>10. ASSUME NEW read \in BOOLEAN, undo[s][k].step[i] \in Unsure,
              LET seen == IF read THEN Observed(s, i) ELSE "unknown" IN
              /\ seen # "unknown"
              /\ MoveStep(s, k, o, i, IF seen = "completed" THEN "verified" ELSE "failed")
              /\ StepRecovered(s, k, i)
       PROVE  RowStep(s, k)
  <2>1. i \in {1, 2} BY Stages
  <2>2. Observed(s, i) \in {"completed", "unchanged"} /\ read BY <1>8, <1>10, <2>1
  <2> DEFINE seen == Observed(s, i)
  <2>3. seen \in {"completed", "unchanged"} /\ MoveStep(s, k, o, i, IF seen = "completed" THEN "verified" ELSE "failed")
        /\ StepRecovered(s, k, i)
    BY <1>10, <2>2
  <2> HIDE DEF seen
  <2>4. seen = Observed(s, i) BY DEF seen
  <2> QED BY <1>4, <1>10, <2>3, <2>4
<1> QED BY <1>3, <1>5, <1>6, <1>7, <1>9, <1>10 DEF StepRow

(* A step nobody could tell about waits for the user.                        *)
LEMMA RecoverUnsureStepStep ==
    ASSUME UndoIInv, NEW s \in Sources, NEW k \in Keys, NEW i \in Steps(s), RecoverUnsureStep(s, k, i)
    PROVE  RowStep(s, k)
<1>1. /\ recovery[s][k].pc = "unsure" /\ UNCHANGED <<files, request, scan, live, gone>>
      /\ MoveStep(s, k, recovery[s][k].proc, i, "needs_review") /\ StepRecovered(s, k, i)
  BY DEF RecoverUnsureStep, Recovering
<1>2. PICK r : Recovers(r, s, k) BY <1>1, StepRecoveredIs
<1>3. undo[s][k].step[i] \in Pending
  <2>1. undo[s][k].step[i] \in Statuses \cup {"absent"} BY PartsHold, Stages DEF Parts, StepRows
  <2> QED BY <1>1, <2>1 DEF MoveStep, Allowed, StepRow, Statuses, Pending, Unstarted, Unsure, Closed
<1>4. "needs_review" \in Unsure \cup Closed \cup {"verified"} /\ "needs_review" \notin Closed BY DEF Unsure, Closed
<1> QED BY <1>1, <1>2, <1>3, <1>4, RecoveryWrites

(* The undo follows its steps.                                               *)
LEMMA RecoverUndoStep ==
    ASSUME UndoIInv, NEW s \in Sources, NEW k \in Keys, RecoverUndo(s, k)
    PROVE  RowStep(s, k)
<1> DEFINE o == recovery[s][k].proc
           status == undo[s][k].status
<1>1. recovery[s][k].pc = "steps" /\ UNCHANGED <<files, request, scan, live, gone>>
  BY DEF RecoverUndo, Recovering
<1>2. status \in Pending /\ StepsAreSound(kind[s], touched[s], undo[s][k]) /\ ~Held(request[s][k])
      /\ o \in live /\ undo[s][k].owner = o
  BY <1>1, RecoveryAt, HandlerAt
<1>3. AllVerified(s, k) => touched[s] = "wholly"
  BY <1>2, Stages DEF AllVerified, StepsAreSound, StepRow
<1>4. NoStepBegan(s, k) => touched[s] = "untouched"
  BY <1>2, Stages DEF NoStepBegan, StepsAreSound, StepRow, Closed
<1>5. ASSUME NEW to \in Statuses, MoveUndo(s, k, o, to), NEW r \in RecoveryRecs,
             recovery' = [recovery EXCEPT ![s][k] = r],
             r.pc = "idle" \/ (r.proc = o /\ to \in Pending),
             Moves(s, status, to, touched[s], touched[s]), to \notin Unstarted
      PROVE  RowStep(s, k)
  <2>1. PICK u : Written(u, s, k, to, o) /\ u.step = undo[s][k].step BY <1>5, MovesUndo
  <2>2. StepsAreSound(kind[s], touched[s], u)
    BY <1>2, <1>5, <2>1 DEF StepsAreSound, Written, Moves, Statuses, Pending, Unstarted, Unsure, Closed
  <2>3. ScanShrinks BY <1>1, Kept DEF ScanShrinks
  <2> QED BY <1>1, <1>2, <1>5, <2>1, <2>2, <2>3, RecoveryMoves DEF Written
<1>6. ASSUME NEW to \in Statuses, MoveUndo(s, k, o, to), recovery' = [recovery EXCEPT ![s][k] = NotRecovering],
             Moves(s, status, to, touched[s], touched[s]), to \notin Unstarted
      PROVE  RowStep(s, k)
  BY <1>5, <1>6, NotRecoveringIs
<1>7. CASE AllVerified(s, k) /\ MoveUndo(s, k, o, "verified") /\ recovery' = [recovery EXCEPT ![s][k] = NotRecovering]
  <2>1. Moves(s, status, "verified", touched[s], touched[s]) BY <1>2, <1>3, <1>7 DEF Moves
  <2> QED BY <1>6, <1>7, <2>1 DEF Statuses, Pending, Unstarted, Unsure, Closed
<1>8. CASE \E to \in {"cancelled", "failed"} : NoStepBegan(s, k) /\ MoveUndo(s, k, o, to)
           /\ recovery' = [recovery EXCEPT ![s][k] = NotRecovering]
  <2>1. PICK to \in {"cancelled", "failed"} : MoveUndo(s, k, o, to) BY <1>8
  <2>2. Moves(s, status, to, touched[s], touched[s]) /\ to \in Statuses /\ to \notin Unstarted
    BY <1>2, <1>4, <1>8 DEF Moves, Statuses, Unstarted, Closed
  <2> QED BY <1>6, <1>8, <2>1, <2>2
<1>9. CASE status = "executing" /\ MoveUndo(s, k, o, "uncertain") /\ UNCHANGED recovery
  <2>1. Moves(s, status, "uncertain", touched[s], touched[s]) /\ "uncertain" \in Statuses
        /\ "uncertain" \in Pending /\ "uncertain" \notin Unstarted
    BY <1>9 DEF Moves, Statuses, Pending, Unstarted, Unsure
  <2>2. recovery' = [recovery EXCEPT ![s][k] = recovery[s][k]] /\ recovery[s][k] \in RecoveryRecs
    BY <1>9, Kept, PartsHold DEF Parts
  <2> QED BY <1>5, <1>9, <2>1, <2>2
<1>10. CASE /\ status = "uncertain" /\ MoveUndo(s, k, o, "needs_review")
            /\ recovery' = [recovery EXCEPT ![s][k] = NotRecovering]
  <2>1. Moves(s, status, "needs_review", touched[s], touched[s]) /\ "needs_review" \in Statuses
        /\ "needs_review" \notin Unstarted
    BY <1>10 DEF Moves, Statuses, Pending, Unstarted, Unsure
  <2> QED BY <1>6, <1>10, <2>1
<1>11. CASE recovery' = [recovery EXCEPT ![s][k] = NotRecovering] /\ UNCHANGED <<conf, rows>>
  BY <1>1, <1>11, NotRecoveringIs, RecoveryLeaves
<1>12. NoStepBegan(s, k) /\ MoveUndo(s, k, o, IF status \in Unstarted THEN "cancelled" ELSE "failed")
       => \E to \in {"cancelled", "failed"} : NoStepBegan(s, k) /\ MoveUndo(s, k, o, to)
  OBVIOUS
<1> QED BY <1>7, <1>8, <1>9, <1>10, <1>11, <1>12 DEF RecoverUndo, Status

(* A starting process takes the undo of a dead one.                          *)
LEMMA AdoptStep ==
    ASSUME UndoIInv, NEW s \in Sources, NEW k \in Keys, NEW o \in Owners, Adopt(o, s, k)
    PROVE  RowStep(s, k)
<1> DEFINE u == [undo[s][k] EXCEPT !.owner = o]
           todo == {i \in Steps(s) : StepRow(s, k, i) \in Pending}
           r == [pc |-> "steps", proc |-> o, todo |-> todo]
<1>1. /\ <<s, k>> \in scan[o] /\ undo[s][k].owner \in gone /\ undo[s][k].status \in Pending
      /\ undo' = [undo EXCEPT ![s][k] = u] /\ conf' = Stale(conf) /\ UNCHANGED <<deleted, files, request, live, gone>>
      /\ scan' = [scan EXCEPT ![o] = scan[o] \ {<<s, k>>}] /\ recovery' = [recovery EXCEPT ![s][k] = r]
  BY Kept DEF Adopt, AdoptUndo, Commit, Status
<1>2. Parts(s, k) BY PartsHold
<1>3. o \in live /\ undo[s][k].owner \notin live BY <1>1 DEF UndoIInv, ProcessesHold
<1>4. ~Held(request[s][k])
  BY <1>2, <1>3 DEF Parts, RowIsSound, HandlerIsSound, Held
<1>5. u \in UndoRecs /\ u.status = undo[s][k].status /\ u.owner = o /\ u.step = undo[s][k].step
  BY <1>2 DEF Parts, UndoRecs, Who
<1>6. todo \in SUBSET {1, 2} BY Stages
<1> HIDE DEF todo
<1>7. r \in RecoveryRecs /\ r.proc = o BY <1>6 DEF RecoveryRecs, Who
<1> HIDE DEF u, r
<1>8. StepsAreSound(kind[s], touched[s], u) BY <1>5, HandlerAt DEF StepsAreSound
<1>9. Moves(s, undo[s][k].status, u.status, touched[s], touched[s]) BY <1>5 DEF Moves
<1>10. conf' \in [Sources -> [Keys -> ConfRecs]] BY <1>1, StaleIs
<1>11. ScanShrinks BY <1>1, Kept DEF ScanShrinks
<1> QED BY <1>1, <1>3, <1>4, <1>5, <1>7, <1>8, <1>9, <1>10, <1>11, RecoveryMoves

(* A step that changes neither the row nor its files.                        *)
LEMMA RowStays ==
    ASSUME UndoIInv, NEW s \in Sources, NEW k \in Keys, UNCHANGED <<files, rows, request, recovery, live, gone>>,
           conf' \in [Sources -> [Keys -> ConfRecs]], ScanShrinks
    PROVE  RowStep(s, k)
<1>1. Parts(s, k) BY PartsHold
<1>2. /\ request' = [request EXCEPT ![s][k] = request[s][k]] /\ undo' = [undo EXCEPT ![s][k] = undo[s][k]]
      /\ recovery' = [recovery EXCEPT ![s][k] = recovery[s][k]]
      /\ disk' = [disk EXCEPT ![s] = disk[s]] /\ touched' = [touched EXCEPT ![s] = touched[s]]
      /\ UNCHANGED <<kind, platform, live, gone, deleted>>
  BY Kept DEF files, rows
<1>3. Moves(s, undo[s][k].status, undo[s][k].status, touched[s], touched[s]) BY DEF Moves
<1>4. /\ disk[s] \in DiskStates /\ touched[s] \in Touched /\ DiskTells(kind[s], disk[s], touched[s])
      /\ request[s][k] \in RequestRecs /\ undo[s][k] \in UndoRecs /\ recovery[s][k] \in RecoveryRecs
      /\ RowIsSound(kind[s], touched[s], request[s][k], undo[s][k], recovery[s][k], live)
  BY <1>1 DEF Parts
<1> QED BY <1>2, <1>3, <1>4, StepsOfRows, ZenonT(30)

(* The owner lives, or there is nothing left to recover.                     *)
LEMMA SkipUndoStep ==
    ASSUME UndoIInv, NEW s \in Sources, NEW k \in Keys, NEW o \in Owners, SkipUndo(o, s, k)
    PROVE  RowStep(s, k)
<1>1. /\ scan' = [scan EXCEPT ![o] = scan[o] \ {<<s, k>>}]
      /\ UNCHANGED <<files, rows, conf, request, recovery, live, gone>>
  BY Kept DEF SkipUndo, serving
<1>2. ScanShrinks /\ conf' \in [Sources -> [Keys -> ConfRecs]] BY <1>1, Kept DEF ScanShrinks
<1> QED BY <1>1, <1>2, RowStays

(* Nor does a recovery that passes it over change the row.                   *)
LEMMA PassOverStep ==
    ASSUME UndoIInv, NEW s \in Sources, NEW k \in Keys, NEW o \in Owners, PassOver(o, s, k)
    PROVE  RowStep(s, k)
<1>1. /\ scan' = [scan EXCEPT ![o] = scan[o] \ {<<s, k>>}]
      /\ UNCHANGED <<files, rows, conf, request, recovery, live, gone>>
  BY Kept DEF PassOver, serving
<1>2. ScanShrinks /\ conf' \in [Sources -> [Keys -> ConfRecs]] BY <1>1, Kept DEF ScanShrinks
<1> QED BY <1>1, <1>2, RowStays

(* A recovery that raises keeps the row under its process.                   *)
LEMMA RecoveryRaisesStep ==
    ASSUME UndoIInv, NEW s \in Sources, NEW k \in Keys, RecoveryRaises(s, k)
    PROVE  RowStep(s, k)
<1> DEFINE half == [recovery[s][k] EXCEPT !.pc = "skipped"]
           r == [half EXCEPT !.todo = {}]
           table == [recovery EXCEPT ![s][k].pc = "skipped"]
<1>1. /\ recovery[s][k].pc # "idle" /\ UNCHANGED <<files, conf, request, rows, scan, live, gone>>
      /\ recovery' = [recovery EXCEPT ![s][k].pc = "skipped", ![s][k].todo = {}]
  BY DEF RecoveryRaises, serving
<1>2. recovery \in [Sources -> [Keys -> RecoveryRecs]] /\ recovery[s][k] \in RecoveryRecs
  BY PartsHold DEF Parts, UndoIInv, UndoTypeOK, RecoveryRecs, Who
<1>3. half \in RecoveryRecs /\ half.proc = recovery[s][k].proc BY <1>2 DEF RecoveryRecs
<1>4. r \in RecoveryRecs /\ r.proc = recovery[s][k].proc BY <1>3 DEF RecoveryRecs
<1>5. /\ table = [recovery EXCEPT ![s][k] = half] /\ table[s][k] = half
      /\ table \in [Sources -> [Keys -> RecoveryRecs]]
  BY <1>2, <1>3
<1>6. recovery' = [table EXCEPT ![s][k].todo = {}] BY <1>1
<1>7. recovery' = [table EXCEPT ![s][k] = r] BY <1>5, <1>6
<1>8. recovery' = [recovery EXCEPT ![s][k] = r] BY <1>2, <1>5, <1>7
<1> QED BY <1>1, <1>4, <1>8, RecoveryLeaves

(* A preview only makes a confirmation.                                      *)
LEMMA PreviewStep ==
    ASSUME UndoIInv, NEW s \in Sources, NEW k \in Keys, NEW o \in Owners, Preview(s, k, o)
    PROVE  RowStep(s, k)
<1> DEFINE c == [state |-> "prepared", fresh |-> TRUE, proc |-> o]
<1>1. conf' = [conf EXCEPT ![s][k] = c] /\ UNCHANGED <<files, rows, request, procs>> BY DEF Preview
<1>2. c \in ConfRecs BY DEF ConfRecs, Who
<1>3. conf' \in [Sources -> [Keys -> ConfRecs]] BY <1>1, <1>2, Kept
<1>4. ScanShrinks /\ UNCHANGED <<recovery, live, gone>> BY <1>1, Kept DEF ScanShrinks, procs
<1> QED BY <1>1, <1>3, <1>4, RowStays

(* Whatever is done about one row is such a step.                            *)
LEMMA RowSteps ==
    ASSUME UndoIInv, NEW s \in Sources, NEW k \in Keys,
           \/ \E o \in Owners : Preview(s, k, o) \/ PassOver(o, s, k)
           \/ RecoveryRaises(s, k)
           \/ Confirm(s, k) \/ Handle(s, k) \/ HandlerFails(s, k) \/ Recover(s, k)
    PROVE  RowStep(s, k)
<1>1. ASSUME Handle(s, k) PROVE RowStep(s, k)
  <2>1. CASE Recheck(s, k) \/ Claimed(s, k) \/ Authorize(s, k) \/ Begin(s, k)
    BY <2>1, RecheckStep, ClaimedStep, AuthorizeUndoStep, BeginStep
  <2>2. CASE DenyStep(s, k) \/ PrepareStep(s, k) \/ Plan(s, k) \/ PlanFails(s, k)
    BY <2>2, DenyStepStep, PrepareStepStep, PlanStep, PlanFailsStep
  <2>3. CASE AuthorizeStep(s, k) \/ ExecuteStep(s, k)
    BY <2>3, AuthorizeStepStep, ExecuteStepStep
  <2>4. CASE ApplyWhole(s, k) \/ CheckExact(s, k) \/ Truncate(s, k) \/ Rewrite(s, k) \/ ApplyRaises(s, k)
    BY <2>4, ApplyWholeStep, CheckExactStep, TruncateStep, RewriteStep, ApplyRaisesStep
  <2>5. CASE VerifyStep(s, k) \/ ReviewStep(s, k) \/ FinishUndo(s, k)
    BY <2>5, VerifyStepStep, ReviewStepStep, FinishUndoStep
  <2>6. CASE \E i \in Steps(s) : CancelStep(s, k, i)
    BY <2>6, CancelStepStep
  <2>7. CASE FailUndo(s, k) \/ SuspectUndo(s, k) \/ ReviewUndo(s, k)
    BY <2>7, FailUndoStep, SuspectUndoStep, ReviewUndoStep
  <2> QED BY <1>1, <2>1, <2>2, <2>3, <2>4, <2>5, <2>6, <2>7 DEF Handle
<1>2. ASSUME Recover(s, k) PROVE RowStep(s, k)
  BY <1>2, AdoptStep, SkipUndoStep, RecoverStepStep, RecoverUnsureStepStep, RecoverUndoStep DEF Recover
<1> QED BY <1>1, <1>2, PreviewStep, ConfirmStep, HandlerFailsStep, PassOverStep, RecoveryRaisesStep

------------------------------------------------------------------------------
(* The invariant.                                                            *)

(* A row that holds keeps its place under more processes, and, when it does  *)
(* not depend on a process, under fewer.                                     *)
LEMMA RowSurvives ==
    ASSUME NEW m, NEW t, NEW q, NEW u, NEW r, NEW was, NEW running, RowIsSound(m, t, q, u, r, was),
           q.pc # "idle" => q.proc \in running, r.pc # "idle" => r.proc \in running
    PROVE  RowIsSound(m, t, q, u, r, running)
BY DEF RowIsSound

(* What a row without a claim says holds whatever was touched.               *)
LEMMA ClosedRows ==
    ASSUME NEW m, NEW t, NEW v, NEW q, NEW u, NEW r, RowIsSound(m, t, q, u, r, live), u.status \notin Open
    PROVE  RowIsSound(m, v, q, u, r, live)
<1>1. ~Held(q)
  BY DEF RowIsSound, HandlerIsSound, HeldStatus, Open, Pending, Unstarted, Unsure
<1>2. StepsAreSound(m, v, u) BY DEF RowIsSound, StepsAreSound, Open
<1> QED BY <1>1, <1>2 DEF RowIsSound

(* A step about one row leaves the others sound: it touches the files only   *)
(* under a claim, and then no other row has one.                             *)
LEMMA RowStepKeeps ==
    ASSUME UndoIInv, NEW s \in Sources, NEW k \in Keys, RowStep(s, k)
    PROVE  UndoIInv'
<1> DEFINE was == undo[s][k].status
           is  == undo'[s][k].status
<1>1. UndoTypeOK'
  BY DEF UndoIInv, UndoTypeOK, RowStep, ScanShrinks, Touched, RequestRecs, UndoRecs, StepRows, RecoveryRecs, ConfRecs, Who
<1>2. ProcessesHold' BY DEF UndoIInv, ProcessesHold, RowStep, ScanShrinks
<1>3. /\ DiskTells(kind[s], disk[s], touched[s])
      /\ \A j, l \in Keys : j # l /\ undo[s][j].status \in Open => undo[s][l].status \notin Open
      /\ ~deleted /\ (\A l \in Keys : undo[s][l].status \notin Open) => touched[s] = "untouched"
      /\ deleted => \A l \in Keys : undo[s][l].status = "absent"
  BY DEF UndoIInv, SourceHolds, OpenClaim, Status, Open
<1>4. /\ \A l \in Keys : l # k => undo'[s][l] = undo[s][l]
      /\ deleted' = deleted /\ kind' = kind /\ live' = live
      /\ Moves(s, was, is, touched[s], touched'[s]) /\ DiskTells(kind[s], disk'[s], touched'[s])
  BY DEF RowStep
<1>5. is \in Open => was \in Open \/ \A l \in Keys : undo[s][l].status \notin Open
  BY <1>4 DEF Moves, OpenClaim, Status, Open, Closed, Pending, Unstarted, Unsure
<1>6. touched'[s] # touched[s] => was \in Pending
  BY <1>4 DEF Moves
<1>7. is \notin Open => (is = was /\ touched'[s] = touched[s]) \/ touched'[s] = "untouched"
  BY <1>4 DEF Moves, Open, Closed, Pending, Unstarted, Unsure
<1>8. was = "absent" => is = "absent" \/ ~deleted
  BY <1>4 DEF Moves, Pending, Unstarted, Unsure
<1>9. SourceHolds(s)'
  <2>1. \A j, l \in Keys : j # l /\ undo'[s][j].status \in Open => undo'[s][l].status \notin Open
    BY <1>3, <1>4, <1>5
  <2>2. ~deleted /\ (\A l \in Keys : undo'[s][l].status \notin Open) => touched'[s] = "untouched"
    BY <1>3, <1>4, <1>7
  <2>3. deleted => \A l \in Keys : undo'[s][l].status = "absent" BY <1>3, <1>4, <1>8
  <2> QED BY <1>4, <2>1, <2>2, <2>3 DEF SourceHolds, OpenClaim, Status, Open
<1>10. ASSUME NEW x \in Sources, x # s PROVE SourceHolds(x)'
  <2>1. /\ \A l \in Keys : undo'[x][l] = undo[x][l]
        /\ disk'[x] = disk[x] /\ touched'[x] = touched[x] /\ kind' = kind /\ deleted' = deleted
    BY <1>10 DEF RowStep
  <2>2. SourceHolds(x) BY DEF UndoIInv
  <2> QED BY <2>1, <2>2 DEF SourceHolds, OpenClaim, Status
<1>11. ASSUME NEW x \in Sources, NEW l \in Keys PROVE RowHolds(x, l)'
  <2>1. RowHolds(x, l) BY DEF UndoIInv
  <2>2. CASE x = s /\ l = k BY <2>2 DEF RowStep, RowHolds
  <2>3. CASE x # s BY <2>1, <2>3 DEF RowStep, RowHolds
  <2>4. CASE x = s /\ l # k
    <3>1. undo'[s][l] = undo[s][l] /\ request'[s][l] = request[s][l] /\ recovery'[s][l] = recovery[s][l]
      BY <2>4 DEF RowStep
    <3>2. CASE touched'[s] = touched[s] BY <1>4, <2>1, <2>4, <3>1, <3>2 DEF RowHolds
    <3>3. CASE touched'[s] # touched[s]
      <4>1. undo[s][l].status \notin Open BY <1>3, <1>6, <2>4, <3>3 DEF Open
      <4>2. RowIsSound(kind[s], touched'[s], request[s][l], undo[s][l], recovery[s][l], live)
        BY <2>1, <2>4, <4>1, ClosedRows DEF RowHolds
      <4> QED BY <1>4, <2>4, <3>1, <4>2 DEF RowHolds
    <3> QED BY <3>2, <3>3
  <2> QED BY <2>2, <2>3, <2>4
<1> QED BY <1>1, <1>2, <1>9, <1>10, <1>11 DEF UndoIInv

(* A process starts.                                                         *)
LEMMA StartKeeps ==
    ASSUME UndoIInv, NEW o \in Owners, Start(o)
    PROVE  UndoIInv'
<1>1. /\ o = Cardinality(live \cup gone) + 1 /\ live' = live \cup {o} /\ scan' = [scan EXCEPT ![o] = PendingUndos]
      /\ UNCHANGED <<kind, platform, disk, touched, undo, deleted, conf, request, recovery, gone>>
  BY DEF Start, files, rows, serving
<1>2. PICK n \in Nat : live \cup gone = 1 .. n BY DEF UndoIInv, ProcessesHold
<1>3. Cardinality(1 .. n) = n BY FS_Interval
<1>4. o = n + 1 BY <1>1, <1>2, <1>3
<1>5. PendingUndos \subseteq Sources \X Keys BY DEF PendingUndos
<1>6. UndoTypeOK'
  <2>1. scan \in [Owners -> SUBSET (Sources \X Keys)] /\ live \subseteq Owners BY DEF UndoIInv, UndoTypeOK
  <2>2. scan' \in [Owners -> SUBSET (Sources \X Keys)] /\ live' \subseteq Owners BY <1>1, <1>5, <2>1
  <2> QED BY <1>1, <2>2 DEF UndoIInv, UndoTypeOK
<1>7. ProcessesHold'
  <2>1. live \cap gone = {} /\ \A p \in Owners : scan[p] # {} => p \in live BY DEF UndoIInv, ProcessesHold
  <2>2. o \notin gone BY <1>2, <1>4
  <2>3. live' \cup gone' = 1 .. n + 1 BY <1>1, <1>2, <1>4
  <2>4. scan \in [Owners -> SUBSET (Sources \X Keys)] BY DEF UndoIInv, UndoTypeOK
  <2>5. \A p \in Owners : scan'[p] # {} => p \in live' BY <1>1, <2>1, <2>4
  <2>6. live' \cap gone' = {} BY <1>1, <2>1, <2>2
  <2>7. n + 1 \in Nat OBVIOUS
  <2> QED BY <2>3, <2>5, <2>6, <2>7 DEF ProcessesHold
<1>8. ASSUME NEW s \in Sources PROVE SourceHolds(s)'
  <2>1. SourceHolds(s) BY DEF UndoIInv
  <2> QED BY <1>1, <2>1 DEF SourceHolds, OpenClaim, Status
<1>9. ASSUME NEW s \in Sources, NEW k \in Keys PROVE RowHolds(s, k)'
  <2>1. RowHolds(s, k) BY DEF UndoIInv
  <2>2. RowIsSound(kind[s], touched[s], request[s][k], undo[s][k], recovery[s][k], live') 
    BY <1>1, <2>1, RowSurvives DEF RowHolds, RowIsSound
  <2> QED BY <1>1, <2>2 DEF RowHolds
<1> QED BY <1>6, <1>7, <1>8, <1>9 DEF UndoIInv

(* A process dies, and its requests and recoveries with it.                  *)
LEMMA CrashKeeps ==
    ASSUME UndoIInv, NEW o \in Owners, Crash(o)
    PROVE  UndoIInv'
<1>1. /\ o \in live /\ live' = live \ {o} /\ gone' = gone \cup {o} /\ scan' = [scan EXCEPT ![o] = {}]
      /\ UNCHANGED <<kind, platform, disk, touched, undo, deleted>>
  BY DEF Crash, files, rows
<1>2. /\ conf' = [s \in Sources |-> [k \in Keys |-> IF conf[s][k].proc = o THEN NoConf ELSE conf[s][k]]]
      /\ request' = [s \in Sources |-> [k \in Keys |-> IF request[s][k].proc = o THEN Idle ELSE request[s][k]]]
      /\ recovery' = [s \in Sources |-> [k \in Keys |->
                        IF recovery[s][k].proc = o THEN NotRecovering ELSE recovery[s][k]]]
  BY DEF Crash
<1>3. UndoTypeOK'
  <2>1. /\ conf \in [Sources -> [Keys -> ConfRecs]] /\ request \in [Sources -> [Keys -> RequestRecs]]
        /\ recovery \in [Sources -> [Keys -> RecoveryRecs]] /\ live \subseteq Owners /\ gone \subseteq Owners
        /\ scan \in [Owners -> SUBSET (Sources \X Keys)]
    BY DEF UndoIInv, UndoTypeOK, ConfRecs, RequestRecs, RecoveryRecs, Who
  <2>2. NoConf \in ConfRecs /\ Idle \in RequestRecs /\ NotRecovering \in RecoveryRecs
    BY IdleIs, NotRecoveringIs DEF NoConf, ConfRecs, Who
  <2>3. conf' \in [Sources -> [Keys -> ConfRecs]] BY <1>2, <2>1, <2>2
  <2>4. request' \in [Sources -> [Keys -> RequestRecs]] BY <1>2, <2>1, <2>2
  <2>5. recovery' \in [Sources -> [Keys -> RecoveryRecs]] BY <1>2, <2>1, <2>2
  <2>6. /\ live' \subseteq Owners /\ gone' \subseteq Owners
        /\ scan' \in [Owners -> SUBSET (Sources \X Keys)]
    BY <1>1, <2>1
  <2> QED BY <1>1, <2>3, <2>4, <2>5, <2>6 DEF UndoIInv, UndoTypeOK, ConfRecs, RequestRecs, RecoveryRecs, Who
<1>4. ProcessesHold'
  <2>1. scan \in [Owners -> SUBSET (Sources \X Keys)] BY DEF UndoIInv, UndoTypeOK
  <2>2. live' \cup gone' = live \cup gone /\ live' \cap gone' = {} BY <1>1 DEF UndoIInv, ProcessesHold
  <2>3. \A p \in Owners : scan'[p] # {} => p \in live' BY <1>1, <2>1 DEF UndoIInv, ProcessesHold
  <2> QED BY <2>2, <2>3 DEF UndoIInv, ProcessesHold
<1>5. ASSUME NEW s \in Sources PROVE SourceHolds(s)'
  <2>1. SourceHolds(s) BY DEF UndoIInv
  <2> QED BY <1>1, <2>1 DEF SourceHolds, OpenClaim, Status
<1>6. ASSUME NEW s \in Sources, NEW k \in Keys PROVE RowHolds(s, k)'
  <2> DEFINE q == request'[s][k]
             r == recovery'[s][k]
  <2>1. RowIsSound(kind[s], touched[s], request[s][k], undo[s][k], recovery[s][k], live)
    BY DEF UndoIInv, RowHolds
  <2>2. (q = request[s][k] /\ q.proc # o) \/ q = Idle BY <1>2
  <2>3. (r = recovery[s][k] /\ r.proc # o) \/ r = NotRecovering BY <1>2
  <2>4. RowIsSound(kind[s], touched[s], q, undo[s][k], r, live')
    <3> HIDE DEF q, r
    <3>1. q.pc # "idle" => q.proc \in live'
      BY <1>1, <2>1, <2>2, IdleIs DEF RowIsSound
    <3>2. r.pc # "idle" => r = recovery[s][k] /\ r.proc \in live'
      BY <1>1, <2>1, <2>3, NotRecoveringIs DEF RowIsSound
    <3>3. Held(q) => q = request[s][k] BY <2>2, IdleIs DEF Held
    <3>4. recovery[s][k].pc = "idle" => r.pc = "idle" BY <2>3, NotRecoveringIs
    <3> QED BY <2>1, <3>1, <3>2, <3>3, <3>4 DEF RowIsSound
  <2> QED BY <1>1, <2>4 DEF RowHolds
<1> QED BY <1>3, <1>4, <1>5, <1>6 DEF UndoIInv

(* The user edits a file.                                                    *)
LEMMA EditKeeps ==
    ASSUME UndoIInv, NEW x \in Sources, Edit(x)
    PROVE  UndoIInv'
<1>1. /\ disk' = [disk EXCEPT ![x] = "edited"]
      /\ UNCHANGED <<kind, platform, touched, undo, deleted, conf, request, recovery, scan, live, gone>>
  BY DEF Edit, rows, serving, procs
<1>2. disk \in [Sources -> DiskStates] /\ "edited" \in DiskStates BY DEF UndoIInv, UndoTypeOK, DiskStates
<1>3. disk' \in [Sources -> DiskStates] /\ \A s \in Sources : disk'[s] = disk[s] \/ disk'[s] = "edited"
  BY <1>1, <1>2
<1>4. UndoTypeOK' BY <1>1, <1>3 DEF UndoIInv, UndoTypeOK
<1>5. ProcessesHold' BY <1>1 DEF UndoIInv, ProcessesHold
<1>6. ASSUME NEW s \in Sources PROVE SourceHolds(s)'
  <2>1. SourceHolds(s) BY DEF UndoIInv
  <2>2. DiskTells(kind[s], disk'[s], touched[s]) BY <1>3, <2>1 DEF SourceHolds, DiskTells
  <2> QED BY <1>1, <2>1, <2>2 DEF SourceHolds, OpenClaim, Status
<1>7. ASSUME NEW s \in Sources, NEW k \in Keys PROVE RowHolds(s, k)'
  <2>1. RowHolds(s, k) BY DEF UndoIInv
  <2> QED BY <1>1, <2>1 DEF RowHolds
<1> QED BY <1>4, <1>5, <1>6, <1>7 DEF UndoIInv

(* The conversation goes, with the rows of its settled undos.                *)
LEMMA DeleteKeeps ==
    ASSUME UndoIInv, DeleteConversation
    PROVE  UndoIInv'
<1>1. /\ ~deleted /\ deleted' = TRUE /\ PendingUndos = {}
      /\ undo' = [s \in Sources |-> [k \in Keys |-> NoUndo]]
      /\ UNCHANGED <<kind, platform, disk, touched, conf, request, recovery, scan, live, gone>>
  BY DEF DeleteConversation, files, serving, procs
<1>2. \A s \in Sources, k \in Keys : undo[s][k].status \notin Pending
  <2> SUFFICES ASSUME NEW s \in Sources, NEW k \in Keys, undo[s][k].status \in Pending PROVE FALSE
    OBVIOUS
  <2>1. <<s, k>> \in PendingUndos BY DEF PendingUndos, Status
  <2> QED BY <1>1, <2>1
<1>3. NoUndo \in UndoRecs BY DEF NoUndo, UndoRecs, StepRows, Who
<1>4. UndoTypeOK'
  <2>1. undo' \in [Sources -> [Keys -> UndoRecs]] BY <1>1, <1>3
  <2> QED BY <1>1, <2>1 DEF UndoIInv, UndoTypeOK, UndoRecs, StepRows, Who
<1>5. ProcessesHold' BY <1>1 DEF UndoIInv, ProcessesHold
<1>6. \A s \in Sources, k \in Keys : undo'[s][k] = NoUndo BY <1>1
<1>7. NoUndo.status = "absent" /\ NoUndo.step[1] = "absent" /\ NoUndo.step[2] = "absent" BY DEF NoUndo
<1>8. ASSUME NEW s \in Sources PROVE SourceHolds(s)'
  <2>1. SourceHolds(s) BY DEF UndoIInv
  <2>2. \A k \in Keys : undo'[s][k].status = "absent" BY <1>6, <1>7
  <2> QED BY <1>1, <2>1, <2>2 DEF SourceHolds, OpenClaim, Status, Open, Pending, Unstarted, Unsure
<1>9. ASSUME NEW s \in Sources, NEW k \in Keys PROVE RowHolds(s, k)'
  <2>1. RowIsSound(kind[s], touched[s], request[s][k], undo[s][k], recovery[s][k], live)
    BY DEF UndoIInv, RowHolds
  <2>2. ~Held(request[s][k])
    BY <1>2, <2>1 DEF RowIsSound, HandlerIsSound, HeldStatus, Pending, Unstarted, Unsure
  <2>3. recovery[s][k].pc = "idle" BY <1>2, <2>1 DEF RowIsSound
  <2>4. StepsAreSound(kind[s], touched[s], NoUndo) BY <1>7 DEF StepsAreSound, Pending, Unstarted, Unsure
  <2>5. RowIsSound(kind[s], touched[s], request[s][k], NoUndo, recovery[s][k], live)
    BY <2>1, <2>2, <2>3, <2>4 DEF RowIsSound
  <2> QED BY <1>1, <1>6, <2>5 DEF RowHolds
<1> QED BY <1>4, <1>5, <1>8, <1>9 DEF UndoIInv

(* It holds at first.                                                        *)
LEMMA UndoBegins == UndoInit => UndoIInv
<1> SUFFICES ASSUME UndoInit PROVE UndoIInv OBVIOUS
<1>1. NoConf \in ConfRecs /\ Idle \in RequestRecs /\ NotRecovering \in RecoveryRecs /\ NoUndo \in UndoRecs
  BY IdleIs, NotRecoveringIs DEF NoConf, NoUndo, ConfRecs, UndoRecs, StepRows, Who
<1>2. UndoTypeOK
  <2>1. /\ conf \in [Sources -> [Keys -> ConfRecs]] /\ request \in [Sources -> [Keys -> RequestRecs]]
        /\ recovery \in [Sources -> [Keys -> RecoveryRecs]] /\ undo \in [Sources -> [Keys -> UndoRecs]]
    BY <1>1 DEF UndoInit
  <2>2. /\ disk \in [Sources -> DiskStates] /\ touched \in [Sources -> Touched]
        /\ scan \in [Owners -> SUBSET (Sources \X Keys)]
    BY DEF UndoInit, DiskStates, Touched
  <2> QED BY <2>1, <2>2 DEF UndoInit, UndoTypeOK, ConfRecs, RequestRecs, RecoveryRecs, UndoRecs, StepRows, Touched, Who
<1>3. ProcessesHold
  <2>1. live \cup gone = 1 .. 0 /\ 0 \in Nat /\ \A o \in Owners : scan[o] = {} BY DEF UndoInit
  <2> QED BY <2>1 DEF UndoInit, ProcessesHold
<1>4. NoUndo.status = "absent" /\ NoUndo.step[1] = "absent" /\ NoUndo.step[2] = "absent" BY DEF NoUndo
<1>5. ASSUME NEW s \in Sources PROVE SourceHolds(s)
  BY <1>4 DEF UndoInit, SourceHolds, DiskTells, Status, Open, Pending, Unstarted, Unsure
<1>6. ASSUME NEW s \in Sources, NEW k \in Keys PROVE RowHolds(s, k)
  <2>1. /\ request[s][k].pc = "idle" /\ recovery[s][k].pc = "idle" /\ undo[s][k] = NoUndo
    BY IdleIs, NotRecoveringIs DEF UndoInit
  <2>2. StepsAreSound(kind[s], touched[s], NoUndo) BY <1>4 DEF StepsAreSound, Pending, Unstarted, Unsure
  <2> QED BY <2>1, <2>2 DEF RowHolds, RowIsSound, Held
<1> QED BY <1>2, <1>3, <1>5, <1>6 DEF UndoIInv

(* A step is about a row, or it is one of the others.                        *)
LEMMA UndoSteps ==
    ASSUME UndoIInv, UndoNext
    PROVE  \/ \E s \in Sources, k \in Keys : RowStep(s, k)
           \/ \E o \in Owners : Start(o) \/ Crash(o)
           \/ \E s \in Sources : Edit(s)
           \/ DeleteConversation
BY RowSteps DEF UndoNext

(* Every step keeps the invariant.                                           *)
LEMMA UndoKeeps == UndoIInv /\ [UndoNext]_vars => UndoIInv'
<1> SUFFICES ASSUME UndoIInv, [UndoNext]_vars PROVE UndoIInv' OBVIOUS
<1>1. CASE UndoNext
  BY <1>1, UndoSteps, RowStepKeeps, StartKeeps, CrashKeeps, EditKeeps, DeleteKeeps
<1>2. CASE UNCHANGED vars
  BY <1>2 DEF vars, files, rows, serving, procs, UndoIInv, UndoTypeOK, ProcessesHold, SourceHolds, OpenClaim, Status,
              RowHolds
<1> QED BY <1>1, <1>2

(* It always holds.                                                          *)
LEMMA UndoHolds == UndoSpec => []UndoIInv
<1>1. UndoInit /\ [][UndoNext]_vars => []UndoIInv BY UndoBegins, UndoKeeps, PTL
<1> QED BY <1>1, PTL DEF UndoSpec

(* Every row, request and recovery is in a state the methods of UndoManager  *)
(* can put it in.                                                            *)
THEOREM UndoTypes == UndoSpec => []UndoTypeOK
<1>1. UndoIInv => UndoTypeOK BY DEF UndoIInv
<1> QED BY <1>1, UndoHolds, PTL

(* While a handler has a claim, or a recovery has adopted one, the row is    *)
(* pending under that process and nobody else works on it, for any number of *)
(* requests and processes (claim_undo_operation, adopt_undo_operation).      *)
THEOREM UndosHaveOneHand == UndoSpec => []OneHandPerUndo
<1>1. UndoIInv => OneHandPerUndo
  <2> SUFFICES ASSUME UndoIInv, NEW s \in Sources, NEW k \in Keys
               PROVE  LET handled   == request[s][k].pc \notin {"idle", "confirmed", "checked"}
                          recovered == recovery[s][k].pc # "idle" IN
                      /\ handled /\ recovered => FALSE
                      /\ handled => Status(s, k) \in Pending /\ undo[s][k].owner = request[s][k].proc
                      /\ recovered => Status(s, k) \in Pending /\ undo[s][k].owner = recovery[s][k].proc
    BY DEF OneHandPerUndo
  <2>1. RowIsSound(kind[s], touched[s], request[s][k], undo[s][k], recovery[s][k], live)
    BY DEF UndoIInv, RowHolds
  <2>2. Held(request[s][k]) => undo[s][k].status \in Pending /\ undo[s][k].owner = request[s][k].proc
    BY <2>1 DEF RowIsSound, HandlerIsSound, HeldStatus, Pending, Unstarted, Unsure
  <2> QED BY <2>1, <2>2 DEF RowIsSound, Held, Status
<1> QED BY <1>1, UndoHolds, PTL

(* No undo changes a file that was changed since the operation, except for   *)
(* the rewrite of an overwritten file (_apply_inverse_step looks at the      *)
(* fingerprint in the same call that renames or removes).                    *)
THEOREM ChangedFilesAreLeft == UndoSpec => EditsSurvive
<1>1. ASSUME UndoIInv, UndoNext
      PROVE  \A s \in Sources : kind[s] # "overwrite" /\ disk[s] = "edited" => disk'[s] = "edited"
  <2>1. ASSUME NEW x \in Sources, NEW k \in Keys, RowStep(x, k), NEW s \in Sources,
               kind[s] # "overwrite", disk[s] = "edited"
        PROVE  disk'[s] = "edited"
    BY <2>1 DEF RowStep
  <2>2. ASSUME NEW x \in Sources, Edit(x), NEW s \in Sources, disk[s] = "edited"
        PROVE  disk'[s] = "edited"
    <3>1. disk \in [Sources -> DiskStates] BY <1>1 DEF UndoIInv, UndoTypeOK
    <3> QED BY <2>2, <3>1 DEF Edit
  <2>3. ASSUME NEW o \in Owners, Start(o) \/ Crash(o) PROVE disk' = disk
    BY <2>3 DEF Start, Crash, files
  <2>4. DeleteConversation => disk' = disk BY DEF DeleteConversation, files
  <2> QED BY <1>1, <2>1, <2>2, <2>3, <2>4, UndoSteps
<1>2. UndoIInv /\ [UndoNext]_vars =>
        [\A s \in Sources : kind[s] # "overwrite" /\ disk[s] = "edited" => disk'[s] = "edited"]_vars
  BY <1>1
<1>3. UndoSpec => [][UndoNext]_vars BY PTL DEF UndoSpec
<1> QED BY <1>2, <1>3, UndoHolds, PTL DEF EditsSurvive

------------------------------------------------------------------------------
(* The promise.                                                              *)

(* What the rows of a source say of its inverse, for the states of both ends *)
(* of a step.                                                                *)
Says(forgotten, st) ==
    CASE forgotten                                             -> "forgotten"
      [] \E k \in Keys : st[k] \in {"verified"}                -> "undone"
      [] \E k \in Keys : st[k] \in {"needs_review"}            -> "review"
      [] \E k \in Keys : st[k] \in Pending \ {"needs_review"}  -> "claimed"
      [] OTHER                                                 -> "standing"
StatusesOf(s) == [k \in Keys |-> undo[s][k].status]
OneSays(status) ==
    IF status = "verified" THEN "undone" ELSE IF status = "needs_review" THEN "review" ELSE "claimed"

(* They say it before and after a step.                                      *)
LEMMA PromisedIs ==
    ASSUME NEW s \in Sources
    PROVE  /\ Promised(s) = Says(deleted, StatusesOf(s))
           /\ Promised(s)' = Says(deleted', StatusesOf(s)')
BY DEF Promised, Says, StatusesOf, Status

(* With at most one claim it is that of the claim.                           *)
LEMMA SaysOne ==
    ASSUME NEW forgotten \in BOOLEAN, ~forgotten,
           NEW st, NEW k \in Keys, st[k] \in Open, \A l \in Keys : l # k => st[l] \notin Open
    PROVE  Says(forgotten, st) = OneSays(st[k])
<1> DEFINE some(set) == \E l \in Keys : st[l] \in set
<1>1. /\ some({"verified"}) <=> st[k] = "verified"
      /\ some({"needs_review"}) <=> st[k] = "needs_review"
      /\ some(Pending \ {"needs_review"}) <=> st[k] \in Pending \ {"needs_review"}
  BY DEF Open, Pending, Unsure
<1>2. Says(forgotten, st) =
          CASE forgotten                          -> "forgotten"
            [] some({"verified"})                 -> "undone"
            [] some({"needs_review"})             -> "review"
            [] some(Pending \ {"needs_review"})   -> "claimed"
            [] OTHER                              -> "standing"
  BY DEF Says
<1>3. st[k] = "verified" => ~(st[k] = "needs_review") /\ st[k] \notin Pending \ {"needs_review"}
  BY DEF Pending, Unstarted, Unsure
<1>4. st[k] = "verified" \/ st[k] = "needs_review" \/ st[k] \in Pending \ {"needs_review"} BY DEF Open
<1> HIDE DEF some
<1> QED BY <1>1, <1>2, <1>3, <1>4 DEF OneSays

(* Without one it stands, unless it is forgotten.                            *)
LEMMA SaysNone ==
    ASSUME NEW forgotten \in BOOLEAN, NEW st, \A l \in Keys : st[l] \notin Open
    PROVE  Says(forgotten, st) = IF forgotten THEN "forgotten" ELSE "standing"
<1>1. /\ ~(\E l \in Keys : st[l] \in {"verified"}) /\ ~(\E l \in Keys : st[l] \in {"needs_review"})
      /\ ~(\E l \in Keys : st[l] \in Pending \ {"needs_review"})
  BY DEF Open, Pending, Unsure
<1> QED BY <1>1 DEF Says

(* What a step about a row does to the promise of its source.                *)
PromiseMove(was, is, t, u) ==
    \/ was = is /\ t = u
    \/ was = "standing" /\ is = "claimed" /\ t = "untouched" /\ t = u
    \/ was = "claimed" /\ is = was /\ t # "wholly" /\ u \in {"partly", "wholly"}
    \/ was \in {"claimed", "review"} /\ is = "standing" /\ t = "untouched" /\ t = u
    \/ was \in {"claimed", "review"} /\ is = "undone" /\ t = "wholly" /\ t = u
    \/ was = "claimed" /\ is = "review" /\ t = u
LEMMA RowStepPromises ==
    ASSUME UndoIInv, NEW s \in Sources, NEW k \in Keys, RowStep(s, k)
    PROVE  PromiseMove(Promised(s), Promised(s)', touched[s], touched'[s])
<1> DEFINE was == undo[s][k].status
           is  == undo'[s][k].status
           st  == StatusesOf(s)
           nst == [l \in Keys |-> undo'[s][l].status]
<1>1. /\ DiskTells(kind[s], disk[s], touched[s])
      /\ \A j, l \in Keys : j # l /\ st[j] \in Open => st[l] \notin Open
      /\ ~deleted /\ (\A l \in Keys : st[l] \notin Open) => touched[s] = "untouched"
      /\ deleted => \A l \in Keys : st[l] = "absent"
  BY DEF UndoIInv, SourceHolds, OpenClaim, Status, Open, StatusesOf
<1>2. /\ \A l \in Keys : l # k => nst[l] = st[l]
      /\ deleted' = deleted /\ st[k] = was /\ nst[k] = is
      /\ Moves(s, was, is, touched[s], touched'[s])
  BY DEF RowStep, StatusesOf
<1>3. StatusesOf(s)' = nst BY DEF StatusesOf
<1>4. Promised(s) = Says(deleted, st) /\ Promised(s)' = Says(deleted, nst) BY <1>2, <1>3, PromisedIs
<1>5. CASE is = was
  <2>1. nst = st BY <1>2, <1>5 DEF StatusesOf
  <2>2. CASE touched'[s] = touched[s] BY <1>4, <2>1, <2>2 DEF PromiseMove
  <2>3. CASE touched'[s] # touched[s]
    <3>1. was \in Pending \ {"needs_review"} /\ touched[s] # "wholly" /\ touched'[s] \in {"partly", "wholly"}
      BY <1>2, <1>5, <2>3 DEF Moves, Open, Closed, Pending, Unstarted, Unsure
    <3>2. deleted \in BOOLEAN /\ ~deleted
      BY <1>1, <1>2, <3>1 DEF UndoIInv, UndoTypeOK, Pending, Unstarted, Unsure
    <3>3. Says(deleted, st) = "claimed"
      <4>1. was \in Open /\ OneSays(was) = "claimed" BY <3>1 DEF OneSays, Open, Pending, Unstarted, Unsure
      <4> QED BY <1>1, <1>2, <3>2, <4>1, SaysOne
    <3> QED BY <1>4, <2>1, <3>1, <3>2, <3>3 DEF PromiseMove
  <2> QED BY <2>2, <2>3
<1>6. CASE was = "absent" /\ is = "prepared" /\ is # was
  <2>1. /\ touched'[s] = touched[s] /\ ~deleted /\ \A l \in Keys : st[l] \notin Open
    BY <1>2, <1>6 DEF Moves, OpenClaim, Status, Open, Pending, Unstarted, Unsure, Closed, StatusesOf
  <2>4. deleted \in BOOLEAN BY DEF UndoIInv, UndoTypeOK
  <2>2. Says(deleted, st) = "standing" BY <2>1, <2>4, SaysNone
  <2>3. Says(deleted, nst) = "claimed"
    <3>1. is \in Open /\ OneSays(is) = "claimed" BY <1>6 DEF OneSays, Open, Pending, Unstarted, Unsure
    <3>2. \A l \in Keys : l # k => nst[l] \notin Open BY <1>2, <2>1
    <3> QED BY <1>2, <2>1, <2>4, <3>1, <3>2, SaysOne
  <2> QED BY <1>1, <1>4, <2>1, <2>2, <2>3, <2>4 DEF PromiseMove
<1>7. CASE was \in Pending /\ is # was
  <2>1. deleted \in BOOLEAN /\ ~deleted
    BY <1>1, <1>2, <1>7 DEF UndoIInv, UndoTypeOK, Pending, Unstarted, Unsure
  <2>2. was \in Open BY <1>7 DEF Open
  <2>3. \A l \in Keys : l # k => st[l] \notin Open /\ nst[l] \notin Open BY <1>1, <1>2, <2>2
  <2>4. Says(deleted, st) = OneSays(was) BY <1>2, <2>1, <2>2, <2>3, SaysOne
  <2>5. is \in Open => Says(deleted, nst) = OneSays(is) BY <1>2, <2>1, <2>3, SaysOne
  <2>6. is \notin Open => Says(deleted, nst) = "standing" BY <1>2, <2>1, <2>2, <2>3, SaysNone
  <2>7. touched'[s] = touched[s] BY <1>2, <1>7 DEF Moves
  <2>8. \/ was # "needs_review" /\ is \in Pending
        \/ is \in Closed /\ touched[s] = "untouched"
        \/ is = "verified" /\ touched[s] = "wholly"
    BY <1>2, <1>7 DEF Moves, Pending, Unstarted, Unsure
  <2>9. OneSays(was) \in {"claimed", "review"} /\ (was # "needs_review" => OneSays(was) = "claimed")
    BY <1>7 DEF OneSays, Pending, Unstarted, Unsure
  <2>10. CASE was # "needs_review" /\ is \in Pending
    <3>1. is \in Open /\ OneSays(is) \in {"claimed", "review"}
      BY <2>10 DEF OneSays, Open, Pending, Unstarted, Unsure
    <3> QED BY <1>4, <2>1, <2>4, <2>5, <2>7, <2>9, <2>10, <3>1 DEF PromiseMove
  <2>11. CASE is \in Closed /\ touched[s] = "untouched"
    <3>1. is \notin Open BY <2>11 DEF Open, Closed, Pending, Unstarted, Unsure
    <3> QED BY <1>4, <2>1, <2>4, <2>6, <2>7, <2>9, <2>11, <3>1 DEF PromiseMove
  <2>12. CASE is = "verified" /\ touched[s] = "wholly"
    <3>1. is \in Open /\ OneSays(is) = "undone" BY <2>12 DEF OneSays, Open
    <3> QED BY <1>4, <2>1, <2>4, <2>5, <2>7, <2>9, <2>12, <3>1 DEF PromiseMove
  <2> QED BY <2>8, <2>10, <2>11, <2>12
<1>8. is = was \/ (was = "absent" /\ is = "prepared") \/ was \in Pending BY <1>2 DEF Moves
<1> QED BY <1>5, <1>6, <1>7, <1>8

(* Which is a step of UndoPromise, or none.                                  *)
LEMMA PromiseMoves ==
    ASSUME UndoIInv, NEW s \in Sources, NEW k \in Keys, RowStep(s, k)
    PROVE  [Promise!PromiseNext]_<<[x \in Sources |-> Promised(x)], touched>>
<1> DEFINE bar  == [x \in Sources |-> Promised(x)]
           nbar == [x \in Sources |-> Promised(x)']
<1>1. bar' = nbar OBVIOUS
<1>2. ASSUME NEW x \in Sources, x # s PROVE Promised(x)' = Promised(x)
  <2>1. deleted' = deleted /\ \A l \in Keys : undo'[x][l] = undo[x][l] BY <1>2 DEF RowStep
  <2>2. StatusesOf(x)' = StatusesOf(x) BY <2>1 DEF StatusesOf
  <2> QED BY <2>1, <2>2, PromisedIs
<1>3. nbar = [bar EXCEPT ![s] = Promised(s)'] BY <1>2
<1>4. touched' = [touched EXCEPT ![s] = touched'[s]]
  <2>1. touched \in [Sources -> Touched] BY DEF UndoIInv, UndoTypeOK, Touched
  <2> QED BY <2>1 DEF RowStep
<1>5. PromiseMove(bar[s], Promised(s)', touched[s], touched'[s]) BY RowStepPromises
<1>6. bar = [bar EXCEPT ![s] = bar[s]] /\ touched = [touched EXCEPT ![s] = touched[s]]
  BY DEF UndoIInv, UndoTypeOK
<1> HIDE DEF bar, nbar
<1>7. CASE bar[s] = Promised(s)' /\ touched[s] = touched'[s]
  BY <1>1, <1>3, <1>4, <1>6, <1>7 DEF bar
<1>8. CASE bar[s] = "standing" /\ Promised(s)' = "claimed" /\ touched[s] = "untouched" /\ touched[s] = touched'[s]
  <2>1. Promise!Claim(s) BY <1>1, <1>3, <1>4, <1>6, <1>8 DEF Promise!Claim, bar
  <2> QED BY <2>1 DEF Promise!PromiseNext
<1>9. CASE bar[s] = "claimed" /\ Promised(s)' = bar[s] /\ touched[s] # "wholly" /\ touched'[s] \in {"partly", "wholly"}
  <2>1. Promise!Touch(s) BY <1>1, <1>3, <1>4, <1>6, <1>9 DEF Promise!Touch, bar
  <2> QED BY <2>1 DEF Promise!PromiseNext
<1>10. CASE /\ bar[s] \in {"claimed", "review"} /\ Promised(s)' = "standing"
            /\ touched[s] = "untouched" /\ touched[s] = touched'[s]
  <2>1. Promise!Release(s) BY <1>1, <1>3, <1>4, <1>6, <1>10 DEF Promise!Release, bar
  <2> QED BY <2>1 DEF Promise!PromiseNext
<1>11. CASE /\ bar[s] \in {"claimed", "review"} /\ Promised(s)' = "undone"
            /\ touched[s] = "wholly" /\ touched[s] = touched'[s]
  <2>1. Promise!Finish(s) BY <1>1, <1>3, <1>4, <1>6, <1>11 DEF Promise!Finish, bar
  <2> QED BY <2>1 DEF Promise!PromiseNext
<1>12. CASE bar[s] = "claimed" /\ Promised(s)' = "review" /\ touched[s] = touched'[s]
  <2>1. Promise!Review(s) BY <1>1, <1>3, <1>4, <1>6, <1>12 DEF Promise!Review, bar
  <2> QED BY <2>1 DEF Promise!PromiseNext
<1> QED BY <1>5, <1>7, <1>8, <1>9, <1>10, <1>11, <1>12 DEF PromiseMove

(* The journal, its handlers and its recovery keep UndoPromise: a verified   *)
(* operation is undone by one request at a time and at most once, its undo   *)
(* is given up only untouched and called done only when all of it was        *)
(* applied (file_mutations.py, undo_manager.py).                             *)
THEOREM UndoIsAsPromised == UndoSpec => KeepsPromise
<1> DEFINE bar == [x \in Sources |-> Promised(x)]
<1>1. UndoInit => Promise!PromiseInit
  <2> SUFFICES ASSUME UndoInit PROVE Promise!PromiseInit OBVIOUS
  <2>1. ASSUME NEW s \in Sources PROVE Promised(s) = "standing"
    <3>1. deleted \in BOOLEAN /\ ~deleted /\ \A k \in Keys : StatusesOf(s)[k] \notin Open
      BY DEF UndoInit, StatusesOf, NoUndo, Open, Pending, Unstarted, Unsure
    <3> QED BY <3>1, SaysNone, PromisedIs
  <2> QED BY <2>1 DEF UndoInit, Promise!PromiseInit
<1>2. UndoIInv /\ [UndoNext]_vars => [Promise!PromiseNext]_<<bar, touched>>
  <2> SUFFICES ASSUME UndoIInv, [UndoNext]_vars PROVE [Promise!PromiseNext]_<<bar, touched>> OBVIOUS
  <2>1. ASSUME undo' = undo, deleted' = deleted, touched' = touched PROVE UNCHANGED <<bar, touched>>
    <3>1. ASSUME NEW s \in Sources PROVE Promised(s)' = Promised(s)
      BY <2>1, PromisedIs DEF StatusesOf
    <3> QED BY <2>1, <3>1
  <2>2. CASE UNCHANGED vars BY <2>1, <2>2 DEF vars, files, rows
  <2>3. ASSUME NEW s \in Sources, NEW k \in Keys, RowStep(s, k) PROVE [Promise!PromiseNext]_<<bar, touched>>
    BY <2>3, PromiseMoves
  <2>4. ASSUME NEW o \in Owners, Start(o) \/ Crash(o) PROVE UNCHANGED <<bar, touched>>
    BY <2>1, <2>4 DEF Start, Crash, files, rows
  <2>5. ASSUME NEW s \in Sources, Edit(s) PROVE UNCHANGED <<bar, touched>>
    BY <2>1, <2>5 DEF Edit, rows
  <2>6. CASE DeleteConversation
    <3>1. deleted \in BOOLEAN /\ ~deleted /\ deleted' = TRUE /\ PendingUndos = {} /\ touched' = touched
      BY <2>6 DEF DeleteConversation, files, UndoIInv, UndoTypeOK
    <3>2. ASSUME NEW s \in Sources PROVE Promised(s) \in {"standing", "undone"} /\ Promised(s)' = "forgotten"
      <4>1. \A k \in Keys : StatusesOf(s)[k] \notin Pending
        <5> SUFFICES ASSUME NEW k \in Keys, undo[s][k].status \in Pending PROVE FALSE BY DEF StatusesOf
        <5>1. <<s, k>> \in PendingUndos BY DEF PendingUndos, Status
        <5> QED BY <3>1, <5>1
      <4>2. ~(\E k \in Keys : StatusesOf(s)[k] \in {"needs_review"}) BY <4>1 DEF Pending, Unsure
      <4>3. Says(deleted, StatusesOf(s)) \in {"standing", "undone"} BY <3>1, <4>1, <4>2 DEF Says
      <4>4. \A k \in Keys : undo'[s][k].status = "absent" BY <2>6 DEF DeleteConversation, NoUndo
      <4>5. \A k \in Keys : (StatusesOf(s)')[k] \notin Open
        BY <4>4 DEF StatusesOf, Open, Pending, Unstarted, Unsure
      <4>6. deleted' \in BOOLEAN /\ deleted' BY <3>1
      <4>7. Says(deleted', StatusesOf(s)') = "forgotten" BY <4>5, <4>6, SaysNone
      <4> QED BY <4>3, <4>7, PromisedIs
    <3>3. Promise!Forget BY <3>1, <3>2 DEF Promise!Forget
    <3> QED BY <3>3 DEF Promise!PromiseNext
  <2> QED BY <2>2, <2>3, <2>4, <2>5, <2>6, UndoSteps
<1>3. UndoSpec => UndoInit /\ [][UndoNext]_vars BY PTL DEF UndoSpec
<1>4. UndoIInv /\ [UndoNext]_vars => [Promise!PromiseNext]_(Promise!promise)
  BY <1>2 DEF Promise!promise
<1> QED BY <1>1, <1>3, <1>4, UndoHolds, PTL DEF KeepsPromise, Promise!PromiseSpec
=============================================================================
